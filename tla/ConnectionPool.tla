---------------------------- MODULE ConnectionPool ----------------------------
(***************************************************************************)
(* What a worker promises about its clients, without epoll, buffers or     *)
(* callbacks: a connection is opened at most once and closed at most once, *)
(* none is opened once the worker drains, and the worker stops only when   *)
(* none is open.  A crash may end it at any point.                         *)
(***************************************************************************)
CONSTANT Conns

VARIABLES open, closed, draining, status

poolVars == <<open, closed, draining, status>>

PoolInit ==
  /\ open = {} /\ closed = {}
  /\ draining = FALSE
  /\ status = "running"

Open(c) ==
  /\ status = "running" /\ ~draining
  /\ c \notin open \cup closed
  /\ open' = open \cup {c}
  /\ UNCHANGED <<closed, draining, status>>

Close(c) ==
  /\ status = "running" /\ c \in open
  /\ open' = open \ {c}
  /\ closed' = closed \cup {c}
  /\ UNCHANGED <<draining, status>>

Drain ==
  /\ status = "running" /\ ~draining
  /\ draining' = TRUE
  /\ UNCHANGED <<open, closed, status>>

Stop ==
  /\ status = "running" /\ draining /\ open = {}
  /\ status' = "stopped"
  /\ UNCHANGED <<open, closed, draining>>

Crash ==
  /\ status = "running"
  /\ status' = "crashed"
  /\ UNCHANGED <<open, closed, draining>>

PoolNext ==
  \/ \E c \in Conns : Open(c) \/ Close(c)
  \/ Drain \/ Stop \/ Crash

PoolSpec == PoolInit /\ [][PoolNext]_poolVars
==============================================================================
