----------------------------- MODULE Supervisor ------------------------------
(***************************************************************************)
(* What the process manager promises: each slot has at most one worker, a  *)
(* worker is only started in an empty slot while the manager runs          *)
(* undisturbed, and a manager that is stopping or gone starts none.        *)
(***************************************************************************)
CONSTANTS
  Slots,      \* the worker ids
  Staff,      \* the processes a worker can be
  Nobody      \* marks an empty slot

VARIABLES
  phase,      \* "running", "stopping" or "gone"
  post        \* the worker that is alive in each slot
vars == <<phase, post>>

Init == /\ phase = "running"
        /\ post = [s \in Slots |-> Nobody]

Spawn == /\ phase = "running"
         /\ \E s \in Slots, p \in Staff :
              /\ post[s] = Nobody
              /\ post' = [post EXCEPT ![s] = p]
         /\ UNCHANGED phase

\* A worker ends, by itself or because it was told to.
Lose == /\ \E s \in Slots : post' = [post EXCEPT ![s] = Nobody]
        /\ UNCHANGED phase

Stop == /\ phase = "running"
        /\ phase' = "stopping"
        /\ UNCHANGED post

End == /\ phase # "gone"
       /\ phase' = "gone"
       /\ UNCHANGED post

Next == Spawn \/ Lose \/ Stop \/ End

Spec == Init /\ [][Next]_vars
==============================================================================
