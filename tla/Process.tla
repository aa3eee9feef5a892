------------------------------- MODULE Process -------------------------------
(***************************************************************************)
(* The process manager of yotta, core/yta_process.c: one master, the       *)
(* workers it forks, and the signals that reach either of them between any *)
(* two of their steps.                                                     *)
(*                                                                         *)
(* The master's main flow is yta_fork_workers from the installed handlers  *)
(* on.  On top of it run signal_handler ("down"), which never returns, and *)
(* upgrade_handler ("up"), which does.  A signal is blocked in its own     *)
(* handler only, so handlers nest.                                         *)
(***************************************************************************)
EXTENDS Integers, FiniteSets

CONSTANTS
  Workers,      \* number of workers, -w
  MaxPids,      \* bound: processes that can be forked as workers
  MaxDeaths,    \* bound: workers that die on their own
  MaxSignals,   \* bound: different signals sent from outside
  Fails,        \* can fork() and the opening of the pid file fail?
  Terminal      \* signals a terminal sends to the whole process group

Shutdown == {"TERM", "QUIT"}

ASSUME ConstantsAssumption ==
  /\ Workers \in Nat \ {0}
  /\ MaxPids \in Nat
  /\ MaxDeaths \in Nat
  /\ MaxSignals \in Nat
  /\ Fails \in BOOLEAN
  /\ Terminal \subseteq Shutdown

Slots == 1 .. Workers
Pids == 1 .. MaxPids
None == 0               \* pid_t 0: the slot was not filled yet

VARIABLES
  master,       \* "running", "exited" (by the handler), "failed" (by exit(1)), "crashed"
  pc, slot, child, found,       \* the main flow, its i, worker_pid and pid
  count, table, held,           \* worker_count, worker_pids and its storage
  name, file,                   \* pidfile_to_delete; the file that has our pid
  upgraded, successor,          \* the flag, and the process upgrade_handler forked
  top, up, down, signo, rest,   \* the handler that runs; where each one is
  inbox, blocked,               \* signals pending for and blocked in the master
  state, home, copy, pending,   \* of each worker: its life, worker_id, copied table, signals
  sent, deaths                  \* the environment's bounds

main == <<pc, slot, child, found>>
memory == <<count, table, held>>
files == <<name, file>>
upgrade == <<upgraded, successor>>
handlers == <<top, up, down, signo, rest, blocked>>
workers == <<state, home, copy, pending>>
bounds == <<sent, deaths>>
vars == <<master, main, memory, files, upgrade, handlers, inbox, workers, bounds>>

Alive(p) == state[p] \in {"forked", "started", "serving", "draining"}
Child(p) == Alive(p) \/ state[p] = "zombie"
NoTable == [s \in Slots |-> None]
Blank == [table |-> NoTable, name |-> "null"]

Init ==
  /\ master = "running" /\ pc = "pidfile" /\ slot = 1 /\ child = None /\ found = None
  /\ count = 0 /\ table = NoTable /\ held = "null"
  /\ name = "null" /\ file = "none"
  /\ upgraded = FALSE /\ successor = "none"
  /\ top = "main" /\ up = "idle" /\ down = "idle" /\ signo = "none" /\ rest = 1
  /\ inbox = {} /\ blocked = {}
  /\ state = [p \in Pids |-> "unused"] /\ home = [p \in Pids |-> None]
  /\ copy = [p \in Pids |-> Blank]
  /\ pending = [p \in Pids |-> {}]
  /\ sent = {} /\ deaths = 0

-----------------------------------------------------------------------------
(* yta_fork_workers *)

\* Fault variant of Main: the handlers run beside the main flow, which goes on.
MainGoesOn(at) == master = "running" /\ pc = at

Main(at) == master = "running" /\ top = "main" /\ pc = at
Halt(how) == /\ master' = how
             /\ UNCHANGED <<main, memory, files, upgrade, handlers, inbox, workers, bounds>>

WritePidfile ==
  /\ Main("pidfile")
  /\ file' = "pid" /\ pc' = "path"
  /\ UNCHANGED <<master, slot, child, found, memory, name, upgrade, handlers, inbox, workers, bounds>>

\* pidfile_to_delete, assigned after the file was written.
StoreName ==
  /\ Main("path")
  /\ name' = "pid" /\ pc' = "count"
  /\ UNCHANGED <<master, slot, child, found, memory, file, upgrade, handlers, inbox, workers, bounds>>

SetCount ==
  /\ Main("count")
  /\ count' = Workers /\ pc' = "table"
  /\ UNCHANGED <<master, slot, child, found, table, held, files, upgrade, handlers, inbox, workers, bounds>>

AllocTable ==
  /\ Main("table")
  /\ table' = NoTable /\ held' = "set" /\ pc' = "fork"
  /\ UNCHANGED <<master, slot, child, found, count, files, upgrade, handlers, inbox, workers, bounds>>

\* fork() in the first loop and in the respawn loop; process ids are given out in
\* ascending order.
ForkWorker ==
  /\ Main("fork") \/ Main("refork")
  /\ pc' = IF pc = "fork" THEN "store" ELSE "restore"
  /\ \E p \in Pids :
       /\ state[p] = "unused" /\ \A q \in 1 .. (p - 1) : state[q] # "unused"
       /\ child' = p
       /\ state' = [state EXCEPT ![p] = "forked"]
       /\ home' = [home EXCEPT ![p] = slot]
       /\ copy' = [copy EXCEPT ![p] = [table |-> table, name |-> name]]
  /\ UNCHANGED <<master, slot, found, memory, files, upgrade, handlers, inbox, pending, bounds>>

GiveUp == /\ Fails
          /\ \E at \in {"pidfile", "path", "table", "fork", "refork"} : Main(at)
          /\ Halt("failed")

\* Fault variant of IsLast: i <= workers.
IsLastTooFar(i) == i > Workers

\* worker_pids[i] = worker_pid, and the end of the first loop.
Stored == [table EXCEPT ![slot] = child]
IsLast(i) == i = Workers
StoreWorker ==
  /\ Main("store") \/ Main("restore")
  /\ table' = Stored
  /\ IF pc = "restore" \/ IsLast(slot) THEN pc' = "wait" /\ UNCHANGED slot
                                       ELSE pc' = "fork" /\ slot' = slot + 1
  /\ UNCHANGED <<master, child, found, count, held, files, upgrade, handlers, inbox, workers, bounds>>

\* waitpid(-1).  With no child left it fails and the loop goes round unchanged.
Wait ==
  /\ Main("wait")
  /\ \/ \E p \in Pids : /\ state[p] = "zombie"
                        /\ state' = [state EXCEPT ![p] = "reaped"]
                        /\ found' = p
                        /\ UNCHANGED successor
     \/ /\ successor = "dead"
        /\ successor' = "reaped"
        /\ found' = None            \* not in worker_pids
        /\ UNCHANGED state
  /\ pc' = "match"
  /\ UNCHANGED <<master, slot, child, memory, files, upgraded, handlers, inbox, home, copy, pending, bounds>>

\* Fault variants of Replaceable: the process id is not compared; the last slot is left out.
ReplaceableAny(s) == ~upgraded
ReplaceableButLast(s) == found = table[s] /\ ~upgraded /\ s < Workers

Replaceable(s) == found = table[s] /\ ~upgraded

Match ==
  /\ Main("match")
  /\ \/ \E s \in Slots : Replaceable(s) /\ slot' = s /\ pc' = "refork"
     \/ (\A s \in Slots : ~Replaceable(s)) /\ pc' = "wait" /\ UNCHANGED slot
  /\ UNCHANGED <<master, child, found, memory, files, upgrade, handlers, inbox, workers, bounds>>

-----------------------------------------------------------------------------
(* signal_handler *)

Handler(at) == master = "running" /\ top = "down" /\ down = at

\* Fault variant of Deliverable: a signal is not blocked in its own handler.
DeliverableAgain == inbox

Deliverable == inbox \ blocked

\* A shutdown signal interrupts whatever the master does.
TakeShutdown(sig) ==
  /\ master = "running" /\ sig \in Deliverable
  /\ inbox' = inbox \ {sig} /\ blocked' = blocked \cup {sig}
  /\ top' = "down" /\ down' = "forward" /\ signo' = sig
  /\ UNCHANGED <<master, main, memory, files, upgrade, up, rest, workers, bounds>>

\* kill() of every entry of t.  Process 0 is the caller's process group.
\* Fault variant of Reached: entries that are 0 are skipped.
ReachedIfStored(t) == {p \in Pids : Alive(p) /\ \E s \in Slots : t[s] = p}

Reached(t) == {p \in Pids : Alive(p) /\ \E s \in Slots : t[s] \in {p, None}}
Signalled(ps, sig) == [p \in Pids |-> IF p \in ps THEN pending[p] \cup {sig} ELSE pending[p]]
ToMaster(t, sig) == IF \E s \in Slots : t[s] = None THEN inbox \cup {sig} ELSE inbox

Forward ==
  /\ Handler("forward") /\ held # "freed"
  /\ down' = "reap" /\ rest' = 1
  /\ IF held = "set" THEN /\ pending' = Signalled(Reached(table), signo)
                          /\ inbox' = ToMaster(table, signo)
                     ELSE UNCHANGED <<pending, inbox>>
  /\ UNCHANGED <<master, main, memory, files, upgrade, top, up, signo, blocked, state, home, copy, bounds>>

\* worker_pids is used while it is NULL, or after the handler below has freed it.
BadTable ==
  /\ \/ Handler("forward") /\ held = "freed"
     \/ Handler("reap") /\ rest <= count /\ held = "null"
  /\ Halt("crashed")

\* Fault variant of Waited: with WNOHANG.
WaitedNoHang(p) ==
  IF p # None /\ state[p] = "zombie" THEN state' = [state EXCEPT ![p] = "reaped"] /\ UNCHANGED successor
                                    ELSE UNCHANGED <<state, successor>>

\* waitpid(worker_pids[rest]); process 0 stands for any child of the group.
Waited(p) ==
  \/ p # None /\ state[p] = "zombie" /\ state' = [state EXCEPT ![p] = "reaped"] /\ UNCHANGED successor
  \/ p # None /\ ~Child(p) /\ UNCHANGED <<state, successor>>
  \/ /\ p = None
     /\ \E q \in Pids : state[q] = "zombie" /\ state' = [state EXCEPT ![q] = "reaped"]
     /\ UNCHANGED successor
  \/ p = None /\ successor = "dead" /\ successor' = "reaped" /\ UNCHANGED state
  \/ /\ p = None /\ (\A q \in Pids : ~Child(q)) /\ successor \notin {"running", "dead"}
     /\ UNCHANGED <<state, successor>>

Reap ==
  /\ Handler("reap") /\ rest <= count /\ held = "set"
  /\ Waited(table[rest])
  /\ rest' = rest + 1
  /\ UNCHANGED <<master, main, memory, files, upgraded, top, up, down, signo, blocked, inbox,
                 home, copy, pending, bounds>>

\* exit_and_cleanup_main
FreeTable ==
  /\ Handler("reap") /\ rest > count
  /\ held' = IF held = "set" THEN "freed" ELSE held
  /\ down' = "remove"
  /\ UNCHANGED <<master, main, count, table, files, upgrade, top, up, signo, rest, blocked, inbox, workers, bounds>>

RemovePidfile ==
  /\ Handler("remove")
  /\ file' = IF file = name THEN "none" ELSE file
  /\ down' = "exit"
  /\ UNCHANGED <<master, main, memory, name, upgrade, top, up, signo, rest, blocked, inbox, workers, bounds>>

Exit == Handler("exit") /\ Halt("exited")

-----------------------------------------------------------------------------
(* upgrade_handler *)

Upgrading(at) == master = "running" /\ top = "up" /\ up = at
Return == /\ up' = "idle" /\ blocked' = blocked \ {"USR1"}
          /\ top' = IF down = "idle" THEN "main" ELSE "down"

TakeUpgrade ==
  /\ master = "running" /\ "USR1" \in Deliverable
  /\ inbox' = inbox \ {"USR1"} /\ blocked' = blocked \cup {"USR1"}
  /\ top' = "up" /\ up' = "rename"
  /\ UNCHANGED <<master, main, memory, files, upgrade, down, signo, rest, workers, bounds>>

RenamePidfile ==
  /\ Upgrading("rename") /\ name # "null"
  /\ \/ /\ file = name
        /\ file' = "old" /\ up' = "name"
        /\ UNCHANGED <<top, blocked>>
     \/ (file # name \/ Fails) /\ Return /\ UNCHANGED file
  /\ UNCHANGED <<master, main, memory, name, upgrade, down, signo, rest, inbox, workers, bounds>>

\* Fault variant of NewName: the new name is not stored.
NameKept == name
NewName == "old"

\* The new name is stored, the environment built, upgraded set.
MarkUpgraded ==
  /\ Upgrading("name") /\ pc \notin {"count", "table"}
  /\ name' = NewName /\ upgraded' = TRUE /\ up' = "spawn"
  /\ UNCHANGED <<master, main, memory, file, successor, top, down, signo, rest, blocked, inbox, workers, bounds>>

\* No pid file name yet, or no listen_fds yet: a null pointer is followed.
UpgradeTooEarly ==
  /\ \/ Upgrading("rename") /\ name = "null"
     \/ Upgrading("name") /\ pc \in {"count", "table"}
  /\ Halt("crashed")

SpawnSuccessor ==
  /\ Upgrading("spawn")
  /\ successor' = "running" \/ (Fails /\ UNCHANGED successor)
  /\ Return
  /\ UNCHANGED <<master, main, memory, files, upgraded, down, signo, rest, inbox, workers, bounds>>

-----------------------------------------------------------------------------
(* A worker *)

Become(p, s) ==
  /\ state' = [state EXCEPT ![p] = s]
  /\ UNCHANGED <<master, main, memory, upgrade, name, handlers, home, bounds>>

\* setup_worker_signal_handlers: the master's handlers are replaced.
StartWorker(p) ==
  /\ state[p] = "forked"
  /\ Become(p, "started")
  /\ copy' = [copy EXCEPT ![p] = Blank]   \* not used any more
  /\ UNCHANGED <<file, inbox, pending>>

\* serve() has blocked SIGQUIT and reads it from a signalfd.
ServeWorker(p) ==
  /\ state[p] = "started"
  /\ Become(p, "serving")
  /\ UNCHANGED <<file, inbox, copy, pending>>

\* signal_handler in a child that still has the master's handlers: it signals the
\* processes it copied, has none to wait for, removes the pid file and exits.  What it
\* copied tells afterwards how it ended.
InheritedHandler(p, sig) ==
  /\ state[p] = "forked" /\ sig \in pending[p]
  /\ Become(p, "zombie")
  /\ pending' = [Signalled(Reached(copy[p].table), sig) EXCEPT ![p] = {}]
  /\ inbox' = ToMaster(copy[p].table, sig)
  /\ file' = IF file = copy[p].name THEN "none" ELSE file
  /\ UNCHANGED copy

\* The default action ends the worker; a serving one drains on SIGQUIT.
SignalWorker(p, sig) ==
  /\ state[p] \in {"started", "serving", "draining"} /\ sig \in pending[p]
  /\ \/ sig = "TERM" \/ state[p] = "started"
     \/ sig = "QUIT" /\ state[p] = "serving"
  /\ Become(p, IF sig = "QUIT" /\ state[p] = "serving" THEN "draining" ELSE "zombie")
  /\ pending' = [pending EXCEPT ![p] = IF sig = "QUIT" /\ state[p] = "serving" THEN @ \ {sig} ELSE {}]
  /\ UNCHANGED <<file, inbox, copy>>

\* The last client is gone.
Drained(p) ==
  /\ state[p] = "draining"
  /\ Become(p, "zombie")
  /\ pending' = [pending EXCEPT ![p] = {}]
  /\ UNCHANGED <<file, inbox, copy>>

WorkerStep(p) ==
  \/ StartWorker(p) \/ ServeWorker(p) \/ Drained(p)
  \/ \E sig \in Shutdown : InheritedHandler(p, sig) \/ SignalWorker(p, sig)

-----------------------------------------------------------------------------
(* The environment *)

Sendable(sig) == master = "running" /\ sig \notin sent /\ Cardinality(sent) < MaxSignals

\* Somebody signals the master (each signal once).
Kill(sig) ==
  /\ Sendable(sig)
  /\ sent' = sent \cup {sig} /\ inbox' = inbox \cup {sig}
  /\ UNCHANGED <<master, main, memory, files, upgrade, handlers, workers, deaths>>

\* A terminal signals everybody.
KillGroup(sig) ==
  /\ sig \in Terminal /\ Sendable(sig)
  /\ sent' = sent \cup {sig} /\ inbox' = inbox \cup {sig}
  /\ pending' = Signalled({p \in Pids : Alive(p)}, sig)
  /\ UNCHANGED <<master, main, memory, files, upgrade, handlers, state, home, copy, deaths>>

\* Somebody signals one worker.
KillWorker(p, sig) ==
  /\ Sendable(sig) /\ Alive(p)
  /\ sent' = sent \cup {sig}
  /\ pending' = Signalled({p}, sig)
  /\ UNCHANGED <<master, main, memory, files, upgrade, handlers, inbox, state, home, copy, deaths>>

\* A worker dies: an assertion, an exception, exit(1), SIGKILL.
Die(p) ==
  /\ master = "running" /\ Alive(p) /\ deaths < MaxDeaths
  /\ deaths' = deaths + 1
  /\ state' = [state EXCEPT ![p] = "zombie"] /\ pending' = [pending EXCEPT ![p] = {}]
  /\ copy' = [copy EXCEPT ![p] = Blank]
  /\ UNCHANGED <<master, main, memory, files, upgrade, handlers, inbox, home, sent>>

\* The forked process ends: execve failed, it became a daemon, or it is the next master.
SuccessorEnds ==
  /\ successor = "running"
  /\ successor' = "dead"
  /\ UNCHANGED <<master, main, memory, files, upgraded, handlers, inbox, workers, bounds>>

-----------------------------------------------------------------------------
MainFlow == \/ WritePidfile \/ StoreName \/ SetCount \/ AllocTable
            \/ ForkWorker \/ StoreWorker \/ Wait \/ Match \/ GiveUp
SignalHandler == Forward \/ BadTable \/ Reap \/ FreeTable \/ RemovePidfile \/ Exit
UpgradeHandler == RenamePidfile \/ MarkUpgraded \/ UpgradeTooEarly \/ SpawnSuccessor
Deliver == TakeUpgrade \/ \E sig \in Shutdown : TakeShutdown(sig)
Environment == \/ \E sig \in Shutdown \cup {"USR1"} : Kill(sig)
               \/ \E sig \in Shutdown : KillGroup(sig)
               \/ \E p \in Pids, sig \in Shutdown : KillWorker(p, sig)
               \/ \E p \in Pids : Die(p)
               \/ SuccessorEnds

Next == MainFlow \/ SignalHandler \/ UpgradeHandler \/ Deliver \/ Environment
        \/ \E p \in Pids : WorkerStep(p)

Spec == Init /\ [][Next]_vars

\* The processes run; each takes finitely many steps.  That a client leaves (Drained)
\* or that the next master ends (SuccessorEnds) is not in their hands.
Running == \/ MainFlow \/ SignalHandler \/ UpgradeHandler \/ Deliver
           \/ \E p \in Pids : WorkerStep(p) /\ state[p] # "draining"
FairSpec == Spec /\ WF_vars(Running)
-----------------------------------------------------------------------------
(* Properties *)

\* Every variable has its type.
TypeOK ==
  /\ master \in {"running", "exited", "failed", "crashed"}
  /\ pc \in {"pidfile", "path", "count", "table", "fork", "store", "wait", "match", "refork", "restore"}
  /\ slot \in Slots /\ child \in Pids \cup {None} /\ found \in Pids \cup {None}
  /\ count \in {0, Workers} /\ table \in [Slots -> Pids \cup {None}]
  /\ held \in {"null", "set", "freed"}
  /\ name \in {"null", "pid", "old"} /\ file \in {"none", "pid", "old"}
  /\ upgraded \in BOOLEAN /\ successor \in {"none", "running", "dead", "reaped"}
  /\ top \in {"main", "down", "up"} /\ up \in {"idle", "rename", "name", "spawn"}
  /\ down \in {"idle", "forward", "reap", "remove", "exit"}
  /\ signo \in Shutdown \cup {"none"} /\ rest \in 1 .. (Workers + 1)
  /\ inbox \subseteq Shutdown \cup {"USR1"} /\ blocked \subseteq Shutdown \cup {"USR1"}
  /\ state \in [Pids -> {"unused", "forked", "started", "serving", "draining", "zombie", "reaped"}]
  /\ home \in [Pids -> Slots \cup {None}]
  /\ copy \in [Pids -> [table : [Slots -> Pids \cup {None}], name : {"null", "pid", "old"}]]
  /\ pending \in [Pids -> SUBSET Shutdown]
  /\ sent \subseteq Shutdown \cup {"USR1"} /\ deaths \in 0 .. MaxDeaths

\* No two live workers serve the same listening socket (worker_id).
OneWorkerPerSocket ==
  \A p, q \in Pids : Alive(p) /\ Alive(q) /\ home[p] = home[q] => p = q

\* The respawn loop waits only for children that are there: until an upgrade,
\* each entry of worker_pids is one, so waitpid(-1) cannot fail for ever.
WaitNeverFails ==
  Main("wait") /\ ~upgraded => \A s \in Slots : table[s] # None /\ Child(table[s])

\* When signal_handler has ended the master, no worker is left: not even one that was
\* forked in the first loop and is not in worker_pids yet, because its entry is 0 and
\* reaches the whole group.  Left out are the worker of an interrupted respawn, and
\* one that was signalled while waitpid(0) took the next generation for it.
ShutdownComplete ==
  master = "exited" =>
    \A p \in Pids : Alive(p) => \/ (pc = "restore" /\ child = p)
                               \/ (upgraded /\ (pending[p] # {} \/ state[p] = "draining"))

\* Comment at core/yta_process.c:103: "workers have to die anyway".
WorkersDieAnyway == master = "exited" => \A p \in Pids : ~Alive(p)

\* The pid file goes with the master, under the name it has then; only a shutdown
\* between writing or renaming the file and the assignment of the name leaves it behind.
PidfileRemoved == master = "exited" /\ up # "name" /\ pc # "path" => file = "none"

\* A worker that ended in signal_handler, which it still had from the master.
EndedInHandler(p) == state[p] \in {"zombie", "reaped"} /\ copy[p] # Blank

\* And it stays until the master is told to stop, whatever happens to the workers;
\* only one that gets a signal of its own before it has set up its handlers removes it.
PidfileStands ==
  master = "running" /\ pc \notin {"pidfile", "path"} /\ up # "name" /\ down = "idle" /\ inbox \cap Shutdown = {}
    => file = name \/ (file = "none" /\ \E p \in Pids : EndedInHandler(p))

\* worker_pids is used while it is NULL or freed only if the signal comes between
\* the assignment of worker_count and calloc(), or if a second one interrupts the
\* handler of the first.
TableIntact ==
  master = "crashed" => pc \in {"pidfile", "path", "count", "table"} \/ Shutdown \subseteq blocked

\* No worker drains for ever.
WorkersDrain == []<>(\A p \in Pids : state[p] # "draining")

\* waitpid(0), for an entry that was not filled, also waits for the next master.
WaitsForNext == Handler("reap") /\ rest <= count /\ table[rest] = None /\ successor = "running"

\* If its workers drain, a master that was told to stop ends, whatever else is sent to it
\* meanwhile, unless it is left waiting for the next master to end.
ShutdownEnds ==
  WorkersDrain /\ []<>~WaitsForNext => (down # "idle" ~> master # "running")

\* After a death there comes a time when each slot has a live worker again, unless the
\* master was upgraded, is told to stop, or ends (as it does when fork() fails).
Occupied(s) == \E p \in Pids : table[s] = p /\ Alive(p)
Replaced ==
  (\E s \in Slots : table[s] # None /\ ~Occupied(s)) ~>
    (\A s \in Slots : Occupied(s)) \/ upgraded \/ down # "idle" \/ master # "running"

\* The manager as its users see it: a worker in each slot, none started when it stops.
Manager == INSTANCE Supervisor WITH
  Staff <- Pids, Nobody <- None,
  phase <- IF master # "running" THEN "gone" ELSE IF down # "idle" THEN "stopping" ELSE "running",
  post <- [s \in Slots |-> IF \E p \in Pids : Alive(p) /\ home[p] = s
                           THEN CHOOSE p \in Pids : Alive(p) /\ home[p] = s ELSE None]
ImplementsSupervisor == Manager!Spec
==============================================================================
