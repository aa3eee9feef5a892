---------------------------- MODULE ProcessProofs ----------------------------
(***************************************************************************)
(* Proofs about Process, for any number of workers, processes, deaths and  *)
(* signals.                                                                *)
(*                                                                         *)
(* The properties are not inductive: that no two workers share a slot      *)
(* needs that an entry of worker_pids is the worker of its slot (KnownOK)  *)
(* and where the main flow has been (FlowOK); that the master waits for    *)
(* all of them needs how far signal_handler has got (WaitingOK), and that  *)
(* the entries it finds empty are those the interrupted main flow has not  *)
(* filled.  IInv is their conjunction: Init establishes it, every step     *)
(* keeps it, and the theorems follow from it.                              *)
(***************************************************************************)
EXTENDS Process, TLAPS

\* The worker whose process id is not stored yet.
InFlight(p) == pc \in {"store", "restore"} /\ child = p /\ home[p] = slot

\* Every child is in the slot it was forked for, or in flight; entries are workers of
\* their slot.  So entries are distinct.
KnownOK ==
  /\ \A p \in Pids : Child(p) => InFlight(p) \/ (home[p] \in Slots /\ table[home[p]] = p)
  /\ \A s \in Slots : table[s] # None => home[table[s]] = s /\ state[table[s]] # "unused"

\* What the main flow has filled, freed and found where it is.
FlowOK ==
  /\ pc \in {"pidfile", "path", "count", "table"} => \A p \in Pids : state[p] = "unused"
  /\ pc \in {"pidfile", "path", "count", "table", "fork", "store"} => \A s \in slot .. Workers : table[s] = None
  /\ pc \in {"fork", "store"} => \A s \in 1 .. (slot - 1) : table[s] # None
  /\ pc \in {"wait", "match", "refork", "restore"} => \A s \in Slots : table[s] # None
  /\ pc \in {"pidfile", "path", "count", "table"} => slot = 1
  /\ pc \in {"store", "restore"} => child # None /\ home[child] = slot /\ state[child] # "unused"
  /\ pc = "match" /\ found # None => state[found] = "reaped"
  /\ pc \in {"refork", "restore"} => state[table[slot]] = "reaped"
  /\ count = IF pc \in {"pidfile", "path", "count"} THEN 0 ELSE Workers
  /\ held = "null" <=> pc \in {"pidfile", "path", "count", "table"}
  /\ name = "null" <=> pc \in {"pidfile", "path"}

\* Until an upgrade or a shutdown, each slot that was filled has a child, except the
\* one that is being replaced.
FilledOK ==
  ~upgraded /\ down = "idle" =>
    /\ pc \in {"store", "restore"} => Child(child)
    /\ \A s \in Slots :
         table[s] # None =>
           Child(table[s]) \/ (pc = "match" /\ found = table[s])
             \/ (pc \in {"refork", "restore"} /\ s = slot)

\* Which handler runs, and which signals it blocks.
HandlersOK ==
  /\ top = "main" => down = "idle" /\ up = "idle"
  /\ top = "down" => down # "idle"
  /\ top = "up" => up # "idle"
  /\ up # "idle" => "USR1" \in blocked
  /\ down # "idle" => signo \in Shutdown \cap blocked
  /\ held = "freed" => down \in {"remove", "exit"} \/ (Shutdown \subseteq blocked)
  /\ up = "spawn" => upgraded
  /\ successor # "none" => upgraded

\* How far signal_handler has got in waiting for the workers.
Told(p) == Alive(p) => pending[p] # {} \/ state[p] = "draining"
WaitingOK ==
  /\ down = "reap" => \A s \in Slots : s < rest /\ table[s] # None => ~Child(table[s])
  /\ down \in {"remove", "exit"} => \A s \in Slots : table[s] # None => ~Child(table[s])
  /\ pc = "store" /\ down \in {"reap", "remove", "exit"} => Told(child)
  /\ pc = "store" /\ ~upgraded => /\ down = "reap" /\ rest > slot => ~Child(child)
                                  /\ down \in {"remove", "exit"} => ~Child(child)

\* The pid file has the name pidfile_to_delete, or is gone.  A worker is forked when that
\* is assigned, so what a forked worker has copied is never Blank.
FilesOK ==
  /\ \A p \in Pids : state[p] = "forked" => copy[p].name # "null"
  /\ file \in {"none", name} \/ up = "name" \/ pc = "path"
  /\ pc = "path" => file = "pid"
  /\ up = "name" => name # "null" /\ file \in {"none", "old"}
  /\ down = "exit" => file = "none" \/ pc = "path" \/ (up = "name" /\ top = "down")
  /\ down = "idle" /\ inbox \cap Shutdown = {} /\ name # "null" =>
       \/ IF up = "name" THEN file = "old" ELSE file = name
       \/ \E p \in Pids : EndedInHandler(p)

\* How the master ended.
EndOK ==
  /\ master = "exited" => down = "exit"
  /\ TableIntact

IInv == TypeOK /\ KnownOK /\ FlowOK /\ FilledOK /\ HandlersOK /\ WaitingOK /\ FilesOK /\ EndOK

-----------------------------------------------------------------------------
LEMMA SignalledType ==
  ASSUME pending \in [Pids -> SUBSET Shutdown], NEW ps, NEW sig \in Shutdown
  PROVE  /\ Signalled(ps, sig) \in [Pids -> SUBSET Shutdown]
         /\ \A p \in Pids : /\ pending[p] \subseteq Signalled(ps, sig)[p]
                            /\ p \in ps => sig \in Signalled(ps, sig)[p]
  BY DEF Signalled

LEMMA BlankType ==
  /\ Blank \in [table : [Slots -> Pids \cup {None}], name : {"null", "pid", "old"}]
  /\ Blank.name = "null"
  BY DEF Blank, NoTable

LEMMA ToMasterType ==
  ASSUME inbox \subseteq Shutdown \cup {"USR1"}, NEW t, NEW sig \in Shutdown
  PROVE  /\ ToMaster(t, sig) \subseteq Shutdown \cup {"USR1"}
         /\ inbox \subseteq ToMaster(t, sig)
         /\ ToMaster(t, sig) \cap Shutdown = {} => inbox \cap Shutdown = {}
  BY DEF ToMaster

\* Nothing of the state is read by the start but the constants.
LEMMA InitIInv == Init => IInv
<1> USE ConstantsAssumption DEF Init, Slots, Pids, None, NoTable, Blank
<1> SUFFICES ASSUME Init PROVE IInv
  OBVIOUS
<1>1. TypeOK
  <2>1. copy \in [Pids -> [table : [Slots -> Pids \cup {None}], name : {"null", "pid", "old"}]]
    OBVIOUS
  <2>2. /\ table \in [Slots -> Pids \cup {None}]
        /\ pending \in [Pids -> SUBSET Shutdown]
        /\ deaths \in 0 .. MaxDeaths
        /\ rest \in 1 .. (Workers + 1) /\ slot \in Slots
    OBVIOUS
  <2>3. /\ state \in [Pids -> {"unused", "forked", "started", "serving", "draining", "zombie", "reaped"}]
        /\ home \in [Pids -> Slots \cup {None}]
    OBVIOUS
  <2> QED
    BY <2>1, <2>2, <2>3 DEF TypeOK
<1>2. KnownOK /\ FlowOK /\ FilledOK
  BY DEF KnownOK, FlowOK, FilledOK, InFlight, Child, Alive
<1>3. HandlersOK /\ WaitingOK /\ FilesOK /\ EndOK
  BY DEF HandlersOK, WaitingOK, FilesOK, EndOK, TableIntact
<1> QED
  BY <1>1, <1>2, <1>3 DEF IInv

\* The main flow: a worker is in flight between fork() and the assignment.
LEMMA MainFlowStep == IInv /\ MainFlow => IInv'
<1> USE ConstantsAssumption
    DEF IInv, TypeOK, KnownOK, FlowOK, FilledOK, HandlersOK, WaitingOK, FilesOK, EndOK,
        TableIntact, InFlight, Child, Alive, Told, EndedInHandler, Slots,
        Pids, None, Shutdown, NoTable, main, memory, files, upgrade, handlers, workers, bounds
<1>1. ASSUME IInv, WritePidfile PROVE IInv'
  BY <1>1 DEF WritePidfile, Main
<1>9. ASSUME IInv, StoreName PROVE IInv'
  <2>1. TypeOK' /\ KnownOK' /\ FlowOK' /\ FilledOK'
    BY <1>9 DEF StoreName, Main
  <2>2. HandlersOK' /\ WaitingOK' /\ FilesOK' /\ EndOK'
    BY <1>9 DEF StoreName, Main
  <2> QED
    BY <2>1, <2>2
<1>2. ASSUME IInv, SetCount PROVE IInv'
  BY <1>2 DEF SetCount, Main
<1>3. ASSUME IInv, AllocTable PROVE IInv'
  <2>1. TypeOK'
    BY <1>3 DEF AllocTable, Main
  <2>2. KnownOK' /\ FlowOK' /\ FilledOK'
    BY <1>3, SMTT(40) DEF AllocTable, Main
  <2>3. HandlersOK' /\ WaitingOK' /\ FilesOK' /\ EndOK'
    BY <1>3, SMTT(40) DEF AllocTable, Main
  <2> QED
    BY <2>1, <2>2, <2>3
<1>4. ASSUME IInv, ForkWorker PROVE IInv'
  BY <1>4, SMTT(40) DEF ForkWorker, Main
<1>5. ASSUME IInv, StoreWorker PROVE IInv'
  BY <1>5, SMTT(40) DEF StoreWorker, Main, Stored, IsLast
<1>6. ASSUME IInv, Wait PROVE IInv'
  BY <1>6, SMTT(40) DEF Wait, Main
<1>7. ASSUME IInv, Match PROVE IInv'
  BY <1>7, SMTT(40) DEF Match, Main, Replaceable
<1>8. ASSUME IInv, GiveUp PROVE IInv'
  BY <1>8 DEF GiveUp, Main, Halt
<1> HIDE DEF IInv
<1> QED
  BY <1>1, <1>2, <1>3, <1>4, <1>5, <1>6, <1>7, <1>8, <1>9 DEF MainFlow

\* signal_handler: every entry before rest has been waited for.
LEMMA SignalHandlerStep == IInv /\ SignalHandler => IInv'
<1> USE ConstantsAssumption
    DEF IInv, TypeOK, KnownOK, FlowOK, FilledOK, HandlersOK, WaitingOK, FilesOK, EndOK,
        TableIntact, InFlight, Child, Alive, Told, EndedInHandler, Slots,
        Pids, None, Shutdown, NoTable, main, memory, files, upgrade, handlers, workers, bounds
<1>1. ASSUME IInv, Forward PROVE IInv'
  <2>1. signo \in Shutdown /\ pending \in [Pids -> SUBSET Shutdown]
    BY <1>1 DEF Forward, Handler
  <2>2. TypeOK'
    <3>1. pending' \in [Pids -> SUBSET Shutdown]
      BY <2>1, <1>1, SignalledType DEF Forward
    <3>2. inbox' \subseteq Shutdown \cup {"USR1"}
      <4>1. inbox' = ToMaster(table, signo) \/ inbox' = inbox
        BY <1>1 DEF Forward
      <4>2. inbox \subseteq Shutdown \cup {"USR1"}
        BY <1>1
      <4> HIDE DEF Shutdown
      <4> QED
        BY <2>1, <4>1, <4>2, ToMasterType
    <3> QED
      BY <1>1, <3>1, <3>2 DEF Forward
  <2>3. ASSUME pc = "store" PROVE Told(child)'
    <3>1. table[slot] = None /\ slot \in Slots /\ child \in Pids /\ held = "set"
      BY <1>1, <2>3 DEF Forward, Handler
    <3>2. Alive(child) => child \in Reached(table)
      BY <3>1 DEF Reached
    <3>3. pending' = Signalled(Reached(table), signo)
      BY <1>1, <3>1 DEF Forward
    <3>4. Alive(child) => signo \in pending'[child]
      BY <2>1, <3>1, <3>2, <3>3, SignalledType
    <3> QED
      BY <1>1, <3>4 DEF Forward
  <2>4. WaitingOK'
    BY <1>1, <2>3 DEF Forward, Handler
  <2> QED
    BY <1>1, <2>2, <2>4 DEF Forward, Handler, Signalled, ToMaster
<1>2. ASSUME IInv, BadTable PROVE IInv'
  BY <1>2 DEF BadTable, Handler, Halt
<1>3. ASSUME IInv, Reap PROVE IInv'
  <2>1. rest \in Slots /\ pc \notin {"pidfile", "path", "count", "table"}
    BY <1>3 DEF Reap, Handler
  <2>2. \A q \in Pids : Child(q)' => Child(q)
    BY <1>3 DEF Reap, Waited
  <2>3. ASSUME NEW p \in Pids, table[rest] = p PROVE ~Child(p)'
    <3>1. Waited(p) /\ state \in [Pids -> {"unused", "forked", "started", "serving", "draining",
                                          "zombie", "reaped"}]
      BY <1>3, <2>3 DEF Reap
    <3> QED
      BY <3>1 DEF Waited
  <2>4. ASSUME pc = "store", ~upgraded, rest' > slot PROVE ~Child(child)'
    <3>1. CASE rest > slot
      BY <1>3, <2>2, <2>4, <3>1 DEF Reap, Handler
    <3>2. CASE rest = slot
      <4>1. table[rest] = None /\ successor = "none"
        BY <1>3, <2>4, <3>2 DEF Reap, Handler
      <4>2. \A q \in Pids : Child(q) => q = child
        BY <1>3, <2>4, <3>2 DEF Reap, Handler
      <4> QED
        BY <1>3, <2>4, <4>1, <4>2 DEF Reap, Waited
    <3> QED
      BY <1>3, <2>1, <2>4, <3>1, <3>2 DEF Reap
  <2>5. WaitingOK'
    <3>1. \A s \in Slots : s < rest' /\ table[s] # None => ~Child(table[s])'
      <4>1. TAKE s \in Slots
      <4>2. HAVE s < rest' /\ table[s] # None
      <4>3. table' = table /\ table[s] \in Pids /\ (s < rest \/ s = rest)
        BY <1>3, <2>1, <4>2 DEF Reap
      <4>4. CASE s < rest
        BY <1>3, <2>2, <4>2, <4>3, <4>4 DEF Reap, Handler
      <4>5. CASE s = rest
        BY <2>3, <4>3, <4>5
      <4> QED
        BY <4>3, <4>4, <4>5
    <3>2. pc = "store" => Told(child)'
      BY <1>3 DEF Reap, Handler, Waited
    <3> QED
      BY <1>3, <2>4, <3>1, <3>2 DEF Reap, Handler
  <2>6. TypeOK'
    <3>1. state' \in [Pids -> {"unused", "forked", "started", "serving", "draining", "zombie", "reaped"}]
          /\ successor' \in {"none", "running", "dead", "reaped"}
      BY <1>3 DEF Reap, Waited
    <3>2. rest' \in 1 .. (Workers + 1)
      BY <1>3, <2>1 DEF Reap
    <3> QED
      BY <1>3, <3>1, <3>2 DEF Reap
  <2>7. \A q \in Pids : state[q] \in {"unused", "reaped"} => state'[q] = state[q]
    BY <1>3 DEF Reap, Waited
  <2>8. \A q \in Pids : state[q] # "unused" => state'[q] # "unused"
    BY <1>3 DEF Reap, Waited
  <2>9. KnownOK' /\ FlowOK' /\ FilledOK'
    BY <1>3, <2>2, <2>7, <2>8, SMTT(40) DEF Reap, Handler
  <2>10. HandlersOK' /\ FilesOK' /\ EndOK'
    BY <1>3 DEF Reap, Handler, Waited
  <2> QED
    BY <2>5, <2>6, <2>9, <2>10
<1>4. ASSUME IInv, FreeTable PROVE IInv'
  BY <1>4, SMTT(40) DEF FreeTable, Handler
<1>5. ASSUME IInv, RemovePidfile PROVE IInv'
  BY <1>5 DEF RemovePidfile, Handler
<1>6. ASSUME IInv, Exit PROVE IInv'
  BY <1>6 DEF Exit, Handler, Halt
<1> HIDE DEF IInv
<1> QED
  BY <1>1, <1>2, <1>3, <1>4, <1>5, <1>6 DEF SignalHandler

\* upgrade_handler, which returns to the main flow or to signal_handler.
LEMMA UpgradeHandlerStep == IInv /\ UpgradeHandler => IInv'
<1> USE ConstantsAssumption
    DEF IInv, TypeOK, KnownOK, FlowOK, FilledOK, HandlersOK, WaitingOK, FilesOK, EndOK,
        TableIntact, InFlight, Child, Alive, Told, EndedInHandler, Slots,
        Pids, None, Shutdown, NoTable, main, memory, files, upgrade, handlers, workers, bounds
<1>1. ASSUME IInv, RenamePidfile PROVE IInv'
  <2>1. TypeOK'
    <3>1. /\ file' \in {"none", "pid", "old"} /\ up' \in {"idle", "rename", "name", "spawn"}
          /\ top' \in {"main", "down", "up"}
      BY <1>1 DEF RenamePidfile, Upgrading, Return
    <3>2. blocked' \subseteq Shutdown \cup {"USR1"}
      <4>1. blocked' = blocked \/ blocked' = blocked \ {"USR1"}
        BY <1>1 DEF RenamePidfile, Return
      <4>2. blocked \subseteq Shutdown \cup {"USR1"}
        BY <1>1
      <4> HIDE DEF Shutdown, IInv
      <4> QED
        BY <4>1, <4>2
    <3> QED
      BY <1>1, <3>1, <3>2 DEF RenamePidfile
  <2>2. KnownOK' /\ FlowOK' /\ FilledOK' /\ WaitingOK'
    BY <1>1 DEF RenamePidfile
  <2>3. HandlersOK'
    BY <1>1 DEF RenamePidfile, Upgrading, Return
  <2>4. FilesOK' /\ EndOK'
    BY <1>1 DEF RenamePidfile, Upgrading, Return
  <2> QED
    BY <2>1, <2>2, <2>3, <2>4
<1>2. ASSUME IInv, MarkUpgraded PROVE IInv'
  BY <1>2 DEF MarkUpgraded, Upgrading, NewName
<1>3. ASSUME IInv, UpgradeTooEarly PROVE IInv'
  BY <1>3 DEF UpgradeTooEarly, Upgrading, Halt
<1>4. ASSUME IInv, SpawnSuccessor PROVE IInv'
  BY <1>4 DEF SpawnSuccessor, Upgrading, Return
<1> HIDE DEF IInv
<1> QED
  BY <1>1, <1>2, <1>3, <1>4 DEF UpgradeHandler

\* A signal is taken: its handler runs on top.
LEMMA DeliverStep == IInv /\ Deliver => IInv'
<1> USE ConstantsAssumption
    DEF IInv, TypeOK, KnownOK, FlowOK, FilledOK, HandlersOK, WaitingOK, FilesOK, EndOK,
        TableIntact, InFlight, Child, Alive, Told, EndedInHandler, Slots,
        Pids, None, Shutdown, NoTable, main, memory, files, upgrade, handlers, workers, bounds
<1>1. ASSUME IInv, TakeUpgrade PROVE IInv'
  BY <1>1 DEF TakeUpgrade, Deliverable
<1>2. ASSUME IInv, NEW sig \in Shutdown, TakeShutdown(sig) PROVE IInv'
  BY <1>2 DEF TakeShutdown, Deliverable
<1> HIDE DEF IInv
<1> QED
  BY <1>1, <1>2 DEF Deliver

\* A worker's step changes only its own life, and can only add to what is pending.
LEMMA WorkerStepIInv ==
  ASSUME IInv, NEW p \in Pids, WorkerStep(p)
  PROVE  IInv'
<1> USE ConstantsAssumption
    DEF IInv, TypeOK, KnownOK, FlowOK, FilledOK, HandlersOK, WaitingOK, FilesOK, EndOK,
        TableIntact, InFlight, Child, Alive, Told, EndedInHandler, Slots,
        Pids, None, Shutdown, NoTable, main, memory, files, upgrade, handlers, workers, bounds
<1>1. ASSUME StartWorker(p) PROVE IInv'
  <2>1. TypeOK'
    BY <1>1, BlankType DEF StartWorker, Become
  <2>2. KnownOK' /\ FlowOK' /\ FilledOK' /\ HandlersOK' /\ WaitingOK' /\ EndOK'
    BY <1>1 DEF StartWorker, Become
  <2>3. \A q \in Pids : EndedInHandler(q) => EndedInHandler(q)'
    BY <1>1 DEF StartWorker, Become
  <2>4. FilesOK'
    BY <1>1, <2>3 DEF StartWorker, Become
  <2> QED
    BY <2>1, <2>2, <2>4
<1>2. ASSUME ServeWorker(p) PROVE IInv'
  <2>1. TypeOK' /\ KnownOK' /\ FlowOK' /\ FilledOK' /\ HandlersOK' /\ WaitingOK' /\ EndOK'
    BY <1>2 DEF ServeWorker, Become
  <2>2. FilesOK'
    BY <1>2 DEF ServeWorker, Become
  <2> QED
    BY <2>1, <2>2
<1>3. ASSUME Drained(p) PROVE IInv'
  BY <1>3 DEF Drained, Become
<1>4. ASSUME NEW sig \in Shutdown, InheritedHandler(p, sig) PROVE IInv'
  <2>1. pending' \in [Pids -> SUBSET Shutdown]
    BY <1>4, SignalledType DEF InheritedHandler
  <2>2. inbox' = ToMaster(copy[p].table, sig) /\ inbox \subseteq Shutdown \cup {"USR1"}
    BY <1>4 DEF InheritedHandler
  <2>3. inbox' \subseteq Shutdown \cup {"USR1"} /\ inbox \subseteq inbox'
    <3> HIDE DEF Shutdown
    <3> QED
      BY <2>2, <1>4, ToMasterType
  <2>4. TypeOK'
    BY <1>4, <2>1, <2>3 DEF InheritedHandler, Become
  <2>5. /\ \A q \in Pids : state'[q] = IF q = p THEN "zombie" ELSE state[q]
        /\ \A q \in Pids : q # p => pending[q] \subseteq pending'[q]
        /\ \A q \in Pids : Alive(q)' => Alive(q) /\ pending[q] \subseteq pending'[q]
        /\ \A q \in Pids : Child(q)' <=> Child(q)
    BY <1>4, SignalledType DEF InheritedHandler, Become
  <2>6. UNCHANGED <<master, main, memory, upgrade, name, handlers, home, bounds, copy>>
    BY <1>4 DEF InheritedHandler, Become
  <2>7. KnownOK' /\ FlowOK' /\ FilledOK'
    BY <1>4, <2>5, <2>6, SMTT(40) DEF InheritedHandler
  <2>8. WaitingOK'
    <3>1. ASSUME NEW s \in Slots, table[s] # None, ~Child(table[s]) PROVE ~Child(table[s])'
      BY <2>5, <2>6, <3>1
    <3>2. ASSUME pc = "store", Told(child) PROVE Told(child)'
      <4>1. child' = child /\ child \in Pids
        BY <2>6, <3>2
      <4>2. Alive(child)' => /\ Alive(child) /\ state'[child] = state[child]
                             /\ pending[child] \subseteq pending'[child]
        BY <2>5, <4>1
      <4> HIDE DEF IInv, Alive
      <4> QED
        BY <3>2, <4>1, <4>2
    <3>3. ASSUME pc = "store", ~Child(child) PROVE ~Child(child)'
      BY <2>5, <2>6, <3>3
    <3>4. UNCHANGED <<pc, down, rest, slot, upgraded, table>>
      BY <2>6
    <3> HIDE DEF Told, Child
    <3> QED
      BY <3>1, <3>2, <3>3, <3>4
  <2>9. EndedInHandler(p)'
    BY <1>4, <2>5, <2>6, BlankType DEF InheritedHandler
  <2>10. FilesOK' /\ EndOK'
    <3>1. file' \in {"none", file}
      BY <1>4 DEF InheritedHandler
    <3>2. (down = "exit" /\ pc # "path") => file' = "none" \/ (up = "name" /\ top = "down")
      BY <3>1
    <3>3. \A q \in Pids : state'[q] = "forked" => copy'[q].name # "null"
      BY <2>5, <2>6
    <3>4. pc # "path"
      BY <1>4 DEF InheritedHandler
    <3> QED
      BY <2>6, <2>9, <3>1, <3>2, <3>3, <3>4
  <2>11. HandlersOK'
    BY <2>6
  <2> QED
    BY <2>4, <2>7, <2>8, <2>10, <2>11
<1>5. ASSUME NEW sig \in Shutdown, SignalWorker(p, sig) PROVE IInv'
  <2>1. TypeOK'
    BY <1>5 DEF SignalWorker, Become
  <2>2. KnownOK' /\ FlowOK' /\ FilledOK' /\ HandlersOK' /\ WaitingOK' /\ EndOK'
    BY <1>5 DEF SignalWorker, Become
  <2>3. \A q \in Pids : EndedInHandler(q) => EndedInHandler(q)'
    BY <1>5 DEF SignalWorker, Become
  <2>4. FilesOK'
    BY <1>5, <2>3 DEF SignalWorker, Become
  <2> QED
    BY <2>1, <2>2, <2>4
<1> HIDE DEF IInv
<1> QED
  BY <1>1, <1>2, <1>3, <1>4, <1>5 DEF WorkerStep

\* What the environment does.
LEMMA EnvironmentStep == IInv /\ Environment => IInv'
<1> USE ConstantsAssumption
    DEF IInv, TypeOK, KnownOK, FlowOK, FilledOK, HandlersOK, WaitingOK, FilesOK, EndOK,
        TableIntact, InFlight, Child, Alive, Told, EndedInHandler, Slots,
        Pids, None, Shutdown, NoTable, main, memory, files, upgrade, handlers, workers, bounds
<1>1. ASSUME IInv, NEW sig \in Shutdown \cup {"USR1"}, Kill(sig) PROVE IInv'
  BY <1>1 DEF Kill, Sendable
<1>2. ASSUME IInv, NEW sig \in Shutdown, KillGroup(sig) PROVE IInv'
  BY <1>2 DEF KillGroup, Sendable, Signalled
<1>3. ASSUME IInv, NEW p \in Pids, Die(p) PROVE IInv'
  <2>1. TypeOK'
    BY <1>3, BlankType DEF Die
  <2>2. KnownOK' /\ FlowOK' /\ FilledOK'
    BY <1>3, SMTT(40) DEF Die
  <2>3. HandlersOK' /\ WaitingOK' /\ FilesOK' /\ EndOK'
    BY <1>3, SMTT(40) DEF Die
  <2> QED
    BY <2>1, <2>2, <2>3
<1>4. ASSUME IInv, SuccessorEnds PROVE IInv'
  BY <1>4 DEF SuccessorEnds
<1>5. ASSUME IInv, NEW p \in Pids, NEW sig \in Shutdown, KillWorker(p, sig) PROVE IInv'
  BY <1>5 DEF KillWorker, Sendable, Signalled
<1> HIDE DEF IInv
<1> QED
  BY <1>1, <1>2, <1>3, <1>4, <1>5 DEF Environment

LEMMA StepIInv == IInv /\ [Next]_vars => IInv'
<1>1. ASSUME IInv, UNCHANGED vars PROVE IInv'
  BY <1>1 DEF vars, main, memory, files, upgrade, handlers, workers, bounds, IInv, TypeOK,
     KnownOK, FlowOK, FilledOK, HandlersOK, WaitingOK, FilesOK, EndOK, TableIntact, InFlight,
     Child, Alive, Told, EndedInHandler
<1> QED
  BY <1>1, MainFlowStep, SignalHandlerStep, UpgradeHandlerStep, DeliverStep, WorkerStepIInv,
     EnvironmentStep DEF Next

LEMMA Inductive == Spec => []IInv
  BY InitIInv, StepIInv, PTL DEF Spec

-----------------------------------------------------------------------------
(* What the invariant gives. *)

\* TypeOK holds: every variable of the master and of its workers keeps its type.
THEOREM TypesCorrect == Spec => []TypeOK
<1>1. IInv => TypeOK
  BY DEF IInv
<1> QED
  BY <1>1, Inductive, PTL

\* Two live workers are not in the same slot: one of them would be in flight, and the
\* slot it is to fill is empty or holds a reaped one.
LEMMA HomesDistinct == IInv => OneWorkerPerSocket
<1> SUFFICES ASSUME IInv, NEW p \in Pids, NEW q \in Pids, Alive(p), Alive(q), home[p] = home[q]
             PROVE  p = q
  BY DEF OneWorkerPerSocket
<1> USE ConstantsAssumption DEF Slots, Pids, None
<1>1. Child(p) /\ Child(q)
  BY DEF Child
<1>2. ASSUME NEW r \in Pids, NEW t \in Pids, InFlight(r), Alive(t), ~InFlight(t), table[home[t]] = t
      PROVE  home[t] # home[r]
  BY <1>2 DEF IInv, FlowOK, TypeOK, InFlight, Alive
<1>3. CASE InFlight(p) /\ InFlight(q)
  BY <1>3 DEF InFlight
<1>4. CASE ~InFlight(p) /\ ~InFlight(q)
  BY <1>1, <1>4 DEF IInv, KnownOK
<1> QED
  BY <1>1, <1>2, <1>3, <1>4 DEF IInv, KnownOK

\* OneWorkerPerSocket holds: the respawn loop never starts a second worker for a
\* listening socket.
THEOREM OneWorker == Spec => []OneWorkerPerSocket
  BY HomesDistinct, Inductive, PTL

\* WaitNeverFails holds: until an upgrade the respawn loop has a child to wait for.
THEOREM WaitSucceeds == Spec => []WaitNeverFails
<1>1. IInv => WaitNeverFails
  BY DEF IInv, FlowOK, FilledOK, HandlersOK, WaitNeverFails, Main
<1> QED
  BY <1>1, Inductive, PTL

\* ShutdownComplete holds: signal_handler does not end the master before the workers,
\* but for those the property names.
THEOREM ShutdownWaits == Spec => []ShutdownComplete
<1>1. IInv => ShutdownComplete
  <2> SUFFICES ASSUME IInv, master = "exited", NEW p \in Pids, Alive(p),
                      ~(pc = "restore" /\ child = p)
               PROVE  upgraded /\ (pending[p] # {} \/ state[p] = "draining")
    BY DEF ShutdownComplete
  <2>1. down = "exit" /\ Child(p)
    BY DEF IInv, EndOK, Child
  <2>2. pc = "store" /\ child = p
    BY <2>1 DEF IInv, KnownOK, WaitingOK, InFlight, Pids, None
  <2> QED
    BY <2>1, <2>2 DEF IInv, WaitingOK, Told
<1> QED
  BY <1>1, Inductive, PTL

\* PidfileRemoved holds: exit_and_cleanup_main removes the pid file, renamed or not.
THEOREM PidfileGone == Spec => []PidfileRemoved
<1>1. IInv => PidfileRemoved
  BY DEF IInv, EndOK, FilesOK, PidfileRemoved
<1> QED
  BY <1>1, Inductive, PTL

\* PidfileStands holds: while the master is not told to stop, its pid file is there under
\* the name it has stored; if it is gone, a worker that was signalled before it had set
\* up its own handlers has ended in the master's.
THEOREM PidfileKept == Spec => []PidfileStands
<1>1. IInv => PidfileStands
  BY DEF IInv, FlowOK, FilesOK, PidfileStands
<1> QED
  BY <1>1, Inductive, PTL

\* TableIntact holds: the two ways named there are the only ones to use worker_pids
\* while it is NULL or freed.
THEOREM TableSafe == Spec => []TableIntact
<1>1. IInv => TableIntact
  BY DEF IInv, EndOK
<1> QED
  BY <1>1, Inductive, PTL

-----------------------------------------------------------------------------
(* The process manager implements Supervisor. *)

Phase == IF master # "running" THEN "gone" ELSE IF down # "idle" THEN "stopping" ELSE "running"
Holds(st, hm, p, s) == st[p] \in {"forked", "started", "serving", "draining"} /\ hm[p] = s
Post(st, hm) == [s \in Slots |-> IF \E p \in Pids : Holds(st, hm, p, s)
                                 THEN CHOOSE p \in Pids : Holds(st, hm, p, s) ELSE None]
OneHolder(st, hm) == \A s \in Slots : \A p, q \in Pids : Holds(st, hm, p, s) /\ Holds(st, hm, q, s) => p = q

\* A slot's post is the one worker that holds it.
LEMMA PostIs ==
  ASSUME NEW st, NEW hm, OneHolder(st, hm), NEW s \in Slots
  PROVE  /\ Post(st, hm)[s] \in Pids \cup {None}
         /\ \A p \in Pids : Post(st, hm)[s] = p <=> Holds(st, hm, p, s)
<1>1. CASE \E p \in Pids : Holds(st, hm, p, s)
  <2>1. Post(st, hm)[s] = CHOOSE q \in Pids : Holds(st, hm, q, s)
    BY <1>1 DEF Post
  <2>2. Post(st, hm)[s] \in Pids /\ Holds(st, hm, Post(st, hm)[s], s)
    BY <1>1, <2>1
  <2> QED
    BY <2>2 DEF OneHolder
<1>2. CASE \A p \in Pids : ~Holds(st, hm, p, s)
  <2>1. Post(st, hm)[s] = None /\ None \notin Pids
    BY <1>2, ConstantsAssumption DEF Post, Pids, None
  <2> QED
    BY <1>2, <2>1
<1> QED
  BY <1>1, <1>2

\* Posts differ only where holders do.
LEMMA PostFollows ==
  ASSUME NEW st, NEW hm, OneHolder(st, hm), NEW st2, NEW hm2, OneHolder(st2, hm2), NEW s \in Slots,
         \A p \in Pids : Holds(st2, hm2, p, s) <=> Holds(st, hm, p, s)
  PROVE  Post(st2, hm2)[s] = Post(st, hm)[s]
<1>1. /\ Post(st, hm)[s] \in Pids \cup {None}
      /\ \A p \in Pids : Post(st, hm)[s] = p <=> Holds(st, hm, p, s)
  BY PostIs
<1>2. /\ Post(st2, hm2)[s] \in Pids \cup {None}
      /\ \A p \in Pids : Post(st2, hm2)[s] = p <=> Holds(st2, hm2, p, s)
  BY PostIs
<1> QED
  BY <1>1, <1>2

LEMMA HoldersNow == IInv => /\ OneHolder(state, home)
                            /\ \A p \in Pids : Alive(p) => home[p] \in Slots
<1>1. IInv => OneHolder(state, home)
  BY HomesDistinct DEF OneWorkerPerSocket, OneHolder, Holds, Alive
<1>2. IInv => \A p \in Pids : Alive(p) => home[p] \in Slots
  BY DEF IInv, KnownOK, TypeOK, InFlight, Child
<1> QED
  BY <1>1, <1>2

\* A step that neither ends nor starts a worker leaves the posts as they are.
LEMMA PostKept ==
  ASSUME IInv, \A p \in Pids : Alive(p)' <=> Alive(p), UNCHANGED home
  PROVE  Post(state', home') = Post(state, home)
<1>1. \A p \in Pids, s \in Slots : Holds(state', home', p, s) <=> Holds(state, home, p, s)
  BY DEF Holds, Alive
<1>2. OneHolder(state, home)
  BY HoldersNow
<1>3. OneHolder(state', home')
  BY <1>1, <1>2 DEF OneHolder
<1>4. ASSUME NEW s \in Slots PROVE Post(state', home')[s] = Post(state, home)[s]
  BY <1>1, <1>2, <1>3, PostFollows
<1> QED
  BY <1>4 DEF Post

\* The end of a worker empties its slot and no other.
LEMMA PostLost ==
  ASSUME IInv, NEW p \in Pids, Alive(p), UNCHANGED home,
         \A q \in Pids : Alive(q)' <=> Alive(q) /\ q # p
  PROVE  \E s \in Slots : Post(state', home') = [Post(state, home) EXCEPT ![s] = None]
<1>1. \A q \in Pids, s \in Slots : Holds(state', home', q, s) <=> Holds(state, home, q, s) /\ q # p
  BY DEF Holds, Alive
<1>2. OneHolder(state, home) /\ home[p] \in Slots
  BY HoldersNow
<1>3. OneHolder(state', home')
  BY <1>1, <1>2 DEF OneHolder
<1>4. Holds(state, home, p, home[p])
  BY DEF Holds, Alive
<1>5. ASSUME NEW s \in Slots, s # home[p] PROVE Post(state', home')[s] = Post(state, home)[s]
  <2>1. \A q \in Pids : Holds(state', home', q, s) <=> Holds(state, home, q, s)
    BY <1>1, <1>5 DEF Holds
  <2> QED
    BY <1>2, <1>3, <2>1, PostFollows
<1>6. Post(state', home')[home[p]] = None
  <2>1. \A q \in Pids : ~Holds(state', home', q, home[p])
    BY <1>1, <1>2, <1>4 DEF OneHolder
  <2> QED
    BY <1>2, <2>1 DEF Post
<1>7. Post(state', home') = [Post(state, home) EXCEPT ![home[p]] = None]
  BY <1>2, <1>5, <1>6 DEF Post
<1> QED
  BY <1>2, <1>7

\* fork() starts a worker in a slot that nobody holds.
LEMMA ForkSpawns ==
  ASSUME IInv, ForkWorker
  PROVE  Manager!Spawn
<1> USE ConstantsAssumption DEF Slots, Pids, None
<1>1. PICK p \in Pids : /\ state[p] = "unused"
                        /\ state' = [state EXCEPT ![p] = "forked"]
                        /\ home' = [home EXCEPT ![p] = slot]
  BY DEF ForkWorker
<1>2. slot \in Slots /\ master = "running" /\ down = "idle" /\ UNCHANGED <<master, down>>
  BY DEF ForkWorker, Main, IInv, TypeOK, HandlersOK, handlers
<1>3. OneHolder(state, home)
  BY HoldersNow
<1>4. \A q \in Pids : ~Holds(state, home, q, slot)
  BY DEF ForkWorker, Main, IInv, TypeOK, KnownOK, FlowOK, InFlight, Child, Alive, Holds
<1>5. \A q \in Pids, s \in Slots : Holds(state', home', q, s) <=> Holds(state, home, q, s) \/ (q = p /\ s = slot)
  BY <1>1 DEF IInv, TypeOK, Holds
<1>6. OneHolder(state', home')
  BY <1>3, <1>4, <1>5 DEF OneHolder
<1>7. ASSUME NEW s \in Slots, s # slot PROVE Post(state', home')[s] = Post(state, home)[s]
  <2>1. \A q \in Pids : Holds(state', home', q, s) <=> Holds(state, home, q, s)
    BY <1>5, <1>7
  <2> QED
    BY <1>3, <1>6, <2>1, PostFollows
<1>8. Post(state', home')[slot] = p
  BY <1>2, <1>5, <1>6, PostIs
<1>9. Post(state, home)[slot] = None
  BY <1>2, <1>4 DEF Post
<1>10. Post(state', home') = [Post(state, home) EXCEPT ![slot] = p]
  BY <1>2, <1>7, <1>8 DEF Post
<1> QED
  BY <1>2, <1>9, <1>10 DEF Manager!Spawn, Post, Holds, Alive

\* A worker that ends is one the manager loses.
LEMMA EndLoses ==
  ASSUME IInv, NEW p \in Pids, Alive(p), UNCHANGED <<home, master, down>>,
         \A q \in Pids : Alive(q)' <=> Alive(q) /\ q # p
  PROVE  Manager!Lose
<1>1. \E s \in Slots : Post(state', home') = [Post(state, home) EXCEPT ![s] = None]
  BY PostLost
<1> QED
  BY <1>1 DEF Manager!Lose, Post, Holds, Alive

\* The workers stay: the manager stops, ends, or nothing its users see happens.
LEMMA OthersStutter ==
  ASSUME IInv, \A p \in Pids : Alive(p)' <=> Alive(p), UNCHANGED home,
         Phase' = Phase \/ (Phase = "running" /\ Phase' = "stopping") \/ (Phase # "gone" /\ Phase' = "gone")
  PROVE  [Manager!Next]_Manager!vars
<1>1. Post(state', home') = Post(state, home)
  BY PostKept
<1>2. CASE Phase' = Phase
  BY <1>1, <1>2 DEF Manager!vars, Post, Holds, Alive, Phase
<1>3. CASE Phase = "running" /\ Phase' = "stopping"
  BY <1>1, <1>3 DEF Manager!Next, Manager!Stop, Post, Holds, Alive, Phase
<1>4. CASE Phase # "gone" /\ Phase' = "gone"
  BY <1>1, <1>4 DEF Manager!Next, Manager!End, Post, Holds, Alive, Phase
<1> QED
  BY <1>2, <1>3, <1>4

LEMMA ManagerStarts == Init => Manager!Init
  BY DEF Init, Manager!Init, Alive

LEMMA WorkerMaps ==
  ASSUME IInv, NEW p \in Pids, WorkerStep(p)
  PROVE  [Manager!Next]_Manager!vars
<1>1. state \in [Pids -> {"unused", "forked", "started", "serving", "draining", "zombie", "reaped"}]
  BY DEF IInv, TypeOK
<1>2. UNCHANGED <<home, master, down>> /\ Alive(p)
  BY DEF WorkerStep, StartWorker, ServeWorker, Drained, InheritedHandler, SignalWorker, Become,
         handlers, Alive
<1>3. PICK s \in {"started", "serving", "draining", "zombie"} : state' = [state EXCEPT ![p] = s]
  BY DEF WorkerStep, StartWorker, ServeWorker, Drained, InheritedHandler, SignalWorker, Become
<1>4. CASE s = "zombie"
  BY <1>1, <1>2, <1>3, <1>4, EndLoses DEF Alive, Manager!Next
<1>5. CASE s # "zombie"
  BY <1>1, <1>2, <1>3, <1>5, OthersStutter DEF Alive, Phase
<1> QED
  BY <1>4, <1>5

\* Every other step than fork() and the ends of workers keeps the workers.
LEMMA ManagerStep == IInv /\ [Next]_vars => [Manager!Next]_Manager!vars
<1> USE DEF main, memory, files, upgrade, handlers, workers, bounds
<1> SUFFICES ASSUME IInv, [Next]_vars PROVE [Manager!Next]_Manager!vars
  OBVIOUS
<1>1. state \in [Pids -> {"unused", "forked", "started", "serving", "draining", "zombie", "reaped"}]
  BY DEF IInv, TypeOK
<1>2. CASE MainFlow
  <2>1. CASE ForkWorker
    BY <2>1, ForkSpawns DEF Manager!Next
  <2>2. CASE Wait
    BY <1>1, <2>2, OthersStutter DEF Wait, Main, Alive, Phase
  <2>3. CASE WritePidfile \/ StoreName \/ SetCount \/ AllocTable \/ StoreWorker \/ Match
    BY <2>3, OthersStutter DEF WritePidfile, StoreName, SetCount, AllocTable, StoreWorker, Match, Alive, Phase
  <2>4. CASE GiveUp
    BY <2>4, OthersStutter DEF GiveUp, Main, Halt, Alive, Phase
  <2> QED
    BY <1>2, <2>1, <2>2, <2>3, <2>4 DEF MainFlow
<1>3. CASE SignalHandler
  <2>1. CASE Reap
    BY <1>1, <2>1, OthersStutter DEF Reap, Waited, Alive, Phase
  <2>2. CASE Forward \/ FreeTable \/ RemovePidfile
    BY <2>2, OthersStutter DEF Forward, FreeTable, RemovePidfile, Handler, Alive, Phase
  <2>3. CASE BadTable \/ Exit
    BY <2>3, OthersStutter DEF BadTable, Exit, Handler, Halt, Alive, Phase
  <2> QED
    BY <1>3, <2>1, <2>2, <2>3 DEF SignalHandler
<1>4. CASE UpgradeHandler
  BY <1>4, OthersStutter DEF UpgradeHandler, RenamePidfile, MarkUpgraded, UpgradeTooEarly,
     SpawnSuccessor, Upgrading, Return, Halt, Alive, Phase
<1>5. CASE Deliver
  BY <1>5, OthersStutter DEF Deliver, TakeUpgrade, TakeShutdown, Alive, Phase
<1>6. CASE Environment
  <2>1. ASSUME NEW p \in Pids, Die(p) PROVE [Manager!Next]_Manager!vars
    BY <1>1, <2>1, EndLoses DEF Die, Alive, Manager!Next
  <2>2. ASSUME NEW sig, Kill(sig) \/ KillGroup(sig) \/ \E p \in Pids : KillWorker(p, sig)
        PROVE  [Manager!Next]_Manager!vars
    BY <2>2, OthersStutter DEF Kill, KillGroup, KillWorker, Alive, Phase
  <2>3. CASE SuccessorEnds
    BY <2>3, OthersStutter DEF SuccessorEnds, Alive, Phase
  <2> QED
    BY <1>6, <2>1, <2>2, <2>3 DEF Environment
<1>7. CASE UNCHANGED vars
  BY <1>7, OthersStutter DEF vars, Alive, Phase
<1> QED
  BY <1>2, <1>3, <1>4, <1>5, <1>6, <1>7, WorkerMaps DEF Next

\* ImplementsSupervisor holds: each slot has at most one worker, one is started only in
\* an empty slot while the master runs undisturbed, and none by a master that was told
\* to stop.
THEOREM SupervisorImplemented == Spec => ImplementsSupervisor
  BY ManagerStarts, ManagerStep, Inductive, PTL DEF Spec, ImplementsSupervisor, Manager!Spec
==============================================================================
