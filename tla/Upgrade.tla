------------------------------- MODULE Upgrade -------------------------------
(***************************************************************************)
(* Upgrades of a running yotta: generations of masters that start one      *)
(* another by SIGUSR1, hand on the listening sockets and share the pid     *)
(* file, and the operator (upgrade_yotta.sh, systemd) who signals whatever *)
(* process a pid file names.                                               *)
(*                                                                         *)
(* A generation is one process image; what happens inside of it between    *)
(* two system calls is module Process.  pidfile_to_delete is the number of *)
(* ".old" suffixes on the name, the content of a file the generation in it.*)
(***************************************************************************)
EXTENDS ListenFds, FiniteSets

CONSTANTS
  Workers,      \* number of workers
  Daemon,       \* is the program run with -g?
  FdLists,      \* descriptors the first generation can have got
  MaxGens,      \* bound: generations
  MaxReloads,   \* bound: runs of upgrade_yotta.sh
  MaxDeaths,    \* bound: workers that die on their own
  Fails         \* can system calls and allocations fail?

ASSUME ConstantsAssumption ==
  /\ Workers \in Nat \ {0} /\ MaxGens \in Nat \ {0}
  /\ MaxReloads \in Nat /\ MaxDeaths \in Nat
  /\ Daemon \in BOOLEAN /\ Fails \in BOOLEAN
  /\ \A fds \in FdLists : fds \in [1 .. Workers -> Nat]

\* "max size per pid is 5": what create_listen_fds_env relies on.
ASSUME DescriptorsAssumption ==
  \A fds \in FdLists : \A s \in 1 .. Workers : fds[s] \in FiveDigits

Gens == 1 .. MaxGens
Slots == 1 .. Workers
Names == 0 .. MaxGens
NoGen == 0
NoName == -1

VARIABLES
  gen,          \* the generations (see Unborn)
  signals,      \* pending signals of each
  files,        \* which generation is named by which pid file
  script,       \* where upgrade_yotta.sh is: "idle" or "asleep"
  told,         \* generations the operator told to quit
  closing,      \* the operator stops the service
  reloads, deaths
operator == <<script, told, closing, reloads>>
vars == <<gen, signals, files, operator, deaths>>

\* forked: execve is to come; booting to bound: up to the handlers; starting: handlers
\* are installed; named: the pid file is written, workers are being forked.
Booting == {"forked", "booting", "session", "bound"}
Running == {"starting", "named", "serving"}
Living == Booting \cup Running \cup {"stopping"}

\* A generation: stage; process group; blocked signals; listen_fds in the environment and
\* as parsed; pidfile_to_delete; upgrade_handler ("idle", "renamed": the pid file, or "cut"
\* short there by SIGQUIT); the upgraded flag; the worker of each slot ("none",
\* "serving", "draining").
NoFds == [s \in Slots |-> 0]
Unborn == [stage |-> "none", group |-> 0, blocked |-> {}, env |-> <<>>, fds |-> NoFds,
           name |-> NoName, handler |-> "idle", upgraded |-> FALSE,
           worker |-> [s \in Slots |-> "none"]]

Init ==
  /\ gen = [g \in Gens |-> IF g = 1 THEN [Unborn EXCEPT !.stage = "booting"] ELSE Unborn]
  /\ signals = [g \in Gens |-> {}] /\ files = [n \in Names |-> NoGen]
  /\ script = "idle" /\ told = {} /\ closing = FALSE /\ reloads = 0 /\ deaths = 0

\* A step of g alone.
Local == UNCHANGED <<signals, files, operator, deaths>>

-----------------------------------------------------------------------------
(* The start of a generation: execve, yta_run, yta_fork_workers *)

Execve(g) ==
  /\ gen[g].stage = "forked"
  /\ gen' = [gen EXCEPT ![g].stage = "booting"]
  /\ Local

\* Fault variant of Daemonize: without setsid().
DaemonizeNoSession(g) ==
  /\ gen[g].stage = "booting"
  /\ gen' = [gen EXCEPT ![g].stage = "session"]
  /\ Local

\* yta_daemonize: the child goes on, in a session and process group of its own.
Daemonize(g) ==
  /\ gen[g].stage = "booting"
  /\ gen' = [gen EXCEPT ![g].stage = "session", ![g].group = IF Daemon THEN g ELSE @]
  /\ Local

\* Fault variant of GetListenFds: the environment is not looked at.
GetListenFdsAnew(g) ==
  /\ gen[g].stage = "session"
  /\ \E list \in FdLists : gen' = [gen EXCEPT ![g].stage = "bound", ![g].fds = list]
  /\ Local

\* get_listen_fds: new sockets, or those of the environment.
GetListenFds(g) ==
  /\ gen[g].stage = "session"
  /\ \E list \in IF gen[g].env = <<>> THEN FdLists ELSE {ParseListenFdsEnv(gen[g].env, Workers)} :
       gen' = [gen EXCEPT ![g].stage = "bound", ![g].fds = list]
  /\ Local

\* Fault variant of InstallHandlers: without clear_sigmask.
InstallHandlersOnly(g) ==
  /\ gen[g].stage = "bound"
  /\ gen' = [gen EXCEPT ![g].stage = "starting"]
  /\ Local

\* clear_sigmask, setup_master_signal_handlers: execve keeps the mask, and the
\* image was started in the handler of SIGUSR1.
InstallHandlers(g) ==
  /\ gen[g].stage = "bound"
  /\ gen' = [gen EXCEPT ![g].stage = "starting", ![g].blocked = {}]
  /\ Local

WritePidfile(g) ==
  /\ gen[g].stage = "starting"
  /\ gen' = [gen EXCEPT ![g].stage = "named", ![g].name = 0]
  /\ files' = [files EXCEPT ![0] = g]
  /\ UNCHANGED <<signals, operator, deaths>>

ForkWorkers(g) ==
  /\ gen[g].stage = "named" /\ gen[g].handler = "idle"
  /\ gen' = [gen EXCEPT ![g].stage = "serving", ![g].worker = [s \in Slots |-> "serving"]]
  /\ Local

-----------------------------------------------------------------------------
(* What fails: exit(1), which leaves workers and files behind. *)

\* upgrade_handler is between rename() and fork().
Renamed(g) == gen[g].stage \in {"named", "serving", "stopping"} /\ gen[g].handler = "renamed"

Exit1(g, i) ==
  /\ Fails
  /\ gen' = [gen EXCEPT ![g] = [i EXCEPT !.stage = "failed"]]
  /\ signals' = [signals EXCEPT ![g] = {}]
  /\ UNCHANGED <<operator, deaths>>

\* Before anything is written: execve, setsid, a socket, sigprocmask, fopen.
StartAborts(g) ==
  /\ gen[g].stage \in Booting \cup {"starting"}
  /\ Exit1(g, gen[g]) /\ UNCHANGED files

\* fwrite, into the file that fopen has emptied.
WriteAborts(g) ==
  /\ gen[g].stage = "starting"
  /\ Exit1(g, gen[g]) /\ files' = [files EXCEPT ![0] = NoGen]

\* calloc, or the fork of the worker behind the first n.
ForkAborts(g) ==
  /\ gen[g].stage = "named" /\ gen[g].handler = "idle"
  /\ \E n \in 0 .. (Workers - 1) :
       Exit1(g, [gen[g] EXCEPT !.worker = [s \in Slots |-> IF s <= n THEN "serving" ELSE "none"]])
  /\ UNCHANGED files

\* The fork of a replacement.
RespawnAborts(g) ==
  /\ gen[g].stage = "serving" /\ gen[g].handler = "idle" /\ ~gen[g].upgraded
  /\ \E s \in Slots : gen[g].worker[s] = "none"
  /\ Exit1(g, gen[g]) /\ UNCHANGED files

\* The allocation in create_listen_fds_env, when the file has been renamed.
UpgradeAborts(g) == Renamed(g) /\ Exit1(g, gen[g]) /\ UNCHANGED files

Fail(g) == StartAborts(g) \/ WriteAborts(g) \/ ForkAborts(g) \/ RespawnAborts(g) \/ UpgradeAborts(g)

-----------------------------------------------------------------------------
(* A running generation *)

\* Fault variant of Respawn: the flag is tested the wrong way round.
RespawnUpgraded(g, s) ==
  /\ gen[g].stage = "serving" /\ gen[g].handler = "idle"
  /\ gen[g].worker[s] = "none" /\ gen[g].upgraded
  /\ gen' = [gen EXCEPT ![g].worker[s] = "serving"]
  /\ Local

Respawn(g, s) ==
  /\ gen[g].stage = "serving" /\ gen[g].handler = "idle"
  /\ gen[g].worker[s] = "none" /\ ~gen[g].upgraded
  /\ gen' = [gen EXCEPT ![g].worker[s] = "serving"]
  /\ Local

\* upgrade_handler up to rename(), which fails if somebody has removed the file.  It can
\* interrupt signal_handler.
RenamePidfile(g) ==
  LET n == gen[g].name IN
  /\ gen[g].stage \in {"named", "serving", "stopping"}
  /\ "USR1" \in signals[g] /\ "USR1" \notin gen[g].blocked
  /\ signals' = [signals EXCEPT ![g] = @ \ {"USR1"}]
  /\ \/ (files[n] = NoGen \/ Fails) /\ UNCHANGED <<gen, files>>
     \/ /\ files[n] # NoGen
        /\ files' = [files EXCEPT ![n + 1] = files[n], ![n] = NoGen]
        /\ gen' = [gen EXCEPT ![g].handler = "renamed", ![g].blocked = @ \cup {"USR1"}]
  /\ UNCHANGED <<operator, deaths>>

\* Fault variant of Upgraded: the new name is not stored.
UpgradedKeepsName(i) ==
  [i EXCEPT !.upgraded = TRUE, !.handler = "idle", !.blocked = @ \ {"USR1"}]

\* The rest of upgrade_handler: the new name, upgraded, and fork(), which may fail.
Upgraded(i) ==
  [i EXCEPT !.name = @ + 1, !.upgraded = TRUE, !.handler = "idle", !.blocked = @ \ {"USR1"}]

StartSuccessor(g) ==
  /\ Renamed(g)
  /\ \E h \in Gens :
       /\ gen[h].stage = "none" /\ \A k \in 1 .. (h - 1) : gen[k].stage # "none"
       /\ gen' = [gen EXCEPT
            ![g] = Upgraded(@),
            ![h] = [@ EXCEPT !.stage = "forked", !.group = gen[g].group, !.blocked = gen[g].blocked,
                             !.env = CreateListenFdsEnv(gen[g].fds)]]
  /\ Local

StartFails(g) ==
  /\ Fails /\ Renamed(g)
  /\ gen' = [gen EXCEPT ![g] = Upgraded(@)]
  /\ Local

\* Fault variant of Reached: always the process group.
ReachedGroup(g) == {h \in Gens : gen[h].group = gen[g].group}

\* signal_handler.  While workers are being forked an entry of worker_pids is 0,
\* and the signal goes to the whole process group.
Reached(g) == IF gen[g].stage = "named" THEN {h \in Gens : gen[h].group = gen[g].group} ELSE {g}

Drain(worker) == [s \in Slots |-> IF worker[s] = "serving" THEN "draining" ELSE worker[s]]

\* An upgrade_handler that it interrupts is not finished: the new name is stored or not.
Stopping(i) == [i EXCEPT !.stage = "stopping", !.worker = Drain(@), !.blocked = @ \cup {"QUIT"},
                         !.handler = IF @ = "renamed" THEN "cut" ELSE @]

HandleQuit(g) ==
  /\ gen[g].stage \in Running /\ "QUIT" \in signals[g]
  /\ \/ gen' = [gen EXCEPT ![g] = Stopping(@)]
     \/ Renamed(g) /\ gen' = [gen EXCEPT ![g] = Stopping(Upgraded(@))]
  /\ signals' = [h \in Gens |->
       CASE h = g -> signals[g] \ {"QUIT"}
         [] h \in Reached(g) \ {g} /\ gen[h].stage \in Living -> signals[h] \cup {"QUIT"}
         [] OTHER -> signals[h]]
  /\ UNCHANGED <<files, operator, deaths>>

\* The signal is pending for an image that has not installed its handlers.
Doomed(g) == gen[g].stage \in Booting /\ "QUIT" \in signals[g]

\* Before execve it still has the handlers and the memory of the generation that forked
\* it (the one before it), unless SIGQUIT is blocked, as it is when signal_handler was
\* interrupted for the upgrade.
Inherits(g) == Doomed(g) /\ gen[g].stage = "forked" /\ "QUIT" \notin gen[g].blocked

\* signal_handler in that process.  The signal came to the whole group, so the workers of
\* the generation that forked it have had it; the process has none to wait for, removes the
\* pid file under the name it has copied, and exits.
ExitInherited(g) ==
  /\ Inherits(g)
  /\ gen' = [gen EXCEPT ![g].stage = "gone"]
  /\ \E p \in Gens : p + 1 = g /\ files' = [files EXCEPT ![gen[p].name] = NoGen]
  /\ signals' = [signals EXCEPT ![g] = {}]
  /\ UNCHANGED <<operator, deaths>>

\* Without a handler the signal ends the process (if it is blocked, in clear_sigmask:
\* nobody sees what such an image does until then).
DieOfQuit(g) ==
  /\ Doomed(g) /\ ~Inherits(g)
  /\ gen' = [gen EXCEPT ![g].stage = "gone"]
  /\ signals' = [signals EXCEPT ![g] = {}]
  /\ UNCHANGED <<files, operator, deaths>>

\* A worker's last client is gone.
Drained(g, s) ==
  /\ gen[g].worker[s] = "draining"
  /\ gen' = [gen EXCEPT ![g].worker[s] = "none"]
  /\ Local

\* All workers have been waited for, and no handler runs on top.
MayExit(g) ==
  gen[g].stage = "stopping" /\ gen[g].handler # "renamed" /\ \A s \in Slots : gen[g].worker[s] = "none"

\* Fault variant of ExitAndCleanup: the pid file is left.
ExitOnly(g) ==
  /\ MayExit(g)
  /\ gen' = [gen EXCEPT ![g].stage = "gone"]
  /\ signals' = [signals EXCEPT ![g] = {}]
  /\ UNCHANGED <<files, operator, deaths>>

\* remove() takes the file by its name, whoever is in it by now.
ExitAndCleanup(g) ==
  /\ MayExit(g)
  /\ gen' = [gen EXCEPT ![g].stage = "gone"]
  /\ files' = IF gen[g].name = NoName THEN files ELSE [files EXCEPT ![gen[g].name] = NoGen]
  /\ signals' = [signals EXCEPT ![g] = {}]
  /\ UNCHANGED <<operator, deaths>>

WorkerDies(g, s) ==
  /\ gen[g].worker[s] # "none" /\ deaths < MaxDeaths
  /\ deaths' = deaths + 1
  /\ gen' = [gen EXCEPT ![g].worker[s] = "none"]
  /\ UNCHANGED <<signals, files, operator>>

-----------------------------------------------------------------------------
(* The operator: one run of upgrade_yotta.sh at a time, and a stop at the end *)

Signal(g, sig) ==
  signals' = IF gen[g].stage \in Living THEN [signals EXCEPT ![g] = @ \cup {sig}] ELSE signals

\* kill -s SIGUSR1 $(cat $pid_path).  If the process is gone, the script ends (-e).
ScriptUpgrade ==
  /\ script = "idle" /\ ~closing /\ reloads < MaxReloads /\ files[0] # NoGen
  /\ script' = IF gen[files[0]].stage \in Living THEN "asleep" ELSE "idle"
  /\ reloads' = reloads + 1
  /\ Signal(files[0], "USR1")
  /\ UNCHANGED <<gen, files, told, closing, deaths>>

\* kill -s SIGQUIT $(cat $pid_path.old); without that file the script ends (-e).
\* By then the generation it tells has been up for a second or two, and has forked its
\* workers; nothing else is assumed about what the generations do meanwhile.
ScriptQuit ==
  /\ script = "asleep" /\ \A g \in Gens : files[1] = g => gen[g].stage # "named"
  /\ script' = "idle"
  /\ IF files[1] = NoGen THEN UNCHANGED <<signals, told>>
                         ELSE Signal(files[1], "QUIT") /\ told' = told \cup {files[1]}
  /\ UNCHANGED <<gen, files, closing, reloads, deaths>>

\* ExecStop: SIGQUIT to the process of the pid file.
OperatorStops ==
  /\ script = "idle" /\ ~closing /\ files[0] # NoGen
  /\ closing' = TRUE /\ told' = told \cup {files[0]}
  /\ Signal(files[0], "QUIT")
  /\ UNCHANGED <<gen, files, script, reloads, deaths>>

-----------------------------------------------------------------------------
\* A pending signal is delivered before the start goes on.
Start(g) ==
  /\ "QUIT" \notin signals[g]
  /\ \/ Execve(g) \/ Daemonize(g) \/ GetListenFds(g) \/ InstallHandlers(g)
     \/ WritePidfile(g) \/ ForkWorkers(g)
Upgrades(g) == RenamePidfile(g) \/ StartSuccessor(g) \/ StartFails(g)
Stops(g) == HandleQuit(g) \/ DieOfQuit(g) \/ ExitInherited(g) \/ ExitAndCleanup(g)

Next == \/ \E g \in Gens : Start(g) \/ Upgrades(g) \/ Stops(g) \/ Fail(g)
        \/ \E g \in Gens, s \in Slots : Respawn(g, s) \/ Drained(g, s) \/ WorkerDies(g, s)
        \/ ScriptUpgrade \/ ScriptQuit \/ OperatorStops

Spec == Init /\ [][Next]_vars

\* The processes run.  That the last client of a worker leaves is not in their hands.
FairSpec ==
  /\ Spec
  /\ \A g \in Gens : WF_vars(Start(g)) /\ WF_vars(Upgrades(g)) /\ WF_vars(Stops(g))
  /\ \A g \in Gens, s \in Slots : WF_vars(Respawn(g, s))

-----------------------------------------------------------------------------
(* Properties *)

\* Every generation serves the sockets the first one opened, in the same order
\* (create_listen_fds_env, parse_listen_fds_env), and the text fits its buffer.
SocketsHandedOn ==
  \A g \in Gens : /\ gen[g].stage \in Running => gen[g].fds = gen[1].fds
                  /\ Len(gen[g].env) <= EnvRoom(Workers)
                  /\ gen[g].env # <<>> => Len(Starts(gen[g].env)) = Workers

\* The text of create_listen_fds_env fits its buffer, and parse_listen_fds_env reads
\* back what was written.
TextReadBack ==
  \A fds \in FdLists :
    LET env == CreateListenFdsEnv(fds)
    IN  /\ env # <<>> /\ Len(env) <= EnvRoom(Workers) /\ Len(Starts(env)) = Workers
        /\ ParseListenFdsEnv(env, Workers) = fds

\* A process failed, or an upgrade has started nobody (fork() failed, or SIGQUIT came
\* before it).
Failed == \E g \in Gens : \/ gen[g].stage = "failed"
                          \/ gen[g].upgraded /\ \A h \in Gens : h > g => gen[h].stage = "none"

\* SIGQUIT comes between the rename of the pid file and fork(): upgrade_handler is
\* not finished.
Interrupted(g) ==
  \/ gen[g].handler = "cut"
  \/ gen[g].handler = "renamed" /\ gen[g].stage \in Running /\ "QUIT" \in signals[g]

\* README.md:16, "Zero down time upgrades": until the operator stops the service,
\* some generation that nobody told to quit runs or is on its way, if no step of an
\* upgrade fails and no SIGQUIT cuts upgrade_handler short.
ServiceKept ==
  closing \/ Failed \/ (\E g \in Gens : Interrupted(g))
    \/ \E g \in Gens : gen[g].stage \in Booting \cup Running /\ "QUIT" \notin signals[g]

\* A generation stops only if the operator told that very generation, or told the one
\* that started it before yta_daemonize had taken it out of the process group.
StopsAreMeant ==
  \A g \in Gens :
    gen[g].stage \in {"stopping", "gone"} \/ "QUIT" \in signals[g] =>
      g \in told \/ (gen[g].fds = NoFds /\ \E h \in told : h < g)

\* The file a generation is named by, as long as its pid file has not been replaced.
OwnName(g) == IF gen[g].handler \in {"renamed", "cut"} THEN gen[g].name + 1 ELSE gen[g].name

\* What kill $(cat ...) reaches has that name for its own file, and is a generation that
\* has not ended: unless it ended by exit(1), which removes no file, or SIGQUIT came
\* between the rename of its file and the assignment of the new name.
FilesNameTheLiving ==
  \A n \in Names, g \in Gens :
    files[n] = g => /\ OwnName(g) = n
                    /\ \/ gen[g].stage \in {"named", "serving", "stopping"}
                       \/ gen[g].stage = "failed"
                       \/ gen[g].stage = "gone" /\ gen[g].handler = "cut"

\* A running generation gets a pid file, and loses it only to another one that is still
\* there and has the same name for its file (a younger one that is upgraded too, or an
\* older one that ends), or to a child that is told to stop before execve.
Serves(g) == gen[g].stage \in {"named", "serving"}
HasFile(g) == files[OwnName(g)] = g
Reachable ==
  [][\A g \in Gens :
       Serves(g)' /\ (Serves(g) => HasFile(g)) =>
         \/ HasFile(g)'
         \/ \E h \in Gens \ {g} : gen[h].stage \in Running \cup {"stopping"} /\ OwnName(h)' = OwnName(g)'
         \/ \E h \in Gens : Inherits(h)]_vars

\* SIGUSR1 is never left pending: each image unblocks it.
UpgradeHeard ==
  \A g \in Gens : "USR1" \in signals[g] ~> "USR1" \notin signals[g]

\* A worker accepts from each of the sockets, again and again, until the operator
\* stops the service, in spite of upgrades and of workers that die.
EverySocketServed ==
  \A s \in Slots :
    TRUE ~> \/ \E g \in Gens : gen[g].worker[s] = "serving" /\ gen[g].fds[s] = gen[1].fds[s]
            \/ closing \/ Failed \/ \E g \in Gens : Interrupted(g)
==============================================================================
