------------------------------ MODULE LabWorker ------------------------------
(***************************************************************************)
(* The persistent worker host of the direct-endpoint laboratory: one       *)
(* account, the short commands start-worker and stop-worker, the detached  *)
(* worker-host process that supervises one launcher process, and the three *)
(* files they meet over: state/worker.json, session/worker_host.pid and    *)
(* session/control.stop.                                                   *)
(*                                                                         *)
(* No lock guards any of them.  worker.json is read once by every process  *)
(* (AccountWorker.resume) and afterwards written whole from that process's *)
(* own memory, so each write may undo another process's.  A step of this   *)
(* model ends at a file write, a process start or a wait.                  *)
(*                                                                         *)
(* A process number is the identity of the host that first had it; Reuse   *)
(* lets the system give a finished host's number to a foreign process.     *)
(***************************************************************************)
EXTENDS Naturals, FiniteSets

CONSTANTS
    Clis,              \* operators that may run a command at the same time
    Hosts,             \* worker-host processes that may be spawned
    None,              \* no process
    MaxRestarts,       \* Supervisor's max_restarts
    MaxCommands,       \* bound: commands the operators issue
    MaxIncidents,      \* bound: launchers and hosts that die or resist, and the like
    KillsTree          \* forced kill takes the children along (taskkill /T)

ASSUME WorkerAssumption ==
    /\ None \notin Hosts
    /\ MaxRestarts \in Nat /\ MaxCommands \in Nat /\ MaxIncidents \in Nat
    /\ KillsTree \in BOOLEAN

VARIABLES
    file,      \* worker.json: state, onboarding state, restarts, launcher pid
    pidFile,   \* the host named by worker_host.pid, or None
    control,   \* control.stop exists
    at,        \* host -> the statement it is about to run
    mem,       \* host -> its AccountWorker, loaded once
    handle,    \* host -> the number of the launcher it holds, 0 for none
    live,      \* launcher processes that run: <<host, number>>
    cli,       \* operator -> its command's place, target and loaded record
    foreign,   \* hosts whose process number another program has now
    restarted, \* restarts of a launcher after a crash, over the account's life
    world      \* commands and incidents to come; was one of them a disturbance?

vars == <<file, pidFile, control, at, mem, handle, live, cli, foreign,
          restarted, world>>

(***************************************************************************)
(* The onboarding machine: an explicit table, plus STOP and the failure    *)
(* triggers from every state that is not terminal.                         *)
(***************************************************************************)
Terminal == {"FAILED_CLOSED", "STOPPED"}

HappyPath ==
    {<<"NEW", "CREATE_PORTABLE_DIRECTORY", "PORTABLE_DIRECTORY_CREATED">>,
     <<"PORTABLE_DIRECTORY_CREATED", "REQUIRE_BROKER_ENDPOINT",
       "BROKER_ENDPOINT_REQUIRED">>,
     <<"BROKER_ENDPOINT_REQUIRED", "ENDPOINT_VERIFIED",
       "BROKER_ENDPOINT_VERIFIED">>,
     <<"BROKER_ENDPOINT_VERIFIED", "SUPPLY_CREDENTIALS",
       "CREDENTIALS_PENDING">>,
     <<"CREDENTIALS_PENDING", "BEGIN_LOGIN_VALIDATION", "LOGIN_VALIDATION">>,
     <<"LOGIN_VALIDATION", "LOGIN_ACCEPTED", "ACTIVE">>}

FailureTriggers ==
    {"MISSING_ENDPOINT", "UNREACHABLE_ENDPOINT", "WRONG_CREDENTIALS",
     "SERVER_REJECTED", "PROCESS_DIED", "TIMEOUT", "INVALID_CONFIG"}

OnboardingStates == {t[1] : t \in HappyPath} \cup {"ACTIVE"} \cup Terminal

Transitions ==
    HappyPath
      \cup {<<s, "STOP", "STOPPED">> : s \in OnboardingStates \ Terminal}
      \cup {<<s, f, "FAILED_CLOSED">> :
              s \in OnboardingStates \ Terminal, f \in FailureTriggers}

\* OnboardingStateMachine.apply: a rejected trigger leaves the state alone.
Apply(onboarding, trigger) ==
    IF \E t \in Transitions : t[1] = onboarding /\ t[2] = trigger
    THEN (CHOOSE t \in Transitions : t[1] = onboarding /\ t[2] = trigger)[3]
    ELSE onboarding

WorkerStates ==
    {"STARTING", "HEALTHY", "RUNNING", "RESTARTING", "FAILED_CLOSED", "STOPPED"}

Launchers == Hosts \X (1 .. MaxRestarts + 1)

Records ==
    [state : WorkerStates, onboarding : OnboardingStates,
     restarts : Nat, launcher : Launchers \cup {None}]

Places ==
    {"unborn", "resume", "look", "claim", "starting", "launch", "relaunch",
     "fail", "failed", "healthy", "running", "track", "loop", "check",
     "terminate", "stopped", "declare", "cleanup", "untrack", "unlink",
     "gone", "killed"}

Fresh == [state |-> "STARTING", onboarding |-> "NEW", restarts |-> 0,
          launcher |-> None]

Idle == [at |-> "idle", host |-> None, seen |-> Fresh]

RecordType ==
    /\ file \in Records
    /\ mem \in [Hosts -> Records]

ProcessType ==
    /\ at \in [Hosts -> Places]
    /\ handle \in [Hosts -> 0 .. MaxRestarts + 1]
    /\ live \subseteq Launchers
    /\ foreign \subseteq Hosts

CommandType ==
    cli \in [Clis -> [at : {"idle", "loaded", "started", "ask", "wait", "kill",
                            "finish"},
                      host : Hosts \cup {None}, seen : Records]]

SharedType ==
    /\ pidFile \in Hosts \cup {None}
    /\ control \in BOOLEAN
    /\ restarted \in Nat
    /\ world \in [commands : Nat, incidents : Nat, disturbed : BOOLEAN]

TypeOK == RecordType /\ ProcessType /\ CommandType /\ SharedType

\* AccountWorker.create: the isolated directory and its first state file.
Init ==
    /\ file = Fresh
    /\ pidFile = None
    /\ control = FALSE
    /\ at = [h \in Hosts |-> "unborn"]
    /\ mem = [h \in Hosts |-> Fresh]
    /\ handle = [h \in Hosts |-> 0]
    /\ live = {}
    /\ cli = [c \in Clis |-> Idle]
    /\ foreign = {}
    /\ restarted = 0
    /\ world = [commands |-> MaxCommands, incidents |-> MaxIncidents,
                disturbed |-> FALSE]

----------------------------------------------------------------------------
Running(h) == at[h] \notin {"unborn", "gone", "killed"}

\* pid_is_alive: some process has this number.
PidAlive(h) == h # None /\ (Running(h) \/ h \in foreign)

Held(h) == <<h, handle[h]>>

Command ==
    /\ world.commands > 0
    /\ world' = [world EXCEPT !.commands = @ - 1]

Incident ==
    /\ world.incidents > 0
    /\ world' = [world EXCEPT !.incidents = @ - 1]

\* An incident some promises do not hold after: a signal to a host, a wait that
\* runs out on a busy host, a process number given to another program.
Disturbance ==
    /\ world.incidents > 0
    /\ world' = [world EXCEPT !.incidents = @ - 1, !.disturbed = TRUE]

Disturbed == world.disturbed

\* AccountWorker._persist: the whole record, from this process's memory.
Persist(h, record) ==
    /\ mem' = [mem EXCEPT ![h] = record]
    /\ file' = record

SetState(h, state) == Persist(h, [mem[h] EXCEPT !.state = state])

Trigger(h, trigger) ==
    Persist(h, [mem[h] EXCEPT !.onboarding = Apply(@, trigger)])

Goto(h, place) == at' = [at EXCEPT ![h] = place]

----------------------------------------------------------------------------
(* The host process. *)

\* run_worker_host resumes the account: this is its only read of worker.json.
HostResume(h) ==
    /\ at[h] = "resume"
    /\ mem' = [mem EXCEPT ![h] = file]
    /\ Goto(h, "look")
    /\ UNCHANGED <<file, pidFile, control, handle, live, cli, foreign,
                   restarted, world>>

\* A pid file that names a live process ends this host, without its finally.
HostLook(h) ==
    /\ at[h] = "look"
    /\ Goto(h, IF PidAlive(pidFile) THEN "gone" ELSE "claim")
    /\ UNCHANGED <<file, pidFile, control, mem, handle, live, cli, foreign,
                   restarted, world>>

HostClaim(h) ==
    /\ at[h] = "claim"
    /\ control' = FALSE
    /\ pidFile' = h
    /\ Goto(h, "starting")
    /\ UNCHANGED <<file, mem, handle, live, cli, foreign, restarted, world>>

\* Supervisor.start up to its launcher: refused when FAILED_CLOSED.
HostStart(h) ==
    /\ at[h] = "starting"
    /\ IF mem[h].state = "FAILED_CLOSED"
       THEN Goto(h, "cleanup") /\ UNCHANGED <<file, mem>>
       ELSE SetState(h, "STARTING") /\ Goto(h, "launch")
    /\ UNCHANGED <<pidFile, control, handle, live, cli, foreign, restarted,
                   world>>

\* A launcher's start() has failed: it raised, or its process is gone when it is
\* looked at.  The job harness may refuse the first request while the process it
\* was opened for goes on, which nobody terminates.
StartFails(launcher) ==
    /\ Incident
    /\ live' \in {live, live \cup {launcher}}

Launch(h) ==
    /\ handle' = [handle EXCEPT ![h] = @ + 1]
    /\ LET launcher == <<h, handle[h] + 1>>
       IN  \/ /\ live' = live \cup {launcher}
              /\ Goto(h, "healthy")
              /\ UNCHANGED world
           \/ StartFails(launcher) /\ Goto(h, "fail")

HostLaunch(h) ==
    /\ at[h] = "launch"
    /\ Launch(h)
    /\ UNCHANGED <<file, pidFile, control, mem, cli, foreign, restarted>>

\* _fail_closed: the onboarding trigger is saved first, the state after it.
HostFail(h) ==
    /\ at[h] = "fail"
    /\ Trigger(h, "PROCESS_DIED")
    /\ Goto(h, "failed")
    /\ UNCHANGED <<pidFile, control, handle, live, cli, foreign, restarted,
                   world>>

HostFailed(h) ==
    /\ at[h] = "failed"
    /\ SetState(h, "FAILED_CLOSED")
    /\ Goto(h, "cleanup")
    /\ UNCHANGED <<pidFile, control, handle, live, cli, foreign, restarted,
                   world>>

HostHealthy(h) ==
    /\ at[h] = "healthy"
    /\ SetState(h, "HEALTHY")
    /\ Goto(h, "running")
    /\ UNCHANGED <<pidFile, control, handle, live, cli, foreign, restarted,
                   world>>

\* _sync_process_metadata: two saves, RUNNING and then the launcher's number.
HostRunning(h) ==
    /\ at[h] = "running"
    /\ SetState(h, "RUNNING")
    /\ Goto(h, "track")
    /\ UNCHANGED <<pidFile, control, handle, live, cli, foreign, restarted,
                   world>>

HostTrack(h) ==
    /\ at[h] = "track"
    /\ Persist(h, [mem[h] EXCEPT !.launcher = Held(h)])
    /\ Goto(h, "loop")
    /\ UNCHANGED <<pidFile, control, handle, live, cli, foreign, restarted,
                   world>>

\* Mutant: the stop file is never looked at.
LoopDeaf(h) ==
    /\ at[h] = "loop"
    /\ Goto(h, "check")
    /\ UNCHANGED <<file, pidFile, control, mem, handle, live, cli, foreign,
                   restarted, world>>

\* The loop looks at the stop file first.
HostLoop(h) ==
    /\ at[h] = "loop"
    /\ Goto(h, IF control THEN "terminate" ELSE "check")
    /\ UNCHANGED <<file, pidFile, control, mem, handle, live, cli, foreign,
                   restarted, world>>

\* A signal only sets the flag that the loop reads beside the stop file.
HostSignalled(h) ==
    /\ at[h] = "loop"
    /\ Disturbance
    /\ Goto(h, "terminate")
    /\ UNCHANGED <<file, pidFile, control, mem, handle, live, cli, foreign,
                   restarted>>

\* check_liveness and _on_crash_detected: the restart is counted and saved
\* before the new launcher is started.
HostCheck(h) ==
    /\ at[h] = "check"
    /\ \/ /\ Held(h) \in live
          /\ Goto(h, "healthy")
          /\ UNCHANGED <<file, mem>>
       \/ /\ Held(h) \notin live
          /\ mem[h].restarts >= MaxRestarts
          /\ Goto(h, "fail")
          /\ UNCHANGED <<file, mem>>
       \/ /\ Held(h) \notin live
          /\ mem[h].restarts < MaxRestarts
          /\ Persist(h, [mem[h] EXCEPT !.restarts = @ + 1,
                                       !.state = "RESTARTING"])
          /\ Goto(h, "relaunch")
    /\ UNCHANGED <<pidFile, control, handle, live, cli, foreign, restarted,
                   world>>

HostRelaunch(h) ==
    /\ at[h] = "relaunch"
    /\ Launch(h)
    /\ restarted' = restarted + 1
    /\ UNCHANGED <<file, pidFile, control, mem, cli, foreign>>

\* Mutant: nobody looks whether the launcher is gone.
TerminateBlind(h) ==
    /\ at[h] = "terminate"
    /\ Goto(h, "stopped")
    /\ \/ /\ live' = live \ {Held(h)}
          /\ UNCHANGED world
       \/ /\ Held(h) \in live
          /\ Incident
          /\ UNCHANGED live
    /\ UNCHANGED <<file, pidFile, control, mem, handle, cli, foreign,
                   restarted>>

\* Supervisor.stop: a launcher that survives terminate() makes it raise, and
\* the host leaves through its finally without declaring STOPPED.
HostTerminate(h) ==
    /\ at[h] = "terminate"
    /\ \/ /\ live' = live \ {Held(h)}
          /\ Goto(h, "stopped")
          /\ UNCHANGED world
       \/ /\ Held(h) \in live
          /\ Incident
          /\ Goto(h, "cleanup")
          /\ UNCHANGED live
    /\ UNCHANGED <<file, pidFile, control, mem, handle, cli, foreign,
                   restarted>>

HostStopped(h) ==
    /\ at[h] = "stopped"
    /\ Trigger(h, "STOP")
    /\ Goto(h, "declare")
    /\ UNCHANGED <<pidFile, control, handle, live, cli, foreign, restarted,
                   world>>

HostDeclare(h) ==
    /\ at[h] = "declare"
    /\ SetState(h, "STOPPED")
    /\ Goto(h, "cleanup")
    /\ UNCHANGED <<pidFile, control, handle, live, cli, foreign, restarted,
                   world>>

\* The finally: cleanup() empties the session directory, whoever's files it
\* holds; then the launcher's number is dropped, then both files once more.
HostCleanup(h) ==
    /\ at[h] = "cleanup"
    /\ pidFile' = None
    /\ control' = FALSE
    /\ Goto(h, "untrack")
    /\ UNCHANGED <<file, mem, handle, live, cli, foreign, restarted, world>>

\* Mutant: every host that leaves declares STOPPED.
UntrackStopped(h) ==
    /\ at[h] = "untrack"
    /\ Persist(h, [mem[h] EXCEPT !.launcher = None, !.state = "STOPPED"])
    /\ Goto(h, "unlink")
    /\ UNCHANGED <<pidFile, control, handle, live, cli, foreign, restarted,
                   world>>

HostUntrack(h) ==
    /\ at[h] = "untrack"
    /\ Persist(h, [mem[h] EXCEPT !.launcher = None])
    /\ Goto(h, "unlink")
    /\ UNCHANGED <<pidFile, control, handle, live, cli, foreign, restarted,
                   world>>

HostUnlink(h) ==
    /\ at[h] = "unlink"
    /\ pidFile' = None
    /\ control' = FALSE
    /\ Goto(h, "gone")
    /\ UNCHANGED <<file, mem, handle, live, cli, foreign, restarted, world>>

----------------------------------------------------------------------------
(* The commands. *)

\* The command loads the record; a worker that is FAILED_CLOSED is not started.
StartWorker(c) ==
    /\ cli[c].at = "idle"
    /\ Command
    /\ IF file.state = "FAILED_CLOSED" THEN UNCHANGED cli
       ELSE /\ \E h \in Hosts : at[h] = "unborn"
            /\ cli' = [cli EXCEPT ![c] = [Idle EXCEPT !.at = "loaded"]]
    /\ UNCHANGED <<file, pidFile, control, at, mem, handle, live, foreign,
                   restarted>>

\* start_persistent_worker has checked that record, which the host may have
\* changed since; it returns when a process has the number of the pid file, and
\* otherwise spawns a host and waits.
StartSpawn(c) ==
    /\ cli[c].at = "loaded"
    /\ IF PidAlive(pidFile)
       THEN cli' = [cli EXCEPT ![c] = Idle] /\ UNCHANGED at
       ELSE \E h \in Hosts :
              /\ at[h] = "unborn"
              /\ Goto(h, "resume")
              /\ cli' = [cli EXCEPT ![c] = [Idle EXCEPT !.at = "started",
                                                        !.host = h]]
    /\ UNCHANGED <<file, pidFile, control, mem, handle, live, foreign,
                   restarted, world>>

\* The wait ends when the launcher is recorded, or at its deadline.
StartReturns(c) ==
    /\ cli[c].at = "started"
    /\ \/ /\ PidAlive(pidFile)
          /\ file.launcher # None \/ file.state = "FAILED_CLOSED"
          /\ UNCHANGED world
       \/ ~Running(cli[c].host) /\ UNCHANGED world
       \/ Running(cli[c].host) /\ Disturbance
    /\ cli' = [cli EXCEPT ![c] = Idle]
    /\ UNCHANGED <<file, pidFile, control, at, mem, handle, live, foreign,
                   restarted>>

\* request_stop_and_wait: nothing to do unless the pid file names a process.
StopWorker(c) ==
    /\ cli[c].at = "idle"
    /\ Command
    /\ cli' = [cli EXCEPT ![c] = IF PidAlive(pidFile)
                                 THEN [Idle EXCEPT !.at = "ask",
                                                   !.host = pidFile]
                                 ELSE Idle]
    /\ UNCHANGED <<file, pidFile, control, at, mem, handle, live, foreign,
                   restarted>>

StopAsk(c) ==
    /\ cli[c].at = "ask"
    /\ control' = TRUE
    /\ cli' = [cli EXCEPT ![c].at = "wait"]
    /\ UNCHANGED <<file, pidFile, at, mem, handle, live, foreign, restarted,
                   world>>

StopReturns(c) ==
    /\ cli[c].at = "wait"
    /\ ~PidAlive(cli[c].host)
    /\ cli' = [cli EXCEPT ![c] = Idle]
    /\ UNCHANGED <<file, pidFile, control, at, mem, handle, live, foreign,
                   restarted, world>>

\* The grace period is over: the account is resumed once more and the process
\* with this number is killed, whatever it is by now.
StopEscalate(c) ==
    /\ cli[c].at = "wait"
    /\ PidAlive(cli[c].host)
    /\ IF Running(cli[c].host) THEN Disturbance ELSE UNCHANGED world
    /\ cli' = [cli EXCEPT ![c] = [@ EXCEPT !.at = "kill", !.seen = file]]
    /\ UNCHANGED <<file, pidFile, control, at, mem, handle, live, foreign,
                   restarted>>

StopKill(c) ==
    LET h == cli[c].host
    IN  /\ cli[c].at = "kill"
        /\ IF Running(h)
           THEN /\ Goto(h, "killed")
                /\ live' = IF KillsTree THEN {l \in live : l[1] # h} ELSE live
                /\ UNCHANGED foreign
           ELSE /\ foreign' = foreign \ {h}
                /\ UNCHANGED <<at, live>>
        /\ cli' = [cli EXCEPT ![c].at = "finish"]
        /\ UNCHANGED <<file, pidFile, control, mem, handle, restarted, world>>

\* "Finish the job it would have done", from the record loaded before the kill.
StopFinish(c) ==
    /\ cli[c].at = "finish"
    /\ file' = [cli[c].seen EXCEPT !.state = "STOPPED", !.launcher = None]
    /\ pidFile' = None
    /\ control' = FALSE
    /\ cli' = [cli EXCEPT ![c] = Idle]
    /\ UNCHANGED <<at, mem, handle, live, foreign, restarted, world>>

----------------------------------------------------------------------------
(* The world. *)

LauncherDies ==
    /\ Incident
    /\ \E l \in live : live' = live \ {l}
    /\ UNCHANGED <<file, pidFile, control, at, mem, handle, cli, foreign,
                   restarted>>

HostKilled(h) ==
    /\ Running(h)
    /\ Incident
    /\ Goto(h, "killed")
    /\ UNCHANGED <<file, pidFile, control, mem, handle, live, cli, foreign,
                   restarted>>

Reuse(h) ==
    /\ at[h] \in {"gone", "killed"}
    /\ h \notin foreign
    /\ Disturbance
    /\ foreign' = foreign \cup {h}
    /\ UNCHANGED <<file, pidFile, control, at, mem, handle, live, cli,
                   restarted>>

HostStep(h) ==
    \/ HostResume(h) \/ HostLook(h) \/ HostClaim(h) \/ HostStart(h)
    \/ HostLaunch(h) \/ HostFail(h) \/ HostFailed(h) \/ HostHealthy(h)
    \/ HostRunning(h) \/ HostTrack(h) \/ HostLoop(h) \/ HostCheck(h)
    \/ HostRelaunch(h) \/ HostTerminate(h) \/ HostStopped(h)
    \/ HostDeclare(h) \/ HostCleanup(h) \/ HostUntrack(h) \/ HostUnlink(h)

CommandStep(c) ==
    \/ StartSpawn(c) \/ StartReturns(c) \/ StopAsk(c)
    \/ StopReturns(c) \/ StopEscalate(c) \/ StopKill(c) \/ StopFinish(c)

Next ==
    \/ \E h \in Hosts : HostStep(h) \/ HostSignalled(h) \/ HostKilled(h) \/ Reuse(h)
    \/ \E c \in Clis : StartWorker(c) \/ StopWorker(c) \/ CommandStep(c)
    \/ LauncherDies

Spec == Init /\ [][Next]_vars

\* Every process keeps running; nobody has to issue a command and nothing has
\* to fail.
FairSpec ==
    /\ Spec
    /\ \A h \in Hosts : WF_vars(HostStep(h))
    /\ \A c \in Clis : WF_vars(CommandStep(c))

----------------------------------------------------------------------------
(* Properties. *)

\* start_persistent_worker's docstring: "if a worker-host for this account is
\* already running, this does not spawn a second one (one worker-host per
\* account, ever)".  One operator at a time, undisturbed, and not quite: a start
\* that loaded its record before the account failed closed finds no pid file once
\* the failed host has emptied the session (worker_host.py:339, :344), and its host
\* runs beside that one.  Then the record says FAILED_CLOSED, and neither launches.
OneHost ==
    ~Disturbed =>
      \A g, h \in Hosts :
        Running(g) /\ Running(h) /\ g # h => file.state = "FAILED_CLOSED"

\* A host that supervises a launcher or is about to: it has written its pid file,
\* is not leaving, and knows of no failure.
InCharge(h) ==
    /\ Running(h)
    /\ at[h] \notin {"resume", "look", "claim", "cleanup", "untrack", "unlink"}
    /\ mem[h].state # "FAILED_CLOSED"

\* The pid file names the host in charge: it is the only way stop-worker and
\* worker-status find it.
PidNamesHost ==
    ~Disturbed => \A h \in Hosts : InCharge(h) => pidFile = h

\* Restarts are bounded over the account's life, not over one host's: the
\* counter is saved before the launcher is started, so neither a killed host
\* nor a later start-worker may spend a restart twice.  A forced stop of a busy
\* host saves the counter it read before the kill.
RestartsBounded ==
    ~Disturbed => restarted <= file.restarts /\ file.restarts <= MaxRestarts

\* FAILED_CLOSED is absorbing: no command and no process that is still running
\* takes the account out of it, and no launcher is started in it.
FailedIsAbsorbing ==
    [][~Disturbed' /\ file.state = "FAILED_CLOSED"
         => file'.state = "FAILED_CLOSED" /\ live' \subseteq live]_vars

\* stop() verifies that the launcher is really gone before it declares STOPPED:
\* of a host whose record says STOPPED no launcher runs, the ones it restarted
\* included.
StoppedIsQuiet ==
    \A h \in Hosts :
      mem[h].state = "STOPPED" => \A l \in live : l[1] # h

\* Whatever is disturbed, one host starts no more launchers than its restarts
\* allow, and never has two that run: it starts one when the last is gone.
LaunchersBounded ==
    /\ \A h \in Hosts : handle[h] <= MaxRestarts + 1
    /\ \A l \in live : l = Held(l[1])

\* _fail_closed records the reason and then the state; STOPPED likewise.  A
\* record in a terminal worker state has a terminal onboarding state.
TerminalAgrees ==
    ~Disturbed /\ file.state \in Terminal => file.onboarding \in Terminal

\* A stop request is answered within its grace period: stop-worker returns and
\* the host it asked has left.  A host that outlived its start command may
\* remove the request that is meant for another.
StopEnds ==
    \A c \in Clis :
      (cli[c].at = "wait") ~> (cli[c].at = "idle" \/ Disturbed)

\* A start request is answered before its deadline, with a host that runs or one
\* that has left.  A host whose number was given away, or one that outlived a
\* forced stop, may remove the pid file of its successor, and the command then
\* waits for its deadline.
StartEnds ==
    \A c \in Clis :
      (cli[c].at = "started") ~> (cli[c].at = "idle" \/ Disturbed)

\* Everything above that is said of a state: one named host in charge, restarts
\* bounded, STOPPED quiet, terminal records agreed (worker_host.py,
\* worker_supervisor.py).
HostsAreSound ==
    TypeOK /\ OneHost /\ PidNamesHost /\ RestartsBounded /\ LaunchersBounded
      /\ StoppedIsQuiet /\ TerminalAgrees

\* Every command of an undisturbed account is answered.
CommandsEnd == StartEnds /\ StopEnds
----------------------------------------------------------------------------
(* The inductive invariants of LabWorkerProofs: RestInv holds whatever      *)
(* happens, AloneInv and FileInv while nothing disturbs one operator.       *)

OneOperator == \A c, d \in Clis : c = d

Entering   == {"resume", "look", "claim"}
Launching  == {"starting", "launch"}
Watching   == {"healthy", "running", "track", "loop", "check", "terminate"}
Stopping   == {"terminate", "stopped", "declare"}
Leaving    == {"cleanup", "untrack", "unlink"}

Quiet(h) == \A l \in live : l[1] # h

\* Every number of restarts that some process remembers is within the bound, and
\* a host has had at most one launcher more than restarts; it holds the only
\* one of its launchers that may run.
RestInv ==
    /\ LaunchersBounded
    /\ file.restarts <= MaxRestarts
    /\ \A c \in Clis : cli[c].seen.restarts <= MaxRestarts
    /\ \A h \in Hosts :
         /\ mem[h].restarts <= MaxRestarts
         /\ handle[h] <= mem[h].restarts + 1
         /\ at[h] = "relaunch" => handle[h] <= mem[h].restarts
         /\ at[h] \in {"unborn"} \cup Entering \cup Launching => handle[h] = 0
         /\ at[h] \in {"unborn"} \cup Entering => pidFile # h
         /\ at[h] \in {"unborn", "relaunch", "stopped", "declare"} \cup Entering
                        \cup Launching => Quiet(h)
         /\ at[h] \in Watching => handle[h] > 0
         /\ at[h] \in {"launch", "relaunch"} => mem[h].state # "STOPPED"

CommandAt(places) == \E c \in Clis : cli[c].at \in places

\* One host runs, the one the operator's command waits for.  It is on its way in
\* only while its start waits, and stops and leaves only while a stop waits.
Sole ==
    \A h \in Hosts : Running(h) =>
         /\ \A g \in Hosts : Running(g) => g = h
         /\ \A c \in Clis : cli[c].at \notin {"idle", "loaded"} => cli[c].host = h
         /\ at[h] \in Entering => CommandAt({"started"})
         /\ at[h] \in Stopping \cup Leaving => CommandAt({"wait"})
         /\ control /\ at[h] \notin Entering => CommandAt({"wait"})
         /\ at[h] \notin Entering \cup Leaving => pidFile = h

AloneInv ==
    /\ foreign = {}
    /\ ~CommandAt({"kill", "finish"})
    /\ file.state # "FAILED_CLOSED" => Sole

\* The launcher's number aside, two records say the same.
Agree(r, s) ==
    r.state = s.state /\ r.onboarding = s.onboarding /\ r.restarts = s.restarts

\* The file is the record of every host that runs, and says what was done; hosts
\* of an account that has failed closed are on their way in or out.
FileInv ==
    /\ restarted <= file.restarts
    /\ file.state \in Terminal => file.onboarding \in Terminal
    /\ \A h \in Hosts : Running(h) =>
         /\ at[h] # "resume" => Agree(mem[h], file)
         /\ at[h] = "relaunch" => restarted < file.restarts
         /\ at[h] \in {"failed", "declare"} => file.onboarding \in Terminal
         /\ file.state = "FAILED_CLOSED" =>
              at[h] \in Entering \cup Leaving \cup {"starting"}

IInv == TypeOK /\ RestInv /\ StoppedIsQuiet /\ (~Disturbed => AloneInv /\ FileInv)
=============================================================================
