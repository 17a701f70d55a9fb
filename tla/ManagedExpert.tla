---------------------------- MODULE ManagedExpert ----------------------------
(***************************************************************************)
(* The expert binary of one published instance and the pins that vouch for *)
(* it: a sync job rotates a stopped terminal to the release's expert with a*)
(* rollback copy (rotate_managed_expert), a re-provision installs it while *)
(* it starts the terminal (install_expert) and seals it at the end.  The   *)
(* files survive the agent; what the job holds in memory does not.         *)
(***************************************************************************)
EXTENDS Integers

CONSTANTS Releases,     \* releases of the agent, each with an expert of its own
          None,
          MaxJobs,      \* bound: jobs for the account
          MaxUpgrades,  \* bound: times the agent is restarted with another release
          MaxFaults     \* bound: failed file operations, crashes, surviving terminals

ExpertAssumption ==
  /\ None \notin Releases /\ "torn" \notin Releases
  /\ MaxJobs \in Nat /\ MaxUpgrades \in Nat /\ MaxFaults \in Nat

VARIABLES
  release,            \* the expert the running agent ships
  target,             \* MQL5/Experts/TradeJournal/TradeJournalBridge.ex5
  upgrade, rollback,  \* the files a rotation works with
  pins,               \* instance.json: the code manifest and the managed assets
  loaded,             \* the expert the terminal runs, None when it is stopped
  worker,             \* the job: its step, its kind, what it remembers
  good,               \* ghost: the expert last known to be sound
  jobs, upgrades, faults

files == <<target, upgrade, rollback, pins>>
bounds == <<jobs, upgrades, faults>>
vars == <<release, files, loaded, worker, good, bounds>>

File == Releases \cup {None, "torn"}
Steps == {"idle", "stop", "rotate", "backup", "stage", "replace", "reseal", "verify",
          "judge", "undo", "unseal", "clean", "drop", "install", "launch", "seal",
          "done"}
NoPins == [code |-> None, assets |-> None]
Idle == [pc |-> "idle", job |-> None, prev |-> None, pins |-> NoPins,
         failed |-> FALSE, keep |-> FALSE]

Init ==
  /\ release \in Releases
  /\ \E v \in Releases, sealed \in BOOLEAN :
       /\ target = v /\ good = v
       /\ pins = [code |-> v, assets |-> IF sealed THEN v ELSE None]
       /\ loaded \in {v, None}
  /\ upgrade = None /\ rollback = None
  /\ worker = Idle
  /\ jobs = 0 /\ upgrades = 0 /\ faults = 0

Fault == faults < MaxFaults /\ faults' = faults + 1 /\ UNCHANGED <<jobs, upgrades>>
At(step) == worker.pc = step
Goto(step) == worker' = [worker EXCEPT !.pc = step]
Fails == worker' = [worker EXCEPT !.pc = "done", !.failed = TRUE]
Sealed == target = pins.assets
Stale == target # release

-----------------------------------------------------------------------------
(* A sync job: _ensure_current_managed_expert.                              *)

Restart == IF loaded # None THEN "stop" ELSE IF Stale THEN "rotate" ELSE "install"

\* A legacy instance without a seal is sealed when its terminal runs.  A stale
\* expert or another history mode makes a restart necessary.
Sync ==
  /\ At("idle") /\ jobs < MaxJobs /\ jobs' = jobs + 1
  /\ LET legacy == pins.assets = None /\ loaded # None
     IN  IF ~Sealed /\ ~legacy
           THEN /\ worker' = [Idle EXCEPT !.job = "sync", !.pc = "done", !.failed = TRUE]
                /\ UNCHANGED pins
           ELSE /\ pins' = [pins EXCEPT !.assets = target]
                /\ \E otherMode \in BOOLEAN :
                     worker' = [Idle EXCEPT !.job = "sync",
                                  !.pc = IF Stale \/ otherMode THEN Restart
                                         ELSE IF loaded = None THEN "install" ELSE "done"]
  /\ UNCHANGED <<release, target, upgrade, rollback, loaded, good, upgrades, faults>>

\* process.stop and cleanup_path; a terminal that survives ends the job.
Stop ==
  /\ At("stop")
  /\ \/ loaded' = None /\ Goto(IF Stale THEN "rotate" ELSE "install") /\ UNCHANGED bounds
     \/ Fault /\ Fails /\ UNCHANGED loaded
  /\ UNCHANGED <<release, files, good>>

\* Files of an interrupted rotation make every later one fail.
Rotate ==
  /\ At("rotate")
  /\ IF upgrade # None \/ rollback # None \/ ~Sealed THEN Fails
     ELSE worker' = [worker EXCEPT !.pc = "backup", !.prev = target, !.pins = pins]
  /\ UNCHANGED <<release, files, loaded, good, bounds>>

\* durable_copy_contents: a crash leaves a torn copy, a failure removes it.
Backup ==
  /\ At("backup")
  /\ \/ rollback = None /\ rollback' = "torn" /\ UNCHANGED <<worker, bounds>>
     \/ rollback = "torn" /\ rollback' = target /\ Goto("stage") /\ UNCHANGED bounds
     \/ Fault /\ rollback' = None /\ Goto("judge")
  /\ UNCHANGED <<release, target, upgrade, pins, loaded, good>>

Stage ==
  /\ At("stage")
  /\ \/ upgrade = None /\ upgrade' = "torn" /\ UNCHANGED <<worker, bounds>>
     \/ upgrade = "torn" /\ upgrade' = release /\ Goto("replace") /\ UNCHANGED bounds
     \/ Fault /\ upgrade' = None /\ Goto("judge")
  /\ UNCHANGED <<release, target, rollback, pins, loaded, good>>

Replace ==
  /\ At("replace")
  /\ \/ target' = upgrade /\ upgrade' = None /\ Goto("reseal") /\ UNCHANGED bounds
     \/ Fault /\ Goto("judge") /\ UNCHANGED <<target, upgrade>>
  /\ UNCHANGED <<release, rollback, pins, loaded, good>>

\* instance.json is replaced with the manifests of the tree as it is.
Reseal ==
  /\ At("reseal")
  /\ \/ pins' = [code |-> target, assets |-> target] /\ Goto("verify") /\ UNCHANGED bounds
     \/ Fault /\ Goto("judge") /\ UNCHANGED pins
  /\ UNCHANGED <<release, target, upgrade, rollback, loaded, good>>

Verify ==
  /\ At("verify")
  /\ \/ Sealed /\ good' = target /\ Goto("clean") /\ UNCHANGED bounds
     \/ Fault /\ Goto("judge") /\ UNCHANGED good
  /\ UNCHANGED <<release, files, loaded>>

-----------------------------------------------------------------------------
(* The except clause of the rotation, and its finally clause.               *)

Judge ==
  /\ At("judge")
  /\ worker' = [worker EXCEPT !.failed = TRUE,
                              !.pc = IF target = worker.prev THEN "clean" ELSE "undo"]
  /\ UNCHANGED <<release, files, loaded, good, bounds>>

UndoCarelessly ==   \* mutant: the rollback is not kept when it cannot be restored
  /\ At("undo")
  /\ \/ target' = rollback /\ rollback' = None /\ Goto("unseal") /\ UNCHANGED bounds
     \/ Fault /\ Goto("clean") /\ UNCHANGED <<target, rollback>>
  /\ UNCHANGED <<release, upgrade, pins, loaded, good>>

\* The rollback takes the place of the target; if that fails it is preserved.
Undo ==
  /\ At("undo")
  /\ \/ target' = rollback /\ rollback' = None /\ Goto("unseal") /\ UNCHANGED bounds
     \/ /\ Fault /\ worker' = [worker EXCEPT !.pc = "clean", !.keep = TRUE]
        /\ UNCHANGED <<target, rollback>>
  /\ UNCHANGED <<release, upgrade, pins, loaded, good>>

Unseal ==
  /\ At("unseal")
  /\ \/ pins' = worker.pins /\ UNCHANGED bounds
     \/ Fault /\ UNCHANGED pins
  /\ Goto("clean")
  /\ UNCHANGED <<release, target, upgrade, rollback, loaded, good>>

\* The staged file is removed first; a failure there leaves the rollback.
Clean ==
  /\ At("clean")
  /\ \/ upgrade' = None /\ Goto("drop") /\ UNCHANGED bounds
     \/ Fault /\ Fails /\ UNCHANGED upgrade
  /\ UNCHANGED <<release, target, rollback, pins, loaded, good>>

Drop ==
  /\ At("drop")
  /\ \/ /\ rollback' = IF worker.keep THEN rollback ELSE None
        /\ Goto(IF worker.failed THEN "done" ELSE "install")
        /\ UNCHANGED bounds
     \/ Fault /\ Fails /\ UNCHANGED rollback
  /\ UNCHANGED <<release, target, upgrade, pins, loaded, good>>

-----------------------------------------------------------------------------
(* NativeMt5Runtime: resume, and start by a re-provision.                   *)

\* The instance is published: its code manifest is checked, its terminal stopped.
Reprovision ==
  /\ At("idle") /\ jobs < MaxJobs /\ jobs' = jobs + 1
  /\ IF pins.code # target
       THEN worker' = [Idle EXCEPT !.job = "provision", !.pc = "done", !.failed = TRUE]
            /\ UNCHANGED loaded
       ELSE worker' = [Idle EXCEPT !.job = "provision", !.pc = "install"] /\ loaded' = None
  /\ UNCHANGED <<release, files, good, upgrades, faults>>

\* install_expert publishes the release's expert unless it is there already.
Install ==
  /\ At("install")
  /\ \/ target' = release /\ good' = release /\ Goto("launch") /\ UNCHANGED bounds
     \/ Fault /\ Fails /\ UNCHANGED <<target, good>>
  /\ UNCHANGED <<release, upgrade, rollback, pins, loaded>>

Launch ==
  /\ At("launch")
  /\ \/ /\ loaded' = target /\ UNCHANGED bounds
        /\ Goto(IF worker.job = "provision" THEN "seal" ELSE "done")
     \/ Fault /\ Fails /\ UNCHANGED loaded
  /\ UNCHANGED <<release, files, good>>

\* seal_runtime_assets: a pin is written once.
Seal ==
  /\ At("seal")
  /\ IF pins.assets = None
       THEN pins' = [pins EXCEPT !.assets = target] /\ Goto("done")
       ELSE /\ IF Sealed THEN Goto("done") ELSE Fails
            /\ UNCHANGED pins
  /\ UNCHANGED <<release, target, upgrade, rollback, loaded, good, bounds>>

End ==
  /\ At("done")
  /\ worker' = [Idle EXCEPT !.job = worker.job, !.keep = worker.keep]
  /\ UNCHANGED <<release, files, loaded, good, bounds>>

-----------------------------------------------------------------------------
TerminalDies ==
  /\ loaded # None /\ Fault /\ loaded' = None
  /\ UNCHANGED <<release, files, worker, good>>

Crash ==
  /\ ~At("idle") /\ Fault
  /\ worker' = [Idle EXCEPT !.job = worker.job]
  /\ UNCHANGED <<release, files, loaded, good>>

\* The agent is deployed again, with another expert.
Upgrade ==
  /\ At("idle") /\ upgrades < MaxUpgrades /\ upgrades' = upgrades + 1
  /\ \E r \in Releases \ {release} : release' = r
  /\ UNCHANGED <<files, loaded, worker, good, jobs, faults>>

Rotation == Rotate \/ Backup \/ Stage \/ Replace \/ Reseal \/ Verify \/ Judge \/ Undo
            \/ Unseal \/ Clean \/ Drop
Next == \/ Sync \/ Stop \/ Rotation
        \/ Reprovision \/ Install \/ Launch \/ Seal \/ End
        \/ TerminalDies \/ Crash \/ Upgrade

Spec == Init /\ [][Next]_vars

-----------------------------------------------------------------------------
TypeOK ==
  /\ release \in Releases /\ target \in Releases /\ good \in Releases
  /\ upgrade \in File /\ rollback \in File
  /\ pins \in [code : Releases, assets : Releases \cup {None}]
  /\ loaded \in Releases \cup {None}
  /\ worker \in [pc : Steps, job : {None, "sync", "provision"}, prev : Releases \cup {None},
                 pins : [code : Releases \cup {None}, assets : Releases \cup {None}],
                 failed : BOOLEAN, keep : BOOLEAN]
  /\ jobs \in 0..MaxJobs /\ upgrades \in 0..MaxUpgrades /\ faults \in 0..MaxFaults

\* Whatever fails and whenever the agent dies, an expert that was last known to
\* be sound is on disk: in its place or as the rollback copy.
Recoverable == good \in {target, rollback}

\* The expert is never replaced under a running terminal.
RunsWhatIsInstalled == loaded \in {None, target}

\* A sync job that reports success leaves a terminal with the release's expert,
\* sealed, through every earlier failure.
ReportedIsCurrent ==
  worker.job = "sync" /\ At("done") /\ ~worker.failed =>
    /\ loaded \in {None, release}
    /\ target = release /\ Sealed

\* A rotation that fails, but not in its own recovery, leaves expert and pins
\* as they were.
FailureRestores ==
  worker.prev # None /\ At("done") /\ worker.failed /\ faults <= 1 =>
    \/ target = worker.prev /\ pins = worker.pins
    \/ target = release /\ Sealed
-----------------------------------------------------------------------------
(* The inductive invariant: what each step of a job may rely on.             *)

Rotating == {"backup", "stage", "replace", "reseal", "verify", "judge", "undo", "unseal",
             "clean", "drop"}
Offline == Rotating \cup {"rotate", "install", "launch"}

\* Which kind of job takes a step, and in which steps the terminal stands still.
JobInv ==
  /\ worker.pc \in Rotating \cup {"stop", "rotate"} => worker.job = "sync"
  /\ worker.pc \in {"install", "launch"} => worker.job \in {"sync", "provision"}
  /\ worker.pc \in Rotating => worker.prev # None /\ worker.pins.code # None
  /\ worker.pc \in {"stop", "rotate"} \/ worker.job = "provision" => worker.prev = None
  /\ worker.pc = "seal" => worker.job = "provision"
  /\ worker.pc \in Offline => loaded = None

\* The copy taken before the replacement is the expert known to be sound.
CopyInv ==
  /\ worker.pc \in {"backup", "stage", "replace"} => target = worker.prev
  /\ worker.pc \in {"backup", "stage", "replace", "reseal"} => pins = worker.pins
  /\ worker.pc \in Rotating \ {"clean", "drop"} => good = worker.prev
  /\ worker.pc \in {"stage", "replace", "reseal", "verify", "undo"} =>
       rollback = worker.prev
  /\ worker.pc = "replace" => upgrade = release
  /\ worker.pc \in {"reseal", "verify"} => target = release
  /\ worker.pc = "judge" => worker.prev \in {target, rollback}
  /\ worker.pc = "unseal" => target = worker.prev
  /\ worker.pc \in {"clean", "drop"} => worker.keep \/ good = target

\* What a rotation that has gone wrong still has to put back.
Restored == target = worker.prev /\ pins = worker.pins
Current == target = release /\ Sealed

UndoInv ==
  /\ worker.pc \in {"judge", "undo", "unseal"} => faults > 0
  /\ worker.pc \in {"undo", "unseal"} => worker.failed
  /\ worker.pc = "judge" /\ target = worker.prev => Restored \/ Current
  /\ worker.pc \in {"clean", "drop"} =>
       IF worker.failed THEN faults > 1 \/ Restored \/ Current ELSE Current

\* What a job that goes on to start the terminal has established.
SealInv ==
  /\ worker.pc \in {"stop", "rotate", "verify"} => Sealed
  /\ worker.pc \in {"install", "launch"} /\ worker.job = "sync" => Current

IInv == /\ TypeOK /\ JobInv /\ CopyInv /\ UndoInv /\ SealInv
        /\ Recoverable /\ RunsWhatIsInstalled /\ ReportedIsCurrent /\ FailureRestores
=============================================================================
