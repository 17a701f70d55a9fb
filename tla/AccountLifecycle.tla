-------------------------- MODULE AccountLifecycle --------------------------
(***************************************************************************)
(* The local life of one account: the four job handlers of the agent, what *)
(* they leave on disk (the instance directory, its job_progress status,    *)
(* the stored secrets), the terminal they start and stop, the shared       *)
(* registry entry of the broker, and the supervisor thread beside them.    *)
(* A handler may fail, lose its lease or die between any two steps.        *)
(*                                                                         *)
(* The inside of the history import is HistoryHandoff's, the inside of a   *)
(* terminal start NativeRuntime's, the lease protocol JobLease's.          *)
(***************************************************************************)
EXTENDS Integers, FiniteSets, Sequences

CONSTANTS Logins,          \* accounts a payload may name
          MaxCandidates,   \* bound: endpoints MTAPI proposes for a server
          Labelled,        \* may a request name its broker?
          Supervised,      \* does the supervisor thread run?
          MaxJobs,         \* bound: jobs claimed
          MaxFailures      \* bound: failures, lost leases and crashes together

LifecycleAssumption ==
  /\ Logins \subseteq Nat \ {0} /\ Logins # {}
  /\ MaxCandidates \in Nat /\ MaxJobs \in Nat /\ MaxFailures \in Nat
  /\ Labelled \in BOOLEAN /\ Supervised \in BOOLEAN

VARIABLES
  root,       \* instances/<id>: "none", "published", or "ghost" without instance.json
  status,     \* job_progress.json, "none" when absent
  creds,      \* the stored secrets
  terminal,   \* is a terminal of the instance running?
  profile,    \* the login the terminal's profile belongs to
  sealed,     \* are the managed assets pinned?
  registry,   \* does the shared registry hold a verified endpoint?
  pc, kind,   \* where the handler stands
  try,        \* what the provision is trying
  error,      \* the exception in flight
  lock,       \* connection_sync_lock
  sup,        \* the supervisor thread
  activated,  \* was the account connected, and not deprovisioned since?
  ended,      \* how the last job ended
  jobs, failures

disk     == <<root, status, creds, terminal, profile, sealed>>
handler  == <<pc, kind, try, error>>
bounds   == <<jobs, failures>>
vars == <<disk, registry, handler, lock, sup, activated, ended, bounds>>

NoTry == [login |-> 0, labelled |-> FALSE, plan |-> "none", left |-> 0, protected |-> FALSE]
NoCreds == [login |-> 0, whole |-> FALSE]

\* The milestones of a file bridge start, in order; those before the fifth lie
\* outside of the try statement that turns any exception into LiveSyncFailed.
Milestone == <<"starting_native_file_bridge", "terminal_started", "bridge_ready",
               "verifying_read_only", "read_only_verified", "importing_history",
               "history_ready", "starting_live_sync", "connected">>
Guarded == 4..Len(Milestone)

Failed == {Milestone[n] : n \in 1..8} \cup
          {"censusing_broker", "broker_censused", "broker_discovery_failed", "provisioned"}
Status == Failed \cup {"none", "connected", "provisioning", "candidate_endpoint_rejected",
                       "candidate_endpoint_authenticated", "live_sync_running", "disconnecting"}

Protected == root # "none" /\ status \notin Failed

Init ==
  /\ root = "none" /\ status = "none" /\ creds = NoCreds
  /\ terminal = FALSE /\ profile = 0 /\ sealed = FALSE
  /\ registry \in BOOLEAN
  /\ pc = "idle" /\ kind = "none" /\ try = NoTry /\ error = "none"
  /\ lock = "free" /\ sup = "idle"
  /\ activated = FALSE /\ ended = "none" /\ jobs = 0 /\ failures = 0

Goto(next) == pc' = next /\ UNCHANGED <<kind, try, error>>

Finish(result) ==
  /\ pc' = "idle" /\ kind' = "none" /\ try' = NoTry /\ error' = "none"
  /\ ended' = result

Count == failures < MaxFailures /\ failures' = failures + 1

-----------------------------------------------------------------------------
(* Claiming a job; the control plane may send any job at any time.          *)

ClaimVisible(login, labelled) ==   \* mutant: a re-provision leaves the account visible
  /\ pc = "idle" /\ jobs < MaxJobs
  /\ jobs' = jobs + 1
  /\ kind' = "provision" /\ error' = "none" /\ ended' = "none"
  /\ try' = [NoTry EXCEPT !.login = login, !.labelled = labelled, !.protected = Protected]
  /\ pc' = IF ~Protected /\ (root # "none" \/ creds # NoCreds) THEN "cleanup" ELSE "resolve"
  /\ UNCHANGED <<root, status, creds, terminal, profile, sealed, registry, lock, sup,
                 activated, failures>>

\* provision first withdraws a protected account from the supervisor.
ClaimProvision(login, labelled) ==
  /\ pc = "idle" /\ jobs < MaxJobs
  /\ jobs' = jobs + 1
  /\ kind' = "provision" /\ error' = "none" /\ ended' = "none"
  /\ try' = [NoTry EXCEPT !.login = login, !.labelled = labelled, !.protected = Protected]
  /\ status' = IF Protected THEN "provisioning" ELSE status
  /\ pc' = IF ~Protected /\ (root # "none" \/ creds # NoCreds) THEN "cleanup" ELSE "resolve"
  /\ UNCHANGED <<root, creds, terminal, profile, sealed, registry, lock, sup,
                 activated, failures>>

Claim(k) ==
  /\ pc = "idle" /\ jobs < MaxJobs
  /\ jobs' = jobs + 1
  /\ kind' = k /\ ended' = "none" /\ UNCHANGED <<try, error>>
  /\ pc' = "begin"
  /\ UNCHANGED <<disk, registry, lock, sup, activated, failures>>

-----------------------------------------------------------------------------
(* provision.                                                               *)

Plan(plan, n) ==
  /\ try' = [try EXCEPT !.plan = plan, !.left = n]
  /\ UNCHANGED <<kind, error>>

\* The registry is asked first for a request without a broker label; then
\* MTAPI; then the registry for the label; then the wizard.
Resolve ==
  /\ pc = "resolve"
  /\ \/ ~try.labelled /\ registry /\ Plan("verified", 0) /\ pc' = "secrets"
     \/ /\ try.labelled \/ ~registry
        /\ \E n \in 1..MaxCandidates : Plan("candidates", n) /\ pc' = "secrets"
     \/ try.labelled /\ registry /\ Plan("verified", 0) /\ pc' = "secrets"
     \/ ~registry /\ Plan("wizard", 0) /\ pc' = "census"
  /\ UNCHANGED <<disk, registry, lock, sup, activated, ended, bounds>>

\* _provision_instance; a directory without instance.json is refused.
Publishable == root \in {"none", "published"}

Census ==
  /\ pc = "census" /\ Publishable
  /\ root' = "published" /\ status' = "censusing_broker"
  /\ Goto("wizard")
  /\ UNCHANGED <<creds, terminal, profile, sealed, registry, lock, sup, activated,
                 ended, bounds>>

\* The wizard, either before the first attempt or after the last candidate.
Wizard ==
  /\ pc = "wizard"
  /\ IF try.plan = "wizard"
       THEN status' = "broker_censused" /\ Goto("secrets")
       ELSE /\ UNCHANGED status
            /\ Plan("wizard", 0) /\ pc' = "attempt"
  /\ UNCHANGED <<root, creds, terminal, profile, sealed, registry, lock, sup, activated,
                 ended, bounds>>

\* The secrets are written one file at a time, the identity first.
WriteIdentity ==
  /\ pc = "secrets"
  /\ creds' = [creds EXCEPT !.login = try.login]
  /\ Goto("token")
  /\ UNCHANGED <<root, status, terminal, profile, sealed, registry, lock, sup, activated,
                 ended, bounds>>

WriteToken ==
  /\ pc = "token"
  /\ creds' = [creds EXCEPT !.whole = TRUE]
  /\ Goto("instance")
  /\ UNCHANGED <<root, status, terminal, profile, sealed, registry, lock, sup, activated,
                 ended, bounds>>

Instance ==
  /\ pc = "instance" /\ Publishable
  /\ root' = "published"
  /\ Goto("provisioned")
  /\ UNCHANGED <<status, creds, terminal, profile, sealed, registry, lock, sup,
                 activated, ended, bounds>>

Provisioned ==
  /\ pc = "provisioned"
  /\ status' = "provisioned"
  /\ Goto("attempt")
  /\ UNCHANGED <<root, creds, terminal, profile, sealed, registry, lock, sup, activated,
                 ended, bounds>>

\* _start_file_bridge_and_sync: the lock, and no terminal of an older attempt.
Attempt ==
  /\ pc = "attempt" /\ lock = "free"
  /\ lock' = "job"
  /\ terminal' = FALSE
  /\ status' = Milestone[1]
  /\ Goto("launch")
  /\ UNCHANGED <<root, creds, profile, sealed, registry, sup, activated, ended, bounds>>

Launch ==
  /\ pc = "launch"
  /\ terminal' = TRUE /\ profile' = creds.login
  /\ Goto("bridge")
  /\ UNCHANGED <<root, status, creds, sealed, registry, lock, sup, activated, ended, bounds>>

\* runtime.start stops its terminal before it raises.
LaunchFails(e) ==
  /\ pc = "launch" /\ Count
  /\ terminal' = FALSE
  /\ pc' = "failing" /\ error' = e /\ UNCHANGED <<kind, try>>
  /\ UNCHANGED <<root, status, creds, profile, sealed, registry, lock, sup, activated,
                 ended, jobs>>

\* One milestone after the other, each a progress call and a local status.
Reach(n) ==
  /\ pc = "bridge" /\ status = Milestone[n - 1]
  /\ status' = Milestone[n]
  /\ pc' = IF n = Len(Milestone) THEN "seal" ELSE "bridge"
  /\ activated' = (activated \/ status' = "connected")
  /\ UNCHANGED <<kind, try, error, root, creds, terminal, profile, sealed, registry, lock,
                 sup, ended, bounds>>

\* seal_runtime_assets is the last step under the lock.
Seal ==
  /\ pc = "seal"
  /\ sealed' = TRUE /\ lock' = "free"
  /\ Goto(IF try.plan = "candidates" THEN "authenticated"
          ELSE IF try.plan = "verified" THEN "connected" ELSE "promote")
  /\ UNCHANGED <<root, status, creds, terminal, profile, registry, sup, activated,
                 ended, bounds>>

Authenticated ==
  /\ pc = "authenticated"
  /\ status' = "candidate_endpoint_authenticated"
  /\ Goto("promote")
  /\ UNCHANGED <<root, creds, terminal, profile, sealed, registry, lock, sup, activated,
                 ended, bounds>>

\* The endpoint of this login is published, unless its broker is ambiguous or
\* it could not be observed.
Promote ==
  /\ pc = "promote"
  /\ registry' \in {registry, TRUE}
  /\ Goto("connected")
  /\ UNCHANGED <<disk, lock, sup, activated, ended, bounds>>

\* No process identity, or no evidence could be written: the terminal is stopped.
PromoteFails ==
  /\ pc = "promote" /\ Count
  /\ terminal' = FALSE
  /\ pc' = "failing" /\ error' = "agent" /\ UNCHANGED <<kind, try>>
  /\ UNCHANGED <<root, status, creds, profile, sealed, registry, lock, sup, activated,
                 ended, jobs>>

Connected ==
  /\ pc = "connected"
  /\ status' = "connected" /\ activated' = TRUE
  /\ Finish("completed")
  /\ UNCHANGED <<root, creds, terminal, profile, sealed, registry, lock, sup, bounds>>

-----------------------------------------------------------------------------
(* Failures of provision.                                                   *)

InProvision == {"resolve", "census", "wizard", "secrets", "token", "instance",
                "provisioned", "attempt", "launch", "bridge", "seal", "authenticated"}
LockedPart  == {"launch", "bridge", "seal"}
Broken == root = "ghost" /\ pc \in {"census", "instance"}

\* Any step may raise; a ghost directory makes its publication raise.
ProvisionRaises ==
  /\ pc \in InProvision \ {"launch"}
  /\ IF Broken THEN UNCHANGED failures ELSE Count
  /\ status' = IF pc = "wizard" THEN "broker_discovery_failed" ELSE status
  /\ pc' = "failing" /\ error' = "agent" /\ UNCHANGED <<kind, try>>
  /\ UNCHANGED <<root, creds, terminal, profile, sealed, registry, lock, sup, activated,
                 ended, jobs>>

\* _record_checkpoint and _require_lease raise LeaseLost; inside the try
\* statement of the file bridge it becomes LiveSyncFailed.
LeaseUncertain ==
  /\ kind = "provision" /\ pc \in InProvision /\ Count
  /\ error' = IF pc = "bridge" /\ \E n \in Guarded : status = Milestone[n - 1]
                THEN "masked" ELSE "lease"
  /\ terminal' = (terminal /\ pc # "launch")
  /\ pc' = "failing" /\ UNCHANGED <<kind, try>>
  /\ UNCHANGED <<root, status, creds, profile, sealed, registry, lock, sup, activated,
                 ended, jobs>>

\* The next candidate, or the wizard after the last one.
NextCandidate ==
  /\ pc = "failing" /\ error = "endpoint" /\ try.plan = "candidates"
  /\ lock' = "free" /\ error' = "none" /\ UNCHANGED kind
  /\ try' = [try EXCEPT !.left = @ - 1]
  /\ status' = IF try.left > 1 THEN "candidate_endpoint_rejected" ELSE "censusing_broker"
  /\ pc' = IF try.left > 1 THEN "attempt" ELSE "wizard"
  /\ UNCHANGED <<root, creds, terminal, profile, sealed, registry, sup, activated,
                 ended, bounds>>

\* All candidates were rejected and no wizard is configured.
NoWizard ==
  /\ pc = "failing" /\ error = "endpoint" /\ try.plan = "candidates" /\ try.left = 1
  /\ lock' = "free" /\ status' = "candidate_endpoint_rejected"
  /\ error' = "agent" /\ UNCHANGED <<pc, kind, try>>
  /\ UNCHANGED <<root, creds, terminal, profile, sealed, registry, sup, activated,
                 ended, bounds>>

Terminal(e) == e # "endpoint" \/ try.plan # "candidates"

DiscardOnceProtected ==   \* mutant: the check at the start of the job is enough
  /\ pc = "failing" /\ Terminal(error)
  /\ lock' = IF lock = "job" THEN "free" ELSE lock
  /\ registry' = (registry /\ ~(error = "endpoint" /\ try.plan = "verified"))
  /\ IF error = "lease" \/ try.protected
       THEN Finish(IF error = "lease" THEN "lost" ELSE "kept")
       ELSE pc' = "cleanup" /\ UNCHANGED <<kind, try, error, ended>>
  /\ UNCHANGED <<disk, sup, activated, bounds>>

\* provision's except clauses: an endpoint that was disproved is withdrawn, and
\* then a lost lease or a protected instance keeps what is on disk.
HandleFailure ==
  /\ pc = "failing" /\ Terminal(error)
  /\ lock' = IF lock = "job" THEN "free" ELSE lock
  /\ registry' = (registry /\ ~(error = "endpoint" /\ try.plan = "verified"))
  /\ IF error = "lease" \/ try.protected \/ Protected
       THEN Finish(IF error = "lease" THEN "lost" ELSE "kept")
       ELSE pc' = "cleanup" /\ UNCHANGED <<kind, try, error, ended>>
  /\ UNCHANGED <<disk, sup, activated, bounds>>

-----------------------------------------------------------------------------
(* _discard_failed_provision, at the start of a provision or after it.      *)

Cleanup ==
  /\ pc = "cleanup"
  /\ terminal' = FALSE
  /\ Goto("remove")
  /\ UNCHANGED <<root, status, creds, profile, sealed, registry, lock, sup, activated,
                 ended, bounds>>

CleanupFails ==
  /\ pc \in {"cleanup", "stop"} /\ Count
  /\ Finish("uncleaned")
  /\ UNCHANGED <<disk, registry, lock, sup, activated, jobs>>

Remove ==
  /\ pc = "remove"
  /\ root' = "none" /\ status' = "none" /\ sealed' = FALSE /\ profile' = 0
  /\ Goto("erase")
  /\ UNCHANGED <<creds, terminal, registry, lock, sup, activated, ended, bounds>>

Erase ==
  /\ pc = "erase"
  /\ creds' = NoCreds
  /\ Goto("verify")
  /\ UNCHANGED <<root, status, terminal, profile, sealed, registry, lock, sup, activated,
                 ended, bounds>>

VerifyGone ==
  /\ pc = "verify"
  /\ IF root # "none" THEN Finish("uncleaned")
     ELSE IF kind = "deprovision" THEN Finish("deprovisioned")
     ELSE IF try.plan = "none" /\ error = "none" THEN Goto("resolve") /\ UNCHANGED ended
     ELSE Finish(IF error = "masked" THEN "lost" ELSE "discarded")
  /\ UNCHANGED <<disk, registry, lock, sup, activated, bounds>>

-----------------------------------------------------------------------------
(* historical_sync and live_sync.                                           *)

HistoryBegins ==
  /\ pc = "begin" /\ kind = "historical_sync" /\ root = "published" /\ creds.login # 0
  /\ status' = "importing_history"
  /\ Goto("waiting")
  /\ UNCHANGED <<root, creds, terminal, profile, sealed, registry, lock, sup, activated,
                 ended, bounds>>

HistoryLocks ==
  /\ pc = "waiting" /\ lock = "free"
  /\ lock' = "job"
  /\ Goto("syncing")
  /\ UNCHANGED <<disk, registry, sup, activated, ended, bounds>>

\* The job takes no lock before it resumes the terminal.
LiveBegins ==
  /\ pc = "begin" /\ kind = "live_sync" /\ root = "published"
  /\ status' = "live_sync_running"
  /\ Goto(IF creds.whole THEN "syncing" ELSE "stopping")
  /\ UNCHANGED <<root, creds, terminal, profile, sealed, registry, lock, sup, activated,
                 ended, bounds>>

\* The terminal runs, or is resumed, under the stored identity, and the adapter
\* finds that identity in the files.
Synced ==
  /\ pc = "syncing" /\ sealed
  /\ profile = creds.login
  /\ kind = "live_sync" => lock = "free"
  /\ terminal' = TRUE
  /\ lock' = "free"
  /\ status' = "connected"
  /\ activated' = TRUE
  /\ Finish("completed")
  /\ UNCHANGED <<root, creds, profile, sealed, registry, sup, bounds>>

\* Also an identity that does not match; resume stops a terminal it started.
SyncFails ==
  /\ pc \in {"waiting", "syncing", "stopping"}
  /\ IF pc = "stopping" \/ profile # creds.login \/ ~sealed THEN UNCHANGED failures ELSE Count
  /\ terminal' \in {terminal, FALSE}
  /\ lock' = IF lock = "job" THEN "free" ELSE lock
  /\ Finish("failed")
  /\ UNCHANGED <<root, status, creds, profile, sealed, registry, sup, activated, jobs>>

NothingToSync ==
  /\ pc = "begin" /\ kind \in {"historical_sync", "live_sync"}
  /\ root # "published" \/ (kind = "historical_sync" /\ creds.login = 0)
  /\ Finish("failed")
  /\ UNCHANGED <<disk, registry, lock, sup, activated, bounds>>

-----------------------------------------------------------------------------
(* deprovision.                                                             *)

DeprovisionBegins ==
  /\ pc = "begin" /\ kind = "deprovision"
  /\ status' = IF root = "none" THEN status ELSE "disconnecting"
  /\ activated' = FALSE
  /\ Goto("stop")
  /\ UNCHANGED <<root, creds, terminal, profile, sealed, registry, lock, sup, ended, bounds>>

StopTerminal ==
  /\ pc = "stop"
  /\ terminal' = FALSE
  /\ Goto("remove")
  /\ UNCHANGED <<root, status, creds, profile, sealed, registry, lock, sup, activated,
                 ended, bounds>>

-----------------------------------------------------------------------------
(* The supervisor thread, the terminal and the host.                        *)

List ==
  /\ Supervised /\ sup = "idle"
  /\ status = "connected" /\ creds.whole
  /\ sup' = "listed"
  /\ UNCHANGED <<disk, registry, handler, lock, activated, ended, bounds>>

PollReads ==
  /\ sup = "listed" /\ lock = "free"
  /\ sup' = IF creds.whole THEN "read" ELSE "idle"
  /\ lock' = IF creds.whole THEN "supervisor" ELSE lock
  /\ UNCHANGED <<disk, registry, handler, activated, ended, bounds>>

\* PersistentDedup creates the state directory when it is not there.
PollOpens ==
  /\ sup = "read"
  /\ root' = IF root = "none" THEN "ghost" ELSE root
  /\ sup' = "opened"
  /\ UNCHANGED <<status, creds, terminal, profile, sealed, registry, handler, lock,
                 activated, ended, bounds>>

PollKeepsLock ==   \* mutant: a poll that raises keeps the lock
  /\ sup = "opened"
  /\ sup' = "idle" /\ lock' \in {"free", "supervisor"}
  /\ UNCHANGED <<disk, registry, handler, activated, ended, bounds>>

PollEnds ==
  /\ sup = "opened"
  /\ sup' = "idle" /\ lock' = "free"
  /\ UNCHANGED <<disk, registry, handler, activated, ended, bounds>>

TerminalDies ==
  /\ terminal /\ Count
  /\ terminal' = FALSE
  /\ UNCHANGED <<root, status, creds, profile, sealed, registry, handler, lock, sup,
                 activated, ended, jobs>>

\* The agent restarts; reconcile_startup_instances keeps the terminal of a
\* published instance and ends any other.
Crash ==
  /\ Count /\ pc # "idle"
  /\ terminal' = (terminal /\ root = "published")
  /\ Finish("crashed") /\ lock' = "free" /\ sup' = "idle"
  /\ UNCHANGED <<root, status, creds, profile, sealed, registry, activated, jobs>>

-----------------------------------------------------------------------------
Provision ==
  \/ Resolve \/ Census \/ Wizard \/ WriteIdentity \/ WriteToken \/ Instance \/ Provisioned
  \/ Attempt \/ Launch \/ \E n \in 2..Len(Milestone) : Reach(n)
  \/ Seal \/ Authenticated \/ Promote \/ Connected
  \/ \E e \in {"agent", "endpoint"} : LaunchFails(e)
  \/ PromoteFails \/ ProvisionRaises \/ LeaseUncertain
  \/ NextCandidate \/ NoWizard \/ HandleFailure
Discard == Cleanup \/ CleanupFails \/ Remove \/ Erase \/ VerifyGone
Sync == HistoryBegins \/ HistoryLocks \/ LiveBegins \/ Synced \/ SyncFails \/ NothingToSync
Deprovision == DeprovisionBegins \/ StopTerminal
Handler == Provision \/ Discard \/ Sync \/ Deprovision
Supervisor == PollReads \/ PollOpens \/ PollEnds

Next ==
  \/ \E l \in Logins, b \in {FALSE, Labelled} : ClaimProvision(l, b)
  \/ \E k \in {"historical_sync", "live_sync", "deprovision"} : Claim(k)
  \/ Handler
  \/ List \/ Supervisor
  \/ TerminalDies \/ Crash

Spec == Init /\ [][Next]_vars

\* The agent's thread runs; a poll of the supervisor is bounded by its
\* timeouts; the lock goes to a handler that waits for it again and again.
FairSpec == Spec /\ WF_vars(Handler) /\ WF_vars(Supervisor)
                 /\ SF_vars(Attempt) /\ SF_vars(HistoryLocks) /\ SF_vars(Synced \/ SyncFails)

-----------------------------------------------------------------------------
InstanceType ==
  /\ root \in {"none", "published", "ghost"} /\ status \in Status
  /\ creds \in [login : Logins \cup {0}, whole : BOOLEAN]
  /\ terminal \in BOOLEAN /\ profile \in Logins \cup {0} /\ sealed \in BOOLEAN

HandlerType ==
  /\ pc \in InProvision \cup {"idle", "begin", "failing", "promote", "connected", "cleanup",
                              "remove", "erase", "verify", "waiting", "syncing", "stopping", "stop"}
  /\ kind \in {"none", "provision", "historical_sync", "live_sync", "deprovision"}
  /\ error \in {"none", "agent", "endpoint", "lease", "masked"}
  /\ ended \in {"none", "completed", "lost", "kept", "uncleaned", "deprovisioned",
                "discarded", "failed", "crashed"}

TryType ==
  try \in [login : Logins \cup {0}, labelled : BOOLEAN, left : 0..MaxCandidates,
          plan : {"none", "verified", "candidates", "wizard"}, protected : BOOLEAN]

SharedType ==
  /\ registry \in BOOLEAN /\ activated \in BOOLEAN
  /\ lock \in {"free", "job", "supervisor"} /\ sup \in {"idle", "listed", "read", "opened"}

TypeOK ==
  /\ InstanceType /\ HandlerType /\ TryType /\ SharedType
  /\ jobs \in 0..MaxJobs /\ failures \in 0..MaxFailures

\* What the supervisor may poll is an instance whose terminal was started under
\* the identity it would report for, with all its secrets
\* (event_supervisor.py:89, real_handlers.py:1379).
SupervisedIsWhole ==
  status = "connected" =>
    root = "published" /\ creds.whole /\ creds.login = profile

\* No terminal outlives its instance, whatever step a cleanup stopped at.
TerminalHasHome == terminal => root = "published"

\* What a reader of the disk - supervisor, next job, restarted agent - may rely on,
\* whatever step the jobs before it stopped at.
AccountIsWhole == TypeOK /\ SupervisedIsWhole /\ TerminalHasHome

\* A provision that reached `connected' keeps the account although a later step fails.
ConnectedIsKept ==
  [][status = "connected" /\ kind # "deprovision" => root' = root]_vars

\* Every handler ends, with the supervisor taking the same lock.
HandlerEnds == [](pc # "idle" => <>(pc = "idle"))

\* A failed re-provision never removes an account that was activated
\* (real_handlers.py:1411).
ActivatedSurvives ==
  [][root = "published" /\ root' = "none" => kind = "deprovision" \/ ~activated]_vars

\* Lease uncertainty is no authority to destroy local state
\* (real_handlers.py:1406).
UncertainLeaseKeeps == [][root' # root /\ root' = "none" => error # "masked"]_vars
-----------------------------------------------------------------------------
(* The inductive invariant of MCAccountsProofs.                       *)

\* A verdict on an endpoint is on its way to the next candidate.
Disproved == pc = "failing" /\ error = "endpoint"

\* Where no account may look connected: before the terminal is authenticated, and
\* from the first step that takes something away.
Hidden == {"resolve", "census", "wizard", "secrets", "token", "instance", "provisioned",
           "attempt", "launch", "bridge", "cleanup", "remove", "erase", "verify",
           "waiting", "syncing", "stopping", "stop"}

\* Where the terminal runs, or ran, under the identity that was stored for it.
Started == {"bridge", "seal", "authenticated", "promote", "connected"}

\* Where the job works on an instance that was published.
Settled == Started \cup {"wizard", "provisioned", "attempt", "launch",
                         "waiting", "syncing", "stopping"}

\* Where all secrets were written.
Stored == Started \cup {"instance", "provisioned", "attempt", "launch"}

PlaceInv ==
  /\ pc \in Hidden => status # "connected"
  /\ pc \in Settled \/ Disproved => root = "published"
  /\ pc \in Stored \/ Disproved \/ sealed \/ (pc = "wizard" /\ try.plan # "wizard") =>
       creds.whole
  /\ pc \in Started => profile = creds.login
  /\ pc = "remove" => ~terminal
  /\ pc = "erase" => ~sealed
  /\ pc = "census" => try.plan = "wizard"
  /\ (Disproved \/ pc \in {"secrets", "token"} \cup Stored) /\ try.plan = "candidates" =>
       try.left > 0

IInv == TypeOK /\ PlaceInv /\ SupervisedIsWhole /\ TerminalHasHome
=============================================================================
