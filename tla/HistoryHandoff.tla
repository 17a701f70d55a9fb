--------------------------- MODULE HistoryHandoff ---------------------------
(***************************************************************************)
(* The historical_sync job of one account and the handoff from the         *)
(* imported history to the live stream: pending artifact, archive, import, *)
(* baseline, checkpoint, activation and the switch of the EA to new_only,  *)
(* each a durable write; failures, crashes and retries between any two;    *)
(* and the background supervisor, which looks at the account's status      *)
(* before it takes the connection's lock.                                  *)
(*                                                                         *)
(* The broker's deals are numbered in the order of execution, so a ledger  *)
(* is a number: the deals up to it.  The history mode is all_available.    *)
(***************************************************************************)
EXTENDS Integers, FiniteSets

CONSTANTS OldDeals,      \* deals executed before the EA was attached
          MaxDeals,      \* bound: deals
          MaxSeq,        \* bound: sequence numbers of the EA
          MaxJobs,       \* bound: history jobs of the control plane
          MaxFailures    \* bound: exceptions and crashes together

ASSUME HandoffAssumption ==
  /\ OldDeals \in Nat \ {0} /\ MaxDeals \in Nat /\ OldDeals <= MaxDeals
  /\ MaxSeq \in Nat \ {0} /\ MaxJobs \in Nat \ {0} /\ MaxFailures \in Nat

VARIABLES
  executed,   \* deals executed at the broker
  silent,     \* deals whose DEAL_ADD callback will never run
  ea,         \* "down" while the terminal restarts, "history", "live"
  seq,        \* the EA's last sequence number
  files,      \* DEAL_ADD event files: sequence number and deal
  published,  \* deals whose event file was written
  bundle,     \* the committed snapshot files
  modeFile,   \* history_mode
  status,     \* job_progress.json
  pending,    \* history-handoff-pending.json
  staged,     \* the staged archive: its job and deals
  archive,    \* the immutable archive of each job: its deals, 0 when absent
  baseline,   \* live_snapshot.json
  checkpoint, \* the event checkpoint
  active,     \* history-live-handoff.json
  server,     \* what the control plane imported for each job, 0 for nothing
  live,       \* deals delivered through the live route as stream events
  leaked,     \* deals delivered through it as rows of the history
  pc, job, doc, \* where historical_sync stands, its job and its document
  lock,       \* connection_sync_lock
  sup,        \* the supervisor: "idle", or "listed" the account
  failures

eaVars   == <<executed, silent, ea, seq, files, published, bundle>>
handVars == <<pending, staged, archive, baseline, checkpoint, active>>
jobVars  == <<pc, job, doc>>
journal  == <<server, live, leaked>>
vars == <<eaVars, modeFile, status, handVars, journal, jobVars, lock, sup, failures>>

Deal == 1..MaxDeals
Job  == 1..MaxJobs
NoPending == [job |-> 0, deals |-> 0, anchor |-> 0]
NoActive  == [job |-> 0, deals |-> 0, anchor |-> 0]

NoBundle == [mode |-> "none", seq |-> 0, upto |-> 0, deals |-> {}]
HistoryBundle(s, n) == [mode |-> "history", seq |-> s, upto |-> n, deals |-> 1..n]
LiveBundle(s, n)    == [mode |-> "live", seq |-> s, upto |-> n, deals |-> {}]

Init ==
  /\ executed = OldDeals /\ silent = 1..OldDeals /\ published = {}
  /\ ea = "history" /\ modeFile = "history" /\ seq = 1 /\ files = {}
  /\ bundle = HistoryBundle(1, OldDeals)
  /\ status = "importing"
  /\ pending = NoPending /\ staged = [job |-> 0, deals |-> 0]
  /\ archive = [j \in Job |-> 0]
  /\ baseline = [upto |-> 0, deals |-> {}] /\ checkpoint = 0 /\ active = NoActive
  /\ server = [j \in Job |-> 0] /\ live = {} /\ leaked = {}
  /\ pc = "idle" /\ job = 1 /\ doc = 0
  /\ lock = "free" /\ sup = "idle" /\ failures = 0

-----------------------------------------------------------------------------
(* The broker and the EA.                                                   *)

Execute ==
  /\ executed < MaxDeals
  /\ executed' = executed + 1
  /\ UNCHANGED <<silent, ea, seq, files, published, bundle, modeFile, status,
                 handVars, journal, jobVars, lock, sup, failures>>

\* The callback, or its retry, of a deal; callbacks run in any order.
Publish(d) ==
  /\ ea # "down" /\ seq < MaxSeq
  /\ d <= executed /\ d \notin published /\ d \notin silent
  /\ seq' = seq + 1
  /\ files' = files \cup {[seq |-> seq + 1, deal |-> d]}
  /\ published' = published \cup {d}
  /\ UNCHANGED <<executed, silent, ea, bundle, modeFile, status, handVars, journal,
                 jobVars, lock, sup, failures>>

\* The bundle of the history, from OnInit or a later timer; deals it holds may
\* still wait for their callback.
WriteHistory ==
  /\ ea = "history" /\ modeFile = "history" /\ bundle.mode = "none" /\ seq < MaxSeq
  /\ seq' = seq + 1 /\ bundle' = HistoryBundle(seq + 1, executed)
  /\ UNCHANGED <<executed, silent, ea, files, published, modeFile, status, handVars,
                 journal, jobVars, lock, sup, failures>>

\* OnTimer: the switch to new_only, then a live bundle.  The bundle of the
\* history stays as it is until then.
OnTimer ==
  /\ ea # "down" /\ modeFile = "new_only" /\ seq < MaxSeq
  /\ ea = "live" => executed > bundle.upto
  /\ ea' = "live"
  /\ seq' = seq + 1 /\ bundle' = LiveBundle(seq + 1, executed)
  /\ UNCHANGED <<executed, silent, files, published, modeFile, status, handVars,
                 journal, jobVars, lock, sup, failures>>

-----------------------------------------------------------------------------
(* historical_sync.                                                         *)

Go(next) == pc' = next /\ UNCHANGED <<job, doc>>

\* The job is claimed again, or a new one is claimed.
Start(j) ==
  /\ pc = "idle" /\ j \in {job, job + 1} \cap Job
  /\ pc' = "lock" /\ job' = j /\ doc' = 0
  /\ status' = "importing"
  /\ UNCHANGED <<eaVars, modeFile, handVars, journal, lock, sup, failures>>

Lock ==
  /\ pc = "lock" /\ lock = "free"
  /\ lock' = "job"
  /\ Go("expert")
  /\ UNCHANGED <<eaVars, modeFile, status, handVars, journal, sup, failures>>

\* _ensure_current_managed_expert restarts a terminal that is in live mode.
KeepTerminal ==
  /\ pc = "expert" /\ modeFile = "history" /\ ea = "history" /\ bundle.mode = "history"
  /\ Go("history")
  /\ UNCHANGED <<eaVars, modeFile, status, handVars, journal, lock, sup, failures>>

StopTerminal ==
  /\ pc = "expert" /\ (modeFile = "new_only" \/ ea # "history" \/ bundle.mode # "history")
  /\ ea' = "down" /\ modeFile' = "history" /\ bundle' = NoBundle
  /\ Go("start")
  /\ UNCHANGED <<executed, silent, seq, files, published, status, handVars,
                 journal, lock, sup, failures>>

\* OnInit; callbacks that were due are gone.
StartTerminal ==
  /\ pc = "start"
  /\ ea' = "history"
  /\ silent' = silent \cup (1..executed \ published)
  /\ Go("resume")
  /\ UNCHANGED <<executed, seq, files, published, bundle, modeFile, status, handVars,
                 journal, lock, sup, failures>>

\* runtime.resume sees the bundle of the history.
Resumed ==
  /\ pc = "resume" /\ bundle.mode = "history"
  /\ Go("history")
  /\ UNCHANGED <<eaVars, modeFile, status, handVars, journal, lock, sup, failures>>

Pending(j) == pending.job = j

\* The artifact belongs to these bytes of this job.
BoundaryOf(document) == Pending(job) /\ pending.deals = document

\* history-upload and history-import, which the control plane does once for a job.
Import(document) == server' = [server EXCEPT ![job] = IF @ = 0 THEN document ELSE @]

\* HistorySync.run reads every deal of the committed bundle.
ReadHistory == bundle.upto

\* The document of a job and the boundary it was read at, in one artifact.
Boundary(document) == [job |-> job, deals |-> document, anchor |-> bundle.seq]

\* No committed boundary: read the history and make it durable with its anchor.
CommitPending ==
  /\ pc = "history" /\ archive[job] = 0 /\ ~Pending(job)
  /\ doc' = ReadHistory
  /\ pending' = Boundary(doc')
  /\ pc' = "stage"
  /\ UNCHANGED <<eaVars, modeFile, status, staged, archive, baseline, checkpoint,
                 active, journal, job, lock, sup, failures>>

ResumePending ==
  /\ pc = "history" /\ archive[job] = 0 /\ Pending(job)
  /\ staged.job = job => staged.deals = pending.deals
  /\ doc' = pending.deals
  /\ pc' = "stage"
  /\ UNCHANGED <<eaVars, modeFile, status, handVars, journal, job, lock, sup, failures>>

ResumeArchive ==
  /\ pc = "history" /\ archive[job] # 0 /\ BoundaryOf(archive[job])
  /\ doc' = archive[job]
  /\ pc' = "deliver"
  /\ UNCHANGED <<eaVars, modeFile, status, handVars, journal, job, lock, sup, failures>>

StagedFor(document) == staged = [job |-> job, deals |-> document]

Stage ==
  /\ pc = "stage"
  /\ staged' = [job |-> job, deals |-> doc]
  /\ Go("promote")
  /\ UNCHANGED <<eaVars, modeFile, status, pending, archive, baseline, checkpoint,
                 active, journal, lock, sup, failures>>

\* The staged bytes, when they are those the pending artifact names, become the archive.
Promote ==
  /\ pc = "promote"
  /\ Pending(job) /\ StagedFor(pending.deals)
  /\ archive' = [archive EXCEPT ![job] = staged.deals]
  /\ staged' = [job |-> 0, deals |-> 0]
  /\ Go("deliver")
  /\ UNCHANGED <<eaVars, modeFile, status, pending, baseline, checkpoint, active,
                 journal, lock, sup, failures>>

\* The number of events imported must be the document's.
Deliver ==
  /\ pc = "deliver"
  /\ Import(doc)
  /\ server'[job] = doc
  /\ Go("baseline")
  /\ UNCHANGED <<eaVars, modeFile, status, handVars, live, leaked, lock, sup, failures>>

\* The import is done and its answer lost.
DeliverLost ==
  /\ pc = "deliver" /\ failures < MaxFailures
  /\ failures' = failures + 1
  /\ Import(doc)
  /\ Go("failing")
  /\ UNCHANGED <<eaVars, modeFile, status, handVars, live, leaked, lock, sup>>

\* _prepare_history_to_live_handoff, when this job is already active.
AlreadyActive ==
  /\ pc = "baseline" /\ active = pending
  /\ Go("switch")
  /\ UNCHANGED <<eaVars, modeFile, status, handVars, journal, lock, sup, failures>>

SaveBaseline ==
  /\ pc = "baseline" /\ active # pending
  /\ baseline' = [upto |-> pending.deals, deals |-> {}]
  /\ Go("acknowledge")
  /\ UNCHANGED <<eaVars, modeFile, status, pending, staged, archive, checkpoint,
                 active, journal, lock, sup, failures>>

AcknowledgeAll ==   \* mutant: everything published so far is acknowledged
  /\ pc = "acknowledge"
  /\ checkpoint' = seq
  /\ files' = {f \in files : f.seq > seq}
  /\ Go("activate")
  /\ UNCHANGED <<executed, silent, ea, seq, published, bundle, modeFile, status,
                 pending, staged, archive, baseline, active, journal, lock, sup, failures>>

\* acknowledge_events, which refuses to go back.
Acknowledge ==
  /\ pc = "acknowledge" /\ pending.anchor >= checkpoint
  /\ checkpoint' = pending.anchor
  /\ files' = {f \in files : f.seq > pending.anchor}
  /\ Go("activate")
  /\ UNCHANGED <<executed, silent, ea, seq, published, bundle, modeFile, status,
                 pending, staged, archive, baseline, active, journal, lock, sup, failures>>

ActivateNothing ==   \* mutant: the tickets of the archive are not kept
  /\ pc = "activate"
  /\ active' = [pending EXCEPT !.deals = 0]
  /\ Go("switch")
  /\ UNCHANGED <<eaVars, modeFile, status, pending, staged, archive, baseline,
                 checkpoint, journal, lock, sup, failures>>

Activate ==
  /\ pc = "activate"
  /\ active' = pending
  /\ Go("switch")
  /\ UNCHANGED <<eaVars, modeFile, status, pending, staged, archive, baseline,
                 checkpoint, journal, lock, sup, failures>>

\* switch_to_new_only, also in the finally clause of a failed attempt.
Switch ==
  /\ pc \in {"switch", "failing"} /\ modeFile = "history"
  /\ modeFile' = "new_only"
  /\ UNCHANGED <<eaVars, status, handVars, journal, jobVars, lock, sup, failures>>

\* A heartbeat in live mode was seen (BridgeBundle!SwitchedMeansLive).
Switched ==
  /\ pc \in {"switch", "failing"} /\ modeFile = "new_only" /\ bundle.mode = "live"
  /\ lock' = "free"
  /\ Go(IF pc = "switch" THEN "completed" ELSE "idle")
  /\ UNCHANGED <<eaVars, modeFile, status, handVars, journal, sup, failures>>

Completed ==
  /\ pc = "completed"
  /\ status' = "connected"
  /\ Go("idle")
  /\ UNCHANGED <<eaVars, modeFile, handVars, journal, lock, sup, failures>>

-----------------------------------------------------------------------------
(* Failures.                                                                *)

\* The checks that end an attempt without a fault.
Mismatch ==
  /\ \/ pc = "history" /\ archive[job] # 0
        /\ ~BoundaryOf(archive[job])
     \/ pc = "history" /\ archive[job] = 0 /\ Pending(job)
        /\ staged.job = job /\ staged.deals # pending.deals
     \/ pc = "promote" /\ ~(Pending(job) /\ StagedFor(pending.deals))
     \/ pc = "deliver" /\ server[job] \notin {0, doc}
     \/ pc = "acknowledge" /\ pending.anchor < checkpoint
  /\ Go("failing")
  /\ UNCHANGED <<eaVars, modeFile, status, handVars, journal, lock, sup, failures>>

\* An exception inside the try statement whose finally clause switches the EA.
Raise ==
  /\ pc \in {"history", "stage", "promote", "deliver", "baseline", "acknowledge", "activate"}
  /\ failures < MaxFailures /\ failures' = failures + 1
  /\ Go("failing")
  /\ UNCHANGED <<eaVars, modeFile, status, handVars, journal, lock, sup>>

\* An exception outside of it, a lost lease in it, or a switch that times out.
Abandon ==
  /\ pc \in {"lock", "expert", "resume", "failing", "switch", "completed"}
  /\ failures < MaxFailures /\ failures' = failures + 1
  /\ lock' = IF lock = "job" THEN "free" ELSE lock
  /\ Go("idle")
  /\ UNCHANGED <<eaVars, modeFile, status, handVars, journal, sup>>

\* The agent dies and starts again; terminal and files stay.
Crash ==
  /\ failures < MaxFailures /\ failures' = failures + 1
  /\ pc # "start"
  /\ lock' = "free" /\ sup' = "idle"
  /\ Go("idle")
  /\ UNCHANGED <<eaVars, modeFile, status, handVars, journal>>

-----------------------------------------------------------------------------
(* Mt5EventSupervisor.poll_once.                                            *)

\* _connection_ids: the status is read before the lock is taken.
List ==
  /\ sup = "idle"
  /\ sup' = IF status = "connected" THEN "listed" ELSE "idle"
  /\ UNCHANGED <<eaVars, modeFile, status, handVars, journal, jobVars, lock, failures>>

Readable(f) == f.seq > checkpoint
Archived(d) == d <= active.deals

\* One LiveSync.poll_once under the lock: the stream, and the rows of deals.json
\* that the stored snapshot does not have.
Poll ==
  /\ sup = "listed" /\ lock = "free" /\ bundle.mode # "none"
  /\ LET stream == {f \in files : Readable(f)}
         deals  == {f.deal : f \in stream}
     IN  /\ live' = live \cup {d \in deals : ~Archived(d)}
         /\ leaked' = leaked \cup ((bundle.deals \ baseline.deals) \ deals)
         /\ checkpoint' = IF stream = {} THEN checkpoint
                          ELSE CHOOSE s \in {f.seq : f \in stream} :
                                 \A f \in stream : f.seq <= s
         /\ files' = {f \in files : f.seq > checkpoint'}
  /\ baseline' = [upto |-> bundle.upto, deals |-> bundle.deals]
  /\ sup' = "idle"
  /\ UNCHANGED <<executed, silent, ea, seq, published, bundle, modeFile, status,
                 pending, staged, archive, active, server, jobVars, lock, failures>>

Defer ==
  /\ sup = "listed"
  /\ sup' = "idle"
  /\ UNCHANGED <<eaVars, modeFile, status, handVars, journal, jobVars, lock, failures>>

-----------------------------------------------------------------------------
Next ==
  \/ Execute \/ OnTimer \/ \E d \in Deal : Publish(d)
  \/ \E j \in Job : Start(j)
  \/ WriteHistory
  \/ Lock \/ KeepTerminal \/ StopTerminal \/ StartTerminal \/ Resumed
  \/ CommitPending \/ ResumePending \/ ResumeArchive \/ Stage \/ Promote
  \/ Deliver \/ DeliverLost \/ AlreadyActive \/ SaveBaseline \/ Acknowledge
  \/ Activate \/ Switch \/ Switched \/ Completed
  \/ Mismatch \/ Raise \/ Abandon \/ Crash
  \/ List \/ Poll \/ Defer

Spec == Init /\ [][Next]_vars

-----------------------------------------------------------------------------
Cut == [job : 0..MaxJobs, deals : 0..MaxDeals, anchor : 0..MaxSeq]

EaType ==
  /\ executed \in 0..MaxDeals /\ silent \subseteq Deal /\ published \subseteq Deal
  /\ ea \in {"down", "history", "live"} /\ seq \in 0..MaxSeq
  /\ files \subseteq [seq : 1..MaxSeq, deal : Deal]
  /\ bundle \in [mode : {"none", "history", "live"}, seq : 0..MaxSeq, upto : 0..MaxDeals,
                 deals : SUBSET Deal]

HandType ==
  /\ pending \in Cut /\ active \in Cut
  /\ staged \in [job : 0..MaxJobs, deals : 0..MaxDeals]
  /\ archive \in [Job -> 0..MaxDeals]
  /\ baseline \in [upto : 0..MaxDeals, deals : SUBSET Deal]
  /\ checkpoint \in 0..MaxSeq

JournalType ==
  server \in [Job -> 0..MaxDeals] /\ live \subseteq Deal /\ leaked \subseteq Deal

JobType ==
  /\ pc \in {"idle", "lock", "expert", "start", "resume", "history", "stage", "promote",
             "deliver", "baseline", "acknowledge", "activate", "switch", "completed", "failing"}
  /\ job \in Job /\ doc \in 0..MaxDeals

FlagType ==
  /\ modeFile \in {"history", "new_only"} /\ status \in {"importing", "connected"}
  /\ lock \in {"free", "job"} /\ sup \in {"idle", "listed"}
  /\ failures \in 0..MaxFailures

TypeOK == EaType /\ HandType /\ JournalType /\ JobType /\ FlagType

Imported(d) == \E j \in Job : d <= server[j]

\* What becomes of a deal: imported, delivered, or still to be read.
Accounted(d) ==
  \/ Imported(d) \/ d \in live
  \/ ~Archived(d) /\ \E f \in files : f.deal = d /\ Readable(f)
  \/ ~Archived(d) /\ d \notin published /\ d \notin silent

\* No deal falls between the archive and the live stream of a connected
\* account, wherever attempts failed and however late its callback runs.
NothingLost ==
  status = "connected" => \A d \in 1..executed : d \notin silent \/ d <= OldDeals => Accounted(d)

\* No crash leaves an archive without the boundary it belongs to
\* (real_handlers.py:1952).
ArchiveHasBoundary ==
  archive[job] # 0 => pending.job = job /\ pending.deals = archive[job]

\* A job imports one document, whatever attempt delivers it.
OneDocument == \A j \in Job : server[j] # 0 => server[j] = archive[j]

\* The deals the live stream suppresses were imported.
SuppressedIsImported == \A d \in Deal : Archived(d) => Imported(d)

\* No deal falls between the archive and the live stream, an archive has its
\* boundary, a job imports one document, and what the live stream suppresses was
\* imported (real_handlers.py historical_sync and its handoff).
HandoffIsWhole ==
  TypeOK /\ NothingLost /\ ArchiveHasBoundary /\ OneDocument /\ SuppressedIsImported

\* The live route of a connected account never repeats a deal of the archive.
NeverTwice ==
  [][status = "connected" => \A d \in live' \ live : ~Imported(d)]_vars

\* Rows of the history never leave through the live route
\* (event_supervisor.py:89).
NoHistoryInLive == leaked = {}
-----------------------------------------------------------------------------
(* The inductive invariant of MCAgentProofs.                         *)

Locked     == {"expert", "start", "resume", "history", "stage", "promote", "deliver",
               "baseline", "acknowledge", "activate", "switch", "failing"}
Attempting == {"stage", "promote", "deliver", "baseline", "acknowledge", "activate",
               "switch", "completed"}
Delivered  == {"baseline", "acknowledge", "activate", "switch", "completed"}

\* The job holds the lock from the expert to the switch, with the terminal in the
\* mode of the import until then; a connected account has no attempt under way.
LockInv ==
  /\ lock = "job" <=> pc \in Locked
  /\ pc \in {"start", "resume", "history"} => modeFile = "history"
  /\ status = "connected" => pc = "idle"

\* The EA numbers its files upwards; a bundle, and a boundary read from one, stand
\* above the files of deals they hold.  A file is never below the checkpoint.
FileInv ==
  /\ OldDeals <= executed
  /\ \A d \in published : d <= executed /\ d \notin silent
  /\ \A f \in files : f.seq <= seq /\ Readable(f) /\ f.deal \in published
  /\ bundle.mode # "none" => bundle.seq <= seq
  /\ bundle.mode = "history" =>
       /\ OldDeals <= bundle.upto /\ bundle.upto <= executed
       /\ \A f \in files : f.seq <= bundle.seq => f.deal <= bundle.upto
       /\ pending.deals <= bundle.upto
  /\ pc = "history" => bundle.mode = "history"
  /\ checkpoint <= seq

\* The boundary on disk: above all that was imported, and older deals are in it.
BoundaryInv ==
  /\ pending.anchor <= seq /\ pending.deals <= executed
  /\ pending.job # 0 => OldDeals <= pending.deals
  /\ \A f \in files : f.seq <= pending.anchor => f.deal <= pending.deals
  /\ \A j \in Job : server[j] <= pending.deals

\* Where an attempt stands says what is on disk.
AttemptInv ==
  /\ pc \in Attempting => Pending(job) /\ doc = pending.deals
  /\ pc \in {"stage", "promote"} => archive[job] = 0
  /\ pc \in Delivered \cup {"deliver"} => archive[job] = doc
  /\ pc \in Delivered => server[job] = doc
  /\ pc \in {"switch", "completed"} => active = pending
  /\ status = "connected" => active = pending /\ Pending(job) /\ server[job] = pending.deals

\* Archives are written in the order of the jobs, and imported as they are.
ArchiveInv ==
  /\ \A j \in Job : j > job => archive[j] = 0
  /\ ArchiveHasBoundary /\ OneDocument

\* A deal whose event was published is imported, delivered, or in a file.
StreamInv ==
  /\ \A d \in published : Imported(d) \/ d \in live \/ \E f \in files : f.deal = d
  /\ SuppressedIsImported

IInv == TypeOK /\ LockInv /\ FileInv /\ BoundaryInv /\ AttemptInv /\ ArchiveInv /\ StreamInv
=============================================================================
