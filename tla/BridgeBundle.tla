---------------------------- MODULE BridgeBundle ----------------------------
(***************************************************************************)
(* The snapshot files of one connection.  The bridge EA rewrites them one  *)
(* by one and publishes heartbeat.json last, as the commit marker of the   *)
(* bundle; Mql5FileMt5Adapter reads them one by one and accepts them only  *)
(* when every envelope carries the same sequence number.  The number is    *)
(* incremented in memory and saved in cursor.json after the bundle, so a   *)
(* terminal killed in between forgets it, and NativeMt5Runtime.resume      *)
(* deletes the snapshot files before it starts the next one.               *)
(*                                                                         *)
(* A read sequence does not outlive a restart: a missing file is retried   *)
(* for 2.6 seconds, a terminal needs longer to log in.                     *)
(* history_orders.json and the candles are written between the files here  *)
(* and obey the same rules.                                                *)
(***************************************************************************)
EXTENDS Integers, Sequences, Functions

CONSTANTS MaxDeals,     \* bound: ledger movements at the broker
          MaxSeq,       \* bound: sequence numbers
          MaxKills,     \* bound: terminals killed
          MaxFailures   \* bound: file operations that fail

ASSUME BundleAssumption ==
  /\ MaxDeals \in Nat /\ MaxSeq \in Nat
  /\ MaxKills \in Nat /\ MaxFailures \in Nat

VARIABLES
  ledger,      \* how many movements the broker's ledger holds
  cursor,      \* cursor.json: event_seq
  modeFile,    \* the file history_mode
  files,       \* the snapshot files that exist, by name
  pc,          \* where the EA stands; "down" when its terminal is
  seq,         \* g_event_seq
  newOnly,     \* g_new_only
  histSeq,     \* g_history_snapshot_sequence, 0 until the snapshot is written
  onTimer,     \* the bundle is written by OnTimer, not by OnInit
  todo,        \* the files of this bundle not written yet
  ok,          \* snapshot_ok
  anchor,      \* the ledger BuildDealsJson captured
  plan, got,   \* the files the adapter reads in turn, and their contents so far
  switch, previous,  \* switch_to_new_only: its progress and previous_sequence
  kills, failures,
  bundle,      \* history: bundles begun so far
  committed,   \* history: bundles committed under a number that was not lost
  events,      \* history: events published, each with the bundles begun before it
  leftover     \* history: a file survived resume() with a number not saved

eaVars     == <<pc, seq, newOnly, histSeq, onTimer, todo, ok, anchor>>
readVars   == <<plan, got>>
switchVars == <<switch, previous>>
ghostVars  == <<bundle, committed, events, leftover>>
vars == <<ledger, cursor, modeFile, files, eaVars, readVars, switchVars,
          kills, failures, ghostVars>>

BundleFile == {"account", "positions", "orders", "deals"}
FileName == BundleFile \cup {"heartbeat"}
Mode     == {"history", "new_only"}
ModeOf(live) == IF live THEN "new_only" ELSE "history"

Content == [seq : 1..MaxSeq, mode : Mode, at : 0..MaxDeals,
            bundle : Nat \ {0}]

Init ==
  /\ ledger = 0 /\ cursor = 0 /\ modeFile = "history" /\ files = <<>>
  /\ pc = "down" /\ seq = 0 /\ newOnly = FALSE /\ histSeq = 0
  /\ onTimer = FALSE /\ todo = <<>> /\ ok = TRUE /\ anchor = 0
  /\ plan = <<>> /\ got = <<>>
  /\ switch = "none" /\ previous = 0
  /\ kills = 0 /\ failures = 0
  /\ bundle = 0 /\ committed = {} /\ events = {} /\ leftover = FALSE

-----------------------------------------------------------------------------
\* A deal, or a movement of balance or credit, at the broker.
Trade ==
  /\ ledger < MaxDeals
  /\ ledger' = ledger + 1
  /\ UNCHANGED <<cursor, modeFile, files, eaVars, readVars, switchVars, kills,
                 failures, ghostVars>>

Fails == failures < MaxFailures /\ failures' = failures + 1

-----------------------------------------------------------------------------
(* The bridge EA.  MT5 runs one callback at a time.                         *)

\* WriteAllSnapshots publishes the certified ledger first, the live mode last.
WriteOrder(live) ==
  IF live THEN <<"account", "positions", "orders", "deals">>
          ELSE <<"deals", "account", "positions", "orders">>

WriteAllSnapshots(live, base) ==
  /\ base < MaxSeq
  /\ seq' = base + 1
  /\ bundle' = bundle + 1
  /\ todo' = WriteOrder(live)
  /\ ok' = TRUE
  /\ pc' = IF live THEN "write" ELSE "capture"

\* In new_only mode the first bundle waits for the timer.
OnInit ==
  /\ pc = "boot"
  /\ newOnly' = (modeFile = "new_only")
  /\ histSeq' = 0 /\ onTimer' = FALSE
  /\ IF newOnly'
     THEN /\ seq' = cursor
          /\ pc' = "idle"
          /\ UNCHANGED <<bundle, todo, ok>>
     ELSE WriteAllSnapshots(newOnly', cursor)
  /\ UNCHANGED <<ledger, cursor, modeFile, files, anchor, readVars, switchVars,
                 kills, failures, committed, events, leftover>>

SwitchingOn == ~newOnly /\ modeFile = "new_only"

\* Within the start-up grace of new_only OnTimer only changes the mode.
OnTimerInGrace ==
  /\ pc = "idle"
  /\ SwitchingOn
  /\ newOnly' = TRUE /\ histSeq' = 0
  /\ UNCHANGED <<ledger, cursor, modeFile, files, pc, seq, onTimer, todo, ok,
                 anchor, readVars, switchVars, kills, failures, ghostVars>>

\* OnTimer changes the mode and begins a bundle, or republishes the heartbeat
\* of the immutable history snapshot: the file on disk, with a newer time.
OnTimer ==
  /\ pc = "idle"
  /\ newOnly' = (newOnly \/ SwitchingOn)
  /\ histSeq' = IF SwitchingOn THEN 0 ELSE histSeq
  /\ onTimer' = TRUE
  /\ IF ~newOnly' /\ histSeq > 0
     THEN pc' = "save" /\ UNCHANGED <<seq, bundle, todo, ok>>
     ELSE WriteAllSnapshots(newOnly', seq)
  /\ UNCHANGED <<ledger, cursor, modeFile, files, anchor, readVars, switchVars,
                 kills, failures, committed, events, leftover>>

AfterBundle == IF onTimer THEN "save" ELSE "idle"

\* BuildDealsJson walks the ledger and then verifies that it did not move; a
\* HistorySelect that fails abandons the bundle as well, here and below.
CaptureLedger ==
  /\ pc = "capture"
  /\ anchor' = ledger
  /\ pc' = "certify"
  /\ UNCHANGED <<ledger, cursor, modeFile, files, seq, newOnly, histSeq, onTimer,
                 todo, ok, readVars, switchVars, kills, failures, ghostVars>>

CertifyLedger ==
  /\ pc = "certify"
  /\ \/ ledger = anchor /\ pc' = "write"
     \/ pc' = AfterBundle
  /\ UNCHANGED <<ledger, cursor, modeFile, files, seq, newOnly, histSeq, onTimer,
                 todo, ok, anchor, readVars, switchVars, kills, failures, ghostVars>>

Envelope(at) == [seq |-> seq, mode |-> ModeOf(newOnly), at |-> at, bundle |-> bundle]

\* WriteJsonAtomic: the rename succeeds, or the old file stays and the bundle
\* will not be committed; the remaining files are written all the same.
WriteJsonAtomic(name, content) ==
  files' = [n \in DOMAIN files \cup {name} |->
              IF n = name THEN content ELSE files[n]]

WriteFile ==
  /\ pc = "write"
  /\ LET name == Head(todo)
     IN  \/ /\ WriteJsonAtomic(name, Envelope(IF name = "deals" /\ ~newOnly
                                              THEN anchor ELSE ledger))
            /\ UNCHANGED <<ok, failures>>
         \/ Fails /\ ok' = FALSE /\ UNCHANGED files
  /\ todo' = Tail(todo)
  /\ pc' = IF todo' # <<>> THEN "write"
           ELSE IF ~ok' THEN AfterBundle
           ELSE IF newOnly THEN "commit" ELSE "verify"
  /\ UNCHANGED <<ledger, cursor, modeFile, seq, newOnly, histSeq, onTimer,
                 anchor, readVars, switchVars, kills, ghostVars>>

CommitAnyLedger ==   \* mutant: the anchor is not compared with the ledger again
  /\ pc = "verify"
  /\ pc' = "commit"
  /\ UNCHANGED <<ledger, cursor, modeFile, files, seq, newOnly, histSeq, onTimer,
                 todo, ok, anchor, readVars, switchVars, kills, failures, ghostVars>>

RevalidateLedger ==
  /\ pc = "verify"
  /\ \/ ledger = anchor /\ pc' = "commit"
     \/ pc' = AfterBundle
  /\ UNCHANGED <<ledger, cursor, modeFile, files, seq, newOnly, histSeq, onTimer,
                 todo, ok, anchor, readVars, switchVars, kills, failures, ghostVars>>

\* heartbeat.json, the commit marker.
Commit ==
  /\ pc = "commit"
  /\ \/ /\ WriteJsonAtomic("heartbeat", Envelope(ledger))
        /\ histSeq' = IF newOnly THEN histSeq ELSE seq
        /\ committed' = committed \cup {[seq |-> seq, bundle |-> bundle]}
        /\ UNCHANGED failures
     \/ Fails /\ UNCHANGED <<files, histSeq, committed>>
  /\ pc' = AfterBundle
  /\ UNCHANGED <<ledger, cursor, modeFile, seq, newOnly, onTimer, todo, ok,
                 anchor, readVars, switchVars, kills, bundle, events, leftover>>

\* SaveCursorState at the end of OnTimer; its result is ignored.
SaveCursor ==
  /\ pc = "save"
  /\ \/ cursor' = seq /\ UNCHANGED failures
     \/ Fails /\ UNCHANGED cursor
  /\ pc' = "idle"
  /\ UNCHANGED <<ledger, modeFile, files, seq, newOnly, histSeq, onTimer, todo,
                 ok, anchor, readVars, switchVars, kills, ghostVars>>

EmitUnsaved ==   \* mutant: the number is not saved before its file is published
  /\ pc = "idle"
  /\ seq < MaxSeq
  /\ seq' = seq + 1
  /\ events' = events \cup {[num |-> seq + 1, bundles |-> bundle]}
  /\ UNCHANGED <<ledger, cursor, modeFile, files, pc, newOnly, histSeq, onTimer,
                 todo, ok, anchor, readVars, switchVars, kills, failures, bundle,
                 committed, leftover>>

\* An event takes the next number, saved before its file is published.
EmitEvent ==
  /\ pc = "idle"
  /\ seq < MaxSeq
  /\ seq' = seq + 1
  /\ cursor' = seq + 1
  /\ \/ /\ events' = events \cup {[num |-> seq + 1, bundles |-> bundle]}
        /\ UNCHANGED failures
     \/ Fails /\ UNCHANGED events
  /\ UNCHANGED <<ledger, modeFile, files, pc, newOnly, histSeq, onTimer, todo,
                 ok, anchor, readVars, switchVars, kills, bundle, committed, leftover>>

\* The memory of a terminal that is gone.
Forget ==
  /\ pc' = "down" /\ seq' = 0 /\ newOnly' = FALSE /\ histSeq' = 0
  /\ onTimer' = FALSE /\ todo' = <<>> /\ ok' = TRUE /\ anchor' = 0
  /\ committed' = {c \in committed : c.seq <= cursor'}

\* OnDeinit: an orderly end saves the cursor.
OnDeinit ==
  /\ pc = "idle"
  /\ \/ cursor' = seq /\ UNCHANGED failures
     \/ Fails /\ UNCHANGED cursor
  /\ Forget
  /\ UNCHANGED <<ledger, modeFile, files, readVars, switchVars, kills, bundle,
                 events, leftover>>

\* A crash, or the TerminateProcess with which the agent stops a terminal.
Kill ==
  /\ pc # "down"
  /\ kills < MaxKills
  /\ kills' = kills + 1
  /\ UNCHANGED cursor
  /\ Forget
  /\ UNCHANGED <<ledger, modeFile, files, readVars, switchVars, failures, bundle,
                 events, leftover>>

-----------------------------------------------------------------------------
(* The agent: NativeMt5Runtime.resume and switch_to_new_only.               *)

ResumeOverOldFiles(mode) ==   \* mutant: the snapshot files are not removed
  /\ pc = "down"
  /\ switch # "waiting"
  /\ modeFile' = mode
  /\ pc' = "boot"
  /\ switch' = "none" /\ previous' = 0
  /\ plan' = <<>> /\ got' = <<>>
  /\ UNCHANGED <<ledger, cursor, files, seq, newOnly, histSeq, onTimer, todo, ok,
                 anchor, kills, failures, ghostVars>>

\* _remove_readiness_files ignores the errors of unlink: some files may stay.
Resume(mode) ==
  /\ pc = "down"
  /\ switch # "waiting"
  /\ modeFile' = mode
  /\ \E kept \in SUBSET DOMAIN files :
       /\ IF kept = {} THEN UNCHANGED failures ELSE Fails
       /\ files' = Restrict(files, kept)
       /\ leftover' = (leftover \/ \E n \in kept : files[n].seq > cursor)
  /\ pc' = "boot"
  /\ switch' = "none" /\ previous' = 0
  /\ plan' = <<>> /\ got' = <<>>
  /\ UNCHANGED <<ledger, cursor, seq, newOnly, histSeq, onTimer, todo, ok, anchor,
                 kills, bundle, committed, events>>

BeginSwitch ==
  /\ switch = "none"
  /\ switch' = "waiting"
  /\ previous' = IF "heartbeat" \in DOMAIN files THEN files["heartbeat"].seq ELSE -1
  /\ modeFile' = "new_only"
  /\ UNCHANGED <<ledger, cursor, files, eaVars, readVars, kills, failures, ghostVars>>

AcceptAnyLiveHeartbeat ==   \* mutant: the sequence is not compared with the previous one
  /\ switch = "waiting"
  /\ "heartbeat" \in DOMAIN files
  /\ files["heartbeat"].mode = "new_only"
  /\ switch' = "done"
  /\ UNCHANGED <<ledger, cursor, modeFile, files, eaVars, readVars, previous,
                 kills, failures, ghostVars>>

SeeSwitch ==
  /\ switch = "waiting"
  /\ "heartbeat" \in DOMAIN files
  /\ files["heartbeat"].mode = "new_only"
  /\ files["heartbeat"].seq > previous
  /\ switch' = "done"
  /\ UNCHANGED <<ledger, cursor, modeFile, files, eaVars, readVars, previous,
                 kills, failures, ghostVars>>

SwitchTimeout ==
  /\ switch = "waiting"
  /\ switch' = "none" /\ previous' = 0
  /\ UNCHANGED <<ledger, cursor, modeFile, files, eaVars, readVars, kills,
                 failures, ghostVars>>

-----------------------------------------------------------------------------
(* The adapter.  snapshot() reads the heartbeat on both sides of the files; *)
(* _require_history_sequence reads it, and the account, after the ledger.   *)

SnapshotPlan == <<"heartbeat", "account", "positions", "orders", "deals", "heartbeat">>
HistoryPlan  == <<"deals", "heartbeat", "account">>

BeginRead ==
  /\ plan = <<>>
  /\ plan' \in {SnapshotPlan, HistoryPlan}
  /\ UNCHANGED <<ledger, cursor, modeFile, files, eaVars, got, switchVars, kills,
                 failures, ghostVars>>

ReadFile ==
  /\ Len(got) < Len(plan)
  /\ plan[Len(got) + 1] \in DOMAIN files
  /\ got' = Append(got, files[plan[Len(got) + 1]])
  /\ UNCHANGED <<ledger, cursor, modeFile, files, eaVars, plan, switchVars, kills,
                 failures, ghostVars>>

\* The read is over: it returns, it is repeated, or it raises - because the
\* numbers differ, a file is missing, or the heartbeat is stale.
EndRead ==
  /\ plan # <<>>
  /\ plan' = <<>> /\ got' = <<>>
  /\ UNCHANGED <<ledger, cursor, modeFile, files, eaVars, switchVars, kills,
                 failures, ghostVars>>

SameSequence == \A i, j \in DOMAIN got : got[i].seq = got[j].seq

Accepts(p) == plan = p /\ Len(got) = Len(p) /\ SameSequence

-----------------------------------------------------------------------------
EA ==
  \/ OnInit \/ OnTimerInGrace \/ OnTimer \/ CaptureLedger \/ CertifyLedger
  \/ WriteFile \/ RevalidateLedger \/ Commit \/ SaveCursor \/ EmitEvent

Next ==
  \/ Trade \/ EA \/ OnDeinit \/ Kill
  \/ \E m \in Mode : Resume(m)
  \/ BeginSwitch \/ SeeSwitch \/ SwitchTimeout
  \/ BeginRead \/ ReadFile \/ EndRead

Spec == Init /\ [][Next]_vars

-----------------------------------------------------------------------------
\* The variables hold values of their types.
TypeOK ==
  /\ ledger \in 0..MaxDeals /\ cursor \in 0..MaxSeq /\ modeFile \in Mode
  /\ DOMAIN files \subseteq FileName /\ Range(files) \subseteq Content
  /\ pc \in {"down", "boot", "idle", "capture", "certify", "write", "verify",
             "commit", "save"}
  /\ seq \in 0..MaxSeq /\ newOnly \in BOOLEAN /\ histSeq \in 0..MaxSeq
  /\ onTimer \in BOOLEAN /\ todo \in Seq(BundleFile) /\ ok \in BOOLEAN
  /\ pc \in {"capture", "certify", "write"} => todo # <<>>
  /\ anchor \in 0..MaxDeals
  /\ plan \in {<<>>, SnapshotPlan, HistoryPlan} /\ got \in Seq(Content)
  /\ Len(got) <= Len(plan)
  /\ switch \in {"none", "waiting", "done"} /\ previous \in -1..MaxSeq
  /\ kills \in 0..MaxKills /\ failures \in 0..MaxFailures
  /\ bundle \in Nat /\ leftover \in BOOLEAN
  /\ committed \subseteq [seq : 1..MaxSeq, bundle : Nat]
  /\ events \subseteq [num : 1..MaxSeq, bundles : Nat]

\* snapshot() and the history readers never combine two bundles, although the
\* number of a bundle is forgotten when the terminal is killed before
\* SaveCursorState and used again by the next one (mql5_file_adapter.py
\* snapshot, _require_history_sequence).  The exception is stated: an unlink
\* that failed on a file with such a number.
OneBundle ==
  ~leftover /\ (Accepts(SnapshotPlan) \/ Accepts(HistoryPlan))
    => \A i, j \in DOMAIN got : got[i].bundle = got[j].bundle

\* An accepted history read shows one state of the broker's ledger: account.json
\* was written while the ledger was the one deals.json certifies
\* (TradeJournalBridge.mq5 RevalidateHistoryLedgerAnchor).
CertifiedLedger ==
  ~leftover /\ Accepts(HistoryPlan) /\ got[1].mode = "history"
    => got[3].at = got[1].at

\* The number of a committed bundle separates the stream: the events up to it
\* are those published before the bundle.  acknowledge_events(anchor_sequence)
\* of the history handoff relies on it (real_handlers.py).  A bundle whose number
\* the EA forgot when it was killed no longer counts: an event may take it.
AnchorSeparates ==
  \A c \in committed : \A e \in events :
    (e.num <= c.seq) <=> (e.bundles < c.bundle)

\* switch_to_new_only returns only when the running EA is in live mode, and
\* never because of a heartbeat a previous terminal left behind
\* (native_mt5_runtime.py switch_to_new_only).
SwitchedMeansLive ==
  switch = "done" =>
    modeFile = "new_only" /\ (newOnly \/ pc \in {"down", "boot"})
-----------------------------------------------------------------------------
(* The inductive invariant of MCTerminalProofs.                             *)

Up      == pc \notin {"down", "boot"}
Writing == pc \in {"capture", "certify", "write", "verify", "commit"}
Seen    == Range(files) \cup Range(got)

\* What is on disk under a name, or has been read from it.
SeenAs(name) ==
  {files[n] : n \in {m \in DOMAIN files : m = name}}
    \cup {got[i] : i \in {j \in DOMAIN got : plan[j] = name}}

NumberInv ==
  /\ Up => cursor <= seq
  /\ Writing => seq > 0 /\ bundle > 0
  /\ \A f \in Seen : f.bundle <= bundle
  /\ ~leftover =>
       /\ \A f, g \in Seen : f.seq = g.seq => f.bundle = g.bundle
       /\ pc = "boot" => (\A f \in Seen : f.seq <= cursor)
       /\ Up => (\A f \in Seen : f.seq <= seq)
       /\ Writing => (\A f \in Seen : f.seq = seq => f.bundle = bundle)

LedgerInv ==
  /\ Writing =>
       /\ \A h \in SeenAs("heartbeat") : h.bundle # bundle
       /\ \A f \in Seen : f.bundle = bundle =>
            (f.mode = ModeOf(newOnly) /\ pc \in {"write", "verify", "commit"})
  /\ pc \in {"certify", "write", "verify"} /\ ~newOnly => anchor <= ledger
  /\ pc \in {"write", "verify", "commit"} /\ ~newOnly =>
       /\ \A d \in SeenAs("deals") : d.bundle = bundle => d.at = anchor
       /\ \A a \in SeenAs("account") : a.bundle = bundle =>
            (IF pc = "commit" THEN a.at = anchor ELSE a.at \in anchor..ledger)
  /\ \A h \in SeenAs("heartbeat"), a \in SeenAs("account"), d \in SeenAs("deals") :
       h.bundle = d.bundle /\ a.bundle = d.bundle /\ d.mode = "history" => a.at = d.at

StreamInv ==
  /\ \A c \in committed : c.bundle <= bundle /\ c.seq <= (IF Up THEN seq ELSE cursor)
  /\ \A e \in events : e.num <= cursor /\ e.bundles <= bundle
  /\ Writing => \A e \in events : e.num < seq /\ e.bundles < bundle
  /\ AnchorSeparates

SwitchInv ==
  /\ switch # "none" => modeFile = "new_only"
  /\ switch = "done" => newOnly \/ ~Up
  /\ switch = "waiting" /\ Up /\ ~newOnly =>
       \A n \in DOMAIN files :
         n = "heartbeat" /\ files[n].mode = "new_only" => files[n].seq <= previous

\* The parts together, kept by every step (the argument for the four
\* properties above).
IInv == TypeOK /\ NumberInv /\ LedgerInv /\ StreamInv /\ SwitchInv
=============================================================================
