-------------------------- MODULE MCTerminalProofs --------------------------
(***************************************************************************)
(* Theorems about the terminal's expert, for every value of the constants: *)
(* first about BridgeBundle, whose definitions MCTerminal extends, then    *)
(* about ManagedExpert, instantiated there as Expert, and the composition. *)
(***************************************************************************)
EXTENDS MCTerminal, TLAPS

\* The two write orders are lists of file names (WriteAllSnapshots).
LEMMA WriteOrderType ==
  ASSUME NEW live \in BOOLEAN
  PROVE  WriteOrder(live) \in Seq(BundleFile) /\ WriteOrder(live) # <<>>
<1>1. "account" \in BundleFile /\ "positions" \in BundleFile
      /\ "orders" \in BundleFile /\ "deals" \in BundleFile
  BY DEF BundleFile
<1>2. \A a, b, c, d \in BundleFile :
        <<a, b, c, d>> \in Seq(BundleFile) /\ <<a, b, c, d>> # <<>>
  OBVIOUS
<1>. QED  BY <1>1, <1>2 DEF WriteOrder

\* Starting a bundle takes a number of the right type (WriteAllSnapshots).
LEMMA StartType ==
  ASSUME NEW live \in BOOLEAN, NEW base \in 0..MaxSeq, bundle \in Nat,
         WriteAllSnapshots(live, base)
  PROVE  /\ seq' \in 1..MaxSeq /\ bundle' \in Nat /\ ok' \in BOOLEAN
         /\ todo' \in Seq(BundleFile) /\ todo' # <<>>
         /\ pc' \in {"write", "capture"}
BY WriteOrderType, BundleAssumption DEF WriteAllSnapshots

\* A file replaced by WriteJsonAtomic keeps the directory well formed.
LEMMA WriteType ==
  ASSUME TypeOK, NEW name \in FileName, NEW c \in Content, WriteJsonAtomic(name, c)
  PROVE  DOMAIN files' \subseteq FileName /\ Range(files') \subseteq Content
<1>1. \A n \in DOMAIN files : files[n] \in Content
  BY DEF TypeOK, Range
<1>2. DOMAIN files' = DOMAIN files \cup {name}
  BY DEF WriteJsonAtomic
<1>3. \A n \in DOMAIN files' : files'[n] \in Content
  BY <1>1 DEF WriteJsonAtomic
<1>. QED  BY <1>2, <1>3 DEF TypeOK, Range

\* What the EA puts in an envelope while it writes a bundle (BuildEnvelope).
LEMMA EnvelopeType ==
  ASSUME TypeOK, NumberInv, Writing, NEW at \in 0..MaxDeals
  PROVE  Envelope(at) \in Content
<1>1. seq \in 1..MaxSeq /\ bundle \in Nat \ {0}
  BY BundleAssumption DEF TypeOK, NumberInv
<1>2. ModeOf(newOnly) \in Mode
  BY DEF TypeOK, ModeOf, Mode
<1>. QED  BY <1>1, <1>2 DEF Envelope, Content

\* The memory of a terminal that is gone is well typed (Kill, OnDeinit).
LEMMA ForgetType ==
  ASSUME TypeOK, Forget
  PROVE  /\ seq' \in 0..MaxSeq /\ newOnly' \in BOOLEAN /\ histSeq' \in 0..MaxSeq
         /\ onTimer' \in BOOLEAN /\ todo' \in Seq(BundleFile) /\ ok' \in BOOLEAN
         /\ anchor' \in 0..MaxDeals /\ pc' = "down"
         /\ committed' \subseteq [seq : 1..MaxSeq, bundle : Nat]
<1>1. todo' \in Seq(BundleFile)
  BY DEF Forget
<1>2. committed' \subseteq [seq : 1..MaxSeq, bundle : Nat]
  BY DEF Forget, TypeOK
<1>3. /\ newOnly' \in BOOLEAN /\ onTimer' \in BOOLEAN /\ ok' \in BOOLEAN
  BY DEF Forget
<1>4. seq' \in 0..MaxSeq /\ histSeq' \in 0..MaxSeq /\ anchor' \in 0..MaxDeals /\ pc' = "down"
  BY BundleAssumption DEF Forget
<1>. QED  BY <1>1, <1>2, <1>3, <1>4

-----------------------------------------------------------------------------
\* The initial state satisfies the invariant.
LEMMA InitInv == Init => IInv
<1>. SUFFICES ASSUME Init PROVE IInv
  OBVIOUS
<1>1. Range(files) = {} /\ Range(got) = {} /\ DOMAIN files = {} /\ DOMAIN got = {}
  BY DEF Init, Range
<1>2. Seen = {} /\ \A n : SeenAs(n) = {}
  BY <1>1 DEF Seen, SeenAs
<1>3. TypeOK
  <2>1. todo \in Seq(BundleFile) /\ got \in Seq(Content) /\ Len(got) <= Len(plan)
        /\ plan \in {<<>>, SnapshotPlan, HistoryPlan}
    BY DEF Init
  <2>2. DOMAIN files \subseteq FileName /\ Range(files) \subseteq Content
        /\ committed \subseteq [seq : 1..MaxSeq, bundle : Nat]
        /\ events \subseteq [num : 1..MaxSeq, bundles : Nat]
    BY <1>1 DEF Init
  <2>3. /\ ledger \in 0..MaxDeals /\ cursor \in 0..MaxSeq /\ seq \in 0..MaxSeq
        /\ histSeq \in 0..MaxSeq /\ anchor \in 0..MaxDeals /\ previous \in -1..MaxSeq
        /\ kills \in 0..MaxKills /\ failures \in 0..MaxFailures /\ bundle \in Nat
    BY BundleAssumption DEF Init
  <2>4. /\ newOnly \in BOOLEAN /\ onTimer \in BOOLEAN /\ ok \in BOOLEAN
        /\ leftover \in BOOLEAN /\ modeFile \in Mode /\ pc = "down" /\ switch = "none"
    BY DEF Init, Mode
  <2>. QED  BY <2>1, <2>2, <2>3, <2>4 DEF TypeOK
<1>4. NumberInv /\ LedgerInv /\ StreamInv /\ SwitchInv
  BY <1>1, <1>2 DEF Init, NumberInv, LedgerInv, StreamInv, SwitchInv, Up, Writing,
     AnchorSeparates
<1>. QED  BY <1>3, <1>4 DEF IInv

-----------------------------------------------------------------------------
\* Every step keeps the types.
LEMMA TypeStep == IInv /\ [Next]_vars => TypeOK'
<1>. SUFFICES ASSUME IInv, [Next]_vars PROVE TypeOK'
  OBVIOUS
<1>. USE BundleAssumption
<1>1. CASE UNCHANGED vars
  BY <1>1 DEF IInv, TypeOK, vars, eaVars, readVars, switchVars, ghostVars
<1>2. CASE Trade
  BY <1>2 DEF IInv, TypeOK, Trade, eaVars, readVars, switchVars, ghostVars
<1>3. CASE OnInit
  <2>1. newOnly' \in BOOLEAN /\ onTimer' \in BOOLEAN
    BY <1>3 DEF OnInit
  <2>2. /\ seq' \in 0..MaxSeq /\ bundle' \in Nat
        /\ ok' \in BOOLEAN /\ todo' \in Seq(BundleFile)
        /\ pc' \in {"idle", "write", "capture"}
        /\ (pc' \in {"write", "capture"} => todo' # <<>>)
    <3>1. CASE newOnly'
      BY <1>3, <3>1 DEF IInv, TypeOK, OnInit
    <3>2. CASE ~newOnly'
      <4>1. WriteAllSnapshots(newOnly', cursor)
        BY <1>3, <3>2 DEF OnInit
      <4>2. cursor \in 0..MaxSeq /\ bundle \in Nat
        BY DEF IInv, TypeOK
      <4>3. /\ seq' \in 1..MaxSeq /\ bundle' \in Nat /\ ok' \in BOOLEAN
            /\ todo' \in Seq(BundleFile) /\ todo' # <<>>
            /\ pc' \in {"write", "capture"}
        BY <2>1, <4>1, <4>2, StartType
      <4>. QED  BY <4>3
    <3>. QED  BY <3>1, <3>2
  <2>3. histSeq' \in 0..MaxSeq
    BY <1>3 DEF OnInit
  <2>. QED  BY <1>3, <2>1, <2>2, <2>3 DEF IInv, TypeOK, OnInit, readVars, switchVars
<1>4. CASE OnTimerInGrace
  BY <1>4 DEF IInv, TypeOK, OnTimerInGrace, readVars, switchVars, ghostVars
<1>5. CASE OnTimer
  <2>1. newOnly' \in BOOLEAN
    BY <1>5 DEF IInv, TypeOK, OnTimer, SwitchingOn
  <2>2. seq' \in 0..MaxSeq /\ bundle' \in Nat
        /\ ok' \in BOOLEAN /\ todo' \in Seq(BundleFile)
        /\ pc' \in {"save", "write", "capture"}
        /\ (pc' \in {"write", "capture"} => todo' # <<>>)
    <3>1. CASE WriteAllSnapshots(newOnly', seq)
      <4>1. seq \in 0..MaxSeq /\ bundle \in Nat
        BY DEF IInv, TypeOK
      <4>. QED  BY <2>1, <3>1, <4>1, StartType
    <3>2. CASE pc' = "save" /\ UNCHANGED <<seq, bundle, todo, ok>>
      BY <3>2 DEF IInv, TypeOK
    <3>. QED  BY <1>5, <3>1, <3>2 DEF OnTimer
  <2>. QED  BY <1>5, <2>1, <2>2 DEF IInv, TypeOK, OnTimer, readVars, switchVars
<1>6. CASE CaptureLedger
  BY <1>6 DEF IInv, TypeOK, CaptureLedger, readVars, switchVars, ghostVars
<1>7. CASE CertifyLedger
  BY <1>7 DEF IInv, TypeOK, CertifyLedger, AfterBundle, readVars, switchVars, ghostVars
<1>8. CASE WriteFile
  <2>1. Head(todo) \in FileName /\ todo' \in Seq(BundleFile)
    BY <1>8 DEF IInv, TypeOK, WriteFile, FileName
  <2>2. DOMAIN files' \subseteq FileName /\ Range(files') \subseteq Content
    <3>1. CASE UNCHANGED files
      BY <3>1 DEF IInv, TypeOK
    <3>2. CASE WriteJsonAtomic(Head(todo), Envelope(IF Head(todo) = "deals" /\ ~newOnly
                                                     THEN anchor ELSE ledger))
      <4>1. (IF Head(todo) = "deals" /\ ~newOnly THEN anchor ELSE ledger) \in 0..MaxDeals
        BY DEF IInv, TypeOK
      <4>. QED  BY <1>8, <2>1, <3>2, <4>1, WriteType, EnvelopeType DEF IInv, WriteFile, Writing
    <3>. QED  BY <1>8, <3>1, <3>2 DEF WriteFile
  <2>3. ok' \in BOOLEAN /\ failures' \in 0..MaxFailures
    <3>1. CASE UNCHANGED <<ok, failures>>
      BY <3>1 DEF IInv, TypeOK
    <3>2. CASE Fails /\ ok' = FALSE
      <4>1. ok' \in BOOLEAN
        BY <3>2
      <4>2. failures' \in 0..MaxFailures
        BY <3>2 DEF IInv, TypeOK, Fails
      <4>. QED  BY <4>1, <4>2
    <3>. QED  BY <1>8, <3>1, <3>2 DEF WriteFile
  <2>4. /\ pc' \in {"write", "save", "idle", "commit", "verify"}
        /\ pc' = "write" => todo' # <<>>
    BY <1>8 DEF WriteFile, AfterBundle
  <2>. QED  BY <1>8, <2>1, <2>2, <2>3, <2>4
       DEF IInv, TypeOK, WriteFile, readVars, switchVars, ghostVars
<1>9. CASE RevalidateLedger
  BY <1>9 DEF IInv, TypeOK, RevalidateLedger, AfterBundle, readVars, switchVars, ghostVars
<1>10. CASE Commit
  <2>1. seq \in 1..MaxSeq /\ ledger \in 0..MaxDeals /\ "heartbeat" \in FileName /\ Writing
    BY <1>10 DEF IInv, TypeOK, NumberInv, Commit, Writing, FileName
  <2>2. DOMAIN files' \subseteq FileName /\ Range(files') \subseteq Content
    <3>1. CASE UNCHANGED files
      BY <3>1 DEF IInv, TypeOK
    <3>2. CASE WriteJsonAtomic("heartbeat", Envelope(ledger))
      BY <2>1, <3>2, WriteType, EnvelopeType DEF IInv
    <3>. QED  BY <1>10, <3>1, <3>2 DEF Commit
  <2>3. committed' \subseteq [seq : 1..MaxSeq, bundle : Nat]
    BY <1>10, <2>1 DEF IInv, TypeOK, Commit
  <2>4. pc' \in {"save", "idle"} /\ histSeq' \in 0..MaxSeq /\ failures' \in 0..MaxFailures
    BY <1>10, <2>1 DEF IInv, TypeOK, Commit, AfterBundle, Fails
  <2>. QED  BY <1>10, <2>2, <2>3, <2>4 DEF IInv, TypeOK, Commit, readVars, switchVars
<1>11. CASE SaveCursor
  BY <1>11 DEF IInv, TypeOK, SaveCursor, Fails, readVars, switchVars, ghostVars
<1>12. CASE EmitEvent
  <2>1. [num |-> seq + 1, bundles |-> bundle] \in [num : 1..MaxSeq, bundles : Nat]
    BY <1>12 DEF IInv, TypeOK, EmitEvent
  <2>. QED  BY <1>12, <2>1 DEF IInv, TypeOK, EmitEvent, Fails, readVars, switchVars
<1>13. CASE OnDeinit
  <2>1. cursor' \in 0..MaxSeq /\ failures' \in 0..MaxFailures
    BY <1>13 DEF IInv, TypeOK, OnDeinit, Fails
  <2>2. TypeOK /\ Forget
    BY <1>13 DEF IInv, OnDeinit
  <2>. QED  BY <1>13, <2>1, <2>2, ForgetType DEF TypeOK, OnDeinit, readVars, switchVars
<1>14. CASE Kill
  <2>1. kills' \in 0..MaxKills
    BY <1>14 DEF IInv, TypeOK, Kill
  <2>2. TypeOK /\ Forget
    BY <1>14 DEF IInv, Kill
  <2>. QED  BY <1>14, <2>1, <2>2, ForgetType DEF TypeOK, Kill, readVars, switchVars
<1>15. ASSUME NEW m \in Mode, Resume(m) PROVE TypeOK'
  <2>1. DOMAIN files' \subseteq FileName /\ Range(files') \subseteq Content
    BY <1>15 DEF IInv, TypeOK, Resume, Restrict, Range
  <2>2. failures' \in 0..MaxFailures /\ leftover' \in BOOLEAN
    BY <1>15 DEF IInv, TypeOK, Resume, Fails
  <2>3. got' \in Seq(Content) /\ Len(got') = 0 /\ Len(plan') = 0
        /\ plan' \in {<<>>, SnapshotPlan, HistoryPlan}
    BY <1>15 DEF Resume
  <2>. QED  BY <1>15, <2>1, <2>2, <2>3 DEF IInv, TypeOK, Resume
<1>16. CASE BeginSwitch
  <2>1. previous' \in -1..MaxSeq
    BY <1>16 DEF IInv, TypeOK, BeginSwitch, Range, Content
  <2>. QED  BY <1>16, <2>1 DEF IInv, TypeOK, BeginSwitch, Mode, eaVars, readVars, ghostVars
<1>17. CASE SeeSwitch
  BY <1>17 DEF IInv, TypeOK, SeeSwitch, eaVars, readVars, ghostVars
<1>18. CASE SwitchTimeout
  BY <1>18 DEF IInv, TypeOK, SwitchTimeout, eaVars, readVars, ghostVars
<1>19. CASE BeginRead
  <2>1. Len(got) = 0 /\ plan' \in {<<>>, SnapshotPlan, HistoryPlan} /\ Len(got') <= Len(plan')
    BY <1>19 DEF IInv, TypeOK, BeginRead, SnapshotPlan, HistoryPlan
  <2>. QED  BY <1>19, <2>1 DEF IInv, TypeOK, BeginRead, eaVars, switchVars, ghostVars
<1>20. CASE ReadFile
  <2>1. files[plan[Len(got) + 1]] \in Content
    BY <1>20 DEF IInv, TypeOK, ReadFile, Range
  <2>2. got' \in Seq(Content) /\ Len(got') = Len(got) + 1 /\ Len(plan) \in Nat
    BY <1>20, <2>1 DEF IInv, TypeOK, ReadFile, SnapshotPlan, HistoryPlan
  <2>3. Len(got') <= Len(plan')
    BY <1>20, <2>2 DEF IInv, TypeOK, ReadFile
  <2>. QED  BY <1>20, <2>2, <2>3 DEF IInv, TypeOK, ReadFile, eaVars, switchVars, ghostVars
<1>21. CASE EndRead
  BY <1>21 DEF IInv, TypeOK, EndRead, eaVars, switchVars, ghostVars
<1>. QED
  BY <1>1, <1>2, <1>3, <1>4, <1>5, <1>6, <1>7, <1>8, <1>9, <1>10, <1>11, <1>12, <1>13,
     <1>14, <1>15, <1>16, <1>17, <1>18, <1>19, <1>20, <1>21 DEF Next, EA

-----------------------------------------------------------------------------
(* What a step can add to the files and the copies read from them.          *)

\* Everything seen is a well-typed envelope.
LEMMA SeenType ==
  ASSUME TypeOK
  PROVE  /\ Seen \subseteq Content
         /\ \A n : SeenAs(n) \subseteq Seen
<1>1. \A i \in DOMAIN got : got[i] \in Content
  BY DEF TypeOK
<1>2. Range(got) \subseteq Content
  BY <1>1 DEF Range
<1>. QED  BY <1>2 DEF TypeOK, Seen, SeenAs, Range

\* A step that leaves files and copies alone shows nothing new.
LEMMA SameSeen ==
  ASSUME UNCHANGED <<files, plan, got>>
  PROVE  Seen' = Seen /\ \A n : SeenAs(n)' = SeenAs(n)
BY DEF Seen, SeenAs, Range

\* WriteJsonAtomic shows the new content, under its own name only.
LEMMA WriteSeen ==
  ASSUME NEW name, NEW c, WriteJsonAtomic(name, c), UNCHANGED <<plan, got>>
  PROVE  /\ Seen' \subseteq Seen \cup {c}
         /\ SeenAs(name)' \subseteq SeenAs(name) \cup {c}
         /\ \A m : m # name => SeenAs(m)' \subseteq SeenAs(m)
<1>1. \A n \in DOMAIN files' : (n = name /\ files'[n] = c)
                              \/ (n # name /\ n \in DOMAIN files /\ files'[n] = files[n])
  BY DEF WriteJsonAtomic
<1>2. got' = got /\ plan' = plan
  OBVIOUS
<1>. QED  BY <1>1, <1>2 DEF Seen, SeenAs, Range

\* A read copies what is on disk, under the name it was read from.
LEMMA ReadSeen ==
  ASSUME TypeOK, ReadFile
  PROVE  Seen' \subseteq Seen /\ \A n : SeenAs(n)' \subseteq SeenAs(n)
<1>1. files' = files /\ plan' = plan
  BY DEF ReadFile
<1>2. got \in Seq(Content)
  BY DEF TypeOK
<1>3. \A i \in DOMAIN got' : \/ i \in DOMAIN got /\ got'[i] = got[i]
                             \/ plan[i] \in DOMAIN files /\ got'[i] = files[plan[i]]
  BY <1>2 DEF ReadFile
<1>. QED  BY <1>1, <1>3 DEF Seen, SeenAs, Range

\* Beginning or ending a read shows nothing new.
LEMMA DropSeen ==
  ASSUME TypeOK, BeginRead \/ EndRead
  PROVE  Seen' \subseteq Seen /\ \A n : SeenAs(n)' \subseteq SeenAs(n)
<1>1. files' = files
  BY DEF BeginRead, EndRead, eaVars, switchVars, ghostVars
<1>2. got' = <<>>
  <2>1. got \in Seq(Content) /\ Len(got) <= Len(plan)
    BY DEF TypeOK
  <2>2. CASE BeginRead
    BY <2>1, <2>2 DEF BeginRead
  <2>3. CASE EndRead
    BY <2>3 DEF EndRead
  <2>. QED  BY <2>2, <2>3
<1>3. DOMAIN got' = {}
  BY <1>2
<1>. QED  BY <1>1, <1>3 DEF Seen, SeenAs, Range

\* resume() keeps some of the files and no copies.
LEMMA ResumeSeen ==
  ASSUME NEW m, Resume(m)
  PROVE  Seen' \subseteq Seen /\ \A n : SeenAs(n)' \subseteq SeenAs(n)
<1>1. got' = <<>> /\ DOMAIN got' = {}
  BY DEF Resume
<1>2. \A n \in DOMAIN files' : n \in DOMAIN files /\ files'[n] = files[n]
  BY DEF Resume, Restrict
<1>. QED  BY <1>1, <1>2 DEF Seen, SeenAs, Range

-----------------------------------------------------------------------------
\* The counters are natural numbers, and only a running EA writes a bundle.
LEMMA Counters ==
  ASSUME TypeOK
  PROVE  /\ cursor \in Nat /\ seq \in Nat /\ bundle \in Nat
         /\ ledger \in Nat /\ anchor \in Nat
         /\ Writing => Up
<1>1. cursor \in 0..MaxSeq /\ seq \in 0..MaxSeq /\ bundle \in Nat
      /\ ledger \in 0..MaxDeals /\ anchor \in 0..MaxDeals
  BY DEF TypeOK
<1>2. Writing => Up
  BY DEF Writing, Up
<1>. QED  BY <1>1, <1>2, BundleAssumption

-----------------------------------------------------------------------------
(* Numbers: equal numbers belong to one bundle.                             *)

\* A step that shows nothing new, takes no number and does not begin a bundle
\* keeps NumberInv.
LEMMA NumberQuiet ==
  ASSUME TypeOK, TypeOK', NumberInv,
         Seen' \subseteq Seen, UNCHANGED <<seq, bundle, leftover>>,
         Up' => Up /\ cursor' <= seq', Writing' => Writing,
         pc' = "boot" => pc = "boot" /\ cursor' = cursor
  PROVE  NumberInv'
<1>1. \A f \in Seen' : f \in Seen
  OBVIOUS
<1>. QED  BY <1>1 DEF NumberInv

\* A new bundle takes a number above all those seen (WriteAllSnapshots).
LEMMA NumberStart ==
  ASSUME TypeOK, TypeOK', NumberInv, NEW live, NEW base,
         WriteAllSnapshots(live, base),
         Seen' = Seen, UNCHANGED <<cursor, leftover>>,
         \/ pc = "boot" /\ base = cursor
         \/ Up /\ base = seq
  PROVE  NumberInv'
<1>1. \A f \in Seen : f.seq \in Nat /\ f.bundle \in Nat
  BY SeenType DEF Content
<1>2. base \in Nat /\ cursor \in Nat /\ bundle \in Nat /\ cursor <= base
  BY Counters DEF NumberInv
<1>3. ~leftover => \A f \in Seen : f.seq <= base
  BY DEF NumberInv
<1>4. seq' = base + 1 /\ bundle' = bundle + 1 /\ Up' /\ pc' # "boot"
  BY DEF WriteAllSnapshots, Up
<1>5. \A f \in Seen' : f.bundle <= bundle'
  BY <1>1, <1>2, <1>4 DEF NumberInv
<1>6. ~leftover' => \A f, g \in Seen' : f.seq = g.seq => f.bundle = g.bundle
  BY DEF NumberInv
<1>7. ~leftover' => \A f \in Seen' : f.seq <= seq' /\ f.seq # seq'
  BY <1>1, <1>2, <1>3, <1>4
<1>. QED  BY <1>2, <1>4, <1>5, <1>6, <1>7 DEF NumberInv

\* A file of the current bundle carries its number.
LEMMA NumberWrite ==
  ASSUME TypeOK, TypeOK', NumberInv, Writing, NEW at,
         Seen' \subseteq Seen \cup {Envelope(at)},
         UNCHANGED <<cursor, seq, bundle, leftover>>, pc' # "boot"
  PROVE  NumberInv'
<1>1. Envelope(at).seq = seq /\ Envelope(at).bundle = bundle
  BY DEF Envelope
<1>2. Up /\ seq \in Int /\ bundle \in Int
  BY Counters
<1>3. \A f \in Seen' : f \in Seen \/ (f.seq = seq /\ f.bundle = bundle)
  BY <1>1
<1>. QED  BY <1>2, <1>3 DEF NumberInv

\* Every step keeps NumberInv.
LEMMA NumberStep == IInv /\ TypeOK' /\ [Next]_vars => NumberInv'
<1>. SUFFICES ASSUME IInv, TypeOK', [Next]_vars PROVE NumberInv'
  OBVIOUS
<1>0. TypeOK /\ NumberInv /\ cursor \in Int /\ seq \in Int /\ (Up => cursor <= seq)
  BY Counters DEF IInv, NumberInv
<1>1. CASE UNCHANGED <<pc, cursor, seq, bundle, leftover, files, plan, got>>
  BY <1>0, <1>1, SameSeen, NumberQuiet DEF Up, Writing
<1>2. CASE OnInit
  <2>1. Seen' = Seen
    BY <1>2, SameSeen DEF OnInit, readVars
  <2>2. CASE newOnly'
    <3>1. seq' = cursor /\ pc' = "idle" /\ pc = "boot" /\ UNCHANGED <<bundle, cursor, leftover>>
      BY <1>2, <2>2 DEF OnInit
    <3>. QED  BY <1>0, <2>1, <3>1 DEF NumberInv, Up, Writing
  <2>3. CASE ~newOnly'
    BY <1>0, <1>2, <2>1, <2>3, NumberStart DEF OnInit
  <2>. QED  BY <2>2, <2>3
<1>3. CASE OnTimer
  <2>1. Seen' = Seen /\ UNCHANGED <<cursor, leftover>> /\ Up
    BY <1>3, SameSeen DEF OnTimer, readVars, Up
  <2>2. CASE WriteAllSnapshots(newOnly', seq)
    BY <1>0, <2>1, <2>2, NumberStart
  <2>3. CASE pc' = "save" /\ UNCHANGED <<seq, bundle, todo, ok>>
    BY <1>0, <2>1, <2>3, NumberQuiet DEF Up, Writing
  <2>. QED  BY <1>3, <2>2, <2>3 DEF OnTimer
<1>4. CASE CaptureLedger \/ CertifyLedger \/ RevalidateLedger
  <2>1. /\ UNCHANGED <<cursor, seq, bundle, leftover, files, plan, got>>
        /\ Writing /\ Up /\ pc' # "boot"
    BY <1>4 DEF CaptureLedger, CertifyLedger, RevalidateLedger, AfterBundle, ghostVars,
       readVars, Writing, Up
  <2>. QED  BY <1>0, <2>1, SameSeen, NumberQuiet
<1>5. CASE WriteFile
  <2>1. Writing /\ UNCHANGED <<cursor, seq, bundle, leftover, plan, got>> /\ pc' # "boot" /\ Up
    BY <1>5 DEF WriteFile, Writing, Up, AfterBundle, ghostVars, readVars
  <2>2. CASE UNCHANGED files
    BY <1>0, <2>1, <2>2, SameSeen, NumberQuiet
  <2>3. CASE WriteJsonAtomic(Head(todo), Envelope(IF Head(todo) = "deals" /\ ~newOnly
                                                  THEN anchor ELSE ledger))
    BY <1>0, <2>1, <2>3, WriteSeen, NumberWrite
  <2>. QED  BY <1>5, <2>2, <2>3 DEF WriteFile
<1>6. CASE Commit
  <2>1. Writing /\ UNCHANGED <<cursor, seq, bundle, leftover, plan, got>> /\ pc' # "boot" /\ Up
    BY <1>6 DEF Commit, Writing, Up, AfterBundle, readVars
  <2>2. CASE UNCHANGED files
    BY <1>0, <2>1, <2>2, SameSeen, NumberQuiet
  <2>3. CASE WriteJsonAtomic("heartbeat", Envelope(ledger))
    BY <1>0, <2>1, <2>3, WriteSeen, NumberWrite
  <2>. QED  BY <1>6, <2>2, <2>3 DEF Commit
<1>7. CASE SaveCursor
  <2>1. /\ UNCHANGED <<seq, bundle, leftover, files, plan, got>> /\ pc' = "idle" /\ Up
        /\ cursor' <= seq'
    BY <1>0, <1>7 DEF SaveCursor, ghostVars, readVars, Up
  <2>. QED  BY <1>0, <2>1, SameSeen, NumberQuiet DEF Writing
<1>8. CASE EmitEvent
  <2>1. /\ Seen' = Seen /\ UNCHANGED <<bundle, leftover>> /\ pc = "idle" /\ pc' = "idle"
        /\ seq' = seq + 1 /\ cursor' = seq + 1
    BY <1>8, SameSeen DEF EmitEvent, readVars
  <2>2. \A f \in Seen : f.seq \in Int
    BY <1>0, SeenType DEF Content
  <2>. QED  BY <1>0, <2>1, <2>2 DEF NumberInv, Up, Writing
<1>9. CASE OnDeinit \/ Kill
  <2>1. Seen' = Seen /\ UNCHANGED <<bundle, leftover>> /\ pc' = "down"
    BY <1>9, SameSeen DEF OnDeinit, Kill, Forget, readVars
  <2>. QED  BY <1>0, <2>1 DEF NumberInv, Up, Writing
<1>10. ASSUME NEW m \in Mode, Resume(m) PROVE NumberInv'
  <2>1. Seen' \subseteq Seen
    BY <1>10, ResumeSeen
  <2>2. UNCHANGED <<bundle, cursor>> /\ pc' = "boot"
    BY <1>10 DEF Resume
  <2>3. ~leftover' => ~leftover /\ \A f \in Seen' : f.seq <= cursor
    <3>1. \A f \in Seen' : \E n \in DOMAIN files' : f = files'[n]
      BY <1>10 DEF Resume, Seen, Range
    <3>2. \A f \in Seen : f.seq \in Int
      BY <1>0, SeenType DEF Content
    <3>3. ASSUME ~leftover', NEW n \in DOMAIN files'
          PROVE  n \in DOMAIN files /\ files'[n] = files[n] /\ ~(files[n].seq > cursor)
      BY <1>10, <3>3 DEF Resume, Restrict
    <3>4. \A n \in DOMAIN files : files[n] \in Seen
      BY DEF Seen, Range
    <3>6. ~leftover' => ~leftover
      BY <1>10 DEF Resume
    <3>7. ASSUME ~leftover', NEW f \in Seen' PROVE f.seq <= cursor
      <4>1. PICK n \in DOMAIN files' : f = files'[n]
        BY <3>1
      <4>2. f = files[n] /\ n \in DOMAIN files /\ ~(f.seq > cursor)
        BY <3>3, <3>7, <4>1
      <4>3. f.seq \in Int
        BY <3>2, <3>4, <4>2
      <4>. QED  BY <1>0, <4>2, <4>3
    <3>. QED  BY <3>6, <3>7
  <2>. QED  BY <1>0, <2>1, <2>2, <2>3 DEF NumberInv, Up, Writing
<1>11. CASE BeginRead \/ ReadFile \/ EndRead
  <2>1. Seen' \subseteq Seen
    BY <1>0, <1>11, ReadSeen, DropSeen
  <2>2. UNCHANGED <<pc, cursor, seq, bundle, leftover>>
    BY <1>11 DEF BeginRead, ReadFile, EndRead, eaVars, ghostVars
  <2>. QED  BY <1>0, <2>1, <2>2, NumberQuiet DEF Up, Writing
<1>12. CASE Trade \/ OnTimerInGrace \/ BeginSwitch \/ SeeSwitch \/ SwitchTimeout
            \/ UNCHANGED vars
  <2>1. UNCHANGED <<pc, cursor, seq, bundle, leftover, files, plan, got>>
    BY <1>12 DEF Trade, OnTimerInGrace, BeginSwitch, SeeSwitch, SwitchTimeout, vars,
       eaVars, readVars, ghostVars
  <2>. QED  BY <1>1, <2>1
<1>. QED
  BY <1>2, <1>3, <1>4, <1>5, <1>6, <1>7, <1>8, <1>9, <1>10, <1>11, <1>12 DEF Next, EA

-----------------------------------------------------------------------------
(* The ledger: account.json and the deals.json of one committed bundle       *)
(* agree.                                                                    *)

\* A step that shows nothing new and moves the EA at most out of the writing
\* of a bundle keeps LedgerInv; the broker's ledger may only grow.
LEMMA LedgerQuiet ==
  ASSUME TypeOK, TypeOK', LedgerInv,
         Seen' \subseteq Seen, \A n : SeenAs(n)' \subseteq SeenAs(n),
         \/ UNCHANGED <<pc, newOnly, bundle, anchor>> /\ ledger' >= ledger
         \/ ~Writing'
  PROVE  LedgerInv'
<1>1. /\ \A f \in Seen' : f \in Seen
      /\ \A h \in SeenAs("heartbeat")' : h \in SeenAs("heartbeat")
      /\ \A d \in SeenAs("deals")' : d \in SeenAs("deals")
      /\ \A a \in SeenAs("account")' : a \in SeenAs("account") /\ a.at \in Int
  BY SeenType DEF Content
<1>2. ledger \in Int /\ ledger' \in Int /\ anchor \in Int
  BY Counters DEF TypeOK
<1>3. CASE ~Writing'
  BY <1>1, <1>3 DEF LedgerInv, Writing
<1>4. CASE UNCHANGED <<pc, newOnly, bundle, anchor>> /\ ledger' >= ledger
  BY <1>1, <1>2, <1>4 DEF LedgerInv, Writing
<1>. QED  BY <1>3, <1>4

\* No file of a bundle that has just begun exists.
LEMMA LedgerStart ==
  ASSUME TypeOK, TypeOK', NumberInv, LedgerInv, NEW live, NEW base,
         WriteAllSnapshots(live, base), live <=> newOnly',
         Seen' = Seen, \A n : SeenAs(n)' = SeenAs(n)
  PROVE  LedgerInv'
<1>1. \A f \in Seen' : f.bundle # bundle'
  BY SeenType, Counters DEF NumberInv, Content, WriteAllSnapshots
<1>2. \A n : \A f \in SeenAs(n)' : f.bundle # bundle'
  BY <1>1, SeenType
<1>3. pc' = (IF newOnly' THEN "write" ELSE "capture")
  BY DEF WriteAllSnapshots
<1>. QED  BY <1>1, <1>2, <1>3 DEF LedgerInv, Writing

\* Every step keeps LedgerInv.
LEMMA LedgerStep == IInv /\ TypeOK' /\ [Next]_vars => LedgerInv'
<1>. SUFFICES ASSUME IInv, TypeOK', [Next]_vars PROVE LedgerInv'
  OBVIOUS
<1>0. /\ TypeOK /\ NumberInv /\ LedgerInv
      /\ ledger \in Int /\ anchor \in Int /\ bundle \in Int
  BY Counters DEF IInv
<1>1. CASE /\ UNCHANGED <<files, plan, got>>
           /\ \/ UNCHANGED <<pc, newOnly, bundle, anchor>> /\ ledger' >= ledger
              \/ ~Writing'
  BY <1>0, <1>1, SameSeen, LedgerQuiet
<1>2. CASE Trade
  <2>1. UNCHANGED <<files, plan, got, pc, newOnly, bundle, anchor>> /\ ledger' >= ledger
    BY <1>0, <1>2 DEF Trade, eaVars, readVars, ghostVars
  <2>. QED  BY <1>1, <2>1
<1>3. CASE OnInit
  <2>1. Seen' = Seen /\ \A n : SeenAs(n)' = SeenAs(n)
    BY <1>3, SameSeen DEF OnInit, readVars
  <2>2. CASE newOnly'
    <3>1. UNCHANGED <<files, plan, got>> /\ ~Writing'
      BY <1>3, <2>2 DEF OnInit, readVars, Writing
    <3>. QED  BY <1>1, <3>1
  <2>3. CASE ~newOnly'
    <3>1. WriteAllSnapshots(newOnly', cursor)
      BY <1>3, <2>3 DEF OnInit
    <3>. QED  BY <1>0, <2>1, <3>1, LedgerStart
  <2>. QED  BY <2>2, <2>3
<1>4. CASE OnTimer
  <2>1. UNCHANGED <<files, plan, got>>
    BY <1>4 DEF OnTimer, readVars
  <2>2. CASE WriteAllSnapshots(newOnly', seq)
    BY <1>0, <2>1, <2>2, SameSeen, LedgerStart
  <2>3. CASE pc' = "save"
    BY <1>1, <2>1, <2>3 DEF Writing
  <2>. QED  BY <1>4, <2>2, <2>3 DEF OnTimer
<1>5. CASE CaptureLedger
  <2>1. /\ Seen' = Seen /\ \A n : SeenAs(n)' = SeenAs(n)
        /\ pc = "capture" /\ pc' = "certify" /\ anchor' = ledger
        /\ UNCHANGED <<ledger, newOnly, bundle>>
    BY <1>5, SameSeen DEF CaptureLedger, readVars, ghostVars
  <2>. QED  BY <1>0, <2>1 DEF LedgerInv, Writing
<1>6. CASE CertifyLedger
  <2>1. /\ UNCHANGED <<files, plan, got, ledger, newOnly, bundle, anchor>>
        /\ pc = "certify" /\ (pc' = "write" \/ ~Writing')
    BY <1>6 DEF CertifyLedger, AfterBundle, Writing, readVars, ghostVars
  <2>2. CASE pc' = "write"
    <3>1. Seen' = Seen /\ \A n : SeenAs(n)' = SeenAs(n)
      BY <2>1, SameSeen
    <3>2. \A n : \A f \in SeenAs(n) : f.bundle # bundle
      BY <1>0, <2>1, SeenType DEF LedgerInv, Writing
    <3>3. \A f \in Seen : f.bundle # bundle
      BY <1>0, <2>1 DEF LedgerInv, Writing
    <3>. QED  BY <1>0, <2>1, <2>2, <3>1, <3>2, <3>3 DEF LedgerInv, Writing
  <2>. QED  BY <1>1, <2>1, <2>2
<1>7. CASE WriteFile
  <2>1. /\ UNCHANGED <<ledger, newOnly, bundle, anchor, plan, got>>
        /\ pc = "write" /\ pc' \in {"write", "commit", "verify", "save", "idle"}
        /\ pc' = "commit" => newOnly
    BY <1>7 DEF WriteFile, AfterBundle, ghostVars, readVars
  <2>2. CASE pc' \in {"save", "idle"} /\ UNCHANGED files
    BY <1>1, <2>1, <2>2 DEF Writing
  <2>3. CASE pc' \in {"write", "commit", "verify"} /\ UNCHANGED files
    <3>1. Seen' = Seen /\ \A n : SeenAs(n)' = SeenAs(n)
      BY <2>1, <2>3, SameSeen
    <3>. QED  BY <1>0, <2>1, <2>3, <3>1 DEF LedgerInv, Writing
  <2>4. ASSUME NEW c, c = Envelope(IF Head(todo) = "deals" /\ ~newOnly
                                   THEN anchor ELSE ledger),
               WriteJsonAtomic(Head(todo), c)
        PROVE  LedgerInv'
    <3>1. c.bundle = bundle /\ c.mode = ModeOf(newOnly)
          /\ (Head(todo) = "deals" /\ ~newOnly => c.at = anchor)
          /\ (Head(todo) = "account" => c.at = ledger)
      BY <2>4 DEF Envelope
    <3>2. Head(todo) # "heartbeat"
      <4>1. todo \in Seq(BundleFile) /\ todo # <<>>
        BY <1>0, <1>7 DEF TypeOK, WriteFile
      <4>2. Head(todo) \in BundleFile
        BY <4>1
      <4>. QED  BY <4>2 DEF BundleFile
    <3>3. /\ Seen' \subseteq Seen \cup {c}
          /\ SeenAs("heartbeat")' \subseteq SeenAs("heartbeat")
          /\ \A d \in SeenAs("deals")' : d \in SeenAs("deals") \/ (Head(todo) = "deals" /\ d = c)
          /\ \A a \in SeenAs("account")' :
               a \in SeenAs("account") \/ (Head(todo) = "account" /\ a = c)
      BY <2>1, <2>4, <3>2, WriteSeen
    <3>4. \A h \in SeenAs("heartbeat")' : h.bundle # bundle /\ h \in SeenAs("heartbeat")
      BY <1>0, <2>1, <3>3 DEF LedgerInv, Writing
    <3>5. \A f \in Seen' : f.bundle = bundle => f.mode = ModeOf(newOnly)
      BY <1>0, <2>1, <3>1, <3>3 DEF LedgerInv, Writing
    <3>6. ~newOnly =>
            /\ \A d \in SeenAs("deals")' : d.bundle = bundle => d.at = anchor
            /\ \A a \in SeenAs("account")' : a.bundle = bundle => a.at \in anchor..ledger
      BY <1>0, <2>1, <3>1, <3>3 DEF LedgerInv
    <3>7. \A h \in SeenAs("heartbeat")', a \in SeenAs("account")', d \in SeenAs("deals")' :
            h.bundle = d.bundle /\ a.bundle = d.bundle /\ d.mode = "history" => a.at = d.at
      BY <1>0, <3>1, <3>3, <3>4 DEF LedgerInv
    <3>8. ~newOnly => anchor <= ledger
      BY <1>0, <2>1 DEF LedgerInv
    <3>. QED  BY <2>1, <3>4, <3>5, <3>6, <3>7, <3>8 DEF LedgerInv, Writing
  <2>. QED  BY <1>7, <2>1, <2>2, <2>3, <2>4 DEF WriteFile
<1>8. CASE RevalidateLedger
  <2>1. /\ UNCHANGED <<files, plan, got, ledger, newOnly, bundle, anchor>>
        /\ pc = "verify" /\ ((pc' = "commit" /\ ledger = anchor) \/ ~Writing')
    BY <1>8 DEF RevalidateLedger, AfterBundle, Writing, readVars, ghostVars
  <2>2. CASE pc' = "commit" /\ ledger = anchor
    <3>1. Seen' = Seen /\ \A n : SeenAs(n)' = SeenAs(n)
      BY <2>1, SameSeen
    <3>2. \A a \in SeenAs("account") : a.at \in Int
      BY <1>0, SeenType DEF Content
    <3>. QED  BY <1>0, <2>1, <2>2, <3>1, <3>2 DEF LedgerInv, Writing
  <2>. QED  BY <1>1, <2>1, <2>2
<1>9. CASE Commit
  <2>1. UNCHANGED <<ledger, newOnly, bundle, anchor, plan, got>> /\ pc = "commit" /\ ~Writing'
    BY <1>9 DEF Commit, AfterBundle, Writing, readVars
  <2>2. CASE UNCHANGED files
    BY <1>1, <2>1, <2>2
  <2>3. CASE WriteJsonAtomic("heartbeat", Envelope(ledger))
    <3>1. /\ \A h \in SeenAs("heartbeat")' : h \in SeenAs("heartbeat") \/ h.bundle = bundle
          /\ SeenAs("account")' \subseteq SeenAs("account")
          /\ SeenAs("deals")' \subseteq SeenAs("deals")
      BY <2>1, <2>3, WriteSeen DEF Envelope
    <3>2. ASSUME NEW a \in SeenAs("account"), NEW d \in SeenAs("deals"),
                 a.bundle = bundle, d.bundle = bundle, d.mode = "history"
          PROVE  a.at = d.at
      <4>1. d \in Seen /\ ~newOnly
        BY <1>0, <2>1, <3>2, SeenType DEF LedgerInv, Writing, ModeOf
      <4>. QED  BY <1>0, <2>1, <3>2, <4>1 DEF LedgerInv
    <3>3. \A h \in SeenAs("heartbeat")', a \in SeenAs("account")', d \in SeenAs("deals")' :
            h.bundle = d.bundle /\ a.bundle = d.bundle /\ d.mode = "history" => a.at = d.at
      BY <1>0, <3>1, <3>2 DEF LedgerInv
    <3>. QED  BY <2>1, <3>3 DEF LedgerInv, Writing
  <2>. QED  BY <1>9, <2>2, <2>3 DEF Commit
<1>10. CASE OnDeinit \/ Kill \/ SaveCursor \/ EmitEvent \/ OnTimerInGrace
  <2>1. UNCHANGED <<files, plan, got>> /\ ~Writing'
    BY <1>10 DEF OnDeinit, Kill, Forget, SaveCursor, EmitEvent, OnTimerInGrace, Writing,
       readVars
  <2>. QED  BY <1>1, <2>1
<1>11. ASSUME NEW m \in Mode, Resume(m) PROVE LedgerInv'
  <2>1. ~Writing'
    BY <1>11 DEF Resume, Writing
  <2>. QED  BY <1>0, <1>11, <2>1, ResumeSeen, LedgerQuiet
<1>12. CASE BeginRead \/ ReadFile \/ EndRead
  <2>1. Seen' \subseteq Seen /\ \A n : SeenAs(n)' \subseteq SeenAs(n)
    BY <1>0, <1>12, ReadSeen, DropSeen
  <2>2. UNCHANGED <<pc, newOnly, bundle, anchor, ledger>>
    BY <1>12 DEF BeginRead, ReadFile, EndRead, eaVars, ghostVars
  <2>. QED  BY <1>0, <2>1, <2>2, LedgerQuiet
<1>13. CASE BeginSwitch \/ SeeSwitch \/ SwitchTimeout \/ UNCHANGED vars
  <2>1. UNCHANGED <<files, plan, got, pc, newOnly, bundle, anchor, ledger>>
    BY <1>13 DEF BeginSwitch, SeeSwitch, SwitchTimeout, vars, eaVars, readVars, ghostVars
  <2>. QED  BY <1>0, <1>1, <2>1
<1>. QED
  BY <1>2, <1>3, <1>4, <1>5, <1>6, <1>7, <1>8, <1>9, <1>10, <1>11, <1>12, <1>13 DEF Next, EA

-----------------------------------------------------------------------------
(* The stream and the switch.                                                *)

\* Every step keeps StreamInv.
LEMMA StreamStep == IInv /\ TypeOK' /\ [Next]_vars => StreamInv'
<1>. SUFFICES ASSUME IInv, TypeOK', [Next]_vars PROVE StreamInv'
  OBVIOUS
<1>0. /\ NumberInv /\ StreamInv
      /\ cursor \in Int /\ seq \in Int /\ bundle \in Int
      /\ (Writing => Up) /\ (Up => cursor <= seq)
      /\ \A c \in committed : c.seq \in Int /\ c.bundle \in Int
      /\ \A e \in events : e.num \in Int /\ e.bundles \in Int
  <2>1. TypeOK
    BY DEF IInv
  <2>2. \A c \in committed : c.seq \in Int /\ c.bundle \in Int
    <3>1. committed \subseteq [seq : 1..MaxSeq, bundle : Nat]
      BY <2>1 DEF TypeOK
    <3>. QED  BY <3>1
  <2>3. \A e \in events : e.num \in Int /\ e.bundles \in Int
    <3>1. events \subseteq [num : 1..MaxSeq, bundles : Nat]
      BY <2>1 DEF TypeOK
    <3>. QED  BY <3>1
  <2>. QED  BY <2>1, <2>2, <2>3, Counters DEF IInv, NumberInv
<1>1. CASE /\ UNCHANGED <<committed, events, bundle, cursor, seq>>
           /\ (Writing' => Writing) /\ (Up' <=> Up)
  BY <1>0, <1>1 DEF StreamInv, AnchorSeparates
<1>2. ASSUME NEW live, NEW base, WriteAllSnapshots(live, base),
             UNCHANGED <<committed, events, cursor>>,
             (pc = "boot" /\ base = cursor) \/ (Up /\ base = seq)
      PROVE  StreamInv'
  <2>1. seq' = base + 1 /\ bundle' = bundle + 1 /\ Up' /\ base \in Int /\ cursor <= base
    BY <1>0, <1>2 DEF WriteAllSnapshots, Up
  <2>2. \A c \in committed : c.seq <= base /\ c.bundle <= bundle
    BY <1>0, <1>2 DEF StreamInv, Up
  <2>. QED  BY <1>0, <1>2, <2>1, <2>2 DEF StreamInv, AnchorSeparates
<1>3. CASE OnInit
  <2>1. UNCHANGED <<committed, events, cursor>> /\ pc = "boot"
    BY <1>3 DEF OnInit
  <2>2. CASE newOnly'
    <3>1. UNCHANGED bundle /\ seq' = cursor /\ pc' = "idle"
      BY <1>3, <2>2 DEF OnInit
    <3>. QED  BY <1>0, <2>1, <3>1 DEF StreamInv, AnchorSeparates, Up, Writing
  <2>3. CASE ~newOnly'
    BY <1>2, <1>3, <2>1, <2>3 DEF OnInit
  <2>. QED  BY <2>2, <2>3
<1>4. CASE OnTimer
  <2>1. UNCHANGED <<committed, events, cursor>> /\ Up
    BY <1>4 DEF OnTimer, Up
  <2>2. CASE WriteAllSnapshots(newOnly', seq)
    BY <1>2, <2>1, <2>2
  <2>3. CASE pc' = "save" /\ UNCHANGED <<seq, bundle, todo, ok>>
    BY <1>1, <2>1, <2>3 DEF Writing, Up
  <2>. QED  BY <1>4, <2>2, <2>3 DEF OnTimer
<1>5. CASE CaptureLedger \/ CertifyLedger \/ RevalidateLedger \/ WriteFile
  <2>1. UNCHANGED <<committed, events, bundle, cursor, seq>> /\ Writing /\ Up /\ Up'
    BY <1>5 DEF CaptureLedger, CertifyLedger, RevalidateLedger, WriteFile, AfterBundle,
       Writing, Up, ghostVars
  <2>. QED  BY <1>1, <2>1
<1>6. CASE Commit
  <2>1. /\ UNCHANGED <<events, bundle, cursor, seq>> /\ Writing /\ Up /\ Up' /\ ~Writing'
        /\ \A c \in committed' : c \in committed \/ (c.seq = seq /\ c.bundle = bundle)
    BY <1>6 DEF Commit, AfterBundle, Writing, Up
  <2>. QED  BY <1>0, <2>1 DEF StreamInv, AnchorSeparates
<1>7. CASE SaveCursor
  <2>1. /\ UNCHANGED <<committed, events, bundle, seq>> /\ Up /\ Up' /\ ~Writing'
        /\ (cursor' = seq \/ cursor' = cursor)
    BY <1>7 DEF SaveCursor, ghostVars, Up, Writing
  <2>. QED  BY <1>0, <2>1 DEF StreamInv, AnchorSeparates
<1>8. CASE EmitEvent
  <2>1. /\ UNCHANGED <<committed, bundle>> /\ Up /\ Up' /\ ~Writing'
        /\ seq' = seq + 1 /\ cursor' = seq + 1
        /\ \A e \in events' : e \in events \/ (e.num = seq + 1 /\ e.bundles = bundle)
    BY <1>8 DEF EmitEvent, Up, Writing
  <2>. QED  BY <1>0, <2>1 DEF StreamInv, AnchorSeparates
<1>9. CASE OnDeinit \/ Kill
  <2>1. /\ UNCHANGED <<bundle, events>> /\ ~Up' /\ ~Writing'
        /\ (cursor' = cursor \/ (Up /\ cursor' = seq))
        /\ \A c \in committed' : c \in committed /\ c.seq <= cursor'
    BY <1>9 DEF OnDeinit, Kill, Forget, Up, Writing
  <2>2. \A e \in events : e.num <= cursor'
    BY <1>0, <2>1 DEF StreamInv
  <2>. QED  BY <1>0, <2>1, <2>2 DEF StreamInv, AnchorSeparates
<1>10. CASE \/ Trade \/ OnTimerInGrace \/ (\E m \in Mode : Resume(m))
            \/ BeginSwitch \/ SeeSwitch \/ SwitchTimeout
            \/ BeginRead \/ ReadFile \/ EndRead \/ UNCHANGED vars
  <2>1. UNCHANGED <<committed, events, bundle, cursor, seq>>
    BY <1>10 DEF Trade, OnTimerInGrace, Resume, BeginSwitch, SeeSwitch, SwitchTimeout,
       BeginRead, ReadFile, EndRead, vars, eaVars, ghostVars
  <2>2. pc' = pc \/ (pc = "down" /\ pc' = "boot")
    BY <1>10 DEF Trade, OnTimerInGrace, Resume, BeginSwitch, SeeSwitch, SwitchTimeout,
       BeginRead, ReadFile, EndRead, vars, eaVars
  <2>. QED  BY <1>1, <2>1, <2>2 DEF Up, Writing
<1>. QED
  BY <1>3, <1>4, <1>5, <1>6, <1>7, <1>8, <1>9, <1>10 DEF Next, EA

\* Every step keeps SwitchInv.
LEMMA SwitchStep == IInv /\ TypeOK' /\ [Next]_vars => SwitchInv'
<1>. SUFFICES ASSUME IInv, TypeOK', [Next]_vars PROVE SwitchInv'
  OBVIOUS
<1>0. SwitchInv
  BY DEF IInv
<1>1. CASE /\ UNCHANGED <<modeFile, switch, previous, files>>
           /\ ~Up' \/ newOnly' \/ (UNCHANGED newOnly /\ (Up' => Up))
  BY <1>0, <1>1 DEF SwitchInv
<1>2. CASE Trade \/ BeginRead \/ ReadFile \/ EndRead \/ UNCHANGED vars
  <2>1. UNCHANGED <<modeFile, switch, previous, files, newOnly, pc>>
    BY <1>2 DEF Trade, BeginRead, ReadFile, EndRead, vars, eaVars, switchVars
  <2>. QED  BY <1>1, <2>1 DEF Up
<1>3. CASE OnInit
  <2>1. UNCHANGED <<modeFile, switch, previous, files>> /\ newOnly' = (modeFile = "new_only")
    BY <1>3 DEF OnInit, switchVars
  <2>. QED  BY <1>0, <2>1 DEF SwitchInv
<1>4. CASE OnTimerInGrace \/ OnTimer
  <2>1. /\ UNCHANGED <<modeFile, switch, previous, files>> /\ Up
        /\ (newOnly' <=> newOnly \/ SwitchingOn)
    BY <1>4 DEF OnTimerInGrace, OnTimer, SwitchingOn, switchVars, Up
  <2>. QED  BY <1>0, <2>1 DEF SwitchInv
<1>5. CASE CaptureLedger \/ CertifyLedger \/ RevalidateLedger \/ SaveCursor \/ EmitEvent
  <2>1. UNCHANGED <<modeFile, switch, previous, files, newOnly>> /\ Up
    BY <1>5 DEF CaptureLedger, CertifyLedger, RevalidateLedger, SaveCursor, EmitEvent,
       switchVars, Up
  <2>. QED  BY <1>1, <2>1
<1>6. CASE WriteFile
  <2>1. UNCHANGED <<modeFile, switch, previous, newOnly>> /\ Up
    BY <1>6 DEF WriteFile, switchVars, Up
  <2>2. Head(todo) # "heartbeat"
    <3>1. todo \in Seq(BundleFile) /\ todo # <<>>
      BY <1>6 DEF IInv, TypeOK, WriteFile
    <3>2. Head(todo) \in BundleFile
      BY <3>1
    <3>. QED  BY <3>2 DEF BundleFile
  <2>3. \A n \in DOMAIN files' :
          n = "heartbeat" => n \in DOMAIN files /\ files'[n] = files[n]
    <3>1. CASE UNCHANGED files
      BY <3>1
    <3>2. CASE WriteJsonAtomic(Head(todo), Envelope(IF Head(todo) = "deals" /\ ~newOnly
                                                    THEN anchor ELSE ledger))
      BY <2>2, <3>2 DEF WriteJsonAtomic
    <3>. QED  BY <1>6, <3>1, <3>2 DEF WriteFile
  <2>. QED  BY <1>0, <2>1, <2>3 DEF SwitchInv
<1>7. CASE Commit
  <2>1. UNCHANGED <<modeFile, switch, previous, newOnly>> /\ Up
    BY <1>7 DEF Commit, switchVars, Up
  <2>2. CASE UNCHANGED files
    BY <1>1, <2>1, <2>2
  <2>3. CASE WriteJsonAtomic("heartbeat", Envelope(ledger))
    <3>1. files'["heartbeat"].mode = ModeOf(newOnly)
      BY <2>3 DEF WriteJsonAtomic, Envelope
    <3>2. ~newOnly => files'["heartbeat"].mode # "new_only"
      BY <3>1 DEF ModeOf
    <3>. QED  BY <1>0, <2>1, <3>2 DEF SwitchInv
  <2>. QED  BY <1>7, <2>2, <2>3 DEF Commit
<1>8. CASE OnDeinit \/ Kill
  <2>1. UNCHANGED <<modeFile, switch, previous, files>> /\ ~Up'
    BY <1>8 DEF OnDeinit, Kill, Forget, switchVars, Up
  <2>. QED  BY <1>1, <2>1
<1>9. ASSUME NEW m \in Mode, Resume(m) PROVE SwitchInv'
  BY <1>9 DEF Resume, SwitchInv
<1>10. CASE BeginSwitch
  <2>1. \A n \in DOMAIN files : files[n].seq \in Int
    <3>1. Range(files) \subseteq Content
      BY DEF IInv, TypeOK
    <3>. QED  BY <3>1 DEF Range, Content
  <2>2. /\ UNCHANGED files /\ modeFile' = "new_only" /\ switch' = "waiting"
        /\ ("heartbeat" \in DOMAIN files => previous' = files["heartbeat"].seq)
    BY <1>10 DEF BeginSwitch
  <2>. QED  BY <2>1, <2>2 DEF SwitchInv
<1>11. CASE SeeSwitch
  <2>1. /\ switch = "waiting" /\ switch' = "done" /\ UNCHANGED <<modeFile, newOnly, pc>>
        /\ "heartbeat" \in DOMAIN files /\ files["heartbeat"].mode = "new_only"
        /\ files["heartbeat"].seq > previous
    BY <1>11 DEF SeeSwitch, eaVars
  <2>2. previous \in Int /\ files["heartbeat"].seq \in Int
    <3>1. Range(files) \subseteq Content /\ previous \in -1..MaxSeq
      BY DEF IInv, TypeOK
    <3>2. files["heartbeat"] \in Content
      BY <2>1, <3>1 DEF Range
    <3>. QED  BY <3>1, <3>2 DEF Content
  <2>. QED  BY <1>0, <2>1, <2>2 DEF SwitchInv, Up
<1>12. CASE SwitchTimeout
  BY <1>0, <1>12 DEF SwitchTimeout, SwitchInv
<1>. QED
  BY <1>2, <1>3, <1>4, <1>5, <1>6, <1>7, <1>8, <1>9, <1>10, <1>11, <1>12 DEF Next, EA

-----------------------------------------------------------------------------
\* IInv holds in every reachable state: the argument behind the results below.
THEOREM Invariance == Spec => []IInv
<1>1. Init => IInv
  BY InitInv
<1>2. IInv /\ [Next]_vars => IInv'
  BY TypeStep, NumberStep, LedgerStep, StreamStep, SwitchStep DEF IInv
<1>. QED  BY <1>1, <1>2, PTL DEF Spec

\* The variables keep their types.
THEOREM TypeCorrect == Spec => []TypeOK
<1>1. IInv => TypeOK
  BY DEF IInv
<1>. QED  BY <1>1, Invariance, PTL

\* In one state of the invariant an accepted read is of one bundle.
LEMMA AcceptedIsOne == IInv => OneBundle
<1>. SUFFICES ASSUME IInv, ~leftover, SameSequence, NEW i \in DOMAIN got, NEW j \in DOMAIN got
              PROVE  got[i].bundle = got[j].bundle
  BY DEF OneBundle, Accepts
<1>1. got[i] \in Seen /\ got[j] \in Seen
  BY DEF Seen, Range
<1>. QED  BY <1>1 DEF IInv, NumberInv, SameSequence

\* snapshot() and the history readers never combine two bundles
\* (mql5_file_adapter.py), whatever is killed and whenever.
THEOREM ReadsOneBundle == Spec => []OneBundle
BY Invariance, AcceptedIsOne, PTL

\* An accepted history read shows one state of the broker's ledger
\* (TradeJournalBridge.mq5 RevalidateHistoryLedgerAnchor).
THEOREM HistoryIsCertified == Spec => []CertifiedLedger
<1>1. IInv => CertifiedLedger
  <2>. SUFFICES ASSUME IInv, ~leftover, Accepts(HistoryPlan), got[1].mode = "history"
                PROVE  got[3].at = got[1].at
    BY DEF CertifiedLedger
  <2>1. plan = HistoryPlan /\ Len(got) = 3 /\ got \in Seq(Content)
    BY DEF Accepts, IInv, TypeOK, HistoryPlan
  <2>2. 1 \in DOMAIN got /\ 2 \in DOMAIN got /\ 3 \in DOMAIN got
    BY <2>1
  <2>3. plan[1] = "deals" /\ plan[2] = "heartbeat" /\ plan[3] = "account"
    BY <2>1 DEF HistoryPlan
  <2>4. got[1] \in SeenAs("deals") /\ got[2] \in SeenAs("heartbeat")
        /\ got[3] \in SeenAs("account")
    BY <2>2, <2>3 DEF SeenAs
  <2>5. got[2].bundle = got[1].bundle /\ got[3].bundle = got[1].bundle
    BY <2>2, AcceptedIsOne DEF OneBundle
  <2>. QED  BY <2>4, <2>5 DEF IInv, LedgerInv
<1>. QED  BY <1>1, Invariance, PTL

\* The number of a committed bundle separates the events published before it
\* from those published after it (real_handlers.py acknowledges by it).
THEOREM AnchorIsABoundary == Spec => []AnchorSeparates
<1>1. IInv => AnchorSeparates
  BY DEF IInv, StreamInv
<1>. QED  BY <1>1, Invariance, PTL

\* switch_to_new_only returns only when the bridge is in live mode
\* (native_mt5_runtime.py).
THEOREM SwitchIsSeen == Spec => []SwitchedMeansLive
<1>1. IInv => SwitchedMeansLive
  BY DEF IInv, SwitchInv, SwitchedMeansLive, Up
<1>. QED  BY <1>1, Invariance, PTL

-----------------------------------------------------------------------------
(* The rotation of the managed expert.                                      *)

\* The job after a step, field by field.
Becomes(step, kind, prev, old, failed, keep) ==
  /\ job'.pc = step /\ job'.job = kind /\ job'.prev = prev /\ job'.pins = old
  /\ job'.failed = failed /\ job'.keep = keep

\* What the forms in which the actions change the job mean.
LEMMA JobForms ==
  ASSUME Expert!TypeOK
  PROVE  /\ \A s \in Expert!Steps : Expert!Goto(s) =>
              Becomes(s, job.job, job.prev, job.pins, job.failed, job.keep)
         /\ Expert!Fails => Becomes("done", job.job, job.prev, job.pins, TRUE, job.keep)
         /\ job' = [job EXCEPT !.pc = "backup", !.prev = target, !.pins = pins] =>
              Becomes("backup", job.job, target, pins, job.failed, job.keep)
         /\ \A s : job' = [job EXCEPT !.failed = TRUE, !.pc = s] =>
              Becomes(s, job.job, job.prev, job.pins, TRUE, job.keep)
         /\ job' = [job EXCEPT !.pc = "clean", !.keep = TRUE] =>
              Becomes("clean", job.job, job.prev, job.pins, job.failed, TRUE)
         /\ \A k, s : job' = [Expert!Idle EXCEPT !.job = k, !.pc = s] =>
              Becomes(s, k, None, Expert!NoPins, FALSE, FALSE)
         /\ \A k : job' = [Expert!Idle EXCEPT !.job = k, !.pc = "done", !.failed = TRUE] =>
              Becomes("done", k, None, Expert!NoPins, TRUE, FALSE)
         /\ job' = [Expert!Idle EXCEPT !.job = job.job, !.keep = job.keep] =>
              Becomes("idle", job.job, None, Expert!NoPins, FALSE, job.keep)
         /\ job' = [Expert!Idle EXCEPT !.job = job.job] =>
              Becomes("idle", job.job, None, Expert!NoPins, FALSE, FALSE)
<1>. USE DEF Expert!TypeOK, Becomes, Expert!Goto, Expert!Fails, Expert!Idle
<1>1. \A s \in Expert!Steps : Expert!Goto(s) =>
            Becomes(s, job.job, job.prev, job.pins, job.failed, job.keep)
  OBVIOUS
<1>2. Expert!Fails => Becomes("done", job.job, job.prev, job.pins, TRUE, job.keep)
  OBVIOUS
<1>3. job' = [job EXCEPT !.pc = "backup", !.prev = target, !.pins = pins] =>
            Becomes("backup", job.job, target, pins, job.failed, job.keep)
  OBVIOUS
<1>4. \A s : job' = [job EXCEPT !.failed = TRUE, !.pc = s] =>
            Becomes(s, job.job, job.prev, job.pins, TRUE, job.keep)
  OBVIOUS
<1>5. job' = [job EXCEPT !.pc = "clean", !.keep = TRUE] =>
            Becomes("clean", job.job, job.prev, job.pins, job.failed, TRUE)
  OBVIOUS
<1>6. \A k, s : job' = [Expert!Idle EXCEPT !.job = k, !.pc = s] =>
            Becomes(s, k, None, Expert!NoPins, FALSE, FALSE)
  OBVIOUS
<1>7. \A k : job' = [Expert!Idle EXCEPT !.job = k, !.pc = "done", !.failed = TRUE] =>
            Becomes("done", k, None, Expert!NoPins, TRUE, FALSE)
  OBVIOUS
<1>8. job' = [Expert!Idle EXCEPT !.job = job.job, !.keep = job.keep] =>
            Becomes("idle", job.job, None, Expert!NoPins, FALSE, job.keep)
  OBVIOUS
<1>9. job' = [Expert!Idle EXCEPT !.job = job.job] =>
            Becomes("idle", job.job, None, Expert!NoPins, FALSE, FALSE)
  OBVIOUS
<1>. QED  BY <1>1, <1>2, <1>3, <1>4, <1>5, <1>6, <1>7, <1>8, <1>9

\* What the job remembers (ManagedExpert TypeOK).
Jobs == [pc : Expert!Steps, job : {None, "sync", "provision"}, prev : Releases \cup {None},
         pins : [code : Releases \cup {None}, assets : Releases \cup {None}],
         failed : BOOLEAN, keep : BOOLEAN]

\* The forms in which the actions change the job keep its type.
LEMMA JobTypes ==
  ASSUME Expert!TypeOK
  PROVE  /\ \A s \in Expert!Steps : Expert!Goto(s) => job' \in Jobs
         /\ Expert!Fails => job' \in Jobs
         /\ job' = [job EXCEPT !.pc = "backup", !.prev = target, !.pins = pins]
                => job' \in Jobs
         /\ \A s \in Expert!Steps :
                job' = [job EXCEPT !.failed = TRUE, !.pc = s] => job' \in Jobs
         /\ job' = [job EXCEPT !.pc = "clean", !.keep = TRUE] => job' \in Jobs
         /\ \A k \in {"sync", "provision"}, s \in Expert!Steps :
                job' = [Expert!Idle EXCEPT !.job = k, !.pc = s] => job' \in Jobs
         /\ \A k \in {"sync", "provision"} :
                job' = [Expert!Idle EXCEPT !.job = k, !.pc = "done", !.failed = TRUE]
                  => job' \in Jobs
         /\ job' = [Expert!Idle EXCEPT !.job = job.job, !.keep = job.keep]
                => job' \in Jobs
         /\ job' = [Expert!Idle EXCEPT !.job = job.job] => job' \in Jobs
<1>0. /\ job \in Jobs /\ target \in Releases
      /\ pins \in [code : Releases, assets : Releases \cup {None}]
  BY DEF Expert!TypeOK, Jobs
<1>10. Expert!Idle \in Jobs
  BY DEF Jobs, Expert!Steps, Expert!Idle, Expert!NoPins
<1>11. job.job \in {None, "sync", "provision"} /\ job.keep \in BOOLEAN
  BY <1>0 DEF Jobs
<1>12. {"idle", "backup", "clean", "done"} \subseteq Expert!Steps
  BY DEF Expert!Steps
<1>1. \A s \in Expert!Steps : Expert!Goto(s) => job' \in Jobs
  BY <1>0, <1>12 DEF Jobs, Expert!Goto, Expert!Fails
<1>2. Expert!Fails => job' \in Jobs
  BY <1>0, <1>12 DEF Jobs, Expert!Goto, Expert!Fails
<1>3. job' = [job EXCEPT !.pc = "backup", !.prev = target, !.pins = pins]
         => job' \in Jobs
  BY <1>0, <1>12 DEF Jobs, Expert!Goto, Expert!Fails
<1>4. \A s \in Expert!Steps :
         job' = [job EXCEPT !.failed = TRUE, !.pc = s] => job' \in Jobs
  BY <1>0, <1>12 DEF Jobs, Expert!Goto, Expert!Fails
<1>5. job' = [job EXCEPT !.pc = "clean", !.keep = TRUE] => job' \in Jobs
  BY <1>0, <1>12 DEF Jobs, Expert!Goto, Expert!Fails
<1>6. \A k \in {"sync", "provision"}, s \in Expert!Steps :
         job' = [Expert!Idle EXCEPT !.job = k, !.pc = s] => job' \in Jobs
  BY <1>10, <1>11, <1>12 DEF Jobs
<1>7. \A k \in {"sync", "provision"} :
         job' = [Expert!Idle EXCEPT !.job = k, !.pc = "done", !.failed = TRUE]
           => job' \in Jobs
  <2>1. ASSUME NEW k \in {"sync", "provision"}
        PROVE  [Expert!Idle EXCEPT !.job = k, !.pc = "done", !.failed = TRUE] \in Jobs
    BY <1>10, <1>12 DEF Jobs
  <2>. QED  BY <2>1, Zenon
<1>8. job' = [Expert!Idle EXCEPT !.job = job.job, !.keep = job.keep]
         => job' \in Jobs
  BY <1>10, <1>11, <1>12 DEF Jobs
<1>9. job' = [Expert!Idle EXCEPT !.job = job.job] => job' \in Jobs
  BY <1>10, <1>11, <1>12 DEF Jobs
<1>. QED  BY <1>1, <1>2, <1>3, <1>4, <1>5, <1>6, <1>7, <1>8, <1>9

\* A fault is counted.
LEMMA FaultCounts ==
  ASSUME Expert!TypeOK
  PROVE  /\ Expert!Fault => /\ faults' > 0 /\ (faults > 0 => faults' > 1)
                            /\ (faults > 1 => faults' > 1) /\ (faults' <= 1 => faults <= 1)
         /\ (faults <= 1 <=> ~(faults > 1)) /\ (faults' \in Nat => (faults' <= 1 <=> ~(faults' > 1)))
<1>1. faults \in Nat
  BY DEF Expert!TypeOK
<1>. QED  BY <1>1 DEF Expert!Fault

\* The forms in which Sync changes the job.
LEMMA SyncChoice ==
  ASSUME Expert!Sync
  PROVE  \/ job' = [Expert!Idle EXCEPT !.job = "sync", !.pc = "done", !.failed = TRUE]
         \/ \E s \in Expert!Steps : job' = [Expert!Idle EXCEPT !.job = "sync", !.pc = s]
<1>1. CASE ~Expert!Sealed /\ ~(pins.assets = None /\ loaded # None)
  BY <1>1 DEF Expert!Sync
<1>2. CASE ~(~Expert!Sealed /\ ~(pins.assets = None /\ loaded # None))
  <2>1. PICK mode \in BOOLEAN :
          job' = [Expert!Idle EXCEPT !.job = "sync",
                    !.pc = IF Expert!Stale \/ mode THEN Expert!Restart
                           ELSE IF loaded = None THEN "install" ELSE "done"]
    BY <1>2 DEF Expert!Sync
  <2>. DEFINE s == IF Expert!Stale \/ mode THEN Expert!Restart
                   ELSE IF loaded = None THEN "install" ELSE "done"
  <2>2. s \in Expert!Steps
    BY DEF Expert!Steps, Expert!Restart
  <2>3. job' = [Expert!Idle EXCEPT !.job = "sync", !.pc = s]
    BY <2>1
  <2>. HIDE DEF s
  <2>. QED  BY <2>2, <2>3
<1>. QED  BY <1>1, <1>2

\* A sync job looks at the sealed expert and at its terminal.
LEMMA SyncForms ==
  ASSUME Expert!TypeOK, Expert!Sync
  PROVE  /\ job.pc = "idle" /\ jobs' = jobs + 1 /\ jobs < MaxJobs
         /\ UNCHANGED <<release, target, upgrade, rollback, loaded, good, upgrades, faults>>
         /\ \/ Becomes("done", "sync", None, Expert!NoPins, TRUE, FALSE) /\ pins' = pins
            \/ /\ pins' = [pins EXCEPT !.assets = target] /\ pins'.assets = target
               /\ \/ Becomes("stop", "sync", None, Expert!NoPins, FALSE, FALSE)
                  \/ /\ Becomes("rotate", "sync", None, Expert!NoPins, FALSE, FALSE)
                     /\ loaded = None
                  \/ /\ Becomes("install", "sync", None, Expert!NoPins, FALSE, FALSE)
                     /\ loaded = None /\ target = release
                  \/ /\ Becomes("done", "sync", None, Expert!NoPins, FALSE, FALSE)
                     /\ loaded # None /\ target = release
<1>1. ASSUME ~(~Expert!Sealed /\ ~(pins.assets = None /\ loaded # None))
      PROVE  \E otherMode \in BOOLEAN :
               job' = [Expert!Idle EXCEPT !.job = "sync",
                         !.pc = IF Expert!Stale \/ otherMode THEN Expert!Restart
                                ELSE IF loaded = None THEN "install" ELSE "done"]
  BY <1>1 DEF Expert!Sync
<1>2. CASE ~Expert!Sealed /\ ~(pins.assets = None /\ loaded # None)
  <2>1. job' = [Expert!Idle EXCEPT !.job = "sync", !.pc = "done", !.failed = TRUE]
    BY <1>2 DEF Expert!Sync
  <2>. QED  BY <1>2, <2>1, JobForms DEF Expert!Sync, Expert!At
<1>3. CASE ~(~Expert!Sealed /\ ~(pins.assets = None /\ loaded # None))
  <2>1. PICK s : /\ job' = [Expert!Idle EXCEPT !.job = "sync", !.pc = s]
                 /\ \/ s = "stop"
                    \/ s = "rotate" /\ loaded = None
                    \/ s = "install" /\ loaded = None /\ target = release
                    \/ s = "done" /\ loaded # None /\ target = release
    <3>1. PICK mode \in BOOLEAN :
            job' = [Expert!Idle EXCEPT !.job = "sync",
                      !.pc = IF Expert!Stale \/ mode THEN Expert!Restart
                             ELSE IF loaded = None THEN "install" ELSE "done"]
      BY <1>1, <1>3
    <3>. DEFINE next == IF Expert!Stale \/ mode THEN Expert!Restart
                        ELSE IF loaded = None THEN "install" ELSE "done"
    <3>2. \/ next = "stop"
          \/ next = "rotate" /\ loaded = None
          \/ next = "install" /\ loaded = None /\ target = release
          \/ next = "done" /\ loaded # None /\ target = release
      <4>1. \/ Expert!Restart = "stop"
            \/ Expert!Restart = "rotate" /\ loaded = None
            \/ Expert!Restart = "install" /\ loaded = None /\ ~Expert!Stale
        <5>1. loaded # None => Expert!Restart = "stop"
          BY DEF Expert!Restart
        <5>2. loaded = None /\ Expert!Stale => Expert!Restart = "rotate"
          BY DEF Expert!Restart
        <5>3. loaded = None /\ ~Expert!Stale => Expert!Restart = "install"
          BY DEF Expert!Restart
        <5>. QED  BY <5>1, <5>2, <5>3
      <4>2. CASE Expert!Stale \/ mode
        BY <4>1, <4>2 DEF Expert!Stale
      <4>3. CASE ~(Expert!Stale \/ mode)
        BY <4>3 DEF Expert!Stale
      <4>. QED  BY <4>2, <4>3
    <3>3. job' = [Expert!Idle EXCEPT !.job = "sync", !.pc = next]
      BY <3>1
    <3>. HIDE DEF next
    <3>. QED  BY <3>2, <3>3
  <2>2. Becomes(s, "sync", None, Expert!NoPins, FALSE, FALSE)
    BY <2>1, JobForms
  <2>3. pins' = [pins EXCEPT !.assets = target] /\ pins'.assets = target
    BY <1>3 DEF Expert!Sync, Expert!TypeOK
  <2>. QED  BY <2>1, <2>2, <2>3 DEF Expert!Sync, Expert!At
<1>. QED  BY <1>2, <1>3

\* A rotation starts from a sealed expert without leftovers.
LEMMA RotateForms ==
  ASSUME Expert!TypeOK, Expert!Rotate
  PROVE  /\ job.pc = "rotate" /\ UNCHANGED <<release, target, upgrade, rollback, pins, loaded,
                                           good, jobs, upgrades, faults>>
         /\ \/ Becomes("done", job.job, job.prev, job.pins, TRUE, job.keep)
            \/ /\ Becomes("backup", job.job, target, pins, job.failed, job.keep)
               /\ rollback = None /\ good # None /\ target # None /\ pins.code # None
BY JobForms, TerminalAssumption DEF Expert!TypeOK, TerminalAssumption, Expert!ExpertAssumption,
   Expert!Rotate, Expert!At, Expert!files, Expert!bounds

\* A re-provision stops the terminal of an instance whose manifest it accepts.
LEMMA ReprovisionForms ==
  ASSUME Expert!TypeOK, Expert!Reprovision
  PROVE  /\ job.pc = "idle" /\ jobs' = jobs + 1 /\ jobs < MaxJobs
         /\ UNCHANGED <<release, target, upgrade, rollback, pins, good, upgrades, faults>>
         /\ \/ /\ Becomes("done", "provision", None, Expert!NoPins, TRUE, FALSE)
               /\ loaded' = loaded
            \/ /\ Becomes("install", "provision", None, Expert!NoPins, FALSE, FALSE)
               /\ loaded' = None
BY JobForms DEF Expert!Reprovision, Expert!At, Expert!files

\* A terminal stands still while its expert is replaced (_ensure_current_managed_expert).
LEMMA JobStep ==
  ASSUME Expert!IInv, Expert!TypeOK', [Expert!Next]_Expert!vars
  PROVE  Expert!JobInv'
<1>. USE TerminalAssumption DEF
     TerminalAssumption, Expert!ExpertAssumption, Expert!IInv, Becomes,
     Expert!Steps, Expert!NoPins, Expert!JobInv, Expert!TypeOK, Expert!Rotating,
     Expert!Offline, Expert!Restart, Expert!At, Expert!Fault, Expert!bounds,
     Expert!files
<1>1. CASE Expert!Sync
  BY <1>1, SyncForms
<1>2. CASE Expert!Stop
  BY <1>2, JobForms DEF Expert!Stop
<1>3. CASE Expert!Rotate
  BY <1>3, RotateForms
<1>4. CASE Expert!Backup
  BY <1>4, JobForms DEF Expert!Backup
<1>5. CASE Expert!Stage
  BY <1>5, JobForms DEF Expert!Stage
<1>6. CASE Expert!Replace
  BY <1>6, JobForms DEF Expert!Replace
<1>7. CASE Expert!Reseal
  BY <1>7, JobForms DEF Expert!Reseal
<1>8. CASE Expert!Verify
  BY <1>8, JobForms DEF Expert!Verify
<1>9. CASE Expert!Judge
  BY <1>9, JobForms DEF Expert!Judge
<1>10. CASE Expert!Undo
  BY <1>10, JobForms DEF Expert!Undo
<1>11. CASE Expert!Unseal
  BY <1>11, JobForms DEF Expert!Unseal
<1>12. CASE Expert!Clean
  BY <1>12, JobForms DEF Expert!Clean
<1>13. CASE Expert!Drop
  BY <1>13, JobForms DEF Expert!Drop
<1>14. CASE Expert!Reprovision
  BY <1>14, ReprovisionForms
<1>15. CASE Expert!Install
  BY <1>15, JobForms DEF Expert!Install
<1>16. CASE Expert!Launch
  BY <1>16, JobForms DEF Expert!Launch
<1>17. CASE Expert!Seal
  BY <1>17, JobForms DEF Expert!Seal
<1>18. CASE Expert!End
  BY <1>18, JobForms DEF Expert!End
<1>19. CASE Expert!TerminalDies
  BY <1>19, JobForms DEF Expert!TerminalDies
<1>20. CASE Expert!Crash
  BY <1>20, JobForms DEF Expert!Crash
<1>21. CASE Expert!Upgrade
  BY <1>21, JobForms DEF Expert!Upgrade
<1>22. CASE UNCHANGED Expert!vars
  BY <1>22 DEF Expert!vars
<1>. QED
  BY <1>1, <1>2, <1>3, <1>4, <1>5, <1>6, <1>7, <1>8, <1>9, <1>10, <1>11, <1>12, <1>13,
     <1>14, <1>15, <1>16, <1>17, <1>18, <1>19, <1>20, <1>21, <1>22 DEF Expert!Next,
     Expert!Rotation

\* The rollback copy is the expert known to be sound (rotate_managed_expert).
LEMMA CopyStep ==
  ASSUME Expert!IInv, Expert!TypeOK', [Expert!Next]_Expert!vars
  PROVE  Expert!CopyInv'
<1>. USE TerminalAssumption DEF
     TerminalAssumption, Expert!ExpertAssumption, Expert!IInv, Becomes,
     Expert!Steps, Expert!NoPins, Expert!JobInv, Expert!CopyInv, Expert!TypeOK,
     Expert!Rotating, Expert!Restart, Expert!Recoverable, Expert!At, Expert!Fault,
     Expert!bounds, Expert!files
<1>1. CASE Expert!Sync
  BY <1>1, SyncForms
<1>2. CASE Expert!Stop
  BY <1>2, JobForms DEF Expert!Stop
<1>3. CASE Expert!Rotate
  BY <1>3, RotateForms
<1>4. CASE Expert!Backup
  BY <1>4, JobForms DEF Expert!Backup
<1>5. CASE Expert!Stage
  BY <1>5, JobForms DEF Expert!Stage
<1>6. CASE Expert!Replace
  BY <1>6, JobForms DEF Expert!Replace
<1>7. CASE Expert!Reseal
  BY <1>7, JobForms DEF Expert!Reseal
<1>8. CASE Expert!Verify
  BY <1>8, JobForms DEF Expert!Verify
<1>9. CASE Expert!Judge
  BY <1>9, JobForms DEF Expert!Judge
<1>10. CASE Expert!Undo
  BY <1>10, JobForms DEF Expert!Undo
<1>11. CASE Expert!Unseal
  BY <1>11, JobForms DEF Expert!Unseal
<1>12. CASE Expert!Clean
  BY <1>12, JobForms DEF Expert!Clean
<1>13. CASE Expert!Drop
  BY <1>13, JobForms DEF Expert!Drop
<1>14. CASE Expert!Reprovision
  BY <1>14, ReprovisionForms
<1>15. CASE Expert!Install
  BY <1>15, JobForms DEF Expert!Install
<1>16. CASE Expert!Launch
  BY <1>16, JobForms DEF Expert!Launch
<1>17. CASE Expert!Seal
  BY <1>17, JobForms DEF Expert!Seal
<1>18. CASE Expert!End
  BY <1>18, JobForms DEF Expert!End
<1>19. CASE Expert!TerminalDies
  BY <1>19, JobForms DEF Expert!TerminalDies
<1>20. CASE Expert!Crash
  BY <1>20, JobForms DEF Expert!Crash
<1>21. CASE Expert!Upgrade
  BY <1>21, JobForms DEF Expert!Upgrade
<1>22. CASE UNCHANGED Expert!vars
  BY <1>22 DEF Expert!vars
<1>. QED
  BY <1>1, <1>2, <1>3, <1>4, <1>5, <1>6, <1>7, <1>8, <1>9, <1>10, <1>11, <1>12, <1>13,
     <1>14, <1>15, <1>16, <1>17, <1>18, <1>19, <1>20, <1>21, <1>22 DEF Expert!Next,
     Expert!Rotation

\* The except clause puts expert and pins back.
LEMMA UndoStep ==
  ASSUME Expert!IInv, Expert!TypeOK', [Expert!Next]_Expert!vars
  PROVE  Expert!UndoInv'
<1>. USE TerminalAssumption DEF
     TerminalAssumption, Expert!ExpertAssumption, Expert!IInv, Becomes,
     Expert!Steps, Expert!NoPins, Expert!CopyInv, Expert!UndoInv, Expert!SealInv,
     Expert!Restored, Expert!Current, Expert!Sealed, Expert!Rotating, Expert!At,
     Expert!bounds, Expert!files
<1>0. faults' \in Nat
  BY DEF Expert!TypeOK
<1>1. CASE Expert!Sync
  BY <1>1, <1>0, SyncForms
<1>2. CASE Expert!Stop
  BY <1>2, <1>0, FaultCounts, JobForms DEF Expert!Stop
<1>3. CASE Expert!Rotate
  BY <1>3, <1>0, RotateForms
<1>4. CASE Expert!Backup
  BY <1>4, <1>0, FaultCounts, JobForms DEF Expert!Backup
<1>5. CASE Expert!Stage
  BY <1>5, <1>0, FaultCounts, JobForms DEF Expert!Stage
<1>6. CASE Expert!Replace
  BY <1>6, <1>0, FaultCounts, JobForms DEF Expert!Replace
<1>7. CASE Expert!Reseal
  BY <1>7, <1>0, FaultCounts, JobForms DEF Expert!Reseal
<1>8. CASE Expert!Verify
  BY <1>8, <1>0, FaultCounts, JobForms DEF Expert!Verify
<1>9. CASE Expert!Judge
  <2>1. CASE target = job.prev
    <3>1. Becomes("clean", job.job, job.prev, job.pins, TRUE, job.keep)
      BY <1>9, <2>1, JobForms DEF Expert!Judge
    <3>. QED  BY <1>9, <2>1, <3>1 DEF Expert!Judge
  <2>2. CASE target # job.prev
    <3>1. Becomes("undo", job.job, job.prev, job.pins, TRUE, job.keep)
      BY <1>9, <2>2, JobForms DEF Expert!Judge
    <3>. QED  BY <1>9, <2>2, <3>1 DEF Expert!Judge
  <2>. QED  BY <2>1, <2>2
<1>10. CASE Expert!Undo
  BY <1>10, <1>0, FaultCounts, JobForms DEF Expert!Undo
<1>11. CASE Expert!Unseal
  BY <1>11, <1>0, FaultCounts, JobForms DEF Expert!Unseal
<1>12. CASE Expert!Clean
  BY <1>12, <1>0, FaultCounts, JobForms DEF Expert!Clean
<1>13. CASE Expert!Drop
  BY <1>13, <1>0, FaultCounts, JobForms DEF Expert!Drop
<1>14. CASE Expert!Reprovision
  BY <1>14, <1>0, ReprovisionForms
<1>15. CASE Expert!Install
  BY <1>15, <1>0, FaultCounts, JobForms DEF Expert!Install
<1>16. CASE Expert!Launch
  BY <1>16, <1>0, FaultCounts, JobForms DEF Expert!Launch
<1>17. CASE Expert!Seal
  BY <1>17, <1>0, FaultCounts, JobForms DEF Expert!Seal
<1>18. CASE Expert!End
  BY <1>18, <1>0, FaultCounts, JobForms DEF Expert!End
<1>19. CASE Expert!TerminalDies
  BY <1>19, <1>0, FaultCounts, JobForms DEF Expert!TerminalDies
<1>20. CASE Expert!Crash
  BY <1>20, <1>0, FaultCounts, JobForms DEF Expert!Crash
<1>21. CASE Expert!Upgrade
  BY <1>21, <1>0, FaultCounts, JobForms DEF Expert!Upgrade
<1>22. CASE UNCHANGED Expert!vars
  BY <1>22 DEF Expert!vars
<1>. QED
  BY <1>1, <1>2, <1>3, <1>4, <1>5, <1>6, <1>7, <1>8, <1>9, <1>10, <1>11, <1>12, <1>13,
     <1>14, <1>15, <1>16, <1>17, <1>18, <1>19, <1>20, <1>21, <1>22 DEF Expert!Next,
     Expert!Rotation

\* A job goes on to the start of the terminal with a sealed expert.
LEMMA SealStep ==
  ASSUME Expert!IInv, Expert!TypeOK', [Expert!Next]_Expert!vars
  PROVE  Expert!SealInv'
<1>. USE TerminalAssumption DEF
     TerminalAssumption, Expert!ExpertAssumption, Expert!IInv, Becomes,
     Expert!Steps, Expert!NoPins, Expert!JobInv, Expert!SealInv, Expert!UndoInv,
     Expert!Current, Expert!Sealed, Expert!Stale, Expert!TypeOK, Expert!Rotating,
     Expert!Restart, Expert!At, Expert!Fault, Expert!bounds, Expert!files
<1>1. CASE Expert!Sync
  BY <1>1, SyncForms
<1>2. CASE Expert!Stop
  BY <1>2, JobForms DEF Expert!Stop
<1>3. CASE Expert!Rotate
  BY <1>3, RotateForms
<1>4. CASE Expert!Backup
  BY <1>4, JobForms DEF Expert!Backup
<1>5. CASE Expert!Stage
  BY <1>5, JobForms DEF Expert!Stage
<1>6. CASE Expert!Replace
  BY <1>6, JobForms DEF Expert!Replace
<1>7. CASE Expert!Reseal
  <2>1. CASE Expert!Goto("verify") /\ pins' = [code |-> target, assets |-> target]
    <3>1. pins'.assets = target /\ job'.pc = "verify"
      BY <2>1, JobForms
    <3>. QED  BY <1>7, <3>1 DEF Expert!Reseal
  <2>2. CASE Expert!Goto("judge")
    BY <2>2, JobForms
  <2>. QED  BY <1>7, <2>1, <2>2 DEF Expert!Reseal
<1>8. CASE Expert!Verify
  BY <1>8, JobForms DEF Expert!Verify
<1>9. CASE Expert!Judge
  BY <1>9, JobForms DEF Expert!Judge
<1>10. CASE Expert!Undo
  BY <1>10, JobForms DEF Expert!Undo
<1>11. CASE Expert!Unseal
  BY <1>11, JobForms DEF Expert!Unseal
<1>12. CASE Expert!Clean
  BY <1>12, JobForms DEF Expert!Clean
<1>13. CASE Expert!Drop
  BY <1>13, JobForms DEF Expert!Drop
<1>14. CASE Expert!Reprovision
  BY <1>14, ReprovisionForms
<1>15. CASE Expert!Install
  <2>1. CASE target' = release /\ Expert!Goto("launch")
    <3>1. /\ job.pc = "install" /\ UNCHANGED <<release, pins>>
          /\ job'.pc = "launch" /\ job'.job = job.job
      BY <1>15, <2>1, JobForms DEF Expert!Install
    <3>. QED  BY <2>1, <3>1
  <2>2. CASE Expert!Fails
    BY <2>2, JobForms
  <2>. QED  BY <1>15, <2>1, <2>2 DEF Expert!Install
<1>16. CASE Expert!Launch
  BY <1>16, JobForms DEF Expert!Launch
<1>17. CASE Expert!Seal
  BY <1>17, JobForms DEF Expert!Seal
<1>18. CASE Expert!End
  BY <1>18, JobForms DEF Expert!End
<1>19. CASE Expert!TerminalDies
  BY <1>19, JobForms DEF Expert!TerminalDies
<1>20. CASE Expert!Crash
  BY <1>20, JobForms DEF Expert!Crash
<1>21. CASE Expert!Upgrade
  BY <1>21, JobForms DEF Expert!Upgrade
<1>22. CASE UNCHANGED Expert!vars
  BY <1>22 DEF Expert!vars
<1>. QED
  BY <1>1, <1>2, <1>3, <1>4, <1>5, <1>6, <1>7, <1>8, <1>9, <1>10, <1>11, <1>12, <1>13,
     <1>14, <1>15, <1>16, <1>17, <1>18, <1>19, <1>20, <1>21, <1>22 DEF Expert!Next,
     Expert!Rotation

\* What the properties say survives every step.
LEMMA PromiseStep ==
  ASSUME Expert!IInv, Expert!TypeOK', [Expert!Next]_Expert!vars
  PROVE  (Expert!Recoverable /\ Expert!RunsWhatIsInstalled
            /\ Expert!ReportedIsCurrent /\ Expert!FailureRestores)'
<1>. USE TerminalAssumption DEF
     TerminalAssumption, Expert!ExpertAssumption, Expert!IInv, Becomes,
     Expert!Steps, Expert!NoPins, Expert!JobInv, Expert!CopyInv, Expert!UndoInv,
     Expert!SealInv, Expert!Restored, Expert!Current, Expert!Sealed, Expert!Stale,
     Expert!TypeOK, Expert!Rotating, Expert!Offline, Expert!Restart,
     Expert!Recoverable, Expert!RunsWhatIsInstalled, Expert!ReportedIsCurrent,
     Expert!FailureRestores, Expert!At, Expert!bounds, Expert!files
<1>0. faults' \in Nat
  BY DEF Expert!TypeOK
<1>1. CASE Expert!Sync
  <2>1. Expert!Recoverable' /\ Expert!RunsWhatIsInstalled' /\ Expert!FailureRestores'
    BY <1>1, SyncForms
  <2>2. Expert!ReportedIsCurrent'
    BY <1>1, SyncForms
  <2>. QED  BY <2>1, <2>2
<1>2. CASE Expert!Stop
  BY <1>2, <1>0, FaultCounts, JobForms DEF Expert!Stop
<1>3. CASE Expert!Rotate
  BY <1>3, <1>0, RotateForms
<1>4. CASE Expert!Backup
  BY <1>4, <1>0, FaultCounts, JobForms DEF Expert!Backup
<1>5. CASE Expert!Stage
  BY <1>5, <1>0, FaultCounts, JobForms DEF Expert!Stage
<1>6. CASE Expert!Replace
  BY <1>6, <1>0, FaultCounts, JobForms DEF Expert!Replace
<1>7. CASE Expert!Reseal
  BY <1>7, <1>0, FaultCounts, JobForms DEF Expert!Reseal
<1>8. CASE Expert!Verify
  BY <1>8, <1>0, FaultCounts, JobForms DEF Expert!Verify
<1>9. CASE Expert!Judge
  BY <1>9, <1>0, FaultCounts, JobForms DEF Expert!Judge
<1>10. CASE Expert!Undo
  <2>1. job'.pc # "done" /\ UNCHANGED <<loaded, good>> /\ job.pc = "undo"
    BY <1>10, JobForms DEF Expert!Undo
  <2>2. \/ target' = rollback
        \/ target' = target /\ rollback' = rollback
    BY <1>10 DEF Expert!Undo
  <2>. QED  BY <2>1, <2>2
<1>11. CASE Expert!Unseal
  BY <1>11, <1>0, FaultCounts, JobForms DEF Expert!Unseal
<1>12. CASE Expert!Clean
  BY <1>12, <1>0, FaultCounts, JobForms DEF Expert!Clean
<1>13. CASE Expert!Drop
  BY <1>13, <1>0, FaultCounts, JobForms DEF Expert!Drop
<1>14. CASE Expert!Reprovision
  BY <1>14, <1>0, ReprovisionForms
<1>15. CASE Expert!Install
  BY <1>15, <1>0, FaultCounts, JobForms DEF Expert!Install
<1>16. CASE Expert!Launch
  BY <1>16, <1>0, FaultCounts, JobForms DEF Expert!Launch
<1>17. CASE Expert!Seal
  BY <1>17, <1>0, FaultCounts, JobForms DEF Expert!Seal
<1>18. CASE Expert!End
  BY <1>18, <1>0, FaultCounts, JobForms DEF Expert!End
<1>19. CASE Expert!TerminalDies
  BY <1>19, <1>0, FaultCounts, JobForms DEF Expert!TerminalDies
<1>20. CASE Expert!Crash
  BY <1>20, <1>0, FaultCounts, JobForms DEF Expert!Crash
<1>21. CASE Expert!Upgrade
  BY <1>21, <1>0, FaultCounts, JobForms DEF Expert!Upgrade
<1>22. CASE UNCHANGED Expert!vars
  BY <1>22 DEF Expert!vars
<1>. QED
  BY <1>1, <1>2, <1>3, <1>4, <1>5, <1>6, <1>7, <1>8, <1>9, <1>10, <1>11, <1>12, <1>13,
     <1>14, <1>15, <1>16, <1>17, <1>18, <1>19, <1>20, <1>21, <1>22 DEF Expert!Next,
     Expert!Rotation

\* The types of files, pins and job (ManagedExpert TypeOK).
LEMMA ExpertTypeStep ==
  ASSUME Expert!TypeOK, Expert!JobInv, Expert!CopyInv, [Expert!Next]_Expert!vars
  PROVE  Expert!TypeOK'
<1>. USE TerminalAssumption DEF TerminalAssumption, Expert!ExpertAssumption
<1>1. job' \in Jobs
  <2>. USE DEF Expert!Steps
  <2>0. job \in Jobs
    BY DEF Expert!TypeOK, Jobs
  <2>1. CASE Expert!Sync
    <3>1. CASE \E s \in Expert!Steps : job' = [Expert!Idle EXCEPT !.job = "sync", !.pc = s]
      BY <3>1, JobTypes
    <3>2. CASE job' = [Expert!Idle EXCEPT !.job = "sync", !.pc = "done", !.failed = TRUE]
      BY <3>2, JobTypes
    <3>. QED  BY <2>1, <3>1, <3>2, SyncChoice
  <2>2. CASE Expert!Stop
    BY <2>2, JobTypes, <2>0 DEF Expert!Stop
  <2>3. CASE Expert!Rotate
    BY <2>3, JobTypes, <2>0 DEF Expert!Rotate
  <2>4. CASE Expert!Backup
    BY <2>4, JobTypes, <2>0 DEF Expert!Backup
  <2>5. CASE Expert!Stage
    BY <2>5, JobTypes, <2>0 DEF Expert!Stage
  <2>6. CASE Expert!Replace
    BY <2>6, JobTypes, <2>0 DEF Expert!Replace
  <2>7. CASE Expert!Reseal
    BY <2>7, JobTypes, <2>0 DEF Expert!Reseal
  <2>8. CASE Expert!Verify
    BY <2>8, JobTypes, <2>0 DEF Expert!Verify
  <2>9. CASE Expert!Judge
    BY <2>9, JobTypes, <2>0 DEF Expert!Judge
  <2>10. CASE Expert!Undo
    BY <2>10, JobTypes, <2>0 DEF Expert!Undo
  <2>11. CASE Expert!Unseal
    BY <2>11, JobTypes, <2>0 DEF Expert!Unseal
  <2>12. CASE Expert!Clean
    BY <2>12, JobTypes, <2>0 DEF Expert!Clean
  <2>13. CASE Expert!Drop
    BY <2>13, JobTypes, <2>0 DEF Expert!Drop
  <2>14. CASE Expert!Reprovision
    BY <2>14, JobTypes, <2>0 DEF Expert!Reprovision
  <2>15. CASE Expert!Install
    BY <2>15, JobTypes, <2>0 DEF Expert!Install
  <2>16. CASE Expert!Launch
    BY <2>16, JobTypes, <2>0 DEF Expert!Launch
  <2>17. CASE Expert!Seal
    BY <2>17, JobTypes, <2>0 DEF Expert!Seal
  <2>18. CASE Expert!End
    BY <2>18, JobTypes, <2>0 DEF Expert!End
  <2>19. CASE Expert!TerminalDies
    BY <2>19, JobTypes, <2>0 DEF Expert!TerminalDies
  <2>20. CASE Expert!Crash
    BY <2>20, JobTypes, <2>0 DEF Expert!Crash
  <2>21. CASE Expert!Upgrade
    BY <2>21, JobTypes, <2>0 DEF Expert!Upgrade
  <2>22. CASE UNCHANGED Expert!vars
    BY <2>0, <2>22 DEF Expert!vars
  <2>. QED
    BY <2>1, <2>2, <2>3, <2>4, <2>5, <2>6, <2>7, <2>8, <2>9, <2>10, <2>11, <2>12,
       <2>13, <2>14, <2>15, <2>16, <2>17, <2>18, <2>19, <2>20, <2>21, <2>22 DEF
       Expert!Next, Expert!Rotation
<1>2. pins' \in [code : Releases, assets : Releases \cup {None}]
  <2>0. pins \in [code : Releases, assets : Releases \cup {None}] /\ target \in Releases
    BY DEF Expert!TypeOK
  <2>1. CASE Expert!Sync
    BY <2>1, <2>0 DEF Expert!Sync, Expert!files
  <2>2. CASE Expert!Stop
    BY <2>2, <2>0 DEF Expert!Stop, Expert!files
  <2>3. CASE Expert!Rotate
    BY <2>3, <2>0 DEF Expert!Rotate, Expert!files
  <2>4. CASE Expert!Backup
    BY <2>4, <2>0 DEF Expert!Backup, Expert!files
  <2>5. CASE Expert!Stage
    BY <2>5, <2>0 DEF Expert!Stage, Expert!files
  <2>6. CASE Expert!Replace
    BY <2>6, <2>0 DEF Expert!Replace, Expert!files, Expert!CopyInv, Expert!At
  <2>7. CASE Expert!Reseal
    BY <2>7, <2>0 DEF Expert!Reseal, Expert!files
  <2>8. CASE Expert!Verify
    BY <2>8, <2>0 DEF Expert!Verify, Expert!files
  <2>9. CASE Expert!Judge
    BY <2>9, <2>0 DEF Expert!Judge, Expert!files
  <2>10. CASE Expert!Undo
    <3>1. rollback \in Releases
      BY <2>10 DEF Expert!TypeOK, Expert!JobInv, Expert!CopyInv, Expert!Rotating,
         Expert!Undo, Expert!At
    <3>. QED  BY <2>10, <2>0, <3>1 DEF Expert!Undo, Expert!files
  <2>11. CASE Expert!Unseal
    <3>1. job.pins \in [code : Releases, assets : Releases \cup {None}]
      BY <2>11 DEF Expert!TypeOK, Expert!JobInv, Expert!Rotating, Expert!Unseal, Expert!At
    <3>. QED  BY <2>11, <2>0, <3>1 DEF Expert!Unseal
  <2>12. CASE Expert!Clean
    BY <2>12, <2>0 DEF Expert!Clean, Expert!files
  <2>13. CASE Expert!Drop
    BY <2>13, <2>0 DEF Expert!Drop, Expert!files
  <2>14. CASE Expert!Reprovision
    BY <2>14, <2>0 DEF Expert!Reprovision, Expert!files
  <2>15. CASE Expert!Install
    BY <2>15, <2>0 DEF Expert!Install, Expert!files
  <2>16. CASE Expert!Launch
    BY <2>16, <2>0 DEF Expert!Launch, Expert!files
  <2>17. CASE Expert!Seal
    BY <2>17, <2>0 DEF Expert!Seal, Expert!files
  <2>18. CASE Expert!End
    BY <2>18, <2>0 DEF Expert!End, Expert!files
  <2>19. CASE Expert!TerminalDies
    BY <2>19, <2>0 DEF Expert!TerminalDies, Expert!files
  <2>20. CASE Expert!Crash
    BY <2>20, <2>0 DEF Expert!Crash, Expert!files
  <2>21. CASE Expert!Upgrade
    BY <2>21, <2>0 DEF Expert!Upgrade, Expert!files
  <2>22. CASE UNCHANGED Expert!vars
    BY <2>22, <2>0 DEF Expert!vars, Expert!files
  <2>. QED
    BY <2>1, <2>2, <2>3, <2>4, <2>5, <2>6, <2>7, <2>8, <2>9, <2>10, <2>11, <2>12,
       <2>13, <2>14, <2>15, <2>16, <2>17, <2>18, <2>19, <2>20, <2>21, <2>22 DEF
       Expert!Next, Expert!Rotation
<1>3. /\ release' \in Releases /\ target' \in Releases /\ good' \in Releases
      /\ upgrade' \in Expert!File /\ rollback' \in Expert!File
      /\ loaded' \in Releases \cup {None}
  <2>0. /\ release \in Releases /\ target \in Releases /\ good \in Releases
        /\ upgrade \in Expert!File /\ rollback \in Expert!File
        /\ loaded \in Releases \cup {None} /\ None \in Expert!File /\ "torn" \in Expert!File
        /\ Releases \subseteq Expert!File
    BY DEF Expert!TypeOK, Expert!File
  <2>1. CASE Expert!Sync
    BY <2>1, <2>0 DEF Expert!Sync, Expert!files
  <2>2. CASE Expert!Stop
    BY <2>2, <2>0 DEF Expert!Stop, Expert!files
  <2>3. CASE Expert!Rotate
    BY <2>3, <2>0 DEF Expert!Rotate, Expert!files
  <2>4. CASE Expert!Backup
    BY <2>4, <2>0 DEF Expert!Backup, Expert!files
  <2>5. CASE Expert!Stage
    BY <2>5, <2>0 DEF Expert!Stage, Expert!files
  <2>6. CASE Expert!Replace
    BY <2>6, <2>0 DEF Expert!Replace, Expert!files, Expert!CopyInv, Expert!At
  <2>7. CASE Expert!Reseal
    BY <2>7, <2>0 DEF Expert!Reseal, Expert!files
  <2>8. CASE Expert!Verify
    BY <2>8, <2>0 DEF Expert!Verify, Expert!files
  <2>9. CASE Expert!Judge
    BY <2>9, <2>0 DEF Expert!Judge, Expert!files
  <2>10. CASE Expert!Undo
    <3>1. rollback \in Releases
      BY <2>10 DEF Expert!TypeOK, Expert!JobInv, Expert!CopyInv, Expert!Rotating,
         Expert!Undo, Expert!At
    <3>. QED  BY <2>10, <2>0, <3>1 DEF Expert!Undo, Expert!files
  <2>11. CASE Expert!Unseal
    BY <2>11, <2>0 DEF Expert!Unseal, Expert!files
  <2>12. CASE Expert!Clean
    BY <2>12, <2>0 DEF Expert!Clean, Expert!files
  <2>13. CASE Expert!Drop
    BY <2>13, <2>0 DEF Expert!Drop, Expert!files
  <2>14. CASE Expert!Reprovision
    BY <2>14, <2>0 DEF Expert!Reprovision, Expert!files
  <2>15. CASE Expert!Install
    BY <2>15, <2>0 DEF Expert!Install, Expert!files
  <2>16. CASE Expert!Launch
    BY <2>16, <2>0 DEF Expert!Launch, Expert!files
  <2>17. CASE Expert!Seal
    BY <2>17, <2>0 DEF Expert!Seal, Expert!files
  <2>18. CASE Expert!End
    BY <2>18, <2>0 DEF Expert!End, Expert!files
  <2>19. CASE Expert!TerminalDies
    BY <2>19, <2>0 DEF Expert!TerminalDies, Expert!files
  <2>20. CASE Expert!Crash
    BY <2>20, <2>0 DEF Expert!Crash, Expert!files
  <2>21. CASE Expert!Upgrade
    BY <2>21, <2>0 DEF Expert!Upgrade, Expert!files
  <2>22. CASE UNCHANGED Expert!vars
    BY <2>22, <2>0 DEF Expert!vars, Expert!files
  <2>. QED
    BY <2>1, <2>2, <2>3, <2>4, <2>5, <2>6, <2>7, <2>8, <2>9, <2>10, <2>11, <2>12,
       <2>13, <2>14, <2>15, <2>16, <2>17, <2>18, <2>19, <2>20, <2>21, <2>22 DEF
       Expert!Next, Expert!Rotation
<1>4. jobs' \in 0..MaxJobs /\ upgrades' \in 0..MaxUpgrades /\ faults' \in 0..MaxFaults
  <2>0. jobs \in 0..MaxJobs /\ upgrades \in 0..MaxUpgrades /\ faults \in 0..MaxFaults
    BY DEF Expert!TypeOK
  <2>1. CASE Expert!Sync
    BY <2>1, <2>0, SyncForms
  <2>2. CASE Expert!Stop
    BY <2>2, <2>0 DEF Expert!Stop, Expert!bounds, Expert!Fault
  <2>3. CASE Expert!Rotate
    BY <2>3, <2>0 DEF Expert!Rotate, Expert!bounds, Expert!Fault
  <2>4. CASE Expert!Backup
    BY <2>4, <2>0 DEF Expert!Backup, Expert!bounds, Expert!Fault
  <2>5. CASE Expert!Stage
    BY <2>5, <2>0 DEF Expert!Stage, Expert!bounds, Expert!Fault
  <2>6. CASE Expert!Replace
    BY <2>6, <2>0 DEF Expert!Replace, Expert!bounds, Expert!Fault
  <2>7. CASE Expert!Reseal
    BY <2>7, <2>0 DEF Expert!Reseal, Expert!bounds, Expert!Fault
  <2>8. CASE Expert!Verify
    BY <2>8, <2>0 DEF Expert!Verify, Expert!bounds, Expert!Fault
  <2>9. CASE Expert!Judge
    BY <2>9, <2>0 DEF Expert!Judge, Expert!bounds, Expert!Fault
  <2>10. CASE Expert!Undo
    BY <2>10, <2>0 DEF Expert!Undo, Expert!bounds, Expert!Fault
  <2>11. CASE Expert!Unseal
    BY <2>11, <2>0 DEF Expert!Unseal, Expert!bounds, Expert!Fault
  <2>12. CASE Expert!Clean
    BY <2>12, <2>0 DEF Expert!Clean, Expert!bounds, Expert!Fault
  <2>13. CASE Expert!Drop
    BY <2>13, <2>0 DEF Expert!Drop, Expert!bounds, Expert!Fault
  <2>14. CASE Expert!Reprovision
    BY <2>14, <2>0 DEF Expert!Reprovision, Expert!bounds, Expert!Fault
  <2>15. CASE Expert!Install
    BY <2>15, <2>0 DEF Expert!Install, Expert!bounds, Expert!Fault
  <2>16. CASE Expert!Launch
    BY <2>16, <2>0 DEF Expert!Launch, Expert!bounds, Expert!Fault
  <2>17. CASE Expert!Seal
    BY <2>17, <2>0 DEF Expert!Seal, Expert!bounds, Expert!Fault
  <2>18. CASE Expert!End
    BY <2>18, <2>0 DEF Expert!End, Expert!bounds, Expert!Fault
  <2>19. CASE Expert!TerminalDies
    BY <2>19, <2>0 DEF Expert!TerminalDies, Expert!bounds, Expert!Fault
  <2>20. CASE Expert!Crash
    BY <2>20, <2>0 DEF Expert!Crash, Expert!bounds, Expert!Fault
  <2>21. CASE Expert!Upgrade
    BY <2>21, <2>0 DEF Expert!Upgrade, Expert!bounds, Expert!Fault
  <2>22. CASE UNCHANGED Expert!vars
    BY <2>22, <2>0 DEF Expert!vars, Expert!bounds, Expert!Fault
  <2>. QED
    BY <2>1, <2>2, <2>3, <2>4, <2>5, <2>6, <2>7, <2>8, <2>9, <2>10, <2>11, <2>12,
       <2>13, <2>14, <2>15, <2>16, <2>17, <2>18, <2>19, <2>20, <2>21, <2>22 DEF
       Expert!Next, Expert!Rotation
<1>. QED  BY <1>1, <1>2, <1>3, <1>4 DEF Expert!TypeOK, Jobs

\* An instance before its first job.
LEMMA ExpertInit == Expert!Init => Expert!IInv
<1>. SUFFICES ASSUME Expert!Init PROVE Expert!IInv
  OBVIOUS
<1>. USE TerminalAssumption DEF TerminalAssumption, Expert!ExpertAssumption, Expert!Init
<1>1. /\ job.pc = "idle" /\ job.job = None /\ job.prev = None /\ job \in Jobs
      /\ loaded \in {None, target} /\ good = target
  BY DEF Expert!Idle, Expert!NoPins, Jobs, Expert!Steps
<1>2. Expert!TypeOK
  BY <1>1 DEF Expert!TypeOK, Jobs, Expert!File
<1>3. Expert!JobInv /\ Expert!CopyInv /\ Expert!UndoInv /\ Expert!SealInv
  BY <1>1 DEF Expert!JobInv, Expert!CopyInv, Expert!UndoInv, Expert!SealInv,
     Expert!Rotating, Expert!Offline
<1>4. /\ Expert!Recoverable /\ Expert!RunsWhatIsInstalled
      /\ Expert!ReportedIsCurrent /\ Expert!FailureRestores
  BY <1>1 DEF Expert!Recoverable, Expert!RunsWhatIsInstalled, Expert!ReportedIsCurrent,
     Expert!FailureRestores, Expert!At
<1>. QED  BY <1>2, <1>3, <1>4 DEF Expert!IInv

\* Jobs, copies, what is undone and what is sealed: the inductive invariant of the
\* rotation (mt5_instance.py rotate_managed_expert, real_handlers.py).
THEOREM ExpertInvariant == Expert!Spec => []Expert!IInv
<1>1. Expert!IInv /\ [Expert!Next]_Expert!vars => Expert!IInv'
  <2>. SUFFICES ASSUME Expert!IInv, [Expert!Next]_Expert!vars PROVE Expert!IInv'
    OBVIOUS
  <2>1. Expert!TypeOK'
    BY ExpertTypeStep DEF Expert!IInv
  <2>. QED
    BY <2>1, JobStep, CopyStep, UndoStep, SealStep, PromiseStep DEF Expert!IInv
<1>. QED  BY ExpertInit, <1>1, PTL DEF Expert!Spec

\* A behaviour of the composition is one of the bundle.
LEMMA BundleComposed == SpecOne => Spec
<1>1. InitOne => Init
  BY DEF InitOne
<1>2. [NextOne]_<<part, vars, expertVars>> => [Next]_vars
  BY DEF NextOne, BundleMoves, ExpertMoves
<1>. QED  BY <1>1, <1>2, PTL DEF SpecOne, Spec

\* A behaviour of the composition is one of the rotation.
LEMMA ExpertComposed == SpecOne => Expert!Spec
<1>1. InitOne => Expert!Init
  BY DEF InitOne
<1>2. [NextOne]_<<part, vars, expertVars>> => [Expert!Next]_Expert!vars
  BY DEF NextOne, BundleMoves, ExpertMoves, expertVars, Expert!vars, Expert!files,
     Expert!bounds
<1>. QED  BY <1>1, <1>2, PTL DEF SpecOne, Expert!Spec

\* RotationIsSound: through failures and crashes a sound expert is in place or kept
\* as the rollback copy, never replaced under a running terminal; a job that reports
\* success leaves the release's expert sealed, and one failed rotation puts expert and
\* pins back (mt5_instance.py rotate_managed_expert).
THEOREM RotationSound == SpecOne => []RotationIsSound
<1>1. Expert!IInv => RotationIsSound
  BY DEF Expert!IInv, RotationIsSound
<1>. QED  BY ExpertComposed, ExpertInvariant, <1>1, PTL
=============================================================================
