---------------------------- MODULE MCAgentProofs ----------------------------
(***************************************************************************)
(* Theorems about what the agent does, for every value of the constants:   *)
(* first about HistoryHandoff, whose definitions MCAgent extends, then     *)
(* about the composition that the agent run checks: the lease of JobLease, *)
(* the calls of NativeRuntime, the tracker of Excursion and the account of *)
(* HistoryBalance in it.  Each behaviour of SpecOne is one of each         *)
(* component, in which the moves of the others are stuttering steps; what  *)
(* is proved of a component holds of it there.                             *)
(***************************************************************************)
EXTENDS MCAgent, Sequences, FiniteSetTheorems, SequenceTheorems, WellFoundedInduction, TLAPS

\* A set of sequence numbers has a largest one.
LEMMA LargestNumber ==
  ASSUME NEW S \in SUBSET (1..MaxSeq), S # {}
  PROVE  \E m \in S : \A s \in S : s <= m
<1>. DEFINE T == {n \in Nat : MaxSeq - n \in S}
<1>0. MaxSeq \in Nat
  BY HandoffAssumption DEF HandoffAssumption
<1>1. T \subseteq Nat /\ T # {}
  <2>1. PICK s \in S : TRUE
    OBVIOUS
  <2>2. MaxSeq - s \in Nat /\ MaxSeq - (MaxSeq - s) = s
    BY <1>0, <2>1
  <2>. QED  BY <2>1, <2>2
<1>2. PICK x \in T : \A y \in T : <<y, x>> \notin OpToRel(<, Nat)
  BY <1>1, WFMin, NatLessThanWellFounded
<1>3. \A y \in T : x <= y
  <2>. SUFFICES ASSUME NEW y \in T PROVE ~ (y < x)
    OBVIOUS
  <2>. QED  BY <1>2, Zenon DEF OpToRel
<1>4. ASSUME NEW s \in S PROVE s <= MaxSeq - x
  <2>1. MaxSeq - s \in T
    BY <1>0
  <2>. QED  BY <1>0, <1>3, <2>1
<1>. QED  BY <1>4

\* What is readable is taken up to a number the EA has given.
LEMMA PollNumber ==
  ASSUME TypeOK, FileInv, Poll
  PROVE  /\ checkpoint' \in 0..MaxSeq /\ checkpoint' <= seq
         /\ files' = {}
<1>. DEFINE S == {f.seq : f \in files}
<1>1. {f \in files : Readable(f)} = files
  BY DEF FileInv
<1>2. CASE files = {}
  <2>1. files' = {} /\ checkpoint' = checkpoint
    BY <1>1, <1>2 DEF Poll
  <2>. QED  BY <2>1 DEF TypeOK, HandType, FileInv
<1>3. CASE files # {}
  <2>1. S \in SUBSET (1..MaxSeq) /\ S # {}
    BY <1>3 DEF TypeOK, EaType
  <2>2. \E m \in S : \A f \in files : f.seq <= m
    BY <2>1, LargestNumber
  <2>3. checkpoint' = CHOOSE m \in S : \A f \in files : f.seq <= m
    BY <1>1, <1>3 DEF Poll
  <2>4. checkpoint' \in S /\ \A f \in files : f.seq <= checkpoint'
    BY <2>2, <2>3
  <2>5. PICK f \in files : checkpoint' = f.seq
    BY <2>4
  <2>6. checkpoint' \in 1..MaxSeq /\ checkpoint' <= seq
    BY <2>5 DEF TypeOK, EaType, FileInv
  <2>7. \A g \in files : ~(g.seq > checkpoint')
    BY <2>4, <2>6 DEF TypeOK, EaType
  <2>8. files' = {}
    BY <2>7 DEF Poll
  <2>. QED  BY <2>6, <2>8, HandoffAssumption DEF HandoffAssumption
<1>. QED  BY <1>2, <1>3

\* What is not touched keeps its type.
LEMMA TypeFrame ==
  ASSUME TypeOK
  PROVE  /\ UNCHANGED eaVars => EaType'
         /\ UNCHANGED handVars => HandType'
         /\ UNCHANGED journal => JournalType'
         /\ UNCHANGED jobVars => JobType'
         /\ UNCHANGED <<modeFile, status, lock, sup, failures>> => FlagType'
<1>1. UNCHANGED eaVars => EaType'
  BY DEF TypeOK, EaType, eaVars
<1>2. UNCHANGED handVars => HandType'
  BY DEF TypeOK, HandType, handVars
<1>3. UNCHANGED journal => JournalType'
  BY DEF TypeOK, JournalType, journal
<1>4. UNCHANGED jobVars => JobType'
  BY DEF TypeOK, JobType, jobVars
<1>5. UNCHANGED <<modeFile, status, lock, sup, failures>> => FlagType'
  BY DEF TypeOK, FlagType
<1>. QED  BY <1>1, <1>2, <1>3, <1>4, <1>5

\* The variables keep their types.
LEMMA TypeStep ==
  ASSUME TypeOK, FileInv, [Next]_vars
  PROVE  TypeOK'
<1>. USE HandoffAssumption DEF HandoffAssumption
<1>1. CASE Execute
  <2>1. EaType'
    BY <1>1 DEF Execute, TypeOK, EaType, eaVars
  <2>. QED  BY <1>1, <2>1, TypeFrame DEF Execute, TypeOK
<1>2. ASSUME NEW d \in Deal, Publish(d) PROVE TypeOK'
  <2>1. EaType'
    BY <1>2 DEF Publish, TypeOK, EaType, eaVars, Deal
  <2>. QED  BY <1>2, <2>1, TypeFrame DEF Publish, TypeOK
<1>3. CASE WriteHistory
  <2>1. EaType'
    BY <1>3 DEF WriteHistory, TypeOK, EaType, eaVars, HistoryBundle, Deal
  <2>. QED  BY <1>3, <2>1, TypeFrame DEF WriteHistory, TypeOK
<1>4. CASE OnTimer
  <2>1. EaType'
    BY <1>4 DEF OnTimer, TypeOK, EaType, eaVars, LiveBundle, Deal
  <2>. QED  BY <1>4, <2>1, TypeFrame DEF OnTimer, TypeOK
<1>5. ASSUME NEW j \in Job, Start(j) PROVE TypeOK'
  <2>1. JobType'
    BY <1>5 DEF Start, TypeOK, JobType, jobVars
  <2>2. FlagType'
    BY <1>5 DEF Start, TypeOK, FlagType
  <2>. QED  BY <1>5, <2>1, <2>2, TypeFrame DEF Start, TypeOK
<1>6. CASE Lock
  <2>1. JobType'
    BY <1>6 DEF Lock, TypeOK, JobType, jobVars, Go
  <2>2. FlagType'
    BY <1>6 DEF Lock, TypeOK, FlagType
  <2>. QED  BY <1>6, <2>1, <2>2, TypeFrame DEF Lock, TypeOK, Go
<1>7. CASE KeepTerminal
  <2>1. JobType'
    BY <1>7 DEF KeepTerminal, TypeOK, JobType, jobVars, Go
  <2>. QED  BY <1>7, <2>1, TypeFrame DEF KeepTerminal, TypeOK, Go
<1>8. CASE StopTerminal
  <2>1. EaType'
    BY <1>8 DEF StopTerminal, TypeOK, EaType, eaVars, NoBundle, Deal
  <2>2. JobType'
    BY <1>8 DEF StopTerminal, TypeOK, JobType, jobVars, Go, NoBundle, Deal
  <2>3. FlagType'
    BY <1>8 DEF StopTerminal, TypeOK, FlagType, NoBundle, Deal
  <2>. QED  BY <1>8, <2>1, <2>2, <2>3, TypeFrame DEF StopTerminal, TypeOK, Go
<1>9. CASE StartTerminal
  <2>1. EaType'
    BY <1>9 DEF StartTerminal, TypeOK, EaType, eaVars, Deal
  <2>2. JobType'
    BY <1>9 DEF StartTerminal, TypeOK, JobType, jobVars, Go, Deal
  <2>. QED  BY <1>9, <2>1, <2>2, TypeFrame DEF StartTerminal, TypeOK, Go
<1>10. CASE Resumed
  <2>1. JobType'
    BY <1>10 DEF Resumed, TypeOK, JobType, jobVars, Go
  <2>. QED  BY <1>10, <2>1, TypeFrame DEF Resumed, TypeOK, Go
<1>11. CASE CommitPending
  <2>0. pending' \in Cut
    <3>1. job \in 0..MaxJobs /\ bundle.upto \in 0..MaxDeals /\ bundle.seq \in 0..MaxSeq
      BY DEF TypeOK, EaType, JobType, Job
    <3>2. pending' = [job |-> job, deals |-> bundle.upto, anchor |-> bundle.seq]
      BY <1>11 DEF CommitPending, Boundary, ReadHistory
    <3>. QED  BY <3>1, <3>2 DEF Cut
  <2>1. HandType'
    BY <1>11, <2>0 DEF CommitPending, TypeOK, HandType
  <2>2. JobType'
    BY <1>11 DEF CommitPending, TypeOK, JobType, jobVars, Go, Boundary,
       ReadHistory, Pending, EaType
  <2>. QED  BY <1>11, <2>1, <2>2, TypeFrame DEF CommitPending, TypeOK, Go
<1>12. CASE ResumePending
  <2>0. pending.deals \in 0..MaxDeals
    BY DEF TypeOK, HandType, Cut
  <2>1. JobType'
    BY <1>12, <2>0 DEF ResumePending, TypeOK, JobType
  <2>. QED  BY <1>12, <2>1, TypeFrame DEF ResumePending, TypeOK, Go
<1>13. CASE ResumeArchive
  <2>1. JobType'
    BY <1>13 DEF ResumeArchive, TypeOK, JobType, jobVars, Go, HandType
  <2>. QED  BY <1>13, <2>1, TypeFrame DEF ResumeArchive, TypeOK, Go
<1>14. CASE Stage
  <2>0. job \in 0..MaxJobs /\ doc \in 0..MaxDeals
    BY DEF TypeOK, JobType, Job
  <2>1. HandType'
    BY <1>14, <2>0 DEF Stage, TypeOK, HandType
  <2>2. JobType'
    BY <1>14 DEF Stage, TypeOK, JobType, jobVars, Go
  <2>. QED  BY <1>14, <2>1, <2>2, TypeFrame DEF Stage, TypeOK, Go
<1>15. CASE Promote
  <2>0. /\ job \in Job /\ staged.deals \in 0..MaxDeals
        /\ [job |-> 0, deals |-> 0] \in [job : 0..MaxJobs, deals : 0..MaxDeals]
    BY DEF TypeOK, JobType, HandType
  <2>1. HandType'
    BY <1>15, <2>0 DEF Promote, TypeOK, HandType
  <2>2. JobType'
    BY <1>15 DEF Promote, TypeOK, JobType, jobVars, Go, StagedFor, Pending
  <2>. QED  BY <1>15, <2>1, <2>2, TypeFrame DEF Promote, TypeOK, Go
<1>16. CASE Deliver
  <2>1. JobType'
    BY <1>16 DEF Deliver, TypeOK, JobType, jobVars, Go, Import
  <2>2. JournalType'
    BY <1>16 DEF Deliver, TypeOK, JournalType, Import, JobType
  <2>. QED  BY <1>16, <2>1, <2>2, TypeFrame DEF Deliver, TypeOK, Go
<1>17. CASE DeliverLost
  <2>1. JobType'
    BY <1>17 DEF DeliverLost, TypeOK, JobType, jobVars, Go, Import
  <2>2. JournalType'
    BY <1>17 DEF DeliverLost, TypeOK, JournalType, Import, JobType
  <2>3. FlagType'
    BY <1>17 DEF DeliverLost, TypeOK, FlagType, Import
  <2>. QED  BY <1>17, <2>1, <2>2, <2>3, TypeFrame DEF DeliverLost, TypeOK, Go
<1>18. CASE AlreadyActive
  <2>1. JobType'
    BY <1>18 DEF AlreadyActive, TypeOK, JobType, jobVars, Go
  <2>. QED  BY <1>18, <2>1, TypeFrame DEF AlreadyActive, TypeOK, Go
<1>19. CASE SaveBaseline
  <2>1. HandType'
    BY <1>19 DEF SaveBaseline, TypeOK, HandType, handVars, Cut
  <2>2. JobType'
    BY <1>19 DEF SaveBaseline, TypeOK, JobType, jobVars, Go
  <2>. QED  BY <1>19, <2>1, <2>2, TypeFrame DEF SaveBaseline, TypeOK, Go
<1>20. CASE Acknowledge
  <2>1. EaType'
    BY <1>20 DEF Acknowledge, TypeOK, EaType, eaVars
  <2>2. HandType'
    BY <1>20 DEF Acknowledge, TypeOK, HandType, handVars, Cut, EaType
  <2>3. JobType'
    BY <1>20 DEF Acknowledge, TypeOK, JobType, jobVars, Go, EaType
  <2>. QED  BY <1>20, <2>1, <2>2, <2>3, TypeFrame DEF Acknowledge, TypeOK, Go
<1>21. CASE Activate
  <2>1. HandType'
    BY <1>21 DEF Activate, TypeOK, HandType, handVars, Cut
  <2>2. JobType'
    BY <1>21 DEF Activate, TypeOK, JobType, jobVars, Go
  <2>. QED  BY <1>21, <2>1, <2>2, TypeFrame DEF Activate, TypeOK, Go
<1>22. CASE Switch
  <2>1. FlagType'
    BY <1>22 DEF Switch, TypeOK, FlagType
  <2>. QED  BY <1>22, <2>1, TypeFrame DEF Switch, TypeOK
<1>23. CASE Switched
  <2>1. JobType'
    BY <1>23 DEF Switched, TypeOK, JobType, jobVars, Go
  <2>2. FlagType'
    BY <1>23 DEF Switched, TypeOK, FlagType
  <2>. QED  BY <1>23, <2>1, <2>2, TypeFrame DEF Switched, TypeOK, Go
<1>24. CASE Completed
  <2>1. JobType'
    BY <1>24 DEF Completed, TypeOK, JobType, jobVars, Go
  <2>2. FlagType'
    BY <1>24 DEF Completed, TypeOK, FlagType
  <2>. QED  BY <1>24, <2>1, <2>2, TypeFrame DEF Completed, TypeOK, Go
<1>25. CASE Mismatch
  <2>1. JobType'
    BY <1>25 DEF Mismatch, TypeOK, JobType, jobVars, Go
  <2>. QED  BY <1>25, <2>1, TypeFrame DEF Mismatch, TypeOK, Go
<1>26. CASE Raise
  <2>1. JobType'
    BY <1>26 DEF Raise, TypeOK, JobType, jobVars, Go
  <2>2. FlagType'
    BY <1>26 DEF Raise, TypeOK, FlagType
  <2>. QED  BY <1>26, <2>1, <2>2, TypeFrame DEF Raise, TypeOK, Go
<1>27. CASE Abandon
  <2>1. JobType'
    BY <1>27 DEF Abandon, TypeOK, JobType, jobVars, Go
  <2>2. FlagType'
    BY <1>27 DEF Abandon, TypeOK, FlagType
  <2>. QED  BY <1>27, <2>1, <2>2, TypeFrame DEF Abandon, TypeOK, Go
<1>28. CASE Crash
  <2>1. JobType'
    BY <1>28 DEF Crash, TypeOK, JobType, jobVars, Go
  <2>2. FlagType'
    BY <1>28 DEF Crash, TypeOK, FlagType
  <2>. QED  BY <1>28, <2>1, <2>2, TypeFrame DEF Crash, TypeOK, Go
<1>29. CASE List
  <2>1. FlagType'
    BY <1>29 DEF List, TypeOK, FlagType
  <2>. QED  BY <1>29, <2>1, TypeFrame DEF List, TypeOK
<1>30. CASE Poll
  <2>1. EaType'
    BY <1>30, PollNumber DEF Poll, TypeOK, EaType, eaVars
  <2>2. HandType'
    BY <1>30, PollNumber DEF Poll, TypeOK, HandType, handVars, Cut, EaType
  <2>3. JournalType'
    BY <1>30 DEF Poll, TypeOK, JournalType, journal, EaType
  <2>4. FlagType'
    BY <1>30 DEF Poll, TypeOK, FlagType, EaType
  <2>. QED  BY <1>30, <2>1, <2>2, <2>3, <2>4, TypeFrame DEF Poll, TypeOK
<1>31. CASE Defer
  <2>1. FlagType'
    BY <1>31 DEF Defer, TypeOK, FlagType
  <2>. QED  BY <1>31, <2>1, TypeFrame DEF Defer, TypeOK
<1>32. CASE UNCHANGED vars
  BY <1>32, TypeFrame DEF vars, TypeOK
<1>. QED
  BY <1>1, <1>2, <1>3, <1>4, <1>5, <1>6, <1>7, <1>8, <1>9, <1>10, <1>11,
     <1>12, <1>13, <1>14, <1>15, <1>16, <1>17, <1>18, <1>19, <1>20, <1>21,
     <1>22, <1>23, <1>24, <1>25, <1>26, <1>27, <1>28, <1>29, <1>30, <1>31,
     <1>32 DEF Next

\* The lock is held where the attempt is inside of it.
LEMMA LockStep ==
  ASSUME TypeOK, LockInv, [Next]_vars
  PROVE  LockInv'
<1>1. CASE Execute \/ (\E d \in Deal : Publish(d)) \/ WriteHistory \/ OnTimer
           \/ List \/ Poll \/ Defer
  BY <1>1 DEF Execute, Publish, WriteHistory, OnTimer, List, Poll, Defer,
     LockInv, eaVars, jobVars
<1>2. CASE CommitPending \/ ResumePending \/ ResumeArchive \/ Stage \/ Promote
           \/ Deliver \/ DeliverLost \/ AlreadyActive \/ SaveBaseline
           \/ Acknowledge \/ Activate
  BY <1>2 DEF CommitPending, ResumePending, ResumeArchive, Stage, Promote,
     Deliver, DeliverLost, AlreadyActive, SaveBaseline, Acknowledge, Activate,
     TypeOK, JobType, FlagType, LockInv, Locked, Go
<1>3. ASSUME NEW j \in Job, Start(j) PROVE LockInv'
  BY <1>3 DEF Start, TypeOK, JobType, FlagType, LockInv, Locked
<1>4. CASE Lock
  BY <1>4 DEF Lock, TypeOK, JobType, FlagType, LockInv, Locked, Go
<1>5. CASE KeepTerminal
  BY <1>5 DEF KeepTerminal, TypeOK, JobType, FlagType, LockInv, Locked, Go
<1>6. CASE StopTerminal
  BY <1>6 DEF StopTerminal, TypeOK, JobType, FlagType, LockInv, Locked, Go
<1>7. CASE StartTerminal
  BY <1>7 DEF StartTerminal, TypeOK, JobType, FlagType, LockInv, Locked, Go
<1>8. CASE Resumed
  BY <1>8 DEF Resumed, TypeOK, JobType, FlagType, LockInv, Locked, Go
<1>9. CASE Switch
  BY <1>9 DEF Switch, TypeOK, JobType, FlagType, LockInv, Locked, jobVars
<1>10. CASE Switched
  BY <1>10 DEF Switched, TypeOK, JobType, FlagType, LockInv, Locked, Go
<1>11. CASE Completed
  BY <1>11 DEF Completed, TypeOK, JobType, FlagType, LockInv, Locked, Go
<1>12. CASE Mismatch
  BY <1>12 DEF Mismatch, TypeOK, JobType, FlagType, LockInv, Locked, Go
<1>13. CASE Raise
  BY <1>13 DEF Raise, TypeOK, JobType, FlagType, LockInv, Locked, Go
<1>14. CASE Abandon
  BY <1>14 DEF Abandon, TypeOK, JobType, FlagType, LockInv, Locked, Go
<1>15. CASE Crash
  BY <1>15 DEF Crash, TypeOK, JobType, FlagType, LockInv, Locked, Go
<1>16. CASE UNCHANGED vars
  BY <1>16 DEF vars, LockInv, jobVars
<1>. QED
  BY <1>1, <1>2, <1>3, <1>4, <1>5, <1>6, <1>7, <1>8, <1>9, <1>10, <1>11, <1>12,
     <1>13, <1>14, <1>15, <1>16 DEF Next

\* Sequence numbers, bundles and files stay in order.
LEMMA FileStep ==
  ASSUME TypeOK, LockInv, FileInv, BoundaryInv, [Next]_vars
  PROVE  FileInv'
<1>. USE HandoffAssumption DEF HandoffAssumption
<1>1. CASE (\E j \in Job : Start(j)) \/ Switch \/ List \/ Defer
  BY <1>1 DEF Start, Switch, List, Defer, FileInv, Readable, eaVars, handVars,
     jobVars
<1>2. CASE Lock \/ Resumed \/ KeepTerminal \/ ResumePending \/ ResumeArchive
           \/ Deliver \/ DeliverLost \/ AlreadyActive \/ Switched \/ Completed
  BY <1>2 DEF Lock, Resumed, KeepTerminal, ResumePending, ResumeArchive,
     Deliver, DeliverLost, AlreadyActive, Switched, Completed, FileInv,
     Readable, Go, eaVars, handVars
<1>3. CASE Stage \/ Promote \/ SaveBaseline \/ Activate
  BY <1>3 DEF Stage, Promote, SaveBaseline, Activate, FileInv, Readable, Go,
     eaVars
<1>4. CASE Mismatch \/ Raise \/ Abandon \/ Crash
  BY <1>4 DEF Mismatch, Raise, Abandon, Crash, FileInv, Readable, Go, eaVars,
     handVars
<1>5. CASE Execute
  <2>1. executed \in Nat /\ executed' = executed + 1
    BY <1>5 DEF Execute, TypeOK, EaType
  <2>2. UNCHANGED <<silent, seq, files, published, bundle, pending, pc, checkpoint>>
    BY <1>5 DEF Execute, handVars, jobVars
  <2>3. (\A d \in published : d \in Nat) /\ bundle.upto \in Nat
    BY DEF TypeOK, EaType, Deal
  <2>. QED  BY <2>1, <2>2, <2>3 DEF FileInv, Readable
<1>6. ASSUME NEW d \in Deal, Publish(d) PROVE FileInv'
  <2>. DEFINE new == [seq |-> seq + 1, deal |-> d]
  <2>1. /\ files' = files \cup {new} /\ published' = published \cup {d}
        /\ seq' = seq + 1 /\ d <= executed /\ d \notin silent
        /\ UNCHANGED <<executed, silent, bundle, pending, pc, checkpoint>>
    BY <1>6 DEF Publish, handVars, jobVars
  <2>2. new.seq = seq + 1 /\ new.deal = d
    OBVIOUS
  <2>3. /\ seq \in Nat /\ checkpoint \in Nat /\ bundle.seq \in Nat
        /\ checkpoint <= seq
    BY DEF TypeOK, EaType, HandType, FileInv
  <2>4. \A f \in files' : f.seq <= seq' /\ f.seq > checkpoint /\ f.deal \in published'
    BY <2>1, <2>2, <2>3 DEF FileInv, Readable, TypeOK, EaType
  <2>5. bundle.mode = "history" =>
          \A f \in files' : f.seq <= bundle.seq => f.deal <= bundle.upto
    BY <2>1, <2>2, <2>3 DEF FileInv
  <2>6. /\ OldDeals <= executed' /\ \A e \in published' : e <= executed' /\ e \notin silent'
        /\ bundle'.mode # "none" => bundle'.seq <= seq'
        /\ checkpoint' <= seq'
    BY <2>1, <2>3 DEF FileInv
  <2>. QED  BY <2>1, <2>4, <2>5, <2>6 DEF FileInv, Readable
<1>7. CASE WriteHistory
  <2>1. /\ seq' = seq + 1 /\ bundle'.mode = "history" /\ bundle'.seq = seq + 1
        /\ bundle'.upto = executed
        /\ UNCHANGED <<executed, silent, files, published, pending, pc, checkpoint>>
    BY <1>7 DEF WriteHistory, HistoryBundle, handVars, jobVars
  <2>2. seq \in Nat /\ checkpoint \in Nat /\ \A f \in files : f.seq \in Nat
    BY DEF TypeOK, EaType, HandType
  <2>3. \A f \in files : f.deal <= executed
    BY DEF FileInv
  <2>. QED  BY <2>1, <2>2, <2>3 DEF FileInv, Readable, BoundaryInv, TypeOK, EaType
<1>8. CASE OnTimer
  <2>1. /\ seq' = seq + 1 /\ bundle'.mode = "live" /\ bundle'.seq = seq + 1
        /\ modeFile = "new_only"
        /\ UNCHANGED <<executed, silent, files, published, pending, pc, checkpoint>>
    BY <1>8 DEF OnTimer, LiveBundle, handVars, jobVars
  <2>2. seq \in Nat /\ checkpoint \in Nat /\ \A f \in files : f.seq \in Nat
    BY DEF TypeOK, EaType, HandType
  <2>3. pc # "history"
    BY <2>1 DEF LockInv
  <2>. QED  BY <2>1, <2>2, <2>3 DEF FileInv, Readable
<1>9. CASE StopTerminal
  BY <1>9 DEF StopTerminal, FileInv, Readable, NoBundle, Go, handVars
<1>10. CASE StartTerminal
  <2>1. silent' = silent \cup (1..executed \ published) /\ pc' = "resume"
    BY <1>10 DEF StartTerminal, Go
  <2>2. UNCHANGED <<executed, seq, files, published, bundle, pending, checkpoint>>
    BY <1>10 DEF StartTerminal, handVars
  <2>. QED  BY <2>1, <2>2 DEF FileInv, Readable
<1>11. CASE CommitPending
  <2>1. pending'.deals = bundle.upto
    BY <1>11 DEF CommitPending, Boundary, ReadHistory
  <2>. QED  BY <1>11, <2>1 DEF CommitPending, FileInv, Readable, eaVars, TypeOK, EaType
<1>12. CASE Acknowledge
  <2>1. /\ checkpoint' = pending.anchor /\ files' = {f \in files : f.seq > pending.anchor}
        /\ pc' = "activate" /\ pending.anchor <= seq
        /\ UNCHANGED <<executed, silent, seq, published, bundle, pending>>
    BY <1>12 DEF Acknowledge, Go, BoundaryInv
  <2>. QED  BY <2>1 DEF FileInv, Readable
<1>13. CASE Poll
  <2>1. checkpoint' <= seq /\ files' = {}
    BY <1>13, PollNumber
  <2>2. UNCHANGED <<executed, silent, seq, published, bundle, pending, pc>>
    BY <1>13 DEF Poll, jobVars
  <2>. QED  BY <2>1, <2>2 DEF FileInv, Readable
<1>14. CASE UNCHANGED vars
  BY <1>14 DEF vars, FileInv, Readable, eaVars, handVars, jobVars
<1>. QED
  BY <1>1, <1>2, <1>3, <1>4, <1>5, <1>6, <1>7, <1>8, <1>9, <1>10, <1>11, <1>12,
     <1>13, <1>14 DEF Next

\* An import replaces no document: what was imported stays so.
LEMMA ImportGrows ==
  ASSUME TypeOK, Import(doc)
  PROVE  /\ server' \in [Job -> Nat] /\ \A j \in Job : server[j] <= server'[j]
         /\ \A j \in Job \ {job} : server'[j] = server[j]
         /\ server'[job] = IF server[job] = 0 THEN doc ELSE server[job]
         /\ \A d \in Nat : Imported(d) => Imported(d)'
<1>. USE HandoffAssumption DEF HandoffAssumption
<1>1. /\ server \in [Job -> Nat] /\ job \in Job /\ doc \in Nat
      /\ server' = [server EXCEPT ![job] = IF server[job] = 0 THEN doc ELSE server[job]]
  BY DEF TypeOK, JournalType, JobType, Import
<1>2. server' \in [Job -> Nat] /\ \A j \in Job : server[j] <= server'[j]
  BY <1>1
<1>3. /\ \A j \in Job \ {job} : server'[j] = server[j]
      /\ server'[job] = IF server[job] = 0 THEN doc ELSE server[job]
  BY <1>1
<1>4. ASSUME NEW d \in Nat, Imported(d) PROVE Imported(d)'
  <2>1. PICK j \in Job : d <= server[j]
    BY <1>4 DEF Imported
  <2>2. server[j] \in Nat /\ server'[j] \in Nat /\ server[j] <= server'[j]
    BY <1>1, <1>2
  <2>3. d <= server'[j]
    BY <2>1, <2>2
  <2>. QED  BY <2>3 DEF Imported
<1>. QED  BY <1>2, <1>3, <1>4

\* The boundary stays above the files of its deals and what was imported.
LEMMA BoundaryStep ==
  ASSUME TypeOK, FileInv, BoundaryInv, AttemptInv, [Next]_vars
  PROVE  BoundaryInv'
<1>. USE HandoffAssumption DEF HandoffAssumption
<1>1. CASE (\E j \in Job : Start(j)) \/ Lock \/ KeepTerminal \/ Resumed
           \/ ResumePending \/ ResumeArchive \/ AlreadyActive \/ Switch
           \/ Switched \/ Completed \/ Mismatch \/ Raise \/ Abandon \/ Crash
           \/ List \/ Defer
  BY <1>1 DEF Start, Lock, KeepTerminal, Resumed, ResumePending, ResumeArchive,
     AlreadyActive, Switch, Switched, Completed, Mismatch, Raise, Abandon,
     Crash, List, Defer, BoundaryInv, eaVars, handVars, journal
<1>2. CASE Stage \/ Promote \/ SaveBaseline \/ Activate
  BY <1>2 DEF Stage, Promote, SaveBaseline, Activate, BoundaryInv, eaVars,
     journal
<1>3. CASE StopTerminal \/ StartTerminal
  BY <1>3 DEF StopTerminal, StartTerminal, BoundaryInv, handVars, journal
<1>4. CASE Acknowledge
  BY <1>4 DEF Acknowledge, BoundaryInv, journal
<1>5. CASE Execute
  <2>1. /\ executed' = executed + 1 /\ executed \in Nat /\ pending.deals \in Nat
        /\ UNCHANGED <<seq, files, pending, server>>
    BY <1>5 DEF Execute, handVars, journal, TypeOK, EaType, HandType, Cut
  <2>. QED  BY <2>1 DEF BoundaryInv
<1>6. ASSUME NEW d \in Deal, Publish(d) PROVE BoundaryInv'
  <2>. DEFINE new == [seq |-> seq + 1, deal |-> d]
  <2>1. /\ files' = files \cup {new} /\ seq' = seq + 1 /\ new.seq = seq + 1
        /\ UNCHANGED <<executed, pending, server>>
    BY <1>6 DEF Publish, handVars, journal
  <2>2. seq \in Nat /\ pending.anchor \in Nat
    BY DEF TypeOK, EaType, HandType, Cut
  <2>3. \A f \in files' : f.seq <= pending.anchor => f \in files
    BY <2>1, <2>2 DEF BoundaryInv
  <2>. QED  BY <2>1, <2>2, <2>3 DEF BoundaryInv
<1>7. CASE WriteHistory
  <2>1. /\ seq' = seq + 1 /\ seq \in Nat /\ pending.anchor \in Nat
        /\ UNCHANGED <<executed, files, pending, server>>
    BY <1>7 DEF WriteHistory, handVars, journal, TypeOK, EaType, HandType, Cut
  <2>. QED  BY <2>1 DEF BoundaryInv
<1>8. CASE OnTimer
  <2>1. /\ seq' = seq + 1 /\ seq \in Nat /\ pending.anchor \in Nat
        /\ UNCHANGED <<executed, files, pending, server>>
    BY <1>8 DEF OnTimer, handVars, journal, TypeOK, EaType, HandType, Cut
  <2>. QED  BY <2>1 DEF BoundaryInv
<1>9. CASE CommitPending
  <2>1. /\ pending'.job = job /\ pending'.deals = bundle.upto /\ pending'.anchor = bundle.seq
        /\ UNCHANGED <<executed, seq, files, server>> /\ pc = "history"
    BY <1>9 DEF CommitPending, Boundary, ReadHistory, eaVars, journal
  <2>2. bundle.mode = "history"
    BY <2>1 DEF FileInv
  <2>3. \A j \in Job : server[j] <= bundle.upto
    <3>1. ASSUME NEW j \in Job PROVE server[j] <= bundle.upto
      <4>1. server[j] \in Nat /\ pending.deals \in Nat /\ bundle.upto \in Nat
        BY DEF TypeOK, JournalType, HandType, EaType, Cut
      <4>2. server[j] <= pending.deals /\ pending.deals <= bundle.upto
        BY <2>2 DEF BoundaryInv, FileInv
      <4>. QED  BY <4>1, <4>2
    <3>. QED  BY <3>1
  <2>. QED  BY <2>1, <2>2, <2>3 DEF BoundaryInv, FileInv
<1>10. CASE Deliver
  <2>1. Import(doc) /\ doc = pending.deals /\ UNCHANGED <<pending, seq, executed, files>>
    BY <1>10 DEF Deliver, Pending, AttemptInv, Attempting, eaVars, handVars
  <2>2. \A j \in Job : server'[j] <= pending.deals
    BY <2>1, ImportGrows DEF BoundaryInv, TypeOK, HandType, Cut
  <2>. QED  BY <2>1, <2>2 DEF BoundaryInv
<1>11. CASE DeliverLost
  <2>1. Import(doc) /\ doc = pending.deals /\ UNCHANGED <<pending, seq, executed, files>>
    BY <1>11 DEF DeliverLost, Pending, AttemptInv, Attempting, eaVars, handVars
  <2>2. \A j \in Job : server'[j] <= pending.deals
    BY <2>1, ImportGrows DEF BoundaryInv, TypeOK, HandType, Cut
  <2>. QED  BY <2>1, <2>2 DEF BoundaryInv
<1>12. CASE Poll
  <2>1. files' = {} /\ UNCHANGED <<executed, seq, pending, server>>
    BY <1>12, PollNumber DEF Poll
  <2>. QED  BY <2>1 DEF BoundaryInv
<1>13. CASE UNCHANGED vars
  BY <1>13 DEF vars, BoundaryInv, eaVars, handVars, journal
<1>. QED
  BY <1>1, <1>2, <1>3, <1>4, <1>5, <1>6, <1>7, <1>8, <1>9, <1>10, <1>11, <1>12,
     <1>13 DEF Next

\* Where an attempt stands says what is on disk.
LEMMA AttemptStep ==
  ASSUME TypeOK, LockInv, AttemptInv, [Next]_vars
  PROVE  AttemptInv'
<1>1. CASE Execute \/ (\E d \in Deal : Publish(d)) \/ WriteHistory \/ OnTimer
           \/ Switch \/ List \/ Defer
  BY <1>1 DEF Execute, Publish, WriteHistory, OnTimer, Switch, List, Defer,
     AttemptInv, Attempting, Delivered, Pending, Go, handVars, journal, jobVars
<1>2. CASE Poll
  BY <1>2 DEF Poll, AttemptInv, Attempting, Delivered, Pending, Go, handVars,
     journal, jobVars
<1>3. CASE Lock \/ KeepTerminal \/ StopTerminal \/ StartTerminal \/ Resumed
  BY <1>3 DEF Lock, KeepTerminal, StopTerminal, StartTerminal, Resumed,
     AttemptInv, Attempting, Delivered, Pending, Go, handVars, journal,
     jobVars, LockInv
<1>4. CASE AlreadyActive \/ SaveBaseline \/ Acknowledge \/ Activate
  BY <1>4 DEF AlreadyActive, SaveBaseline, Acknowledge, Activate, AttemptInv,
     Attempting, Delivered, Pending, Go, handVars, journal, jobVars, LockInv
<1>5. CASE Switched \/ Completed
  BY <1>5 DEF Switched, Completed, AttemptInv, Attempting, Delivered, Pending,
     Go, handVars, journal, jobVars, LockInv
<1>6. CASE Mismatch \/ Raise \/ Abandon \/ Crash
  BY <1>6 DEF Mismatch, Raise, Abandon, Crash, AttemptInv, Attempting,
     Delivered, Pending, Go, handVars, journal, jobVars, LockInv
<1>7. ASSUME NEW j \in Job, Start(j) PROVE AttemptInv'
  BY <1>7 DEF Start, AttemptInv, Attempting, Delivered, Pending, Go, handVars,
     journal, jobVars, LockInv
<1>8. CASE CommitPending
  <2>1. /\ pending'.job = job /\ pending'.deals = doc' /\ pc = "history" /\ pc' = "stage"
        /\ archive[job] = 0 /\ UNCHANGED <<job, archive, status>>
    BY <1>8 DEF CommitPending, Boundary
  <2>. QED  BY <2>1 DEF AttemptInv, Attempting, Delivered, Pending, LockInv
<1>9. CASE ResumePending
  BY <1>9 DEF ResumePending, AttemptInv, Attempting, Delivered, Pending, Go,
     handVars, journal, jobVars, LockInv
<1>10. CASE ResumeArchive
  BY <1>10 DEF ResumeArchive, AttemptInv, Attempting, Delivered, Pending,
     BoundaryOf, LockInv, handVars, journal
<1>11. CASE Stage
  BY <1>11 DEF Stage, AttemptInv, Attempting, Delivered, Pending, Go, handVars,
     journal, jobVars, LockInv
<1>12. CASE Promote
  <2>1. /\ archive' = [archive EXCEPT ![job] = pending.deals]
        /\ pc' = "deliver" /\ pc = "promote" /\ UNCHANGED <<job, doc, pending, status>>
    BY <1>12 DEF Promote, Go, StagedFor
  <2>2. archive'[job] = doc /\ status # "connected"
    BY <2>1 DEF AttemptInv, Attempting, LockInv, TypeOK, HandType, JobType
  <2>. QED  BY <2>1, <2>2 DEF AttemptInv, Attempting, Delivered, Pending
<1>13. CASE Deliver
  BY <1>13 DEF Deliver, AttemptInv, Attempting, Delivered, Pending, Go,
     handVars, journal, jobVars, LockInv
<1>14. CASE DeliverLost
  <2>1. pc = "deliver" /\ pc' = "failing" /\ UNCHANGED status
    BY <1>14 DEF DeliverLost, Go
  <2>. QED  BY <2>1 DEF AttemptInv, Attempting, Delivered, LockInv
<1>15. CASE UNCHANGED vars
  BY <1>15 DEF vars, AttemptInv, Attempting, Delivered, Pending, handVars,
     journal, jobVars
<1>. QED
  BY <1>1, <1>2, <1>3, <1>4, <1>5, <1>6, <1>7, <1>8, <1>9, <1>10, <1>11, <1>12,
     <1>13, <1>14, <1>15 DEF Next

\* Archives follow the jobs, and the imports the archives.
LEMMA ArchiveStep ==
  ASSUME TypeOK, AttemptInv, ArchiveInv, [Next]_vars
  PROVE  ArchiveInv'
<1>1. CASE Execute \/ (\E d \in Deal : Publish(d)) \/ WriteHistory \/ OnTimer
           \/ Switch \/ List \/ Defer \/ Poll
  BY <1>1 DEF Execute, Publish, WriteHistory, OnTimer, Switch, List, Defer,
     Poll, ArchiveInv, ArchiveHasBoundary, OneDocument, handVars, journal,
     jobVars
<1>2. CASE Lock \/ KeepTerminal \/ StopTerminal \/ StartTerminal \/ Resumed
           \/ ResumePending \/ ResumeArchive
  BY <1>2 DEF Lock, KeepTerminal, StopTerminal, StartTerminal, Resumed,
     ResumePending, ResumeArchive, ArchiveInv, ArchiveHasBoundary, OneDocument,
     handVars, journal, jobVars, Go
<1>3. CASE Stage \/ AlreadyActive \/ SaveBaseline \/ Acknowledge \/ Activate
           \/ Switched \/ Completed
  BY <1>3 DEF Stage, AlreadyActive, SaveBaseline, Acknowledge, Activate,
     Switched, Completed, ArchiveInv, ArchiveHasBoundary, OneDocument,
     handVars, journal, jobVars, Go
<1>4. CASE Mismatch \/ Raise \/ Abandon \/ Crash
  BY <1>4 DEF Mismatch, Raise, Abandon, Crash, ArchiveInv, ArchiveHasBoundary,
     OneDocument, handVars, journal, jobVars, Go
<1>5. ASSUME NEW j \in Job, Start(j) PROVE ArchiveInv'
  <2>1. job' \in {job, job + 1} /\ job' \in Job /\ job \in Job
        /\ UNCHANGED <<archive, pending, server>>
    BY <1>5 DEF Start, handVars, journal, TypeOK, JobType
  <2>2. job' = job \/ (job' = job + 1 /\ archive[job'] = 0)
    BY <2>1 DEF ArchiveInv, Job
  <2>3. \A i \in Job : i > job' => archive[i] = 0
    BY <2>1 DEF ArchiveInv, Job
  <2>. QED  BY <2>1, <2>2, <2>3 DEF ArchiveInv, ArchiveHasBoundary, OneDocument
<1>6. CASE CommitPending
  <2>1. archive[job] = 0 /\ UNCHANGED <<archive, server, job>>
    BY <1>6 DEF CommitPending, journal
  <2>. QED  BY <2>1 DEF ArchiveInv, ArchiveHasBoundary, OneDocument
<1>7. CASE Promote
  <2>1. /\ archive' = [archive EXCEPT ![job] = pending.deals] /\ pending.job = job
        /\ pc = "promote" /\ UNCHANGED <<job, pending, server>>
    BY <1>7 DEF Promote, Go, StagedFor, Pending, journal
  <2>2. job \in Job /\ archive \in [Job -> 0..MaxDeals] /\ archive[job] = 0
    BY <2>1 DEF TypeOK, JobType, HandType, AttemptInv
  <2>3. \A j \in Job : archive'[j] = IF j = job THEN pending.deals ELSE archive[j]
    BY <2>1, <2>2
  <2>4. server[job] = 0
    BY <2>2 DEF ArchiveInv, OneDocument
  <2>. QED  BY <2>1, <2>2, <2>3, <2>4 DEF ArchiveInv, ArchiveHasBoundary, OneDocument, Job
<1>8. CASE Deliver
  <2>1. Import(doc) /\ archive[job] = doc /\ UNCHANGED <<archive, pending, job>>
    BY <1>8 DEF Deliver, Go, handVars, AttemptInv
  <2>2. \A j \in Job : server'[j] # 0 => server'[j] = archive[j]
    BY <2>1, ImportGrows DEF ArchiveInv, OneDocument, TypeOK, JobType
  <2>. QED  BY <2>1, <2>2 DEF ArchiveInv, ArchiveHasBoundary, OneDocument
<1>9. CASE DeliverLost
  <2>1. Import(doc) /\ archive[job] = doc /\ UNCHANGED <<archive, pending, job>>
    BY <1>9 DEF DeliverLost, Go, handVars, AttemptInv
  <2>2. \A j \in Job : server'[j] # 0 => server'[j] = archive[j]
    BY <2>1, ImportGrows DEF ArchiveInv, OneDocument, TypeOK, JobType
  <2>. QED  BY <2>1, <2>2 DEF ArchiveInv, ArchiveHasBoundary, OneDocument
<1>10. CASE UNCHANGED vars
  BY <1>10 DEF vars, ArchiveInv, ArchiveHasBoundary, OneDocument, handVars,
     journal, jobVars
<1>. QED
  BY <1>1, <1>2, <1>3, <1>4, <1>5, <1>6, <1>7, <1>8, <1>9, <1>10 DEF Next

\* A published deal is imported, delivered or in a file.
LEMMA StreamStep ==
  ASSUME TypeOK, FileInv, BoundaryInv, AttemptInv, StreamInv, [Next]_vars
  PROVE  StreamInv'
<1>1. CASE Execute \/ WriteHistory \/ OnTimer \/ StopTerminal \/ StartTerminal
  BY <1>1 DEF Execute, WriteHistory, OnTimer, StopTerminal, StartTerminal,
     StreamInv, SuppressedIsImported, Imported, Archived, eaVars, handVars,
     journal
<1>2. CASE (\E j \in Job : Start(j)) \/ Switch \/ List \/ Defer \/ Lock
           \/ KeepTerminal \/ Resumed
  BY <1>2 DEF Start, Switch, List, Defer, Lock, KeepTerminal, Resumed,
     StreamInv, SuppressedIsImported, Imported, Archived, eaVars, handVars,
     journal
<1>3. CASE CommitPending \/ ResumePending \/ ResumeArchive \/ Stage \/ Promote
  BY <1>3 DEF CommitPending, ResumePending, ResumeArchive, Stage, Promote,
     StreamInv, SuppressedIsImported, Imported, Archived, eaVars, handVars,
     journal
<1>4. CASE AlreadyActive \/ SaveBaseline \/ Switched \/ Completed \/ Mismatch
           \/ Raise \/ Abandon \/ Crash
  BY <1>4 DEF AlreadyActive, SaveBaseline, Switched, Completed, Mismatch,
     Raise, Abandon, Crash, StreamInv, SuppressedIsImported, Imported,
     Archived, eaVars, handVars, journal
<1>5. ASSUME NEW d \in Deal, Publish(d) PROVE StreamInv'
  <2>. DEFINE new == [seq |-> seq + 1, deal |-> d]
  <2>1. /\ files' = files \cup {new} /\ published' = published \cup {d} /\ new.deal = d
        /\ UNCHANGED <<active, server, live>>
    BY <1>5 DEF Publish, handVars, journal
  <2>. QED  BY <2>1 DEF StreamInv, SuppressedIsImported, Imported, Archived
<1>6. CASE Deliver
  <2>1. Import(doc) /\ UNCHANGED <<files, published, active, live>>
    BY <1>6 DEF Deliver, eaVars, handVars
  <2>2. \A d \in Deal : d \in Nat
    BY DEF Deal
  <2>3. \A d \in Deal : Imported(d) => Imported(d)'
    BY <2>1, <2>2, ImportGrows
  <2>. QED  BY <2>1, <2>3 DEF StreamInv, SuppressedIsImported, Archived, TypeOK, EaType
<1>7. CASE DeliverLost
  <2>1. Import(doc) /\ UNCHANGED <<files, published, active, live>>
    BY <1>7 DEF DeliverLost, eaVars, handVars
  <2>2. \A d \in Deal : d \in Nat
    BY DEF Deal
  <2>3. \A d \in Deal : Imported(d) => Imported(d)'
    BY <2>1, <2>2, ImportGrows
  <2>. QED  BY <2>1, <2>3 DEF StreamInv, SuppressedIsImported, Archived, TypeOK, EaType
<1>8. CASE Acknowledge
  <2>1. /\ files' = {f \in files : f.seq > pending.anchor} /\ pc = "acknowledge"
        /\ UNCHANGED <<published, active, server, live>>
    BY <1>8 DEF Acknowledge, journal
  <2>2. job \in Job /\ server[job] = pending.deals
    BY <2>1 DEF TypeOK, JobType, AttemptInv, Attempting, Delivered
  <2>3. ASSUME NEW f \in files, ~(f.seq > pending.anchor)
        PROVE  Imported(f.deal)
    <3>1. f.seq \in Nat /\ pending.anchor \in Nat
      BY DEF TypeOK, EaType, HandType, Cut
    <3>2. f.deal <= pending.deals
      BY <2>3, <3>1 DEF BoundaryInv
    <3>. QED  BY <2>2, <3>2 DEF Imported
  <2>4. \A d : Imported(d) => Imported(d)'
    BY <2>1 DEF Imported
  <2>5. ASSUME NEW d \in published
        PROVE  Imported(d)' \/ d \in live' \/ \E f \in files' : f.deal = d
    <3>1. CASE Imported(d) \/ d \in live
      BY <2>1, <2>4, <3>1
    <3>2. CASE \E f \in files : f.deal = d
      BY <2>1, <2>3, <2>4, <3>2
    <3>. QED  BY <3>1, <3>2 DEF StreamInv
  <2>6. SuppressedIsImported'
    BY <2>1, <2>4 DEF StreamInv, SuppressedIsImported, Archived
  <2>. QED  BY <2>1, <2>5, <2>6 DEF StreamInv
<1>9. CASE Activate
  <2>1. /\ active' = pending /\ pc = "activate"
        /\ UNCHANGED <<files, published, server, live>>
    BY <1>9 DEF Activate, eaVars, journal
  <2>2. job \in Job /\ server[job] = pending.deals
    BY <2>1 DEF TypeOK, JobType, AttemptInv, Attempting, Delivered
  <2>. QED  BY <2>1, <2>2 DEF StreamInv, SuppressedIsImported, Imported, Archived
<1>10. CASE Poll
  <2>1. {f \in files : Readable(f)} = files
    BY DEF FileInv
  <2>2. /\ live' = live \cup {d \in {f.deal : f \in files} : ~Archived(d)}
        /\ UNCHANGED <<published, active, server>>
    BY <1>10, <2>1 DEF Poll
  <2>3. \A d : (Imported(d)' <=> Imported(d)) /\ (Archived(d)' <=> Archived(d))
    BY <2>2 DEF Imported, Archived
  <2>4. ASSUME NEW f \in files PROVE Imported(f.deal) \/ f.deal \in live'
    BY <2>2 DEF StreamInv, SuppressedIsImported, TypeOK, EaType
  <2>5. ASSUME NEW d \in published PROVE Imported(d) \/ d \in live'
    BY <2>2, <2>4 DEF StreamInv
  <2>. QED  BY <2>2, <2>3, <2>5 DEF StreamInv, SuppressedIsImported
<1>11. CASE UNCHANGED vars
  BY <1>11 DEF vars, StreamInv, SuppressedIsImported, Imported, Archived,
     eaVars, handVars, journal
<1>. QED
  BY <1>1, <1>2, <1>3, <1>4, <1>5, <1>6, <1>7, <1>8, <1>9, <1>10, <1>11 DEF
     Next

\* The account before its first job.
LEMMA InitInv == Init => IInv
<1>. SUFFICES ASSUME Init PROVE IInv
  OBVIOUS
<1>. USE HandoffAssumption DEF HandoffAssumption, Init
<1>1. TypeOK
  <2>1. EaType
    <3>1. bundle = [mode |-> "history", seq |-> 1, upto |-> OldDeals, deals |-> 1..OldDeals]
      BY DEF HistoryBundle
    <3>2. 1..OldDeals \subseteq Deal /\ 1 \in 0..MaxSeq /\ OldDeals \in 0..MaxDeals
      BY DEF Deal
    <3>. QED  BY <3>1, <3>2 DEF EaType
  <2>2. HandType /\ JournalType
    BY DEF HandType, JournalType, Cut, NoPending, NoActive
  <2>3. JobType /\ FlagType
    BY DEF JobType, FlagType, Job
  <2>. QED  BY <2>1, <2>2, <2>3 DEF TypeOK
<1>2. LockInv
  BY DEF LockInv, Locked
<1>3. FileInv
  BY DEF FileInv, HistoryBundle, NoPending
<1>4. BoundaryInv
  BY DEF BoundaryInv, NoPending
<1>5. AttemptInv
  BY DEF AttemptInv, Attempting, Delivered
<1>6. ArchiveInv
  BY DEF ArchiveInv, ArchiveHasBoundary, OneDocument, Job
<1>7. StreamInv
  BY DEF StreamInv, SuppressedIsImported, Archived, NoActive, Deal
<1>. QED  BY <1>1, <1>2, <1>3, <1>4, <1>5, <1>6, <1>7 DEF IInv

\* The inductive invariant: lock and attempt, files and boundary, archive and stream.
THEOREM HandoffInvariant == Spec => []IInv
<1>1. IInv /\ [Next]_vars => IInv'
  BY TypeStep, LockStep, FileStep, BoundaryStep, AttemptStep, ArchiveStep, StreamStep
     DEF IInv
<1>. QED  BY InitInv, <1>1, PTL DEF Spec

\* HandoffIsWhole: no deal falls between the archive and the live stream of a
\* connected account, an archive has its boundary, a job imports one document, and
\* what the live stream suppresses was imported (real_handlers.py historical_sync).
THEOREM HandoffWhole == Spec => []HandoffIsWhole
<1>1. IInv => HandoffIsWhole
  <2>. SUFFICES ASSUME IInv PROVE HandoffIsWhole
    OBVIOUS
  <2>. USE HandoffAssumption DEF HandoffAssumption
  <2>1. ASSUME status = "connected", NEW d \in 1..executed, d \notin silent \/ d <= OldDeals
        PROVE  Accounted(d)
    <3>1. d \in Deal /\ d \in Nat
      BY DEF IInv, TypeOK, EaType, Deal
    <3>2. CASE Imported(d)
      BY <3>2 DEF Accounted
    <3>3. CASE ~Imported(d)
      <4>1. ~Archived(d)
        BY <3>1, <3>3 DEF IInv, StreamInv, SuppressedIsImported
      <4>2. ~(d <= OldDeals)
        <5>1. job \in Job /\ server[job] = pending.deals /\ OldDeals <= pending.deals
          BY <2>1 DEF IInv, AttemptInv, Pending, BoundaryInv, TypeOK, JobType, Job
        <5>2. pending.deals \in Nat
          BY DEF IInv, TypeOK, HandType, Cut
        <5>. QED  BY <3>1, <3>3, <5>1, <5>2 DEF Imported
      <4>3. CASE d \in published
        BY <3>3, <4>1, <4>3 DEF IInv, StreamInv, FileInv, Accounted
      <4>4. CASE d \notin published
        BY <2>1, <4>1, <4>2, <4>4 DEF Accounted
      <4>. QED  BY <4>3, <4>4
    <3>. QED  BY <3>2, <3>3
  <2>2. NothingLost
    BY <2>1 DEF NothingLost
  <2>. QED  BY <2>2 DEF IInv, ArchiveInv, StreamInv, HandoffIsWhole
<1>. QED  BY HandoffInvariant, <1>1, PTL

\* NeverTwice: the live route of a connected account repeats no deal of the archive
\* (event_supervisor.py poll_once, the ticket filter of the active handoff).
THEOREM LiveNeverTwice == Spec => NeverTwice
<1>. DEFINE A == status = "connected" => \A d \in live' \ live : ~Imported(d)
<1>1. IInv /\ [Next]_vars => [A]_vars
  <2>. SUFFICES ASSUME IInv, Next, status = "connected", NEW d \in live' \ live
                PROVE  ~Imported(d)
    OBVIOUS
  <2>1. CASE Poll
    <3>1. d \in {f.deal : f \in files} /\ ~Archived(d)
      BY <2>1 DEF Poll
    <3>2. active = pending /\ d \in Nat /\ pending.deals \in Nat /\ ~(d <= pending.deals)
      BY <3>1 DEF IInv, TypeOK, EaType, HandType, Cut, Deal, AttemptInv, Archived
    <3>3. ASSUME NEW j \in Job PROVE ~(d <= server[j])
      <4>1. server[j] <= pending.deals /\ server[j] \in Nat
        BY DEF IInv, BoundaryInv, TypeOK, JournalType
      <4>. QED  BY <3>2, <4>1
    <3>. QED  BY <3>3 DEF Imported
  <2>2. CASE ~Poll
    <3>1. live' = live
      BY <2>2 DEF Next, Execute, Publish, WriteHistory, OnTimer, Start, Lock, KeepTerminal,
         StopTerminal, StartTerminal, Resumed, CommitPending, ResumePending, ResumeArchive,
         Stage, Promote, Deliver, DeliverLost, AlreadyActive, SaveBaseline, Acknowledge,
         Activate, Switch, Switched, Completed, Mismatch, Raise, Abandon, Crash, List, Defer,
         journal
    <3>. QED  BY <3>1
  <2>. QED  BY <2>1, <2>2
<1>. QED  BY HandoffInvariant, <1>1, PTL DEF Spec, NeverTwice

-----------------------------------------------------------------------------
(* The composition.                                                         *)

\* A behaviour of the composition is one of the handoff.
LEMMA HandoffComposed == SpecOne => Spec
<1>1. InitOne => Init
  BY DEF InitOne
<1>2. [NextOne]_<<part, vars, balanceVars, excursionVars, leaseVars, runtimeVars>>
        => [Next]_vars
  BY DEF NextOne, HandoffMoves, BalanceMoves, TrackerMoves, LeaseMoves, RuntimeMoves
<1>. QED  BY <1>1, <1>2, PTL DEF SpecOne, Spec

-----------------------------------------------------------------------------
(* JobLease: two agents contend for the lease of a job.                     *)

\* The values a call and a keeper take.
LEMMA LeaseValues ==
  ASSUME Lease!LeaseAssumption
  PROVE  /\ Lease!NoCall \in Lease!Call /\ Lease!Posted \in Lease!Call
         /\ Lease!Off \in Lease!Keeper /\ Lease!Asleep \in Lease!Keeper
         /\ Lease!Posted \in Lease!Keeper
         /\ [Lease!Off EXCEPT !.state = "lost"] \in Lease!Keeper
BY DEF Lease!LeaseAssumption, Lease!NoCall, Lease!Posted, Lease!Off, Lease!Asleep,
   Lease!Call, Lease!Keeper

\* An answer, a failed POST and a tick keep the type of a call and of a keeper.
LEMMA LeaseChanges ==
  ASSUME Lease!LeaseAssumption
  PROVE  /\ \A c \in Lease!Call, s \in {"ok", "refused", "raised"} :
              [c EXCEPT !.state = s] \in Lease!Call
         /\ \A c \in Lease!Call : c.posts < MaxPosts =>
              [c EXCEPT !.posts = @ + 1, !.age = 0] \in Lease!Call
         /\ \A c \in Lease!Call : [c EXCEPT !.age = @ + 1] \in Lease!Call
         /\ \A k \in Lease!Keeper : k.posts < MaxPosts =>
              [k EXCEPT !.posts = @ + 1, !.age = 0] \in Lease!Keeper
         /\ \A k \in Lease!Keeper : [k EXCEPT !.age = @ + 1] \in Lease!Keeper
<1>1. ASSUME NEW c \in Lease!Call, NEW s \in {"ok", "refused", "raised"}
      PROVE  [c EXCEPT !.state = s] \in Lease!Call
  BY DEF Lease!Call
<1>2. ASSUME NEW c \in Lease!Call, c.posts < MaxPosts
      PROVE  [c EXCEPT !.posts = @ + 1, !.age = 0] \in Lease!Call
  <2>1. c.posts + 1 \in 0..MaxPosts
    BY <1>2 DEF Lease!Call, Lease!LeaseAssumption
  <2>. QED  BY <2>1 DEF Lease!Call
<1>3. ASSUME NEW c \in Lease!Call PROVE [c EXCEPT !.age = @ + 1] \in Lease!Call
  BY DEF Lease!Call
<1>4. ASSUME NEW k \in Lease!Keeper, k.posts < MaxPosts
      PROVE  [k EXCEPT !.posts = @ + 1, !.age = 0] \in Lease!Keeper
  <2>1. k.posts + 1 \in 0..MaxPosts
    BY <1>4 DEF Lease!Keeper, Lease!LeaseAssumption
  <2>. QED  BY <2>1 DEF Lease!Keeper
<1>5. ASSUME NEW k \in Lease!Keeper PROVE [k EXCEPT !.age = @ + 1] \in Lease!Keeper
  BY DEF Lease!Keeper
<1>. QED  BY <1>1, <1>2, <1>3, <1>4, <1>5

\* Leaving the handler and returning from run_once keep the types.
LEMMA LeaseLeaveType ==
  ASSUME Lease!LeaseAssumption, Lease!TypeOK, NEW a \in Agent,
         NEW how \in {"returned", "raised", "uncertain", "lost"}, Lease!Leave(a, how)
  PROVE  Lease!TypeOK'
BY LeaseValues DEF Lease!Leave, Lease!TypeOK, Lease!ServerType, Lease!ThreadType,
   Lease!serverVars

LEMMA LeaseReturnType ==
  ASSUME Lease!LeaseAssumption, Lease!TypeOK, NEW a \in Agent,
         NEW s \in {"lease_lost", "complete", "fail"}, Lease!Return(a, s),
         UNCHANGED <<Lease!serverVars, faults, crashes>>
  PROVE  Lease!TypeOK'
<1>1. local' \in [Agent -> [status : {"none", "running", "lease_lost", "complete", "fail"},
                            lease : 0..MaxLeases]]
  BY DEF Lease!Return, Lease!Record, Lease!TypeOK, Lease!ThreadType
<1>2. /\ at' \in [Agent -> Lease!Request \cup {"idle", "asleep", "handler", "join"}]
      /\ mine' \in [Agent -> 0..MaxLeases]
  BY DEF Lease!Return, Lease!TypeOK, Lease!ThreadType, Lease!LeaseAssumption
<1>3. call' \in [Agent -> Lease!Call] /\ keeper' \in [Agent -> Lease!Keeper]
  BY LeaseValues DEF Lease!Return, Lease!TypeOK, Lease!ThreadType
<1>. QED  BY <1>1, <1>2, <1>3 DEF Lease!Return, Lease!TypeOK, Lease!ServerType,
   Lease!ThreadType, Lease!serverVars

\* A POST that fails is posted again, or the request raises.
LEMMA LeasePostFailed ==
  ASSUME Lease!LeaseAssumption, Lease!TypeOK, NEW a \in Agent, Lease!PostFails(a)
  PROVE  /\ UNCHANGED <<Lease!serverVars, at, mine, keeper, outcome, local, crashes>>
         /\ call[a].state = "waiting" /\ Lease!CountFault(Lease!Msg(a, at[a], mine[a]))
         /\ wire' \in {wire, wire \cup {Lease!Msg(a, at[a], mine[a])}}
         /\ \E c \in Lease!Call : /\ call' = [call EXCEPT ![a] = c]
                         /\ c.state \in {"waiting", "raised"} /\ c.age \in {0, call[a].age}
<1>1. /\ UNCHANGED <<Lease!serverVars, at, mine, keeper, outcome, local, crashes>>
      /\ call[a].state = "waiting" /\ Lease!CountFault(Lease!Msg(a, at[a], mine[a]))
  BY DEF Lease!PostFails
<1>2. CASE call[a].posts < MaxPosts
  <2>. DEFINE c == [call[a] EXCEPT !.posts = call[a].posts + 1, !.age = 0]
  <2>1. c \in Lease!Call /\ call' = [call EXCEPT ![a] = c]
    BY <1>2, LeaseChanges DEF Lease!PostFails, Lease!Repost, Lease!TypeOK, Lease!ThreadType
  <2>2. c.state = "waiting" /\ c.age = 0
    BY <1>1 DEF Lease!TypeOK, Lease!ThreadType, Lease!Call
  <2>3. wire' = wire \cup {Lease!Msg(a, at[a], mine[a])}
    BY <1>2 DEF Lease!PostFails, Lease!Repost
  <2>. QED  BY <1>1, <2>1, <2>2, <2>3
<1>3. CASE ~(call[a].posts < MaxPosts)
  <2>. DEFINE c == [call[a] EXCEPT !.state = "raised"]
  <2>1. c \in Lease!Call /\ call' = [call EXCEPT ![a] = c] /\ UNCHANGED wire
    BY <1>3, LeaseChanges DEF Lease!PostFails, Lease!Repost, Lease!TypeOK, Lease!ThreadType
  <2>2. c.state = "raised" /\ c.age = call[a].age
    BY <1>1 DEF Lease!TypeOK, Lease!ThreadType, Lease!Call
  <2>. QED  BY <1>1, <2>1, <2>2
<1>. QED  BY <1>2, <1>3

LEMMA LeaseKeepFailed ==
  ASSUME Lease!LeaseAssumption, Lease!TypeOK, NEW a \in Agent, Lease!KeeperPostFails(a)
  PROVE  /\ UNCHANGED <<Lease!serverVars, at, mine, call, outcome, local, crashes>>
         /\ keeper[a].state = "waiting" /\ Lease!CountFault(Lease!Msg(a, "keep", mine[a]))
         /\ wire' \in {wire, wire \cup {Lease!Msg(a, "keep", mine[a])}}
         /\ \E k \in Lease!Keeper : /\ keeper' = [keeper EXCEPT ![a] = k]
                           /\ k.state \in {"waiting", "lost"} /\ k.age = 0
<1>1. /\ UNCHANGED <<Lease!serverVars, at, mine, call, outcome, local, crashes>>
      /\ keeper[a].state = "waiting" /\ Lease!CountFault(Lease!Msg(a, "keep", mine[a]))
  BY DEF Lease!KeeperPostFails
<1>2. CASE keeper[a].posts < MaxPosts
  <2>. DEFINE k == [keeper[a] EXCEPT !.posts = keeper[a].posts + 1, !.age = 0]
  <2>1. k \in Lease!Keeper /\ keeper' = [keeper EXCEPT ![a] = k]
    BY <1>2, LeaseChanges DEF Lease!KeeperPostFails, Lease!TypeOK, Lease!ThreadType
  <2>2. k.state = "waiting" /\ k.age = 0
    BY <1>1 DEF Lease!TypeOK, Lease!ThreadType, Lease!Keeper
  <2>3. wire' = wire \cup {Lease!Msg(a, "keep", mine[a])}
    BY <1>2 DEF Lease!KeeperPostFails
  <2>. QED  BY <1>1, <2>1, <2>2, <2>3
<1>3. CASE ~(keeper[a].posts < MaxPosts)
  <2>. DEFINE k == [Lease!Off EXCEPT !.state = "lost"]
  <2>1. k \in Lease!Keeper /\ keeper' = [keeper EXCEPT ![a] = k] /\ UNCHANGED wire
    BY <1>3, LeaseValues DEF Lease!KeeperPostFails
  <2>2. k.state = "lost" /\ k.age = 0
    BY DEF Lease!Off
  <2>. QED  BY <1>1, <2>1, <2>2
<1>. QED  BY <1>2, <1>3

\* What an answer changes: nothing, the keeper that waits for it, or the call.
LEMMA LeaseAnswerChanges ==
  ASSUME Lease!LeaseAssumption, Lease!TypeOK, NEW m \in wire, NEW got \in {"ok", "refused"},
         Lease!Answer(m, got)
  PROVE  \/ UNCHANGED <<call, mine, keeper>> /\ (Lease!WaitsFor(m) => faults' = faults + 1)
         \/ /\ m.kind = "keep" /\ Lease!WaitsFor(m) /\ UNCHANGED <<call, mine>>
            /\ keeper' = [keeper EXCEPT ![m.from] =
                 IF got = "ok" THEN Lease!Asleep ELSE [Lease!Off EXCEPT !.state = "lost"]]
         \/ /\ m.kind # "keep" /\ Lease!WaitsFor(m) /\ UNCHANGED keeper
            /\ call' \in [Agent -> Lease!Call] /\ call'[m.from].state = got
            /\ call'[m.from].age = call[m.from].age
            /\ \A b \in Agent \ {m.from} : call'[b] = call[b]
            /\ mine' = IF m.kind = "claim" /\ got = "ok"
                       THEN [mine EXCEPT ![m.from] = lease'] ELSE mine
<1>1. m.from \in Agent /\ call[m.from] \in Lease!Call
  BY DEF Lease!TypeOK, Lease!ThreadType, Lease!Message
<1>2. ASSUME m.kind # "keep", Lease!Receive(m, got)
      PROVE  /\ call' \in [Agent -> Lease!Call] /\ call'[m.from].state = got
             /\ call'[m.from].age = call[m.from].age
             /\ \A b \in Agent \ {m.from} : call'[b] = call[b]
  <2>. DEFINE c == [call[m.from] EXCEPT !.state = got]
  <2>1. c \in Lease!Call /\ c.state = got /\ c.age = call[m.from].age
    BY <1>1, LeaseChanges DEF Lease!Call
  <2>2. call' = [call EXCEPT ![m.from] = c]
    BY <1>2 DEF Lease!Receive
  <2>. QED  BY <1>1, <2>1, <2>2 DEF Lease!TypeOK, Lease!ThreadType
<1>3. CASE m.kind = "keep"
  BY <1>3 DEF Lease!Answer, Lease!Receive
<1>4. CASE m.kind # "keep"
  BY <1>2, <1>4 DEF Lease!Answer, Lease!Receive
<1>. QED  BY <1>3, <1>4


\* The variables keep their types.
LEMMA LeaseTypeStep ==
  ASSUME Lease!LeaseAssumption, Lease!TypeOK, Lease!ThreadInv, [Lease!Next]_Lease!vars
  PROVE  Lease!TypeOK'
<1>. USE DEF Lease!LeaseAssumption
<1>1. ASSUME NEW a \in Agent, Lease!Claim(a) PROVE Lease!TypeOK'
  BY <1>1, LeaseValues DEF Lease!Claim, Lease!TypeOK, Lease!ServerType, Lease!ThreadType,
     Lease!serverVars, Lease!Ask,
     Lease!Answered, Lease!Request, Lease!Msg, Lease!Message
<1>2. ASSUME NEW a \in Agent, Lease!NothingClaimed(a) PROVE Lease!TypeOK'
  BY <1>2, LeaseValues DEF Lease!NothingClaimed, Lease!TypeOK, Lease!ServerType,
     Lease!ThreadType,
     Lease!serverVars
<1>3. ASSUME NEW a \in Agent, Lease!StartRunning(a) PROVE Lease!TypeOK'
  BY <1>3, LeaseValues DEF Lease!StartRunning, Lease!TypeOK, Lease!ServerType,
     Lease!ThreadType, Lease!serverVars,
     Lease!Ask, Lease!Answered, Lease!Request, Lease!Msg, Lease!Message, Lease!Record
<1>4. ASSUME NEW a \in Agent, Lease!StartHandler(a) PROVE Lease!TypeOK'
  BY <1>4, LeaseValues DEF Lease!StartHandler, Lease!TypeOK, Lease!ServerType,
     Lease!ThreadType, Lease!serverVars
<1>5. ASSUME NEW a \in Agent, Lease!TransitionUncertain(a) PROVE Lease!TypeOK'
  BY <1>5, LeaseReturnType DEF Lease!TransitionUncertain
<1>6. ASSUME NEW a \in Agent, Lease!AskInHandler(a) PROVE Lease!TypeOK'
  BY <1>6, LeaseValues DEF Lease!AskInHandler, Lease!TypeOK, Lease!ServerType,
     Lease!ThreadType, Lease!serverVars,
     Lease!Ask, Lease!Answered, Lease!Request, Lease!Msg, Lease!Message
<1>7. ASSUME NEW a \in Agent, Lease!GuardRaises(a) PROVE Lease!TypeOK'
  BY <1>7, LeaseLeaveType DEF Lease!GuardRaises
<1>8. ASSUME NEW a \in Agent, Lease!HandlerGoesOn(a) PROVE Lease!TypeOK'
  BY <1>8, LeaseValues DEF Lease!HandlerGoesOn, Lease!TypeOK, Lease!ServerType,
     Lease!ThreadType, Lease!serverVars
<1>9. ASSUME NEW a \in Agent, Lease!HandlerInterrupted(a) PROVE Lease!TypeOK'
  BY <1>9, LeaseLeaveType DEF Lease!HandlerInterrupted
<1>10. ASSUME NEW a \in Agent, Lease!Join(a) PROVE Lease!TypeOK'
  <2>1. CASE outcome[a] = "returned" /\ keeper[a].state # "lost" /\ Lease!Ask(a, "confirm", mine[a])
              /\ keeper' = [keeper EXCEPT ![a] = Lease!Off] /\ UNCHANGED <<mine, local, outcome>>
    BY <1>10, <2>1, LeaseValues DEF Lease!Join, Lease!Ask, Lease!Request, Lease!Msg,
       Lease!Message, Lease!TypeOK, Lease!ServerType, Lease!ThreadType, Lease!serverVars
  <2>2. CASE Lease!Ask(a, "fail", mine[a])
              /\ keeper' = [keeper EXCEPT ![a] = Lease!Off] /\ UNCHANGED <<mine, local, outcome>>
    BY <1>10, <2>2, LeaseValues DEF Lease!Join, Lease!Ask, Lease!Request, Lease!Msg,
       Lease!Message, Lease!TypeOK, Lease!ServerType, Lease!ThreadType, Lease!serverVars
  <2>3. CASE Lease!Return(a, "lease_lost")
    BY <1>10, <2>3, LeaseReturnType DEF Lease!Join
  <2>. QED  BY <1>10, <2>1, <2>2, <2>3 DEF Lease!Join
<1>11. ASSUME NEW a \in Agent, Lease!Confirmed(a) PROVE Lease!TypeOK'
  BY <1>11, LeaseValues DEF Lease!Confirmed, Lease!TypeOK, Lease!ServerType,
     Lease!ThreadType, Lease!serverVars,
     Lease!Ask, Lease!Answered, Lease!Request, Lease!Msg, Lease!Message
<1>12. ASSUME NEW a \in Agent, Lease!ConfirmRefused(a) PROVE Lease!TypeOK'
  BY <1>12, LeaseReturnType DEF Lease!ConfirmRefused
<1>13. ASSUME NEW a \in Agent, Lease!ConfirmRaises(a) PROVE Lease!TypeOK'
  BY <1>13, LeaseValues DEF Lease!ConfirmRaises, Lease!TypeOK, Lease!ServerType,
     Lease!ThreadType,
     Lease!serverVars, Lease!Ask, Lease!Answered, Lease!Request, Lease!Msg, Lease!Message
<1>14. ASSUME NEW a \in Agent, Lease!RecordEnd(a) PROVE Lease!TypeOK'
  BY <1>14, LeaseReturnType DEF Lease!RecordEnd
<1>15. ASSUME NEW a \in Agent, Lease!KeeperWakes(a) PROVE Lease!TypeOK'
  BY <1>15, LeaseValues DEF Lease!KeeperWakes, Lease!TypeOK, Lease!ServerType,
     Lease!ThreadType, Lease!serverVars,
     Lease!Request, Lease!Msg, Lease!Message
<1>16. ASSUME NEW a \in Agent, Lease!HandlerEnds(a) PROVE Lease!TypeOK'
  BY <1>16, LeaseLeaveType DEF Lease!HandlerEnds
<1>17. ASSUME NEW a \in Agent, Lease!PostFails(a) PROVE Lease!TypeOK'
  <2>1. Lease!Msg(a, at[a], mine[a]) \in Lease!Message
    BY <1>17 DEF Lease!PostFails, Lease!Msg, Lease!Message, Lease!TypeOK, Lease!ThreadType,
       Lease!ThreadInv
  <2>2. faults' \in 0..MaxFaults
    BY <1>17, LeasePostFailed DEF Lease!CountFault, Lease!TypeOK, Lease!LeaseAssumption
  <2>3. call' \in [Agent -> Lease!Call] /\ wire' \subseteq Lease!Message
    BY <1>17, <2>1, LeasePostFailed DEF Lease!TypeOK, Lease!ThreadType
  <2>. QED  BY <1>17, <2>2, <2>3, LeasePostFailed DEF Lease!TypeOK, Lease!ThreadType,
     Lease!ServerType, Lease!serverVars
<1>18. ASSUME NEW a \in Agent, Lease!KeeperPostFails(a) PROVE Lease!TypeOK'
  <2>1. Lease!Msg(a, "keep", mine[a]) \in Lease!Message
    BY DEF Lease!Msg, Lease!Message, Lease!TypeOK, Lease!ThreadType
  <2>2. faults' \in 0..MaxFaults
    BY <1>18, LeaseKeepFailed DEF Lease!CountFault, Lease!TypeOK, Lease!LeaseAssumption
  <2>3. keeper' \in [Agent -> Lease!Keeper] /\ wire' \subseteq Lease!Message
    BY <1>18, <2>1, LeaseKeepFailed DEF Lease!TypeOK, Lease!ThreadType
  <2>. QED  BY <1>18, <2>2, <2>3, LeaseKeepFailed DEF Lease!TypeOK, Lease!ThreadType,
     Lease!ServerType, Lease!serverVars
<1>19. ASSUME NEW a \in Agent, Lease!Crash(a) PROVE Lease!TypeOK'
  BY <1>19, LeaseValues DEF Lease!Crash, Lease!TypeOK, Lease!ServerType, Lease!ThreadType,
     Lease!serverVars
<1>20. ASSUME NEW m \in wire, Lease!Serve(m) PROVE Lease!TypeOK'
  <2>1. PICK got \in {"ok", "refused"} :
          /\ IF m.kind = "claim" THEN Lease!ServeClaim(got)
             ELSE Lease!ServeLeased(m.kind, m.lease, got)
          /\ Lease!Answer(m, got)
    BY <1>20 DEF Lease!Serve
  <2>2. /\ wire' \subseteq Lease!Message /\ m \in Lease!Message
        /\ UNCHANGED <<at, outcome, local, crashes>>
    BY <1>20 DEF Lease!Serve, Lease!TypeOK
  <2>3. Lease!ServerType'
    <3>1. CASE m.kind = "claim"
      BY <2>1, <3>1 DEF Lease!ServeClaim, Lease!TypeOK, Lease!ServerType, Lease!serverVars,
         Lease!LeaseAssumption
    <3>2. CASE m.kind # "claim"
      BY <2>1, <2>2, <3>2 DEF Lease!ServeLeased, Lease!TypeOK, Lease!ServerType,
         Lease!Message, Lease!LeaseAssumption
    <3>. QED  BY <3>1, <3>2
  <2>4. call' \in [Agent -> Lease!Call] /\ keeper' \in [Agent -> Lease!Keeper]
    BY <2>1, LeaseAnswerChanges, LeaseValues DEF Lease!TypeOK, Lease!ThreadType
  <2>5. mine' \in [Agent -> 0..MaxLeases]
    BY <2>1, <2>3, LeaseAnswerChanges DEF Lease!TypeOK, Lease!ThreadType, Lease!ServerType
  <2>6. faults' \in 0..MaxFaults
    BY <2>1 DEF Lease!Answer, Lease!Receive, Lease!TypeOK, Lease!LeaseAssumption
  <2>. QED  BY <2>2, <2>3, <2>4, <2>5, <2>6 DEF Lease!TypeOK, Lease!ThreadType
<1>21. CASE Lease!Tick
  <2>1. call' \in [Agent -> Lease!Call] /\ keeper' \in [Agent -> Lease!Keeper]
    BY <1>21, LeaseChanges DEF Lease!Tick, Lease!TypeOK, Lease!ThreadType
  <2>2. at' \in [Agent -> Lease!Request \cup {"idle", "asleep", "handler", "join"}]
    BY <1>21 DEF Lease!Tick, Lease!TypeOK, Lease!ThreadType
  <2>3. Lease!ServerType'
    BY <1>21 DEF Lease!Tick, Lease!TypeOK, Lease!ServerType, Lease!LeaseAssumption
  <2>. QED  BY <1>21, <2>1, <2>2, <2>3 DEF Lease!Tick, Lease!TypeOK, Lease!ThreadType
<1>22. CASE UNCHANGED Lease!vars
  BY <1>22 DEF Lease!vars, Lease!TypeOK, Lease!ServerType, Lease!ThreadType,
     Lease!serverVars, Lease!agentVars
<1>. QED
  BY <1>1, <1>2, <1>3, <1>4, <1>5, <1>6, <1>7, <1>8, <1>9, <1>10, <1>11, <1>12,
     <1>13, <1>14, <1>15, <1>16, <1>17, <1>18, <1>19, <1>20, <1>21, <1>22 DEF
     Lease!Next, Lease!Network, Lease!Runs

\* A request is under way where run_once waits for one, and none waits too long.
LEMMA LeaseThreadStep ==
  ASSUME Lease!LeaseAssumption, Lease!TypeOK, Lease!ThreadInv, [Lease!Next]_Lease!vars
  PROVE  Lease!ThreadInv'
<1>. USE DEF Lease!LeaseAssumption
<1>1. ASSUME NEW a \in Agent, Lease!Claim(a) PROVE Lease!ThreadInv'
  BY <1>1 DEF Lease!Claim, Lease!TypeOK, Lease!ThreadType, Lease!ThreadInv, Lease!Kept,
     Lease!Request, Lease!Ask,
     Lease!Answered, Lease!NoCall, Lease!Off, Lease!Posted, Lease!Asleep
<1>2. ASSUME NEW a \in Agent, Lease!NothingClaimed(a) PROVE Lease!ThreadInv'
  BY <1>2 DEF Lease!NothingClaimed, Lease!TypeOK, Lease!ThreadType, Lease!ThreadInv,
     Lease!Kept, Lease!Request,
     Lease!NoCall, Lease!Off, Lease!Posted, Lease!Asleep, Lease!Answered
<1>3. ASSUME NEW a \in Agent, Lease!StartRunning(a) PROVE Lease!ThreadInv'
  BY <1>3 DEF Lease!StartRunning, Lease!TypeOK, Lease!ThreadType, Lease!ThreadInv,
     Lease!Kept, Lease!Request, Lease!Ask,
     Lease!Answered, Lease!NoCall, Lease!Off, Lease!Posted, Lease!Asleep
<1>4. ASSUME NEW a \in Agent, Lease!StartHandler(a) PROVE Lease!ThreadInv'
  BY <1>4 DEF Lease!StartHandler, Lease!TypeOK, Lease!ThreadType, Lease!ThreadInv,
     Lease!Kept, Lease!Request,
     Lease!NoCall, Lease!Off, Lease!Posted, Lease!Asleep, Lease!Answered
<1>5. ASSUME NEW a \in Agent, Lease!TransitionUncertain(a) PROVE Lease!ThreadInv'
  BY <1>5 DEF Lease!TransitionUncertain, Lease!TypeOK, Lease!ThreadType, Lease!ThreadInv,
     Lease!Kept,
     Lease!Request, Lease!Return, Lease!Answered, Lease!NoCall, Lease!Off, Lease!Posted,
        Lease!Asleep
<1>6. ASSUME NEW a \in Agent, Lease!AskInHandler(a) PROVE Lease!ThreadInv'
  BY <1>6 DEF Lease!AskInHandler, Lease!TypeOK, Lease!ThreadType, Lease!ThreadInv,
     Lease!Kept, Lease!Request, Lease!Ask,
     Lease!Answered, Lease!NoCall, Lease!Off, Lease!Posted, Lease!Asleep
<1>7. ASSUME NEW a \in Agent, Lease!GuardRaises(a) PROVE Lease!ThreadInv'
  BY <1>7 DEF Lease!GuardRaises, Lease!TypeOK, Lease!ThreadType, Lease!ThreadInv, Lease!Kept,
     Lease!Request, Lease!Leave,
     Lease!NoCall, Lease!Off, Lease!Posted, Lease!Asleep
<1>8. ASSUME NEW a \in Agent, Lease!HandlerGoesOn(a) PROVE Lease!ThreadInv'
  BY <1>8 DEF Lease!HandlerGoesOn, Lease!TypeOK, Lease!ThreadType, Lease!ThreadInv,
     Lease!Kept, Lease!Request,
     Lease!NoCall, Lease!Off, Lease!Posted, Lease!Asleep, Lease!Answered
<1>9. ASSUME NEW a \in Agent, Lease!HandlerInterrupted(a) PROVE Lease!ThreadInv'
  BY <1>9 DEF Lease!HandlerInterrupted, Lease!TypeOK, Lease!ThreadType, Lease!ThreadInv,
     Lease!Kept, Lease!Request,
     Lease!Leave, Lease!Answered, Lease!NoCall, Lease!Off, Lease!Posted, Lease!Asleep
<1>10. ASSUME NEW a \in Agent, Lease!Join(a) PROVE Lease!ThreadInv'
  BY <1>10 DEF Lease!Join, Lease!TypeOK, Lease!ThreadType, Lease!ThreadInv, Lease!Kept,
     Lease!Request, Lease!Ask,
     Lease!Answered, Lease!NoCall, Lease!Off, Lease!Posted, Lease!Asleep, Lease!Return
<1>11. ASSUME NEW a \in Agent, Lease!Confirmed(a) PROVE Lease!ThreadInv'
  BY <1>11 DEF Lease!Confirmed, Lease!TypeOK, Lease!ThreadType, Lease!ThreadInv, Lease!Kept,
     Lease!Request, Lease!Ask,
     Lease!Answered, Lease!NoCall, Lease!Off, Lease!Posted, Lease!Asleep
<1>12. ASSUME NEW a \in Agent, Lease!ConfirmRefused(a) PROVE Lease!ThreadInv'
  BY <1>12 DEF Lease!ConfirmRefused, Lease!TypeOK, Lease!ThreadType, Lease!ThreadInv,
     Lease!Kept, Lease!Request,
     Lease!Return, Lease!Answered, Lease!NoCall, Lease!Off, Lease!Posted, Lease!Asleep
<1>13. ASSUME NEW a \in Agent, Lease!ConfirmRaises(a) PROVE Lease!ThreadInv'
  BY <1>13 DEF Lease!ConfirmRaises, Lease!TypeOK, Lease!ThreadType, Lease!ThreadInv,
     Lease!Kept, Lease!Request,
     Lease!Ask, Lease!Answered, Lease!NoCall, Lease!Off, Lease!Posted, Lease!Asleep
<1>14. ASSUME NEW a \in Agent, Lease!RecordEnd(a) PROVE Lease!ThreadInv'
  BY <1>14 DEF Lease!RecordEnd, Lease!TypeOK, Lease!ThreadType, Lease!ThreadInv, Lease!Kept,
     Lease!Request, Lease!Return,
     Lease!Answered, Lease!NoCall, Lease!Off, Lease!Posted, Lease!Asleep
<1>15. ASSUME NEW a \in Agent, Lease!KeeperWakes(a) PROVE Lease!ThreadInv'
  BY <1>15 DEF Lease!KeeperWakes, Lease!TypeOK, Lease!ThreadType, Lease!ThreadInv,
     Lease!Kept, Lease!Request,
     Lease!NoCall, Lease!Off, Lease!Posted, Lease!Asleep
<1>16. ASSUME NEW a \in Agent, Lease!HandlerEnds(a) PROVE Lease!ThreadInv'
  BY <1>16 DEF Lease!HandlerEnds, Lease!TypeOK, Lease!ThreadType, Lease!ThreadInv,
     Lease!Kept, Lease!Request,
     Lease!Leave, Lease!NoCall, Lease!Off, Lease!Posted, Lease!Asleep
<1>17. ASSUME NEW a \in Agent, Lease!PostFails(a) PROVE Lease!ThreadInv'
  BY <1>17, LeasePostFailed DEF Lease!ThreadInv, Lease!TypeOK, Lease!ThreadType
<1>18. ASSUME NEW a \in Agent, Lease!KeeperPostFails(a) PROVE Lease!ThreadInv'
  BY <1>18, LeaseKeepFailed DEF Lease!ThreadInv, Lease!TypeOK, Lease!ThreadType
<1>19. ASSUME NEW a \in Agent, Lease!Crash(a) PROVE Lease!ThreadInv'
  BY <1>19 DEF Lease!Crash, Lease!TypeOK, Lease!ThreadType, Lease!ThreadInv, Lease!Kept,
     Lease!Request, Lease!NoCall,
     Lease!Off, Lease!Posted, Lease!Asleep
<1>20. ASSUME NEW m \in wire, Lease!Serve(m) PROVE Lease!ThreadInv'
  <2>1. PICK got \in {"ok", "refused"} : Lease!Answer(m, got)
    BY <1>20 DEF Lease!Serve
  <2>2. m.from \in Agent /\ UNCHANGED at
    BY <1>20 DEF Lease!Serve, Lease!TypeOK, Lease!Message
  <2>3. CASE UNCHANGED <<call, mine, keeper>>
    BY <2>2, <2>3 DEF Lease!ThreadInv
  <2>4. CASE m.kind = "keep" /\ Lease!WaitsFor(m) /\ ~UNCHANGED <<call, mine, keeper>>
    <3>1. UNCHANGED <<call, mine>> /\ keeper[m.from].state = "waiting"
      BY <2>1, <2>4, LeaseAnswerChanges DEF Lease!WaitsFor
    <3>2. PICK k \in {Lease!Asleep, [Lease!Off EXCEPT !.state = "lost"]} :
            keeper' = [keeper EXCEPT ![m.from] = k]
      BY <2>1, <2>4, LeaseAnswerChanges DEF Lease!WaitsFor
    <3>3. Lease!Asleep.state = "asleep" /\ Lease!Asleep.age = 0
      BY DEF Lease!Asleep
    <3>4. [Lease!Off EXCEPT !.state = "lost"].state = "lost"
      BY DEF Lease!Off
    <3>5. at[m.from] \in Lease!Kept
      BY <2>2, <3>1 DEF Lease!ThreadInv
    <3>6. k.state \in {"asleep", "lost"} /\ (k.state = "asleep" => k.age <= IntervalTicks)
      <4>1. CASE k = Lease!Asleep
        BY <3>3, <4>1
      <4>2. CASE k = [Lease!Off EXCEPT !.state = "lost"]
        BY <3>4, <4>2
      <4>. QED  BY <3>2, <4>1, <4>2
    <3>. QED  BY <2>2, <3>1, <3>2, <3>5, <3>6 DEF Lease!TypeOK, Lease!ThreadType,
       Lease!ThreadInv
  <2>5. CASE m.kind # "keep" /\ Lease!WaitsFor(m) /\ ~UNCHANGED <<call, mine, keeper>>
    <3>1. at[m.from] = m.kind /\ call[m.from].state = "waiting"
      BY <2>5 DEF Lease!WaitsFor
    <3>2. /\ call'[m.from].state = got /\ call'[m.from].age = call[m.from].age
          /\ \A b \in Agent \ {m.from} : call'[b] = call[b]
          /\ UNCHANGED keeper
      BY <2>1, <2>5, LeaseAnswerChanges
    <3>3. mine' = IF m.kind = "claim" /\ got = "ok"
                  THEN [mine EXCEPT ![m.from] = lease'] ELSE mine
      BY <2>1, <2>5, LeaseAnswerChanges
    <3>4. got # "none" /\ at[m.from] \in Lease!Request /\ at[m.from] \notin {"idle", "asleep"}
      BY <2>2, <3>1 DEF Lease!ThreadInv, Lease!Request
    <3>. QED  BY <2>2, <3>1, <3>2, <3>3, <3>4 DEF Lease!ThreadInv, Lease!TypeOK,
       Lease!ThreadType
  <2>. QED  BY <2>1, <2>3, <2>4, <2>5, LeaseAnswerChanges
<1>21. CASE Lease!Tick
  BY <1>21 DEF Lease!Tick, Lease!NothingDue, Lease!TypeOK, Lease!ThreadType, Lease!Call,
     Lease!Keeper, Lease!ThreadInv, Lease!Kept, Lease!Request
<1>22. CASE UNCHANGED Lease!vars
  BY <1>22 DEF Lease!vars, Lease!ThreadInv, Lease!agentVars
<1>. QED
  BY <1>1, <1>2, <1>3, <1>4, <1>5, <1>6, <1>7, <1>8, <1>9, <1>10, <1>11, <1>12,
     <1>13, <1>14, <1>15, <1>16, <1>17, <1>18, <1>19, <1>20, <1>21, <1>22 DEF
     Lease!Next, Lease!Network, Lease!Runs

\* An acknowledged transition has ended the job, for good.
LEMMA LeaseRecordStep ==
  ASSUME Lease!LeaseAssumption, Lease!TypeOK, Lease!ThreadInv, Lease!RecordInv, [Lease!Next]_Lease!vars
  PROVE  Lease!RecordInv'
<1>. USE DEF Lease!LeaseAssumption
<1>1. ASSUME NEW a \in Agent, Lease!Claim(a) PROVE Lease!RecordInv'
  BY <1>1 DEF Lease!Claim, Lease!TypeOK, Lease!ServerType, Lease!ThreadType, Lease!RecordInv,
     Lease!RecordedIsTrue,
     Lease!Ending, Lease!serverVars, Lease!Ask, Lease!Answered, Lease!NoCall, Lease!Posted,
        Lease!Msg
<1>2. ASSUME NEW a \in Agent, Lease!NothingClaimed(a) PROVE Lease!RecordInv'
  BY <1>2 DEF Lease!NothingClaimed, Lease!TypeOK, Lease!ServerType, Lease!ThreadType,
     Lease!RecordInv,
     Lease!RecordedIsTrue, Lease!Ending, Lease!serverVars, Lease!NoCall, Lease!Posted,
        Lease!Answered
<1>3. ASSUME NEW a \in Agent, Lease!StartRunning(a) PROVE Lease!RecordInv'
  BY <1>3 DEF Lease!StartRunning, Lease!TypeOK, Lease!ServerType, Lease!ThreadType,
     Lease!RecordInv,
     Lease!RecordedIsTrue, Lease!Ending, Lease!serverVars, Lease!Ask, Lease!Answered,
        Lease!NoCall, Lease!Posted, Lease!Msg,
     Lease!Record
<1>4. ASSUME NEW a \in Agent, Lease!StartHandler(a) PROVE Lease!RecordInv'
  BY <1>4 DEF Lease!StartHandler, Lease!TypeOK, Lease!ServerType, Lease!ThreadType,
     Lease!RecordInv,
     Lease!RecordedIsTrue, Lease!Ending, Lease!serverVars, Lease!NoCall, Lease!Posted,
        Lease!Answered
<1>5. ASSUME NEW a \in Agent, Lease!TransitionUncertain(a) PROVE Lease!RecordInv'
  BY <1>5 DEF Lease!TransitionUncertain, Lease!TypeOK, Lease!ServerType, Lease!ThreadType,
     Lease!RecordInv,
     Lease!RecordedIsTrue, Lease!Ending, Lease!serverVars, Lease!Return, Lease!Record,
        Lease!Answered, Lease!NoCall,
     Lease!Posted
<1>6. ASSUME NEW a \in Agent, Lease!AskInHandler(a) PROVE Lease!RecordInv'
  BY <1>6 DEF Lease!AskInHandler, Lease!TypeOK, Lease!ServerType, Lease!ThreadType,
     Lease!RecordInv,
     Lease!RecordedIsTrue, Lease!Ending, Lease!serverVars, Lease!Ask, Lease!Answered,
        Lease!NoCall, Lease!Posted, Lease!Msg
<1>7. ASSUME NEW a \in Agent, Lease!GuardRaises(a) PROVE Lease!RecordInv'
  BY <1>7 DEF Lease!GuardRaises, Lease!TypeOK, Lease!ServerType, Lease!ThreadType,
     Lease!RecordInv,
     Lease!RecordedIsTrue, Lease!Ending, Lease!serverVars, Lease!Leave, Lease!NoCall,
        Lease!Posted
<1>8. ASSUME NEW a \in Agent, Lease!HandlerGoesOn(a) PROVE Lease!RecordInv'
  BY <1>8 DEF Lease!HandlerGoesOn, Lease!TypeOK, Lease!ServerType, Lease!ThreadType,
     Lease!RecordInv,
     Lease!RecordedIsTrue, Lease!Ending, Lease!serverVars, Lease!NoCall, Lease!Posted,
        Lease!Answered
<1>9. ASSUME NEW a \in Agent, Lease!HandlerInterrupted(a) PROVE Lease!RecordInv'
  BY <1>9 DEF Lease!HandlerInterrupted, Lease!TypeOK, Lease!ServerType, Lease!ThreadType,
     Lease!RecordInv,
     Lease!RecordedIsTrue, Lease!Ending, Lease!serverVars, Lease!Leave, Lease!Answered,
        Lease!NoCall, Lease!Posted
<1>10. ASSUME NEW a \in Agent, Lease!Join(a) PROVE Lease!RecordInv'
  <2>1. CASE Lease!Ask(a, "confirm", mine[a]) /\ UNCHANGED <<mine, local, outcome>>
    BY <1>10, <2>1 DEF Lease!Join, Lease!TypeOK, Lease!ServerType, Lease!ThreadType,
       Lease!RecordInv,
       Lease!RecordedIsTrue, Lease!Ending, Lease!serverVars, Lease!Ask, Lease!Answered,
          Lease!NoCall, Lease!Posted, Lease!Msg
  <2>2. CASE Lease!Ask(a, "fail", mine[a]) /\ UNCHANGED <<mine, local, outcome>>
    BY <1>10, <2>2 DEF Lease!Join, Lease!TypeOK, Lease!ServerType, Lease!ThreadType,
       Lease!RecordInv,
       Lease!RecordedIsTrue, Lease!Ending, Lease!serverVars, Lease!Ask, Lease!Answered,
          Lease!NoCall, Lease!Posted, Lease!Msg
  <2>3. CASE Lease!Return(a, "lease_lost")
    BY <1>10, <2>3 DEF Lease!Join, Lease!TypeOK, Lease!ServerType, Lease!ThreadType,
       Lease!RecordInv,
       Lease!RecordedIsTrue, Lease!Ending, Lease!serverVars, Lease!Return, Lease!Record,
          Lease!Answered, Lease!NoCall,
       Lease!Posted
  <2>. QED  BY <1>10, <2>1, <2>2, <2>3 DEF Lease!Join
<1>11. ASSUME NEW a \in Agent, Lease!Confirmed(a) PROVE Lease!RecordInv'
  BY <1>11 DEF Lease!Confirmed, Lease!TypeOK, Lease!ServerType, Lease!ThreadType,
     Lease!RecordInv,
     Lease!RecordedIsTrue, Lease!Ending, Lease!serverVars, Lease!Ask, Lease!Answered,
        Lease!NoCall, Lease!Posted, Lease!Msg
<1>12. ASSUME NEW a \in Agent, Lease!ConfirmRefused(a) PROVE Lease!RecordInv'
  BY <1>12 DEF Lease!ConfirmRefused, Lease!TypeOK, Lease!ServerType, Lease!ThreadType,
     Lease!RecordInv,
     Lease!RecordedIsTrue, Lease!Ending, Lease!serverVars, Lease!Return, Lease!Record,
        Lease!Answered, Lease!NoCall,
     Lease!Posted
<1>13. ASSUME NEW a \in Agent, Lease!ConfirmRaises(a) PROVE Lease!RecordInv'
  BY <1>13 DEF Lease!ConfirmRaises, Lease!TypeOK, Lease!ServerType, Lease!ThreadType,
     Lease!RecordInv,
     Lease!RecordedIsTrue, Lease!Ending, Lease!serverVars, Lease!Ask, Lease!Answered,
        Lease!NoCall, Lease!Posted, Lease!Msg
<1>14. ASSUME NEW a \in Agent, Lease!RecordEnd(a) PROVE Lease!RecordInv'
  BY <1>14 DEF Lease!RecordEnd, Lease!TypeOK, Lease!ServerType, Lease!ThreadType,
     Lease!RecordInv,
     Lease!RecordedIsTrue, Lease!Ending, Lease!serverVars, Lease!Return, Lease!Record,
        Lease!Answered, Lease!NoCall,
     Lease!Posted
<1>15. ASSUME NEW a \in Agent, Lease!KeeperWakes(a) PROVE Lease!RecordInv'
  BY <1>15 DEF Lease!KeeperWakes, Lease!TypeOK, Lease!ServerType, Lease!ThreadType,
     Lease!RecordInv,
     Lease!RecordedIsTrue, Lease!Ending, Lease!serverVars, Lease!Msg
<1>16. ASSUME NEW a \in Agent, Lease!HandlerEnds(a) PROVE Lease!RecordInv'
  BY <1>16 DEF Lease!HandlerEnds, Lease!TypeOK, Lease!ServerType, Lease!ThreadType,
     Lease!RecordInv,
     Lease!RecordedIsTrue, Lease!Ending, Lease!serverVars, Lease!Leave, Lease!NoCall,
        Lease!Posted
<1>17. ASSUME NEW a \in Agent, Lease!PostFails(a) PROVE Lease!RecordInv'
  <2>1. Lease!Msg(a, at[a], mine[a]).lease = mine[a] /\ UNCHANGED <<jobStatus, lease, endedBy>>
    BY <1>17, LeasePostFailed DEF Lease!Msg, Lease!serverVars
  <2>2. \A n \in wire' : n.lease <= lease
    BY <1>17, <2>1, LeasePostFailed DEF Lease!RecordInv
  <2>3. \A b \in Agent : call'[b].state = "ok" => call[b].state = "ok"
    BY <1>17, LeasePostFailed DEF Lease!TypeOK, Lease!ThreadType
  <2>. QED  BY <1>17, <2>1, <2>2, <2>3, LeasePostFailed DEF Lease!RecordInv,
     Lease!RecordedIsTrue
<1>18. ASSUME NEW a \in Agent, Lease!KeeperPostFails(a) PROVE Lease!RecordInv'
  <2>1. Lease!Msg(a, "keep", mine[a]).lease = mine[a] /\ UNCHANGED <<jobStatus, lease, endedBy>>
    BY <1>18, LeaseKeepFailed DEF Lease!Msg, Lease!serverVars
  <2>2. \A n \in wire' : n.lease <= lease
    BY <1>18, <2>1, LeaseKeepFailed DEF Lease!RecordInv
  <2>3. \A b \in Agent : call'[b] = call[b]
    BY <1>18, LeaseKeepFailed DEF Lease!TypeOK, Lease!ThreadType
  <2>. QED  BY <1>18, <2>1, <2>2, <2>3, LeaseKeepFailed DEF Lease!RecordInv,
     Lease!RecordedIsTrue
<1>19. ASSUME NEW a \in Agent, Lease!Crash(a) PROVE Lease!RecordInv'
  BY <1>19 DEF Lease!Crash, Lease!TypeOK, Lease!ServerType, Lease!ThreadType, Lease!RecordInv,
     Lease!RecordedIsTrue, Lease!Ending, Lease!serverVars, Lease!NoCall, Lease!Posted
<1>20. ASSUME NEW m \in wire, Lease!Serve(m) PROVE Lease!RecordInv'
  <2>1. PICK got \in {"ok", "refused"} :
          /\ IF m.kind = "claim" THEN Lease!ServeClaim(got)
             ELSE Lease!ServeLeased(m.kind, m.lease, got)
          /\ Lease!Answer(m, got)
    BY <1>20 DEF Lease!Serve
  <2>2. /\ m.from \in Agent /\ m.kind \in Lease!Request \cup {"keep"} /\ m.lease \in 0..MaxLeases
        /\ UNCHANGED <<at, local>> /\ wire' \subseteq wire
    BY <1>20 DEF Lease!Serve, Lease!TypeOK, Lease!Message
  <2>3. /\ lease \in Nat /\ lease' \in Nat /\ lease <= lease' /\ (jobStatus = "queued" => lease = 0)
        /\ jobStatus' = "queued" => jobStatus = "queued" /\ lease' = lease
        /\ jobStatus \in Lease!Ending => UNCHANGED <<jobStatus, endedBy>>
    <3>1. CASE m.kind = "claim"
      BY <2>1, <3>1 DEF Lease!ServeClaim, Lease!TypeOK, Lease!ServerType, Lease!serverVars,
         Lease!Ending, Lease!RecordInv
    <3>2. CASE m.kind # "claim"
      BY <2>1, <3>2 DEF Lease!ServeLeased, Lease!Honoured, Lease!TypeOK, Lease!ServerType,
         Lease!Ending, Lease!RecordInv
    <3>. QED  BY <3>1, <3>2
  <2>4. ASSUME m.kind \in Lease!Ending, got = "ok"
        PROVE  jobStatus' = m.kind /\ endedBy' = m.lease
    BY <2>1, <2>4 DEF Lease!ServeLeased, Lease!Ending
  <2>5. ASSUME NEW b \in Agent, at[b] \in Lease!Ending, call'[b].state = "ok"
        PROVE  jobStatus' = at[b] /\ endedBy' = mine'[b]
    <3>1. CASE call'[b] = call[b] /\ mine'[b] = mine[b]
      BY <2>3, <2>5, <3>1 DEF Lease!RecordInv
    <3>2. CASE b = m.from /\ m.kind # "keep" /\ Lease!WaitsFor(m) /\ got = "ok"
      BY <2>1, <2>4, <2>5, <3>2, LeaseAnswerChanges DEF Lease!WaitsFor, Lease!Ending
    <3>. QED  BY <2>1, <2>2, <2>5, <3>1, <3>2, LeaseAnswerChanges DEF Lease!TypeOK,
       Lease!ThreadType, Lease!WaitsFor, Lease!Ending
  <2>6. \A b \in Agent : mine'[b] <= lease'
    BY <2>1, <2>2, <2>3, LeaseAnswerChanges DEF Lease!RecordInv, Lease!TypeOK, Lease!ThreadType
  <2>7. \A n \in wire' : n.lease <= lease'
    BY <2>2, <2>3 DEF Lease!RecordInv, Lease!TypeOK, Lease!Message
  <2>8. Lease!RecordedIsTrue'
    BY <2>2, <2>3 DEF Lease!RecordInv, Lease!RecordedIsTrue, Lease!Ending
  <2>. QED  BY <2>2, <2>3, <2>5, <2>6, <2>7, <2>8 DEF Lease!RecordInv
<1>21. CASE Lease!Tick
  BY <1>21 DEF Lease!Tick, Lease!TypeOK, Lease!ThreadType, Lease!RecordInv,
     Lease!RecordedIsTrue, Lease!Ending, Lease!Call
<1>22. CASE UNCHANGED Lease!vars
  BY <1>22 DEF Lease!vars, Lease!RecordInv, Lease!RecordedIsTrue, Lease!serverVars,
     Lease!agentVars
<1>. QED
  BY <1>1, <1>2, <1>3, <1>4, <1>5, <1>6, <1>7, <1>8, <1>9, <1>10, <1>11, <1>12,
     <1>13, <1>14, <1>15, <1>16, <1>17, <1>18, <1>19, <1>20, <1>21, <1>22 DEF
     Lease!Next, Lease!Network, Lease!Runs

\* While no POST has failed, the lease an agent works under has not expired.
LEMMA LeaseUnexpired ==
  ASSUME Lease!LeaseAssumption, Lease!TimingAssumption,
         Lease!TypeOK, Lease!ThreadInv, Lease!KeepInv, faults = 0,
         jobStatus = "leased", NEW a \in Agent, mine[a] # 0
  PROVE  ttl > 0
<1>1. Lease!Lasts(a)
  BY DEF Lease!KeepInv
<1>2. at[a] \in {"claim", "running", "confirm"} \cup Lease!Kept \cup Lease!Ending
  BY DEF Lease!ThreadInv, Lease!TypeOK, Lease!ThreadType, Lease!Request, Lease!Kept,
     Lease!Ending
<1>3. call[a] \in Lease!Call /\ keeper[a] \in Lease!Keeper /\ ttl \in Nat
  BY DEF Lease!TypeOK, Lease!ThreadType, Lease!ServerType
<1>4. at[a] \in Lease!Kept => ttl > 0
  BY <1>1, <1>3 DEF Lease!Lasts, Lease!ThreadInv, Lease!Call, Lease!Keeper,
     Lease!LeaseAssumption, Lease!TimingAssumption
<1>5. at[a] \in {"claim", "running", "confirm"} \cup Lease!Ending => ttl > 0
  BY <1>1, <1>3
     DEF Lease!Lasts, Lease!ThreadInv, Lease!Call, Lease!Keeper, Lease!LeaseAssumption,
        Lease!TimingAssumption, Lease!Request, Lease!Ending
<1>. QED  BY <1>2, <1>4, <1>5

\* A lease lasts from one renewal to the next.
LEMMA LeaseKeepStep ==
  ASSUME Lease!LeaseAssumption, Lease!TimingAssumption,
         Lease!TypeOK, Lease!ThreadInv, Lease!RecordInv, Lease!KeepInv, [Lease!Next]_Lease!vars
  PROVE  Lease!KeepInv'
<1>. USE DEF Lease!LeaseAssumption, Lease!TimingAssumption
<1>1. ASSUME NEW a \in Agent, Lease!Claim(a) PROVE Lease!KeepInv'
  <2>0. SUFFICES ASSUME faults' = 0, faults = 0 PROVE Lease!KeepInv'
    BY <1>1 DEF Lease!Claim, Lease!KeepInv
  <2>1. ASSUME NEW b \in Agent PROVE Lease!OnItsWay(b)'
    BY <1>1, <2>0 DEF Lease!Claim, Lease!Ask, Lease!Answered, Lease!Msg, Lease!NoCall,
       Lease!Off, Lease!Posted, Lease!Asleep,
       Lease!KeepInv, Lease!OnItsWay, Lease!TypeOK, Lease!ServerType, Lease!ThreadType,
          Lease!serverVars, Lease!Request,
       Lease!ThreadInv
  <2>2. ASSUME NEW b \in Agent, mine'[b] # 0
          PROVE  Lease!Alone(b)'
    BY <1>1, <2>0, <2>2 DEF Lease!Claim, Lease!Ask, Lease!Answered, Lease!Msg, Lease!NoCall,
       Lease!Off, Lease!Posted,
       Lease!Asleep, Lease!KeepInv, Lease!Alone, Lease!Ending, Lease!TypeOK,
          Lease!ServerType, Lease!ThreadType,
       Lease!serverVars, Lease!Request, Lease!ThreadInv
  <2>3. ASSUME NEW b \in Agent, mine'[b] # 0, jobStatus' = "leased" PROVE Lease!Lasts(b)'
    BY <1>1, <2>0, <2>3 DEF Lease!Claim, Lease!Ask, Lease!Answered, Lease!Msg, Lease!NoCall,
       Lease!Off, Lease!Posted,
       Lease!Asleep, Lease!KeepInv, Lease!Alone, Lease!Lasts, Lease!Ending, Lease!Kept,
          Lease!TypeOK, Lease!ServerType,
       Lease!ThreadType, Lease!serverVars, Lease!Request, Lease!ThreadInv, Lease!Call,
          Lease!Keeper
  <2>. QED  BY <2>1, <2>2, <2>3 DEF Lease!KeepInv
<1>2. ASSUME NEW a \in Agent, Lease!NothingClaimed(a) PROVE Lease!KeepInv'
  <2>0. SUFFICES ASSUME faults' = 0, faults = 0 PROVE Lease!KeepInv'
    BY <1>2 DEF Lease!NothingClaimed, Lease!KeepInv
  <2>1. ASSUME NEW b \in Agent PROVE Lease!OnItsWay(b)'
    BY <1>2, <2>0 DEF Lease!NothingClaimed, Lease!Answered, Lease!NoCall, Lease!Off,
       Lease!Posted, Lease!Asleep,
       Lease!KeepInv, Lease!OnItsWay, Lease!TypeOK, Lease!ServerType, Lease!ThreadType,
          Lease!serverVars, Lease!Request,
       Lease!ThreadInv
  <2>2. ASSUME NEW b \in Agent, mine'[b] # 0
          PROVE  Lease!Alone(b)'
    BY <1>2, <2>0, <2>2 DEF Lease!NothingClaimed, Lease!Answered, Lease!NoCall, Lease!Off,
       Lease!Posted, Lease!Asleep,
       Lease!KeepInv, Lease!Alone, Lease!Ending, Lease!TypeOK, Lease!ServerType,
          Lease!ThreadType, Lease!serverVars,
       Lease!Request, Lease!ThreadInv
  <2>3. ASSUME NEW b \in Agent, mine'[b] # 0, jobStatus' = "leased" PROVE Lease!Lasts(b)'
    BY <1>2, <2>0, <2>3 DEF Lease!NothingClaimed, Lease!Answered, Lease!NoCall, Lease!Off,
       Lease!Posted, Lease!Asleep,
       Lease!KeepInv, Lease!Alone, Lease!Lasts, Lease!Ending, Lease!Kept, Lease!TypeOK,
          Lease!ServerType, Lease!ThreadType,
       Lease!serverVars, Lease!Request, Lease!ThreadInv, Lease!Call, Lease!Keeper
  <2>. QED  BY <2>1, <2>2, <2>3 DEF Lease!KeepInv
<1>3. ASSUME NEW a \in Agent, Lease!StartRunning(a) PROVE Lease!KeepInv'
  <2>0. SUFFICES ASSUME faults' = 0, faults = 0 PROVE Lease!KeepInv'
    BY <1>3 DEF Lease!StartRunning, Lease!KeepInv
  <2>1. ASSUME NEW b \in Agent PROVE Lease!OnItsWay(b)'
    BY <1>3, <2>0 DEF Lease!StartRunning, Lease!Ask, Lease!Answered, Lease!Msg, Lease!NoCall,
       Lease!Off, Lease!Posted,
       Lease!Asleep, Lease!KeepInv, Lease!OnItsWay, Lease!TypeOK, Lease!ServerType,
          Lease!ThreadType, Lease!serverVars,
       Lease!Request, Lease!ThreadInv
  <2>2. ASSUME NEW b \in Agent, mine'[b] # 0
          PROVE  Lease!Alone(b)'
    BY <1>3, <2>0, <2>2 DEF Lease!StartRunning, Lease!Ask, Lease!Answered, Lease!Msg,
       Lease!NoCall, Lease!Off, Lease!Posted,
       Lease!Asleep, Lease!KeepInv, Lease!Alone, Lease!Ending, Lease!TypeOK,
          Lease!ServerType, Lease!ThreadType,
       Lease!serverVars, Lease!Request, Lease!ThreadInv
  <2>3. ASSUME NEW b \in Agent, mine'[b] # 0, jobStatus' = "leased" PROVE Lease!Lasts(b)'
    BY <1>3, <2>0, <2>3 DEF Lease!StartRunning, Lease!Ask, Lease!Answered, Lease!Msg,
       Lease!NoCall, Lease!Off, Lease!Posted,
       Lease!Asleep, Lease!KeepInv, Lease!Alone, Lease!Lasts, Lease!Ending, Lease!Kept,
          Lease!TypeOK, Lease!ServerType,
       Lease!ThreadType, Lease!serverVars, Lease!Request, Lease!ThreadInv, Lease!Call,
          Lease!Keeper
  <2>. QED  BY <2>1, <2>2, <2>3 DEF Lease!KeepInv
<1>4. ASSUME NEW a \in Agent, Lease!StartHandler(a) PROVE Lease!KeepInv'
  <2>0. SUFFICES ASSUME faults' = 0, faults = 0 PROVE Lease!KeepInv'
    BY <1>4 DEF Lease!StartHandler, Lease!KeepInv
  <2>1. ASSUME NEW b \in Agent PROVE Lease!OnItsWay(b)'
    BY <1>4, <2>0 DEF Lease!StartHandler, Lease!Answered, Lease!NoCall, Lease!Off,
       Lease!Posted, Lease!Asleep,
       Lease!KeepInv, Lease!OnItsWay, Lease!TypeOK, Lease!ServerType, Lease!ThreadType,
          Lease!serverVars, Lease!Request,
       Lease!ThreadInv
  <2>2. ASSUME NEW b \in Agent, mine'[b] # 0
          PROVE  Lease!Alone(b)'
    BY <1>4, <2>0, <2>2 DEF Lease!StartHandler, Lease!Answered, Lease!NoCall, Lease!Off,
       Lease!Posted, Lease!Asleep,
       Lease!KeepInv, Lease!Alone, Lease!Ending, Lease!TypeOK, Lease!ServerType,
          Lease!ThreadType, Lease!serverVars,
       Lease!Request, Lease!ThreadInv
  <2>3. ASSUME NEW b \in Agent, mine'[b] # 0, jobStatus' = "leased" PROVE Lease!Lasts(b)'
    BY <1>4, <2>0, <2>3 DEF Lease!StartHandler, Lease!Answered, Lease!NoCall, Lease!Off,
       Lease!Posted, Lease!Asleep,
       Lease!KeepInv, Lease!Alone, Lease!Lasts, Lease!Ending, Lease!Kept, Lease!TypeOK,
          Lease!ServerType, Lease!ThreadType,
       Lease!serverVars, Lease!Request, Lease!ThreadInv, Lease!Call, Lease!Keeper
  <2>. QED  BY <2>1, <2>2, <2>3 DEF Lease!KeepInv
<1>5. ASSUME NEW a \in Agent, Lease!TransitionUncertain(a) PROVE Lease!KeepInv'
  <2>0. SUFFICES ASSUME faults' = 0, faults = 0 PROVE Lease!KeepInv'
    BY <1>5 DEF Lease!TransitionUncertain, Lease!KeepInv
  <2>1. ASSUME NEW b \in Agent PROVE Lease!OnItsWay(b)'
    BY <1>5, <2>0 DEF Lease!TransitionUncertain, Lease!Return, Lease!Answered, Lease!NoCall,
       Lease!Off, Lease!Posted,
       Lease!Asleep, Lease!KeepInv, Lease!OnItsWay, Lease!TypeOK, Lease!ServerType,
          Lease!ThreadType, Lease!serverVars,
       Lease!Request, Lease!ThreadInv
  <2>2. ASSUME NEW b \in Agent, mine'[b] # 0
          PROVE  Lease!Alone(b)'
    BY <1>5, <2>0, <2>2 DEF Lease!TransitionUncertain, Lease!Return, Lease!Answered,
       Lease!NoCall, Lease!Off,
       Lease!Posted, Lease!Asleep, Lease!KeepInv, Lease!Alone, Lease!Ending, Lease!TypeOK,
          Lease!ServerType, Lease!ThreadType,
       Lease!serverVars, Lease!Request, Lease!ThreadInv
  <2>3. ASSUME NEW b \in Agent, mine'[b] # 0, jobStatus' = "leased" PROVE Lease!Lasts(b)'
    BY <1>5, <2>0, <2>3 DEF Lease!TransitionUncertain, Lease!Return, Lease!Answered,
       Lease!NoCall, Lease!Off,
       Lease!Posted, Lease!Asleep, Lease!KeepInv, Lease!Alone, Lease!Lasts, Lease!Ending,
          Lease!Kept, Lease!TypeOK, Lease!ServerType,
       Lease!ThreadType, Lease!serverVars, Lease!Request, Lease!ThreadInv, Lease!Call,
          Lease!Keeper
  <2>. QED  BY <2>1, <2>2, <2>3 DEF Lease!KeepInv
<1>6. ASSUME NEW a \in Agent, Lease!AskInHandler(a) PROVE Lease!KeepInv'
  <2>0. SUFFICES ASSUME faults' = 0, faults = 0 PROVE Lease!KeepInv'
    BY <1>6 DEF Lease!AskInHandler, Lease!KeepInv
  <2>1. ASSUME NEW b \in Agent PROVE Lease!OnItsWay(b)'
    BY <1>6, <2>0 DEF Lease!AskInHandler, Lease!Ask, Lease!Answered, Lease!Msg, Lease!NoCall,
       Lease!Off, Lease!Posted,
       Lease!Asleep, Lease!KeepInv, Lease!OnItsWay, Lease!TypeOK, Lease!ServerType,
          Lease!ThreadType, Lease!serverVars,
       Lease!Request, Lease!ThreadInv
  <2>2. ASSUME NEW b \in Agent, mine'[b] # 0
          PROVE  Lease!Alone(b)'
    BY <1>6, <2>0, <2>2 DEF Lease!AskInHandler, Lease!Ask, Lease!Answered, Lease!Msg,
       Lease!NoCall, Lease!Off, Lease!Posted,
       Lease!Asleep, Lease!KeepInv, Lease!Alone, Lease!Ending, Lease!TypeOK,
          Lease!ServerType, Lease!ThreadType,
       Lease!serverVars, Lease!Request, Lease!ThreadInv
  <2>3. ASSUME NEW b \in Agent, mine'[b] # 0, jobStatus' = "leased" PROVE Lease!Lasts(b)'
    BY <1>6, <2>0, <2>3 DEF Lease!AskInHandler, Lease!Ask, Lease!Answered, Lease!Msg,
       Lease!NoCall, Lease!Off, Lease!Posted,
       Lease!Asleep, Lease!KeepInv, Lease!Alone, Lease!Lasts, Lease!Ending, Lease!Kept,
          Lease!TypeOK, Lease!ServerType,
       Lease!ThreadType, Lease!serverVars, Lease!Request, Lease!ThreadInv, Lease!Call,
          Lease!Keeper
  <2>. QED  BY <2>1, <2>2, <2>3 DEF Lease!KeepInv
<1>7. ASSUME NEW a \in Agent, Lease!GuardRaises(a) PROVE Lease!KeepInv'
  <2>0. SUFFICES ASSUME faults' = 0, faults = 0 PROVE Lease!KeepInv'
    BY <1>7 DEF Lease!GuardRaises, Lease!KeepInv, Lease!Leave
  <2>1. ASSUME NEW b \in Agent PROVE Lease!OnItsWay(b)'
    BY <1>7, <2>0 DEF Lease!GuardRaises, Lease!Leave, Lease!Answered, Lease!NoCall,
       Lease!Off, Lease!Posted, Lease!Asleep,
       Lease!KeepInv, Lease!OnItsWay, Lease!TypeOK, Lease!ServerType, Lease!ThreadType,
          Lease!serverVars, Lease!Request,
       Lease!ThreadInv
  <2>2. ASSUME NEW b \in Agent, mine'[b] # 0
          PROVE  Lease!Alone(b)'
    BY <1>7, <2>0, <2>2 DEF Lease!GuardRaises, Lease!Leave, Lease!Answered, Lease!NoCall,
       Lease!Off, Lease!Posted,
       Lease!Asleep, Lease!KeepInv, Lease!Alone, Lease!Ending, Lease!TypeOK,
          Lease!ServerType, Lease!ThreadType,
       Lease!serverVars, Lease!Request, Lease!ThreadInv
  <2>3. ASSUME NEW b \in Agent, mine'[b] # 0, jobStatus' = "leased" PROVE Lease!Lasts(b)'
    BY <1>7, <2>0, <2>3 DEF Lease!GuardRaises, Lease!Leave, Lease!Answered, Lease!NoCall,
       Lease!Off, Lease!Posted,
       Lease!Asleep, Lease!KeepInv, Lease!Alone, Lease!Lasts, Lease!Ending, Lease!Kept,
          Lease!TypeOK, Lease!ServerType,
       Lease!ThreadType, Lease!serverVars, Lease!Request, Lease!ThreadInv, Lease!Call,
          Lease!Keeper
  <2>. QED  BY <2>1, <2>2, <2>3 DEF Lease!KeepInv
<1>8. ASSUME NEW a \in Agent, Lease!HandlerGoesOn(a) PROVE Lease!KeepInv'
  <2>0. SUFFICES ASSUME faults' = 0, faults = 0 PROVE Lease!KeepInv'
    BY <1>8 DEF Lease!HandlerGoesOn, Lease!KeepInv
  <2>1. ASSUME NEW b \in Agent PROVE Lease!OnItsWay(b)'
    BY <1>8, <2>0 DEF Lease!HandlerGoesOn, Lease!Answered, Lease!NoCall, Lease!Off,
       Lease!Posted, Lease!Asleep,
       Lease!KeepInv, Lease!OnItsWay, Lease!TypeOK, Lease!ServerType, Lease!ThreadType,
          Lease!serverVars, Lease!Request,
       Lease!ThreadInv
  <2>2. ASSUME NEW b \in Agent, mine'[b] # 0
          PROVE  Lease!Alone(b)'
    BY <1>8, <2>0, <2>2 DEF Lease!HandlerGoesOn, Lease!Answered, Lease!NoCall, Lease!Off,
       Lease!Posted, Lease!Asleep,
       Lease!KeepInv, Lease!Alone, Lease!Ending, Lease!TypeOK, Lease!ServerType,
          Lease!ThreadType, Lease!serverVars,
       Lease!Request, Lease!ThreadInv
  <2>3. ASSUME NEW b \in Agent, mine'[b] # 0, jobStatus' = "leased" PROVE Lease!Lasts(b)'
    BY <1>8, <2>0, <2>3 DEF Lease!HandlerGoesOn, Lease!Answered, Lease!NoCall, Lease!Off,
       Lease!Posted, Lease!Asleep,
       Lease!KeepInv, Lease!Alone, Lease!Lasts, Lease!Ending, Lease!Kept, Lease!TypeOK,
          Lease!ServerType, Lease!ThreadType,
       Lease!serverVars, Lease!Request, Lease!ThreadInv, Lease!Call, Lease!Keeper
  <2>. QED  BY <2>1, <2>2, <2>3 DEF Lease!KeepInv
<1>9. ASSUME NEW a \in Agent, Lease!HandlerInterrupted(a) PROVE Lease!KeepInv'
  <2>0. SUFFICES ASSUME faults' = 0, faults = 0 PROVE Lease!KeepInv'
    BY <1>9 DEF Lease!HandlerInterrupted, Lease!KeepInv, Lease!Leave
  <2>1. ASSUME NEW b \in Agent PROVE Lease!OnItsWay(b)'
    BY <1>9, <2>0 DEF Lease!HandlerInterrupted, Lease!Leave, Lease!Answered, Lease!NoCall,
       Lease!Off, Lease!Posted,
       Lease!Asleep, Lease!KeepInv, Lease!OnItsWay, Lease!TypeOK, Lease!ServerType,
          Lease!ThreadType, Lease!serverVars,
       Lease!Request, Lease!ThreadInv
  <2>2. ASSUME NEW b \in Agent, mine'[b] # 0
          PROVE  Lease!Alone(b)'
    BY <1>9, <2>0, <2>2 DEF Lease!HandlerInterrupted, Lease!Leave, Lease!Answered,
       Lease!NoCall, Lease!Off,
       Lease!Posted, Lease!Asleep, Lease!KeepInv, Lease!Alone, Lease!Ending, Lease!TypeOK,
          Lease!ServerType, Lease!ThreadType,
       Lease!serverVars, Lease!Request, Lease!ThreadInv
  <2>3. ASSUME NEW b \in Agent, mine'[b] # 0, jobStatus' = "leased" PROVE Lease!Lasts(b)'
    BY <1>9, <2>0, <2>3 DEF Lease!HandlerInterrupted, Lease!Leave, Lease!Answered,
       Lease!NoCall, Lease!Off,
       Lease!Posted, Lease!Asleep, Lease!KeepInv, Lease!Alone, Lease!Lasts, Lease!Ending,
          Lease!Kept, Lease!TypeOK, Lease!ServerType,
       Lease!ThreadType, Lease!serverVars, Lease!Request, Lease!ThreadInv, Lease!Call,
          Lease!Keeper
  <2>. QED  BY <2>1, <2>2, <2>3 DEF Lease!KeepInv
<1>10. ASSUME NEW a \in Agent, Lease!Join(a) PROVE Lease!KeepInv'
  <2>0. SUFFICES ASSUME faults' = 0, faults = 0 PROVE Lease!KeepInv'
    BY <1>10 DEF Lease!Join, Lease!KeepInv
  <2>1. ASSUME NEW b \in Agent PROVE Lease!OnItsWay(b)'
    BY <1>10, <2>0 DEF Lease!Join, Lease!Ask, Lease!Answered, Lease!Msg, Lease!NoCall,
       Lease!Off, Lease!Posted, Lease!Asleep,
       Lease!Return, Lease!KeepInv, Lease!OnItsWay, Lease!TypeOK, Lease!ServerType,
          Lease!ThreadType, Lease!serverVars,
       Lease!Request, Lease!ThreadInv
  <2>2. ASSUME NEW b \in Agent, mine'[b] # 0
          PROVE  Lease!Alone(b)'
    BY <1>10, <2>0, <2>2 DEF Lease!Join, Lease!Ask, Lease!Answered, Lease!Msg, Lease!NoCall,
       Lease!Off, Lease!Posted, Lease!Asleep,
       Lease!Return, Lease!KeepInv, Lease!Alone, Lease!Ending, Lease!TypeOK,
          Lease!ServerType, Lease!ThreadType,
       Lease!serverVars, Lease!Request, Lease!ThreadInv
  <2>3. ASSUME NEW b \in Agent, mine'[b] # 0, jobStatus' = "leased" PROVE Lease!Lasts(b)'
    BY <1>10, <2>0, <2>3 DEF Lease!Join, Lease!Ask, Lease!Answered, Lease!Msg, Lease!NoCall,
       Lease!Off, Lease!Posted, Lease!Asleep,
       Lease!Return, Lease!KeepInv, Lease!Alone, Lease!Lasts, Lease!Ending, Lease!Kept,
          Lease!TypeOK, Lease!ServerType,
       Lease!ThreadType, Lease!serverVars, Lease!Request, Lease!ThreadInv, Lease!Call,
          Lease!Keeper
  <2>. QED  BY <2>1, <2>2, <2>3 DEF Lease!KeepInv
<1>11. ASSUME NEW a \in Agent, Lease!Confirmed(a) PROVE Lease!KeepInv'
  <2>0. SUFFICES ASSUME faults' = 0, faults = 0 PROVE Lease!KeepInv'
    BY <1>11 DEF Lease!Confirmed, Lease!KeepInv
  <2>1. ASSUME NEW b \in Agent PROVE Lease!OnItsWay(b)'
    BY <1>11, <2>0 DEF Lease!Confirmed, Lease!Ask, Lease!Answered, Lease!Msg, Lease!NoCall,
       Lease!Off, Lease!Posted, Lease!Asleep,
       Lease!KeepInv, Lease!OnItsWay, Lease!TypeOK, Lease!ServerType, Lease!ThreadType,
          Lease!serverVars, Lease!Request,
       Lease!ThreadInv
  <2>2. ASSUME NEW b \in Agent, mine'[b] # 0
          PROVE  Lease!Alone(b)'
    BY <1>11, <2>0, <2>2 DEF Lease!Confirmed, Lease!Ask, Lease!Answered, Lease!Msg,
       Lease!NoCall, Lease!Off, Lease!Posted,
       Lease!Asleep, Lease!KeepInv, Lease!Alone, Lease!Ending, Lease!TypeOK,
          Lease!ServerType, Lease!ThreadType,
       Lease!serverVars, Lease!Request, Lease!ThreadInv
  <2>3. ASSUME NEW b \in Agent, mine'[b] # 0, jobStatus' = "leased" PROVE Lease!Lasts(b)'
    BY <1>11, <2>0, <2>3 DEF Lease!Confirmed, Lease!Ask, Lease!Answered, Lease!Msg,
       Lease!NoCall, Lease!Off, Lease!Posted,
       Lease!Asleep, Lease!KeepInv, Lease!Alone, Lease!Lasts, Lease!Ending, Lease!Kept,
          Lease!TypeOK, Lease!ServerType,
       Lease!ThreadType, Lease!serverVars, Lease!Request, Lease!ThreadInv, Lease!Call,
          Lease!Keeper
  <2>. QED  BY <2>1, <2>2, <2>3 DEF Lease!KeepInv
<1>12. ASSUME NEW a \in Agent, Lease!ConfirmRefused(a) PROVE Lease!KeepInv'
  <2>0. SUFFICES ASSUME faults' = 0, faults = 0 PROVE Lease!KeepInv'
    BY <1>12 DEF Lease!ConfirmRefused, Lease!KeepInv
  <2>1. ASSUME NEW b \in Agent PROVE Lease!OnItsWay(b)'
    BY <1>12, <2>0 DEF Lease!ConfirmRefused, Lease!Return, Lease!Answered, Lease!NoCall,
       Lease!Off, Lease!Posted,
       Lease!Asleep, Lease!KeepInv, Lease!OnItsWay, Lease!TypeOK, Lease!ServerType,
          Lease!ThreadType, Lease!serverVars,
       Lease!Request, Lease!ThreadInv
  <2>2. ASSUME NEW b \in Agent, mine'[b] # 0
          PROVE  Lease!Alone(b)'
    BY <1>12, <2>0, <2>2 DEF Lease!ConfirmRefused, Lease!Return, Lease!Answered,
       Lease!NoCall, Lease!Off, Lease!Posted,
       Lease!Asleep, Lease!KeepInv, Lease!Alone, Lease!Ending, Lease!TypeOK,
          Lease!ServerType, Lease!ThreadType,
       Lease!serverVars, Lease!Request, Lease!ThreadInv
  <2>3. ASSUME NEW b \in Agent, mine'[b] # 0, jobStatus' = "leased" PROVE Lease!Lasts(b)'
    BY <1>12, <2>0, <2>3 DEF Lease!ConfirmRefused, Lease!Return, Lease!Answered,
       Lease!NoCall, Lease!Off, Lease!Posted,
       Lease!Asleep, Lease!KeepInv, Lease!Alone, Lease!Lasts, Lease!Ending, Lease!Kept,
          Lease!TypeOK, Lease!ServerType,
       Lease!ThreadType, Lease!serverVars, Lease!Request, Lease!ThreadInv, Lease!Call,
          Lease!Keeper
  <2>. QED  BY <2>1, <2>2, <2>3 DEF Lease!KeepInv
<1>13. ASSUME NEW a \in Agent, Lease!ConfirmRaises(a) PROVE Lease!KeepInv'
  BY <1>13 DEF Lease!ConfirmRaises, Lease!Answered, Lease!KeepInv, Lease!OnItsWay
<1>14. ASSUME NEW a \in Agent, Lease!RecordEnd(a) PROVE Lease!KeepInv'
  <2>0. SUFFICES ASSUME faults' = 0, faults = 0 PROVE Lease!KeepInv'
    BY <1>14 DEF Lease!RecordEnd, Lease!KeepInv
  <2>1. ASSUME NEW b \in Agent PROVE Lease!OnItsWay(b)'
    BY <1>14, <2>0 DEF Lease!RecordEnd, Lease!Return, Lease!Answered, Lease!NoCall,
       Lease!Off, Lease!Posted, Lease!Asleep,
       Lease!KeepInv, Lease!OnItsWay, Lease!TypeOK, Lease!ServerType, Lease!ThreadType,
          Lease!serverVars, Lease!Request,
       Lease!ThreadInv
  <2>2. ASSUME NEW b \in Agent, mine'[b] # 0
          PROVE  Lease!Alone(b)'
    BY <1>14, <2>0, <2>2 DEF Lease!RecordEnd, Lease!Return, Lease!Answered, Lease!NoCall,
       Lease!Off, Lease!Posted,
       Lease!Asleep, Lease!KeepInv, Lease!Alone, Lease!Ending, Lease!TypeOK,
          Lease!ServerType, Lease!ThreadType,
       Lease!serverVars, Lease!Request, Lease!ThreadInv
  <2>3. ASSUME NEW b \in Agent, mine'[b] # 0, jobStatus' = "leased" PROVE Lease!Lasts(b)'
    BY <1>14, <2>0, <2>3 DEF Lease!RecordEnd, Lease!Return, Lease!Answered, Lease!NoCall,
       Lease!Off, Lease!Posted,
       Lease!Asleep, Lease!KeepInv, Lease!Alone, Lease!Lasts, Lease!Ending, Lease!Kept,
          Lease!TypeOK, Lease!ServerType,
       Lease!ThreadType, Lease!serverVars, Lease!Request, Lease!ThreadInv, Lease!Call,
          Lease!Keeper
  <2>. QED  BY <2>1, <2>2, <2>3 DEF Lease!KeepInv
<1>15. ASSUME NEW a \in Agent, Lease!KeeperWakes(a) PROVE Lease!KeepInv'
  <2>0. SUFFICES ASSUME faults' = 0, faults = 0 PROVE Lease!KeepInv'
    BY <1>15 DEF Lease!KeeperWakes, Lease!KeepInv
  <2>1. ASSUME NEW b \in Agent PROVE Lease!OnItsWay(b)'
    BY <1>15, <2>0 DEF Lease!KeeperWakes, Lease!Msg, Lease!NoCall, Lease!Off, Lease!Posted,
       Lease!Asleep, Lease!KeepInv,
       Lease!OnItsWay, Lease!TypeOK, Lease!ServerType, Lease!ThreadType, Lease!serverVars,
          Lease!Request, Lease!ThreadInv
  <2>2. ASSUME NEW b \in Agent, mine'[b] # 0
          PROVE  Lease!Alone(b)'
    BY <1>15, <2>0, <2>2 DEF Lease!KeeperWakes, Lease!Msg, Lease!NoCall, Lease!Off,
       Lease!Posted, Lease!Asleep,
       Lease!KeepInv, Lease!Alone, Lease!Ending, Lease!TypeOK, Lease!ServerType,
          Lease!ThreadType, Lease!serverVars,
       Lease!Request, Lease!ThreadInv
  <2>3. ASSUME NEW b \in Agent, mine'[b] # 0, jobStatus' = "leased" PROVE Lease!Lasts(b)'
    BY <1>15, <2>0, <2>3 DEF Lease!KeeperWakes, Lease!Msg, Lease!NoCall, Lease!Off,
       Lease!Posted, Lease!Asleep,
       Lease!KeepInv, Lease!Alone, Lease!Lasts, Lease!Ending, Lease!Kept, Lease!TypeOK,
          Lease!ServerType, Lease!ThreadType,
       Lease!serverVars, Lease!Request, Lease!ThreadInv, Lease!Call, Lease!Keeper
  <2>. QED  BY <2>1, <2>2, <2>3 DEF Lease!KeepInv
<1>16. ASSUME NEW a \in Agent, Lease!HandlerEnds(a) PROVE Lease!KeepInv'
  <2>0. SUFFICES ASSUME faults' = 0, faults = 0 PROVE Lease!KeepInv'
    BY <1>16 DEF Lease!HandlerEnds, Lease!KeepInv, Lease!Leave
  <2>1. ASSUME NEW b \in Agent PROVE Lease!OnItsWay(b)'
    BY <1>16, <2>0 DEF Lease!HandlerEnds, Lease!Leave, Lease!Answered, Lease!NoCall,
       Lease!Off, Lease!Posted, Lease!Asleep,
       Lease!KeepInv, Lease!OnItsWay, Lease!TypeOK, Lease!ServerType, Lease!ThreadType,
          Lease!serverVars, Lease!Request,
       Lease!ThreadInv
  <2>2. ASSUME NEW b \in Agent, mine'[b] # 0
          PROVE  Lease!Alone(b)'
    BY <1>16, <2>0, <2>2 DEF Lease!HandlerEnds, Lease!Leave, Lease!Answered, Lease!NoCall,
       Lease!Off, Lease!Posted,
       Lease!Asleep, Lease!KeepInv, Lease!Alone, Lease!Ending, Lease!TypeOK,
          Lease!ServerType, Lease!ThreadType,
       Lease!serverVars, Lease!Request, Lease!ThreadInv
  <2>3. ASSUME NEW b \in Agent, mine'[b] # 0, jobStatus' = "leased" PROVE Lease!Lasts(b)'
    BY <1>16, <2>0, <2>3 DEF Lease!HandlerEnds, Lease!Leave, Lease!Answered, Lease!NoCall,
       Lease!Off, Lease!Posted,
       Lease!Asleep, Lease!KeepInv, Lease!Alone, Lease!Lasts, Lease!Ending, Lease!Kept,
          Lease!TypeOK, Lease!ServerType,
       Lease!ThreadType, Lease!serverVars, Lease!Request, Lease!ThreadInv, Lease!Call,
          Lease!Keeper
  <2>. QED  BY <2>1, <2>2, <2>3 DEF Lease!KeepInv
<1>17. ASSUME NEW a \in Agent, Lease!PostFails(a) PROVE Lease!KeepInv'
  BY <1>17, LeasePostFailed DEF Lease!KeepInv, Lease!OnItsWay, Lease!CountFault,
     Lease!TypeOK, Lease!LeaseAssumption
<1>18. ASSUME NEW a \in Agent, Lease!KeeperPostFails(a) PROVE Lease!KeepInv'
  BY <1>18, LeaseKeepFailed DEF Lease!KeepInv, Lease!OnItsWay, Lease!CountFault,
     Lease!TypeOK, Lease!LeaseAssumption
<1>19. ASSUME NEW a \in Agent, Lease!Crash(a) PROVE Lease!KeepInv'
  <2>0. SUFFICES ASSUME faults' = 0, faults = 0 PROVE Lease!KeepInv'
    BY <1>19 DEF Lease!Crash, Lease!KeepInv
  <2>1. ASSUME NEW b \in Agent PROVE Lease!OnItsWay(b)'
    BY <1>19, <2>0 DEF Lease!Crash, Lease!NoCall, Lease!Off, Lease!Posted, Lease!Asleep,
       Lease!KeepInv, Lease!OnItsWay,
       Lease!TypeOK, Lease!ServerType, Lease!ThreadType, Lease!serverVars, Lease!Request,
          Lease!ThreadInv
  <2>2. ASSUME NEW b \in Agent, mine'[b] # 0
          PROVE  Lease!Alone(b)'
    BY <1>19, <2>0, <2>2 DEF Lease!Crash, Lease!NoCall, Lease!Off, Lease!Posted,
       Lease!Asleep, Lease!KeepInv, Lease!Alone,
       Lease!Ending, Lease!TypeOK, Lease!ServerType, Lease!ThreadType, Lease!serverVars,
          Lease!Request, Lease!ThreadInv
  <2>3. ASSUME NEW b \in Agent, mine'[b] # 0, jobStatus' = "leased" PROVE Lease!Lasts(b)'
    BY <1>19, <2>0, <2>3 DEF Lease!Crash, Lease!NoCall, Lease!Off, Lease!Posted,
       Lease!Asleep, Lease!KeepInv, Lease!Alone,
       Lease!Lasts, Lease!Ending, Lease!Kept, Lease!TypeOK, Lease!ServerType,
          Lease!ThreadType, Lease!serverVars,
       Lease!Request, Lease!ThreadInv, Lease!Call, Lease!Keeper
  <2>. QED  BY <2>1, <2>2, <2>3 DEF Lease!KeepInv
<1>20. ASSUME NEW m \in wire, Lease!Serve(m) PROVE Lease!KeepInv'
  <2>0. SUFFICES ASSUME faults' = 0, faults = 0 PROVE Lease!KeepInv'
    BY <1>20 DEF Lease!Serve, Lease!Answer, Lease!KeepInv, Lease!TypeOK
  <2>1. PICK got \in {"ok", "refused"} :
          /\ IF m.kind = "claim" THEN Lease!ServeClaim(got)
             ELSE Lease!ServeLeased(m.kind, m.lease, got)
          /\ Lease!Answer(m, got)
    BY <1>20 DEF Lease!Serve
  <2>2. /\ m \in Lease!Message /\ m.from \in Agent /\ m.kind \in Lease!Request \cup {"keep"}
        /\ m.lease \in 0..MaxLeases /\ UNCHANGED <<at, local>> /\ wire' = wire \ {m}
    BY <1>20 DEF Lease!Serve, Lease!TypeOK, Lease!Message
  <2>3. ASSUME NEW b \in Agent PROVE Lease!OnItsWay(b)'
    <3>1. Lease!OnItsWay(b) /\ "keep" \notin Lease!Request
      BY <2>0 DEF Lease!KeepInv, Lease!Request
    <3>2. ASSUME call'[b].state = "waiting" PROVE Lease!Msg(b, at[b], mine'[b]) \in wire'
      <4>1. call'[b] = call[b]
        BY <2>1, <2>2, <3>2, LeaseAnswerChanges
      <4>2. mine'[b] = mine[b]
        BY <2>0, <2>1, <2>2, <3>2, <4>1, LeaseAnswerChanges DEF Lease!TypeOK, Lease!ThreadType
      <4>3. ASSUME m = Lease!Msg(b, at[b], mine[b]) PROVE FALSE
        <5>1. m.from = b /\ m.kind = at[b] /\ m.lease = mine[b] /\ at[b] \in Lease!Request
          BY <3>2, <4>1, <4>3 DEF Lease!Msg, Lease!ThreadInv
        <5>2. m.kind # "keep" /\ Lease!WaitsFor(m)
          BY <3>1, <3>2, <4>1, <5>1 DEF Lease!WaitsFor
        <5>. QED  BY <2>0, <2>1, <3>2, <5>1, <5>2, LeaseAnswerChanges
      <4>. QED  BY <2>2, <3>1, <3>2, <4>1, <4>2, <4>3 DEF Lease!OnItsWay
    <3>3. ASSUME keeper'[b].state = "waiting" PROVE Lease!Msg(b, "keep", mine'[b]) \in wire'
      <4>1. keeper'[b] = keeper[b]
        BY <2>1, <2>2, <3>3, LeaseAnswerChanges DEF Lease!Asleep, Lease!Off, Lease!TypeOK,
           Lease!ThreadType
      <4>2. mine'[b] = mine[b]
        <5>1. at[b] # "claim"
          BY <3>3, <4>1 DEF Lease!ThreadInv, Lease!Kept
        <5>. QED  BY <2>1, <2>2, <5>1, LeaseAnswerChanges DEF Lease!TypeOK, Lease!ThreadType,
           Lease!WaitsFor
      <4>3. ASSUME m = Lease!Msg(b, "keep", mine[b]) PROVE FALSE
        <5>1. m.from = b /\ m.kind = "keep" /\ m.lease = mine[b]
          BY <4>3 DEF Lease!Msg
        <5>2. Lease!WaitsFor(m)
          BY <3>3, <4>1, <5>1 DEF Lease!WaitsFor
        <5>. QED  BY <2>0, <2>1, <3>3, <5>1, <5>2, LeaseAnswerChanges
                  DEF Lease!Asleep, Lease!Off, Lease!TypeOK, Lease!ThreadType
      <4>. QED  BY <2>2, <3>1, <3>3, <4>1, <4>2, <4>3 DEF Lease!OnItsWay
    <3>4. call'[b].state # "raised"
      BY <2>1, <2>2, <3>1, LeaseAnswerChanges DEF Lease!OnItsWay
    <3>. QED  BY <2>2, <3>2, <3>3, <3>4 DEF Lease!OnItsWay
  <2>4. CASE m.kind = "claim" /\ got = "ok"
    <3>1. /\ jobStatus = "queued" \/ (jobStatus = "leased" /\ ttl = 0)
          /\ jobStatus' = "leased" /\ lease' = lease + 1 /\ ttl' = LeaseTicks /\ lease \in Nat
      BY <2>1, <2>4 DEF Lease!ServeClaim, Lease!TypeOK, Lease!ServerType
    <3>2. ASSUME NEW b \in Agent PROVE mine[b] = 0
      BY <2>0, <3>1, LeaseUnexpired DEF Lease!RecordInv, Lease!TypeOK, Lease!ServerType,
         Lease!ThreadType
    <3>3. ASSUME NEW b \in Agent, mine'[b] # 0
          PROVE  /\ b = m.from /\ at[b] = "claim" /\ keeper'[b].state = "off"
                 /\ mine' = [mine EXCEPT ![b] = lease'] /\ call'[b].state = "ok"
      BY <2>1, <2>2, <2>4, <3>2, <3>3, LeaseAnswerChanges
         DEF Lease!WaitsFor, Lease!ThreadInv, Lease!Kept, Lease!TypeOK, Lease!ThreadType
    <3>4. ASSUME NEW b \in Agent, mine'[b] # 0
          PROVE  Lease!Alone(b)'
      <4>1. lease' = mine'[b] /\ \A c \in Agent : mine'[c] # 0 => c = b
        BY <3>3, <3>4 DEF Lease!TypeOK, Lease!ThreadType
      <4>2. \A n \in wire' : n.lease # mine'[b]
        BY <2>2, <3>1, <4>1 DEF Lease!RecordInv, Lease!TypeOK, Lease!Message
      <4>. QED  BY <3>1, <4>1, <4>2 DEF Lease!Alone
    <3>5. ASSUME NEW b \in Agent, mine'[b] # 0 PROVE Lease!Lasts(b)'
      BY <2>2, <3>1, <3>3, <3>5 DEF Lease!Lasts, Lease!Kept, Lease!Ending
    <3>. QED  BY <2>3, <3>4, <3>5 DEF Lease!KeepInv
  <2>5. CASE m.kind = "claim" /\ got = "refused"
    <3>1. UNCHANGED <<jobStatus, lease, ttl, mine, keeper>>
      BY <2>1, <2>5, LeaseAnswerChanges DEF Lease!ServeClaim, Lease!serverVars
    <3>2. ASSUME NEW b \in Agent, mine[b] # 0 PROVE call'[b] = call[b]
      BY <2>1, <2>2, <2>5, <3>2, LeaseAnswerChanges DEF Lease!WaitsFor, Lease!ThreadInv
    <3>3. ASSUME NEW b \in Agent, mine'[b] # 0
          PROVE  Lease!Alone(b)' /\ (jobStatus' = "leased" => Lease!Lasts(b)')
      BY <2>0, <2>2, <3>1, <3>2, <3>3 DEF Lease!KeepInv, Lease!Alone, Lease!Lasts
    <3>. QED  BY <2>3, <3>3 DEF Lease!KeepInv
  <2>6. CASE m.kind # "claim"
    <3>1. UNCHANGED <<lease, mine>>
      BY <2>1, <2>6, LeaseAnswerChanges DEF Lease!ServeLeased
    <3>2. PICK yes \in BOOLEAN :
            /\ Lease!Honoured(m.lease, yes) /\ (got = "ok" <=> yes)
            /\ ttl' = IF yes /\ m.kind \in {"keep", "require", "confirm"} THEN LeaseTicks ELSE ttl
            /\ yes /\ m.kind \in Lease!Ending => jobStatus' = m.kind
            /\ ~(yes /\ m.kind \in Lease!Ending) => jobStatus' = jobStatus
      BY <2>1, <2>6 DEF Lease!ServeLeased, Lease!Ending
    <3>3. ASSUME NEW b \in Agent, mine[b] # 0
          PROVE  /\ Lease!Alone(b) /\ (jobStatus = "leased" => Lease!Lasts(b) /\ ttl > 0)
                 /\ yes => m.lease = mine[b] /\ m.from = b /\ jobStatus = "leased"
                 /\ m.lease = mine[b] /\ jobStatus = "leased" => yes
      BY <2>0, <3>2, <3>3, LeaseUnexpired DEF Lease!KeepInv, Lease!Alone, Lease!Honoured
    <3>4. ASSUME NEW b \in Agent, mine'[b] # 0
          PROVE  Lease!Alone(b)'
      <4>1. jobStatus' = "leased" \/ at[b] \in Lease!Ending
        BY <3>1, <3>2, <3>3, <3>4 DEF Lease!Alone
      <4>. QED  BY <2>2, <3>1, <3>3, <3>4, <4>1 DEF Lease!Alone
    <3>5. ASSUME NEW b \in Agent, mine'[b] # 0, jobStatus' = "leased" PROVE Lease!Lasts(b)'
      <4>1. /\ jobStatus = "leased" /\ Lease!Lasts(b) /\ ttl' \in {ttl, LeaseTicks} /\ ttl \in 0..LeaseTicks
            /\ call[b] \in Lease!Call /\ keeper[b] \in Lease!Keeper
        BY <3>1, <3>2, <3>3, <3>5 DEF Lease!Ending, Lease!TypeOK, Lease!ServerType,
           Lease!ThreadType
      <4>2. CASE call'[b] = call[b] /\ keeper'[b] = keeper[b]
        BY <2>2, <4>1, <4>2 DEF Lease!Lasts, Lease!Call, Lease!Keeper
      <4>3. CASE m.from = b /\ Lease!WaitsFor(m)
        <5>1. got = "ok" /\ yes
          BY <3>1, <3>2, <3>3, <3>5, <4>1, <4>3 DEF Lease!WaitsFor
        <5>2. CASE m.kind = "keep"
          <6>1. keeper'[b] = Lease!Asleep /\ UNCHANGED call /\ ttl' = LeaseTicks
            BY <2>0, <2>1, <2>2, <3>2, <4>3, <5>1, <5>2, LeaseAnswerChanges DEF Lease!TypeOK,
               Lease!ThreadType
          <6>. QED  BY <2>2, <4>1, <4>3, <5>2, <6>1
                    DEF Lease!Lasts, Lease!Asleep, Lease!Call, Lease!WaitsFor,
                       Lease!ThreadInv, Lease!Kept, Lease!Ending
        <5>3. CASE m.kind # "keep"
          <6>1. /\ call'[b].state = "ok" /\ call'[b].age = call[b].age /\ UNCHANGED keeper
                /\ at[b] = m.kind
            BY <2>0, <2>1, <2>2, <4>3, <5>1, <5>3, LeaseAnswerChanges DEF Lease!WaitsFor
          <6>2. m.kind = "confirm" => ttl' = LeaseTicks
            BY <3>2, <5>1
          <6>. QED  BY <2>2, <4>1, <6>1, <6>2 DEF Lease!Lasts, Lease!Call, Lease!Keeper
        <5>. QED  BY <5>2, <5>3
      <4>. QED  BY <2>1, <2>2, <4>2, <4>3, LeaseAnswerChanges DEF Lease!TypeOK,
         Lease!ThreadType
    <3>. QED  BY <2>3, <3>1, <3>4, <3>5 DEF Lease!KeepInv
  <2>. QED  BY <2>4, <2>5, <2>6
<1>21. CASE Lease!Tick
  <2>0. SUFFICES ASSUME faults' = 0, faults = 0 PROVE Lease!KeepInv'
    BY <1>21 DEF Lease!Tick, Lease!KeepInv
  <2>1. ASSUME NEW b \in Agent PROVE Lease!OnItsWay(b)'
    <3>1. /\ call'[b].state = call[b].state /\ keeper'[b].state = keeper[b].state
          /\ UNCHANGED <<mine, wire>>
      BY <1>21 DEF Lease!Tick, Lease!TypeOK, Lease!ThreadType, Lease!Call, Lease!Keeper
    <3>2. call[b].state = "waiting" => at'[b] = at[b]
      BY <1>21 DEF Lease!Tick, Lease!TypeOK, Lease!ThreadType, Lease!ThreadInv, Lease!Request
    <3>. QED  BY <2>0, <3>1, <3>2 DEF Lease!KeepInv, Lease!OnItsWay
  <2>2. ASSUME NEW b \in Agent, mine'[b] # 0
          PROVE  Lease!Alone(b)'
    BY <1>21, <2>0, <2>2 DEF Lease!Tick, Lease!KeepInv, Lease!Alone, Lease!Ending,
       Lease!TypeOK, Lease!ThreadType, Lease!ThreadInv
  <2>3. ASSUME NEW b \in Agent, mine'[b] # 0, jobStatus' = "leased" PROVE Lease!Lasts(b)'
    BY <1>21, <2>0, <2>3 DEF Lease!Tick, Lease!NothingDue, Lease!KeepInv, Lease!Alone,
       Lease!Lasts, Lease!Ending, Lease!Kept, Lease!TypeOK,
       Lease!ServerType, Lease!ThreadType, Lease!ThreadInv, Lease!Call, Lease!Keeper,
          Lease!Request
  <2>. QED  BY <2>1, <2>2, <2>3 DEF Lease!KeepInv
<1>22. CASE UNCHANGED Lease!vars
  BY <1>22 DEF Lease!vars, Lease!KeepInv, Lease!OnItsWay, Lease!Alone, Lease!Lasts,
     Lease!serverVars, Lease!agentVars
<1>. QED
  BY <1>1, <1>2, <1>3, <1>4, <1>5, <1>6, <1>7, <1>8, <1>9, <1>10, <1>11, <1>12,
     <1>13, <1>14, <1>15, <1>16, <1>17, <1>18, <1>19, <1>20, <1>21, <1>22 DEF
     Lease!Next, Lease!Network, Lease!Runs

\* Before the first claim.
LEMMA LeaseInitInv ==
  ASSUME Lease!LeaseAssumption, Lease!Init
  PROVE  Lease!TypeOK /\ Lease!ThreadInv /\ Lease!RecordInv /\ Lease!KeepInv
<1>. USE DEF Lease!LeaseAssumption, Lease!Init
<1>1. Lease!TypeOK
  BY LeaseValues DEF Lease!TypeOK, Lease!ServerType, Lease!ThreadType
<1>2. Lease!ThreadInv
  BY DEF Lease!ThreadInv, Lease!NoCall, Lease!Off, Lease!Request, Lease!Kept
<1>3. Lease!RecordInv
  BY DEF Lease!RecordInv, Lease!RecordedIsTrue, Lease!Ending
<1>4. Lease!KeepInv
  BY DEF Lease!KeepInv, Lease!OnItsWay, Lease!NoCall, Lease!Off
<1>. QED  BY <1>1, <1>2, <1>3, <1>4

\* RecordedIsTrue: an end of the job in the state file is the end the control plane
\* holds, under the same lease (job_runner.py _transition).
THEOREM Recorded ==
  ASSUME Lease!LeaseAssumption
  PROVE  Lease!Spec => [](Lease!TypeOK /\ Lease!RecordedIsTrue)
<1>. DEFINE Inv == Lease!TypeOK /\ Lease!ThreadInv /\ Lease!RecordInv
<1>1. Lease!Init => Inv
  BY LeaseInitInv
<1>2. Inv /\ [Lease!Next]_Lease!vars => Inv'
  BY LeaseTypeStep, LeaseThreadStep, LeaseRecordStep
<1>3. Inv => Lease!TypeOK /\ Lease!RecordedIsTrue
  BY DEF Lease!RecordInv
<1>. QED  BY <1>1, <1>2, <1>3, PTL DEF Lease!Spec

\* KeepsLease: with the times of the code an agent none of whose POSTs has failed
\* keeps its lease, however long its handler runs (job_runner.py _LeaseKeeper).
THEOREM LeaseKept ==
  ASSUME Lease!LeaseAssumption, Lease!TimingAssumption
  PROVE  Lease!Spec => []Lease!KeepsLease
<1>. DEFINE Inv == Lease!TypeOK /\ Lease!ThreadInv /\ Lease!RecordInv /\ Lease!KeepInv
<1>1. Lease!Init => Inv
  BY LeaseInitInv
<1>2. Inv /\ [Lease!Next]_Lease!vars => Inv'
  BY LeaseTypeStep, LeaseThreadStep, LeaseRecordStep, LeaseKeepStep
<1>3. Inv => Lease!KeepsLease
  BY LeaseUnexpired DEF Lease!KeepInv, Lease!Alone, Lease!KeepsLease
<1>. QED  BY <1>1, <1>2, <1>3, PTL DEF Lease!Spec

\* A behaviour of the composition is one of the lease.
LEMMA LeaseComposed == SpecOne => Lease!Spec
<1>1. InitOne => Lease!Init
  BY DEF InitOne
<1>2. [NextOne]_<<part, vars, balanceVars, excursionVars, leaseVars, runtimeVars>>
        => [Lease!Next]_Lease!vars
  BY DEF NextOne, HandoffMoves, BalanceMoves, TrackerMoves, LeaseMoves, RuntimeMoves,
     leaseVars, Lease!vars, Lease!serverVars, Lease!agentVars
<1>. QED  BY <1>1, <1>2, PTL DEF SpecOne, Lease!Spec

\* RecordedIsTrue: an end of the job in the state file is the end the control plane
\* holds, under the same lease (job_runner.py _transition).
THEOREM RecordedOfAgent == SpecOne => []RecordedIsTrue
<1>1. Lease!Spec => [](Lease!TypeOK /\ Lease!RecordedIsTrue)
  BY Recorded, AgentAssumption DEF AgentAssumption
<1>2. Lease!TypeOK /\ Lease!RecordedIsTrue => RecordedIsTrue
  BY DEF RecordedIsTrue
<1>. QED  BY LeaseComposed, <1>1, <1>2, PTL

\* KeepsLease: with the times of the code, an agent none of whose POSTs has failed
\* keeps its lease (job_runner.py _LeaseKeeper).
THEOREM KeepsLeaseOfAgent ==
  ASSUME Lease!TimingAssumption
  PROVE  SpecOne => []KeepsLease
<1>1. Lease!Spec => []Lease!KeepsLease
  BY LeaseKept, AgentAssumption DEF AgentAssumption
<1>2. Lease!KeepsLease => KeepsLease
  BY DEF KeepsLease
<1>. QED  BY LeaseComposed, <1>1, <1>2, PTL

-----------------------------------------------------------------------------
(* The calls that start or resume a terminal (NativeRuntime).  The journal  *)
(* is called log here, and the crashes of the agent ends.                   *)

\* What the code's constants are.
LEMMA RuntimeConstants ==
  None \notin Servers /\ MaxCalls \in Nat /\ MaxSessions \in Nat /\ MaxCrashes \in Nat
BY AgentAssumption DEF AgentAssumption, Runtime!RuntimeAssumption

\* A call whose kind and phase are those of the call before.
SameCall(p) ==
  /\ worker' \in Runtime!Call /\ worker'.pc = p
  /\ worker'.kind = worker.kind /\ worker'.phase = worker.phase
  /\ worker'.left = worker.left

\* A step of the call that moves only the program counter.
LEMMA CallMoves ==
  ASSUME worker \in Runtime!Call, NEW p \in Runtime!Steps, worker' = [worker EXCEPT !.pc = p]
  PROVE  /\ SameCall(p)
         /\ worker'.server = worker.server /\ worker'.checkpoint = worker.checkpoint
         /\ worker'.task = worker.task /\ worker'.stopFailed = worker.stopFailed
BY DEF Runtime!Call, SameCall

\* A call begins.
LEMMA CallBegins ==
  ASSUME NEW k \in {"start", "resume"}, NEW n \in 0..2, NEW s \in Servers, NEW l \in BOOLEAN,
         worker' = [Runtime!NoCall EXCEPT !.pc = "configure", !.kind = k, !.phase = n,
                                          !.server = s, !.left = l]
  PROVE  /\ worker' \in Runtime!Call /\ worker'.pc = "configure"
         /\ worker'.kind = k /\ worker'.phase = n /\ worker'.left = l
<1>1. Runtime!NoCall \in Runtime!Call /\ "configure" \in Runtime!Steps
  BY DEF Runtime!Call, Runtime!NoCall, Runtime!Steps
<1>. QED  BY <1>1 DEF Runtime!Call

\* No call.
LEMMA NoCallForms ==
  /\ Runtime!NoCall \in Runtime!Call /\ Runtime!NoCall.pc = "idle"
  /\ Runtime!NoCall.kind = None /\ Runtime!NoCall.phase = 0
BY DEF Runtime!Call, Runtime!NoCall, Runtime!Steps

\* _start_process notes where the journal ends.
LEMMA CallLaunches ==
  ASSUME worker \in Runtime!Call, NEW n \in Nat,
         worker' = [worker EXCEPT !.pc = "authorize", !.checkpoint = n, !.task = TRUE]
  PROVE  SameCall("authorize") /\ worker'.checkpoint = n
BY DEF Runtime!Call, Runtime!Steps, Runtime!Waiting, SameCall

\* The first phase learns the server's name.
LEMMA CallAuthorizes ==
  ASSUME worker \in Runtime!Call, NEW p \in Runtime!Steps, NEW s \in Servers \cup {None},
         worker' = [worker EXCEPT !.pc = p, !.task = FALSE, !.server = s]
  PROVE  SameCall(p)
BY DEF Runtime!Call, SameCall

\* The second phase begins.
LEMMA CallContinues ==
  ASSUME worker \in Runtime!Call, NEW n \in 0..2,
         worker' = [worker EXCEPT !.pc = "configure", !.phase = n]
  PROVE  /\ worker' \in Runtime!Call /\ worker'.pc = "configure" /\ worker'.phase = n
         /\ worker'.kind = worker.kind /\ worker'.left = worker.left
BY DEF Runtime!Call, Runtime!Steps

\* A call has failed.
LEMMA CallFails ==
  ASSUME worker \in Runtime!Call, NEW n \in 0..2, NEW b \in BOOLEAN,
         worker' = [worker EXCEPT !.pc = "finally", !.phase = n, !.task = FALSE,
                                  !.stopFailed = b]
  PROVE  /\ worker' \in Runtime!Call /\ worker'.pc = "finally" /\ worker'.phase = n
         /\ worker'.kind = worker.kind /\ worker'.stopFailed = b
BY DEF Runtime!Call, Runtime!Steps

\* What each action makes of the call.
LEMMA CallActions ==
  ASSUME Runtime!TypeOK
  PROVE  /\ Runtime!Start =>
              /\ worker' \in Runtime!Call /\ worker'.pc = "configure"
              /\ worker'.kind = "start" /\ worker'.phase = 1 /\ worker'.left = launch.due
         /\ Runtime!Resume =>
              /\ worker' \in Runtime!Call /\ worker'.pc = "configure"
              /\ worker'.kind = "resume" /\ worker'.phase = 2 /\ worker'.left = launch.due
         /\ Runtime!Configure =>
              /\ worker.pc = "configure"
              /\ \/ SameCall("launch")
                 \/ SameCall(IF worker.kind = "start" THEN "except" ELSE "failed")
         /\ Runtime!Launch =>
              /\ worker.pc = "launch" /\ SameCall("authorize") /\ worker'.checkpoint = Len(log)
         /\ Runtime!LaunchFails => worker.pc = "launch" /\ SameCall("except")
         /\ Runtime!Authorize =>
              /\ worker.pc = "authorize"
              /\ SameCall(IF worker.phase = 1 THEN "persist" ELSE "investor")
              /\ \E j \in DOMAIN log : j > worker.checkpoint /\ log[j].what = "authorized"
         /\ Runtime!Persist => worker.pc = "persist" /\ SameCall("erase")
         /\ Runtime!Erase => worker.pc = "erase" /\ SameCall("halt")
         /\ Runtime!Halt =>
              /\ worker.pc = "halt"
              /\ SameCall(IF terminal' = Runtime!NoTerminal THEN "clear" ELSE "except")
         /\ Runtime!Clear =>
              /\ worker.pc = "clear"
              /\ worker' \in Runtime!Call /\ worker'.pc = "configure" /\ worker'.phase = 2
              /\ worker'.kind = worker.kind /\ worker'.left = worker.left
         /\ Runtime!Investor =>
              /\ worker.pc = "investor"
              /\ SameCall("except") \/ SameCall(IF worker.kind = "start" THEN "probe" ELSE "ready?")
         /\ Runtime!Probe => worker.pc = "probe" /\ SameCall("attach")
         /\ Runtime!Attach => worker.pc = "attach" /\ SameCall("ready?")
         /\ Runtime!Ready =>
              /\ worker.pc = "ready?" /\ worker'.server = worker.server
              /\ \/ SameCall("except")
                 \/ SameCall("hide") /\ account.server = worker.server /\ rights # "master"
         /\ Runtime!Hide =>
              /\ worker.pc = "hide" /\ worker'.server = worker.server
              /\ \/ SameCall("except")
                 \/ SameCall(IF worker.kind = "start" THEN "finally" ELSE "ready")
         /\ Runtime!WaitFails =>
              /\ worker.pc \in Runtime!Waiting \cup {"launch"} /\ SameCall("except")
         /\ Runtime!StopFailed =>
              /\ worker.pc = "except"
              /\ worker' \in Runtime!Call /\ worker'.pc = "finally" /\ worker'.phase = 0
              /\ worker'.kind = worker.kind
              /\ worker'.stopFailed = (terminal' # Runtime!NoTerminal)
         /\ Runtime!Finally =>
              /\ worker.pc = "finally" /\ worker'.server = worker.server
              /\ SameCall(IF worker.phase = 0 THEN "failed" ELSE "ready")
              /\ worker'.stopFailed = worker.stopFailed
         /\ Runtime!End => worker' = Runtime!NoCall
         /\ Runtime!Crash => worker' = Runtime!NoCall
<1>a. worker \in Runtime!Call /\ launch.due \in BOOLEAN /\ log \in Seq(Runtime!Line)
  BY DEF Runtime!TypeOK, Runtime!Task
<1>1. ASSUME Runtime!Start
      PROVE  /\ worker' \in Runtime!Call /\ worker'.pc = "configure"
             /\ worker'.kind = "start" /\ worker'.phase = 1 /\ worker'.left = launch.due
  <2>1. PICK s \in Servers :
          worker' = [Runtime!NoCall EXCEPT !.pc = "configure", !.kind = "start", !.phase = 1,
                                           !.server = s, !.left = launch.due]
    BY <1>1 DEF Runtime!Start
  <2>2. launch.due \in BOOLEAN /\ "start" \in {"start", "resume"} /\ 1 \in 0..2
    BY <1>a
  <2>. HIDE <1>1
  <2>. QED  BY <2>1, <2>2, CallBegins
<1>2. ASSUME Runtime!Resume
      PROVE  /\ worker' \in Runtime!Call /\ worker'.pc = "configure"
             /\ worker'.kind = "resume" /\ worker'.phase = 2 /\ worker'.left = launch.due
  <2>1. PICK s \in Servers :
          worker' = [Runtime!NoCall EXCEPT !.pc = "configure", !.kind = "resume", !.phase = 2,
                                           !.server = s, !.left = launch.due]
    BY <1>2 DEF Runtime!Resume
  <2>2. launch.due \in BOOLEAN /\ "resume" \in {"start", "resume"} /\ 2 \in 0..2
    BY <1>a
  <2>. HIDE <1>2
  <2>. QED  BY <2>1, <2>2, CallBegins
<1>3. ASSUME Runtime!Configure
      PROVE  /\ worker.pc = "configure"
             /\ \/ SameCall("launch")
                \/ SameCall(IF worker.kind = "start" THEN "except" ELSE "failed")
  BY <1>a, <1>3, CallMoves DEF Runtime!Configure, Runtime!At, Runtime!Goto, Runtime!Steps,
     Runtime!Waiting
<1>4. ASSUME Runtime!Launch
      PROVE  /\ worker.pc = "launch" /\ SameCall("authorize") /\ worker'.checkpoint = Len(log)
  <2>1. Len(log) \in Nat
    BY <1>a
  <2>2. worker' = [worker EXCEPT !.pc = "authorize", !.checkpoint = Len(log), !.task = TRUE]
    BY <1>4 DEF Runtime!Launch
  <2>. QED  BY <1>a, <1>4, <2>1, <2>2, CallLaunches DEF Runtime!Launch, Runtime!At
<1>5. ASSUME Runtime!LaunchFails
      PROVE  /\ worker.pc = "launch" /\ SameCall("except")
  BY <1>a, <1>5, CallMoves DEF Runtime!LaunchFails, Runtime!At, Runtime!Goto, Runtime!Steps,
     Runtime!Waiting
<1>6. ASSUME Runtime!Authorize
      PROVE  /\ worker.pc = "authorize"
             /\ SameCall(IF worker.phase = 1 THEN "persist" ELSE "investor")
             /\ \E j \in DOMAIN log : j > worker.checkpoint /\ log[j].what = "authorized"
  <2>1. PICK j \in DOMAIN log :
          /\ j > worker.checkpoint /\ log[j].what = "authorized"
          /\ worker' = [worker EXCEPT
               !.pc = IF worker.phase = 1 THEN "persist" ELSE "investor", !.task = FALSE,
               !.server = IF worker.phase = 1 THEN log[j].server ELSE @]
    BY <1>6 DEF Runtime!Authorize, Runtime!FirstVerdict
  <2>2. log[j] \in Runtime!Line
    BY <1>a
  <2>3. (IF worker.phase = 1 THEN log[j].server ELSE worker.server) \in Servers \cup {None}
    BY <1>a, <2>2 DEF Runtime!Line, Runtime!Call
  <2>. QED  BY <1>a, <1>6, <2>1, <2>3, CallAuthorizes
            DEF Runtime!Authorize, Runtime!At, Runtime!Steps, Runtime!Waiting
<1>7. ASSUME Runtime!Persist
      PROVE  /\ worker.pc = "persist" /\ SameCall("erase")
  BY <1>a, <1>7, CallMoves DEF Runtime!Persist, Runtime!At, Runtime!Goto, Runtime!Steps,
     Runtime!Waiting
<1>8. ASSUME Runtime!Erase
      PROVE  /\ worker.pc = "erase" /\ SameCall("halt")
  BY <1>a, <1>8, CallMoves DEF Runtime!Erase, Runtime!At, Runtime!Goto, Runtime!Steps,
     Runtime!Waiting
<1>9. ASSUME Runtime!Halt
      PROVE  /\ worker.pc = "halt"
             /\ SameCall(IF terminal' = Runtime!NoTerminal THEN "clear" ELSE "except")
  BY <1>a, <1>9, CallMoves DEF Runtime!Halt, Runtime!At, Runtime!Steps, Runtime!Waiting
<1>10. ASSUME Runtime!Clear
      PROVE  /\ worker.pc = "clear"
             /\ worker' \in Runtime!Call /\ worker'.pc = "configure" /\ worker'.phase = 2
             /\ worker'.kind = worker.kind /\ worker'.left = worker.left
  BY <1>a, <1>10, CallContinues DEF Runtime!Clear, Runtime!At
<1>11. ASSUME Runtime!Investor
      PROVE  /\ worker.pc = "investor"
             /\ SameCall("except") \/ SameCall(IF worker.kind = "start" THEN "probe" ELSE "ready?")
  BY <1>a, <1>11, CallMoves DEF Runtime!Investor, Runtime!At, Runtime!Goto, Runtime!Steps,
     Runtime!Waiting
<1>12. ASSUME Runtime!Probe
      PROVE  /\ worker.pc = "probe" /\ SameCall("attach")
  BY <1>a, <1>12, CallMoves DEF Runtime!Probe, Runtime!At, Runtime!Goto, Runtime!Steps,
     Runtime!Waiting
<1>13. ASSUME Runtime!Attach
      PROVE  /\ worker.pc = "attach" /\ SameCall("ready?")
  BY <1>a, <1>13, CallMoves DEF Runtime!Attach, Runtime!At, Runtime!Goto, Runtime!Steps,
     Runtime!Waiting
<1>14. ASSUME Runtime!Ready
      PROVE  /\ worker.pc = "ready?" /\ worker'.server = worker.server
             /\ \/ SameCall("except")
                \/ SameCall("hide") /\ account.server = worker.server /\ rights # "master"
  BY <1>a, <1>14, CallMoves DEF Runtime!Ready, Runtime!At, Runtime!Goto, Runtime!Steps,
     Runtime!Waiting
<1>15. ASSUME Runtime!Hide
      PROVE  /\ worker.pc = "hide" /\ worker'.server = worker.server
             /\ \/ SameCall("except")
                \/ SameCall(IF worker.kind = "start" THEN "finally" ELSE "ready")
  BY <1>a, <1>15, CallMoves DEF Runtime!Hide, Runtime!At, Runtime!Goto, Runtime!Steps,
     Runtime!Waiting
<1>16. ASSUME Runtime!WaitFails
      PROVE  /\ worker.pc \in Runtime!Waiting \cup {"launch"} /\ SameCall("except")
  BY <1>a, <1>16, CallMoves DEF Runtime!WaitFails, Runtime!At, Runtime!Goto, Runtime!Steps,
     Runtime!Waiting
<1>17. ASSUME Runtime!StopFailed
      PROVE  /\ worker.pc = "except"
             /\ worker' \in Runtime!Call /\ worker'.pc = "finally" /\ worker'.phase = 0
             /\ worker'.kind = worker.kind
             /\ worker'.stopFailed = (terminal' # Runtime!NoTerminal)
  <2>1. worker' = [worker EXCEPT !.pc = "finally", !.phase = 0, !.task = FALSE,
                                 !.stopFailed = terminal' # Runtime!NoTerminal]
    BY <1>17 DEF Runtime!StopFailed
  <2>2. (terminal' # Runtime!NoTerminal) \in BOOLEAN /\ 0 \in 0..2
    OBVIOUS
  <2>. QED  BY <1>a, <1>17, <2>1, <2>2, CallFails DEF Runtime!StopFailed, Runtime!At
<1>18. ASSUME Runtime!Finally
      PROVE  /\ worker.pc = "finally" /\ worker'.server = worker.server
             /\ SameCall(IF worker.phase = 0 THEN "failed" ELSE "ready")
             /\ worker'.stopFailed = worker.stopFailed
  BY <1>a, <1>18, CallMoves DEF Runtime!Finally, Runtime!At, Runtime!Goto, Runtime!Steps,
     Runtime!Waiting
<1>19. ASSUME Runtime!End
      PROVE  /\ worker' = Runtime!NoCall
  BY <1>19 DEF Runtime!End
<1>20. ASSUME Runtime!Crash
      PROVE  /\ worker' = Runtime!NoCall
  BY <1>20 DEF Runtime!Crash
<1>. QED  BY <1>1, <1>2, <1>3, <1>4, <1>5, <1>6, <1>7, <1>8, <1>9, <1>10, <1>11, <1>12,
             <1>13, <1>14, <1>15, <1>16, <1>17, <1>18, <1>19, <1>20

\* Every step keeps the type of a call, and its kind and phase.
LEMMA RuntimeCall ==
  ASSUME Runtime!TypeOK, Runtime!CallInv, Runtime!Next
  PROVE  worker' \in Runtime!Call /\ Runtime!CallInv'
<1>a. worker \in Runtime!Call
  BY DEF Runtime!TypeOK
<1>1. CASE Runtime!Start
  BY <1>1, CallActions, NoCallForms DEF Runtime!CallInv, Runtime!At, SameCall
<1>2. CASE Runtime!Resume
  BY <1>2, CallActions, NoCallForms DEF Runtime!CallInv, Runtime!At, SameCall
<1>3. CASE Runtime!Configure
  BY <1>3, CallActions, NoCallForms DEF Runtime!CallInv, Runtime!At, SameCall
<1>4. CASE Runtime!Launch
  BY <1>4, CallActions, NoCallForms DEF Runtime!CallInv, Runtime!At, SameCall
<1>5. CASE Runtime!LaunchFails
  BY <1>5, CallActions, NoCallForms DEF Runtime!CallInv, Runtime!At, SameCall
<1>6. CASE Runtime!Authorize
  BY <1>6, CallActions, NoCallForms DEF Runtime!CallInv, Runtime!At, SameCall
<1>7. CASE Runtime!Persist
  BY <1>7, CallActions, NoCallForms DEF Runtime!CallInv, Runtime!At, SameCall
<1>8. CASE Runtime!Erase
  BY <1>8, CallActions, NoCallForms DEF Runtime!CallInv, Runtime!At, SameCall
<1>9. CASE Runtime!Halt
  BY <1>9, CallActions, NoCallForms DEF Runtime!CallInv, Runtime!At, SameCall
<1>10. CASE Runtime!Clear
  BY <1>10, CallActions, NoCallForms DEF Runtime!CallInv, Runtime!At, SameCall
<1>11. CASE Runtime!Investor
  BY <1>11, CallActions, NoCallForms DEF Runtime!CallInv, Runtime!At, SameCall
<1>12. CASE Runtime!Probe
  BY <1>12, CallActions, NoCallForms DEF Runtime!CallInv, Runtime!At, SameCall
<1>13. CASE Runtime!Attach
  BY <1>13, CallActions, NoCallForms DEF Runtime!CallInv, Runtime!At, SameCall
<1>14. CASE Runtime!Ready
  BY <1>14, CallActions, NoCallForms DEF Runtime!CallInv, Runtime!At, SameCall
<1>15. CASE Runtime!Hide
  BY <1>15, CallActions, NoCallForms DEF Runtime!CallInv, Runtime!At, SameCall
<1>16. CASE Runtime!WaitFails
  BY <1>16, CallActions, NoCallForms DEF Runtime!CallInv, Runtime!At, SameCall,
     Runtime!Waiting
<1>17. CASE Runtime!StopFailed
  BY <1>17, CallActions, NoCallForms DEF Runtime!CallInv, Runtime!At, SameCall
<1>18. CASE Runtime!Finally
  BY <1>18, CallActions, NoCallForms DEF Runtime!CallInv, Runtime!At, SameCall
<1>19. CASE Runtime!End
  BY <1>19, CallActions, NoCallForms DEF Runtime!CallInv, Runtime!At, SameCall
<1>20. CASE Runtime!Crash
  BY <1>20, CallActions, NoCallForms DEF Runtime!CallInv, Runtime!At, SameCall
<1>21. CASE Runtime!Terminal
  <2>1. worker' = worker
    BY <1>21 DEF Runtime!Terminal, Runtime!Boot, Runtime!Login, Runtime!KeepPrivate,
       Runtime!Synchronize, Runtime!Discover, Runtime!ApplyTemplate, Runtime!Publish,
       Runtime!Die, Runtime!Says, Runtime!env
  <2>. QED  BY <1>a, <2>1 DEF Runtime!CallInv, Runtime!At
<1>. QED  BY <1>1, <1>2, <1>3, <1>4, <1>5, <1>6, <1>7, <1>8, <1>9, <1>10, <1>11, <1>12,
             <1>13, <1>14, <1>15, <1>16, <1>17, <1>18, <1>19, <1>20, <1>21 DEF Runtime!Next,
             Runtime!Worker

\* What is nothing has its type, and types are closed under the updates.
LEMMA DataForms ==
  /\ Runtime!NoTask \in Runtime!Task /\ Runtime!NoTerminal \in Runtime!Process
  /\ Runtime!NoAccount \in Runtime!Published
  /\ \A t \in Runtime!Task, b \in BOOLEAN : [t EXCEPT !.due = b] \in Runtime!Task
  /\ \A c \in Runtime!Call, b, e \in BOOLEAN :
       [due |-> b, phase |-> c.phase, ea |-> e] \in Runtime!Task
  /\ \A t \in Runtime!Process, s \in Servers : [t EXCEPT !.server = s] \in Runtime!Process
  /\ \A t \in Runtime!Process : [t EXCEPT !.ea = TRUE] \in Runtime!Process
  /\ \A t \in Runtime!Process :
       [session |-> t.session, server |-> t.server] \in Runtime!Published
  /\ \A n \in 0..MaxSessions, l \in Runtime!Task :
       [Runtime!NoTerminal EXCEPT !.session = n, !.phase = l.phase, !.ea = l.ea]
         \in Runtime!Process
<1>1. 0 \in 0..MaxSessions /\ 0 \in 0..2
  BY RuntimeConstants
<1>2. /\ Runtime!NoTask \in Runtime!Task /\ Runtime!NoTerminal \in Runtime!Process
      /\ Runtime!NoAccount \in Runtime!Published
  BY <1>1 DEF Runtime!NoTask, Runtime!Task, Runtime!NoTerminal, Runtime!Process,
     Runtime!NoAccount, Runtime!Published
<1>3. \A t \in Runtime!Task, b \in BOOLEAN : [t EXCEPT !.due = b] \in Runtime!Task
  BY DEF Runtime!Task
<1>4. \A c \in Runtime!Call, b, e \in BOOLEAN :
        [due |-> b, phase |-> c.phase, ea |-> e] \in Runtime!Task
  BY DEF Runtime!Call, Runtime!Task
<1>5. /\ \A t \in Runtime!Process, s \in Servers : [t EXCEPT !.server = s] \in Runtime!Process
      /\ \A t \in Runtime!Process : [t EXCEPT !.ea = TRUE] \in Runtime!Process
  BY DEF Runtime!Process
<1>6. \A t \in Runtime!Process :
        [session |-> t.session, server |-> t.server] \in Runtime!Published
  BY DEF Runtime!Process, Runtime!Published
<1>7. \A t \in Runtime!Process, n \in 0..MaxSessions, l \in Runtime!Task :
        [t EXCEPT !.session = n, !.phase = l.phase, !.ea = l.ea] \in Runtime!Process
  BY DEF Runtime!Process, Runtime!Task
<1>. QED  BY <1>2, <1>3, <1>4, <1>5, <1>6, <1>7

\* The scheduled task.
LEMMA TaskStep ==
  ASSUME Runtime!TypeOK, Runtime!Next
  PROVE  launch' \in Runtime!Task
<1>a. launch \in Runtime!Task /\ worker \in Runtime!Call
  BY DEF Runtime!TypeOK
<1>1. CASE Runtime!Launch
  BY <1>a, <1>1, DataForms DEF Runtime!Launch, Runtime!machine, Runtime!readiness,
     Runtime!counts
<1>2. CASE Runtime!LaunchFails
  BY <1>a, <1>2, DataForms DEF Runtime!LaunchFails, Runtime!machine, Runtime!readiness
<1>3. CASE Runtime!Authorize
  BY <1>a, <1>3, DataForms DEF Runtime!Authorize, Runtime!ReleaseTask, Runtime!NoTask,
     Runtime!machine, Runtime!readiness, Runtime!counts
<1>4. CASE Runtime!Halt
  BY <1>a, <1>4, DataForms DEF Runtime!Halt, Runtime!StopAll, Runtime!NoTask,
     Runtime!NoTerminal, Runtime!readiness
<1>5. CASE Runtime!StopFailed
  BY <1>a, <1>5, DataForms DEF Runtime!StopFailed, Runtime!StopAll, Runtime!NoTask,
     Runtime!NoTerminal, Runtime!readiness
<1>6. CASE Runtime!Crash
  BY <1>a, <1>6, DataForms DEF Runtime!Crash, Runtime!machine, Runtime!readiness
<1>7. CASE Runtime!Boot
  BY <1>a, <1>7, DataForms DEF Runtime!Boot, Runtime!env, Runtime!counts, Runtime!readiness,
     Runtime!NoTerminal
<1>8. ASSUME ~Runtime!Launch, ~Runtime!LaunchFails, ~Runtime!Authorize, ~Runtime!Halt,
           ~Runtime!StopFailed, ~Runtime!Crash, ~Runtime!Boot PROVE launch' = launch
  BY <1>8 DEF Runtime!Next, Runtime!Worker, Runtime!Terminal, Runtime!Start, Runtime!Resume,
     Runtime!Configure, Runtime!Persist, Runtime!Erase, Runtime!Clear, Runtime!Investor,
     Runtime!Probe, Runtime!Attach, Runtime!Ready, Runtime!Hide, Runtime!WaitFails,
     Runtime!Finally, Runtime!End, Runtime!Login, Runtime!KeepPrivate, Runtime!Synchronize,
     Runtime!Discover, Runtime!ApplyTemplate, Runtime!Publish, Runtime!Die,
     Runtime!NoTerminal, Runtime!Unpublish, Runtime!NoAccount, Runtime!HasTemplate,
     Runtime!machine, Runtime!readiness, Runtime!counts, Runtime!Written, Runtime!Says,
     Runtime!Entry, Runtime!env
<1>. QED  BY <1>a, <1>1, <1>2, <1>3, <1>4, <1>5, <1>6, <1>7, <1>8

\* The terminal, and the number of terminals launched.
LEMMA ProcessStep ==
  ASSUME Runtime!TypeOK, Runtime!Next
  PROVE  terminal' \in Runtime!Process /\ sessions' \in 0..MaxSessions
<1>a. /\ terminal \in Runtime!Process /\ sessions \in 0..MaxSessions
      /\ launch \in Runtime!Task
  BY DEF Runtime!TypeOK
<1>1. CASE Runtime!Start
  BY <1>a, <1>1, DataForms DEF Runtime!Start
<1>2. CASE Runtime!Resume
  BY <1>a, <1>2, DataForms DEF Runtime!Resume
<1>3. CASE Runtime!Halt
  BY <1>a, <1>3, DataForms DEF Runtime!Halt, Runtime!StopAll
<1>4. CASE Runtime!StopFailed
  BY <1>a, <1>4, DataForms DEF Runtime!StopFailed, Runtime!StopAll
<1>5. CASE Runtime!Boot
  <2>1. CASE Runtime!Alive
    BY <1>a, <1>5, <2>1 DEF Runtime!Boot
  <2>2. CASE ~Runtime!Alive
    <3>1. sessions + 1 \in 0..MaxSessions
      BY <1>a, <1>5, RuntimeConstants DEF Runtime!Boot
    <3>. QED  BY <1>a, <1>5, <2>2, <3>1, DataForms DEF Runtime!Boot
  <2>. QED  BY <2>1, <2>2
<1>6. CASE Runtime!Login
  BY <1>a, <1>6, DataForms DEF Runtime!Login, Runtime!Says
<1>7. CASE Runtime!ApplyTemplate
  BY <1>a, <1>7, DataForms DEF Runtime!ApplyTemplate
<1>8. CASE Runtime!Die
  BY <1>a, <1>8, DataForms DEF Runtime!Die
<1>9. ASSUME ~Runtime!Start, ~Runtime!Resume, ~Runtime!Halt, ~Runtime!StopFailed,
           ~Runtime!Boot, ~Runtime!Login, ~Runtime!ApplyTemplate, ~Runtime!Die
           PROVE terminal' = terminal /\ sessions' = sessions
  BY <1>9 DEF Runtime!Next, Runtime!Worker, Runtime!Terminal, Runtime!Configure,
     Runtime!Launch, Runtime!LaunchFails, Runtime!Authorize, Runtime!Persist, Runtime!Erase,
     Runtime!Clear, Runtime!Investor, Runtime!Probe, Runtime!Attach, Runtime!Ready,
     Runtime!Hide, Runtime!WaitFails, Runtime!Finally, Runtime!End, Runtime!Crash,
     Runtime!KeepPrivate, Runtime!Synchronize, Runtime!Discover, Runtime!Publish,
     Runtime!machine, Runtime!readiness, Runtime!counts, Runtime!ReleaseTask,
     Runtime!NoTask, Runtime!Unpublish, Runtime!NoAccount, Runtime!Written, Runtime!env,
     Runtime!Says, Runtime!Entry
<1>. QED  BY <1>a, <1>1, <1>2, <1>3, <1>4, <1>5, <1>6, <1>7, <1>8, <1>9

\* The terminal's log.
LEMMA JournalStep ==
  ASSUME Runtime!TypeOK, Runtime!Next
  PROVE  log' \in Seq(Runtime!Line)
<1>a. log \in Seq(Runtime!Line) /\ terminal \in Runtime!Process
  BY DEF Runtime!TypeOK
<1>1. CASE Runtime!Start
  BY <1>a, <1>1 DEF Runtime!Start, Runtime!NoTerminal
<1>2. CASE Runtime!Resume
  BY <1>a, <1>2 DEF Runtime!Resume, Runtime!NoTerminal, Runtime!Unpublish,
     Runtime!NoAccount, Runtime!HasTemplate
<1>3. CASE Runtime!Login
  <2>1. PICK l \in Runtime!Line : log' = Append(log, l)
    BY <1>a, <1>3 DEF Runtime!Login, Runtime!Says, Runtime!Entry, Runtime!Line
  <2>. QED  BY <1>a, <2>1
<1>4. CASE Runtime!Synchronize
  <2>1. PICK l \in Runtime!Line : log' = Append(log, l)
    BY <1>a, <1>4 DEF Runtime!Synchronize, Runtime!Says, Runtime!Entry, Runtime!Line,
       Runtime!Process
  <2>. QED  BY <1>a, <2>1
<1>5. ASSUME ~Runtime!Start, ~Runtime!Resume, ~Runtime!Login, ~Runtime!Synchronize
           PROVE log' = log
  BY <1>5 DEF Runtime!Next, Runtime!Worker, Runtime!Terminal, Runtime!Configure,
     Runtime!Launch, Runtime!LaunchFails, Runtime!Authorize, Runtime!Persist, Runtime!Erase,
     Runtime!Halt, Runtime!Clear, Runtime!Investor, Runtime!Probe, Runtime!Attach,
     Runtime!Ready, Runtime!Hide, Runtime!WaitFails, Runtime!StopFailed, Runtime!Finally,
     Runtime!End, Runtime!Crash, Runtime!Boot, Runtime!KeepPrivate, Runtime!Discover,
     Runtime!ApplyTemplate, Runtime!Publish, Runtime!Die, Runtime!machine,
     Runtime!readiness, Runtime!counts, Runtime!ReleaseTask, Runtime!NoTask,
     Runtime!StopAll, Runtime!NoTerminal, Runtime!Unpublish, Runtime!NoAccount,
     Runtime!Written, Runtime!env
<1>. QED  BY <1>a, <1>1, <1>2, <1>3, <1>4, <1>5

\* What script and expert publish.
LEMMA PublishedStep ==
  ASSUME Runtime!TypeOK, Runtime!Next
  PROVE  /\ account' \in Runtime!Published
         /\ heartbeat' \in 0..MaxSessions /\ discovered' \in 0..MaxSessions
<1>a. /\ terminal \in Runtime!Process /\ account \in Runtime!Published
      /\ heartbeat \in 0..MaxSessions /\ discovered \in 0..MaxSessions
      /\ 0 \in 0..MaxSessions
  BY RuntimeConstants DEF Runtime!TypeOK
<1>1. CASE Runtime!Resume
  BY <1>a, <1>1, DataForms DEF Runtime!Resume, Runtime!Unpublish
<1>2. CASE Runtime!Clear
  BY <1>a, <1>2, DataForms DEF Runtime!Clear, Runtime!Unpublish
<1>3. CASE Runtime!Discover
  BY <1>a, <1>3 DEF Runtime!Discover, Runtime!Process
<1>4. CASE Runtime!Publish
  <2>1. terminal.session \in 0..MaxSessions
    BY <1>a DEF Runtime!Process
  <2>. QED  BY <1>a, <1>4, <2>1, DataForms DEF Runtime!Publish
<1>5. ASSUME ~Runtime!Resume, ~Runtime!Clear, ~Runtime!Discover, ~Runtime!Publish
           PROVE account' = account /\ heartbeat' = heartbeat /\ discovered' = discovered
  BY <1>5 DEF Runtime!Next, Runtime!Worker, Runtime!Terminal, Runtime!Start,
     Runtime!Configure, Runtime!Launch, Runtime!LaunchFails, Runtime!Authorize,
     Runtime!Persist, Runtime!Erase, Runtime!Halt, Runtime!Investor, Runtime!Probe,
     Runtime!Attach, Runtime!Ready, Runtime!Hide, Runtime!WaitFails, Runtime!StopFailed,
     Runtime!Finally, Runtime!End, Runtime!Crash, Runtime!Boot, Runtime!Login,
     Runtime!KeepPrivate, Runtime!Synchronize, Runtime!ApplyTemplate, Runtime!Die,
     Runtime!NoTerminal, Runtime!machine, Runtime!readiness, Runtime!counts,
     Runtime!ReleaseTask, Runtime!NoTask, Runtime!StopAll, Runtime!Written, Runtime!env,
     Runtime!Says, Runtime!Entry
<1>. QED  BY <1>a, <1>1, <1>2, <1>3, <1>4, <1>5

\* Every step keeps the types.
LEMMA RuntimeType ==
  ASSUME Runtime!TypeOK, Runtime!CallInv, Runtime!Next
  PROVE  Runtime!TypeOK'
<1>1. /\ worker' \in Runtime!Call /\ launch' \in Runtime!Task /\ terminal' \in Runtime!Process
      /\ sessions' \in 0..MaxSessions /\ log' \in Seq(Runtime!Line)
      /\ account' \in Runtime!Published /\ heartbeat' \in 0..MaxSessions
      /\ discovered' \in 0..MaxSessions
  BY RuntimeCall, TaskStep, ProcessStep, JournalStep, PublishedStep
<1>2. /\ rights' = rights /\ kept' \in BOOLEAN /\ handoff' \in BOOLEAN /\ template' \in BOOLEAN
  BY DEF Runtime!TypeOK, Runtime!Next, Runtime!Worker, Runtime!Terminal, Runtime!Start,
     Runtime!Resume, Runtime!Configure, Runtime!Launch, Runtime!LaunchFails,
     Runtime!Authorize, Runtime!Persist, Runtime!Erase, Runtime!Halt, Runtime!Clear,
     Runtime!Investor, Runtime!Probe, Runtime!Attach, Runtime!Ready, Runtime!Hide,
     Runtime!WaitFails, Runtime!StopFailed, Runtime!Finally, Runtime!End, Runtime!Crash,
     Runtime!Boot, Runtime!Login, Runtime!KeepPrivate, Runtime!Synchronize,
     Runtime!Discover, Runtime!ApplyTemplate, Runtime!Publish, Runtime!Die,
     Runtime!NoTerminal, Runtime!Unpublish, Runtime!NoAccount, Runtime!HasTemplate,
     Runtime!machine, Runtime!readiness, Runtime!counts, Runtime!ReleaseTask,
     Runtime!NoTask, Runtime!StopAll, Runtime!Written, Runtime!env, Runtime!Says,
     Runtime!Entry
<1>3. passwords' \subseteq {"login-bootstrap.ini", "startup.ini"}
  BY DEF Runtime!TypeOK, Runtime!ConfigFile, Runtime!Next, Runtime!Worker, Runtime!Terminal,
     Runtime!Start, Runtime!Resume, Runtime!Configure, Runtime!Launch, Runtime!LaunchFails,
     Runtime!Authorize, Runtime!Persist, Runtime!Erase, Runtime!Halt, Runtime!Clear,
     Runtime!Investor, Runtime!Probe, Runtime!Attach, Runtime!Ready, Runtime!Hide,
     Runtime!WaitFails, Runtime!StopFailed, Runtime!Finally, Runtime!End, Runtime!Crash,
     Runtime!Boot, Runtime!Login, Runtime!KeepPrivate, Runtime!Synchronize,
     Runtime!Discover, Runtime!ApplyTemplate, Runtime!Publish, Runtime!Die,
     Runtime!NoTerminal, Runtime!Unpublish, Runtime!NoAccount, Runtime!HasTemplate,
     Runtime!machine, Runtime!readiness, Runtime!counts, Runtime!ReleaseTask,
     Runtime!NoTask, Runtime!StopAll, Runtime!Written, Runtime!env, Runtime!Says,
     Runtime!Entry
<1>4. /\ calls' \in 0..MaxCalls /\ ends' \in 0..MaxCrashes
      /\ stopFaults' \in Nat /\ runFaults' \in Nat
  <2>a. /\ calls \in 0..MaxCalls /\ ends \in 0..MaxCrashes
        /\ stopFaults \in Nat /\ runFaults \in Nat
        /\ MaxCalls \in Nat /\ MaxCrashes \in Nat
    BY RuntimeConstants DEF Runtime!TypeOK
  <2>1. CASE Runtime!Start \/ Runtime!Resume
    <3>1. /\ calls < MaxCalls /\ calls' = calls + 1 /\ ends' = ends
          /\ stopFaults' = stopFaults /\ runFaults' = runFaults
      BY <2>1 DEF Runtime!Start, Runtime!Resume
    <3>. QED  BY <2>a, <3>1
  <2>2. CASE Runtime!LaunchFails
    BY <2>a, <2>2 DEF Runtime!LaunchFails
  <2>3. CASE Runtime!Halt \/ Runtime!StopFailed
    BY <2>a, <2>3 DEF Runtime!Halt, Runtime!StopFailed, Runtime!StopAll
  <2>4. CASE Runtime!Crash
    BY <2>a, <2>4 DEF Runtime!Crash
  <2>5. ASSUME ~(Runtime!Start \/ Runtime!Resume), ~Runtime!LaunchFails,
               ~(Runtime!Halt \/ Runtime!StopFailed), ~Runtime!Crash
        PROVE  /\ calls' = calls /\ ends' = ends /\ stopFaults' = stopFaults
               /\ runFaults' = runFaults
    BY <2>5 DEF Runtime!Next, Runtime!Worker, Runtime!Terminal, Runtime!Configure,
       Runtime!Launch, Runtime!Authorize, Runtime!Persist, Runtime!Erase, Runtime!Clear,
       Runtime!Investor, Runtime!Probe, Runtime!Attach, Runtime!Ready, Runtime!Hide,
       Runtime!WaitFails, Runtime!Finally, Runtime!End, Runtime!Boot, Runtime!Login,
       Runtime!KeepPrivate, Runtime!Synchronize, Runtime!Discover, Runtime!ApplyTemplate,
       Runtime!Publish, Runtime!Die, Runtime!counts, Runtime!env, Runtime!Says
  <2>. QED  BY <2>a, <2>1, <2>2, <2>3, <2>4, <2>5
<1>. QED  BY <1>1, <1>2, <1>3, <1>4 DEF Runtime!TypeOK

\* A crash is counted.
LEMMA CrashCounts ==
  ASSUME Runtime!TypeOK, Runtime!Next, ends' = 0
  PROVE  ends = 0 /\ ~Runtime!Crash
<1>1. ends \in Nat
  BY RuntimeConstants DEF Runtime!TypeOK
<1>2. CASE Runtime!Crash
  BY <1>1, <1>2 DEF Runtime!Crash
<1>3. CASE ~Runtime!Crash
  <2>1. ends' = ends
    BY <1>3 DEF Runtime!Next, Runtime!Worker, Runtime!Terminal, Runtime!Start,
       Runtime!Resume, Runtime!Configure, Runtime!Launch, Runtime!LaunchFails,
       Runtime!Authorize, Runtime!Persist, Runtime!Erase, Runtime!Halt, Runtime!Clear,
       Runtime!Investor, Runtime!Probe, Runtime!Attach, Runtime!Ready, Runtime!Hide,
       Runtime!WaitFails, Runtime!StopFailed, Runtime!Finally, Runtime!End, Runtime!Boot,
       Runtime!Login, Runtime!KeepPrivate, Runtime!Synchronize, Runtime!Discover,
       Runtime!ApplyTemplate, Runtime!Publish, Runtime!Die, Runtime!counts, Runtime!env,
       Runtime!Says
  <2>. QED  BY <1>3, <2>1
<1>. QED  BY <1>2, <1>3

\* Whose password is on disk.
LEMMA SecretStep ==
  ASSUME Runtime!IInv, Runtime!Next
  PROVE  Runtime!SecretInv'
<1>a. /\ worker \in Runtime!Call /\ Runtime!TypeOK
      /\ passwords \subseteq {"login-bootstrap.ini", "startup.ini"}
  BY RuntimeConstants DEF Runtime!IInv, Runtime!TypeOK
<1>. SUFFICES ASSUME ends' = 0 PROVE Runtime!SecretInv'
  BY DEF Runtime!SecretInv
<1>b. ends = 0 /\ ~Runtime!Crash
  BY CrashCounts DEF Runtime!IInv
<1>1. CASE Runtime!Start
  BY <1>a, <1>b, <1>1, CallActions, NoCallForms, RuntimeConstants
     DEF SameCall, Runtime!Start, Runtime!NoTerminal, Runtime!readiness, Runtime!IInv,
         Runtime!SecretInv, Runtime!CallInv, Runtime!At, Runtime!NoCall
<1>2. CASE Runtime!Resume
  BY <1>a, <1>b, <1>2, CallActions, NoCallForms, RuntimeConstants
     DEF SameCall, Runtime!Resume, Runtime!NoTerminal, Runtime!Unpublish, Runtime!NoAccount,
         Runtime!HasTemplate, Runtime!IInv, Runtime!SecretInv, Runtime!CallInv, Runtime!At,
         Runtime!NoCall
<1>3. CASE Runtime!Configure
  BY <1>a, <1>b, <1>3, CallActions, NoCallForms, RuntimeConstants
     DEF SameCall, Runtime!Configure, Runtime!machine, Runtime!readiness, Runtime!counts,
         Runtime!ConfigFile, Runtime!IInv, Runtime!SecretInv, Runtime!CallInv, Runtime!At,
         Runtime!NoCall
<1>4. CASE Runtime!Launch
  BY <1>a, <1>b, <1>4, CallActions, NoCallForms, RuntimeConstants
     DEF SameCall, Runtime!Launch, Runtime!machine, Runtime!readiness, Runtime!counts,
         Runtime!IInv, Runtime!SecretInv, Runtime!CallInv, Runtime!At, Runtime!NoCall
<1>5. CASE Runtime!LaunchFails
  BY <1>a, <1>b, <1>5, CallActions, NoCallForms, RuntimeConstants
     DEF SameCall, Runtime!LaunchFails, Runtime!machine, Runtime!readiness, Runtime!IInv,
         Runtime!SecretInv, Runtime!CallInv, Runtime!At, Runtime!NoCall
<1>6. CASE Runtime!Authorize
  BY <1>a, <1>b, <1>6, CallActions, NoCallForms, RuntimeConstants
     DEF SameCall, Runtime!Authorize, Runtime!ReleaseTask, Runtime!NoTask, Runtime!machine,
         Runtime!readiness, Runtime!counts, Runtime!IInv, Runtime!SecretInv,
         Runtime!CallInv, Runtime!At, Runtime!NoCall
<1>7. CASE Runtime!Persist
  BY <1>a, <1>b, <1>7, CallActions, NoCallForms, RuntimeConstants
     DEF SameCall, Runtime!Persist, Runtime!machine, Runtime!readiness, Runtime!counts,
         Runtime!IInv, Runtime!SecretInv, Runtime!CallInv, Runtime!At, Runtime!NoCall
<1>8. CASE Runtime!Erase
  BY <1>a, <1>b, <1>8, CallActions, NoCallForms, RuntimeConstants
     DEF SameCall, Runtime!Erase, Runtime!machine, Runtime!readiness, Runtime!counts,
         Runtime!IInv, Runtime!SecretInv, Runtime!CallInv, Runtime!At, Runtime!NoCall
<1>9. CASE Runtime!Halt
  BY <1>a, <1>b, <1>9, CallActions, NoCallForms, RuntimeConstants
     DEF SameCall, Runtime!Halt, Runtime!StopAll, Runtime!NoTask, Runtime!NoTerminal,
         Runtime!readiness, Runtime!IInv, Runtime!SecretInv, Runtime!CallInv, Runtime!At,
         Runtime!NoCall
<1>10. CASE Runtime!Clear
  BY <1>a, <1>b, <1>10, CallActions, NoCallForms, RuntimeConstants
     DEF SameCall, Runtime!Clear, Runtime!Unpublish, Runtime!NoAccount, Runtime!machine,
         Runtime!counts, Runtime!IInv, Runtime!SecretInv, Runtime!CallInv, Runtime!At,
         Runtime!NoCall
<1>11. CASE Runtime!Investor
  BY <1>a, <1>b, <1>11, CallActions, NoCallForms, RuntimeConstants
     DEF SameCall, Runtime!Investor, Runtime!machine, Runtime!readiness, Runtime!counts,
         Runtime!IInv, Runtime!SecretInv, Runtime!CallInv, Runtime!At, Runtime!NoCall
<1>12. CASE Runtime!Probe
  BY <1>a, <1>b, <1>12, CallActions, NoCallForms, RuntimeConstants
     DEF SameCall, Runtime!Probe, Runtime!machine, Runtime!readiness, Runtime!counts,
         Runtime!IInv, Runtime!SecretInv, Runtime!CallInv, Runtime!At, Runtime!NoCall
<1>13. CASE Runtime!Attach
  BY <1>a, <1>b, <1>13, CallActions, NoCallForms, RuntimeConstants
     DEF SameCall, Runtime!Attach, Runtime!machine, Runtime!counts, Runtime!IInv,
         Runtime!SecretInv, Runtime!CallInv, Runtime!At, Runtime!NoCall
<1>14. CASE Runtime!Ready
  BY <1>a, <1>b, <1>14, CallActions, NoCallForms, RuntimeConstants
     DEF SameCall, Runtime!Ready, Runtime!machine, Runtime!readiness, Runtime!counts,
         Runtime!IInv, Runtime!SecretInv, Runtime!CallInv, Runtime!At, Runtime!NoCall
<1>15. CASE Runtime!Hide
  BY <1>a, <1>b, <1>15, CallActions, NoCallForms, RuntimeConstants
     DEF SameCall, Runtime!Hide, Runtime!machine, Runtime!readiness, Runtime!counts,
         Runtime!IInv, Runtime!SecretInv, Runtime!CallInv, Runtime!At, Runtime!NoCall
<1>16. CASE Runtime!WaitFails
  BY <1>a, <1>b, <1>16, CallActions, NoCallForms, RuntimeConstants
     DEF SameCall, Runtime!WaitFails, Runtime!machine, Runtime!readiness, Runtime!counts,
         Runtime!IInv, Runtime!SecretInv, Runtime!CallInv, Runtime!At, Runtime!NoCall
<1>17. CASE Runtime!StopFailed
  BY <1>a, <1>b, <1>17, CallActions, NoCallForms, RuntimeConstants
     DEF SameCall, Runtime!StopFailed, Runtime!StopAll, Runtime!NoTask, Runtime!NoTerminal,
         Runtime!readiness, Runtime!IInv, Runtime!SecretInv, Runtime!CallInv, Runtime!At,
         Runtime!NoCall
<1>18. CASE Runtime!Finally
  BY <1>a, <1>b, <1>18, CallActions, NoCallForms, RuntimeConstants
     DEF SameCall, Runtime!Finally, Runtime!Written, Runtime!machine, Runtime!readiness,
         Runtime!counts, Runtime!IInv, Runtime!SecretInv, Runtime!CallInv, Runtime!At,
         Runtime!NoCall
<1>19. CASE Runtime!End
  BY <1>a, <1>b, <1>19, CallActions, NoCallForms, RuntimeConstants
     DEF SameCall, Runtime!End, Runtime!machine, Runtime!readiness, Runtime!counts,
         Runtime!IInv, Runtime!SecretInv, Runtime!CallInv, Runtime!At, Runtime!NoCall
<1>20. CASE Runtime!Terminal
  <2>1. worker' = worker /\ passwords' = passwords
    BY <1>20 DEF Runtime!Terminal, Runtime!Boot, Runtime!Login, Runtime!KeepPrivate,
       Runtime!Synchronize, Runtime!Discover, Runtime!ApplyTemplate, Runtime!Publish,
       Runtime!Die, Runtime!Says, Runtime!env
  <2>. QED  BY <1>b, <2>1 DEF Runtime!IInv, Runtime!SecretInv
<1>. QED  BY <1>b, <1>1, <1>2, <1>3, <1>4, <1>5, <1>6, <1>7, <1>8, <1>9, <1>10, <1>11,
             <1>12, <1>13, <1>14, <1>15, <1>16, <1>17, <1>18, <1>19, <1>20 DEF Runtime!Next,
             Runtime!Worker

\* When a task may start a terminal, and when none runs, if no call was interrupted.
LEMMA TasksStep ==
  ASSUME Runtime!IInv, Runtime!Next
  PROVE  Runtime!TaskInv'
<1>a. Runtime!TypeOK /\ worker \in Runtime!Call /\ launch \in Runtime!Task
  BY RuntimeConstants DEF Runtime!IInv, Runtime!TypeOK
<1>. SUFFICES ASSUME ends' = 0 PROVE Runtime!TaskInv'
  BY DEF Runtime!TaskInv
<1>b. ends = 0 /\ ~Runtime!Crash
  BY CrashCounts DEF Runtime!IInv
<1>1. CASE Runtime!Start
  BY <1>a, <1>b, <1>1, CallActions, NoCallForms
     DEF SameCall, Runtime!Start, Runtime!NoTerminal, Runtime!readiness, Runtime!IInv,
         Runtime!TaskInv, Runtime!CallInv, Runtime!At, Runtime!Alive, Runtime!Task,
         Runtime!Waiting, Runtime!Steps
<1>2. CASE Runtime!Resume
  BY <1>a, <1>b, <1>2, CallActions, NoCallForms
     DEF SameCall, Runtime!Resume, Runtime!NoTerminal, Runtime!Unpublish, Runtime!NoAccount,
         Runtime!HasTemplate, Runtime!IInv, Runtime!TaskInv, Runtime!CallInv, Runtime!At,
         Runtime!Alive, Runtime!Task, Runtime!Waiting, Runtime!Steps
<1>3. CASE Runtime!Configure
  BY <1>a, <1>b, <1>3, CallActions, NoCallForms
     DEF SameCall, Runtime!Configure, Runtime!machine, Runtime!readiness, Runtime!counts,
         Runtime!IInv, Runtime!TaskInv, Runtime!CallInv, Runtime!At, Runtime!Alive,
         Runtime!NoTerminal, Runtime!Task, Runtime!Waiting, Runtime!Steps
<1>4. CASE Runtime!Launch
  BY <1>a, <1>b, <1>4, CallActions, NoCallForms
     DEF SameCall, Runtime!Launch, Runtime!machine, Runtime!readiness, Runtime!counts,
         Runtime!IInv, Runtime!TaskInv, Runtime!CallInv, Runtime!At, Runtime!Alive,
         Runtime!NoTerminal, Runtime!Task, Runtime!Waiting, Runtime!Steps
<1>5. CASE Runtime!LaunchFails
  BY <1>a, <1>b, <1>5, CallActions, NoCallForms
     DEF SameCall, Runtime!LaunchFails, Runtime!machine, Runtime!readiness, Runtime!IInv,
         Runtime!TaskInv, Runtime!CallInv, Runtime!At, Runtime!Alive, Runtime!NoTerminal,
         Runtime!Task, Runtime!Waiting, Runtime!Steps
<1>6. CASE Runtime!Authorize
  BY <1>a, <1>b, <1>6, CallActions, NoCallForms
     DEF SameCall, Runtime!Authorize, Runtime!ReleaseTask, Runtime!NoTask, Runtime!machine,
         Runtime!readiness, Runtime!counts, Runtime!IInv, Runtime!TaskInv, Runtime!CallInv,
         Runtime!At, Runtime!Alive, Runtime!NoTerminal, Runtime!Task, Runtime!Waiting,
         Runtime!Steps
<1>7. CASE Runtime!Persist
  BY <1>a, <1>b, <1>7, CallActions, NoCallForms
     DEF SameCall, Runtime!Persist, Runtime!machine, Runtime!readiness, Runtime!counts,
         Runtime!IInv, Runtime!TaskInv, Runtime!CallInv, Runtime!At, Runtime!Alive,
         Runtime!NoTerminal, Runtime!Task, Runtime!Waiting, Runtime!Steps
<1>8. CASE Runtime!Erase
  BY <1>a, <1>b, <1>8, CallActions, NoCallForms
     DEF SameCall, Runtime!Erase, Runtime!machine, Runtime!readiness, Runtime!counts,
         Runtime!IInv, Runtime!TaskInv, Runtime!CallInv, Runtime!At, Runtime!Alive,
         Runtime!NoTerminal, Runtime!Task, Runtime!Waiting, Runtime!Steps
<1>9. CASE Runtime!Halt
  BY <1>a, <1>b, <1>9, CallActions, NoCallForms
     DEF SameCall, Runtime!Halt, Runtime!StopAll, Runtime!NoTask, Runtime!NoTerminal,
         Runtime!readiness, Runtime!IInv, Runtime!TaskInv, Runtime!CallInv, Runtime!At,
         Runtime!Alive, Runtime!Task, Runtime!Waiting, Runtime!Steps
<1>10. CASE Runtime!Clear
  BY <1>a, <1>b, <1>10, CallActions, NoCallForms
     DEF SameCall, Runtime!Clear, Runtime!Unpublish, Runtime!NoAccount, Runtime!machine,
         Runtime!counts, Runtime!IInv, Runtime!TaskInv, Runtime!CallInv, Runtime!At,
         Runtime!Alive, Runtime!NoTerminal, Runtime!Task, Runtime!Waiting, Runtime!Steps,
         Runtime!SessionInv
<1>11. CASE Runtime!Investor
  BY <1>a, <1>b, <1>11, CallActions, NoCallForms
     DEF SameCall, Runtime!Investor, Runtime!machine, Runtime!readiness, Runtime!counts,
         Runtime!IInv, Runtime!TaskInv, Runtime!CallInv, Runtime!At, Runtime!Alive,
         Runtime!NoTerminal, Runtime!Task, Runtime!Waiting, Runtime!Steps
<1>12. CASE Runtime!Probe
  BY <1>a, <1>b, <1>12, CallActions, NoCallForms
     DEF SameCall, Runtime!Probe, Runtime!machine, Runtime!readiness, Runtime!counts,
         Runtime!IInv, Runtime!TaskInv, Runtime!CallInv, Runtime!At, Runtime!Alive,
         Runtime!NoTerminal, Runtime!Task, Runtime!Waiting, Runtime!Steps
<1>13. CASE Runtime!Attach
  BY <1>a, <1>b, <1>13, CallActions, NoCallForms
     DEF SameCall, Runtime!Attach, Runtime!machine, Runtime!counts, Runtime!IInv,
         Runtime!TaskInv, Runtime!CallInv, Runtime!At, Runtime!Alive, Runtime!NoTerminal,
         Runtime!Task, Runtime!Waiting, Runtime!Steps
<1>14. CASE Runtime!Ready
  BY <1>a, <1>b, <1>14, CallActions, NoCallForms
     DEF SameCall, Runtime!Ready, Runtime!machine, Runtime!readiness, Runtime!counts,
         Runtime!IInv, Runtime!TaskInv, Runtime!CallInv, Runtime!At, Runtime!Alive,
         Runtime!NoTerminal, Runtime!Task, Runtime!Waiting, Runtime!Steps
<1>15. CASE Runtime!Hide
  BY <1>a, <1>b, <1>15, CallActions, NoCallForms
     DEF SameCall, Runtime!Hide, Runtime!machine, Runtime!readiness, Runtime!counts,
         Runtime!IInv, Runtime!TaskInv, Runtime!CallInv, Runtime!At, Runtime!Alive,
         Runtime!NoTerminal, Runtime!Task, Runtime!Waiting, Runtime!Steps
<1>16. CASE Runtime!WaitFails
  BY <1>a, <1>b, <1>16, CallActions, NoCallForms
     DEF SameCall, Runtime!WaitFails, Runtime!machine, Runtime!readiness, Runtime!counts,
         Runtime!IInv, Runtime!TaskInv, Runtime!CallInv, Runtime!At, Runtime!Alive,
         Runtime!NoTerminal, Runtime!Task, Runtime!Waiting, Runtime!Steps
<1>17. CASE Runtime!StopFailed
  BY <1>a, <1>b, <1>17, CallActions, NoCallForms
     DEF SameCall, Runtime!StopFailed, Runtime!StopAll, Runtime!NoTask, Runtime!NoTerminal,
         Runtime!readiness, Runtime!IInv, Runtime!TaskInv, Runtime!CallInv, Runtime!At,
         Runtime!Alive, Runtime!Task, Runtime!Waiting, Runtime!Steps
<1>18. CASE Runtime!Finally
  BY <1>a, <1>b, <1>18, CallActions, NoCallForms
     DEF SameCall, Runtime!Finally, Runtime!Written, Runtime!machine, Runtime!readiness,
         Runtime!counts, Runtime!IInv, Runtime!TaskInv, Runtime!CallInv, Runtime!At,
         Runtime!Alive, Runtime!NoTerminal, Runtime!Task, Runtime!Waiting, Runtime!Steps
<1>19. CASE Runtime!End
  BY <1>a, <1>b, <1>19, CallActions, NoCallForms
     DEF SameCall, Runtime!End, Runtime!machine, Runtime!readiness, Runtime!counts,
         Runtime!IInv, Runtime!TaskInv, Runtime!CallInv, Runtime!At, Runtime!Alive,
         Runtime!NoTerminal, Runtime!Task, Runtime!Waiting, Runtime!Steps
<1>20. CASE Runtime!Terminal
  <2>1. CASE Runtime!Boot
    BY <1>a, <1>b, <2>1 DEF Runtime!Boot, Runtime!env, Runtime!counts, Runtime!readiness,
       Runtime!NoTerminal, Runtime!IInv, Runtime!TaskInv, Runtime!At, Runtime!Alive,
       Runtime!Task
  <2>2. CASE Runtime!Login
    BY <1>a, <1>b, <2>2 DEF Runtime!Login, Runtime!Says, Runtime!Entry, Runtime!env,
       Runtime!counts, Runtime!readiness, Runtime!IInv, Runtime!TaskInv, Runtime!At,
       Runtime!Alive, Runtime!NoTerminal, Runtime!Task
  <2>3. CASE Runtime!KeepPrivate
    BY <1>a, <1>b, <2>3 DEF Runtime!KeepPrivate, Runtime!env, Runtime!counts,
       Runtime!readiness, Runtime!IInv, Runtime!TaskInv, Runtime!At, Runtime!Alive,
       Runtime!NoTerminal, Runtime!Task, Runtime!Says
  <2>4. CASE Runtime!Synchronize
    BY <1>a, <1>b, <2>4 DEF Runtime!Synchronize, Runtime!Says, Runtime!Entry, Runtime!env,
       Runtime!counts, Runtime!readiness, Runtime!IInv, Runtime!TaskInv, Runtime!At,
       Runtime!Alive, Runtime!NoTerminal, Runtime!Task
  <2>5. CASE Runtime!Discover
    BY <1>a, <1>b, <2>5 DEF Runtime!Discover, Runtime!env, Runtime!counts, Runtime!IInv,
       Runtime!TaskInv, Runtime!At, Runtime!Alive, Runtime!NoTerminal, Runtime!Task,
       Runtime!Says
  <2>6. CASE Runtime!ApplyTemplate
    BY <1>a, <1>b, <2>6 DEF Runtime!ApplyTemplate, Runtime!env, Runtime!counts,
       Runtime!readiness, Runtime!IInv, Runtime!TaskInv, Runtime!At, Runtime!Alive,
       Runtime!NoTerminal, Runtime!Task, Runtime!Says
  <2>7. CASE Runtime!Publish
    BY <1>a, <1>b, <2>7 DEF Runtime!Publish, Runtime!env, Runtime!counts, Runtime!IInv,
       Runtime!TaskInv, Runtime!At, Runtime!Alive, Runtime!NoTerminal, Runtime!Task,
       Runtime!Says
  <2>8. CASE Runtime!Die
    BY <1>a, <1>b, <2>8 DEF Runtime!Die, Runtime!env, Runtime!counts, Runtime!readiness,
       Runtime!NoTerminal, Runtime!IInv, Runtime!TaskInv, Runtime!At, Runtime!Alive,
       Runtime!Task, Runtime!Says
  <2>. QED  BY <1>20, <2>1, <2>2, <2>3, <2>4, <2>5, <2>6, <2>7, <2>8 DEF Runtime!Terminal
<1>. QED  BY <1>b, <1>1, <1>2, <1>3, <1>4, <1>5, <1>6, <1>7, <1>8, <1>9, <1>10, <1>11,
             <1>12, <1>13, <1>14, <1>15, <1>16, <1>17, <1>18, <1>19, <1>20 DEF Runtime!Next,
             Runtime!Worker

\* What depends on the journal's proof of investor mode.
LEMMA InvestorStep ==
  ASSUME Runtime!IInv, Runtime!Next
  PROVE  Runtime!InvestorInv'
<1>a. /\ Runtime!TypeOK /\ worker \in Runtime!Call /\ log \in Seq(Runtime!Line)
      /\ terminal \in Runtime!Process /\ rights \in {"investor", "master"}
  BY RuntimeConstants DEF Runtime!IInv, Runtime!TypeOK
<1>1. CASE Runtime!Start
  <2>1. DOMAIN log' = {}
    BY <1>1 DEF Runtime!Start
  <2>2. worker'.pc = "configure"
    BY <1>a, <1>1, CallActions
  <2>. QED  BY <1>1, <2>1, <2>2 DEF Runtime!Start, Runtime!NoTerminal, Runtime!readiness,
               Runtime!IInv, Runtime!InvestorInv, Runtime!At
<1>2. CASE Runtime!Resume
  <2>1. DOMAIN log' = {}
    BY <1>2 DEF Runtime!Resume
  <2>2. worker'.pc = "configure"
    BY <1>a, <1>2, CallActions
  <2>. QED  BY <1>2, <2>1, <2>2 DEF Runtime!Resume, Runtime!NoTerminal, Runtime!Unpublish,
               Runtime!NoAccount, Runtime!HasTemplate, Runtime!IInv, Runtime!InvestorInv,
               Runtime!At
<1>3. CASE Runtime!Configure
  BY <1>a, <1>3, CallActions, NoCallForms
     DEF SameCall, Runtime!Configure, Runtime!machine, Runtime!readiness, Runtime!counts,
         Runtime!IInv, Runtime!InvestorInv, Runtime!CallInv, Runtime!At
<1>4. CASE Runtime!Launch
  BY <1>a, <1>4, CallActions, NoCallForms
     DEF SameCall, Runtime!Launch, Runtime!machine, Runtime!readiness, Runtime!counts,
         Runtime!IInv, Runtime!InvestorInv, Runtime!CallInv, Runtime!At
<1>5. CASE Runtime!LaunchFails
  BY <1>a, <1>5, CallActions, NoCallForms
     DEF SameCall, Runtime!LaunchFails, Runtime!machine, Runtime!readiness, Runtime!IInv,
         Runtime!InvestorInv, Runtime!CallInv, Runtime!At
<1>6. CASE Runtime!Authorize
  BY <1>a, <1>6, CallActions, NoCallForms
     DEF SameCall, Runtime!Authorize, Runtime!ReleaseTask, Runtime!NoTask, Runtime!machine,
         Runtime!readiness, Runtime!counts, Runtime!IInv, Runtime!InvestorInv,
         Runtime!CallInv, Runtime!At
<1>7. CASE Runtime!Persist
  BY <1>a, <1>7, CallActions, NoCallForms
     DEF SameCall, Runtime!Persist, Runtime!machine, Runtime!readiness, Runtime!counts,
         Runtime!IInv, Runtime!InvestorInv, Runtime!CallInv, Runtime!At
<1>8. CASE Runtime!Erase
  BY <1>a, <1>8, CallActions, NoCallForms
     DEF SameCall, Runtime!Erase, Runtime!machine, Runtime!readiness, Runtime!counts,
         Runtime!IInv, Runtime!InvestorInv, Runtime!CallInv, Runtime!At
<1>9. CASE Runtime!Halt
  BY <1>a, <1>9, CallActions, NoCallForms
     DEF SameCall, Runtime!Halt, Runtime!StopAll, Runtime!NoTask, Runtime!NoTerminal,
         Runtime!readiness, Runtime!IInv, Runtime!InvestorInv, Runtime!CallInv, Runtime!At
<1>10. CASE Runtime!Clear
  BY <1>a, <1>10, CallActions, NoCallForms
     DEF SameCall, Runtime!Clear, Runtime!Unpublish, Runtime!NoAccount, Runtime!machine,
         Runtime!counts, Runtime!IInv, Runtime!InvestorInv, Runtime!CallInv, Runtime!At
<1>11. CASE Runtime!Investor
  <2>1. Runtime!Logged("disabled") \/ worker'.pc = "except"
    <3>1. Runtime!Logged("disabled") \/ worker' = [worker EXCEPT !.pc = "except"]
      BY <1>11 DEF Runtime!Investor, Runtime!Goto
    <3>. QED  BY <1>a, <3>1 DEF Runtime!Call
  <2>2. Runtime!Logged("disabled") => rights = "investor"
    BY <1>a DEF Runtime!Logged, Runtime!Fresh, Runtime!IInv, Runtime!InvestorInv
  <2>. QED  BY <1>a, <1>11, <2>1, <2>2, CallActions
            DEF SameCall, Runtime!Investor, Runtime!machine, Runtime!readiness,
                Runtime!counts, Runtime!IInv, Runtime!InvestorInv, Runtime!CallInv,
                Runtime!At
<1>12. CASE Runtime!Probe
  BY <1>a, <1>12, CallActions, NoCallForms
     DEF SameCall, Runtime!Probe, Runtime!machine, Runtime!readiness, Runtime!counts,
         Runtime!IInv, Runtime!InvestorInv, Runtime!CallInv, Runtime!At
<1>13. CASE Runtime!Attach
  BY <1>a, <1>13, CallActions, NoCallForms
     DEF SameCall, Runtime!Attach, Runtime!machine, Runtime!counts, Runtime!IInv,
         Runtime!InvestorInv, Runtime!CallInv, Runtime!At
<1>14. CASE Runtime!Ready
  BY <1>a, <1>14, CallActions, NoCallForms
     DEF SameCall, Runtime!Ready, Runtime!machine, Runtime!readiness, Runtime!counts,
         Runtime!IInv, Runtime!InvestorInv, Runtime!CallInv, Runtime!At
<1>15. CASE Runtime!Hide
  BY <1>a, <1>15, CallActions, NoCallForms
     DEF SameCall, Runtime!Hide, Runtime!machine, Runtime!readiness, Runtime!counts,
         Runtime!IInv, Runtime!InvestorInv, Runtime!CallInv, Runtime!At
<1>16. CASE Runtime!WaitFails
  BY <1>a, <1>16, CallActions, NoCallForms
     DEF SameCall, Runtime!WaitFails, Runtime!machine, Runtime!readiness, Runtime!counts,
         Runtime!IInv, Runtime!InvestorInv, Runtime!CallInv, Runtime!At, Runtime!Waiting
<1>17. CASE Runtime!StopFailed
  BY <1>a, <1>17, CallActions, NoCallForms
     DEF SameCall, Runtime!StopFailed, Runtime!StopAll, Runtime!NoTask, Runtime!NoTerminal,
         Runtime!readiness, Runtime!IInv, Runtime!InvestorInv, Runtime!CallInv, Runtime!At
<1>18. CASE Runtime!Finally
  BY <1>a, <1>18, CallActions, NoCallForms
     DEF SameCall, Runtime!Finally, Runtime!Written, Runtime!machine, Runtime!readiness,
         Runtime!counts, Runtime!IInv, Runtime!InvestorInv, Runtime!CallInv, Runtime!At
<1>19. CASE Runtime!End
  BY <1>a, <1>19, CallActions, NoCallForms
     DEF SameCall, Runtime!End, Runtime!machine, Runtime!readiness, Runtime!counts,
         Runtime!IInv, Runtime!InvestorInv, Runtime!CallInv, Runtime!At
<1>20. CASE Runtime!Crash
  BY <1>a, <1>20, CallActions, NoCallForms
     DEF SameCall, Runtime!Crash, Runtime!machine, Runtime!readiness, Runtime!IInv,
         Runtime!InvestorInv, Runtime!CallInv, Runtime!At
<1>21. CASE Runtime!Terminal
  <2>1. CASE Runtime!Boot
    BY <2>1 DEF Runtime!Boot, Runtime!env, Runtime!counts, Runtime!readiness,
       Runtime!NoTerminal, Runtime!IInv, Runtime!InvestorInv, Runtime!At
  <2>2. CASE Runtime!Login
    <3>1. PICK l \in Runtime!Line : log' = Append(log, l) /\ (l.what # "disabled")
      <4>1. /\ \A s \in Servers : Runtime!Entry("authorized", s) \in Runtime!Line
            /\ Runtime!Entry("invalid", None) \in Runtime!Line
            /\ \A s \in Servers : Runtime!Entry("authorized", s).what = "authorized"
            /\ Runtime!Entry("invalid", None).what = "invalid"
        BY DEF Runtime!Entry, Runtime!Line
      <4>2. \/ \E s \in Servers : log' = Append(log, Runtime!Entry("authorized", s))
            \/ log' = Append(log, Runtime!Entry("invalid", None))
        BY <2>2 DEF Runtime!Login, Runtime!Says
      <4>. QED  BY <4>1, <4>2
    <3>2. \A i \in DOMAIN log' : (i \in DOMAIN log /\ log'[i] = log[i]) \/ log'[i] = l
      BY <1>a, <3>1
    <3>3. rights' = rights /\ worker' = worker /\ handoff' = handoff
      BY <2>2 DEF Runtime!Login, Runtime!Says, Runtime!env, Runtime!readiness
    <3>. QED  BY <3>1, <3>2, <3>3 DEF Runtime!IInv, Runtime!InvestorInv, Runtime!At
  <2>3. CASE Runtime!KeepPrivate
    BY <2>3 DEF Runtime!KeepPrivate, Runtime!env, Runtime!counts, Runtime!readiness,
       Runtime!IInv, Runtime!InvestorInv, Runtime!At
  <2>4. CASE Runtime!Synchronize
    <3>1. PICK l \in Runtime!Line :
            log' = Append(log, l) /\ (l.what = "disabled" => rights = "investor")
      BY <1>a, <2>4 DEF Runtime!Synchronize, Runtime!Says, Runtime!Entry, Runtime!Line,
         Runtime!Process
    <3>2. \A i \in DOMAIN log' : (i \in DOMAIN log /\ log'[i] = log[i]) \/ log'[i] = l
      BY <1>a, <3>1
    <3>3. rights' = rights /\ worker' = worker /\ handoff' = handoff
      BY <2>4 DEF Runtime!Synchronize, Runtime!Says, Runtime!env, Runtime!readiness
    <3>. QED  BY <3>1, <3>2, <3>3 DEF Runtime!IInv, Runtime!InvestorInv, Runtime!At
  <2>5. CASE Runtime!Discover
    BY <2>5 DEF Runtime!Discover, Runtime!env, Runtime!counts, Runtime!IInv,
       Runtime!InvestorInv, Runtime!At
  <2>6. CASE Runtime!ApplyTemplate
    BY <2>6 DEF Runtime!ApplyTemplate, Runtime!env, Runtime!counts, Runtime!readiness,
       Runtime!IInv, Runtime!InvestorInv, Runtime!At
  <2>7. CASE Runtime!Publish
    BY <2>7 DEF Runtime!Publish, Runtime!env, Runtime!counts, Runtime!IInv,
       Runtime!InvestorInv, Runtime!At
  <2>8. CASE Runtime!Die
    BY <2>8 DEF Runtime!Die, Runtime!env, Runtime!counts, Runtime!readiness,
       Runtime!NoTerminal, Runtime!IInv, Runtime!InvestorInv, Runtime!At
  <2>. QED  BY <1>21, <2>1, <2>2, <2>3, <2>4, <2>5, <2>6, <2>7, <2>8 DEF Runtime!Terminal
<1>. QED  BY <1>1, <1>2, <1>3, <1>4, <1>5, <1>6, <1>7, <1>8, <1>9, <1>10, <1>11, <1>12,
             <1>13, <1>14, <1>15, <1>16, <1>17, <1>18, <1>19, <1>20, <1>21 DEF Runtime!Next,
             Runtime!Worker

\* The terminal that runs is the last one launched.
LEMMA LastSession ==
  ASSUME Runtime!IInv, Runtime!Next
  PROVE  Runtime!Alive' => terminal'.session = sessions'
<1>a. /\ terminal \in Runtime!Process /\ sessions \in 0..MaxSessions
      /\ Runtime!Alive => terminal.session = sessions
  BY DEF Runtime!IInv, Runtime!TypeOK, Runtime!SessionInv
<1>1. CASE Runtime!Start
  BY <1>a, <1>1 DEF Runtime!Start, Runtime!Alive
<1>2. CASE Runtime!Resume
  BY <1>a, <1>2 DEF Runtime!Resume, Runtime!Alive
<1>3. CASE Runtime!Halt
  BY <1>a, <1>3 DEF Runtime!Halt, Runtime!StopAll, Runtime!Alive
<1>4. CASE Runtime!StopFailed
  BY <1>a, <1>4 DEF Runtime!StopFailed, Runtime!StopAll, Runtime!Alive
<1>5. CASE Runtime!Boot
  <2>1. \A l \in Runtime!Task :
          [Runtime!NoTerminal EXCEPT !.session = sessions + 1, !.phase = l.phase,
                                     !.ea = l.ea].session = sessions + 1
    BY DEF Runtime!NoTerminal
  <2>2. launch \in Runtime!Task
    BY DEF Runtime!IInv, Runtime!TypeOK
  <2>. QED  BY <1>a, <1>5, <2>1, <2>2 DEF Runtime!Boot, Runtime!Alive
<1>6. CASE Runtime!Login
  BY <1>a, <1>6 DEF Runtime!Login, Runtime!Says, Runtime!Alive, Runtime!Process
<1>7. CASE Runtime!ApplyTemplate
  BY <1>a, <1>7 DEF Runtime!ApplyTemplate, Runtime!Alive, Runtime!Process
<1>8. CASE Runtime!Die
  BY <1>a, <1>8 DEF Runtime!Die, Runtime!Alive
<1>9. ASSUME ~Runtime!Start, ~Runtime!Resume, ~Runtime!Halt, ~Runtime!StopFailed,
           ~Runtime!Boot, ~Runtime!Login, ~Runtime!ApplyTemplate, ~Runtime!Die
      PROVE  terminal' = terminal /\ sessions' = sessions
  BY <1>9 DEF Runtime!Next, Runtime!Worker, Runtime!Terminal, Runtime!Configure,
     Runtime!Launch, Runtime!LaunchFails, Runtime!Authorize, Runtime!Persist, Runtime!Erase,
     Runtime!Clear, Runtime!Investor, Runtime!Probe, Runtime!Attach, Runtime!Ready,
     Runtime!Hide, Runtime!WaitFails, Runtime!Finally, Runtime!End, Runtime!Crash,
     Runtime!KeepPrivate, Runtime!Synchronize, Runtime!Discover, Runtime!Publish,
     Runtime!machine, Runtime!env, Runtime!Says
<1>. QED  BY <1>a, <1>1, <1>2, <1>3, <1>4, <1>5, <1>6, <1>7, <1>8, <1>9 DEF Runtime!Alive

\* Between its phases a start has no terminal and no task.
LEMMA ClearIsQuiet ==
  ASSUME Runtime!IInv, Runtime!Next, worker'.pc = "clear"
  PROVE  ~Runtime!Alive' /\ ~launch'.due
<1>a. Runtime!TypeOK /\ launch \in Runtime!Task /\ worker \in Runtime!Call
  BY DEF Runtime!IInv, Runtime!TypeOK
<1>1. CASE Runtime!Halt
  <2>1. terminal' = Runtime!NoTerminal
    BY <1>a, <1>1, CallActions DEF SameCall
  <2>. QED  BY <1>a, <1>1, <2>1
            DEF Runtime!Halt, Runtime!StopAll, Runtime!Alive, Runtime!NoTask, Runtime!Task
<1>2. CASE Runtime!Terminal
  <2>1. worker' = worker
    BY <1>2 DEF Runtime!Terminal, Runtime!Boot, Runtime!Login, Runtime!KeepPrivate,
       Runtime!Synchronize, Runtime!Discover, Runtime!ApplyTemplate, Runtime!Publish,
       Runtime!Die, Runtime!Says, Runtime!env
  <2>2. ~Runtime!Alive /\ ~launch.due
    BY <2>1 DEF Runtime!IInv, Runtime!SessionInv, Runtime!At
  <2>3. ~Runtime!Boot /\ ~Runtime!Login /\ ~Runtime!KeepPrivate /\ ~Runtime!Synchronize
        /\ ~Runtime!Discover /\ ~Runtime!ApplyTemplate /\ ~Runtime!Publish /\ ~Runtime!Die
    BY <2>2 DEF Runtime!Boot, Runtime!Login, Runtime!KeepPrivate, Runtime!Synchronize,
       Runtime!Discover, Runtime!ApplyTemplate, Runtime!Publish, Runtime!Die
  <2>. QED  BY <1>2, <2>3 DEF Runtime!Terminal
<1>3. ASSUME ~Runtime!Halt, ~Runtime!Terminal PROVE worker'.pc # "clear"
  BY <1>a, <1>3, CallActions, NoCallForms
     DEF Runtime!Next, Runtime!Worker, SameCall
<1>. QED  BY <1>1, <1>2, <1>3

\* What a call knows of the terminal it launches, when the call moves.
LEMMA OwnOfCall ==
  ASSUME Runtime!IInv, Runtime!Next, ~Runtime!Terminal,
         worker'.phase = 2, Runtime!Undisturbed'
  PROVE  Runtime!OwnTerminal'
<1>a. /\ Runtime!TypeOK /\ worker \in Runtime!Call /\ log \in Seq(Runtime!Line)
      /\ launch \in Runtime!Task /\ Runtime!CallInv
  BY DEF Runtime!IInv, Runtime!TypeOK
<1>b. worker.phase = 2 /\ Runtime!Undisturbed => Runtime!OwnTerminal
  BY DEF Runtime!IInv, Runtime!SessionInv
<1>1. CASE Runtime!Start
  BY <1>a, <1>1, CallActions, NoCallForms
<1>2. CASE Runtime!Resume
  <2>1. worker'.pc = "configure" /\ worker'.kind = "resume" /\ worker'.left = launch.due
    BY <1>a, <1>2, CallActions
  <2>2. ~launch'.due /\ ~Runtime!Alive' /\ Runtime!Unpublished'
    BY <1>2, <2>1 DEF Runtime!Resume, Runtime!Undisturbed, Runtime!Alive,
       Runtime!Unpublished, Runtime!Unpublish
  <2>. QED  BY <2>1, <2>2 DEF Runtime!OwnTerminal, Runtime!Quiet, Runtime!At, Runtime!Ending
<1>3. CASE Runtime!Configure
  <2>1. CASE SameCall("launch")
    <3>1. Runtime!Quiet
      BY <1>a, <1>b, <1>3, <2>1, CallActions
         DEF SameCall, Runtime!Undisturbed, Runtime!OwnTerminal
    <3>2. Runtime!Quiet'
      BY <1>3, <3>1 DEF Runtime!Configure, Runtime!Quiet, Runtime!Alive,
         Runtime!Unpublished, Runtime!machine, Runtime!readiness
    <3>. QED  BY <2>1, <3>2 DEF SameCall, Runtime!OwnTerminal, Runtime!At, Runtime!Ending
  <2>2. CASE worker'.pc \in {"except", "failed"}
    BY <2>2 DEF Runtime!OwnTerminal, Runtime!At, Runtime!Ending
  <2>. QED  BY <1>a, <1>3, <2>1, <2>2, CallActions DEF SameCall
<1>4. CASE Runtime!Launch
  <2>1. /\ worker.pc = "launch" /\ SameCall("authorize") /\ worker'.checkpoint = Len(log)
    BY <1>a, <1>4, CallActions
  <2>2. Runtime!Quiet
    BY <1>b, <2>1 DEF SameCall, Runtime!Undisturbed, Runtime!OwnTerminal
  <2>3. launch'.due /\ log' = log /\ ~Runtime!Alive' /\ Runtime!Unpublished'
    BY <1>4, <2>2 DEF Runtime!Launch, Runtime!Quiet, Runtime!Alive, Runtime!Unpublished,
       Runtime!machine, Runtime!readiness
  <2>. QED  BY <2>1, <2>3 DEF SameCall, Runtime!OwnTerminal, Runtime!At, Runtime!Ending
<1>5. CASE Runtime!LaunchFails
  <2>1. worker'.pc \in {"erase", "halt", "clear", "except"}
    BY <1>a, <1>5, CallActions DEF SameCall
  <2>. QED  BY <2>1 DEF Runtime!OwnTerminal, Runtime!At, Runtime!Ending
<1>6. CASE Runtime!Authorize
  <2>1. /\ worker.pc = "authorize"
        /\ SameCall(IF worker.phase = 1 THEN "persist" ELSE "investor")
        /\ \E j \in DOMAIN log : j > worker.checkpoint /\ log[j].what = "authorized"
    BY <1>a, <1>6, CallActions
  <2>2. worker'.pc = "investor" /\ Runtime!OwnTerminal /\ Runtime!Logged("authorized")
    BY <1>b, <2>1 DEF SameCall, Runtime!Undisturbed, Runtime!Logged, Runtime!Fresh
  <2>3. ~launch.due
    <3>1. worker.checkpoint \in Nat /\ worker.checkpoint < Len(log)
      BY <1>a, <2>1 DEF Runtime!Call
    <3>. QED  BY <2>1, <2>2, <3>1 DEF Runtime!OwnTerminal, Runtime!At
  <2>4. Runtime!Current /\ (Runtime!Alive => terminal.server # None)
    BY <2>1, <2>2, <2>3 DEF Runtime!OwnTerminal, Runtime!At
  <2>5. Runtime!Current' /\ ~launch'.due /\ (Runtime!Alive' => terminal'.server # None)
    BY <1>6, <2>4 DEF Runtime!Authorize, Runtime!ReleaseTask, Runtime!NoTask,
       Runtime!Current, Runtime!Alive, Runtime!machine, Runtime!readiness
  <2>. QED  BY <2>2, <2>5 DEF Runtime!OwnTerminal, Runtime!At, Runtime!Ending
<1>7. CASE Runtime!Persist
  <2>1. worker'.pc \in {"erase", "halt", "clear", "except"}
    BY <1>a, <1>7, CallActions DEF SameCall
  <2>. QED  BY <2>1 DEF Runtime!OwnTerminal, Runtime!At, Runtime!Ending
<1>8. CASE Runtime!Erase
  <2>1. worker'.pc \in {"erase", "halt", "clear", "except"}
    BY <1>a, <1>8, CallActions DEF SameCall
  <2>. QED  BY <2>1 DEF Runtime!OwnTerminal, Runtime!At, Runtime!Ending
<1>9. CASE Runtime!Halt
  <2>1. worker'.pc \in {"erase", "halt", "clear", "except"}
    BY <1>a, <1>9, CallActions DEF SameCall
  <2>. QED  BY <2>1 DEF Runtime!OwnTerminal, Runtime!At, Runtime!Ending
<1>10. CASE Runtime!Clear
  <2>1. worker.pc = "clear" /\ worker'.pc = "configure"
    BY <1>a, <1>10, CallActions
  <2>2. ~Runtime!Alive /\ ~launch.due
    BY <2>1 DEF Runtime!IInv, Runtime!SessionInv, Runtime!At
  <2>3. Runtime!Quiet'
    BY <1>10, <2>2 DEF Runtime!Clear, Runtime!Quiet, Runtime!Alive, Runtime!Unpublished,
       Runtime!Unpublish, Runtime!machine
  <2>. QED  BY <2>1, <2>3 DEF Runtime!OwnTerminal, Runtime!At, Runtime!Ending
<1>11. CASE Runtime!Investor
  <2>1. worker.pc = "investor" /\ Runtime!OwnTerminal
    BY <1>a, <1>b, <1>11, CallActions DEF SameCall, Runtime!Undisturbed
  <2>2. Runtime!Current' /\ ~launch'.due /\ (Runtime!Alive' => terminal'.server # None)
    BY <1>11, <2>1 DEF Runtime!Investor, Runtime!OwnTerminal, Runtime!Ending,
       Runtime!Current, Runtime!Alive, Runtime!machine, Runtime!readiness
  <2>3. account' = account /\ heartbeat' = heartbeat
    BY <1>11 DEF Runtime!Investor, Runtime!readiness
  <2>4. worker'.pc = "except" \/ (worker'.pc \in {"probe", "ready?"})
    BY <1>a, <1>11, CallActions DEF SameCall
  <2>. QED  BY <2>1, <2>2, <2>3, <2>4 DEF Runtime!OwnTerminal, Runtime!At, Runtime!Ending
<1>12. CASE Runtime!Probe
  <2>1. worker.pc = "probe" /\ Runtime!OwnTerminal
    BY <1>a, <1>b, <1>12, CallActions DEF SameCall, Runtime!Undisturbed
  <2>2. Runtime!Current' /\ ~launch'.due /\ (Runtime!Alive' => terminal'.server # None)
    BY <1>12, <2>1 DEF Runtime!Probe, Runtime!OwnTerminal, Runtime!Ending, Runtime!Current,
       Runtime!Alive, Runtime!machine, Runtime!readiness
  <2>3. account' = account /\ heartbeat' = heartbeat
    BY <1>12 DEF Runtime!Probe, Runtime!readiness
  <2>4. (worker'.pc = "attach")
    BY <1>a, <1>12, CallActions DEF SameCall
  <2>. QED  BY <2>1, <2>2, <2>3, <2>4 DEF Runtime!OwnTerminal, Runtime!At, Runtime!Ending
<1>13. CASE Runtime!Attach
  <2>1. worker.pc = "attach" /\ Runtime!OwnTerminal
    BY <1>a, <1>b, <1>13, CallActions DEF SameCall, Runtime!Undisturbed
  <2>2. Runtime!Current' /\ ~launch'.due /\ (Runtime!Alive' => terminal'.server # None)
    BY <1>13, <2>1 DEF Runtime!Attach, Runtime!OwnTerminal, Runtime!Ending, Runtime!Current,
       Runtime!Alive, Runtime!machine
  <2>3. account' = account /\ heartbeat' = heartbeat
    BY <1>13 DEF Runtime!Attach, Runtime!readiness
  <2>4. (worker'.pc = "ready?")
    BY <1>a, <1>13, CallActions DEF SameCall
  <2>. QED  BY <2>1, <2>2, <2>3, <2>4 DEF Runtime!OwnTerminal, Runtime!At, Runtime!Ending
<1>14. CASE Runtime!Ready
  <2>1. worker.pc = "ready?" /\ Runtime!OwnTerminal
    BY <1>a, <1>b, <1>14, CallActions DEF SameCall, Runtime!Undisturbed
  <2>2. Runtime!Current' /\ ~launch'.due /\ (Runtime!Alive' => terminal'.server # None)
    BY <1>14, <2>1 DEF Runtime!Ready, Runtime!OwnTerminal, Runtime!Ending, Runtime!Current,
       Runtime!Alive, Runtime!machine, Runtime!readiness
  <2>3. account' = account /\ heartbeat' = heartbeat /\ heartbeat # 0 /\ account.server # None
    BY <1>14 DEF Runtime!Ready, Runtime!readiness
  <2>4. worker'.pc = "except" \/ (worker'.pc = "hide" /\ account.server = worker'.server)
    BY <1>a, <1>14, CallActions DEF SameCall
  <2>. QED  BY <2>1, <2>2, <2>3, <2>4 DEF Runtime!OwnTerminal, Runtime!At, Runtime!Ending
<1>15. CASE Runtime!Hide
  <2>1. worker.pc = "hide" /\ Runtime!OwnTerminal
    BY <1>a, <1>b, <1>15, CallActions DEF SameCall, Runtime!Undisturbed
  <2>2. Runtime!Current' /\ ~launch'.due /\ (Runtime!Alive' => terminal'.server # None)
    BY <1>15, <2>1 DEF Runtime!Hide, Runtime!OwnTerminal, Runtime!Ending, Runtime!Current,
       Runtime!Alive, Runtime!machine, Runtime!readiness
  <2>3. account' = account /\ heartbeat' = heartbeat
    BY <1>15 DEF Runtime!Hide, Runtime!readiness
  <2>4. \/ worker'.pc = "except"
        \/ worker'.pc \in {"finally", "ready"} /\ worker'.server = worker.server
    BY <1>a, <1>15, CallActions DEF SameCall
  <2>. QED  BY <2>1, <2>2, <2>3, <2>4 DEF Runtime!OwnTerminal, Runtime!At, Runtime!Ending
<1>16. CASE Runtime!WaitFails
  <2>1. worker'.pc \in {"erase", "halt", "clear", "except"}
    BY <1>a, <1>16, CallActions DEF SameCall
  <2>. QED  BY <2>1 DEF Runtime!OwnTerminal, Runtime!At, Runtime!Ending
<1>17. CASE Runtime!StopFailed
  BY <1>a, <1>17, CallActions, NoCallForms
<1>18. CASE Runtime!Finally
  <2>1. worker.pc = "finally" /\ Runtime!OwnTerminal
    BY <1>a, <1>b, <1>18, CallActions DEF SameCall, Runtime!Undisturbed
  <2>2. Runtime!Current' /\ ~launch'.due /\ (Runtime!Alive' => terminal'.server # None)
    BY <1>18, <2>1 DEF Runtime!Finally, Runtime!OwnTerminal, Runtime!Ending,
       Runtime!Current, Runtime!Alive, Runtime!machine, Runtime!readiness
  <2>3. account' = account /\ heartbeat' = heartbeat
    BY <1>18 DEF Runtime!Finally, Runtime!readiness
  <2>4. (worker'.pc = "ready" /\ worker'.server = worker.server)
    BY <1>a, <1>18, CallActions DEF SameCall
  <2>. QED  BY <2>1, <2>2, <2>3, <2>4 DEF Runtime!OwnTerminal, Runtime!At, Runtime!Ending
<1>19. CASE Runtime!End
  BY <1>a, <1>19, CallActions, NoCallForms
<1>20. CASE Runtime!Crash
  BY <1>a, <1>20, CallActions, NoCallForms
<1>. QED  BY <1>1, <1>2, <1>3, <1>4, <1>5, <1>6, <1>7, <1>8, <1>9, <1>10, <1>11, <1>12,
             <1>13, <1>14, <1>15, <1>16, <1>17, <1>18, <1>19, <1>20 DEF Runtime!Next,
             Runtime!Worker

\* The worker's side is left alone by the terminal.
LEMMA TerminalSide ==
  ASSUME Runtime!Terminal
  PROVE  worker' = worker /\ rights' = rights
BY DEF Runtime!Terminal, Runtime!Boot, Runtime!Login, Runtime!KeepPrivate,
   Runtime!Synchronize, Runtime!Discover, Runtime!ApplyTemplate, Runtime!Publish,
   Runtime!Die, Runtime!Says, Runtime!env

\* What a call knows of the terminal it launches, when the terminal moves.
LEMMA OwnOfTerminal ==
  ASSUME Runtime!IInv, Runtime!Terminal, worker'.phase = 2, Runtime!Undisturbed'
  PROVE  Runtime!OwnTerminal'
<1>a. /\ worker \in Runtime!Call /\ log \in Seq(Runtime!Line) /\ launch \in Runtime!Task
      /\ terminal \in Runtime!Process /\ sessions \in 0..MaxSessions
      /\ account \in Runtime!Published /\ heartbeat \in 0..MaxSessions
      /\ Runtime!Alive => terminal.session = sessions
  BY DEF Runtime!IInv, Runtime!TypeOK, Runtime!SessionInv
<1>b. worker' = worker /\ Runtime!OwnTerminal
  BY TerminalSide DEF Runtime!IInv, Runtime!SessionInv, Runtime!Undisturbed
<1>c. worker.checkpoint \in Nat /\ None \notin Servers
  BY <1>a, RuntimeConstants DEF Runtime!Call
<1>1. CASE Runtime!Boot
  <2>1. CASE ~(Runtime!At("authorize") /\ ~Runtime!Alive)
    <3>1. /\ worker.pc \notin {"configure", "launch", "investor", "probe", "attach"}
                               \cup Runtime!Ending
          /\ ~Runtime!At("authorize")
      BY <1>1, <1>b, <2>1 DEF Runtime!Boot, Runtime!OwnTerminal, Runtime!Quiet, Runtime!At
    <3>. QED  BY <1>b, <3>1 DEF Runtime!OwnTerminal, Runtime!At, Runtime!Ending
  <2>2. CASE Runtime!At("authorize") /\ ~Runtime!Alive
    <3>1. Runtime!Unpublished /\ Len(log) = worker.checkpoint
      BY <1>1, <1>b, <2>2 DEF Runtime!Boot, Runtime!OwnTerminal
    <3>2. /\ log' = log /\ account' = account /\ heartbeat' = heartbeat /\ ~launch'.due
      BY <1>1, <1>a DEF Runtime!Boot, Runtime!readiness, Runtime!Task
    <3>3. ~Runtime!Logged("authorized")'
      BY <1>a, <1>b, <1>c, <3>1, <3>2 DEF Runtime!Logged, Runtime!Fresh
    <3>4. Runtime!Current'
      BY <3>1, <3>2 DEF Runtime!Current, Runtime!Unpublished, Runtime!NoAccount
    <3>. QED  BY <1>b, <2>2, <3>2, <3>3, <3>4 DEF Runtime!OwnTerminal, Runtime!At,
                 Runtime!Ending
  <2>. QED  BY <2>1, <2>2
<1>2. CASE Runtime!Login
  <2>1. /\ launch' = launch /\ account' = account /\ heartbeat' = heartbeat
        /\ sessions' = sessions /\ Runtime!Alive /\ terminal.server = None
    BY <1>2 DEF Runtime!Login, Runtime!Says, Runtime!readiness
  <2>2. worker.pc \notin {"configure", "launch", "investor", "probe", "attach"}
                        \cup Runtime!Ending
    BY <1>b, <2>1 DEF Runtime!OwnTerminal, Runtime!Quiet
  <2>3. CASE Runtime!At("authorize")
    <3>1. ~launch.due /\ Runtime!Current /\ ~Runtime!Logged("authorized")
      BY <1>b, <2>1, <2>3 DEF Runtime!OwnTerminal
    <3>2. Runtime!Current'
      BY <1>2, <2>1, <3>1, <1>a DEF Runtime!Login, Runtime!Current, Runtime!Alive
    <3>3. Runtime!Alive' /\ Runtime!Logged("authorized")' => terminal'.server # None
      <4>1. CASE \E s \in Servers : terminal' = [terminal EXCEPT !.server = s]
        BY <1>a, <1>c, <4>1 DEF Runtime!Process
      <4>2. CASE log' = Append(log, Runtime!Entry("invalid", None))
        <5>1. \A i \in DOMAIN log' :
                (i \in DOMAIN log /\ log'[i] = log[i]) \/ log'[i].what = "invalid"
          BY <1>a, <4>2 DEF Runtime!Entry
        <5>. QED  BY <1>b, <3>1, <5>1 DEF Runtime!Logged, Runtime!Fresh
      <4>. QED  BY <1>2, <4>1, <4>2 DEF Runtime!Login, Runtime!Says
    <3>. QED  BY <1>b, <2>1, <2>3, <3>1, <3>2, <3>3
              DEF Runtime!OwnTerminal, Runtime!At, Runtime!Ending
  <2>. QED  BY <1>b, <2>2, <2>3 DEF Runtime!OwnTerminal, Runtime!At, Runtime!Ending
<1>3. CASE Runtime!Synchronize
  <2>1. /\ launch' = launch /\ account' = account /\ heartbeat' = heartbeat
        /\ sessions' = sessions /\ terminal' = terminal /\ Runtime!Alive
    BY <1>3 DEF Runtime!Synchronize, Runtime!Says, Runtime!readiness
  <2>2. PICK l \in Runtime!Line : log' = Append(log, l) /\ l.what # "authorized"
    BY <1>a, <1>3 DEF Runtime!Synchronize, Runtime!Says, Runtime!Entry, Runtime!Line,
       Runtime!Process
  <2>3. \A i \in DOMAIN log' :
          (i \in DOMAIN log /\ log'[i] = log[i]) \/ log'[i].what # "authorized"
    BY <1>a, <2>2
  <2>4. Runtime!Logged("authorized")' => Runtime!Logged("authorized")
    BY <1>b, <2>3 DEF Runtime!Logged, Runtime!Fresh
  <2>. QED  BY <1>b, <2>1, <2>4
            DEF Runtime!OwnTerminal, Runtime!Quiet, Runtime!Unpublished, Runtime!Current,
                Runtime!At, Runtime!Alive, Runtime!Ending
<1>4. CASE Runtime!Publish
  <2>1. /\ launch' = launch /\ log' = log /\ sessions' = sessions /\ terminal' = terminal
        /\ Runtime!Alive
    BY <1>4 DEF Runtime!Publish, Runtime!env
  <2>2. /\ worker.pc \notin {"configure", "launch"}
        /\ ~(Runtime!At("authorize") /\ launch.due)
    BY <1>b, <2>1 DEF Runtime!OwnTerminal, Runtime!Quiet
  <2>3. \/ account' = [session |-> sessions, server |-> terminal.server]
             /\ heartbeat' = heartbeat
        \/ account' = account /\ heartbeat' = sessions /\ account.session = sessions
    BY <1>4, <1>a, <2>1 DEF Runtime!Publish
  <2>4. Runtime!Current => Runtime!Current'
    BY <2>1, <2>3 DEF Runtime!Current, Runtime!Alive
  <2>5. ASSUME worker.pc \in Runtime!Ending \ {"ready?"}
        PROVE  account'.server = worker'.server /\ worker'.server # None /\ heartbeat' # 0
    <3>1. /\ account.server = worker.server /\ worker.server # None /\ heartbeat # 0
          /\ Runtime!Current
      BY <1>b, <2>5 DEF Runtime!OwnTerminal
    <3>. QED  BY <1>b, <2>1, <2>3, <3>1 DEF Runtime!Current
  <2>. QED  BY <1>b, <2>1, <2>2, <2>4, <2>5
            DEF Runtime!OwnTerminal, Runtime!At, Runtime!Alive, Runtime!Logged,
                Runtime!Fresh, Runtime!Ending
<1>5. CASE Runtime!KeepPrivate \/ Runtime!Discover
  <2>1. /\ launch' = launch /\ account' = account /\ heartbeat' = heartbeat /\ log' = log
        /\ sessions' = sessions /\ terminal' = terminal
    BY <1>5 DEF Runtime!KeepPrivate, Runtime!Discover, Runtime!readiness
  <2>. QED  BY <1>b, <2>1
            DEF Runtime!OwnTerminal, Runtime!Quiet, Runtime!Unpublished, Runtime!Current,
                Runtime!At, Runtime!Alive, Runtime!Logged, Runtime!Fresh
<1>6. CASE Runtime!ApplyTemplate \/ Runtime!Die
  <2>1. /\ launch' = launch /\ account' = account /\ heartbeat' = heartbeat /\ log' = log
        /\ sessions' = sessions /\ Runtime!Alive
    BY <1>6 DEF Runtime!ApplyTemplate, Runtime!Die, Runtime!readiness
  <2>2. Runtime!Alive' => terminal'.server = terminal.server
    BY <1>a, <1>6 DEF Runtime!ApplyTemplate, Runtime!Die, Runtime!Alive, Runtime!Process
  <2>. QED  BY <1>b, <2>1, <2>2
            DEF Runtime!OwnTerminal, Runtime!Quiet, Runtime!Unpublished, Runtime!Current,
                Runtime!At, Runtime!Logged, Runtime!Fresh, Runtime!Ending
<1>. QED  BY <1>1, <1>2, <1>3, <1>4, <1>5, <1>6 DEF Runtime!Terminal

\* It holds before the first call.
LEMMA RuntimeInit == Runtime!Init => Runtime!IInv
<1>. SUFFICES ASSUME Runtime!Init PROVE Runtime!IInv
  OBVIOUS
<1>1. /\ worker = Runtime!NoCall /\ worker \in Runtime!Call /\ worker.pc = "idle"
      /\ worker.phase = 0
  BY NoCallForms DEF Runtime!Init
<1>2. Runtime!TypeOK
  <2>1. /\ launch \in Runtime!Task /\ terminal \in Runtime!Process
        /\ account \in Runtime!Published
    BY DataForms DEF Runtime!Init
  <2>2. log \in Seq(Runtime!Line)
    <3>1. log = <<>>
      BY DEF Runtime!Init
    <3>. QED  BY <3>1
  <2>3. /\ sessions \in 0..MaxSessions /\ heartbeat \in 0..MaxSessions
        /\ discovered \in 0..MaxSessions
        /\ calls \in 0..MaxCalls /\ ends \in 0..MaxCrashes
        /\ stopFaults \in Nat /\ runFaults \in Nat
    BY RuntimeConstants DEF Runtime!Init
  <2>4. /\ rights \in {"investor", "master"} /\ kept \in BOOLEAN
        /\ passwords \subseteq {"login-bootstrap.ini", "startup.ini"}
        /\ handoff \in BOOLEAN /\ template \in BOOLEAN
    BY DEF Runtime!Init
  <2>. QED  BY <1>1, <2>1, <2>2, <2>3, <2>4 DEF Runtime!TypeOK
<1>3. Runtime!CallInv /\ Runtime!SecretInv
  BY <1>1 DEF Runtime!Init, Runtime!CallInv, Runtime!SecretInv, Runtime!At
<1>4. ~launch.due /\ ~Runtime!Alive /\ ~handoff /\ DOMAIN log = {}
  BY DEF Runtime!Init, Runtime!NoTask, Runtime!Alive
<1>5. Runtime!TaskInv /\ Runtime!InvestorInv /\ Runtime!SessionInv
  BY <1>1, <1>4 DEF Runtime!TaskInv, Runtime!InvestorInv, Runtime!SessionInv, Runtime!At
<1>. QED  BY <1>2, <1>3, <1>5 DEF Runtime!IInv

\* Every step keeps the invariant.
LEMMA RuntimeStep == Runtime!IInv /\ [Runtime!Next]_Runtime!vars => Runtime!IInv'
<1>1. ASSUME Runtime!IInv, Runtime!Next PROVE Runtime!IInv'
  <2>1. Runtime!TypeOK' /\ Runtime!CallInv'
    BY <1>1, RuntimeType, RuntimeCall DEF Runtime!IInv
  <2>2. Runtime!SecretInv' /\ Runtime!TaskInv' /\ Runtime!InvestorInv'
    BY <1>1, SecretStep, TasksStep, InvestorStep
  <2>3. Runtime!SessionInv'
    BY <1>1, LastSession, ClearIsQuiet, OwnOfCall, OwnOfTerminal
       DEF Runtime!SessionInv, Runtime!At
  <2>. QED  BY <2>1, <2>2, <2>3 DEF Runtime!IInv
<1>2. ASSUME Runtime!IInv, UNCHANGED Runtime!vars PROVE Runtime!IInv'
  BY <1>2 DEF Runtime!vars, Runtime!counts, Runtime!IInv, Runtime!TypeOK, Runtime!CallInv,
     Runtime!SecretInv, Runtime!TaskInv, Runtime!InvestorInv, Runtime!SessionInv,
     Runtime!OwnTerminal, Runtime!Undisturbed, Runtime!Quiet, Runtime!Unpublished,
     Runtime!Current, Runtime!At, Runtime!Alive, Runtime!Logged, Runtime!Fresh
<1>. QED  BY <1>1, <1>2

\* The kinds and phases of a call, whose password is on disk, when a task may start a
\* terminal, what depends on the journal's proof, and what a call knows of the terminal
\* it launches: the inductive invariant of start and resume (native_mt5_runtime.py).
THEOREM RuntimeInvariant == Runtime!Spec => []Runtime!IInv
BY RuntimeInit, RuntimeStep, PTL DEF Runtime!Spec

\* A behaviour of the composition is one of the calls.
LEMMA RuntimeComposed == SpecOne => Runtime!Spec
<1>1. InitOne => Runtime!Init
  BY DEF InitOne
<1>2. [NextOne]_<<part, vars, balanceVars, excursionVars, leaseVars, runtimeVars>>
        => [Runtime!Next]_Runtime!vars
  BY DEF NextOne, HandoffMoves, BalanceMoves, TrackerMoves, LeaseMoves, RuntimeMoves,
     runtimeVars, Runtime!vars, Runtime!counts
<1>. QED  BY <1>1, <1>2, PTL DEF SpecOne, Runtime!Spec

\* CallsAreSound: for any number of calls, crashes, failing stops and failing tasks, what
\* a start or a resume concludes is about the terminal it has launched and the account
\* it has proved, and a call leaves no password, terminal or task behind
\* (native_mt5_runtime.py start, resume, stop).
THEOREM CallsSound == SpecOne => []CallsAreSound
<1>1. Runtime!IInv => CallsAreSound
  <2>. SUFFICES ASSUME Runtime!IInv
                PROVE  /\ Runtime!TypeOK
                       /\ Runtime!ReadyIsProved /\ Runtime!JournalIsCurrent
                       /\ Runtime!ExpertNeedsProof
                       /\ Runtime!PasswordRemoved /\ Runtime!FailureLeavesNothing
    BY DEF CallsAreSound
  <2>1. Runtime!ReadyIsProved
    <3>. SUFFICES ASSUME Runtime!At("ready")
                  PROVE  /\ rights = "investor"
                         /\ Runtime!Undisturbed =>
                              /\ account.session = sessions /\ heartbeat = sessions
                              /\ account.server = worker.server
      BY DEF Runtime!ReadyIsProved
    <3>1. rights = "investor" /\ worker.phase = 2
      BY DEF Runtime!IInv, Runtime!InvestorInv, Runtime!CallInv, Runtime!At
    <3>2. ASSUME Runtime!Undisturbed
          PROVE  /\ account.session = sessions /\ heartbeat = sessions
                 /\ account.server = worker.server
      <4>1. /\ Runtime!Current /\ account.server = worker.server /\ worker.server # None
            /\ heartbeat # 0
        BY <3>1, <3>2 DEF Runtime!IInv, Runtime!SessionInv, Runtime!OwnTerminal,
           Runtime!Ending, Runtime!At
      <4>. QED  BY <4>1 DEF Runtime!Current, Runtime!NoAccount
    <3>. QED  BY <3>1, <3>2
  <2>2. Runtime!JournalIsCurrent
    BY DEF Runtime!IInv, Runtime!CallInv, Runtime!SessionInv, Runtime!OwnTerminal,
       Runtime!Ending, Runtime!JournalIsCurrent
  <2>3. Runtime!ExpertNeedsProof
    BY DEF Runtime!IInv, Runtime!InvestorInv, Runtime!ExpertNeedsProof
  <2>4. Runtime!PasswordRemoved
    BY DEF Runtime!IInv, Runtime!SecretInv, Runtime!PasswordRemoved
  <2>5. Runtime!FailureLeavesNothing
    BY DEF Runtime!IInv, Runtime!TaskInv, Runtime!FailureLeavesNothing, Runtime!At
  <2>. QED  BY <2>1, <2>2, <2>3, <2>4, <2>5 DEF Runtime!IInv
<1>. QED  BY <1>1, RuntimeComposed, RuntimeInvariant, PTL
-----------------------------------------------------------------------------
(* The record of an open position: sides, extremes, sets of one at most.     *)

Single(S, T) == S = {} \/ \E x \in T : S = {x}

\* AtMostOne, as one of two cases.
LEMMA SingleIs ==
  ASSUME NEW S, NEW T
  PROVE  Tracker!AtMostOne(S, T) <=> Single(S, T)
BY DEF Tracker!AtMostOne, Single

\* The largest element of a set is the one Max chooses.
LEMMA MaxIs ==
  ASSUME NEW S \in SUBSET Int, NEW m \in S, \A y \in S : m >= y
  PROVE  Tracker!Max(S) = m
<1>. DEFINE k == CHOOSE x \in S : \A y \in S : x >= y
<1>1. k \in S /\ \A y \in S : k >= y
  OBVIOUS
<1>2. k = m
  <2>. HIDE DEF k
  <2>. QED  BY <1>1
<1>. QED  BY <1>2 DEF Tracker!Max

\* Max of two numbers is one of them, and not below the other.
LEMMA MaxOfTwo ==
  ASSUME NEW a \in Int, NEW b \in Int
  PROVE  /\ Tracker!Max({a, b}) \in {a, b}
         /\ Tracker!Max({a, b}) >= a /\ Tracker!Max({a, b}) >= b
<1>1. CASE a >= b
  BY <1>1, MaxIs
<1>2. CASE b >= a
  BY <1>2, MaxIs
<1>. QED  BY <1>1, <1>2

\* The constants of Excursion, and the first record.
LEMMA TrackerBounds ==
  /\ Distance \in Nat \ {0} /\ MaxMoves \in Nat /\ MaxPolls \in Nat
  /\ MaxInterrupts \in Nat
  /\ Tracker!NoExtrema \in Tracker!Extrema
  /\ Tracker!Price \subseteq Int /\ 0 \in Tracker!Price
BY AgentAssumption
   DEF Tracker!ExcursionAssumption, Tracker!NoExtrema, Tracker!Extrema, Tracker!Price

\* A price lies within the distance, for either side.
LEMMA FavorableForms ==
  ASSUME NEW x \in Tracker!Price
  PROVE  /\ Tracker!Favorable(x) \in Int /\ -Tracker!Favorable(x) \in Int
         /\ Tracker!Favorable(x) <= Distance /\ -Tracker!Favorable(x) <= Distance
BY TrackerBounds DEF Tracker!Favorable, Tracker!Price

\* What _observe_value makes of a record and a price.
LEMMA ObservedForms ==
  ASSUME NEW r \in Tracker!Extrema, NEW x \in Tracker!Price
  PROVE  LET o == Tracker!Observed(r, x) IN
         /\ o \in Tracker!Extrema
         /\ o.mfe \in {r.mfe, Tracker!Favorable(x)}
         /\ o.mfe >= r.mfe /\ o.mfe >= Tracker!Favorable(x)
         /\ o.mae \in {r.mae, -Tracker!Favorable(x)}
         /\ o.mae >= r.mae /\ o.mae >= -Tracker!Favorable(x)
<1>. DEFINE f == Tracker!Favorable(x)
            m == Tracker!Max({r.mfe, f})
            n == Tracker!Max({r.mae, -f})
<1>1. /\ f \in Int /\ -f \in Int /\ f <= Distance /\ -f <= Distance
      /\ r.mfe \in 0..Distance /\ r.mae \in 0..Distance /\ r.samples \in Nat
      /\ Distance \in Nat
  BY FavorableForms, TrackerBounds DEF Tracker!Extrema
<1>2. Tracker!Observed(r, x) = [mfe |-> m, mae |-> n, samples |-> r.samples + 1]
  BY DEF Tracker!Observed
<1>. HIDE DEF f
<1>a. r.mfe \in Int /\ r.mae \in Int
  BY <1>1
<1>3. m \in {r.mfe, f} /\ m >= r.mfe /\ m >= f
  <2>1. \A a, b \in Int : /\ Tracker!Max({a, b}) \in {a, b}
                          /\ Tracker!Max({a, b}) >= a /\ Tracker!Max({a, b}) >= b
    BY MaxOfTwo
  <2>. QED  BY <1>1, <1>a, <2>1, Zenon
<1>4. n \in {r.mae, -f} /\ n >= r.mae /\ n >= -f
  <2>1. \A a, b \in Int : /\ Tracker!Max({a, b}) \in {a, b}
                          /\ Tracker!Max({a, b}) >= a /\ Tracker!Max({a, b}) >= b
    BY MaxOfTwo
  <2>. QED  BY <1>1, <1>a, <2>1, Zenon
<1>. HIDE DEF m, n
<1>5. m \in 0..Distance /\ n \in 0..Distance
  BY <1>1, <1>3, <1>4
<1>6. [mfe |-> m, mae |-> n, samples |-> r.samples + 1] \in Tracker!Extrema
  BY <1>1, <1>5 DEF Tracker!Extrema
<1>7. /\ Tracker!Observed(r, x) \in Tracker!Extrema
      /\ Tracker!Observed(r, x).mfe = m /\ Tracker!Observed(r, x).mae = n
  BY <1>2, <1>6
<1>. QED  BY <1>3, <1>4, <1>7 DEF f

\* One more sample, one more price among which the extremes are.
LEMMA ExtremeGrows ==
  ASSUME NEW r \in Tracker!Extrema, NEW x \in Tracker!Price, NEW xs \in SUBSET Tracker!Price,
         Tracker!IsExtremeOf(r, xs)
  PROVE  Tracker!IsExtremeOf(Tracker!Observed(r, x), xs \cup {x})
<1>. DEFINE o == Tracker!Observed(r, x)
<1>1. /\ o.mfe \in {r.mfe, Tracker!Favorable(x)} /\ o.mfe \in Int /\ r.mfe \in Int
      /\ o.mfe >= r.mfe /\ o.mfe >= Tracker!Favorable(x)
      /\ o.mae \in {r.mae, -Tracker!Favorable(x)} /\ o.mae \in Int /\ r.mae \in Int
      /\ o.mae >= r.mae /\ o.mae >= -Tracker!Favorable(x)
  BY ObservedForms DEF Tracker!Extrema
<1>2. \A y \in xs \cup {x} : Tracker!Favorable(y) \in Int /\ -Tracker!Favorable(y) \in Int
  BY FavorableForms
<1>3. \A y \in xs \cup {x} : Tracker!Favorable(y) <= o.mfe /\ -Tracker!Favorable(y) <= o.mae
  <2>. HIDE DEF o
  <2>. QED  BY <1>1, <1>2 DEF Tracker!IsExtremeOf
<1>. HIDE DEF o
<1>. QED  BY <1>1, <1>3 DEF Tracker!IsExtremeOf, o

\* The truth of a close is what a record of all its samples holds.
LEMMA TruthIs ==
  ASSUME NEW r \in Tracker!Extrema, NEW xs \in SUBSET Tracker!Price,
         Tracker!IsExtremeOf(r, xs)
  PROVE  Tracker!Truth(xs).mfe = r.mfe /\ Tracker!Truth(xs).mae = r.mae
<1>. DEFINE F == {0} \cup {Tracker!Favorable(x) : x \in xs}
            A == {0} \cup {-Tracker!Favorable(x) : x \in xs}
<1>1. F \in SUBSET Int /\ A \in SUBSET Int
  BY FavorableForms
<1>2. /\ r.mfe \in F /\ r.mae \in A /\ r.mfe \in 0..Distance /\ r.mae \in 0..Distance
      /\ Distance \in Nat
  BY TrackerBounds DEF Tracker!IsExtremeOf, Tracker!Extrema
<1>3. (\A y \in F : r.mfe >= y) /\ (\A y \in A : r.mae >= y)
  BY <1>1, <1>2 DEF Tracker!IsExtremeOf
<1>4. Tracker!Truth(xs) = [mfe |-> Tracker!Max(F), mae |-> Tracker!Max(A)]
  BY DEF Tracker!Truth
<1>. HIDE DEF F, A
<1>. QED  BY <1>1, <1>2, <1>3, <1>4, MaxIs

\* What a record tells was met on the way.
Met(r, xs) ==
  /\ r.mfe \in {0} \cup {Tracker!Favorable(x) : x \in xs}
  /\ r.mae \in {0} \cup {-Tracker!Favorable(x) : x \in xs}

LEMMA MetGrows ==
  ASSUME NEW r \in Tracker!Extrema, NEW xs \in SUBSET Tracker!Price, NEW x \in xs, Met(r, xs)
  PROVE  Met(Tracker!Observed(r, x), xs)
BY ObservedForms DEF Met

\* A new record tells of the opening price only.
LEMMA MetFirst ==
  ASSUME NEW xs
  PROVE  /\ Met(Tracker!NoExtrema, xs)
         /\ Tracker!IsExtremeOf(Tracker!NoExtrema, {})
BY DEF Met, Tracker!NoExtrema, Tracker!IsExtremeOf

-----------------------------------------------------------------------------
(* The stream and what a poll reads of it.                                  *)

\* The entries of what a poll read, and whether it saw the opening.
Among(entry, rs) == entry \in {rs[i] : i \in DOMAIN rs}

Opening(rs, now, was) == Among("IN", rs) \/ (now # {} /\ ~was)

\* Has and SawOpening by the values they read.
LEMMA AmongIs ==
  /\ \A entry : Tracker!Has(entry) <=> Among(entry, records)
  /\ \A entry : Tracker!Has(entry)' <=> Among(entry, records')
  /\ Tracker!SawOpening <=> Opening(records, current, saved)
  /\ Tracker!SawOpening' <=> Opening(records', current', saved')
BY DEF Tracker!Has, Among, Tracker!SawOpening, Opening

\* What the four lists of records contain.
LEMMA AmongForms ==
  ASSUME NEW rs \in {<<>>, <<"IN">>, <<"OUT">>, <<"IN", "OUT">>}
  PROVE  /\ Among("IN", rs) <=> rs \in {<<"IN">>, <<"IN", "OUT">>}
         /\ Among("OUT", rs) <=> rs \in {<<"OUT">>, <<"IN", "OUT">>}
         /\ Len(rs) \in 0..2
         /\ Len(rs) = 0 <=> rs = <<>>
         /\ Len(rs) = 2 <=> rs = <<"IN", "OUT">>
<1>1. CASE rs = <<>>
  BY <1>1 DEF Among
<1>2. CASE rs = <<"IN">>
  BY <1>2 DEF Among
<1>3. CASE rs = <<"OUT">>
  BY <1>3 DEF Among
<1>4. CASE rs = <<"IN", "OUT">>
  <2>1. DOMAIN rs = {1, 2} /\ rs[1] = "IN" /\ rs[2] = "OUT"
    BY <1>4
  <2>. QED  BY <1>4, <2>1 DEF Among
<1>. QED  BY <1>1, <1>2, <1>3, <1>4

\* What a poll reads: the rest of the stream.
LEMMA ReadForms ==
  ASSUME stream \in {<<>>, <<"IN">>, <<"IN", "OUT">>}, acked \in 0..Len(stream)
  PROVE  LET rs == SubSeq(stream, acked + 1, Len(stream)) IN
         /\ acked = 0 => rs = stream
         /\ acked = 1 => rs = IF Len(stream) = 2 THEN <<"OUT">> ELSE <<>>
         /\ acked = 2 => rs = <<>>
         /\ Len(stream) \in 0..2 /\ acked \in 0..2
<1>. DEFINE rs == SubSeq(stream, acked + 1, Len(stream))
<1>1. Len(stream) \in 0..2 /\ stream \in Seq({"IN", "OUT"})
      /\ (Len(stream) = 2 => stream[2] = "OUT")
  <2>1. CASE stream = <<>>
    BY <2>1
  <2>2. CASE stream = <<"IN">>
    BY <2>2
  <2>3. CASE stream = <<"IN", "OUT">>
    <3>1. Len(stream) = 2 /\ stream[2] = "OUT" /\ stream \in Seq({"IN", "OUT"})
      BY <2>3
    <3>. QED  BY <3>1
  <2>. QED  BY <2>1, <2>2, <2>3
<1>2. /\ rs \in Seq({"IN", "OUT"}) /\ Len(rs) = Len(stream) - acked
      /\ \A i \in 1..Len(rs) : rs[i] = stream[acked + i]
  <2>1. \A i \in acked + 1..Len(stream) : stream[i] \in {"IN", "OUT"}
    BY <1>1
  <2>. QED  BY <1>1, <2>1, SubSeqProperties
<1>. HIDE DEF rs
<1>3. acked = 0 => rs = stream
  BY <1>1, <1>2
<1>4. ASSUME acked = 1
      PROVE  rs = IF Len(stream) = 2 THEN <<"OUT">> ELSE <<>>
  <2>1. CASE Len(stream) = 2
    <3>1. Len(rs) = 1 /\ rs[1] = "OUT"
      BY <1>1, <1>2, <1>4, <2>1
    <3>. QED  BY <1>2, <2>1, <3>1
  <2>2. CASE Len(stream) # 2
    <3>1. Len(rs) = 0
      BY <1>1, <1>2, <1>4, <2>2
    <3>. QED  BY <1>2, <2>2, <3>1, EmptySeq
  <2>. QED  BY <2>1, <2>2
<1>5. ASSUME acked = 2
      PROVE  rs = <<>>
  <2>1. Len(rs) = 0
    BY <1>1, <1>2, <1>5
  <2>. QED  BY <1>2, <2>1, EmptySeq
<1>6. acked \in 0..2
  <2>. DEFINE n == Len(stream)
  <2>1. n \in 0..2 /\ acked \in 0..n
    BY <1>1
  <2>. HIDE DEF n
  <2>. QED  BY <2>1
<1>. QED  BY <1>1, <1>3, <1>4, <1>5, <1>6 DEF rs

-----------------------------------------------------------------------------
(* What the steps of a poll make of the record.                             *)

\* observe_snapshot makes one record of the one before, or of none.
LEMMA ObserveForms ==
  ASSUME Tracker!TypeOK, Tracker!ObserveSnapshot
  PROVE  /\ current = {} => memory' = memory
         /\ current # {} => \E x \in Tracker!Price : \E r \in Tracker!Extrema :
              /\ current = {x} /\ memory' = {Tracker!Observed(r, x)}
              /\ \/ memory = {r}
                 \/ memory = {} /\ r = Tracker!NoExtrema
<1>1. Single(current, Tracker!Price) /\ Single(memory, Tracker!Extrema)
  BY SingleIs DEF Tracker!TypeOK
<1>2. memory' = {Tracker!Observed(r, x) : r \in IF memory = {} THEN {Tracker!NoExtrema}
                                                ELSE memory,
                                          x \in current}
                  \cup {r \in memory : current = {}}
  BY DEF Tracker!ObserveSnapshot
<1>3. CASE current = {}
  BY <1>2, <1>3
<1>4. ASSUME NEW x \in Tracker!Price, current = {x}
      PROVE  \E r \in Tracker!Extrema :
               /\ memory' = {Tracker!Observed(r, x)}
               /\ \/ memory = {r}
                  \/ memory = {} /\ r = Tracker!NoExtrema
  <2>1. CASE memory = {}
    <3>1. memory' = {Tracker!Observed(Tracker!NoExtrema, x)}
      BY <1>2, <1>4, <2>1
    <3>. QED  BY <2>1, <3>1, TrackerBounds
  <2>2. ASSUME NEW r \in Tracker!Extrema, memory = {r}
        PROVE  memory' = {Tracker!Observed(r, x)}
    BY <1>2, <1>4, <2>2
  <2>. QED  BY <1>1, <2>1, <2>2 DEF Single
<1>. QED  BY <1>1, <1>3, <1>4 DEF Single

\* After an observation there is one record at most, and one where there was one.
LEMMA ObserveTypes ==
  ASSUME Tracker!TypeOK, Tracker!ObserveSnapshot
  PROVE  /\ Tracker!AtMostOne(memory', Tracker!Extrema)
         /\ current # {} \/ memory # {} => memory' # {}
         /\ sampled' \subseteq Tracker!Price
<1>1. Tracker!AtMostOne(memory, Tracker!Extrema) /\ sampled' \subseteq Tracker!Price
  BY DEF Tracker!TypeOK, Tracker!ObserveSnapshot, Tracker!AtMostOne
<1>2. CASE current = {}
  BY <1>1, <1>2, ObserveForms
<1>3. CASE current # {}
  <2>1. PICK x \in Tracker!Price, r \in Tracker!Extrema :
          memory' = {Tracker!Observed(r, x)}
    BY <1>3, ObserveForms
  <2>2. Tracker!Observed(r, x) \in Tracker!Extrema
    BY ObservedForms
  <2>. QED  BY <1>1, <2>1, <2>2 DEF Tracker!AtMostOne
<1>. QED  BY <1>2, <1>3

\* enrich_close_events adds the closing price to the record, if there is one.
LEMMA EnqueueForms ==
  ASSUME Tracker!TypeOK, Tracker!Enqueue
  PROVE  /\ ~Tracker!NativeClose => memory' = memory
         /\ Tracker!NativeClose =>
              \/ memory = {} /\ memory' = {}
              \/ \E r \in Tracker!Extrema : memory = {r} /\ memory' = {Tracker!Observed(r, price)}
         /\ Tracker!AtMostOne(memory', Tracker!Extrema)
         /\ memory' = {} <=> memory = {}
<1>1. Single(memory, Tracker!Extrema) /\ price \in Tracker!Price
  BY SingleIs DEF Tracker!TypeOK
<1>2. memory' = IF Tracker!NativeClose THEN {Tracker!Observed(r, price) : r \in memory}
                ELSE memory
  BY DEF Tracker!Enqueue
<1>3. CASE memory = {}
  <2>1. memory' = {}
    BY <1>2, <1>3
  <2>. QED  BY <1>3, <2>1 DEF Tracker!AtMostOne
<1>4. ASSUME NEW r \in Tracker!Extrema, memory = {r}
      PROVE  /\ ~Tracker!NativeClose => memory' = memory
             /\ Tracker!NativeClose => memory' = {Tracker!Observed(r, price)}
             /\ Tracker!AtMostOne(memory', Tracker!Extrema) /\ memory' # {}
  <2>1. Tracker!Observed(r, price) \in Tracker!Extrema
    BY <1>1, ObservedForms
  <2>. QED  BY <1>2, <1>4, <2>1 DEF Tracker!AtMostOne
<1>. QED  BY <1>1, <1>3, <1>4 DEF Single

\* What a close event carries.
LEMMA CloseTypes ==
  ASSUME Tracker!TypeOK, NEW m \in SUBSET Tracker!Extrema
  PROVE  /\ Tracker!CloseEvent(m) \in Tracker!CloseEvents
         /\ Tracker!CloseEvent(m).extrema = m
         /\ Tracker!CloseEvent(m).native = Tracker!NativeClose
         /\ Tracker!CloseEvent(m).truth =
              Tracker!Truth(sampled \cup (IF Tracker!NativeClose THEN {price} ELSE {}))
<1>1. sampled \cup (IF Tracker!NativeClose THEN {price} ELSE {}) \in SUBSET Tracker!Price
  BY DEF Tracker!TypeOK
<1>2. Tracker!NativeClose \in BOOLEAN
  BY DEF Tracker!NativeClose
<1>. QED  BY <1>1, <1>2 DEF Tracker!CloseEvent, Tracker!CloseEvents

\* The journal grows at its end, by the close of this poll.
LEMMA JournalForms ==
  ASSUME Tracker!TypeOK, Tracker!Enqueue
  PROVE  /\ closes' \in Seq(Tracker!CloseEvents)
         /\ \/ closes' = closes
            \/ Tracker!SawClose /\ closes' = Append(closes, Tracker!CloseEvent(memory'))
         /\ Tracker!SawClose => closes' # <<>>
         /\ \A i \in DOMAIN closes : i \in DOMAIN closes' /\ closes'[i] = closes[i]
         /\ \A i \in DOMAIN closes' :
              \/ i \in DOMAIN closes
              \/ closes'[i] = Tracker!CloseEvent(memory') /\ Tracker!SawClose
<1>1. closes \in Seq(Tracker!CloseEvents)
      /\ Tracker!CloseEvent(memory') \in Tracker!CloseEvents
  BY EnqueueForms, CloseTypes DEF Tracker!TypeOK, Tracker!AtMostOne
<1>2. closes' = IF Tracker!SawClose /\ Tracker!IsNew(Tracker!CloseEvent(memory'))
                THEN Append(closes, Tracker!CloseEvent(memory')) ELSE closes
  BY DEF Tracker!Enqueue
<1>3. closes = <<>> => Tracker!IsNew(Tracker!CloseEvent(memory'))
  BY DEF Tracker!IsNew
<1>. DEFINE e == Tracker!CloseEvent(memory')
<1>4. /\ Append(closes, e) \in Seq(Tracker!CloseEvents) /\ Append(closes, e) # <<>>
      /\ \A i \in DOMAIN closes : i \in DOMAIN Append(closes, e)
                                  /\ Append(closes, e)[i] = closes[i]
      /\ \A i \in DOMAIN Append(closes, e) : i \in DOMAIN closes \/ Append(closes, e)[i] = e
  <2>. HIDE DEF e
  <2>1. e \in Tracker!CloseEvents
    BY <1>1 DEF e
  <2>. QED  BY <1>1, <2>1, AppendProperties
<1>5. CASE Tracker!SawClose /\ Tracker!IsNew(e)
  <2>1. closes' = Append(closes, e)
    BY <1>2, <1>5
  <2>. HIDE DEF e
  <2>2. Tracker!SawClose
    BY <1>5
  <2>. QED  BY <1>4, <2>1, <2>2 DEF e
<1>6. CASE ~(Tracker!SawClose /\ Tracker!IsNew(e))
  <2>1. closes' = closes
    BY <1>2, <1>6
  <2>2. Tracker!SawClose => closes # <<>>
    BY <1>3, <1>6
  <2>. HIDE DEF e
  <2>. QED  BY <1>1, <2>1, <2>2, Zenon
<1>. QED  BY <1>5, <1>6

-----------------------------------------------------------------------------
(* Every variable keeps its type.                                           *)

\* A position is bought or sold once.
LEMMA SideStays ==
  ASSUME Tracker!Next
  PROVE  side' = side
BY DEF Tracker!Next, Tracker!Market, Tracker!Poll, Tracker!marketVars, Tracker!Open,
       Tracker!Close, Tracker!Move, Tracker!Publish, Tracker!Read, Tracker!ObserveOpened,
       Tracker!ObserveSnapshot, Tracker!Enqueue, Tracker!Acknowledge, Tracker!SaveSnapshot,
       Tracker!Discard, Tracker!Interrupt

\* With the side, what the operators mean stays.
LEMMA SameSide ==
  ASSUME side' = side
  PROVE  /\ Tracker!CloseEvents' = Tracker!CloseEvents
         /\ Tracker!Extrema' = Tracker!Extrema
         /\ Tracker!Price' = Tracker!Price
         /\ \A x : Tracker!Favorable(x)' = Tracker!Favorable(x)
BY DEF Tracker!CloseEvents, Tracker!Extrema, Tracker!Price, Tracker!Truth, Tracker!Favorable,
       Tracker!Max

\* One step of the type invariant, the parts of the state apart.
MarketTypes ==
  /\ side \in {"buy", "sell"} /\ life \in {"unborn", "open", "closed"}
  /\ path \subseteq Tracker!Price /\ price \in Tracker!Price /\ moves \in 0..MaxMoves

BridgeTypes ==
  /\ stream \in {<<>>, <<"IN">>, <<"IN", "OUT">>}
  /\ Tracker!AtMostOne(positionsFile, Tracker!Price) /\ acked \in 0..Len(stream)

PollTypes ==
  /\ Tracker!AtMostOne(current, Tracker!Price) /\ saved \in BOOLEAN
  /\ step \in {"read", "opened", "snapshot", "enqueue", "acknowledge", "save", "discard"}
  /\ records \in {<<>>, <<"IN">>, <<"OUT">>, <<"IN", "OUT">>}
  /\ enriched \in BOOLEAN /\ sampled \subseteq Tracker!Price
  /\ polls \in 0..MaxPolls /\ interrupts \in 0..MaxInterrupts

RecordTypes ==
  /\ Tracker!AtMostOne(store, Tracker!Extrema) /\ Tracker!AtMostOne(memory, Tracker!Extrema)
  /\ closes \in Seq(Tracker!CloseEvents)

\* TypeOK is these four parts.
LEMMA TypesAre ==
  Tracker!TypeOK <=> MarketTypes /\ BridgeTypes /\ PollTypes /\ RecordTypes
BY DEF Tracker!TypeOK, MarketTypes, BridgeTypes, PollTypes, RecordTypes

\* None is at most one, and so is one.
LEMMA NoneIsOne ==
  ASSUME NEW T
  PROVE  Tracker!AtMostOne({}, T) /\ \A x \in T : Tracker!AtMostOne({x}, T)
BY DEF Tracker!AtMostOne

\* Every step keeps the types of the market.
LEMMA MarketTypesKeep ==
  ASSUME Tracker!TypeOK, Tracker!Next
  PROVE  MarketTypes'
<1>. USE DEF Tracker!marketVars, MarketTypes
<1>1. Tracker!Price' = Tracker!Price
  BY SideStays, SameSide
<1>2. MarketTypes
  BY TypesAre
<1>3. CASE Tracker!Open
  BY <1>1, <1>2, <1>3, TrackerBounds DEF Tracker!Open
<1>4. ASSUME NEW x \in Tracker!Price, Tracker!Move(x)
      PROVE  MarketTypes'
  BY <1>1, <1>2, <1>4, TrackerBounds DEF Tracker!Move
<1>5. CASE Tracker!Close
  BY <1>1, <1>2, <1>5 DEF Tracker!Close
<1>6. CASE UNCHANGED Tracker!marketVars
  BY <1>1, <1>2, <1>6
<1>. QED
  BY <1>3, <1>4, <1>5, <1>6
     DEF Tracker!Next, Tracker!Market, Tracker!Poll, Tracker!Publish, Tracker!Read,
         Tracker!ObserveOpened, Tracker!ObserveSnapshot, Tracker!Enqueue,
         Tracker!Acknowledge, Tracker!SaveSnapshot, Tracker!Discard, Tracker!Interrupt

\* A closing deal follows the opening one.
LEMMA ClosedStream ==
  Append(<<"IN">>, "OUT") = <<"IN", "OUT">>
<1>. DEFINE one == <<"IN">>
            both == Append(one, "OUT")
<1>1. one \in Seq({"IN", "OUT"}) /\ Len(one) = 1 /\ one[1] = "IN"
  OBVIOUS
<1>2. both \in Seq({"IN", "OUT"}) /\ Len(both) = 2 /\ both[1] = "IN" /\ both[2] = "OUT"
  <2>. HIDE DEF one
  <2>1. \A S : \A q \in Seq(S) : \A x \in S :
          /\ Append(q, x) \in Seq(S) /\ Len(Append(q, x)) = Len(q) + 1
          /\ \A i \in 1..Len(q) : Append(q, x)[i] = q[i]
          /\ Append(q, x)[Len(q) + 1] = x
    BY AppendProperties
  <2>2. "OUT" \in {"IN", "OUT"}
    OBVIOUS
  <2>3. /\ both \in Seq({"IN", "OUT"}) /\ Len(both) = Len(one) + 1
        /\ \A i \in 1..Len(one) : both[i] = one[i]
        /\ both[Len(one) + 1] = "OUT"
    BY <1>1, <2>1, <2>2, Zenon
  <2>. QED  BY <1>1, <2>3
<1>. HIDE DEF both
<1>3. both = <<"IN", "OUT">>
  BY <1>2
<1>. QED  BY <1>3 DEF both

\* Every step keeps the types of the bridge; acknowledging stays within the stream.
LEMMA BridgeTypesKeep ==
  ASSUME Tracker!TypeOK, Tracker!MarketInv, Tracker!PollInv, Tracker!Next
  PROVE  BridgeTypes'
<1>. USE DEF Tracker!bridgeVars, BridgeTypes
<1>1. Tracker!Price' = Tracker!Price
  BY SideStays, SameSide
<1>2. BridgeTypes /\ price \in Tracker!Price
  BY TypesAre DEF MarketTypes
<1>3. CASE Tracker!Open
  <2>1. stream = <<>> /\ stream' = <<"IN">> /\ UNCHANGED <<positionsFile, acked>>
    BY <1>3 DEF Tracker!Open, Tracker!MarketInv
  <2>. QED  BY <1>1, <1>2, <2>1
<1>4. CASE Tracker!Close
  <2>1. stream = <<"IN">> /\ stream' = <<"IN", "OUT">> /\ UNCHANGED <<positionsFile, acked>>
    <3>1. stream = <<"IN">> /\ stream' = Append(stream, "OUT")
          /\ UNCHANGED <<positionsFile, acked>>
      BY <1>4 DEF Tracker!Close, Tracker!MarketInv
    <3>2. Append(<<"IN">>, "OUT") = <<"IN", "OUT">>
      BY ClosedStream
    <3>. QED  BY <3>1, <3>2
  <2>. QED  BY <1>1, <1>2, <2>1
<1>5. CASE Tracker!Publish
  <2>1. UNCHANGED <<stream, acked>> /\ (positionsFile' = {} \/ positionsFile' = {price})
    BY <1>5 DEF Tracker!Publish
  <2>2. Tracker!AtMostOne(positionsFile', Tracker!Price)
    BY <1>2, <2>1, NoneIsOne
  <2>3. Tracker!AtMostOne(positionsFile, Tracker!Price)'
    BY <1>1, <2>2 DEF Tracker!AtMostOne
  <2>. QED  BY <1>2, <2>1, <2>3
<1>6. CASE Tracker!Acknowledge
  <2>1. UNCHANGED <<stream, positionsFile>> /\ acked' = acked + Len(records)
    BY <1>6 DEF Tracker!Acknowledge
  <2>2. acked + Len(records) <= Len(stream)
    BY <1>6 DEF Tracker!Acknowledge, Tracker!PollInv
  <2>3. records \in {<<>>, <<"IN">>, <<"OUT">>, <<"IN", "OUT">>}
    BY TypesAre DEF PollTypes
  <2>4. Len(records) \in Nat /\ Len(stream) \in Nat /\ acked \in Nat
    BY <1>2, <2>3, AmongForms, ReadForms
  <2>5. acked' \in 0..Len(stream)
    BY <2>1, <2>2, <2>4
  <2>. QED  BY <1>1, <1>2, <2>1, <2>5
<1>7. CASE UNCHANGED <<Tracker!bridgeVars, acked>>
  BY <1>1, <1>2, <1>7
<1>8. ASSUME NEW x \in Tracker!Price, Tracker!Move(x)
      PROVE  UNCHANGED <<Tracker!bridgeVars, acked>>
  BY <1>8 DEF Tracker!Move
<1>. QED
  BY <1>3, <1>4, <1>5, <1>6, <1>7, <1>8
     DEF Tracker!Next, Tracker!Market, Tracker!Poll, Tracker!Read,
         Tracker!ObserveOpened, Tracker!ObserveSnapshot, Tracker!Enqueue,
         Tracker!SaveSnapshot, Tracker!Discard, Tracker!Interrupt

\* Every step keeps the types of a poll.
LEMMA PollTypesKeep ==
  ASSUME Tracker!TypeOK, Tracker!Next
  PROVE  PollTypes'
<1>. USE DEF Tracker!pollVars, PollTypes
<1>1. Tracker!Price' = Tracker!Price
  BY SideStays, SameSide
<1>2. PollTypes
  BY TypesAre
<1>3. CASE Tracker!Read
  <2>1. records' \in {<<>>, <<"IN">>, <<"OUT">>, <<"IN", "OUT">>}
    <3>1. records' = SubSeq(stream, acked + 1, Len(stream))
      BY <1>3 DEF Tracker!Read
    <3>2. stream \in {<<>>, <<"IN">>, <<"IN", "OUT">>} /\ acked \in 0..Len(stream)
      BY TypesAre DEF BridgeTypes
    <3>3. /\ acked = 0 => records' = stream
          /\ acked = 1 => records' = IF Len(stream) = 2 THEN <<"OUT">> ELSE <<>>
          /\ acked = 2 => records' = <<>>
          /\ acked \in 0..2
      BY <3>1, <3>2, ReadForms
    <3>. QED  BY <3>2, <3>3
  <2>2. /\ polls' \in 0..MaxPolls /\ enriched' = FALSE /\ step' = "opened"
        /\ UNCHANGED <<saved, sampled, interrupts>>
    BY <1>2, <1>3, TrackerBounds DEF Tracker!Read
  <2>3. Tracker!AtMostOne(current, Tracker!Price)'
    BY <1>1, <1>3, TypesAre DEF Tracker!Read, BridgeTypes, Tracker!AtMostOne
  <2>. QED  BY <1>1, <1>2, <2>1, <2>2, <2>3
<1>4. CASE Tracker!ObserveOpened
  BY <1>1, <1>2, <1>4 DEF Tracker!ObserveOpened
<1>5. CASE Tracker!ObserveSnapshot
  <2>1. sampled' \subseteq Tracker!Price
    BY <1>5, ObserveTypes
  <2>. QED  BY <1>1, <1>2, <1>5, <2>1 DEF Tracker!ObserveSnapshot
<1>6. CASE Tracker!Enqueue
  <2>1. enriched' \in BOOLEAN
    BY <1>6 DEF Tracker!Enqueue
  <2>. QED  BY <1>1, <1>2, <1>6, <2>1 DEF Tracker!Enqueue
<1>7. CASE Tracker!Acknowledge
  BY <1>1, <1>2, <1>7 DEF Tracker!Acknowledge
<1>8. CASE Tracker!SaveSnapshot
  BY <1>1, <1>2, <1>8 DEF Tracker!SaveSnapshot
<1>9. CASE Tracker!Discard \/ Tracker!Interrupt
  <2>1. /\ current' = {} /\ records' = <<>> /\ enriched' = FALSE /\ step' = "read"
        /\ UNCHANGED <<saved, sampled, polls>>
    BY <1>9 DEF Tracker!Discard, Tracker!Interrupt
  <2>2. interrupts' \in 0..MaxInterrupts
    BY <1>2, <1>9, TrackerBounds DEF Tracker!Discard, Tracker!Interrupt
  <2>3. Tracker!AtMostOne(current, Tracker!Price)'
    BY <2>1 DEF Tracker!AtMostOne
  <2>. QED  BY <1>1, <1>2, <2>1, <2>2, <2>3
<1>10. CASE UNCHANGED <<step, Tracker!pollVars, saved, sampled, polls, interrupts>>
  BY <1>1, <1>2, <1>10
<1>11. ASSUME NEW x \in Tracker!Price, Tracker!Move(x)
       PROVE  UNCHANGED <<step, Tracker!pollVars, saved, sampled, polls, interrupts>>
  BY <1>11 DEF Tracker!Move
<1>. QED
  BY <1>3, <1>4, <1>5, <1>6, <1>7, <1>8, <1>9, <1>10, <1>11
     DEF Tracker!Next, Tracker!Market, Tracker!Poll, Tracker!Open, Tracker!Close,
         Tracker!Publish

\* Every step keeps the types of the records and of the closes.
LEMMA RecordTypesKeep ==
  ASSUME Tracker!TypeOK, Tracker!Next
  PROVE  RecordTypes'
<1>. USE DEF Tracker!pollVars, RecordTypes
<1>1. /\ Tracker!Extrema' = Tracker!Extrema
      /\ Tracker!CloseEvents' = Tracker!CloseEvents
  BY SideStays, SameSide
<1>2. /\ RecordTypes
      /\ Tracker!AtMostOne({}, Tracker!Extrema)
      /\ Tracker!AtMostOne({Tracker!NoExtrema}, Tracker!Extrema)
  BY TypesAre, NoneIsOne, TrackerBounds
<1>3. SUFFICES /\ Tracker!AtMostOne(store', Tracker!Extrema)
               /\ Tracker!AtMostOne(memory', Tracker!Extrema)
               /\ closes' \in Seq(Tracker!CloseEvents)
  BY <1>1 DEF Tracker!AtMostOne
<1>4. CASE Tracker!Read
  BY <1>2, <1>4 DEF Tracker!Read
<1>5. CASE Tracker!ObserveOpened
  BY <1>2, <1>5 DEF Tracker!ObserveOpened
<1>6. CASE Tracker!ObserveSnapshot
  BY <1>2, <1>6, ObserveTypes DEF Tracker!ObserveSnapshot
<1>7. CASE Tracker!Enqueue
  <2>1. UNCHANGED store
    BY <1>7 DEF Tracker!Enqueue
  <2>. QED  BY <1>2, <1>7, <2>1, EnqueueForms, JournalForms
<1>8. CASE Tracker!Discard
  BY <1>2, <1>8 DEF Tracker!Discard
<1>9. CASE Tracker!Interrupt
  BY <1>2, <1>9 DEF Tracker!Interrupt
<1>10. CASE UNCHANGED <<store, memory, closes>>
  BY <1>2, <1>10
<1>11. ASSUME NEW x \in Tracker!Price, Tracker!Move(x)
       PROVE  UNCHANGED <<store, memory, closes>>
  BY <1>11 DEF Tracker!Move
<1>. QED
  BY <1>4, <1>5, <1>6, <1>7, <1>8, <1>9, <1>10, <1>11
     DEF Tracker!Next, Tracker!Market, Tracker!Poll, Tracker!Open, Tracker!Close,
         Tracker!Publish, Tracker!Acknowledge, Tracker!SaveSnapshot

-----------------------------------------------------------------------------
(* The stream tells the life of the position, and a poll reads the rest of it. *)

\* Every step keeps what the stream tells of the position's life.
LEMMA MarketInvKeeps ==
  ASSUME Tracker!TypeOK, Tracker!MarketInv, Tracker!Next
  PROVE  Tracker!MarketInv'
<1>. USE DEF Tracker!marketVars, Tracker!bridgeVars, Tracker!pollVars, Tracker!MarketInv
<1>1. CASE Tracker!Open
  BY <1>1 DEF Tracker!Open
<1>2. ASSUME NEW x \in Tracker!Price, Tracker!Move(x)
      PROVE  Tracker!MarketInv'
  BY <1>2 DEF Tracker!Move
<1>3. CASE Tracker!Close
  <2>1. stream' = <<"IN", "OUT">>
    BY <1>3, ClosedStream DEF Tracker!Close
  <2>. QED  BY <1>3, <2>1 DEF Tracker!Close
<1>4. CASE Tracker!Publish
  BY <1>4 DEF Tracker!Publish
<1>5. CASE Tracker!Read
  BY <1>5 DEF Tracker!Read
<1>6. CASE Tracker!Discard \/ Tracker!Interrupt
  BY <1>6 DEF Tracker!Discard, Tracker!Interrupt
<1>7. CASE UNCHANGED <<Tracker!marketVars, Tracker!bridgeVars, current>>
  BY <1>7
<1>. QED
  BY <1>1, <1>2, <1>3, <1>4, <1>5, <1>6, <1>7
     DEF Tracker!Next, Tracker!Market, Tracker!Poll, Tracker!ObserveOpened,
         Tracker!ObserveSnapshot, Tracker!Enqueue, Tracker!Acknowledge,
         Tracker!SaveSnapshot

\* PollInv of the next state, by the values.
LEMMA PollInvNext ==
  Tracker!PollInv' <=>
    /\ step' \in {"opened", "snapshot", "enqueue", "acknowledge"} =>
         /\ acked' + Len(records') <= Len(stream')
         /\ Among("IN", records') <=> acked' = 0 /\ records' # <<>>
    /\ step' \in {"opened", "snapshot", "enqueue"} => memory' = store'
BY AmongIs DEF Tracker!PollInv

\* Every step keeps what a poll has read and remembers.
LEMMA PollInvKeeps ==
  ASSUME Tracker!TypeOK, Tracker!MarketInv, Tracker!PollInv, Tracker!Next
  PROVE  Tracker!PollInv'
<1>. USE DEF Tracker!bridgeVars, Tracker!pollVars
<1>1. /\ step \in {"opened", "snapshot", "enqueue", "acknowledge"} =>
           /\ acked + Len(records) <= Len(stream)
           /\ Among("IN", records) <=> acked = 0 /\ records # <<>>
      /\ step \in {"opened", "snapshot", "enqueue"} => memory = store
  BY AmongIs DEF Tracker!PollInv
<1>2. /\ stream \in {<<>>, <<"IN">>, <<"IN", "OUT">>} /\ acked \in 0..Len(stream)
      /\ records \in {<<>>, <<"IN">>, <<"OUT">>, <<"IN", "OUT">>}
  BY TypesAre DEF BridgeTypes, PollTypes
<1>3. Len(records) \in Nat /\ Len(stream) \in Nat /\ acked \in Nat
  BY <1>2, AmongForms, ReadForms
<1>4. CASE Tracker!Open
  <2>1. Len(stream) = 0 /\ Len(stream') = 1
    BY <1>4 DEF Tracker!Open, Tracker!MarketInv
  <2>. QED  BY <1>1, <1>3, <1>4, <2>1, PollInvNext DEF Tracker!Open
<1>5. CASE Tracker!Close
  <2>1. Len(stream) = 1 /\ Len(stream') = 2
    <3>1. stream = <<"IN">> /\ stream' = <<"IN", "OUT">>
      BY <1>5, ClosedStream DEF Tracker!Close, Tracker!MarketInv
    <3>. QED  BY <3>1
  <2>. QED  BY <1>1, <1>3, <1>5, <2>1, PollInvNext DEF Tracker!Close
<1>6. CASE Tracker!Read
  <2>1. /\ records' = SubSeq(stream, acked + 1, Len(stream)) /\ memory' = store'
        /\ UNCHANGED <<stream, acked>>
    BY <1>6 DEF Tracker!Read
  <2>2. /\ acked = 0 => records' = stream
        /\ acked = 1 => records' = IF Len(stream) = 2 THEN <<"OUT">> ELSE <<>>
        /\ acked = 2 => records' = <<>>
        /\ acked \in 0..2
    BY <1>2, <2>1, ReadForms
  <2>3. Len(<<>>) = 0 /\ Len(<<"OUT">>) = 1
    OBVIOUS
  <2>4. acked' + Len(records') <= Len(stream')
    BY <1>2, <1>3, <2>1, <2>2, <2>3
  <2>5. Among("IN", records') <=> acked' = 0 /\ records' # <<>>
    <3>1. records' \in {<<>>, <<"IN">>, <<"OUT">>, <<"IN", "OUT">>}
      BY <1>2, <2>2
    <3>2. Among("IN", records') <=> records' \in {<<"IN">>, <<"IN", "OUT">>}
      BY <3>1, AmongForms
    <3>3. <<"OUT">> # <<"IN">> /\ <<"OUT">> # <<"IN", "OUT">> /\ <<>> # <<"IN">>
          /\ <<>> # <<"IN", "OUT">>
      <4>1. \A s, t : s = t => s[1] = t[1] /\ Len(s) = Len(t)
        OBVIOUS
      <4>. QED  BY <4>1
    <3>4. CASE acked = 0
      BY <1>2, <2>1, <2>2, <3>2, <3>3, <3>4, Zenon
    <3>5. CASE acked # 0
      <4>1. records' \in {<<>>, <<"OUT">>}
        BY <2>2, <3>5
      <4>. QED  BY <2>1, <3>2, <3>3, <3>5, <4>1
    <3>. QED  BY <3>4, <3>5
  <2>. QED  BY <2>1, <2>4, <2>5, PollInvNext
<1>7. CASE Tracker!ObserveOpened
  BY <1>1, <1>7, PollInvNext DEF Tracker!ObserveOpened
<1>8. CASE Tracker!ObserveSnapshot
  BY <1>1, <1>8, PollInvNext DEF Tracker!ObserveSnapshot
<1>9. CASE Tracker!Enqueue
  BY <1>1, <1>9, PollInvNext DEF Tracker!Enqueue
<1>10. CASE Tracker!Acknowledge \/ Tracker!SaveSnapshot \/ Tracker!Discard \/ Tracker!Interrupt
  <2>1. step' \in {"save", "discard", "read"}
    BY <1>10 DEF Tracker!Acknowledge, Tracker!SaveSnapshot, Tracker!Discard,
                 Tracker!Interrupt
  <2>. QED  BY <2>1, PollInvNext
<1>11. CASE UNCHANGED <<step, acked, records, stream, memory, store>>
  BY <1>1, <1>11, PollInvNext
<1>12. ASSUME NEW x \in Tracker!Price, Tracker!Move(x)
       PROVE  UNCHANGED <<step, acked, records, stream, memory, store>>
  BY <1>12 DEF Tracker!Move
<1>13. CASE Tracker!Publish
  BY <1>11, <1>13 DEF Tracker!Publish
<1>. QED
  BY <1>4, <1>5, <1>6, <1>7, <1>8, <1>9, <1>10, <1>11, <1>12, <1>13
     DEF Tracker!Next, Tracker!Market, Tracker!Poll

-----------------------------------------------------------------------------
(* The record on disk until a close is durable.                             *)

\* The parts of RecordInv that the steps disturb one at a time.
Kept(st, was, ac, ss)  == was \/ ac > 0 \/ ss # {} => st # {}
Opened(st, pos, rs, now, was) ==
  pos \in {"snapshot", "enqueue", "acknowledge"} /\ Opening(rs, now, was) => st # {}
Shown(st, pos, now) == pos \in {"enqueue", "acknowledge", "save"} /\ now # {} => st # {}
Whole(st, ss) == \A r \in st : Tracker!IsExtremeOf(r, ss)

\* RecordInv is these parts.
LEMMA RecordInvIs ==
  Tracker!RecordInv <=>
    /\ enriched => closes # <<>>
    /\ closes = <<>> =>
         /\ Kept(store, saved, acked, sampled)
         /\ Opened(store, step, records, current, saved)
         /\ Shown(store, step, current)
         /\ Whole(store, sampled)
BY AmongIs DEF Tracker!RecordInv, Kept, Opened, Shown, Whole

\* RecordInv of the next state, by the values.
LEMMA RecordInvNext ==
  ASSUME side' = side
  PROVE  Tracker!RecordInv' <=>
           /\ enriched' => closes' # <<>>
           /\ closes' = <<>> =>
                /\ Kept(store', saved', acked', sampled')
                /\ Opened(store', step', records', current', saved')
                /\ Shown(store', step', current')
                /\ Whole(store', sampled')
<1>1. \A r : Tracker!IsExtremeOf(r, sampled)' <=> Tracker!IsExtremeOf(r, sampled')
  BY DEF Tracker!IsExtremeOf, Tracker!Favorable
<1>. QED  BY <1>1, AmongIs DEF Tracker!RecordInv, Kept, Opened, Shown, Whole

\* The steps of a poll before the close is written write what they remember.
LEMMA RecordObserved ==
  ASSUME Tracker!TypeOK, Tracker!PollInv, Tracker!RecordInv, closes = <<>>,
         Tracker!ObserveSnapshot
  PROVE  /\ Kept(store', saved', acked', sampled')
         /\ Opened(store', step', records', current', saved')
         /\ Shown(store', step', current')
         /\ Whole(store', sampled')
<1>1. /\ Kept(store, saved, acked, sampled) /\ Whole(store, sampled)
      /\ Opened(store, step, records, current, saved)
  BY RecordInvIs
<1>2. /\ store' = memory' /\ memory = store /\ sampled' = sampled \cup current
      /\ step = "snapshot" /\ step' = "enqueue"
      /\ UNCHANGED <<saved, acked, records, current>>
  BY DEF Tracker!ObserveSnapshot, Tracker!PollInv
<1>3. /\ current # {} \/ store # {} => store' # {}
      /\ sampled \subseteq Tracker!Price
  BY <1>2, ObserveTypes DEF Tracker!TypeOK
<1>4. Kept(store', saved', acked', sampled')
  BY <1>1, <1>2, <1>3 DEF Kept
<1>5. Opened(store', step', records', current', saved') /\ Shown(store', step', current')
  BY <1>1, <1>2, <1>3 DEF Opened, Shown
<1>6. Whole(store', sampled')
  <2>1. CASE current = {}
    BY <1>1, <1>2, <2>1, ObserveForms
  <2>2. CASE current # {}
    <3>1. PICK x \in Tracker!Price, r \in Tracker!Extrema :
            /\ current = {x} /\ memory' = {Tracker!Observed(r, x)}
            /\ \/ memory = {r}
               \/ memory = {} /\ r = Tracker!NoExtrema
      BY <2>2, ObserveForms
    <3>2. Tracker!IsExtremeOf(r, sampled)
      <4>1. CASE memory = {r}
        BY <1>1, <1>2, <4>1 DEF Whole
      <4>2. CASE memory = {} /\ r = Tracker!NoExtrema
        <5>1. sampled = {}
          BY <1>1, <1>2, <4>2 DEF Kept
        <5>. QED  BY <4>2, <5>1, MetFirst
      <4>. QED  BY <3>1, <4>1, <4>2
    <3>3. Tracker!IsExtremeOf(Tracker!Observed(r, x), sampled \cup {x})
      BY <1>3, <3>2, ExtremeGrows
    <3>. QED  BY <1>2, <3>1, <3>3 DEF Whole
  <2>. QED  BY <2>1, <2>2
<1>. QED  BY <1>4, <1>5, <1>6

\* Every step keeps the record on disk until a close is durable.
LEMMA RecordInvKeeps ==
  ASSUME Tracker!TypeOK, Tracker!MarketInv, Tracker!PollInv, Tracker!RecordInv, Tracker!Next
  PROVE  Tracker!RecordInv'
<1>. USE DEF Tracker!marketVars, Tracker!bridgeVars, Tracker!pollVars
<1>1. /\ enriched => closes # <<>>
      /\ closes = <<>> =>
           /\ Kept(store, saved, acked, sampled)
           /\ Opened(store, step, records, current, saved)
           /\ Shown(store, step, current)
           /\ Whole(store, sampled)
  BY RecordInvIs
<1>2. SUFFICES /\ enriched' => closes' # <<>>
               /\ closes' = <<>> =>
                    /\ Kept(store', saved', acked', sampled')
                    /\ Opened(store', step', records', current', saved')
                    /\ Shown(store', step', current')
                    /\ Whole(store', sampled')
  BY SideStays, RecordInvNext
<1>3. CASE UNCHANGED <<enriched, closes, store, saved, acked, sampled, step, records,
                       current>>
  BY <1>1, <1>3
<1>4. CASE Tracker!Read
  BY <1>1, <1>4 DEF Tracker!Read, Opened, Shown
<1>5. CASE Tracker!ObserveOpened
  <2>1. /\ memory' = IF Opening(records, current, saved) /\ memory = {}
                     THEN {Tracker!NoExtrema} ELSE memory
        /\ store' = memory' /\ memory = store /\ step' = "snapshot"
        /\ UNCHANGED <<closes, enriched, saved, acked, sampled, records, current>>
    BY <1>5, AmongIs DEF Tracker!ObserveOpened, Tracker!PollInv
  <2>2. CASE Opening(records, current, saved) /\ memory = {}
    <3>1. store' = {Tracker!NoExtrema} /\ store = {}
      BY <2>1, <2>2
    <3>2. closes = <<>> => sampled = {}
      BY <1>1, <3>1 DEF Kept
    <3>. QED  BY <1>1, <2>1, <3>1, <3>2, MetFirst DEF Kept, Opened, Shown, Whole
  <2>3. CASE ~(Opening(records, current, saved) /\ memory = {})
    <3>1. store' = store /\ (Opening(records, current, saved) => store # {})
      BY <2>1, <2>3
    <3>. QED  BY <1>1, <2>1, <3>1 DEF Opened, Shown
  <2>. QED  BY <2>2, <2>3
<1>6. CASE Tracker!ObserveSnapshot
  <2>1. UNCHANGED <<closes, enriched>>
    BY <1>6 DEF Tracker!ObserveSnapshot
  <2>. QED  BY <1>1, <1>6, <2>1, RecordObserved
<1>7. CASE Tracker!Enqueue
  <2>1. /\ enriched' => closes' # <<>>
        /\ closes' = <<>> => closes = <<>>
    <3>1. enriched' => Tracker!SawClose
      BY <1>7 DEF Tracker!Enqueue
    <3>2. Tracker!SawClose => closes' # <<>>
      BY <1>7, JournalForms
    <3>3. closes' = closes \/ Tracker!SawClose
      BY <1>7, JournalForms
    <3>. QED  BY <3>1, <3>2, <3>3
  <2>2. /\ step = "enqueue" /\ step' = "acknowledge"
        /\ UNCHANGED <<store, saved, acked, sampled, records, current>>
    BY <1>7 DEF Tracker!Enqueue
  <2>. QED  BY <1>1, <2>1, <2>2 DEF Opened, Shown
<1>8. CASE Tracker!Acknowledge
  <2>1. /\ acked' = acked + Len(records) /\ step = "acknowledge" /\ step' = "save"
        /\ UNCHANGED <<enriched, closes, store, saved, sampled, records, current>>
    BY <1>8 DEF Tracker!Acknowledge
  <2>2. /\ records \in {<<>>, <<"IN">>, <<"OUT">>, <<"IN", "OUT">>}
        /\ stream \in {<<>>, <<"IN">>, <<"IN", "OUT">>} /\ acked \in 0..Len(stream)
    BY TypesAre DEF BridgeTypes, PollTypes
  <2>3. Len(records) \in Nat /\ (Len(records) = 0 => records = <<>>) /\ acked \in Nat
    BY <2>2, AmongForms, ReadForms
  <2>4. acked' > 0 /\ acked = 0 => Opening(records, current, saved)
    <3>1. acked' > 0 /\ acked = 0 => records # <<>>
      <4>1. Len(<<>>) = 0
        OBVIOUS
      <4>. QED  BY <2>1, <2>3, <4>1
    <3>2. Among("IN", records) <=> acked = 0 /\ records # <<>>
      BY <2>1, AmongIs DEF Tracker!PollInv
    <3>. QED  BY <3>1, <3>2 DEF Opening
  <2>5. closes = <<>> => Kept(store', saved', acked', sampled')
    <3>1. acked' > 0 => acked > 0 \/ Opening(records, current, saved)
      BY <2>3, <2>4
    <3>. QED  BY <1>1, <2>1, <3>1 DEF Kept, Opened
  <2>. QED  BY <1>1, <2>1, <2>5 DEF Opened, Shown
<1>9. CASE Tracker!SaveSnapshot
  <2>1. /\ saved' = (current # {}) /\ step = "save" /\ step' = "discard"
        /\ UNCHANGED <<enriched, closes, store, acked, sampled, records, current>>
    BY <1>9 DEF Tracker!SaveSnapshot
  <2>. QED  BY <1>1, <2>1 DEF Kept, Opened, Shown
<1>10. CASE Tracker!Discard
  <2>1. /\ store' = IF enriched THEN {} ELSE store
        /\ step' = "read" /\ enriched' = FALSE
        /\ UNCHANGED <<closes, saved, acked, sampled>>
    BY <1>10 DEF Tracker!Discard
  <2>. QED  BY <1>1, <2>1 DEF Opened, Shown
<1>11. CASE Tracker!Interrupt
  BY <1>1, <1>11 DEF Tracker!Interrupt, Opened, Shown
<1>12. ASSUME NEW x \in Tracker!Price, Tracker!Move(x)
       PROVE  UNCHANGED <<enriched, closes, store, saved, acked, sampled, step, records,
                          current>>
  BY <1>12 DEF Tracker!Move
<1>13. CASE Tracker!Open \/ Tracker!Close \/ Tracker!Publish
  BY <1>3, <1>13 DEF Tracker!Open, Tracker!Close, Tracker!Publish
<1>. QED
  BY <1>3, <1>4, <1>5, <1>6, <1>7, <1>8, <1>9, <1>10, <1>11, <1>12, <1>13
     DEF Tracker!Next, Tracker!Market, Tracker!Poll

-----------------------------------------------------------------------------
(* What records and closes tell is what the position lived through.         *)

Lived(S, xs) == \A r \in S : Met(r, xs)

\* RealInv says Met of every record.
LEMMA RealInvIs ==
  /\ Tracker!RealInv <=> Lived(store \cup memory, path)
  /\ side' = side => (Tracker!RealInv' <=> Lived(store' \cup memory', path'))
<1>1. Tracker!RealInv <=> Lived(store \cup memory, path)
  BY DEF Tracker!RealInv, Lived, Met
<1>2. ASSUME side' = side
      PROVE  Tracker!RealInv' <=> Lived(store' \cup memory', path')
  BY <1>2 DEF Tracker!RealInv, Lived, Met, Tracker!Favorable
<1>. QED  BY <1>1, <1>2

\* What was met stays met.
LEMMA MetMore ==
  ASSUME NEW r, NEW xs, NEW ys, xs \subseteq ys, Met(r, xs)
  PROVE  Met(r, ys)
BY DEF Met

\* A native close has a deal behind it: the position has lived.
LEMMA CloseHasPrice ==
  ASSUME Tracker!TypeOK, Tracker!MarketInv, Tracker!PollInv, step = "enqueue",
         Tracker!NativeClose
  PROVE  price \in path /\ (acked > 0 \/ Opening(records, current, saved))
<1>1. /\ records \in {<<>>, <<"IN">>, <<"OUT">>, <<"IN", "OUT">>}
      /\ stream \in {<<>>, <<"IN">>, <<"IN", "OUT">>} /\ acked \in 0..Len(stream)
      /\ life \in {"unborn", "open", "closed"}
  BY TypesAre DEF MarketTypes, BridgeTypes, PollTypes
<1>2. Len(records) \in Nat /\ (Len(records) = 0 => records = <<>>) /\ acked \in Nat
      /\ Len(stream) \in Nat
  BY <1>1, AmongForms, ReadForms
<1>3. records # <<>>
  <2>1. Among("OUT", records)
    BY AmongIs DEF Tracker!NativeClose
  <2>. QED  BY <2>1 DEF Among
<1>4. /\ acked + Len(records) <= Len(stream)
      /\ Among("IN", records) <=> acked = 0 /\ records # <<>>
  BY AmongIs DEF Tracker!PollInv
<1>5. stream # <<>>
  <2>1. Len(<<>>) = 0
    OBVIOUS
  <2>. QED  BY <1>2, <1>3, <1>4, <2>1
<1>6. price \in path
  BY <1>1, <1>5 DEF Tracker!MarketInv
<1>7. acked > 0 \/ Opening(records, current, saved)
  BY <1>2, <1>3, <1>4 DEF Opening
<1>. QED  BY <1>6, <1>7

\* Every step keeps what the records tell within what the position lived through.
LEMMA RealInvKeeps ==
  ASSUME Tracker!TypeOK, Tracker!MarketInv, Tracker!PollInv, Tracker!RealInv, Tracker!Next
  PROVE  Tracker!RealInv'
<1>. USE DEF Tracker!marketVars, Tracker!bridgeVars, Tracker!pollVars
<1>1. Lived(store \cup memory, path) /\ path \subseteq Tracker!Price
  BY RealInvIs, TypesAre DEF MarketTypes
<1>2. SUFFICES Lived(store' \cup memory', path')
  BY SideStays, RealInvIs
<1>3. CASE UNCHANGED <<store, memory, path>>
  BY <1>1, <1>3
<1>4. CASE path \subseteq path' /\ UNCHANGED <<store, memory>>
  BY <1>1, <1>4, MetMore DEF Lived
<1>5. CASE Tracker!Open
  <2>1. path = {}
    BY <1>5 DEF Tracker!Open, Tracker!MarketInv
  <2>. QED  BY <1>4, <1>5, <2>1 DEF Tracker!Open
<1>6. ASSUME NEW x \in Tracker!Price, Tracker!Move(x)
      PROVE  path \subseteq path' /\ UNCHANGED <<store, memory>>
  BY <1>6 DEF Tracker!Move
<1>7. CASE Tracker!Read \/ Tracker!Discard \/ Tracker!Interrupt
  <2>1. store' \cup memory' \subseteq store \cup memory /\ UNCHANGED path
    BY <1>7 DEF Tracker!Read, Tracker!Discard, Tracker!Interrupt
  <2>. QED  BY <1>1, <2>1 DEF Lived
<1>8. CASE Tracker!ObserveOpened
  <2>1. store' \cup memory' \subseteq memory \cup {Tracker!NoExtrema} /\ UNCHANGED path
    BY <1>8 DEF Tracker!ObserveOpened
  <2>. QED  BY <1>1, <2>1, MetFirst DEF Lived
<1>9. CASE Tracker!ObserveSnapshot
  <2>1. store' = memory' /\ UNCHANGED path
    BY <1>9 DEF Tracker!ObserveSnapshot
  <2>2. CASE current = {}
    BY <1>1, <1>9, <2>1, <2>2, ObserveForms DEF Lived
  <2>3. CASE current # {}
    <3>1. PICK x \in Tracker!Price, r \in Tracker!Extrema :
            /\ current = {x} /\ memory' = {Tracker!Observed(r, x)}
            /\ \/ memory = {r}
               \/ memory = {} /\ r = Tracker!NoExtrema
      BY <1>9, <2>3, ObserveForms
    <3>2. Met(r, path) /\ x \in path
      BY <1>1, <3>1, MetFirst DEF Lived, Tracker!MarketInv
    <3>3. Met(Tracker!Observed(r, x), path)
      BY <1>1, <3>2, MetGrows
    <3>. QED  BY <2>1, <3>1, <3>3 DEF Lived
  <2>. QED  BY <2>2, <2>3
<1>10. CASE Tracker!Enqueue
  <2>1. UNCHANGED <<store, path>> /\ step = "enqueue"
    BY <1>10 DEF Tracker!Enqueue
  <2>2. CASE memory' = memory \/ memory' = {}
    BY <1>1, <2>1, <2>2 DEF Lived
  <2>3. ASSUME NEW r \in Tracker!Extrema, memory = {r}, Tracker!NativeClose,
               memory' = {Tracker!Observed(r, price)}
        PROVE  Lived(store' \cup memory', path')
    <3>1. price \in path /\ Met(r, path)
      BY <1>1, <2>1, <2>3, CloseHasPrice DEF Lived
    <3>2. Met(Tracker!Observed(r, price), path)
      BY <1>1, <3>1, MetGrows
    <3>. QED  BY <1>1, <2>1, <2>3, <3>2 DEF Lived
  <2>. QED  BY <1>10, <2>2, <2>3, EnqueueForms
<1>11. CASE Tracker!Close \/ Tracker!Publish \/ Tracker!Acknowledge \/ Tracker!SaveSnapshot
  BY <1>3, <1>11
     DEF Tracker!Close, Tracker!Publish, Tracker!Acknowledge, Tracker!SaveSnapshot
<1>. QED
  BY <1>3, <1>4, <1>5, <1>6, <1>7, <1>8, <1>9, <1>10, <1>11
     DEF Tracker!Next, Tracker!Market, Tracker!Poll

\* A close that is the first carries the extremes of every sample, and its own price.
LEMMA FirstCloseCarries ==
  ASSUME Tracker!TypeOK, Tracker!MarketInv, Tracker!PollInv, Tracker!RecordInv,
         closes = <<>>, Tracker!SawClose, Tracker!Enqueue
  PROVE  \E r \in memory' :
           /\ r.mfe = Tracker!CloseEvent(memory').truth.mfe
           /\ r.mae = Tracker!CloseEvent(memory').truth.mae
<1>. DEFINE xs == sampled \cup (IF Tracker!NativeClose THEN {price} ELSE {})
<1>1. step = "enqueue" /\ memory = store
  BY DEF Tracker!Enqueue, Tracker!PollInv
<1>2. /\ Kept(store, saved, acked, sampled) /\ Whole(store, sampled)
      /\ Opened(store, step, records, current, saved)
  BY RecordInvIs
<1>3. store # {}
  <2>1. saved \/ acked > 0 \/ Opening(records, current, saved)
    BY <1>1, CloseHasPrice DEF Tracker!SawClose
  <2>. QED  BY <1>1, <1>2, <2>1 DEF Kept, Opened
<1>4. /\ sampled \in SUBSET Tracker!Price /\ price \in Tracker!Price
      /\ memory \subseteq Tracker!Extrema
  BY DEF Tracker!TypeOK, Tracker!AtMostOne
<1>5. PICK r \in memory' : r \in Tracker!Extrema /\ Tracker!IsExtremeOf(r, xs)
  <2>1. CASE ~Tracker!NativeClose
    <3>1. memory' = memory
      BY <2>1, EnqueueForms
    <3>2. PICK r \in store : TRUE
      BY <1>3
    <3>. QED  BY <1>1, <1>2, <1>4, <2>1, <3>1, <3>2 DEF Whole
  <2>2. CASE Tracker!NativeClose
    <3>1. PICK r \in Tracker!Extrema : memory = {r} /\ memory' = {Tracker!Observed(r, price)}
      BY <1>1, <1>3, <2>2, EnqueueForms
    <3>2. Tracker!IsExtremeOf(r, sampled)
      BY <1>1, <1>2, <3>1 DEF Whole
    <3>3. Tracker!IsExtremeOf(Tracker!Observed(r, price), sampled \cup {price})
      BY <1>4, <3>2, ExtremeGrows
    <3>4. Tracker!Observed(r, price) \in Tracker!Extrema
      BY <1>4, ObservedForms
    <3>. QED  BY <2>2, <3>1, <3>3, <3>4
  <2>. QED  BY <2>1, <2>2
<1>6. Tracker!Truth(xs).mfe = r.mfe /\ Tracker!Truth(xs).mae = r.mae
  <2>1. xs \in SUBSET Tracker!Price
    BY <1>4
  <2>. HIDE DEF xs
  <2>. QED  BY <1>5, <2>1, TruthIs
<1>7. Tracker!CloseEvent(memory').truth = Tracker!Truth(xs)
  BY DEF Tracker!CloseEvent
<1>. QED  BY <1>5, <1>6, <1>7

\* The closes of the next state, one by one.
LEMMA ClosesStep ==
  ASSUME Tracker!TypeOK, Tracker!Next
  PROVE  \/ UNCHANGED closes
         \/ Tracker!Enqueue
<1>1. ASSUME NEW x \in Tracker!Price, Tracker!Move(x)
      PROVE  UNCHANGED closes
  BY <1>1 DEF Tracker!Move
<1>. QED
  BY <1>1
     DEF Tracker!Next, Tracker!Market, Tracker!Poll, Tracker!Open, Tracker!Close,
         Tracker!Publish, Tracker!Read, Tracker!ObserveOpened, Tracker!ObserveSnapshot,
         Tracker!Acknowledge, Tracker!SaveSnapshot, Tracker!Discard, Tracker!Interrupt

\* A position does not lose the prices it lived through.
LEMMA PathGrows ==
  ASSUME Tracker!MarketInv, Tracker!Next
  PROVE  path \subseteq path'
<1>. USE DEF Tracker!marketVars
<1>1. ASSUME NEW x \in Tracker!Price, Tracker!Move(x)
      PROVE  path \subseteq path'
  BY <1>1 DEF Tracker!Move
<1>2. CASE Tracker!Open
  BY <1>2 DEF Tracker!Open, Tracker!MarketInv
<1>. QED
  BY <1>1, <1>2
     DEF Tracker!Next, Tracker!Market, Tracker!Poll, Tracker!Close,
         Tracker!Publish, Tracker!Read, Tracker!ObserveOpened, Tracker!ObserveSnapshot,
         Tracker!Enqueue, Tracker!Acknowledge, Tracker!SaveSnapshot, Tracker!Discard,
         Tracker!Interrupt

\* Every step keeps that the first close carries the extremes.
LEMMA CarriesKeeps ==
  ASSUME Tracker!TypeOK, Tracker!MarketInv, Tracker!PollInv, Tracker!RecordInv,
         Tracker!CloseCarriesExtrema, Tracker!Next
  PROVE  Tracker!CloseCarriesExtrema'
<1>1. CASE UNCHANGED closes
  BY <1>1 DEF Tracker!CloseCarriesExtrema
<1>2. CASE Tracker!Enqueue
  <2>1. \A i \in DOMAIN closes : i \in DOMAIN closes' /\ closes'[i] = closes[i]
    BY <1>2, JournalForms
  <2>2. CASE closes # <<>>
    <3>1. 1 \in DOMAIN closes
      BY <2>2 DEF Tracker!TypeOK
    <3>. QED  BY <2>1, <3>1 DEF Tracker!CloseCarriesExtrema
  <2>3. CASE closes = <<>>
    <3>1. DOMAIN closes = {}
      BY <2>3
    <3>2. SUFFICES ASSUME 1 \in DOMAIN closes'
                   PROVE  \E r \in closes'[1].extrema :
                            /\ r.mfe = closes'[1].truth.mfe
                            /\ r.mae = closes'[1].truth.mae
      BY DEF Tracker!CloseCarriesExtrema
    <3>3. closes'[1] = Tracker!CloseEvent(memory') /\ Tracker!SawClose
      BY <1>2, <3>1, <3>2, JournalForms
    <3>4. closes'[1].extrema = memory'
      BY <3>3 DEF Tracker!CloseEvent
    <3>. QED  BY <1>2, <2>3, <3>3, <3>4, FirstCloseCarries
  <2>. QED  BY <2>2, <2>3
<1>. QED  BY <1>1, <1>2, ClosesStep

\* ExtremaAreReal says Met of every record that was sent.
LEMMA MetIs ==
  ASSUME side \in {"buy", "sell"}, NEW r, NEW xs \in SUBSET Tracker!Price
  PROVE  Met(r, xs) <=>
           /\ r.mfe \in {0} \cup {IF side = "buy" THEN x ELSE -x : x \in xs}
           /\ r.mae \in {0} \cup {IF side = "buy" THEN -x ELSE x : x \in xs}
<1>1. CASE side = "buy"
  BY <1>1 DEF Met, Tracker!Favorable
<1>2. CASE side = "sell"
  <2>1. \A x \in xs : x \in Int /\ Tracker!Favorable(x) = -x /\ -Tracker!Favorable(x) = x
    BY <1>2, TrackerBounds DEF Tracker!Favorable
  <2>2. /\ {Tracker!Favorable(x) : x \in xs} = {-x : x \in xs}
        /\ {-Tracker!Favorable(x) : x \in xs} = {x : x \in xs}
    BY <2>1
  <2>3. /\ {IF side = "buy" THEN x ELSE -x : x \in xs} = {-x : x \in xs}
        /\ {IF side = "buy" THEN -x ELSE x : x \in xs} = {x : x \in xs}
    BY <1>2
  <2>. QED  BY <2>2, <2>3 DEF Met
<1>. QED  BY <1>1, <1>2

\* Every step keeps that the closes tell of prices the position lived through.
LEMMA RealKeeps ==
  ASSUME Tracker!TypeOK, Tracker!MarketInv, Tracker!PollInv, Tracker!RealInv,
         Tracker!ExtremaAreReal, Tracker!Next
  PROVE  Tracker!ExtremaAreReal'
<1>1. /\ side \in {"buy", "sell"} /\ side' = side
      /\ path \in SUBSET Tracker!Price /\ path' \in SUBSET Tracker!Price
      /\ path \subseteq path'
  <2>1. MarketTypes /\ MarketTypes' /\ Tracker!Price' = Tracker!Price
    BY TypesAre, MarketTypesKeep, SideStays, SameSide
  <2>. QED  BY <2>1, SideStays, PathGrows DEF MarketTypes
<1>2. \A i \in DOMAIN closes : \A r \in closes[i].extrema : Met(r, path')
  <2>1. \A i \in DOMAIN closes : \A r \in closes[i].extrema : Met(r, path)
    BY <1>1, MetIs DEF Tracker!ExtremaAreReal
  <2>. QED  BY <1>1, <2>1, MetMore
<1>3. \A i \in DOMAIN closes' : \A r \in closes'[i].extrema : Met(r, path')
  <2>1. CASE UNCHANGED closes
    BY <1>2, <2>1
  <2>2. CASE Tracker!Enqueue
    <3>1. Lived(memory', path')
      BY <1>1, RealInvKeeps, RealInvIs DEF Lived
    <3>2. Tracker!CloseEvent(memory').extrema = memory'
      BY DEF Tracker!CloseEvent
    <3>3. \A i \in DOMAIN closes : closes'[i] = closes[i]
      BY <2>2, JournalForms
    <3>4. \A i \in DOMAIN closes' :
            i \in DOMAIN closes \/ closes'[i] = Tracker!CloseEvent(memory')
      BY <2>2, JournalForms
    <3>. QED  BY <1>2, <3>1, <3>2, <3>3, <3>4 DEF Lived
  <2>. QED  BY <2>1, <2>2, ClosesStep
<1>4. \A r : Met(r, path') <=>
        /\ r.mfe \in {0} \cup {IF side = "buy" THEN x ELSE -x : x \in path'}
        /\ r.mae \in {0} \cup {IF side = "buy" THEN -x ELSE x : x \in path'}
  BY <1>1, MetIs
<1>5. \A i \in DOMAIN closes' : \A r \in closes'[i].extrema :
        /\ r.mfe \in {0} \cup {IF side = "buy" THEN x ELSE -x : x \in path'}
        /\ r.mae \in {0} \cup {IF side = "buy" THEN -x ELSE x : x \in path'}
  BY <1>3, <1>4
<1>. QED  BY <1>1, <1>5 DEF Tracker!ExtremaAreReal

\* It holds before the position is opened, and every step keeps it.
LEMMA TrackerInit == Tracker!Init => Tracker!IInv
<1>. SUFFICES ASSUME Tracker!Init PROVE Tracker!IInv
  OBVIOUS
<1>1. Tracker!TypeOK
  <2>1. MarketTypes
    BY TrackerBounds DEF Tracker!Init, MarketTypes
  <2>2. BridgeTypes
    BY NoneIsOne DEF Tracker!Init, BridgeTypes
  <2>3. PollTypes
    <3>1. /\ Tracker!AtMostOne(current, Tracker!Price)
          /\ polls \in 0..MaxPolls /\ interrupts \in 0..MaxInterrupts
      BY NoneIsOne, TrackerBounds DEF Tracker!Init
    <3>. QED  BY <3>1 DEF Tracker!Init, PollTypes
  <2>4. RecordTypes
    BY NoneIsOne DEF Tracker!Init, RecordTypes
  <2>. QED  BY <2>1, <2>2, <2>3, <2>4, TypesAre
<1>2. Tracker!MarketInv /\ Tracker!PollInv
  BY DEF Tracker!Init, Tracker!MarketInv, Tracker!PollInv
<1>3. Tracker!RecordInv
  <2>1. acked = 0 /\ ~saved /\ sampled = {} /\ store = {} /\ step = "read" /\ ~enriched
    BY DEF Tracker!Init
  <2>. QED  BY <2>1 DEF Tracker!RecordInv
<1>4. Tracker!RealInv
  BY DEF Tracker!Init, Tracker!RealInv
<1>5. Tracker!CloseCarriesExtrema /\ Tracker!ExtremaAreReal
  <2>1. DOMAIN closes = {}
    BY DEF Tracker!Init
  <2>. QED  BY <2>1 DEF Tracker!CloseCarriesExtrema, Tracker!ExtremaAreReal
<1>. QED  BY <1>1, <1>2, <1>3, <1>4, <1>5 DEF Tracker!IInv

\* Every step keeps the invariant.
LEMMA TrackerStep == Tracker!IInv /\ [Tracker!Next]_Tracker!vars => Tracker!IInv'
<1>1. ASSUME Tracker!IInv, Tracker!Next PROVE Tracker!IInv'
  <2>. USE <1>1 DEF Tracker!IInv
  <2>1. MarketTypes' /\ BridgeTypes' /\ PollTypes' /\ RecordTypes'
    BY MarketTypesKeep, BridgeTypesKeep, PollTypesKeep, RecordTypesKeep
  <2>2. Tracker!TypeOK'
    BY <2>1 DEF Tracker!TypeOK, MarketTypes, BridgeTypes, PollTypes, RecordTypes
  <2>3. Tracker!MarketInv' /\ Tracker!PollInv' /\ Tracker!RecordInv' /\ Tracker!RealInv'
    BY MarketInvKeeps, PollInvKeeps, RecordInvKeeps, RealInvKeeps
  <2>4. Tracker!CloseCarriesExtrema' /\ Tracker!ExtremaAreReal'
    BY CarriesKeeps, RealKeeps
  <2>. QED  BY <2>2, <2>3, <2>4
<1>2. ASSUME Tracker!IInv, UNCHANGED Tracker!vars PROVE Tracker!IInv'
  <2>. USE <1>2 DEF Tracker!vars, Tracker!marketVars, Tracker!bridgeVars,
                    Tracker!pollVars, Tracker!IInv
  <2>1. Tracker!TypeOK'
    <3>1. Tracker!CloseEvents' = Tracker!CloseEvents
      BY SameSide
    <3>. QED  BY <3>1 DEF Tracker!TypeOK, Tracker!AtMostOne, Tracker!Extrema, Tracker!Price
  <2>2. Tracker!MarketInv' /\ Tracker!PollInv'
    BY DEF Tracker!MarketInv, Tracker!PollInv, Tracker!Has
  <2>3. Tracker!RecordInv'
    BY RecordInvIs, RecordInvNext
  <2>4. Tracker!RealInv'
    BY RealInvIs
  <2>5. Tracker!CloseCarriesExtrema' /\ Tracker!ExtremaAreReal'
    BY DEF Tracker!CloseCarriesExtrema, Tracker!ExtremaAreReal
  <2>. QED  BY <2>1, <2>2, <2>3, <2>4, <2>5
<1>. QED  BY <1>1, <1>2

\* What the stream tells and a poll reads, the record on disk until a close is durable,
\* and the prices a record tells of: the inductive invariant of the tracker
\* (excursion_tracker.py, live_sync.py poll_once).
THEOREM TrackerInvariant == Tracker!Spec => []Tracker!IInv
BY TrackerInit, TrackerStep, PTL DEF Tracker!Spec

\* A behaviour of the composition is one of the tracker.
LEMMA TrackerComposed == SpecOne => Tracker!Spec
<1>1. InitOne => Tracker!Init
  BY DEF InitOne
<1>2. [NextOne]_<<part, vars, balanceVars, excursionVars, leaseVars, runtimeVars>>
        => [Tracker!Next]_Tracker!vars
  BY DEF NextOne, HandoffMoves, BalanceMoves, TrackerMoves, LeaseMoves, RuntimeMoves,
     excursionVars, Tracker!vars, Tracker!marketVars, Tracker!bridgeVars, Tracker!pollVars
<1>. QED  BY <1>1, <1>2, PTL DEF SpecOne, Tracker!Spec

\* ExtremaAreKept: for any prices, moves, polls, crashes and abandoned polls, the first
\* durable close carries exactly the extremes of every sample, and no close tells of a
\* price the position did not live through (excursion_tracker.py).
THEOREM ExtremaKept == SpecOne => []ExtremaAreKept
<1>1. Tracker!IInv => ExtremaAreKept
  BY DEF Tracker!IInv, ExtremaAreKept
<1>. QED  BY <1>1, TrackerComposed, TrackerInvariant, PTL

\* RemovedOnlyWhenReported: whichever polls are interrupted, the record of a position
\* leaves the file only when a close with extrema is durable (live_sync.py poll_once).
THEOREM RemovedReported == SpecOne => RemovedOnlyWhenReported
<1>1. ASSUME Tracker!IInv, [Tracker!Next]_Tracker!vars
      PROVE  [(store # {} /\ store' = {}) =>
                \E i \in DOMAIN closes : closes[i].extrema # {}]_Tracker!vars
  <2>. SUFFICES ASSUME Tracker!Next, store # {}, store' = {}
                PROVE  \E i \in DOMAIN closes : closes[i].extrema # {}
    BY <1>1
  <2>1. closes # <<>>
    <3>1. CASE Tracker!Discard
      BY <1>1, <3>1 DEF Tracker!Discard, Tracker!IInv, Tracker!RecordInv
    <3>2. CASE Tracker!ObserveOpened
      BY <1>1, <3>2 DEF Tracker!ObserveOpened, Tracker!IInv, Tracker!PollInv
    <3>3. CASE Tracker!ObserveSnapshot
      <4>1. Tracker!TypeOK /\ memory = store
        BY <1>1, <3>3 DEF Tracker!ObserveSnapshot, Tracker!IInv, Tracker!PollInv
      <4>2. memory' # {}
        BY <3>3, <4>1, ObserveTypes
      <4>. QED  BY <3>3, <4>2 DEF Tracker!ObserveSnapshot
    <3>4. ASSUME NEW x \in Tracker!Price, Tracker!Move(x)
          PROVE  UNCHANGED store
      BY <3>4 DEF Tracker!Move
    <3>5. CASE UNCHANGED store
      BY <3>5
    <3>. QED
      BY <3>1, <3>2, <3>3, <3>4, <3>5
         DEF Tracker!Next, Tracker!Market, Tracker!Poll, Tracker!Open, Tracker!Close,
             Tracker!Publish, Tracker!Read, Tracker!Enqueue, Tracker!Acknowledge,
             Tracker!SaveSnapshot, Tracker!Interrupt
  <2>2. 1 \in DOMAIN closes
    BY <1>1, <2>1 DEF Tracker!IInv, Tracker!TypeOK
  <2>. QED  BY <1>1, <2>2 DEF Tracker!IInv, Tracker!CloseCarriesExtrema
<1>. QED
  BY <1>1, TrackerComposed, TrackerInvariant, PTL
     DEF RemovedOnlyWhenReported, Tracker!RemovedOnlyWhenReported, Tracker!Spec
-----------------------------------------------------------------------------
(* The account and its ledger: HistoryBalance. *)

\* A set of natural numbers has a smallest one.
LEMMA SmallestNumber ==
  ASSUME NEW S \in SUBSET Nat, S # {}
  PROVE  \E x \in S : \A y \in S : x <= y
<1>0. S \subseteq Nat /\ S # {}
  OBVIOUS
<1>1. PICK x \in S : \A y \in S : <<y, x>> \notin OpToRel(<, Nat)
  BY <1>0, WFMin, NatLessThanWellFounded
<1>2. ASSUME NEW y \in S PROVE x <= y
  <2>1. ~ (y < x)
    BY <1>1, Zenon DEF OpToRel
  <2>. QED  BY <2>1
<1>. QED  BY <1>2

\* What holds at 0 and is handed on from i - 1 to i holds up to N.
LEMMA Upwards ==
  ASSUME NEW N \in Nat, NEW S, 0 \in S, \A i \in 1..N : i - 1 \in S => i \in S
  PROVE  \A i \in 0..N : i \in S
<1>. DEFINE Bad == {i \in 0..N : i \notin S}
<1>1. SUFFICES ASSUME Bad # {} PROVE FALSE
  BY DEF Bad
<1>2. Bad \in SUBSET Nat
  OBVIOUS
<1>. HIDE DEF Bad
<1>3. PICK n \in Bad : \A m \in Bad : n <= m
  BY <1>1, <1>2, SmallestNumber
<1>4. n \in 1..N /\ n - 1 \in 0..N /\ n \notin S
  BY <1>3 DEF Bad
<1>5. n - 1 \notin Bad
  BY <1>2, <1>3, <1>4
<1>. QED  BY <1>4, <1>5 DEF Bad

\* A function that begins with a value and takes a move at each number.
StepByStep(N, V, v0, move) ==
  \E f \in [0..N -> V] : f[0] = v0 /\ \A i \in 1..N : f[i] = move[<<i, f[i - 1]>>]

LEMMA Recursion ==
  ASSUME NEW N \in Nat, NEW V, NEW v0 \in V, NEW move \in [(1..N) \X V -> V]
  PROVE  StepByStep(N, V, v0, move)
<1>. DEFINE Upto(n) == \E f \in [0..n -> V] :
                         f[0] = v0 /\ \A i \in 1..n : f[i] = move[<<i, f[i - 1]>>]
            Good == {n \in 0..N : Upto(n)}
<1>1. 0 \in Good
  <2>1. /\ [i \in 0..0 |-> v0] \in [0..0 -> V]
        /\ [i \in 0..0 |-> v0][0] = v0
        /\ \A i \in 1..0 : [k \in 0..0 |-> v0][i] = move[<<i, [k \in 0..0 |-> v0][i - 1]>>]
    OBVIOUS
  <2>2. Upto(0)
    BY <2>1
  <2>. QED  BY <2>2
<1>2. ASSUME NEW n \in 1..N, n - 1 \in Good PROVE n \in Good
  <2>1. PICK f \in [0..(n - 1) -> V] :
          f[0] = v0 /\ \A i \in 1..(n - 1) : f[i] = move[<<i, f[i - 1]>>]
    BY <1>2
  <2>. DEFINE g == [i \in 0..n |-> IF i = n THEN move[<<n, f[n - 1]>>] ELSE f[i]]
  <2>2. f[n - 1] \in V /\ move[<<n, f[n - 1]>>] \in V
    OBVIOUS
  <2>3. g \in [0..n -> V] /\ g[0] = v0
    BY <2>1, <2>2
  <2>4. ASSUME NEW i \in 1..n PROVE g[i] = move[<<i, g[i - 1]>>]
    <3>1. i - 1 \in 0..n /\ i - 1 # n /\ g[i - 1] = f[i - 1]
      OBVIOUS
    <3>2. CASE i = n
      BY <3>1, <3>2
    <3>3. CASE i # n
      <4>1. i \in 1..(n - 1) /\ g[i] = f[i]
        BY <3>3
      <4>. QED  BY <2>1, <3>1, <4>1
    <3>. QED  BY <3>2, <3>3
  <2>. HIDE DEF g
  <2>5. Upto(n)
    BY <2>3, <2>4
  <2>. QED  BY <2>5
<1>. HIDE DEF Good
<1>3. \A n \in 0..N : n \in Good
  BY <1>1, <1>2, Upwards
<1>. QED  BY <1>3 DEF Good, StepByStep

-----------------------------------------------------------------------------
(* Sums over the rows of a ledger.                                          *)

\* A function on the subsets of S that adds one chosen element at a time.
Totals(w, S, h) ==
  h = [s \in SUBSET S |->
         IF s = {} THEN 0
         ELSE w[CHOOSE x \in s : TRUE] + h[s \ {CHOOSE x \in s : TRUE}]]

LEMMA SumForm ==
  ASSUME NEW w, NEW S, NEW h, Totals(w, S, h)
  PROVE  \E g : Totals(w, S, g) /\ Balance!SumFunctionOnSet(w, S) = g[S]
<1>. DEFINE rec(g) == [s \in SUBSET S |->
         IF s = {} THEN 0
         ELSE w[CHOOSE x \in s : TRUE] + g[s \ {CHOOSE x \in s : TRUE}]]
            G == CHOOSE g : g = rec(g)
<1>1. h = rec(h)
  BY DEF Totals
<1>2. G = rec(G)
  BY <1>1
<1>3. Balance!SumFunctionOnSet(w, S) = G[S]
  BY DEF Balance!SumFunctionOnSet, Balance!FoldFunctionOnSet, Balance!MapThenFoldSet
<1>. QED  BY <1>2, <1>3 DEF Totals

\* Two such functions agree on what both are defined on.
LEMMA TotalsAgree ==
  ASSUME NEW w, NEW S, NEW T, NEW g, NEW h, IsFiniteSet(S), Totals(w, S, g), Totals(w, T, h)
  PROVE  \A s \in SUBSET S : s \in SUBSET T => g[s] = h[s]
<1>. DEFINE N == Cardinality(S)
            Good == {k \in 0..N : \A s \in SUBSET S :
                       (s \in SUBSET T /\ Cardinality(s) = k) => g[s] = h[s]}
<1>0. N \in Nat /\ \A s \in SUBSET S : IsFiniteSet(s) /\ Cardinality(s) \in 0..N
  BY FS_Subset, FS_CardinalityType
<1>1. ASSUME NEW s \in SUBSET S, s \in SUBSET T, s = {} PROVE g[s] = h[s]
  <2>1. g[s] = 0 /\ h[s] = 0
    BY <1>1 DEF Totals
  <2>. QED  BY <2>1
<1>2. ASSUME NEW s \in SUBSET S, s \in SUBSET T, s # {},
             \A r \in SUBSET S : (r \in SUBSET T /\ Cardinality(r) = Cardinality(s) - 1)
                                   => g[r] = h[r]
      PROVE  g[s] = h[s]
  <2>. DEFINE x == CHOOSE y \in s : TRUE
  <2>1. x \in s
    BY <1>2
  <2>2. g[s] = w[x] + g[s \ {x}] /\ h[s] = w[x] + h[s \ {x}]
    BY <1>2 DEF Totals
  <2>. HIDE DEF x
  <2>3. Cardinality(s \ {x}) = Cardinality(s) - 1
    BY <1>0, <2>1, FS_RemoveElement
  <2>4. g[s \ {x}] = h[s \ {x}]
    BY <1>2, <2>3
  <2>. QED  BY <2>2, <2>4
<1>3. 0 \in Good
  <2>1. ASSUME NEW s \in SUBSET S, s \in SUBSET T, Cardinality(s) = 0 PROVE g[s] = h[s]
    <3>1. s = {}
      BY <1>0, <2>1, FS_EmptySet
    <3>. QED  BY <1>1, <2>1, <3>1
  <2>. QED  BY <1>0, <2>1
<1>4. ASSUME NEW k \in 1..N, k - 1 \in Good PROVE k \in Good
  <2>1. ASSUME NEW s \in SUBSET S, s \in SUBSET T, Cardinality(s) = k PROVE g[s] = h[s]
    <3>1. s # {}
      BY <2>1, FS_EmptySet
    <3>. QED  BY <1>2, <1>4, <2>1, <3>1
  <2>. QED  BY <2>1
<1>. HIDE DEF Good
<1>5. \A k \in 0..N : k \in Good
  BY <1>0, <1>3, <1>4, Upwards
<1>6. ASSUME NEW s \in SUBSET S, s \in SUBSET T PROVE g[s] = h[s]
  <2>1. Cardinality(s) \in Good
    BY <1>0, <1>5
  <2>. QED  BY <1>6, <2>1 DEF Good
<1>. QED  BY <1>6

\* There is one for every finite set of places of a column of integers.
LEMMA TotalsExist ==
  ASSUME NEW D, NEW w \in [D -> Int], NEW S \in SUBSET D, IsFiniteSet(S)
  PROVE  \E h \in [SUBSET S -> Int] : Totals(w, S, h)
<1>. DEFINE N == Cardinality(S) + 1
            V == [SUBSET S -> Int]
            pick(s) == CHOOSE y \in s : TRUE
            next(h) == [s \in SUBSET S |-> IF s = {} THEN 0 ELSE w[pick(s)] + h[s \ {pick(s)}]]
            zero == [s \in SUBSET S |-> 0]
            move == [z \in (1..N) \X V |-> next(z[2])]
<1>0. /\ Cardinality(S) \in Nat /\ N \in Nat
      /\ \A s \in SUBSET S : IsFiniteSet(s) /\ Cardinality(s) \in 0..(N - 1)
  <2>1. Cardinality(S) \in Nat
    BY FS_CardinalityType
  <2>2. \A s \in SUBSET S : IsFiniteSet(s) /\ Cardinality(s) \in 0..Cardinality(S)
    BY FS_Subset, FS_CardinalityType
  <2>. QED  BY <2>1, <2>2
<1>1. ASSUME NEW h \in V PROVE next(h) \in V
  <2>1. ASSUME NEW s \in SUBSET S, s # {} PROVE w[pick(s)] + h[s \ {pick(s)}] \in Int
    <3>1. pick(s) \in s
      BY <2>1
    <3>. HIDE DEF pick
    <3>2. w[pick(s)] \in Int /\ h[s \ {pick(s)}] \in Int
      BY <3>1
    <3>. QED  BY <3>2
  <2>. HIDE DEF pick
  <2>. QED  BY <2>1
<1>2. zero \in V
  OBVIOUS
<1>3. move \in [(1..N) \X V -> V]
  <2>. HIDE DEF next, V, N
  <2>. QED  BY <1>1
<1>4. PICK f \in [0..N -> V] :
        f[0] = zero /\ \A i \in 1..N : f[i] = move[<<i, f[i - 1]>>]
  <2>. HIDE DEF move, V, zero, N
  <2>1. StepByStep(N, V, zero, move)
    BY <1>0, <1>2, <1>3, Recursion
  <2>. QED  BY <2>1 DEF StepByStep
<1>5. ASSUME NEW i \in 1..N PROVE f[i] = next(f[i - 1])
  <2>. HIDE DEF next, V
  <2>1. i - 1 \in 0..N /\ f[i - 1] \in V
    BY <1>0, <1>4
  <2>. QED  BY <1>4, <2>1
<1>. HIDE DEF move, zero
<1>. DEFINE Good == {k \in 0..(N - 1) : \A s \in SUBSET S :
                       Cardinality(s) <= k => f[k + 1][s] = f[k][s]}
<1>6. 0 \in Good
  <2>1. ASSUME NEW s \in SUBSET S, Cardinality(s) <= 0 PROVE f[1][s] = f[0][s]
    <3>0. 1 \in 1..N /\ 1 - 1 = 0 /\ Cardinality(s) = 0
      BY <1>0, <2>1
    <3>1. s = {}
      BY <1>0, <3>0, FS_EmptySet
    <3>2. f[1][s] = 0
      BY <1>5, <3>0, <3>1
    <3>3. f[0][s] = 0
      BY <1>4 DEF zero
    <3>. QED  BY <3>2, <3>3
  <2>. QED  BY <1>0, <2>1
<1>7. ASSUME NEW k \in 1..(N - 1), k - 1 \in Good PROVE k \in Good
  <2>0. k \in 1..N /\ k + 1 \in 1..N /\ (k + 1) - 1 = k /\ (k - 1) + 1 = k
    BY <1>0
  <2>1. f[k] = next(f[k - 1]) /\ f[k + 1] = next(f[k])
    <3>. HIDE DEF next, V, N
    <3>. QED  BY <1>5, <2>0
  <2>2. ASSUME NEW s \in SUBSET S, Cardinality(s) <= k PROVE f[k + 1][s] = f[k][s]
    <3>1. CASE s = {}
      BY <2>1, <3>1
    <3>2. CASE s # {}
      <4>1. pick(s) \in s
        BY <3>2
      <4>2. f[k + 1][s] = w[pick(s)] + f[k][s \ {pick(s)}] /\ f[k][s] = w[pick(s)] + f[k - 1][s \ {pick(s)}]
        BY <2>1, <3>2
      <4>. HIDE DEF pick
      <4>3. Cardinality(s \ {pick(s)}) = Cardinality(s) - 1
        BY <1>0, <4>1, FS_RemoveElement
      <4>4. Cardinality(s \ {pick(s)}) <= k - 1
        BY <1>0, <2>2, <4>3
      <4>5. f[k][s \ {pick(s)}] = f[k - 1][s \ {pick(s)}]
        BY <1>7, <2>0, <4>4
      <4>. QED  BY <4>2, <4>5
    <3>. QED  BY <3>1, <3>2
  <2>. QED  BY <2>2
<1>8. N - 1 \in Good
  <2>. HIDE DEF Good, N
  <2>1. N - 1 \in Nat
    BY <1>0 DEF N
  <2>2. \A k \in 0..(N - 1) : k \in Good
    BY <1>6, <1>7, <2>1, Upwards
  <2>. QED  BY <2>1, <2>2
<1>9. N \in 1..N /\ (N - 1) + 1 = N /\ N - 1 \in 0..N
  BY <1>0
<1>10. f[N] = f[N - 1]
  <2>1. f[N] \in V /\ f[N - 1] \in V
    <3>. HIDE DEF V, N, next
    <3>. QED  BY <1>4, <1>9
  <2>2. \A s \in SUBSET S : f[N][s] = f[N - 1][s]
    <3>. HIDE DEF N
    <3>. QED  BY <1>0, <1>8, <1>9
  <2>. QED  BY <2>1, <2>2
<1>11. f[N] = next(f[N])
  <2>. HIDE DEF V, N, next
  <2>. QED  BY <1>5, <1>9, <1>10
<1>12. f[N] \in V
  <2>. HIDE DEF V, N, next
  <2>. QED  BY <1>4, <1>9
<1>. HIDE DEF V, N
<1>13. Totals(w, S, f[N])
  BY <1>11 DEF Totals
<1>. QED  BY <1>12, <1>13 DEF V

LEMMA SumEmpty ==
  ASSUME NEW w PROVE Balance!SumFunctionOnSet(w, {}) = 0
<1>. DEFINE h == [s \in SUBSET {} |-> 0]
<1>1. Totals(w, {}, h)
  BY DEF Totals
<1>2. PICK g : Totals(w, {}, g) /\ Balance!SumFunctionOnSet(w, {}) = g[{}]
  BY <1>1, SumForm
<1>. QED  BY <1>2 DEF Totals

Summed(w, S) ==
  \E h \in [SUBSET S -> Int] :
    Totals(w, S, h) /\ \A s \in SUBSET S : Balance!SumFunctionOnSet(w, s) = h[s]

Removes(w, S, h) == \A s \in SUBSET S : \A x \in s : h[s] = w[x] + h[s \ {x}]

\* What SumFunctionOnSet is on every part of a set of places.
LEMMA SumIs ==
  ASSUME NEW D, NEW w \in [D -> Int], NEW S \in SUBSET D, IsFiniteSet(S)
  PROVE  Summed(w, S)
<1>1. PICK h \in [SUBSET S -> Int] : Totals(w, S, h)
  BY TotalsExist
<1>2. ASSUME NEW s \in SUBSET S PROVE Balance!SumFunctionOnSet(w, s) = h[s]
  <2>1. IsFiniteSet(s) /\ s \in SUBSET D
    BY FS_Subset
  <2>. HIDE DEF Totals
  <2>2. PICK k \in [SUBSET s -> Int] : Totals(w, s, k)
    BY <2>1, TotalsExist
  <2>3. PICK g : Totals(w, s, g) /\ Balance!SumFunctionOnSet(w, s) = g[s]
    BY <2>2, SumForm
  <2>4. g[s] = h[s]
    BY <1>1, <2>1, <2>3, TotalsAgree
  <2>. QED  BY <2>3, <2>4
<1>. HIDE DEF Totals
<1>. QED  BY <1>1, <1>2 DEF Summed

\* Every element of a set may be the one that is added last.
LEMMA TotalsRemove ==
  ASSUME NEW D, NEW w \in [D -> Int], NEW Z \in SUBSET D, IsFiniteSet(Z),
         NEW h \in [SUBSET Z -> Int], Totals(w, Z, h)
  PROVE  Removes(w, Z, h)
<1>. DEFINE N == Cardinality(Z)
            Good == {k \in 0..N : \A s \in SUBSET Z : \A x \in s :
                       Cardinality(s) = k => h[s] = w[x] + h[s \ {x}]}
<1>0. N \in Nat /\ \A s \in SUBSET Z : IsFiniteSet(s) /\ Cardinality(s) \in 0..N
  BY FS_Subset, FS_CardinalityType
<1>. HIDE DEF N
<1>1. ASSUME NEW s \in SUBSET Z, NEW x \in s,
             \A r \in SUBSET Z : \A y \in r : Cardinality(r) = Cardinality(s) - 1
                                   => h[r] = w[y] + h[r \ {y}]
      PROVE  h[s] = w[x] + h[s \ {x}]
  <2>. DEFINE y == CHOOSE z \in s : TRUE
  <2>1. y \in s
    OBVIOUS
  <2>2. h[s] = w[y] + h[s \ {y}]
    BY <1>1 DEF Totals
  <2>. HIDE DEF y
  <2>3. CASE y = x
    BY <2>2, <2>3
  <2>4. CASE y # x
    <3>. DEFINE r == s \ {y}
                q == s \ {x}
    <3>1. /\ r \in SUBSET Z /\ q \in SUBSET Z /\ x \in r /\ y \in q
          /\ r \ {x} = q \ {y} /\ r \ {x} \in SUBSET Z
      BY <2>1, <2>4
    <3>2. Cardinality(r) = Cardinality(s) - 1 /\ Cardinality(q) = Cardinality(s) - 1
      BY <1>0, <2>1, FS_RemoveElement
    <3>3. h[r] = w[x] + h[r \ {x}] /\ h[q] = w[y] + h[q \ {y}]
      <4>. HIDE DEF r, q
      <4>. QED  BY <1>1, <3>1, <3>2
    <3>4. h[s] = w[y] + h[r]
      BY <2>2
    <3>5. w[x] \in Int /\ w[y] \in Int /\ h[r \ {x}] \in Int
      BY <2>1, <3>1
    <3>. HIDE DEF r, q
    <3>6. h[s] = w[x] + h[q]
      <4>1. h[q] = w[y] + h[r \ {x}]
        BY <3>1, <3>3, Zenon
      <4>. DEFINE a == w[x]
                  b == w[y]
                  c == h[r \ {x}]
      <4>2. a \in Int /\ b \in Int /\ c \in Int /\ h[r] = a + c /\ h[s] = b + h[r] /\ h[q] = b + c
        BY <3>3, <3>4, <3>5, <4>1
      <4>. HIDE DEF a, b, c
      <4>3. h[s] = a + h[q]
        BY <4>2
      <4>. QED  BY <4>3 DEF a
    <3>. QED  BY <3>6 DEF q
  <2>. QED  BY <2>3, <2>4
<1>2. 0 \in Good
  <2>1. ASSUME NEW s \in SUBSET Z, NEW x \in s, Cardinality(s) = 0 PROVE FALSE
    BY <1>0, <2>1, FS_EmptySet
  <2>. QED  BY <1>0, <2>1
<1>3. ASSUME NEW k \in 1..N, k - 1 \in Good PROVE k \in Good
  <2>1. ASSUME NEW s \in SUBSET Z, NEW x \in s, Cardinality(s) = k
        PROVE  h[s] = w[x] + h[s \ {x}]
    BY <1>1, <1>3, <2>1
  <2>. QED  BY <2>1
<1>. HIDE DEF Good
<1>4. \A k \in 0..N : k \in Good
  BY <1>0, <1>2, <1>3, Upwards
<1>5. ASSUME NEW s \in SUBSET Z, NEW x \in s PROVE h[s] = w[x] + h[s \ {x}]
  <2>1. Cardinality(s) \in Good
    BY <1>0, <1>4
  <2>. QED  BY <2>1 DEF Good
<1>. QED  BY <1>5 DEF Removes

TakesUp(w, S, x) == Balance!SumFunctionOnSet(w, S \cup {x}) = w[x] + Balance!SumFunctionOnSet(w, S)

\* A sum takes up another place by its value.
LEMMA SumAdd ==
  ASSUME NEW D, NEW w \in [D -> Int], NEW S \in SUBSET D, IsFiniteSet(S), NEW x \in D, x \notin S
  PROVE  TakesUp(w, S, x)
<1>. DEFINE Z == S \cup {x}
<1>0. IsFiniteSet(Z) /\ Z \in SUBSET D /\ S \in SUBSET Z /\ x \in Z /\ Z \ {x} = S
  BY FS_AddElement
<1>. HIDE DEF Z
<1>1. PICK h \in [SUBSET Z -> Int] :
        Totals(w, Z, h) /\ \A s \in SUBSET Z : Balance!SumFunctionOnSet(w, s) = h[s]
  <2>1. Summed(w, Z)
    BY <1>0, SumIs
  <2>. QED  BY <2>1 DEF Summed
<1>2. h[Z] = w[x] + h[S]
  <2>1. Removes(w, Z, h)
    BY <1>0, <1>1, TotalsRemove
  <2>. QED  BY <1>0, <2>1 DEF Removes
<1>. QED  BY <1>0, <1>1, <1>2 DEF Z, TakesUp

\* The same for a column of a ledger.
Column(n) == [1..n -> Int]

LEMMA PartsFinite ==
  ASSUME NEW n \in Nat, NEW S \in SUBSET (1..n) PROVE IsFiniteSet(S)
<1>1. IsFiniteSet(1..n)
  BY FS_Interval
<1>. QED  BY <1>1, FS_Subset

LEMMA SumOneMore ==
  ASSUME NEW n \in Nat, NEW w \in Column(n), NEW S \in SUBSET (1..n), NEW x \in 1..n, x \notin S
  PROVE  Balance!SumFunctionOnSet(w, S \cup {x}) = w[x] + Balance!SumFunctionOnSet(w, S)
<1>1. IsFiniteSet(S)
  BY PartsFinite
<1>. DEFINE D == 1..n
<1>2. w \in [D -> Int] /\ S \in SUBSET D /\ x \in D
  BY DEF Column
<1>. HIDE DEF D
<1>3. TakesUp(w, S, x)
  BY <1>1, <1>2, SumAdd
<1>. QED  BY <1>3 DEF TakesUp

LEMMA SumInt ==
  ASSUME NEW n \in Nat, NEW w \in Column(n), NEW S \in SUBSET (1..n)
  PROVE  Balance!SumFunctionOnSet(w, S) \in Int
<1>1. IsFiniteSet(S)
  BY PartsFinite
<1>. DEFINE D == 1..n
<1>2. w \in [D -> Int] /\ S \in SUBSET D
  BY DEF Column
<1>. HIDE DEF D
<1>3. Summed(w, S)
  BY <1>1, <1>2, SumIs
<1>4. PICK h \in [SUBSET S -> Int] : \A s \in SUBSET S : Balance!SumFunctionOnSet(w, s) = h[s]
  BY <1>3, Zenon DEF Summed
<1>5. S \in SUBSET S
  OBVIOUS
<1>6. Balance!SumFunctionOnSet(w, S) = h[S] /\ h[S] \in Int
  BY <1>4, <1>5
<1>. QED  BY <1>6

\* R holds the places of S, d further down, and w has there what v has.
Moved(v, w, R, S, m, d) ==
  /\ \A j \in 1..m : j \in R <=> j + d \in S
  /\ \A i \in S : i - d \in 1..m
  /\ \A j \in R : w[j] = v[j + d]

\* A sum does not depend on where its rows are.
LEMMA SumMoved ==
  ASSUME NEW n \in Nat, NEW m \in Nat, NEW d \in Nat,
         NEW v \in Column(n), NEW w \in Column(m),
         NEW S \in SUBSET (1..n), NEW R \in SUBSET (1..m), Moved(v, w, R, S, m, d)
  PROVE  Balance!SumFunctionOnSet(w, R) = Balance!SumFunctionOnSet(v, S)
<1>. DEFINE Rk(k) == R \cap (1..k)
            Sk(k) == S \cap ((d + 1)..(d + k))
            Good == {k \in 0..m : Balance!SumFunctionOnSet(w, Rk(k)) = Balance!SumFunctionOnSet(v, Sk(k))}
<1>3. 0 \in Good
  <2>1. Rk(0) = {} /\ Sk(0) = {}
    OBVIOUS
  <2>. HIDE DEF Rk, Sk
  <2>2. Balance!SumFunctionOnSet(w, Rk(0)) = 0 /\ Balance!SumFunctionOnSet(v, Sk(0)) = 0
    BY <2>1, SumEmpty
  <2>. QED  BY <2>2
<1>4. ASSUME NEW k \in 1..m, k - 1 \in Good PROVE k \in Good
  <2>1. Balance!SumFunctionOnSet(w, Rk(k - 1)) = Balance!SumFunctionOnSet(v, Sk(k - 1))
    BY <1>4
  <2>2. CASE k \in R
    <3>1. /\ Rk(k) = Rk(k - 1) \cup {k} /\ k \notin Rk(k - 1)
          /\ Rk(k - 1) \in SUBSET (1..m)
      BY <2>2
    <3>2. d + k \in S /\ w[k] = v[d + k]
      <4>1. k + d = d + k
        OBVIOUS
      <4>. QED  BY <2>2, <4>1 DEF Moved
    <3>3. /\ Sk(k) = Sk(k - 1) \cup {d + k} /\ d + k \notin Sk(k - 1)
          /\ Sk(k - 1) \in SUBSET (1..n) /\ d + k \in 1..n
      BY <3>2
    <3>. DEFINE A == Rk(k - 1)
                B == Sk(k - 1)
                b == d + k
    <3>. HIDE DEF Rk, Sk
    <3>4. Balance!SumFunctionOnSet(w, Rk(k)) = w[k] + Balance!SumFunctionOnSet(w, Rk(k - 1))
      <4>1. Rk(k) = A \cup {k} /\ k \notin A /\ A \in SUBSET (1..m)
        BY <3>1
      <4>. HIDE DEF A
      <4>2. Balance!SumFunctionOnSet(w, A \cup {k}) = w[k] + Balance!SumFunctionOnSet(w, A)
        BY <4>1, SumOneMore
      <4>. QED  BY <4>1, <4>2 DEF A
    <3>5. Balance!SumFunctionOnSet(v, Sk(k)) = v[d + k] + Balance!SumFunctionOnSet(v, Sk(k - 1))
      <4>1. Sk(k) = B \cup {b} /\ b \notin B /\ B \in SUBSET (1..n) /\ b \in 1..n
        BY <3>3
      <4>. HIDE DEF B, b
      <4>2. Balance!SumFunctionOnSet(v, B \cup {b}) = v[b] + Balance!SumFunctionOnSet(v, B)
        BY <4>1, SumOneMore
      <4>. QED  BY <4>1, <4>2 DEF B, b
    <3>6. Balance!SumFunctionOnSet(w, Rk(k)) = Balance!SumFunctionOnSet(v, Sk(k))
      BY <2>1, <3>2, <3>4, <3>5, Zenon
    <3>. QED  BY <3>6
  <2>3. CASE k \notin R
    <3>1. Rk(k) = Rk(k - 1)
      BY <2>3
    <3>2. k + d \notin S /\ k + d = d + k
      BY <2>3 DEF Moved
    <3>3. Sk(k) = Sk(k - 1)
      BY <3>2
    <3>. HIDE DEF Rk, Sk
    <3>. QED  BY <2>1, <3>1, <3>3
  <2>. QED  BY <2>2, <2>3
<1>. HIDE DEF Good
<1>5. \A k \in 0..m : k \in Good
  BY <1>3, <1>4, Upwards
<1>6. Balance!SumFunctionOnSet(w, Rk(m)) = Balance!SumFunctionOnSet(v, Sk(m))
  BY <1>5 DEF Good
<1>7. Rk(m) = R /\ Sk(m) = S
  <2>1. ASSUME NEW i \in S PROVE i \in (d + 1)..(d + m)
    BY DEF Moved
  <2>. QED  BY <2>1
<1>. QED  BY <1>6, <1>7

\* It does not depend on rows that it is not over.
LEMMA SumAgree ==
  ASSUME NEW n \in Nat, NEW m \in Nat, NEW v \in Column(n), NEW w \in Column(m),
         NEW S \in SUBSET (1..n), S \in SUBSET (1..m), \A i \in S : w[i] = v[i]
  PROVE  Balance!SumFunctionOnSet(w, S) = Balance!SumFunctionOnSet(v, S)
<1>1. Moved(v, w, S, S, m, 0)
  BY DEF Moved
<1>. QED  BY <1>1, SumMoved

LEMMA MaxOfPlaces ==
  ASSUME NEW n \in Nat, NEW S \in SUBSET (1..n), S # {}
  PROVE  Balance!Max(S) \in S /\ \A x \in S : x <= Balance!Max(S)
<1>. DEFINE T == {k \in 0..n : n - k \in S}
<1>1. T \in SUBSET Nat
  OBVIOUS
<1>2. T # {}
  <2>1. PICK x \in S : TRUE
    OBVIOUS
  <2>2. n - x \in 0..n /\ n - (n - x) = x
    OBVIOUS
  <2>3. n - x \in T
    BY <2>1, <2>2
  <2>. QED  BY <2>3
<1>. HIDE DEF T
<1>3. PICK k \in T : \A m \in T : k <= m
  BY <1>1, <1>2, SmallestNumber
<1>4. n - k \in S /\ k \in 0..n
  BY <1>3 DEF T
<1>5. ASSUME NEW x \in S PROVE n - k >= x
  <2>1. n - x \in T
    <3>1. n - x \in 0..n /\ n - (n - x) = x
      OBVIOUS
    <3>. QED  BY <3>1 DEF T
  <2>2. k <= n - x
    BY <1>3, <2>1
  <2>. QED  BY <1>4, <2>2
<1>6. \E m \in S : \A x \in S : m >= x
  BY <1>4, <1>5
<1>7. Balance!Max(S) \in S /\ \A x \in S : Balance!Max(S) >= x
  BY <1>6 DEF Balance!Max
<1>. QED  BY <1>7

LEMMA MinOfPlaces ==
  ASSUME NEW n \in Nat, NEW S \in SUBSET (1..n), S # {}
  PROVE  Balance!Min(S) \in S /\ \A x \in S : Balance!Min(S) <= x
<1>1. S \in SUBSET Nat
  OBVIOUS
<1>2. \E m \in S : \A x \in S : m <= x
  BY <1>1, SmallestNumber
<1>. QED  BY <1>2 DEF Balance!Min

\* A largest place is the only one.
LEMMA LedgerMaxIs ==
  ASSUME NEW n \in Nat, NEW S \in SUBSET (1..n), NEW m \in S, \A x \in S : x <= m
  PROVE  Balance!Max(S) = m
<1>1. Balance!Max(S) \in S /\ \A x \in S : x <= Balance!Max(S)
  BY MaxOfPlaces
<1>2. Balance!Max(S) <= m /\ m <= Balance!Max(S) /\ Balance!Max(S) \in 1..n /\ m \in 1..n
  BY <1>1
<1>. HIDE DEF Balance!Max
<1>. QED  BY <1>2

LEMMA MinIs ==
  ASSUME NEW n \in Nat, NEW S \in SUBSET (1..n), NEW m \in S, \A x \in S : m <= x
  PROVE  Balance!Min(S) = m
<1>1. Balance!Min(S) \in S /\ \A x \in S : Balance!Min(S) <= x
  BY MinOfPlaces
<1>2. Balance!Min(S) <= m /\ m <= Balance!Min(S) /\ Balance!Min(S) \in 1..n /\ m \in 1..n
  BY <1>1
<1>. HIDE DEF Balance!Min
<1>. QED  BY <1>2

-----------------------------------------------------------------------------
(* What the ledger's changes keep of it.                                    *)

LEMMA RowsForm ==
  ASSUME NEW rows \in Seq(Balance!Row)
  PROVE  /\ Len(rows) \in Nat /\ DOMAIN rows = 1..Len(rows)
         /\ \A i \in DOMAIN rows : rows[i] \in Balance!Row
         /\ \A p : Balance!Indices(rows, p) \in SUBSET (1..Len(rows))
BY DEF Balance!Indices

LEMMA AppendForm ==
  ASSUME NEW rows \in Seq(Balance!Row), NEW r \in Balance!Row
  PROVE  /\ Append(rows, r) \in Seq(Balance!Row) /\ Len(Append(rows, r)) = Len(rows) + 1
         /\ DOMAIN Append(rows, r) = 1..(Len(rows) + 1)
         /\ \A i \in 1..Len(rows) : Append(rows, r)[i] = rows[i]
         /\ Append(rows, r)[Len(rows) + 1] = r
<1>1. /\ Append(rows, r) \in Seq(Balance!Row) /\ Len(Append(rows, r)) = Len(rows) + 1
      /\ \A i \in 1..Len(rows) : Append(rows, r)[i] = rows[i]
      /\ Append(rows, r)[Len(rows) + 1] = r
  BY AppendProperties
<1>. QED  BY <1>1, LenProperties

LEMMA TailForm ==
  ASSUME NEW rows \in Seq(Balance!Row), rows # <<>>
  PROVE  /\ Tail(rows) \in Seq(Balance!Row) /\ Len(rows) >= 1 /\ Len(Tail(rows)) = Len(rows) - 1
         /\ DOMAIN Tail(rows) = 1..(Len(rows) - 1)
         /\ \A i \in 1..(Len(rows) - 1) : Tail(rows)[i] = rows[i + 1]
         /\ Head(rows) = rows[1]
<1>1. /\ Tail(rows) \in Seq(Balance!Row) /\ Len(Tail(rows)) = Len(rows) - 1
      /\ \A i \in 1..Len(Tail(rows)) : Tail(rows)[i] = rows[i + 1]
      /\ Head(rows) = rows[1]
  BY HeadTailProperties
<1>2. Len(rows) \in Nat /\ Len(rows) # 0
  BY EmptySeq, LenProperties
<1>. QED  BY <1>1, <1>2, LenProperties

\* The broker marks a deal canceled.
Marked(r) == [r EXCEPT !.kind = "canceled", !.amount = 0, !.cost = 0]

LEMMA MarkedIs ==
  ASSUME NEW r \in Balance!Row
  PROVE  /\ Marked(r) \in Balance!Row /\ Marked(r).kind = "canceled"
         /\ Marked(r).amount = 0 /\ Marked(r).cost = 0
<1>. DEFINE a == [r EXCEPT !.kind = "canceled"]
            b == [a EXCEPT !.amount = 0]
            c == [b EXCEPT !.cost = 0]
<1>1. a \in Balance!Row
  <2>1. "canceled" \in Balance!Kind
    BY DEF Balance!Kind
  <2>. QED  BY <2>1 DEF Balance!Row
<1>2. b \in Balance!Row
  <2>. HIDE DEF a
  <2>. QED  BY <1>1 DEF Balance!Row
<1>3. c \in Balance!Row
  <2>. HIDE DEF b
  <2>. QED  BY <1>2 DEF Balance!Row
<1>4. Marked(r) = c
  BY DEF Marked
<1>5. Marked(r).kind = "canceled" /\ Marked(r).amount = 0 /\ Marked(r).cost = 0
  BY DEF Balance!Row, Marked
<1>. HIDE DEF c
<1>. QED  BY <1>3, <1>4, <1>5

LEMMA MarkForm ==
  ASSUME NEW rows \in Seq(Balance!Row), NEW k \in DOMAIN rows
  PROVE  LET marked == [rows EXCEPT ![k] = Marked(rows[k])]
         IN  /\ marked \in Seq(Balance!Row) /\ Len(marked) = Len(rows) /\ DOMAIN marked = 1..Len(rows)
             /\ \A i \in DOMAIN rows : i # k => marked[i] = rows[i]
             /\ marked[k] = Marked(rows[k])
             /\ Marked(rows[k]).kind = "canceled"
<1>. DEFINE marked == [rows EXCEPT ![k] = Marked(rows[k])]
<1>1. Len(rows) \in Nat /\ DOMAIN rows = 1..Len(rows) /\ \A i \in DOMAIN rows : rows[i] \in Balance!Row
  BY RowsForm
<1>2. Marked(rows[k]) \in Balance!Row /\ Marked(rows[k]).kind = "canceled"
  <2>1. rows[k] \in Balance!Row
    BY <1>1
  <2>. QED  BY <2>1, MarkedIs
<1>3. marked \in Seq(Balance!Row) /\ Len(marked) = Len(rows)
  <2>. HIDE DEF Balance!Row
  <2>. QED  BY <1>1, <1>2, ExceptSeq
<1>4. marked[k] = Marked(rows[k]) /\ \A i \in DOMAIN rows : i # k => marked[i] = rows[i]
  OBVIOUS
<1>5. DOMAIN marked = 1..Len(rows)
  BY <1>1
<1>. HIDE DEF marked
<1>6. /\ marked \in Seq(Balance!Row) /\ Len(marked) = Len(rows) /\ DOMAIN marked = 1..Len(rows)
      /\ \A i \in DOMAIN rows : i # k => marked[i] = rows[i]
      /\ marked[k] = Marked(rows[k]) /\ Marked(rows[k]).kind = "canceled"
  BY <1>2, <1>3, <1>4, <1>5
<1>. QED  BY <1>6 DEF marked

\* Every deal of q is where it was, d further down.
Keeps(rows, kept2, q, d) ==
  /\ \A j \in Balance!Indices(kept2, q) : j + d \in Balance!Indices(rows, q) /\ kept2[j] = rows[j + d]
  /\ \A i \in Balance!Indices(rows, q) : i - d \in Balance!Indices(kept2, q)

LEMMA AppendKeeps ==
  ASSUME NEW rows \in Seq(Balance!Row), NEW r \in Balance!Row, NEW q, ~(Balance!IsTrade(r) /\ r.pos = q)
  PROVE  /\ Keeps(rows, Append(rows, r), q, 0) /\ Balance!Indices(Append(rows, r), q) = Balance!Indices(rows, q)
<1>1. Len(rows) \in Nat /\ DOMAIN rows = 1..Len(rows) /\ Balance!Indices(rows, q) \in SUBSET (1..Len(rows))
  BY RowsForm
<1>2. Balance!Indices(Append(rows, r), q) = Balance!Indices(rows, q)
  BY <1>1, AppendForm DEF Balance!Indices
<1>3. \A j \in Balance!Indices(rows, q) : Append(rows, r)[j] = rows[j] /\ j + 0 = j /\ j - 0 = j
  BY <1>1, AppendForm
<1>. QED  BY <1>2, <1>3 DEF Keeps

LEMMA AppendOwn ==
  ASSUME NEW rows \in Seq(Balance!Row), NEW r \in Balance!Row, NEW q, Balance!IsTrade(r), r.pos = q
  PROVE  Balance!Indices(Append(rows, r), q) = Balance!Indices(rows, q) \cup {Len(rows) + 1}
<1>1. Len(rows) \in Nat /\ DOMAIN rows = 1..Len(rows)
  BY RowsForm
<1>. QED  BY <1>1, AppendForm DEF Balance!Indices

LEMMA TailKeeps ==
  ASSUME NEW rows \in Seq(Balance!Row), rows # <<>>, NEW q, Head(rows).pos # q
  PROVE  Keeps(rows, Tail(rows), q, 1)
<1>1. Len(rows) \in Nat /\ DOMAIN rows = 1..Len(rows) /\ Balance!Indices(rows, q) \in SUBSET (1..Len(rows))
  BY RowsForm
<1>2. /\ DOMAIN Tail(rows) = 1..(Len(rows) - 1) /\ rows[1].pos # q
      /\ \A i \in 1..(Len(rows) - 1) : Tail(rows)[i] = rows[i + 1]
  BY TailForm
<1>3. ASSUME NEW j \in Balance!Indices(Tail(rows), q)
      PROVE  j + 1 \in Balance!Indices(rows, q) /\ Tail(rows)[j] = rows[j + 1]
  BY <1>1, <1>2 DEF Balance!Indices
<1>4. ASSUME NEW i \in Balance!Indices(rows, q) PROVE i - 1 \in Balance!Indices(Tail(rows), q)
  <2>1. i \in 1..Len(rows) /\ i # 1
    BY <1>1, <1>2 DEF Balance!Indices
  <2>2. i - 1 \in 1..(Len(rows) - 1) /\ (i - 1) + 1 = i
    BY <1>1, <2>1
  <2>. QED  BY <1>2, <2>2 DEF Balance!Indices
<1>. QED  BY <1>3, <1>4 DEF Keeps

LEMMA MarkKeeps ==
  ASSUME NEW rows \in Seq(Balance!Row), NEW k \in DOMAIN rows, NEW q, rows[k].pos # q
  PROVE  /\ Keeps(rows, [rows EXCEPT ![k] = Marked(rows[k])], q, 0)
         /\ Balance!Indices([rows EXCEPT ![k] = Marked(rows[k])], q) = Balance!Indices(rows, q)
<1>. DEFINE marked == [rows EXCEPT ![k] = Marked(rows[k])]
<1>1. Len(rows) \in Nat /\ DOMAIN rows = 1..Len(rows) /\ Balance!Indices(rows, q) \in SUBSET (1..Len(rows))
  BY RowsForm
<1>2. /\ DOMAIN marked = 1..Len(rows) /\ \A i \in DOMAIN rows : i # k => marked[i] = rows[i]
      /\ marked[k].kind = "canceled"
  BY MarkForm
<1>. HIDE DEF marked
<1>3. k \notin Balance!Indices(rows, q) /\ k \notin Balance!Indices(marked, q)
  BY <1>2 DEF Balance!Indices, Balance!IsTrade
<1>4. Balance!Indices(marked, q) = Balance!Indices(rows, q)
  BY <1>1, <1>2, <1>3 DEF Balance!Indices
<1>5. \A j \in Balance!Indices(rows, q) : marked[j] = rows[j] /\ j + 0 = j /\ j - 0 = j
  BY <1>1, <1>2, <1>3
<1>6. Keeps(rows, marked, q, 0)
  BY <1>4, <1>5 DEF Keeps
<1>. QED  BY <1>4, <1>6 DEF marked

LEMMA MarkOwn ==
  ASSUME NEW rows \in Seq(Balance!Row), NEW k \in DOMAIN rows, NEW q, rows[k].pos = q
  PROVE  Balance!Indices([rows EXCEPT ![k] = Marked(rows[k])], q) = Balance!Indices(rows, q) \ {k}
<1>. DEFINE marked == [rows EXCEPT ![k] = Marked(rows[k])]
<1>1. Len(rows) \in Nat /\ DOMAIN rows = 1..Len(rows)
  BY RowsForm
<1>2. /\ DOMAIN marked = 1..Len(rows) /\ \A i \in DOMAIN rows : i # k => marked[i] = rows[i]
      /\ marked[k].kind = "canceled"
  BY MarkForm
<1>. HIDE DEF marked
<1>3. Balance!Indices(marked, q) = Balance!Indices(rows, q) \ {k}
  BY <1>1, <1>2 DEF Balance!Indices, Balance!IsTrade
<1>. QED  BY <1>3 DEF marked

LEMMA EarlierForm ==
  ASSUME NEW rows \in Seq(Balance!Row), NEW p, NEW i
  PROVE  /\ Balance!Earlier(rows, p, i) \in SUBSET Balance!Indices(rows, p)
         /\ Balance!Earlier(rows, p, i) \in SUBSET (1..Len(rows))
         /\ Balance!Earlier(rows, p, Len(rows) + 1) = Balance!Indices(rows, p)
<1>1. Len(rows) \in Nat /\ Balance!Indices(rows, p) \in SUBSET (1..Len(rows))
  BY RowsForm
<1>. QED  BY <1>1 DEF Balance!Earlier

\* The places of own2 are those of own, d further down.
LEMMA LeftMoved ==
  ASSUME NEW rows \in Seq(Balance!Row), NEW rows2 \in Seq(Balance!Row), NEW d \in Nat,
         NEW own \in SUBSET (1..Len(rows)), NEW own2 \in SUBSET (1..Len(rows2)),
         \A j \in own2 : j + d \in own /\ rows2[j] = rows[j + d],
         \A i \in own : i - d \in own2
  PROVE  Balance!LeftBy(rows2, own2) = Balance!LeftBy(rows, own)
<1>0. Len(rows) \in Nat /\ Len(rows2) \in Nat
  BY LenProperties
<1>1. CASE own2 = {}
  <2>1. own = {}
    BY <1>1
  <2>. QED  BY <1>1, <2>1 DEF Balance!LeftBy
<1>2. CASE own2 # {}
  <2>1. PICK m \in own2 : \A j \in own2 : j <= m
    BY <1>0, <1>2, MaxOfPlaces
  <2>2. Balance!Max(own2) = m
    BY <1>0, <2>1, LedgerMaxIs
  <2>3. m + d \in own
    OBVIOUS
  <2>4. ASSUME NEW i \in own PROVE i <= m + d
    <3>1. i - d \in own2
      OBVIOUS
    <3>2. i - d <= m
      BY <2>1, <3>1
    <3>. QED  BY <3>2
  <2>5. Balance!Max(own) = m + d
    BY <1>0, <2>3, <2>4, LedgerMaxIs
  <2>6. rows2[m] = rows[m + d]
    OBVIOUS
  <2>. QED  BY <1>2, <2>2, <2>3, <2>5, <2>6 DEF Balance!LeftBy
<1>. QED  BY <1>1, <1>2

\* What a position held at a row does not depend on the deals of the others.
LEMMA WasMoved ==
  ASSUME NEW rows \in Seq(Balance!Row), NEW rows2 \in Seq(Balance!Row), NEW d \in Nat, NEW q,
         Keeps(rows, rows2, q, d)
  PROVE  /\ \A i \in Balance!Indices(rows2, q) :
              /\ Balance!Was(rows2, q, i) = Balance!Was(rows, q, i + d)
              /\ Balance!Earlier(rows2, q, i) = {} <=> Balance!Earlier(rows, q, i + d) = {}
         /\ Balance!Was(rows2, q, Len(rows2) + 1) = Balance!Was(rows, q, Len(rows) + 1)
<1>1. /\ Len(rows) \in Nat /\ Balance!Indices(rows, q) \in SUBSET (1..Len(rows))
      /\ Len(rows2) \in Nat /\ Balance!Indices(rows2, q) \in SUBSET (1..Len(rows2))
  BY RowsForm
<1>2. ASSUME NEW i \in Balance!Indices(rows2, q)
      PROVE  /\ Balance!Was(rows2, q, i) = Balance!Was(rows, q, i + d)
             /\ Balance!Earlier(rows2, q, i) = {} <=> Balance!Earlier(rows, q, i + d) = {}
  <2>. DEFINE own2 == Balance!Earlier(rows2, q, i)
              own == Balance!Earlier(rows, q, i + d)
  <2>1. own2 \in SUBSET (1..Len(rows2)) /\ own \in SUBSET (1..Len(rows))
    BY EarlierForm
  <2>2. ASSUME NEW j \in own2 PROVE j + d \in own /\ rows2[j] = rows[j + d]
    <3>1. j \in Balance!Indices(rows2, q) /\ j < i
      BY DEF Balance!Earlier
    <3>2. j + d \in Balance!Indices(rows, q) /\ rows2[j] = rows[j + d] /\ j + d < i + d
      BY <1>1, <3>1 DEF Keeps
    <3>. QED  BY <3>2 DEF Balance!Earlier
  <2>3. ASSUME NEW j \in own PROVE j - d \in own2
    <3>1. j \in Balance!Indices(rows, q) /\ j < i + d
      BY DEF Balance!Earlier
    <3>2. j - d \in Balance!Indices(rows2, q) /\ j - d < i
      BY <1>1, <3>1 DEF Keeps
    <3>. QED  BY <3>2 DEF Balance!Earlier
  <2>. HIDE DEF own, own2
  <2>4. Balance!LeftBy(rows2, own2) = Balance!LeftBy(rows, own)
    BY <2>1, <2>2, <2>3, LeftMoved
  <2>5. own2 = {} <=> own = {}
    BY <2>2, <2>3
  <2>. QED  BY <2>4, <2>5 DEF Balance!Was, own, own2
<1>3. Balance!Was(rows2, q, Len(rows2) + 1) = Balance!Was(rows, q, Len(rows) + 1)
  <2>1. Balance!LeftBy(rows2, Balance!Indices(rows2, q)) = Balance!LeftBy(rows, Balance!Indices(rows, q))
    <3>. DEFINE own2 == Balance!Indices(rows2, q)
                own == Balance!Indices(rows, q)
    <3>1. /\ own2 \in SUBSET (1..Len(rows2)) /\ own \in SUBSET (1..Len(rows))
          /\ \A j \in own2 : j + d \in own /\ rows2[j] = rows[j + d]
          /\ \A j \in own : j - d \in own2
      BY <1>1 DEF Keeps
    <3>. HIDE DEF own, own2
    <3>2. Balance!LeftBy(rows2, own2) = Balance!LeftBy(rows, own)
      BY <3>1, LeftMoved
    <3>. QED  BY <3>2 DEF own, own2
  <2>2. /\ Balance!Earlier(rows2, q, Len(rows2) + 1) = Balance!Indices(rows2, q)
        /\ Balance!Earlier(rows, q, Len(rows) + 1) = Balance!Indices(rows, q)
    BY EarlierForm
  <2>. QED  BY <2>1, <2>2 DEF Balance!Was
<1>. QED  BY <1>2, <1>3

\* Nor does the chain of its own deals.
LEMMA ChainMoved ==
  ASSUME NEW rows \in Seq(Balance!Row), NEW rows2 \in Seq(Balance!Row), NEW d \in Nat, NEW q,
         Keeps(rows, rows2, q, d), NEW h, NEW b, NEW odd \in BOOLEAN,
         Balance!ChainOf(q, rows, h, b, odd)
  PROVE  Balance!ChainOf(q, rows2, h, b, odd)
<1>1. /\ \A i \in Balance!Indices(rows2, q) :
              /\ Balance!Was(rows2, q, i) = Balance!Was(rows, q, i + d)
              /\ Balance!Earlier(rows2, q, i) = {} <=> Balance!Earlier(rows, q, i + d) = {}
              /\ i + d \in Balance!Indices(rows, q) /\ rows2[i] = rows[i + d]
      /\ Balance!Was(rows2, q, Len(rows2) + 1) = Balance!Was(rows, q, Len(rows) + 1)
  BY WasMoved DEF Keeps
<1>2. Balance!Indices(rows2, q) = {} <=> b = {}
  BY DEF Keeps, Balance!ChainOf
<1>3. h = Balance!Was(rows2, q, Len(rows2) + 1)
  BY <1>1 DEF Balance!ChainOf
<1>4. ASSUME NEW i \in Balance!Indices(rows2, q) PROVE Balance!Follows(rows2[i], Balance!Was(rows2, q, i))
  <2>1. Balance!Follows(rows[i + d], Balance!Was(rows, q, i + d))
    BY <1>1 DEF Balance!ChainOf
  <2>. QED  BY <1>1, <2>1
<1>5. ASSUME ~odd, NEW i \in Balance!Indices(rows2, q)
      PROVE  /\ rows2[i].entry # "INOUT"
             /\ (rows2[i].entry = "IN" /\ Balance!Earlier(rows2, q, i) # {}) => Balance!Was(rows2, q, i) > 0
  <2>1. /\ rows[i + d].entry # "INOUT"
        /\ (rows[i + d].entry = "IN" /\ Balance!Earlier(rows, q, i + d) # {}) => Balance!Was(rows, q, i + d) > 0
    BY <1>1, <1>5 DEF Balance!ChainOf
  <2>. QED  BY <1>1, <2>1
<1>. QED  BY <1>2, <1>3, <1>4, <1>5 DEF Balance!ChainOf

\* A deal that follows what was held adds a link to the chain.
LEMMA ChainGrows ==
  ASSUME NEW rows \in Seq(Balance!Row), NEW r \in Balance!Row, NEW q, Balance!IsTrade(r), r.pos = q,
         NEW h, NEW b, NEW odd \in BOOLEAN, Balance!ChainOf(q, rows, h, b, odd), Balance!Follows(r, h),
         NEW b2, NEW odd2 \in BOOLEAN, b2 # {},
         ~odd2 => (~odd /\ r.entry # "INOUT" /\ ((r.entry = "IN" /\ b # {}) => h > 0))
  PROVE  Balance!ChainOf(q, Append(rows, r), r.after, b2, odd2)
<1>. DEFINE rows2 == Append(rows, r)
            n == Len(rows) + 1
<1>1. /\ Len(rows) \in Nat /\ Balance!Indices(rows, q) \in SUBSET (1..Len(rows))
      /\ n \in 1..n /\ Balance!Indices(rows, q) \in SUBSET (1..n)
      /\ n \in Nat /\ n \notin Balance!Indices(rows, q) /\ \A i \in Balance!Indices(rows, q) : i < n
  BY RowsForm
<1>2. /\ rows2 \in Seq(Balance!Row) /\ Len(rows2) = n /\ rows2[n] = r
      /\ \A i \in 1..Len(rows) : rows2[i] = rows[i]
      /\ Balance!Indices(rows2, q) = Balance!Indices(rows, q) \cup {n}
  BY AppendForm, AppendOwn
<1>. HIDE DEF rows2, n
<1>3. \A i \in Balance!Indices(rows, q) : Balance!Earlier(rows2, q, i) = Balance!Earlier(rows, q, i)
  BY <1>1, <1>2 DEF Balance!Earlier
<1>4. Balance!Earlier(rows2, q, n) = Balance!Indices(rows, q) /\ Balance!Earlier(rows, q, n) = Balance!Indices(rows, q)
  BY <1>1, <1>2 DEF Balance!Earlier
<1>5. ASSUME NEW own \in SUBSET Balance!Indices(rows, q) PROVE Balance!LeftBy(rows2, own) = Balance!LeftBy(rows, own)
  <2>1. own \in SUBSET (1..Len(rows)) /\ own \in SUBSET (1..Len(rows2))
    BY <1>1, <1>2
  <2>2. \A j \in own : j + 0 = j /\ j - 0 = j /\ rows2[j] = rows[j]
    BY <1>2, <2>1
  <2>. QED  BY <1>2, <2>1, <2>2, LeftMoved
<1>6. ASSUME NEW i \in Balance!Indices(rows, q)
      PROVE  Balance!Was(rows2, q, i) = Balance!Was(rows, q, i) /\ rows2[i] = rows[i]
  <2>1. Balance!Earlier(rows, q, i) \in SUBSET Balance!Indices(rows, q)
    BY EarlierForm
  <2>. QED  BY <1>1, <1>2, <1>3, <1>5, <2>1 DEF Balance!Was
<1>7. Balance!Was(rows2, q, n) = h
  <2>1. h = Balance!Was(rows, q, n)
    BY DEF Balance!ChainOf, n
  <2>. QED  BY <1>4, <1>5, <2>1 DEF Balance!Was
<1>8. Balance!Was(rows2, q, Len(rows2) + 1) = r.after
  <2>. DEFINE own == Balance!Indices(rows2, q)
  <2>1. Balance!Earlier(rows2, q, Len(rows2) + 1) = own
    BY <1>2, EarlierForm
  <2>2. own = Balance!Indices(rows, q) \cup {n}
    BY <1>2
  <2>. HIDE DEF own
  <2>4. own \in SUBSET (1..n) /\ n \in own /\ \A i \in own : i <= n
    BY <1>1, <2>2
  <2>3. Balance!Max(own) = n
    BY <1>1, <2>4, LedgerMaxIs
  <2>. QED  BY <1>2, <2>1, <2>3, <2>4 DEF Balance!Was, Balance!LeftBy
<1>9. ASSUME NEW i \in Balance!Indices(rows2, q) PROVE Balance!Follows(rows2[i], Balance!Was(rows2, q, i))
  <2>1. CASE i = n
    BY <1>2, <1>7, <2>1
  <2>2. CASE i \in Balance!Indices(rows, q)
    <3>1. Balance!Follows(rows[i], Balance!Was(rows, q, i))
      BY <2>2 DEF Balance!ChainOf
    <3>. QED  BY <1>6, <2>2, <3>1
  <2>. QED  BY <1>2, <2>1, <2>2
<1>10. ASSUME ~odd2, NEW i \in Balance!Indices(rows2, q)
       PROVE  /\ rows2[i].entry # "INOUT"
              /\ (rows2[i].entry = "IN" /\ Balance!Earlier(rows2, q, i) # {}) => Balance!Was(rows2, q, i) > 0
  <2>0. ~odd /\ r.entry # "INOUT" /\ ((r.entry = "IN" /\ b # {}) => h > 0)
    BY <1>10
  <2>1. CASE i = n
    <3>1. Balance!Indices(rows, q) # {} => b # {}
      BY DEF Balance!ChainOf
    <3>. QED  BY <1>2, <1>4, <1>7, <2>0, <2>1, <3>1
  <2>2. CASE i \in Balance!Indices(rows, q)
    <3>1. /\ rows[i].entry # "INOUT"
          /\ (rows[i].entry = "IN" /\ Balance!Earlier(rows, q, i) # {}) => Balance!Was(rows, q, i) > 0
      BY <2>0, <2>2 DEF Balance!ChainOf
    <3>. QED  BY <1>3, <1>6, <2>2, <3>1
  <2>. QED  BY <1>2, <2>1, <2>2
<1>11. Balance!Indices(rows2, q) # {}
  BY <1>2
<1>12. Balance!ChainOf(q, rows2, r.after, b2, odd2)
  BY <1>8, <1>9, <1>10, <1>11 DEF Balance!ChainOf
<1>. QED  BY <1>12 DEF rows2

\* A canceled last deal leaves the chain it was the end of.
LEMMA ChainShortens ==
  ASSUME NEW rows \in Seq(Balance!Row), NEW q, Balance!Indices(rows, q) # {},
         NEW h, NEW b, NEW odd \in BOOLEAN, Balance!ChainOf(q, rows, h, b, odd),
         NEW b2, (Balance!Indices(rows, q) \ {Balance!Max(Balance!Indices(rows, q))} = {}) <=> b2 = {}
  PROVE  LET k == Balance!Max(Balance!Indices(rows, q))
             rest == Balance!Indices(rows, q) \ {k}
         IN  Balance!ChainOf(q, [rows EXCEPT ![k] = Marked(rows[k])], Balance!LeftBy(rows, rest), b2, odd)
<1>. DEFINE k == Balance!Max(Balance!Indices(rows, q))
            rest == Balance!Indices(rows, q) \ {k}
            rows2 == [rows EXCEPT ![k] = Marked(rows[k])]
<1>1. /\ Len(rows) \in Nat /\ DOMAIN rows = 1..Len(rows)
      /\ Balance!Indices(rows, q) \in SUBSET (1..Len(rows))
  BY RowsForm
<1>2. k \in Balance!Indices(rows, q) /\ \A i \in Balance!Indices(rows, q) : i <= k
  BY <1>1, MaxOfPlaces
<1>. HIDE DEF k
<1>3. k \in DOMAIN rows /\ rows[k].pos = q
  BY <1>2 DEF Balance!Indices
<1>4. /\ rows2 \in Seq(Balance!Row) /\ Len(rows2) = Len(rows) /\ Balance!Indices(rows2, q) = rest
      /\ \A i \in DOMAIN rows : i # k => rows2[i] = rows[i]
  <2>1. Balance!Indices(rows2, q) = rest
    BY <1>3, MarkOwn
  <2>2. /\ rows2 \in Seq(Balance!Row) /\ Len(rows2) = Len(rows)
        /\ \A i \in DOMAIN rows : i # k => rows2[i] = rows[i]
    BY <1>3, MarkForm
  <2>. QED  BY <2>1, <2>2
<1>. HIDE DEF rows2, rest
<1>5. rest = Balance!Indices(rows, q) \ {k} /\ rest \in SUBSET (1..Len(rows)) /\ k \notin rest
  BY <1>1 DEF rest
<1>6. \A i \in rest : Balance!Earlier(rows2, q, i) = Balance!Earlier(rows, q, i)
  BY <1>1, <1>2, <1>4, <1>5 DEF Balance!Earlier
<1>7. ASSUME NEW own \in SUBSET rest PROVE Balance!LeftBy(rows2, own) = Balance!LeftBy(rows, own)
  <2>1. own \in SUBSET (1..Len(rows)) /\ own \in SUBSET (1..Len(rows2))
    BY <1>1, <1>4, <1>5
  <2>2. \A j \in own : j + 0 = j /\ j - 0 = j /\ rows2[j] = rows[j]
    BY <1>1, <1>4, <1>5, <2>1
  <2>3. rows2 \in Seq(Balance!Row)
    BY <1>4
  <2>. QED  BY <2>1, <2>2, <2>3, LeftMoved
<1>8. ASSUME NEW i \in rest
      PROVE  /\ Balance!Was(rows2, q, i) = Balance!Was(rows, q, i) /\ rows2[i] = rows[i]
             /\ i \in Balance!Indices(rows, q)
  <2>1. Balance!Earlier(rows2, q, i) \in SUBSET rest
    BY <1>4, EarlierForm
  <2>. QED  BY <1>1, <1>4, <1>5, <1>6, <1>7, <2>1 DEF Balance!Was
<1>9. Balance!Was(rows2, q, Len(rows2) + 1) = Balance!LeftBy(rows, rest)
  <2>1. Balance!Earlier(rows2, q, Len(rows2) + 1) = rest
    BY <1>4, EarlierForm
  <2>. QED  BY <1>7, <2>1 DEF Balance!Was
<1>10. ASSUME NEW i \in rest PROVE Balance!Follows(rows2[i], Balance!Was(rows2, q, i))
  <2>1. Balance!Follows(rows[i], Balance!Was(rows, q, i))
    BY <1>8 DEF Balance!ChainOf
  <2>. QED  BY <1>8, <2>1
<1>11. ASSUME ~odd, NEW i \in rest
       PROVE  /\ rows2[i].entry # "INOUT"
              /\ (rows2[i].entry = "IN" /\ Balance!Earlier(rows2, q, i) # {}) => Balance!Was(rows2, q, i) > 0
  <2>1. /\ rows[i].entry # "INOUT"
        /\ (rows[i].entry = "IN" /\ Balance!Earlier(rows, q, i) # {}) => Balance!Was(rows, q, i) > 0
    BY <1>8, <1>11 DEF Balance!ChainOf
  <2>. QED  BY <1>6, <1>8, <2>1
<1>12. rest = {} <=> b2 = {}
  BY DEF rest, k
<1>13. Balance!ChainOf(q, rows2, Balance!LeftBy(rows, rest), b2, odd)
  BY <1>4, <1>9, <1>10, <1>11, <1>12 DEF Balance!ChainOf
<1>. QED  BY <1>13 DEF rows2, rest, k

LEMMA ColumnsAre ==
  ASSUME NEW rows \in Seq(Balance!Row)
  PROVE  /\ Balance!Effects(rows) \in Column(Len(rows)) /\ Balance!Volumes(rows) \in Column(Len(rows))
         /\ Balance!Costings(rows) \in Column(Len(rows)) /\ Balance!Amounts(rows) \in Column(Len(rows))
         /\ \A i \in DOMAIN rows : Balance!Effects(rows)[i] = Balance!Effect(rows[i])
<1>1. DOMAIN rows = 1..Len(rows) /\ \A i \in DOMAIN rows : rows[i] \in Balance!Row
  BY RowsForm
<1>2. \A r \in Balance!Row : r.amount \in Int /\ r.cost \in Int /\ r.vol \in Int /\ Balance!Effect(r) \in Int
  BY DEF Balance!Row, Balance!Effect
<1>. QED  BY <1>1, <1>2 DEF Balance!Effects, Balance!Volumes, Balance!Costings, Balance!Amounts, Column

\* The walk back over one more row.
LEMMA WalkGrows ==
  ASSUME NEW rows \in Seq(Balance!Row), NEW r \in Balance!Row, NEW m \in 1..(Len(rows) + 1)
  PROVE  /\ Balance!SumFunctionOnSet(Balance!Effects(Append(rows, r)), m..(Len(rows) + 1))
              = Balance!Effect(r) + Balance!SumFunctionOnSet(Balance!Effects(rows), m..Len(rows))
         /\ Balance!SumFunctionOnSet(Balance!Effects(rows), m..Len(rows)) \in Int
         /\ Balance!Effect(r) \in Int
<1>. DEFINE rows2 == Append(rows, r)
            n == Len(rows)
            S == m..n
            x == n + 1
            v == Balance!Effects(rows)
            w == Balance!Effects(rows2)
<1>1. n \in Nat /\ x \in 1..x /\ x \in Nat
  BY LenProperties
<1>2. /\ rows2 \in Seq(Balance!Row) /\ Len(rows2) = x /\ rows2[x] = r
      /\ \A i \in 1..n : rows2[i] = rows[i]
  BY AppendForm
<1>3. /\ v \in Column(n) /\ w \in Column(x) /\ w[x] = Balance!Effect(r)
      /\ \A i \in 1..n : w[i] = v[i]
  <2>1. /\ v \in Column(n) /\ w \in Column(x)
        /\ \A i \in 1..n : v[i] = Balance!Effect(rows[i])
        /\ \A i \in 1..x : w[i] = Balance!Effect(rows2[i])
    <3>1. DOMAIN rows = 1..n /\ DOMAIN rows2 = 1..x
      BY <1>2, RowsForm
    <3>. HIDE DEF rows2
    <3>. QED  BY <1>2, <3>1, ColumnsAre
  <2>2. \A i \in 1..n : i \in 1..x
    BY <1>1
  <2>. QED  BY <1>1, <1>2, <2>1, <2>2
<1>4. S \in SUBSET (1..n) /\ S \in SUBSET (1..x) /\ x \notin S /\ m..x = S \cup {x}
  BY <1>1
<1>. HIDE DEF v, w, S, x, n, rows2
<1>5. Balance!SumFunctionOnSet(w, S \cup {x}) = w[x] + Balance!SumFunctionOnSet(w, S)
  BY <1>1, <1>3, <1>4, SumOneMore
<1>6. Balance!SumFunctionOnSet(w, S) = Balance!SumFunctionOnSet(v, S)
  <2>1. \A i \in S : w[i] = v[i]
    BY <1>3, <1>4
  <2>. QED  BY <1>1, <1>3, <1>4, <2>1, SumAgree
<1>7. Balance!SumFunctionOnSet(v, S) \in Int
  BY <1>1, <1>3, <1>4, SumInt
<1>8. Balance!Effect(r) \in Int
  BY DEF Balance!Effect, Balance!Row
<1>. QED  BY <1>3, <1>4, <1>5, <1>6, <1>7, <1>8 DEF v, w, S, x, n, rows2

\* A row that is no deal of q moves the balance by what the walk takes back.
LEMMA BalanceOther ==
  ASSUME NEW rows \in Seq(Balance!Row), NEW r \in Balance!Row, NEW q, ~(Balance!IsTrade(r) /\ r.pos = q),
         NEW bal \in Int, NEW b, Balance!BalanceOf(q, rows, bal, b)
  PROVE  Balance!BalanceOf(q, Append(rows, r), bal + Balance!Effect(r), b)
<1>. DEFINE rows2 == Append(rows, r)
<1>1. /\ Len(rows) \in Nat /\ DOMAIN rows = 1..Len(rows)
      /\ Balance!Indices(rows, q) \in SUBSET (1..Len(rows))
  BY RowsForm
<1>2. /\ Len(rows2) = Len(rows) + 1 /\ Balance!Indices(rows2, q) = Balance!Indices(rows, q)
      /\ \A i \in 1..Len(rows) : rows2[i] = rows[i]
  BY AppendForm, AppendKeeps
<1>3. ASSUME NEW m, Balance!First(rows2, q, m), Balance!KnownFrom(rows2, m)
      PROVE  b = {(bal + Balance!Effect(r)) - Balance!SumFunctionOnSet(Balance!Effects(rows2), m..Len(rows2))}
  <2>1. m \in 1..Len(rows) /\ Balance!First(rows, q, m) /\ m \in 1..(Len(rows) + 1)
    BY <1>1, <1>2, <1>3 DEF Balance!First
  <2>2. Balance!KnownFrom(rows, m)
    BY <1>1, <1>2, <1>3, <2>1 DEF Balance!KnownFrom
  <2>3. b = {bal - Balance!SumFunctionOnSet(Balance!Effects(rows), m..Len(rows))}
    BY <1>1, <2>1, <2>2 DEF Balance!BalanceOf
  <2>4. /\ Balance!SumFunctionOnSet(Balance!Effects(rows2), m..(Len(rows) + 1))
             = Balance!Effect(r) + Balance!SumFunctionOnSet(Balance!Effects(rows), m..Len(rows))
        /\ Balance!SumFunctionOnSet(Balance!Effects(rows), m..Len(rows)) \in Int /\ Balance!Effect(r) \in Int
    BY <2>1, WalkGrows
  <2>. QED  BY <1>2, <2>3, <2>4
<1>. QED  BY <1>3 DEF Balance!BalanceOf

\* The first deal of q is booked on the balance there was.
LEMMA BalanceOwn ==
  ASSUME NEW rows \in Seq(Balance!Row), NEW r \in Balance!Row, NEW q, Balance!IsTrade(r), r.pos = q,
         NEW bal \in Int, NEW b, Balance!BalanceOf(q, rows, bal, b), NEW b2,
         Balance!Indices(rows, q) = {} => b2 = {bal}, Balance!Indices(rows, q) # {} => b2 = b
  PROVE  Balance!BalanceOf(q, Append(rows, r), bal + Balance!Effect(r), b2)
<1>. DEFINE rows2 == Append(rows, r)
            n == Len(rows) + 1
<1>1. /\ Len(rows) \in Nat /\ DOMAIN rows = 1..Len(rows)
      /\ Balance!Indices(rows, q) \in SUBSET (1..Len(rows)) /\ n \in Nat /\ n \in 1..n
      /\ \A i \in Balance!Indices(rows, q) : ~(n <= i)
  BY RowsForm
<1>2. /\ Len(rows2) = n /\ Balance!Indices(rows2, q) = Balance!Indices(rows, q) \cup {n}
      /\ \A i \in 1..Len(rows) : rows2[i] = rows[i]
  BY AppendForm, AppendOwn
<1>3. \A m \in 1..n : /\ Balance!SumFunctionOnSet(Balance!Effects(rows2), m..n)
                          = Balance!Effect(r) + Balance!SumFunctionOnSet(Balance!Effects(rows), m..Len(rows))
                      /\ Balance!SumFunctionOnSet(Balance!Effects(rows), m..Len(rows)) \in Int
                      /\ Balance!Effect(r) \in Int
  BY WalkGrows
<1>4. ASSUME NEW m, Balance!First(rows2, q, m), Balance!KnownFrom(rows2, m)
      PROVE  b2 = {(bal + Balance!Effect(r)) - Balance!SumFunctionOnSet(Balance!Effects(rows2), m..Len(rows2))}
  <2>1. CASE Balance!Indices(rows, q) = {}
    <3>1. m = n /\ n..Len(rows) = {}
      BY <1>1, <1>2, <1>4, <2>1 DEF Balance!First
    <3>2. Balance!SumFunctionOnSet(Balance!Effects(rows), n..Len(rows)) = 0
      BY <3>1, SumEmpty
    <3>3. Balance!SumFunctionOnSet(Balance!Effects(rows2), n..n) = Balance!Effect(r) + 0 /\ Balance!Effect(r) \in Int
      BY <1>1, <1>3, <3>2
    <3>. QED  BY <1>2, <2>1, <3>1, <3>3
  <2>2. CASE Balance!Indices(rows, q) # {}
    <3>1. m # n
      BY <1>1, <1>2, <1>4, <2>2 DEF Balance!First
    <3>2. m \in 1..Len(rows) /\ Balance!First(rows, q, m) /\ m \in 1..n
      BY <1>1, <1>2, <1>4, <3>1 DEF Balance!First
    <3>3. Balance!KnownFrom(rows, m)
      BY <1>1, <1>2, <1>4, <3>2 DEF Balance!KnownFrom
    <3>4. b = {bal - Balance!SumFunctionOnSet(Balance!Effects(rows), m..Len(rows))}
      BY <1>1, <3>2, <3>3 DEF Balance!BalanceOf
    <3>5. /\ Balance!SumFunctionOnSet(Balance!Effects(rows2), m..n)
               = Balance!Effect(r) + Balance!SumFunctionOnSet(Balance!Effects(rows), m..Len(rows))
          /\ Balance!SumFunctionOnSet(Balance!Effects(rows), m..Len(rows)) \in Int /\ Balance!Effect(r) \in Int
      BY <1>3, <3>2
    <3>. QED  BY <1>2, <2>2, <3>4, <3>5
  <2>. QED  BY <2>1, <2>2
<1>. QED  BY <1>4 DEF Balance!BalanceOf

\* Before a canceled deal nothing is explained any more.
LEMMA BalanceMarked ==
  ASSUME NEW rows \in Seq(Balance!Row), NEW k \in DOMAIN rows, NEW q,
         NEW bal, NEW b, Balance!BalanceOf(q, rows, bal, b), rows[k].pos # q
  PROVE  Balance!BalanceOf(q, [rows EXCEPT ![k] = Marked(rows[k])], bal, b)
<1>. DEFINE rows2 == [rows EXCEPT ![k] = Marked(rows[k])]
            n == Len(rows)
<1>1. /\ n \in Nat /\ DOMAIN rows = 1..n /\ Balance!Indices(rows, q) \in SUBSET (1..n)
  BY RowsForm
<1>2. Balance!Indices(rows2, q) = Balance!Indices(rows, q)
  BY MarkKeeps
<1>3. /\ rows2 \in Seq(Balance!Row) /\ Len(rows2) = n /\ DOMAIN rows2 = 1..n
      /\ \A i \in DOMAIN rows : i # k => rows2[i] = rows[i]
      /\ rows2[k].kind = "canceled"
  BY MarkForm
<1>. HIDE DEF rows2, n
<1>4. ASSUME NEW m, Balance!First(rows2, q, m), Balance!KnownFrom(rows2, m)
      PROVE  b = {bal - Balance!SumFunctionOnSet(Balance!Effects(rows2), m..Len(rows2))}
  <2>1. m \in 1..n /\ Balance!First(rows, q, m)
    BY <1>1, <1>2, <1>4 DEF Balance!First
  <2>2. k \notin m..n
    BY <1>3, <1>4 DEF Balance!KnownFrom, Balance!Explained
  <2>3. \A i \in m..n : i \in 1..n /\ i # k /\ rows2[i] = rows[i]
    BY <1>1, <1>3, <2>1, <2>2
  <2>4. Balance!KnownFrom(rows, m)
    BY <1>3, <1>4, <2>3 DEF Balance!KnownFrom, n
  <2>5. b = {bal - Balance!SumFunctionOnSet(Balance!Effects(rows), m..n)}
    BY <1>1, <2>1, <2>4 DEF Balance!BalanceOf, n
  <2>6. Balance!SumFunctionOnSet(Balance!Effects(rows2), m..n) = Balance!SumFunctionOnSet(Balance!Effects(rows), m..n)
    <3>. DEFINE S == m..n
                v == Balance!Effects(rows)
                w == Balance!Effects(rows2)
    <3>1. v \in Column(n) /\ w \in Column(n)
      BY <1>3, ColumnsAre DEF n
    <3>2. S \in SUBSET (1..n)
      BY <2>3
    <3>3. \A i \in S : w[i] = v[i]
      <4>1. /\ \A i \in 1..n : v[i] = Balance!Effect(rows[i])
            /\ \A i \in 1..n : w[i] = Balance!Effect(rows2[i])
        BY <1>1, <1>3, ColumnsAre
      <4>. QED  BY <2>3, <4>1
    <3>. HIDE DEF S, v, w
    <3>4. Balance!SumFunctionOnSet(w, S) = Balance!SumFunctionOnSet(v, S)
      BY <1>1, <3>1, <3>2, <3>3, SumAgree
    <3>. QED  BY <3>4 DEF S, v, w
  <2>. QED  BY <1>3, <2>5, <2>6
<1>5. Balance!BalanceOf(q, rows2, bal, b)
  BY <1>4 DEF Balance!BalanceOf
<1>. QED  BY <1>5 DEF rows2

LEMMA BalanceMarkedOwn ==
  ASSUME NEW rows \in Seq(Balance!Row), NEW q, Balance!Indices(rows, q) # {}, NEW bal, NEW b
  PROVE  LET k == Balance!Max(Balance!Indices(rows, q))
         IN  Balance!BalanceOf(q, [rows EXCEPT ![k] = Marked(rows[k])], bal, b)
<1>. DEFINE k == Balance!Max(Balance!Indices(rows, q))
            rows2 == [rows EXCEPT ![k] = Marked(rows[k])]
            n == Len(rows)
<1>1. /\ n \in Nat /\ DOMAIN rows = 1..n /\ Balance!Indices(rows, q) \in SUBSET (1..n)
  BY RowsForm
<1>2. k \in Balance!Indices(rows, q) /\ \A i \in Balance!Indices(rows, q) : i <= k
  BY <1>1, MaxOfPlaces
<1>. HIDE DEF k
<1>3. k \in DOMAIN rows /\ rows[k].pos = q /\ k \in 1..n
  BY <1>1, <1>2 DEF Balance!Indices
<1>4. /\ Len(rows2) = n /\ rows2[k].kind = "canceled"
  BY <1>3, MarkForm
<1>5. Balance!Indices(rows2, q) = Balance!Indices(rows, q) \ {k}
  BY <1>3, MarkOwn
<1>. HIDE DEF rows2, n
<1>6. ASSUME NEW m, Balance!First(rows2, q, m), Balance!KnownFrom(rows2, m) PROVE FALSE
  <2>1. m \in 1..n /\ m <= k
    BY <1>1, <1>2, <1>5, <1>6 DEF Balance!First
  <2>2. k \in m..n
    BY <1>3, <2>1
  <2>. QED  BY <1>4, <1>6, <2>2 DEF Balance!KnownFrom, Balance!Explained
<1>7. Balance!BalanceOf(q, rows2, bal, b)
  BY <1>6 DEF Balance!BalanceOf
<1>. QED  BY <1>7 DEF rows2, k

\* An archived deal of another is before everything that is walked.
LEMMA BalanceArchived ==
  ASSUME NEW rows \in Seq(Balance!Row), rows # <<>>, NEW q, Head(rows).pos # q,
         NEW bal, NEW b, Balance!BalanceOf(q, rows, bal, b)
  PROVE  Balance!BalanceOf(q, Tail(rows), bal, b)
<1>. DEFINE rows2 == Tail(rows)
            n == Len(rows)
<1>1. /\ n \in Nat /\ DOMAIN rows = 1..n /\ Balance!Indices(rows, q) \in SUBSET (1..n)
  BY RowsForm
<1>2. /\ rows2 \in Seq(Balance!Row) /\ n - 1 \in Nat /\ Len(rows2) = n - 1
      /\ DOMAIN rows2 = 1..(n - 1)
      /\ \A i \in 1..(n - 1) : rows2[i] = rows[i + 1]
  BY <1>1, TailForm
<1>3. Keeps(rows, rows2, q, 1)
  BY TailKeeps
<1>. HIDE DEF rows2, n
<1>4. Balance!Indices(rows2, q) \in SUBSET (1..(n - 1))
  BY <1>2, RowsForm
<1>5. ASSUME NEW m, Balance!First(rows2, q, m), Balance!KnownFrom(rows2, m)
      PROVE  b = {bal - Balance!SumFunctionOnSet(Balance!Effects(rows2), m..Len(rows2))}
  <2>1. m \in 1..(n - 1) /\ m + 1 \in Balance!Indices(rows, q) /\ m + 1 \in 1..n
    BY <1>1, <1>3, <1>4, <1>5 DEF Balance!First, Keeps
  <2>2. Balance!First(rows, q, m + 1)
    <3>1. ASSUME NEW j \in Balance!Indices(rows, q) PROVE m + 1 <= j
      <4>1. j - 1 \in Balance!Indices(rows2, q)
        BY <1>3 DEF Keeps
      <4>2. m <= j - 1 /\ j \in 1..n
        BY <1>1, <1>5, <4>1 DEF Balance!First
      <4>. QED  BY <2>1, <4>2
    <3>. QED  BY <2>1, <3>1 DEF Balance!First
  <2>3. Balance!KnownFrom(rows, m + 1)
    <3>1. ASSUME NEW j \in (m + 1)..n PROVE Balance!Explained(rows[j])
      <4>1. j - 1 \in m..(n - 1) /\ j - 1 \in 1..(n - 1) /\ (j - 1) + 1 = j
        BY <1>1, <2>1
      <4>2. rows2[j - 1] = rows[j]
        BY <1>2, <4>1
      <4>3. Balance!Explained(rows2[j - 1])
        BY <1>2, <1>5, <4>1 DEF Balance!KnownFrom
      <4>. QED  BY <4>2, <4>3
    <3>. QED  BY <3>1 DEF Balance!KnownFrom, n
  <2>4. b = {bal - Balance!SumFunctionOnSet(Balance!Effects(rows), (m + 1)..n)}
    BY <1>1, <2>1, <2>2, <2>3 DEF Balance!BalanceOf, n
  <2>5. Balance!SumFunctionOnSet(Balance!Effects(rows2), m..(n - 1))
          = Balance!SumFunctionOnSet(Balance!Effects(rows), (m + 1)..n)
    <3>. DEFINE S == (m + 1)..n
                R == m..(n - 1)
                v == Balance!Effects(rows)
                w == Balance!Effects(rows2)
                k == n - 1
    <3>1. v \in Column(n) /\ w \in Column(k)
      BY <1>2, ColumnsAre DEF n
    <3>2. S \in SUBSET (1..n) /\ R \in SUBSET (1..k)
      BY <1>1, <2>1
    <3>3. /\ \A i \in 1..n : v[i] = Balance!Effect(rows[i])
          /\ \A i \in 1..k : w[i] = Balance!Effect(rows2[i])
      BY <1>1, <1>2, ColumnsAre
    <3>4. ASSUME NEW j \in R PROVE w[j] = v[j + 1]
      <4>1. j \in 1..k /\ j + 1 \in 1..n
        BY <1>1, <2>1
      <4>2. rows2[j] = rows[j + 1]
        BY <1>2, <4>1
      <4>. QED  BY <3>3, <4>1, <4>2
    <3>5. /\ \A j \in 1..k : j \in R <=> j + 1 \in S
          /\ \A i \in S : i - 1 \in 1..k
      BY <1>1, <2>1
    <3>6. k \in Nat
      BY <1>2
    <3>. HIDE DEF S, R, v, w, k
    <3>7. Moved(v, w, R, S, k, 1)
      BY <3>4, <3>5 DEF Moved
    <3>8. Balance!SumFunctionOnSet(w, R) = Balance!SumFunctionOnSet(v, S)
      BY <1>1, <3>1, <3>2, <3>6, <3>7, SumMoved
    <3>. QED  BY <3>8 DEF S, R, v, w
  <2>. QED  BY <1>2, <2>4, <2>5
<1>6. Balance!BalanceOf(q, rows2, bal, b)
  BY <1>5 DEF Balance!BalanceOf
<1>. QED  BY <1>6 DEF rows2

\* Rows at the same places of two ledgers.
Shared(rows, rows2, S) ==
  /\ S \in SUBSET (1..Len(rows)) /\ S \in SUBSET (1..Len(rows2))
  /\ \A i \in S : rows2[i] = rows[i]

\* Sums over rows that two ledgers share are the same.
LEMMA RowsAgree ==
  ASSUME NEW rows \in Seq(Balance!Row), NEW rows2 \in Seq(Balance!Row), NEW S, Shared(rows, rows2, S)
  PROVE  /\ Balance!SumFunctionOnSet(Balance!Costings(rows2), S) = Balance!SumFunctionOnSet(Balance!Costings(rows), S)
         /\ Balance!SumFunctionOnSet(Balance!Amounts(rows2), S) = Balance!SumFunctionOnSet(Balance!Amounts(rows), S)
         /\ Balance!SumFunctionOnSet(Balance!Volumes(rows2), S) = Balance!SumFunctionOnSet(Balance!Volumes(rows), S)
<1>. DEFINE n == Len(rows)
            n2 == Len(rows2)
<1>1. /\ n \in Nat /\ n2 \in Nat
      /\ Balance!Costings(rows) \in Column(n) /\ Balance!Costings(rows2) \in Column(n2)
      /\ Balance!Amounts(rows) \in Column(n) /\ Balance!Amounts(rows2) \in Column(n2)
      /\ Balance!Volumes(rows) \in Column(n) /\ Balance!Volumes(rows2) \in Column(n2)
  BY RowsForm, ColumnsAre
<1>2. S \in SUBSET (1..n) /\ S \in SUBSET (1..n2)
  BY DEF Shared
<1>3. \A i \in S : /\ Balance!Costings(rows2)[i] = Balance!Costings(rows)[i]
                   /\ Balance!Amounts(rows2)[i] = Balance!Amounts(rows)[i]
                   /\ Balance!Volumes(rows2)[i] = Balance!Volumes(rows)[i]
  <2>1. \A i \in S : i \in DOMAIN rows /\ i \in DOMAIN rows2 /\ rows2[i] = rows[i]
    BY RowsForm DEF Shared
  <2>. QED  BY <2>1 DEF Balance!Costings, Balance!Amounts, Balance!Volumes
<1>. HIDE DEF n, n2
<1>4. Balance!SumFunctionOnSet(Balance!Costings(rows2), S) = Balance!SumFunctionOnSet(Balance!Costings(rows), S)
  BY <1>1, <1>2, <1>3, SumAgree
<1>5. Balance!SumFunctionOnSet(Balance!Amounts(rows2), S) = Balance!SumFunctionOnSet(Balance!Amounts(rows), S)
  BY <1>1, <1>2, <1>3, SumAgree
<1>6. Balance!SumFunctionOnSet(Balance!Volumes(rows2), S) = Balance!SumFunctionOnSet(Balance!Volumes(rows), S)
  BY <1>1, <1>2, <1>3, SumAgree
<1>. QED  BY <1>4, <1>5, <1>6

\* Every position's cost in a ledger whose commissions have these owners.
CostIn(rows, owner, p) ==
  Balance!SumFunctionOnSet(Balance!Costings(rows), Balance!Indices(rows, p))
    + Balance!SumFunctionOnSet(Balance!Amounts(rows), Balance!OwnedBy(owner, p))

OwnersOf(rows, owner) ==
  /\ owner \in [Balance!Commissions(rows) -> Position]
  /\ \A i \in Balance!Commissions(rows) : Balance!Linked(rows, rows[i], owner[i])

LEMMA CostsForm ==
  ASSUME NEW rows, NEW ch
  PROVE  Balance!CostsOf(rows, ch)
           <=> \E owner : OwnersOf(rows, owner) /\ \A p \in Position : ch[p] = CostIn(rows, owner, p)
BY DEF Balance!CostsOf, OwnersOf, CostIn

LEMMA OwnedForm ==
  ASSUME NEW rows \in Seq(Balance!Row), NEW owner, OwnersOf(rows, owner), NEW p
  PROVE  /\ Balance!OwnedBy(owner, p) \in SUBSET Balance!Commissions(rows)
         /\ Balance!Commissions(rows) \in SUBSET (1..Len(rows))
         /\ Balance!OwnedBy(owner, p) \in SUBSET (1..Len(rows))
<1>1. Balance!Commissions(rows) \in SUBSET (1..Len(rows))
  BY RowsForm DEF Balance!Commissions
<1>2. Balance!OwnedBy(owner, p) \in SUBSET Balance!Commissions(rows)
  BY DEF Balance!OwnedBy, OwnersOf
<1>. QED  BY <1>1, <1>2

LEMMA CostInInt ==
  ASSUME NEW rows \in Seq(Balance!Row), NEW owner, OwnersOf(rows, owner), NEW p
  PROVE  /\ Balance!SumFunctionOnSet(Balance!Costings(rows), Balance!Indices(rows, p)) \in Int
         /\ Balance!SumFunctionOnSet(Balance!Amounts(rows), Balance!OwnedBy(owner, p)) \in Int
<1>. DEFINE n == Len(rows)
            S == Balance!Indices(rows, p)
            T == Balance!OwnedBy(owner, p)
<1>1. /\ n \in Nat /\ S \in SUBSET (1..n) /\ T \in SUBSET (1..n)
      /\ Balance!Costings(rows) \in Column(n) /\ Balance!Amounts(rows) \in Column(n)
  BY RowsForm, ColumnsAre, OwnedForm
<1>. HIDE DEF n, S, T
<1>2. Balance!SumFunctionOnSet(Balance!Costings(rows), S) \in Int
  BY <1>1, SumInt
<1>3. Balance!SumFunctionOnSet(Balance!Amounts(rows), T) \in Int
  BY <1>1, SumInt
<1>. QED  BY <1>2, <1>3 DEF S, T

\* A link to a position stays one as deals are added.
LEMMA LinkedStays ==
  ASSUME NEW rows \in Seq(Balance!Row), NEW r \in Balance!Row, NEW c, NEW q, Balance!Linked(rows, c, q)
  PROVE  Balance!Linked(Append(rows, r), c, q)
<1>1. ASSUME NEW k \in Balance!Indices(rows, q)
      PROVE  k \in Balance!Indices(Append(rows, r), q) /\ Append(rows, r)[k] = rows[k]
  <2>1. Len(rows) \in Nat /\ DOMAIN rows = 1..Len(rows)
    BY RowsForm
  <2>. QED  BY <2>1, AppendForm DEF Balance!Indices
<1>. QED  BY <1>1 DEF Balance!Linked

\* A row that is no deal and no commission costs nothing.
LEMMA CostsOther ==
  ASSUME NEW rows \in Seq(Balance!Row), NEW r \in Balance!Row, ~Balance!IsTrade(r), r.kind # "commission",
         NEW ch, Balance!CostsOf(rows, ch)
  PROVE  Balance!CostsOf(Append(rows, r), ch)
<1>. DEFINE rows2 == Append(rows, r)
<1>1. PICK owner : OwnersOf(rows, owner) /\ \A p \in Position : ch[p] = CostIn(rows, owner, p)
  BY CostsForm
<1>2. /\ Len(rows) \in Nat /\ DOMAIN rows = 1..Len(rows)
      /\ rows2 \in Seq(Balance!Row) /\ Len(rows2) = Len(rows) + 1 /\ DOMAIN rows2 = 1..(Len(rows) + 1)
      /\ \A i \in 1..Len(rows) : rows2[i] = rows[i]
      /\ rows2[Len(rows) + 1] = r
  BY RowsForm, AppendForm
<1>3. Balance!Commissions(rows2) = Balance!Commissions(rows) /\ Balance!Commissions(rows) \in SUBSET (1..Len(rows))
  BY <1>2 DEF Balance!Commissions
<1>4. OwnersOf(rows2, owner)
  <2>1. ASSUME NEW i \in Balance!Commissions(rows) PROVE Balance!Linked(rows2, rows2[i], owner[i])
    <3>1. Balance!Linked(rows, rows[i], owner[i]) /\ rows2[i] = rows[i]
      BY <1>1, <1>2, <1>3 DEF OwnersOf
    <3>. QED  BY <3>1, LinkedStays
  <2>2. owner \in [Balance!Commissions(rows2) -> Position]
    BY <1>1, <1>3 DEF OwnersOf
  <2>. QED  BY <1>3, <2>1, <2>2 DEF OwnersOf
<1>5. ASSUME NEW p \in Position PROVE CostIn(rows2, owner, p) = CostIn(rows, owner, p)
  <2>1. Balance!Indices(rows2, p) = Balance!Indices(rows, p)
    BY AppendKeeps
  <2>2. /\ Balance!Indices(rows, p) \in SUBSET (1..Len(rows)) /\ Balance!OwnedBy(owner, p) \in SUBSET (1..Len(rows))
        /\ \A i \in 1..Len(rows) : i \in 1..Len(rows2)
    BY <1>1, <1>2, RowsForm, OwnedForm
  <2>. HIDE DEF rows2
  <2>3. Shared(rows, rows2, Balance!Indices(rows, p)) /\ Shared(rows, rows2, Balance!OwnedBy(owner, p))
    BY <1>2, <2>2 DEF Shared
  <2>4. /\ Balance!SumFunctionOnSet(Balance!Costings(rows2), Balance!Indices(rows, p))
             = Balance!SumFunctionOnSet(Balance!Costings(rows), Balance!Indices(rows, p))
        /\ Balance!SumFunctionOnSet(Balance!Amounts(rows2), Balance!OwnedBy(owner, p))
             = Balance!SumFunctionOnSet(Balance!Amounts(rows), Balance!OwnedBy(owner, p))
    BY <1>2, <2>3, RowsAgree
  <2>. QED  BY <2>1, <2>3, <2>4 DEF CostIn
<1>6. \A p \in Position : ch[p] = CostIn(rows2, owner, p)
  BY <1>1, <1>5
<1>. HIDE DEF rows2
<1>7. Balance!CostsOf(rows2, ch)
  BY <1>4, <1>6, CostsForm
<1>. QED  BY <1>7 DEF rows2

\* A deal costs its position what its row says.
LEMMA CostsTrade ==
  ASSUME NEW rows \in Seq(Balance!Row), NEW r \in Balance!Row, Balance!IsTrade(r), NEW q, r.pos = q,
         NEW ch, Balance!CostsOf(rows, ch), NEW ch2,
         \A p \in Position : ch2[p] = IF p = q THEN ch[p] + r.cost ELSE ch[p]
  PROVE  Balance!CostsOf(Append(rows, r), ch2)
<1>. DEFINE rows2 == Append(rows, r)
            n == Len(rows)
            x == n + 1
<1>1. PICK owner : OwnersOf(rows, owner) /\ \A p \in Position : ch[p] = CostIn(rows, owner, p)
  BY CostsForm
<1>2. /\ n \in Nat /\ x \in Nat /\ x \in 1..x /\ DOMAIN rows = 1..n
      /\ rows2 \in Seq(Balance!Row) /\ Len(rows2) = x /\ DOMAIN rows2 = 1..x
      /\ \A i \in 1..n : rows2[i] = rows[i] /\ i \in 1..x /\ i # x
      /\ rows2[x] = r
  BY RowsForm, AppendForm
<1>3. Balance!Commissions(rows2) = Balance!Commissions(rows) /\ Balance!Commissions(rows) \in SUBSET (1..n)
  BY <1>2 DEF Balance!Commissions, Balance!IsTrade
<1>4. OwnersOf(rows2, owner)
  <2>1. ASSUME NEW i \in Balance!Commissions(rows) PROVE Balance!Linked(rows2, rows2[i], owner[i])
    <3>1. Balance!Linked(rows, rows[i], owner[i]) /\ rows2[i] = rows[i]
      BY <1>1, <1>2, <1>3 DEF OwnersOf
    <3>. QED  BY <3>1, LinkedStays
  <2>2. owner \in [Balance!Commissions(rows2) -> Position]
    BY <1>1, <1>3 DEF OwnersOf
  <2>. QED  BY <1>3, <2>1, <2>2 DEF OwnersOf
<1>5. ASSUME NEW p \in Position
      PROVE  /\ Balance!SumFunctionOnSet(Balance!Costings(rows2), Balance!Indices(rows, p))
                  = Balance!SumFunctionOnSet(Balance!Costings(rows), Balance!Indices(rows, p))
             /\ Balance!SumFunctionOnSet(Balance!Amounts(rows2), Balance!OwnedBy(owner, p))
                  = Balance!SumFunctionOnSet(Balance!Amounts(rows), Balance!OwnedBy(owner, p))
             /\ Balance!Indices(rows, p) \in SUBSET (1..n)
  <2>1. Balance!Indices(rows, p) \in SUBSET (1..n) /\ Balance!OwnedBy(owner, p) \in SUBSET (1..n)
    BY <1>1, RowsForm, OwnedForm
  <2>. HIDE DEF rows2
  <2>2. Shared(rows, rows2, Balance!Indices(rows, p)) /\ Shared(rows, rows2, Balance!OwnedBy(owner, p))
    BY <1>2, <2>1 DEF Shared
  <2>. QED  BY <1>2, <2>1, <2>2, RowsAgree
<1>6. ASSUME NEW p \in Position PROVE ch2[p] = CostIn(rows2, owner, p)
  <2>0. ch[p] = CostIn(rows, owner, p)
    BY <1>1
  <2>1. CASE p # q
    <3>1. Balance!Indices(rows2, p) = Balance!Indices(rows, p)
      BY <2>1, AppendKeeps
    <3>. QED  BY <1>5, <2>0, <2>1, <3>1 DEF CostIn
  <2>2. CASE p = q
    <3>1. Balance!Indices(rows2, p) = Balance!Indices(rows, p) \cup {x}
      BY <2>2, AppendOwn
    <3>2. /\ Balance!SumFunctionOnSet(Balance!Costings(rows), Balance!Indices(rows, p)) \in Int
          /\ Balance!SumFunctionOnSet(Balance!Amounts(rows), Balance!OwnedBy(owner, p)) \in Int
      BY <1>1, CostInInt
    <3>3. Balance!SumFunctionOnSet(Balance!Costings(rows2), Balance!Indices(rows2, p))
            = r.cost + Balance!SumFunctionOnSet(Balance!Costings(rows2), Balance!Indices(rows, p))
      <4>. DEFINE S == Balance!Indices(rows, p)
                  w == Balance!Costings(rows2)
      <4>1. S \in SUBSET (1..x) /\ x \notin S
        BY <1>2, <1>5
      <4>2. w \in Column(x)
        BY <1>2, ColumnsAre
      <4>3. w[x] = r.cost
        BY <1>2 DEF Balance!Costings
      <4>. HIDE DEF S, w, x
      <4>4. Balance!SumFunctionOnSet(w, S \cup {x}) = w[x] + Balance!SumFunctionOnSet(w, S)
        BY <1>2, <4>1, <4>2, SumOneMore
      <4>. QED  BY <3>1, <4>3, <4>4 DEF S, w
    <3>4. r.cost \in Int
      BY DEF Balance!Row
    <3>5. ch2[p] = ch[p] + r.cost
      BY <2>2
    <3>. QED  BY <1>5, <2>0, <3>2, <3>3, <3>4, <3>5 DEF CostIn
  <2>. QED  BY <2>1, <2>2
<1>. HIDE DEF rows2
<1>7. Balance!CostsOf(rows2, ch2)
  BY <1>4, <1>6, CostsForm
<1>. QED  BY <1>7 DEF rows2

\* A separate commission costs the position that it leads to.
LEMMA CostsCharge ==
  ASSUME NEW rows \in Seq(Balance!Row), NEW r \in Balance!Row, r.kind = "commission",
         NEW q \in Position, Balance!Linked(rows, r, q),
         NEW ch, Balance!CostsOf(rows, ch), NEW ch2,
         \A p \in Position : ch2[p] = IF p = q THEN ch[p] + r.amount ELSE ch[p]
  PROVE  Balance!CostsOf(Append(rows, r), ch2)
<1>. DEFINE rows2 == Append(rows, r)
            n == Len(rows)
            x == n + 1
<1>1. PICK owner : OwnersOf(rows, owner) /\ \A p \in Position : ch[p] = CostIn(rows, owner, p)
  BY CostsForm
<1>. DEFINE owner2 == [i \in Balance!Commissions(rows2) |-> IF i = x THEN q ELSE owner[i]]
<1>2. /\ n \in Nat /\ x \in Nat /\ x \in 1..x /\ DOMAIN rows = 1..n
      /\ rows2 \in Seq(Balance!Row) /\ Len(rows2) = x /\ DOMAIN rows2 = 1..x
      /\ \A i \in 1..n : rows2[i] = rows[i] /\ i \in 1..x /\ i # x
      /\ \A i \in 1..x : i \in 1..n \/ i = x
      /\ rows2[x] = r
  BY RowsForm, AppendForm
<1>3. Balance!Commissions(rows2) = Balance!Commissions(rows) \cup {x} /\ Balance!Commissions(rows) \in SUBSET (1..n)
  <2>. HIDE DEF x, n, rows2
  <2>. QED  BY <1>2 DEF Balance!Commissions
<1>4. owner \in [Balance!Commissions(rows) -> Position]
  BY <1>1 DEF OwnersOf
<1>5. /\ owner2 \in [Balance!Commissions(rows2) -> Position] /\ owner2[x] = q
      /\ \A i \in Balance!Commissions(rows) : owner2[i] = owner[i] /\ i # x
  <2>. HIDE DEF x, n, rows2
  <2>. QED  BY <1>2, <1>3, <1>4
<1>. HIDE DEF owner2
<1>6. OwnersOf(rows2, owner2)
  <2>1. ASSUME NEW i \in Balance!Commissions(rows) PROVE Balance!Linked(rows2, rows2[i], owner2[i])
    <3>1. Balance!Linked(rows, rows[i], owner[i]) /\ rows2[i] = rows[i] /\ owner2[i] = owner[i]
      BY <1>1, <1>2, <1>3, <1>5 DEF OwnersOf
    <3>. QED  BY <3>1, LinkedStays
  <2>2. Balance!Linked(rows2, rows2[x], owner2[x])
    BY <1>2, <1>5, LinkedStays
  <2>. QED  BY <1>3, <1>5, <2>1, <2>2 DEF OwnersOf
<1>7. ASSUME NEW p \in Position
      PROVE  /\ Balance!SumFunctionOnSet(Balance!Costings(rows2), Balance!Indices(rows2, p))
                  = Balance!SumFunctionOnSet(Balance!Costings(rows), Balance!Indices(rows, p))
             /\ Balance!SumFunctionOnSet(Balance!Amounts(rows2), Balance!OwnedBy(owner, p))
                  = Balance!SumFunctionOnSet(Balance!Amounts(rows), Balance!OwnedBy(owner, p))
             /\ Balance!OwnedBy(owner, p) \in SUBSET (1..n)
  <2>1. Balance!Indices(rows, p) \in SUBSET (1..n) /\ Balance!OwnedBy(owner, p) \in SUBSET (1..n)
    BY <1>1, RowsForm, OwnedForm
  <2>2. Balance!Indices(rows2, p) = Balance!Indices(rows, p)
    BY AppendKeeps DEF Balance!IsTrade
  <2>. HIDE DEF rows2
  <2>3. Shared(rows, rows2, Balance!Indices(rows, p)) /\ Shared(rows, rows2, Balance!OwnedBy(owner, p))
    BY <1>2, <2>1 DEF Shared
  <2>. QED  BY <1>2, <2>1, <2>2, <2>3, RowsAgree
<1>8. ASSUME NEW p \in Position PROVE ch2[p] = CostIn(rows2, owner2, p)
  <2>0. ch[p] = CostIn(rows, owner, p)
    BY <1>1
  <2>1. CASE p # q
    <3>1. Balance!OwnedBy(owner2, p) = Balance!OwnedBy(owner, p)
      BY <1>3, <1>4, <1>5, <2>1 DEF Balance!OwnedBy
    <3>. QED  BY <1>7, <2>0, <2>1, <3>1 DEF CostIn
  <2>2. CASE p = q
    <3>1. Balance!OwnedBy(owner2, p) = Balance!OwnedBy(owner, p) \cup {x}
      BY <1>3, <1>4, <1>5, <2>2 DEF Balance!OwnedBy
    <3>2. /\ Balance!SumFunctionOnSet(Balance!Costings(rows), Balance!Indices(rows, p)) \in Int
          /\ Balance!SumFunctionOnSet(Balance!Amounts(rows), Balance!OwnedBy(owner, p)) \in Int
      BY <1>1, CostInInt
    <3>3. Balance!SumFunctionOnSet(Balance!Amounts(rows2), Balance!OwnedBy(owner2, p))
            = r.amount + Balance!SumFunctionOnSet(Balance!Amounts(rows2), Balance!OwnedBy(owner, p))
      <4>. DEFINE S == Balance!OwnedBy(owner, p)
                  w == Balance!Amounts(rows2)
      <4>1. S \in SUBSET (1..x) /\ x \notin S
        BY <1>2, <1>7
      <4>2. w \in Column(x)
        BY <1>2, ColumnsAre
      <4>3. w[x] = r.amount
        BY <1>2 DEF Balance!Amounts
      <4>. HIDE DEF S, w, x
      <4>4. Balance!SumFunctionOnSet(w, S \cup {x}) = w[x] + Balance!SumFunctionOnSet(w, S)
        BY <1>2, <4>1, <4>2, SumOneMore
      <4>. QED  BY <3>1, <4>3, <4>4 DEF S, w
    <3>4. r.amount \in Int
      BY DEF Balance!Row
    <3>5. ch2[p] = ch[p] + r.amount
      BY <2>2
    <3>. QED  BY <1>7, <2>0, <3>2, <3>3, <3>4, <3>5 DEF CostIn
  <2>. QED  BY <2>1, <2>2
<1>. HIDE DEF rows2
<1>9. Balance!CostsOf(rows2, ch2)
  BY <1>6, <1>8, CostsForm
<1>. QED  BY <1>9 DEF rows2

\* A canceled deal gives its cost back.
LEMMA CostsMarked ==
  ASSUME NEW rows \in Seq(Balance!Row), NEW q \in Position, NEW k \in Balance!Indices(rows, q),
         rows[k].order = q, q # CloseBy,
         NEW ch, Balance!CostsOf(rows, ch), NEW ch2,
         \A p \in Position : ch2[p] = IF p = q THEN ch[p] - rows[k].cost ELSE ch[p]
  PROVE  Balance!CostsOf([rows EXCEPT ![k] = Marked(rows[k])], ch2)
<1>. DEFINE rows2 == [rows EXCEPT ![k] = Marked(rows[k])]
            n == Len(rows)
<1>1. PICK owner : OwnersOf(rows, owner) /\ \A p \in Position : ch[p] = CostIn(rows, owner, p)
  BY CostsForm
<1>0. k \in DOMAIN rows /\ rows[k].pos = q /\ Balance!IsTrade(rows[k])
  BY DEF Balance!Indices
<1>2. /\ n \in Nat /\ DOMAIN rows = 1..n /\ k \in 1..n
      /\ rows2 \in Seq(Balance!Row) /\ Len(rows2) = n /\ DOMAIN rows2 = 1..n
      /\ \A i \in 1..n : i # k => rows2[i] = rows[i]
      /\ rows2[k].kind = "canceled"
  BY <1>0, RowsForm, MarkForm
<1>3. Balance!Indices(rows2, q) = Balance!Indices(rows, q) \ {k}
  BY <1>0, MarkOwn
<1>4. ASSUME NEW p, p # q
      PROVE  /\ Balance!Indices(rows2, p) = Balance!Indices(rows, p)
             /\ k \notin Balance!Indices(rows, p)
  <2>1. rows[k].pos # p
    BY <1>0, <1>4
  <2>2. Balance!Indices(rows2, p) = Balance!Indices(rows, p)
    BY <1>0, <2>1, MarkKeeps
  <2>3. k \notin Balance!Indices(rows, p)
    BY <2>1 DEF Balance!Indices
  <2>. QED  BY <2>2, <2>3
<1>. HIDE DEF rows2, n
<1>5. /\ Balance!Commissions(rows2) = Balance!Commissions(rows) /\ Balance!Commissions(rows) \in SUBSET (1..n)
      /\ k \notin Balance!Commissions(rows)
  BY <1>0, <1>2 DEF Balance!Commissions, Balance!IsTrade
<1>6. OwnersOf(rows2, owner)
  <2>1. ASSUME NEW i \in Balance!Commissions(rows) PROVE Balance!Linked(rows2, rows2[i], owner[i])
    <3>1. Balance!Linked(rows, rows[i], owner[i]) /\ rows2[i] = rows[i]
      BY <1>1, <1>2, <1>5 DEF OwnersOf
    <3>2. ASSUME NEW j \in Balance!Indices(rows, owner[i]), rows[j].order = CloseBy
          PROVE  j \in Balance!Indices(rows2, owner[i]) /\ rows2[j].order = CloseBy
      <4>1. j # k /\ j \in 1..n
        BY <1>2, <3>2 DEF Balance!Indices
      <4>2. rows2[j] = rows[j]
        BY <1>2, <4>1
      <4>. QED  BY <1>2, <3>2, <4>1, <4>2 DEF Balance!Indices
    <3>. QED  BY <3>1, <3>2 DEF Balance!Linked
  <2>2. owner \in [Balance!Commissions(rows2) -> Position]
    BY <1>1, <1>5 DEF OwnersOf
  <2>. QED  BY <1>5, <2>1, <2>2 DEF OwnersOf
<1>7. ASSUME NEW p \in Position
      PROVE  /\ Balance!SumFunctionOnSet(Balance!Costings(rows2), Balance!Indices(rows, p) \ {k})
                  = Balance!SumFunctionOnSet(Balance!Costings(rows), Balance!Indices(rows, p) \ {k})
             /\ Balance!SumFunctionOnSet(Balance!Amounts(rows2), Balance!OwnedBy(owner, p))
                  = Balance!SumFunctionOnSet(Balance!Amounts(rows), Balance!OwnedBy(owner, p))
             /\ Balance!Indices(rows, p) \in SUBSET (1..n)
  <2>1. /\ Balance!Indices(rows, p) \in SUBSET (1..n) /\ Balance!OwnedBy(owner, p) \in SUBSET (1..n)
        /\ k \notin Balance!OwnedBy(owner, p)
    BY <1>1, <1>5, RowsForm, OwnedForm DEF n
  <2>2. Shared(rows, rows2, Balance!Indices(rows, p) \ {k}) /\ Shared(rows, rows2, Balance!OwnedBy(owner, p))
    BY <1>2, <2>1 DEF Shared, n
  <2>. QED  BY <1>2, <2>1, <2>2, RowsAgree
<1>8. ASSUME NEW p \in Position PROVE ch2[p] = CostIn(rows2, owner, p)
  <2>0. ch[p] = CostIn(rows, owner, p)
    BY <1>1
  <2>1. CASE p # q
    <3>1. /\ Balance!Indices(rows2, p) = Balance!Indices(rows, p)
          /\ Balance!Indices(rows, p) \ {k} = Balance!Indices(rows, p)
      BY <1>4, <2>1
    <3>. QED  BY <1>7, <2>0, <2>1, <3>1 DEF CostIn
  <2>2. CASE p = q
    <3>2. Balance!SumFunctionOnSet(Balance!Amounts(rows), Balance!OwnedBy(owner, p)) \in Int
      BY <1>1, CostInInt
    <3>3. /\ Balance!SumFunctionOnSet(Balance!Costings(rows), Balance!Indices(rows, p))
               = rows[k].cost + Balance!SumFunctionOnSet(Balance!Costings(rows), Balance!Indices(rows, p) \ {k})
          /\ Balance!SumFunctionOnSet(Balance!Costings(rows), Balance!Indices(rows, p) \ {k}) \in Int
      <4>. DEFINE S == Balance!Indices(rows, p) \ {k}
                  w == Balance!Costings(rows)
      <4>1. S \in SUBSET (1..n) /\ k \notin S /\ S \cup {k} = Balance!Indices(rows, p)
        BY <1>2, <1>7, <2>2
      <4>2. w \in Column(n)
        BY ColumnsAre DEF n
      <4>3. w[k] = rows[k].cost
        BY <1>0 DEF Balance!Costings
      <4>. HIDE DEF S, w
      <4>4. Balance!SumFunctionOnSet(w, S \cup {k}) = w[k] + Balance!SumFunctionOnSet(w, S)
        BY <1>2, <4>1, <4>2, SumOneMore
      <4>5. Balance!SumFunctionOnSet(w, S) \in Int
        BY <1>2, <4>1, <4>2, SumInt
      <4>. QED  BY <4>1, <4>3, <4>4, <4>5 DEF S, w
    <3>4. rows[k].cost \in Int
      <4>1. rows[k] \in Balance!Row
        BY <1>0, RowsForm
      <4>. QED  BY <4>1 DEF Balance!Row
    <3>5. ch2[p] = ch[p] - rows[k].cost
      BY <2>2
    <3>. DEFINE A == Balance!SumFunctionOnSet(Balance!Costings(rows), Balance!Indices(rows, p) \ {k})
                B == Balance!SumFunctionOnSet(Balance!Amounts(rows), Balance!OwnedBy(owner, p))
                c == rows[k].cost
    <3>6. ch[p] = (c + A) + B
      BY <2>0, <3>3, Zenon DEF CostIn
    <3>7. CostIn(rows2, owner, p) = A + B
      BY <1>3, <1>7, <2>2, Zenon DEF CostIn
    <3>8. A \in Int /\ B \in Int /\ c \in Int /\ ch2[p] = ch[p] - c
      BY <3>2, <3>3, <3>4, <3>5
    <3>. HIDE DEF A, B, c
    <3>9. ch2[p] = A + B
      BY <3>6, <3>8
    <3>. QED  BY <3>7, <3>9
  <2>. QED  BY <2>1, <2>2
<1>9. Balance!CostsOf(rows2, ch2)
  BY <1>2, <1>6, <1>8, CostsForm
<1>. QED  BY <1>9 DEF rows2

\* A deal of p that follows what p held.
DealOf(r, p, h) ==
  /\ r \in Balance!Row /\ Balance!IsTrade(r) /\ r.pos = p /\ Balance!TradeRow(r)
  /\ Balance!Follows(r, h) /\ Balance!Effect(r) = r.amount /\ r.after \in Nat

LEMMA EnterForm ==
  ASSUME NEW p \in Position, NEW v \in Nat, v >= 1, NEW h \in Nat
  PROVE  LET r == Balance!DealRow(p, p, "IN", v, -1, -1, h + v)
         IN  /\ DealOf(r, p, h) /\ r.entry = "IN" /\ r.after = h + v
             /\ r.amount = -1 /\ r.cost = -1 /\ r.kind = "trade"
<1>. DEFINE r == Balance!DealRow(p, p, "IN", v, -1, -1, h + v)
<1>1. r = [kind |-> "trade", pos |-> p, order |-> p, entry |-> "IN", vol |-> v,
           amount |-> -1, cost |-> -1, after |-> h + v]
  BY DEF Balance!DealRow
<1>2. h + v \in Nat /\ -1 \in Int /\ "trade" \in Balance!Kind
  BY DEF Balance!Kind
<1>. HIDE DEF r
<1>3. r \in Balance!Row
  BY <1>1, <1>2 DEF Balance!Row
<1>4. /\ r.entry = "IN" /\ r.after = h + v /\ r.amount = -1 /\ r.cost = -1
      /\ r.kind = "trade" /\ r.pos = p /\ r.order = p /\ r.vol = v
  BY <1>1
<1>5. DealOf(r, p, h)
  BY <1>2, <1>3, <1>4 DEF DealOf, Balance!IsTrade, Balance!TradeRow, Balance!Follows, Balance!Effect
<1>. QED  BY <1>4, <1>5 DEF r

LEMMA LeaveForm ==
  ASSUME NEW p \in Position, NEW h \in Nat, NEW v \in 1..h, NEW o \in {p, CloseBy}
  PROVE  LET r == Balance!DealRow(p, o, "OUT", v, v, 0, h - v)
         IN  /\ DealOf(r, p, h) /\ r.entry = "OUT" /\ r.after = h - v
             /\ r.amount = v /\ r.cost = 0 /\ r.kind = "trade"
<1>. DEFINE r == Balance!DealRow(p, o, "OUT", v, v, 0, h - v)
<1>1. r = [kind |-> "trade", pos |-> p, order |-> o, entry |-> "OUT", vol |-> v,
           amount |-> v, cost |-> 0, after |-> h - v]
  BY DEF Balance!DealRow
<1>2. h - v \in Nat /\ v \in Int /\ v \in Nat /\ v >= 1 /\ v <= h /\ 0 \in Int /\ "trade" \in Balance!Kind
  BY DEF Balance!Kind
<1>. HIDE DEF r
<1>3. r \in Balance!Row
  BY <1>1, <1>2 DEF Balance!Row
<1>4. /\ r.entry = "OUT" /\ r.after = h - v /\ r.amount = v /\ r.cost = 0
      /\ r.kind = "trade" /\ r.pos = p /\ r.order = o /\ r.vol = v
  BY <1>1
<1>5. DealOf(r, p, h)
  BY <1>2, <1>3, <1>4 DEF DealOf, Balance!IsTrade, Balance!TradeRow, Balance!Follows, Balance!Effect
<1>. QED  BY <1>4, <1>5 DEF r

LEMMA ReversalForm ==
  ASSUME NEW p \in Position, NEW h \in Nat, h > 0
  PROVE  LET r == Balance!DealRow(p, p, "INOUT", h + 1, 1, 0, 1)
         IN  /\ DealOf(r, p, h) /\ r.entry = "INOUT" /\ r.after = 1
             /\ r.amount = 1 /\ r.cost = 0 /\ r.kind = "trade"
<1>. DEFINE r == Balance!DealRow(p, p, "INOUT", h + 1, 1, 0, 1)
<1>1. r = [kind |-> "trade", pos |-> p, order |-> p, entry |-> "INOUT", vol |-> h + 1,
           amount |-> 1, cost |-> 0, after |-> 1]
  BY DEF Balance!DealRow
<1>2. h + 1 \in Nat /\ h + 1 >= 1 /\ 0 \in Int /\ 1 \in Int /\ 1 \in Nat /\ "trade" \in Balance!Kind
  BY DEF Balance!Kind
<1>. HIDE DEF r
<1>3. r \in Balance!Row
  BY <1>1, <1>2 DEF Balance!Row
<1>4. /\ r.entry = "INOUT" /\ r.after = 1 /\ r.amount = 1 /\ r.cost = 0
      /\ r.kind = "trade" /\ r.pos = p /\ r.order = p /\ r.vol = h + 1
  BY <1>1
<1>5. DealOf(r, p, h)
  BY <1>2, <1>3, <1>4 DEF DealOf, Balance!IsTrade, Balance!TradeRow, Balance!Follows, Balance!Effect
<1>. QED  BY <1>4, <1>5 DEF r

LEMMA OtherForm ==
  ASSUME NEW kind \in {"cash", "credit", "unknown"}, NEW a \in Int
  PROVE  LET r == Balance!CashRow(kind, None, None, a)
         IN  /\ r \in Balance!Row /\ ~Balance!IsTrade(r) /\ r.kind # "commission"
             /\ Balance!Effect(r) = IF kind = "credit" THEN 0 ELSE a
             /\ r.amount = a /\ r.kind = kind
<1>. DEFINE r == Balance!CashRow(kind, None, None, a)
<1>1. r = [kind |-> kind, pos |-> None, order |-> None, entry |-> "IN", vol |-> 0,
           amount |-> a, cost |-> 0, after |-> 0]
  BY DEF Balance!CashRow
<1>2. 0 \in Nat /\ 0 \in Int /\ kind \in Balance!Kind
  BY DEF Balance!Kind
<1>. HIDE DEF r
<1>3. r \in Balance!Row
  BY <1>1, <1>2 DEF Balance!Row
<1>. QED  BY <1>1, <1>3 DEF Balance!IsTrade, Balance!Effect, r

LEMMA ChargeForm ==
  ASSUME NEW pos \in Position \cup {None}, NEW order \in Position \cup {None, CloseBy}
  PROVE  LET r == Balance!CashRow("commission", pos, order, -1)
         IN  /\ r \in Balance!Row /\ ~Balance!IsTrade(r) /\ r.kind = "commission" /\ Balance!Effect(r) = -1
             /\ r.amount = -1 /\ r.pos = pos /\ r.order = order
<1>. DEFINE r == Balance!CashRow("commission", pos, order, -1)
<1>1. r = [kind |-> "commission", pos |-> pos, order |-> order, entry |-> "IN", vol |-> 0,
           amount |-> -1, cost |-> 0, after |-> 0]
  BY DEF Balance!CashRow
<1>2. 0 \in Nat /\ 0 \in Int /\ -1 \in Int /\ "commission" \in Balance!Kind
  BY DEF Balance!Kind
<1>. HIDE DEF r
<1>3. r \in Balance!Row
  BY <1>1, <1>2 DEF Balance!Row
<1>. QED  BY <1>1, <1>3 DEF Balance!IsTrade, Balance!Effect, r

LEMMA BackForm ==
  ASSUME NEW a \in Int
  PROVE  LET r == Balance!CashRow("cash", None, None, a)
         IN  /\ r \in Balance!Row /\ ~Balance!IsTrade(r) /\ r.kind = "cash" /\ Balance!Effect(r) = a
<1>. DEFINE r == Balance!CashRow("cash", None, None, a)
<1>1. r = [kind |-> "cash", pos |-> None, order |-> None, entry |-> "IN", vol |-> 0,
           amount |-> a, cost |-> 0, after |-> 0]
  BY DEF Balance!CashRow
<1>2. 0 \in Nat /\ 0 \in Int /\ "cash" \in Balance!Kind
  BY DEF Balance!Kind
<1>. HIDE DEF r
<1>3. r \in Balance!Row
  BY <1>1, <1>2 DEF Balance!Row
<1>. QED  BY <1>1, <1>3 DEF Balance!IsTrade, Balance!Effect, r

\* The trade rows of a ledger stay trade rows as another is added.
LEMMA TradeRowsGrow ==
  ASSUME NEW rows \in Seq(Balance!Row), NEW r \in Balance!Row, Balance!TradeRow(r),
         \A i \in DOMAIN rows : Balance!TradeRow(rows[i])
  PROVE  \A i \in DOMAIN Append(rows, r) : Balance!TradeRow(Append(rows, r)[i])
<1>1. DOMAIN rows = 1..Len(rows) /\ Len(rows) \in Nat
  BY RowsForm
<1>2. /\ DOMAIN Append(rows, r) = 1..(Len(rows) + 1)
      /\ \A i \in 1..Len(rows) : Append(rows, r)[i] = rows[i]
      /\ Append(rows, r)[Len(rows) + 1] = r
  BY AppendForm
<1>3. ASSUME NEW i \in 1..(Len(rows) + 1) PROVE Balance!TradeRow(Append(rows, r)[i])
  <2>1. CASE i = Len(rows) + 1
    BY <1>2, <2>1
  <2>2. CASE i # Len(rows) + 1
    <3>1. i \in 1..Len(rows)
      BY <1>1, <2>2
    <3>. QED  BY <1>1, <1>2, <3>1
  <2>. QED  BY <2>1, <2>2
<1>. QED  BY <1>2, <1>3

\* A row that is no deal of q leaves its chain as it is.
LEMMA ChainOther ==
  ASSUME NEW rows \in Seq(Balance!Row), NEW r \in Balance!Row, NEW q, ~(Balance!IsTrade(r) /\ r.pos = q),
         NEW h, NEW b, NEW odd \in BOOLEAN, Balance!ChainOf(q, rows, h, b, odd)
  PROVE  Balance!ChainOf(q, Append(rows, r), h, b, odd)
<1>. DEFINE rows2 == Append(rows, r)
<1>1. Keeps(rows, rows2, q, 0) /\ rows2 \in Seq(Balance!Row) /\ 0 \in Nat
  BY AppendKeeps, AppendForm
<1>. HIDE DEF rows2
<1>2. Balance!ChainOf(q, rows2, h, b, odd)
  BY <1>1, ChainMoved
<1>. QED  BY <1>2 DEF rows2

LEMMA ChainArchived ==
  ASSUME NEW rows \in Seq(Balance!Row), rows # <<>>, NEW q, Head(rows).pos # q,
         NEW h, NEW b, NEW odd \in BOOLEAN, Balance!ChainOf(q, rows, h, b, odd)
  PROVE  Balance!ChainOf(q, Tail(rows), h, b, odd)
<1>. DEFINE rows2 == Tail(rows)
<1>1. Keeps(rows, rows2, q, 1) /\ rows2 \in Seq(Balance!Row) /\ 1 \in Nat
  BY TailKeeps, TailForm
<1>. HIDE DEF rows2
<1>2. Balance!ChainOf(q, rows2, h, b, odd)
  BY <1>1, ChainMoved
<1>. QED  BY <1>2 DEF rows2

Canceled(rows, k) == [rows EXCEPT ![k] = Marked(rows[k])]
LastOf(rows, q) == Balance!Max(Balance!Indices(rows, q))
RestOf(rows, q) == Balance!Indices(rows, q) \ {LastOf(rows, q)}
Refunded(ch, ch2, q, c) == \A p \in Position : ch2[p] = IF p = q THEN ch[p] - c ELSE ch[p]

LEMMA ChainCanceled ==
  ASSUME NEW rows \in Seq(Balance!Row), NEW q, Balance!Indices(rows, q) # {},
         NEW h, NEW b, NEW odd \in BOOLEAN, Balance!ChainOf(q, rows, h, b, odd),
         NEW b2, RestOf(rows, q) = {} <=> b2 = {}
  PROVE  Balance!ChainOf(q, Canceled(rows, LastOf(rows, q)), Balance!LeftBy(rows, RestOf(rows, q)), b2, odd)
<1>1. (Balance!Indices(rows, q) \ {Balance!Max(Balance!Indices(rows, q))} = {}) <=> b2 = {}
  BY DEF RestOf, LastOf
<1>. QED  BY <1>1, ChainShortens DEF Canceled, RestOf, LastOf

LEMMA BalanceCanceled ==
  ASSUME NEW rows \in Seq(Balance!Row), NEW q, Balance!Indices(rows, q) # {}, NEW bal, NEW b
  PROVE  Balance!BalanceOf(q, Canceled(rows, LastOf(rows, q)), bal, b)
BY BalanceMarkedOwn DEF Canceled, LastOf

LEMMA CostsCanceled ==
  ASSUME NEW rows \in Seq(Balance!Row), NEW q \in Position, NEW k \in Balance!Indices(rows, q),
         rows[k].order = q, q # CloseBy,
         NEW ch, Balance!CostsOf(rows, ch), NEW ch2, Refunded(ch, ch2, q, rows[k].cost)
  PROVE  Balance!CostsOf(Canceled(rows, k), ch2)
<1>1. \A p \in Position : ch2[p] = IF p = q THEN ch[p] - rows[k].cost ELSE ch[p]
  BY DEF Refunded
<1>. QED  BY <1>1, CostsMarked DEF Canceled

\* What a deal of p changes besides the ledger.
Deals(p, r) ==
  /\ DealOf(r, p, held[p]) /\ ledger' = Append(ledger, r)
  /\ balance' = balance + r.amount
  /\ held' = [held EXCEPT ![p] = r.after]
  /\ before' = [before EXCEPT ![p] = IF before[p] = {} /\ r.entry = "IN" THEN {balance} ELSE @]
  /\ before[p] = {} => r.entry = "IN" \/ held[p] > 0
  /\ charged' = [charged EXCEPT ![p] = @ + r.cost]
  /\ irregular' \in {irregular, irregular \cup {p}}
  /\ r.entry = "INOUT" \/ (r.entry = "IN" /\ before[p] # {} /\ held[p] = 0) => p \in irregular'
  /\ UNCHANGED <<cut, archived>>

\* A row that is no deal is booked.
Books(r) ==
  /\ r \in Balance!Row /\ ~Balance!IsTrade(r) /\ ledger' = Append(ledger, r)
  /\ balance' = balance + Balance!Effect(r)
  /\ UNCHANGED <<held, before, irregular, cut, archived>>

LEMMA EnterDeals ==
  ASSUME Balance!TypeInv, NEW p \in Position, NEW v \in 1..MaxVolume, MaxVolume \in Nat, Balance!Enter(p, v)
  PROVE  \E r : Deals(p, r)
<1>. DEFINE h == held[p]
            r == Balance!DealRow(p, p, "IN", v, -1, -1, h + v)
<1>1. h \in Nat /\ v \in Nat /\ v >= 1
  BY DEF Balance!TypeInv, Balance!TypeOK
<1>2. /\ DealOf(r, p, h) /\ r.entry = "IN" /\ r.after = h + v
      /\ r.amount = -1 /\ r.cost = -1 /\ r.kind = "trade"
  <2>. HIDE DEF h
  <2>. QED  BY <1>1, EnterForm
<1>3. /\ ledger' = Append(ledger, r)
      /\ balance' = balance + (IF r.kind = "credit" THEN 0 ELSE r.amount)
      /\ UNCHANGED <<cut, archived>>
  BY DEF Balance!Enter, Balance!Post
<1>4. balance' = balance + r.amount
  BY <1>2, <1>3
<1>5. held' = [held EXCEPT ![p] = r.after]
  BY <1>2 DEF Balance!Enter
<1>6. before' = [before EXCEPT ![p] = IF before[p] = {} /\ r.entry = "IN" THEN {balance} ELSE @]
  <2>1. CASE before[p] = {}
    BY <1>2, <2>1 DEF Balance!Enter, Balance!TypeInv, Balance!TypeOK
  <2>2. CASE before[p] # {}
    <3>1. before' = before
      BY <2>2 DEF Balance!Enter
    <3>. QED  BY <2>2, <3>1 DEF Balance!TypeInv, Balance!TypeOK
  <2>. QED  BY <2>1, <2>2
<1>7. charged' = [charged EXCEPT ![p] = @ + r.cost]
  <2>1. charged' = [charged EXCEPT ![p] = @ - 1] /\ charged[p] \in Int
    BY DEF Balance!Enter, Balance!TypeInv, Balance!TypeOK
  <2>2. charged[p] - 1 = charged[p] + r.cost
    BY <1>2, <2>1
  <2>. HIDE DEF r
  <2>. QED  BY <2>1, <2>2
<1>8. /\ irregular' \in {irregular, irregular \cup {p}}
      /\ (before[p] # {} /\ h = 0) => p \in irregular'
  BY DEF Balance!Enter
<1>. HIDE DEF r
<1>9. Deals(p, r)
  BY <1>2, <1>3, <1>4, <1>5, <1>6, <1>7, <1>8 DEF Deals
<1>. QED  BY <1>9

LEMMA LeaveDeals ==
  ASSUME Balance!TypeInv, NEW p \in Position, NEW v, NEW o \in {p, CloseBy}, Balance!Leave(p, v, o)
  PROVE  \E r : Deals(p, r)
<1>. DEFINE h == held[p]
            r == Balance!DealRow(p, o, "OUT", v, v, 0, h - v)
<1>1. h \in Nat /\ v \in 1..h
  BY DEF Balance!TypeInv, Balance!TypeOK, Balance!Leave
<1>2. /\ DealOf(r, p, h) /\ r.entry = "OUT" /\ r.after = h - v
      /\ r.amount = v /\ r.cost = 0 /\ r.kind = "trade"
  <2>. HIDE DEF h
  <2>. QED  BY <1>1, LeaveForm, Zenon
<1>3. /\ ledger' = Append(ledger, r)
      /\ balance' = balance + (IF r.kind = "credit" THEN 0 ELSE r.amount)
      /\ UNCHANGED <<cut, archived>>
  BY DEF Balance!Leave, Balance!Post
<1>4. balance' = balance + r.amount
  BY <1>2, <1>3
<1>5. held' = [held EXCEPT ![p] = r.after]
  BY <1>2 DEF Balance!Leave
<1>6. before' = [before EXCEPT ![p] = IF before[p] = {} /\ r.entry = "IN" THEN {balance} ELSE @]
  <2>1. before' = before
    BY DEF Balance!Leave
  <2>. QED  BY <1>2, <2>1 DEF Balance!TypeInv, Balance!TypeOK
<1>7. charged' = [charged EXCEPT ![p] = @ + r.cost]
  <2>1. charged' = charged /\ charged[p] \in Int
    BY DEF Balance!Leave, Balance!TypeInv, Balance!TypeOK
  <2>2. charged[p] = charged[p] + r.cost
    BY <1>2, <2>1
  <2>. HIDE DEF r
  <2>. QED  BY <2>1, <2>2 DEF Balance!TypeInv, Balance!TypeOK
<1>8. irregular' = irregular /\ h > 0
  BY <1>1 DEF Balance!Leave
<1>. HIDE DEF r
<1>9. Deals(p, r)
  BY <1>2, <1>3, <1>4, <1>5, <1>6, <1>7, <1>8 DEF Deals
<1>. QED  BY <1>9

LEMMA ReversalDeals ==
  ASSUME Balance!TypeInv, NEW p \in Position, Balance!Reversal(p)
  PROVE  \E r : Deals(p, r)
<1>. DEFINE h == held[p]
            r == Balance!DealRow(p, p, "INOUT", h + 1, 1, 0, 1)
<1>1. h \in Nat /\ h > 0
  BY DEF Balance!TypeInv, Balance!TypeOK, Balance!Reversal
<1>2. /\ DealOf(r, p, h) /\ r.entry = "INOUT" /\ r.after = 1
      /\ r.amount = 1 /\ r.cost = 0 /\ r.kind = "trade"
  <2>. HIDE DEF h
  <2>. QED  BY <1>1, ReversalForm
<1>3. /\ ledger' = Append(ledger, r)
      /\ balance' = balance + (IF r.kind = "credit" THEN 0 ELSE r.amount)
      /\ UNCHANGED <<cut, archived>>
  BY DEF Balance!Reversal, Balance!Post
<1>4. balance' = balance + r.amount
  BY <1>2, <1>3
<1>5. held' = [held EXCEPT ![p] = r.after]
  BY <1>2 DEF Balance!Reversal
<1>6. before' = [before EXCEPT ![p] = IF before[p] = {} /\ r.entry = "IN" THEN {balance} ELSE @]
  <2>1. before' = before
    BY DEF Balance!Reversal
  <2>. QED  BY <1>2, <2>1 DEF Balance!TypeInv, Balance!TypeOK
<1>7. charged' = [charged EXCEPT ![p] = @ + r.cost]
  <2>1. charged' = charged /\ charged[p] \in Int
    BY DEF Balance!Reversal, Balance!TypeInv, Balance!TypeOK
  <2>2. charged[p] = charged[p] + r.cost
    BY <1>2, <2>1
  <2>. HIDE DEF r
  <2>. QED  BY <2>1, <2>2 DEF Balance!TypeInv, Balance!TypeOK
<1>8. irregular' = irregular \cup {p}
  BY DEF Balance!Reversal
<1>. HIDE DEF r
<1>9. Deals(p, r)
  BY <1>1, <1>2, <1>3, <1>4, <1>5, <1>6, <1>7, <1>8 DEF Deals
<1>. QED  BY <1>9

LEMMA AdjustBooks ==
  ASSUME NEW kind \in {"cash", "credit", "unknown"}, NEW a \in Int, Balance!Adjust(kind, a)
  PROVE  \E r : Books(r) /\ r.kind # "commission" /\ charged' = charged
<1>. DEFINE r == Balance!CashRow(kind, None, None, a)
<1>1. /\ r \in Balance!Row /\ ~Balance!IsTrade(r) /\ r.kind # "commission"
      /\ Balance!Effect(r) = IF kind = "credit" THEN 0 ELSE a
      /\ r.amount = a /\ r.kind = kind
  BY OtherForm
<1>2. /\ ledger' = Append(ledger, r)
      /\ balance' = balance + (IF r.kind = "credit" THEN 0 ELSE r.amount)
      /\ UNCHANGED <<cut, archived>> /\ UNCHANGED <<held, before, charged, irregular>>
  BY DEF Balance!Adjust, Balance!Post
<1>. HIDE DEF r
<1>3. Books(r)
  BY <1>1, <1>2 DEF Books
<1>. QED  BY <1>1, <1>2, <1>3

LEMMA ChargeBooks ==
  ASSUME NEW p \in Position, NEW pos \in {p, None}, NEW order \in {p, CloseBy, None},
         Balance!Charge(p, pos, order)
  PROVE  \E r : /\ Books(r) /\ r.kind = "commission" /\ Balance!Linked(ledger, r, p) /\ r.amount = -1
                /\ charged' = [charged EXCEPT ![p] = @ - 1]
<1>. DEFINE r == Balance!CashRow("commission", pos, order, -1)
<1>1. /\ r \in Balance!Row /\ ~Balance!IsTrade(r) /\ r.kind = "commission" /\ Balance!Effect(r) = -1
      /\ r.amount = -1 /\ r.pos = pos /\ r.order = order
  BY ChargeForm
<1>2. /\ ledger' = Append(ledger, r)
      /\ balance' = balance + (IF r.kind = "credit" THEN 0 ELSE r.amount)
      /\ UNCHANGED <<cut, archived>> /\ UNCHANGED <<held, before, irregular>>
      /\ charged' = [charged EXCEPT ![p] = @ - 1]
  BY DEF Balance!Charge, Balance!Post
<1>3. Balance!Linked(ledger, r, p)
  <2>. HIDE DEF r
  <2>. QED  BY <1>1 DEF Balance!Charge, Balance!Linked
<1>. HIDE DEF r
<1>4. Books(r)
  BY <1>1, <1>2 DEF Books
<1>. QED  BY <1>1, <1>2, <1>3, <1>4

\* A deal of p is one link more of its chain.
LEMMA DealStep ==
  ASSUME Balance!IInv, NEW p \in Position, NEW r, Deals(p, r)
  PROVE  Balance!IInv'
<1>0. Balance!TypeInv /\ Balance!ChainInv /\ Balance!BalanceInv /\ Balance!CostsInv
  BY DEF Balance!IInv
<1>1. /\ ledger \in Seq(Balance!Row) /\ r \in Balance!Row /\ Balance!IsTrade(r)
      /\ r.pos = p /\ Balance!Follows(r, held[p])
      /\ r.amount \in Int /\ Balance!Effect(r) = r.amount /\ r.cost \in Int /\ r.after \in Nat
      /\ ledger' = Append(ledger, r)
  BY <1>0 DEF Balance!TypeInv, Balance!TypeOK, Deals, DealOf, Balance!Row
<1>2. Balance!TypeInv'
  <2>1. ledger' \in Seq(Balance!Row) /\ \A i \in DOMAIN ledger' : Balance!TradeRow(ledger'[i])
    <3>1. Balance!TradeRow(r) /\ \A i \in DOMAIN ledger : Balance!TradeRow(ledger[i])
      BY <1>0 DEF Balance!TypeInv, Balance!TypeOK, Deals, DealOf
    <3>. QED  BY <1>1, <3>1, AppendForm, TradeRowsGrow
  <2>2. balance' \in Int /\ held' \in [Position -> Nat] /\ charged' \in [Position -> Int]
    BY <1>0, <1>1 DEF Balance!TypeInv, Balance!TypeOK, Deals
  <2>3. before' \in [Position -> SUBSET Int] /\ \A q \in Position : \A a, b \in before'[q] : a = b
    <3>1. before' = [before EXCEPT ![p] = IF before[p] = {} /\ r.entry = "IN" THEN {balance} ELSE @]
      BY DEF Deals
    <3>2. before' \in [Position -> SUBSET Int]
      BY <1>0, <3>1 DEF Balance!TypeInv, Balance!TypeOK
    <3>3. ASSUME NEW q \in Position PROVE before'[q] = {balance} \/ before'[q] = before[q]
      BY <1>0, <3>1 DEF Balance!TypeInv, Balance!TypeOK
    <3>. QED  BY <1>0, <3>2, <3>3 DEF Balance!TypeInv, Balance!TypeOK
  <2>4. /\ irregular' \in SUBSET Position /\ cut' \in SUBSET Position
        /\ archived' \in 0..MaxArchived
    BY <1>0 DEF Balance!TypeInv, Balance!TypeOK, Deals
  <2>. QED  BY <2>1, <2>2, <2>3, <2>4 DEF Balance!TypeInv, Balance!TypeOK
<1>3. ASSUME NEW q \in Position \ cut
      PROVE  /\ Balance!ChainOf(q, ledger', held'[q], before'[q], q \in irregular')
             /\ Balance!BalanceOf(q, ledger', balance', before'[q])
  <2>1. /\ Balance!ChainOf(q, ledger, held[q], before[q], q \in irregular)
        /\ Balance!BalanceOf(q, ledger, balance, before[q])
    BY <1>0 DEF Balance!ChainInv, Balance!BalanceInv
  <2>2. balance' = balance + Balance!Effect(r) /\ balance \in Int
    BY <1>0, <1>1 DEF Deals, Balance!TypeInv, Balance!TypeOK
  <2>3. CASE q # p
    <3>1. /\ held'[q] = held[q] /\ before'[q] = before[q]
          /\ (q \in irregular') = (q \in irregular)
      BY <1>0, <2>3 DEF Deals, Balance!TypeInv, Balance!TypeOK
    <3>3. Balance!ChainOf(q, Append(ledger, r), held[q], before[q], q \in irregular)
      <4>. DEFINE odd == q \in irregular
      <4>1. odd \in BOOLEAN /\ Balance!ChainOf(q, ledger, held[q], before[q], odd)
        BY <2>1
      <4>. HIDE DEF odd
      <4>2. Balance!ChainOf(q, Append(ledger, r), held[q], before[q], odd)
        BY <1>1, <2>3, <4>1, ChainOther
      <4>. QED  BY <4>2 DEF odd
    <3>4. Balance!BalanceOf(q, Append(ledger, r), balance + Balance!Effect(r), before[q])
      BY <1>1, <2>1, <2>2, <2>3, BalanceOther
    <3>. QED  BY <1>1, <2>2, <3>1, <3>3, <3>4
  <2>4. CASE q = p
    <3>1. /\ held'[q] = r.after
          /\ before'[q] = IF before[q] = {} /\ r.entry = "IN" THEN {balance} ELSE before[q]
      BY <1>0, <2>4 DEF Deals, Balance!TypeInv, Balance!TypeOK
    <3>2. Balance!Indices(ledger, q) = {} <=> before[q] = {}
      BY <2>1 DEF Balance!ChainOf
    <3>3. before[q] = {} => r.entry = "IN"
      <4>1. SUFFICES ASSUME before[q] = {}, held[q] > 0 PROVE FALSE
        BY <2>4 DEF Deals
      <4>2. held[q] = Balance!Was(ledger, q, Len(ledger) + 1)
        BY <2>1 DEF Balance!ChainOf
      <4>3. Balance!Earlier(ledger, q, Len(ledger) + 1) = {}
        BY <1>1, <3>2, <4>1, EarlierForm
      <4>4. held[q] = 0
        BY <4>2, <4>3 DEF Balance!Was, Balance!LeftBy
      <4>. QED  BY <4>1, <4>4
    <3>4. /\ Balance!Indices(ledger, q) = {} => before'[q] = {balance}
          /\ Balance!Indices(ledger, q) # {} => before'[q] = before[q]
      BY <3>1, <3>2, <3>3
    <3>5. Balance!BalanceOf(q, Append(ledger, r), balance + Balance!Effect(r), before'[q])
      <4>. DEFINE b2 == before'[q]
      <4>. HIDE DEF b2
      <4>1. /\ Balance!Indices(ledger, q) = {} => b2 = {balance}
            /\ Balance!Indices(ledger, q) # {} => b2 = before[q]
        BY <3>4 DEF b2
      <4>2. Balance!BalanceOf(q, Append(ledger, r), balance + Balance!Effect(r), b2)
        BY <1>1, <2>1, <2>2, <2>4, <4>1, BalanceOwn
      <4>. QED  BY <4>2 DEF b2
    <3>6. Balance!ChainOf(q, Append(ledger, r), r.after, before'[q], q \in irregular')
      <4>. DEFINE b2 == before'[q]
                  odd == q \in irregular
                  odd2 == q \in irregular'
      <4>1. b2 # {}
        BY <3>1, <3>3
      <4>2. ~odd2 => (~odd /\ r.entry # "INOUT" /\ ((r.entry = "IN" /\ before[q] # {}) => held[q] > 0))
        <5>1. held[q] \in Nat
          BY <1>0 DEF Balance!TypeInv, Balance!TypeOK
        <5>. QED  BY <2>4, <5>1 DEF Deals
      <4>3. odd \in BOOLEAN /\ odd2 \in BOOLEAN /\ Balance!ChainOf(q, ledger, held[q], before[q], odd)
        BY <2>1
      <4>. HIDE DEF b2, odd, odd2
      <4>4. Balance!ChainOf(q, Append(ledger, r), r.after, b2, odd2)
        BY <1>1, <2>4, <4>1, <4>2, <4>3, ChainGrows
      <4>. QED  BY <4>4 DEF b2, odd2
    <3>. QED  BY <1>1, <2>2, <3>1, <3>5, <3>6
  <2>. QED  BY <2>3, <2>4
<1>4. Balance!CostsInv'
  <2>1. SUFFICES ASSUME archived = 0 PROVE Balance!CostsOf(ledger', charged')
    BY DEF Balance!CostsInv, Deals
  <2>2. Balance!CostsOf(ledger, charged)
    BY <1>0, <2>1 DEF Balance!CostsInv
  <2>3. \A q \in Position : charged'[q] = IF q = p THEN charged[q] + r.cost ELSE charged[q]
    BY <1>0 DEF Deals, Balance!TypeInv, Balance!TypeOK
  <2>. DEFINE ch2 == charged'
  <2>. HIDE DEF ch2
  <2>4. \A q \in Position : ch2[q] = IF q = p THEN charged[q] + r.cost ELSE charged[q]
    BY <2>3 DEF ch2
  <2>5. Balance!CostsOf(Append(ledger, r), ch2)
    BY <1>1, <2>2, <2>4, CostsTrade
  <2>. QED  BY <1>1, <2>5 DEF ch2
<1>5. cut' = cut
  BY DEF Deals
<1>. QED  BY <1>2, <1>3, <1>4, <1>5 DEF Balance!IInv, Balance!ChainInv, Balance!BalanceInv

\* Another row changes no chain, and a balance by what the walk takes back.
LEMMA BookStep ==
  ASSUME Balance!IInv, NEW r, Books(r), charged' \in [Position -> Int],
         archived = 0 => Balance!CostsOf(Append(ledger, r), charged')
  PROVE  Balance!IInv'
<1>0. Balance!TypeInv /\ Balance!ChainInv /\ Balance!BalanceInv /\ Balance!CostsInv
  BY DEF Balance!IInv
<1>1. /\ ledger \in Seq(Balance!Row) /\ r \in Balance!Row /\ ~Balance!IsTrade(r) /\ Balance!Effect(r) \in Int
      /\ ledger' = Append(ledger, r)
  BY <1>0 DEF Balance!TypeInv, Balance!TypeOK, Books, Balance!Row, Balance!Effect
<1>2. Balance!TypeInv'
  <2>1. ledger' \in Seq(Balance!Row) /\ \A i \in DOMAIN ledger' : Balance!TradeRow(ledger'[i])
    <3>1. Balance!TradeRow(r) /\ \A i \in DOMAIN ledger : Balance!TradeRow(ledger[i])
      BY <1>0, <1>1 DEF Balance!TypeInv, Balance!TypeOK, Balance!TradeRow
    <3>. QED  BY <1>1, <3>1, AppendForm, TradeRowsGrow
  <2>2. balance' \in Int
    BY <1>0, <1>1 DEF Balance!TypeInv, Balance!TypeOK, Books
  <2>. QED  BY <1>0, <2>1, <2>2 DEF Balance!TypeInv, Balance!TypeOK, Books
<1>3. ASSUME NEW q \in Position \ cut
      PROVE  /\ Balance!ChainOf(q, ledger', held'[q], before'[q], q \in irregular')
             /\ Balance!BalanceOf(q, ledger', balance', before'[q])
  <2>1. /\ Balance!ChainOf(q, ledger, held[q], before[q], q \in irregular)
        /\ Balance!BalanceOf(q, ledger, balance, before[q])
    BY <1>0 DEF Balance!ChainInv, Balance!BalanceInv
  <2>2. balance' = balance + Balance!Effect(r) /\ balance \in Int
    BY <1>0, <1>1 DEF Books, Balance!TypeInv, Balance!TypeOK
  <2>3. held' = held /\ before' = before /\ irregular' = irregular
    BY DEF Books
  <2>5. Balance!ChainOf(q, Append(ledger, r), held[q], before[q], q \in irregular)
    <3>. DEFINE odd == q \in irregular
    <3>1. odd \in BOOLEAN /\ Balance!ChainOf(q, ledger, held[q], before[q], odd)
      BY <2>1
    <3>. HIDE DEF odd
    <3>2. Balance!ChainOf(q, Append(ledger, r), held[q], before[q], odd)
      BY <1>1, <3>1, ChainOther
    <3>. QED  BY <3>2 DEF odd
  <2>6. Balance!BalanceOf(q, Append(ledger, r), balance + Balance!Effect(r), before[q])
    BY <1>1, <2>1, <2>2, BalanceOther
  <2>. QED  BY <1>1, <2>2, <2>3, <2>5, <2>6
<1>4. Balance!CostsInv'
  BY <1>1 DEF Balance!CostsInv, Books
<1>5. cut' = cut
  BY DEF Books
<1>. QED  BY <1>2, <1>3, <1>4, <1>5 DEF Balance!IInv, Balance!ChainInv, Balance!BalanceInv

LEMMA AdjustStep ==
  ASSUME Balance!IInv, NEW r, Books(r), r.kind # "commission", charged' = charged
  PROVE  Balance!IInv'
<1>0. Balance!TypeInv /\ Balance!CostsInv
  BY DEF Balance!IInv
<1>1. charged' \in [Position -> Int] /\ ledger \in Seq(Balance!Row) /\ r \in Balance!Row /\ ~Balance!IsTrade(r)
  BY <1>0 DEF Balance!TypeInv, Balance!TypeOK, Books
<1>2. ASSUME archived = 0 PROVE Balance!CostsOf(Append(ledger, r), charged)
  <2>1. Balance!CostsOf(ledger, charged)
    BY <1>0, <1>2 DEF Balance!CostsInv
  <2>. QED  BY <1>1, <2>1, CostsOther
<1>3. archived = 0 => Balance!CostsOf(Append(ledger, r), charged')
  BY <1>2
<1>. QED  BY <1>1, <1>3, BookStep

LEMMA ChargeStep ==
  ASSUME Balance!IInv, NEW p \in Position, NEW r, Books(r), r.kind = "commission", Balance!Linked(ledger, r, p),
         r.amount = -1, charged' = [charged EXCEPT ![p] = @ - 1]
  PROVE  Balance!IInv'
<1>0. Balance!TypeInv /\ Balance!CostsInv
  BY DEF Balance!IInv
<1>1. charged' \in [Position -> Int] /\ ledger \in Seq(Balance!Row) /\ r \in Balance!Row /\ ~Balance!IsTrade(r)
  BY <1>0 DEF Balance!TypeInv, Balance!TypeOK, Books
<1>2. \A q \in Position : charged'[q] = IF q = p THEN charged[q] + r.amount ELSE charged[q]
  BY <1>0 DEF Balance!TypeInv, Balance!TypeOK
<1>3. ASSUME archived = 0 PROVE Balance!CostsOf(Append(ledger, r), charged')
  <2>1. Balance!CostsOf(ledger, charged)
    BY <1>0, <1>3 DEF Balance!CostsInv
  <2>. DEFINE ch2 == charged'
  <2>. HIDE DEF ch2
  <2>2. \A q \in Position : ch2[q] = IF q = p THEN charged[q] + r.amount ELSE charged[q]
    BY <1>2 DEF ch2
  <2>3. Balance!CostsOf(Append(ledger, r), ch2)
    BY <1>1, <2>1, <2>2, CostsCharge
  <2>. QED  BY <2>3 DEF ch2
<1>. QED  BY <1>1, <1>3, BookStep

\* A canceled deal was the last link of its chain.
LEMMA CancelStep ==
  ASSUME Balance!IInv, Balance!BalanceAssumption, NEW p \in Position, Balance!Cancel(p)
  PROVE  Balance!IInv'
<1>0. Balance!TypeInv /\ Balance!ChainInv /\ Balance!BalanceInv /\ Balance!CostsInv
  BY DEF Balance!IInv
<1>. DEFINE own == Balance!Indices(ledger, p)
            k == Balance!Max(own)
            rest == own \ {k}
            r == ledger[k]
            marked == [ledger EXCEPT ![k] = Marked(r)]
            back == Balance!CashRow("cash", None, None, -r.amount)
<1>1. /\ own # {} /\ r.order = p /\ ledger' = Append(marked, back)
      /\ balance' = balance - r.amount
      /\ held' = [held EXCEPT ![p] = Balance!LeftBy(ledger, rest)]
      /\ before' = IF rest = {} THEN [before EXCEPT ![p] = {}] ELSE before
      /\ charged' = [charged EXCEPT ![p] = @ - r.cost]
      /\ irregular' = irregular /\ cut' = cut /\ archived' = archived
  BY DEF Balance!Cancel, Balance!LeftBy, Marked
<1>2. ledger \in Seq(Balance!Row) /\ Len(ledger) \in Nat /\ DOMAIN ledger = 1..Len(ledger)
      /\ own \in SUBSET (1..Len(ledger))
  BY <1>0, RowsForm DEF Balance!TypeInv, Balance!TypeOK
<1>3. k \in own
  BY <1>1, <1>2, MaxOfPlaces
<1>4. /\ k \in DOMAIN ledger /\ r \in Balance!Row /\ r.pos = p /\ r.amount \in Int /\ r.cost \in Int
      /\ -r.amount \in Int
  <2>. HIDE DEF k
  <2>1. k \in DOMAIN ledger /\ r.pos = p
    BY <1>3 DEF Balance!Indices
  <2>2. r \in Balance!Row
    BY <1>2, <2>1, RowsForm
  <2>. HIDE DEF r
  <2>. QED  BY <2>1, <2>2 DEF Balance!Row
<1>5. /\ marked \in Seq(Balance!Row) /\ Len(marked) = Len(ledger) /\ DOMAIN marked = 1..Len(ledger)
      /\ \A i \in DOMAIN ledger : i # k => marked[i] = ledger[i]
      /\ marked[k].kind = "canceled"
  <2>. HIDE DEF k
  <2>. QED  BY <1>2, <1>4, MarkForm
<1>6. /\ back \in Balance!Row /\ ~Balance!IsTrade(back) /\ back.kind # "commission" /\ Balance!Effect(back) = -r.amount
  <2>1. back \in Balance!Row /\ ~Balance!IsTrade(back) /\ back.kind = "cash" /\ Balance!Effect(back) = -r.amount
    BY <1>4, BackForm
  <2>. QED  BY <2>1
<1>7. \A i \in rest : i \in DOMAIN ledger
  BY <1>2
<1>. HIDE DEF back, marked, k, r, own, rest
<1>8. Balance!TypeInv'
  <2>1. ledger' \in Seq(Balance!Row) /\ \A i \in DOMAIN ledger' : Balance!TradeRow(ledger'[i])
    <3>1. ASSUME NEW i \in DOMAIN marked PROVE Balance!TradeRow(marked[i])
      <4>1. i = k \/ (i \in DOMAIN ledger /\ marked[i] = ledger[i])
        BY <1>2, <1>5
      <4>2. CASE i = k
        BY <1>5, <4>2 DEF Balance!TradeRow, Balance!IsTrade
      <4>. QED  BY <1>0, <4>1, <4>2 DEF Balance!TypeInv, Balance!TypeOK
    <3>2. Balance!TradeRow(back)
      BY <1>6 DEF Balance!TradeRow
    <3>. QED  BY <1>1, <1>5, <1>6, <3>1, <3>2, AppendForm, TradeRowsGrow
  <2>2. balance' \in Int /\ charged' \in [Position -> Int]
    BY <1>0, <1>1, <1>4 DEF Balance!TypeInv, Balance!TypeOK
  <2>3. held' \in [Position -> Nat]
    <3>1. Balance!LeftBy(ledger, rest) \in Nat
      <4>1. CASE rest = {}
        BY <4>1 DEF Balance!LeftBy
      <4>2. CASE rest # {}
        <5>1. rest \in SUBSET (1..Len(ledger))
          BY <1>2, <1>7
        <5>2. Balance!Max(rest) \in rest
          BY <1>2, <4>2, <5>1, MaxOfPlaces
        <5>3. ledger[Balance!Max(rest)] \in Balance!Row
          BY <1>2, <1>7, <5>2, RowsForm
        <5>. QED  BY <4>2, <5>3 DEF Balance!LeftBy, Balance!Row
      <4>. QED  BY <4>1, <4>2
    <3>. QED  BY <1>0, <1>1, <3>1 DEF Balance!TypeInv, Balance!TypeOK
  <2>4. before' \in [Position -> SUBSET Int] /\ \A q \in Position : \A a, b \in before'[q] : a = b
    <3>1. CASE rest # {}
      BY <1>0, <1>1, <3>1 DEF Balance!TypeInv, Balance!TypeOK
    <3>2. CASE rest = {}
      <4>1. before' = [before EXCEPT ![p] = {}]
        BY <1>1, <3>2
      <4>2. before' \in [Position -> SUBSET Int]
        BY <1>0, <4>1 DEF Balance!TypeInv, Balance!TypeOK
      <4>3. ASSUME NEW q \in Position PROVE before'[q] = {} \/ before'[q] = before[q]
        BY <1>0, <4>1 DEF Balance!TypeInv, Balance!TypeOK
      <4>. QED  BY <1>0, <4>2, <4>3 DEF Balance!TypeInv, Balance!TypeOK
    <3>. QED  BY <3>1, <3>2
  <2>. QED  BY <1>0, <1>1, <2>1, <2>2, <2>3, <2>4 DEF Balance!TypeInv, Balance!TypeOK
<1>9. ASSUME NEW q \in Position \ cut
      PROVE  /\ Balance!ChainOf(q, ledger', held'[q], before'[q], q \in irregular')
             /\ Balance!BalanceOf(q, ledger', balance', before'[q])
  <2>1. /\ Balance!ChainOf(q, ledger, held[q], before[q], q \in irregular)
        /\ Balance!BalanceOf(q, ledger, balance, before[q])
    BY <1>0 DEF Balance!ChainInv, Balance!BalanceInv
  <2>2. balance' = balance + Balance!Effect(back) /\ balance \in Int
    BY <1>0, <1>1, <1>4, <1>6 DEF Balance!TypeInv, Balance!TypeOK
  <2>. DEFINE h2 == held'[q]
              b2 == before'[q]
              odd == q \in irregular
  <2>3. odd \in BOOLEAN
    OBVIOUS
  <2>4. Balance!ChainOf(q, marked, h2, b2, odd) /\ Balance!BalanceOf(q, marked, balance, b2)
    <3>1. CASE q # p
      <4>1. h2 = held[q] /\ b2 = before[q]
        BY <1>0, <1>1, <3>1 DEF Balance!TypeInv, Balance!TypeOK
      <4>2. r.pos # q
        BY <1>4, <3>1
      <4>3. Keeps(ledger, marked, q, 0)
        BY <1>2, <1>4, <4>2, MarkKeeps DEF marked, r
      <4>4. Balance!ChainOf(q, ledger, h2, b2, odd) /\ Balance!BalanceOf(q, ledger, balance, b2) /\ 0 \in Nat
        BY <2>1, <4>1
      <4>. HIDE DEF h2, b2, odd
      <4>5. Balance!ChainOf(q, marked, h2, b2, odd)
        BY <1>2, <1>5, <2>3, <4>3, <4>4, ChainMoved
      <4>6. Balance!BalanceOf(q, marked, balance, b2)
        BY <1>2, <1>4, <4>2, <4>4, BalanceMarked DEF marked, r
      <4>. QED  BY <4>5, <4>6
    <3>2. CASE q = p
      <4>1. h2 = Balance!LeftBy(ledger, rest) /\ b2 = IF rest = {} THEN {} ELSE before[q]
        BY <1>0, <1>1, <3>2 DEF Balance!TypeInv, Balance!TypeOK
      <4>2. before[q] # {}
        BY <1>1, <2>1, <3>2 DEF Balance!ChainOf, own
      <4>3. rest = {} <=> b2 = {}
        BY <4>1, <4>2
      <4>4. Balance!Indices(ledger, q) # {} /\ k = LastOf(ledger, q) /\ rest = RestOf(ledger, q)
        BY <1>1, <3>2 DEF own, k, rest, LastOf, RestOf
      <4>5. Balance!ChainOf(q, ledger, held[q], before[q], odd)
        BY <2>1
      <4>6. marked = Canceled(ledger, k)
        BY DEF marked, r, Canceled
      <4>. HIDE DEF h2, b2, odd
      <4>7. Balance!ChainOf(q, Canceled(ledger, LastOf(ledger, q)), Balance!LeftBy(ledger, RestOf(ledger, q)), b2, odd)
        BY <1>2, <2>3, <4>3, <4>4, <4>5, ChainCanceled
      <4>8. Balance!BalanceOf(q, Canceled(ledger, LastOf(ledger, q)), balance, b2)
        BY <1>2, <4>4, BalanceCanceled
      <4>. QED  BY <4>1, <4>4, <4>6, <4>7, <4>8
    <3>. QED  BY <3>1, <3>2
  <2>. HIDE DEF h2, b2, odd
  <2>5. Balance!ChainOf(q, Append(marked, back), h2, b2, odd)
    BY <1>5, <1>6, <2>3, <2>4, ChainOther
  <2>6. Balance!BalanceOf(q, Append(marked, back), balance + Balance!Effect(back), b2)
    BY <1>5, <1>6, <2>2, <2>4, BalanceOther
  <2>. QED  BY <1>1, <2>2, <2>5, <2>6 DEF h2, b2, odd
<1>10. Balance!CostsInv'
  <2>1. SUFFICES ASSUME archived = 0 PROVE Balance!CostsOf(ledger', charged')
    BY <1>1 DEF Balance!CostsInv
  <2>2. Balance!CostsOf(ledger, charged)
    BY <1>0, <2>1 DEF Balance!CostsInv
  <2>. DEFINE ch2 == charged'
  <2>3. Refunded(charged, ch2, p, ledger[k].cost)
    BY <1>0, <1>1 DEF Balance!TypeInv, Balance!TypeOK, r, Refunded
  <2>4. k \in Balance!Indices(ledger, p) /\ ledger[k].order = p /\ p # CloseBy
    BY <1>1, <1>3 DEF Balance!BalanceAssumption, own, r
  <2>. HIDE DEF ch2
  <2>5. Balance!CostsOf(Canceled(ledger, k), ch2)
    BY <1>2, <2>2, <2>3, <2>4, CostsCanceled
  <2>6. Balance!CostsOf(marked, ch2)
    BY <2>5 DEF marked, r, Canceled
  <2>7. Balance!CostsOf(Append(marked, back), ch2)
    BY <1>5, <1>6, <2>6, CostsOther
  <2>. QED  BY <1>1, <2>7 DEF ch2
<1>. QED  BY <1>1, <1>8, <1>9, <1>10 DEF Balance!IInv, Balance!ChainInv, Balance!BalanceInv

\* What is archived is of no position whose history is whole.
LEMMA LedgerArchiveStep ==
  ASSUME Balance!IInv, Balance!BalanceAssumption, Balance!Archive
  PROVE  Balance!IInv'
<1>0. Balance!TypeInv /\ Balance!ChainInv /\ Balance!BalanceInv
  BY DEF Balance!IInv
<1>1. /\ ledger \in Seq(Balance!Row) /\ ledger # <<>> /\ ledger' = Tail(ledger)
      /\ balance' = balance /\ held' = held /\ before' = before /\ charged' = charged
      /\ irregular' = irregular /\ archived' = archived + 1 /\ archived < MaxArchived
      /\ cut' = IF Head(ledger).pos \in Position THEN cut \cup {Head(ledger).pos} ELSE cut
  BY <1>0 DEF Balance!Archive, Balance!TypeInv, Balance!TypeOK
<1>2. /\ Tail(ledger) \in Seq(Balance!Row) /\ Len(ledger) \in Nat
      /\ DOMAIN Tail(ledger) = 1..(Len(ledger) - 1) /\ DOMAIN ledger = 1..Len(ledger)
      /\ \A i \in 1..(Len(ledger) - 1) : Tail(ledger)[i] = ledger[i + 1]
  BY <1>1, TailForm, RowsForm
<1>3. archived' \in 0..MaxArchived /\ archived' # 0
  BY <1>0, <1>1 DEF Balance!TypeInv, Balance!TypeOK, Balance!BalanceAssumption
<1>4. Balance!TypeInv'
  <2>1. ASSUME NEW i \in DOMAIN ledger' PROVE Balance!TradeRow(ledger'[i])
    <3>1. i \in 1..(Len(ledger) - 1) /\ i + 1 \in DOMAIN ledger
      BY <1>1, <1>2
    <3>. QED  BY <1>0, <1>1, <1>2, <3>1 DEF Balance!TypeInv, Balance!TypeOK
  <2>2. cut' \in SUBSET Position
    BY <1>0, <1>1 DEF Balance!TypeInv, Balance!TypeOK
  <2>. QED  BY <1>0, <1>1, <1>2, <1>3, <2>1, <2>2 DEF Balance!TypeInv, Balance!TypeOK
<1>5. ASSUME NEW q \in Position \ cut'
      PROVE  /\ Balance!ChainOf(q, ledger', held'[q], before'[q], q \in irregular')
             /\ Balance!BalanceOf(q, ledger', balance', before'[q])
  <2>1. q \in Position \ cut /\ Head(ledger).pos # q
    BY <1>1
  <2>2. /\ Balance!ChainOf(q, ledger, held[q], before[q], q \in irregular)
        /\ Balance!BalanceOf(q, ledger, balance, before[q])
    BY <1>0, <2>1 DEF Balance!ChainInv, Balance!BalanceInv
  <2>. DEFINE odd == q \in irregular
              h == held[q]
              b == before[q]
  <2>4. odd \in BOOLEAN /\ Balance!ChainOf(q, ledger, h, b, odd) /\ Balance!BalanceOf(q, ledger, balance, b)
    BY <2>2
  <2>. HIDE DEF odd, h, b
  <2>5. Balance!ChainOf(q, Tail(ledger), h, b, odd)
    BY <1>1, <2>1, <2>4, ChainArchived
  <2>6. Balance!BalanceOf(q, Tail(ledger), balance, b)
    BY <1>1, <2>1, <2>4, BalanceArchived
  <2>. QED  BY <1>1, <2>5, <2>6 DEF odd, h, b
<1>. QED  BY <1>3, <1>4, <1>5 DEF Balance!IInv, Balance!ChainInv, Balance!BalanceInv, Balance!CostsInv

LEMMA BalanceInit == Balance!Init /\ Balance!BalanceAssumption => Balance!IInv
<1>. SUFFICES ASSUME Balance!Init, Balance!BalanceAssumption PROVE Balance!IInv
  OBVIOUS
<1>1. /\ ledger = <<>> /\ balance = 0 /\ held = [p \in Position |-> 0]
      /\ before = [p \in Position |-> {}] /\ charged = [p \in Position |-> 0]
      /\ irregular = {} /\ cut = {} /\ archived = 0
  BY DEF Balance!Init
<1>2. ledger \in Seq(Balance!Row) /\ Len(ledger) = 0 /\ DOMAIN ledger = {}
  <2>1. <<>> \in Seq(Balance!Row) /\ Len(<<>>) = 0
    BY EmptySeq
  <2>. QED  BY <1>1, <2>1, RowsForm
<1>3. \A p : Balance!Indices(ledger, p) = {}
  BY <1>2 DEF Balance!Indices
<1>5. Balance!TypeInv
  BY <1>1, <1>2 DEF Balance!TypeInv, Balance!TypeOK, Balance!BalanceAssumption
<1>6. ASSUME NEW p \in Position PROVE Balance!ChainOf(p, ledger, held[p], before[p], p \in irregular)
  <2>1. Balance!Earlier(ledger, p, Len(ledger) + 1) = {}
    BY <1>2, <1>3, EarlierForm
  <2>2. Balance!Was(ledger, p, Len(ledger) + 1) = 0
    BY <2>1 DEF Balance!Was, Balance!LeftBy
  <2>. QED  BY <1>1, <1>3, <2>2 DEF Balance!ChainOf
<1>7. ASSUME NEW p \in Position PROVE Balance!BalanceOf(p, ledger, balance, before[p])
  BY <1>3 DEF Balance!BalanceOf, Balance!First
<1>8. Balance!CostsOf(ledger, charged)
  <2>. DEFINE owner == [i \in {} |-> 0]
  <2>1. Balance!Commissions(ledger) = {}
    BY <1>2 DEF Balance!Commissions
  <2>2. OwnersOf(ledger, owner)
    BY <2>1 DEF OwnersOf
  <2>3. ASSUME NEW p \in Position PROVE charged[p] = CostIn(ledger, owner, p)
    <3>1. Balance!Indices(ledger, p) = {} /\ Balance!OwnedBy(owner, p) = {}
      BY <1>3 DEF Balance!OwnedBy
    <3>2. charged[p] = 0
      BY <1>1
    <3>. HIDE DEF owner
    <3>3. CostIn(ledger, owner, p) = 0 + 0
      BY <3>1, SumEmpty DEF CostIn
    <3>. QED  BY <3>2, <3>3
  <2>. HIDE DEF owner
  <2>. QED  BY <2>2, <2>3, CostsForm
<1>. QED  BY <1>5, <1>6, <1>7, <1>8 DEF Balance!IInv, Balance!ChainInv, Balance!BalanceInv, Balance!CostsInv

LEMMA BalanceStep == Balance!IInv /\ Balance!BalanceAssumption /\ [Balance!Next]_Balance!vars => Balance!IInv'
<1>. SUFFICES ASSUME Balance!IInv, Balance!BalanceAssumption, [Balance!Next]_Balance!vars PROVE Balance!IInv'
  OBVIOUS
<1>0. Balance!TypeInv /\ MaxVolume \in Nat
  BY DEF Balance!IInv, Balance!BalanceAssumption
<1>1. ASSUME NEW p \in Position, NEW v \in 1..MaxVolume, Balance!Enter(p, v) PROVE Balance!IInv'
  BY <1>0, <1>1, EnterDeals, DealStep
<1>2. ASSUME NEW p \in Position, NEW v, NEW o \in {p, CloseBy}, Balance!Leave(p, v, o) PROVE Balance!IInv'
  BY <1>0, <1>2, LeaveDeals, DealStep
<1>3. ASSUME NEW p \in Position, Balance!Reversal(p) PROVE Balance!IInv'
  BY <1>0, <1>3, ReversalDeals, DealStep
<1>4. ASSUME NEW p \in Position, Balance!Cancel(p) PROVE Balance!IInv'
  BY <1>4, CancelStep
<1>5. ASSUME NEW p \in Position, NEW pos \in {p, None}, NEW o \in {p, CloseBy, None},
             Balance!Charge(p, pos, o)
      PROVE  Balance!IInv'
  BY <1>5, ChargeBooks, ChargeStep
<1>6. ASSUME NEW kind \in {"cash", "credit", "unknown"}, NEW a \in Int, Balance!Adjust(kind, a) PROVE Balance!IInv'
  BY <1>6, AdjustBooks, AdjustStep
<1>7. CASE Balance!Archive
  BY <1>7, LedgerArchiveStep
<1>8. CASE UNCHANGED Balance!vars
  BY <1>8 DEF Balance!vars, Balance!IInv, Balance!TypeInv, Balance!TypeOK, Balance!ChainInv,
              Balance!BalanceInv, Balance!CostsInv
<1>. QED  BY <1>1, <1>2, <1>3, <1>4, <1>5, <1>6, <1>7, <1>8 DEF Balance!Next

Sound(rows) == \A i \in DOMAIN rows : Balance!TradeRow(rows[i])

\* A position's own rows: a volume, and what they follow from.
LEMMA OwnRow ==
  ASSUME NEW rows \in Seq(Balance!Row), Sound(rows), NEW p, NEW i \in Balance!Indices(rows, p)
  PROVE  /\ i \in 1..Len(rows) /\ rows[i].vol \in Nat /\ rows[i].vol >= 1
         /\ rows[i].after \in Nat /\ rows[i].entry \in {"IN", "OUT", "INOUT"}
         /\ rows[i].pos = p /\ Balance!IsTrade(rows[i])
<1>1. i \in 1..Len(rows) /\ rows[i] \in Balance!Row
  BY RowsForm
<1>2. Balance!IsTrade(rows[i]) /\ rows[i].pos = p /\ i \in DOMAIN rows
  BY DEF Balance!Indices
<1>3. rows[i].vol >= 1
  BY <1>2 DEF Sound, Balance!TradeRow
<1> QED
  BY <1>1, <1>2, <1>3 DEF Balance!Row

LEMMA WasNat ==
  ASSUME NEW rows \in Seq(Balance!Row), Sound(rows), NEW p, NEW i
  PROVE  Balance!Was(rows, p, i) \in Nat
<1>1. CASE Balance!Earlier(rows, p, i) = {}
  BY <1>1 DEF Balance!Was, Balance!LeftBy
<1>2. CASE Balance!Earlier(rows, p, i) # {}
  <2> DEFINE own == Balance!Earlier(rows, p, i)
  <2>1. own \in SUBSET (1..Len(rows)) /\ own \in SUBSET Balance!Indices(rows, p) /\ Len(rows) \in Nat
    BY EarlierForm, RowsForm
  <2>2. own # {}
    BY <1>2
  <2> HIDE DEF own
  <2>3. Balance!Max(own) \in own
    BY <2>1, <2>2, MaxOfPlaces
  <2>4. rows[Balance!Max(own)].after \in Nat
    BY <2>1, <2>3, OwnRow
  <2>5. Balance!Was(rows, p, i) = rows[Balance!Max(own)].after
    BY <2>2 DEF Balance!Was, Balance!LeftBy, own
  <2> QED
    BY <2>4, <2>5
<1> QED
  BY <1>1, <1>2

\* What a row leaves is what the next one finds.
LEMMA WasAfter ==
  ASSUME NEW rows \in Seq(Balance!Row), Sound(rows), NEW p, NEW i \in Balance!Indices(rows, p), NEW k \in Int, i < k,
         \A j \in Balance!Indices(rows, p) : j < k => j <= i
  PROVE  Balance!Was(rows, p, k) = rows[i].after
<1> DEFINE own == Balance!Earlier(rows, p, k)
<1>1. own \in SUBSET (1..Len(rows)) /\ Len(rows) \in Nat
  BY EarlierForm, RowsForm
<1>2. i \in own /\ \A x \in own : x <= i
  BY DEF Balance!Earlier
<1>3. Balance!Was(rows, p, k) = Balance!LeftBy(rows, own)
  BY DEF Balance!Was
<1> HIDE DEF own
<1>4. Balance!Max(own) = i
  BY <1>1, <1>2, LedgerMaxIs
<1> QED
  BY <1>2, <1>3, <1>4 DEF Balance!LeftBy

NextRow(rows, p, i, k) ==
  k \in Balance!Indices(rows, p) /\ i < k /\ Balance!Was(rows, p, k) = rows[i].after

LEMMA Successor ==
  ASSUME NEW rows \in Seq(Balance!Row), Sound(rows), NEW p, NEW i \in Balance!Indices(rows, p),
         i # Balance!Max(Balance!Indices(rows, p))
  PROVE  \E k : NextRow(rows, p, i, k)
<1> DEFINE own == Balance!Indices(rows, p)
           later == {j \in own : i < j}
<1>1. own \in SUBSET (1..Len(rows)) /\ Len(rows) \in Nat
  BY RowsForm
<1>2. Balance!Max(own) \in own /\ i <= Balance!Max(own)
  BY <1>1, MaxOfPlaces
<1>3. later # {} /\ later \in SUBSET (1..Len(rows))
  BY <1>1, <1>2
<1>4. PICK k \in later : \A x \in later : k <= x
  <2> HIDE DEF later
  <2>1. Balance!Min(later) \in later /\ \A x \in later : Balance!Min(later) <= x
    BY <1>1, <1>3, MinOfPlaces
  <2> QED
    BY <2>1
<1>5. k \in own /\ i < k /\ k \in Int /\ \A j \in own : j < k => j <= i
  BY <1>1, <1>4
<1>6. Balance!Was(rows, p, k) = rows[i].after
  BY <1>5, WasAfter
<1>7. NextRow(rows, p, i, k)
  BY <1>5, <1>6 DEF NextRow
<1> QED
  BY <1>7

LEMMA AtTheEnd ==
  ASSUME NEW rows \in Seq(Balance!Row), Sound(rows), NEW p, Balance!Indices(rows, p) # {}
  PROVE  /\ Balance!Max(Balance!Indices(rows, p)) \in Balance!Indices(rows, p)
         /\ Balance!Was(rows, p, Len(rows) + 1) = rows[Balance!Max(Balance!Indices(rows, p))].after
<1> DEFINE own == Balance!Indices(rows, p)
<1>1. own \in SUBSET (1..Len(rows)) /\ Len(rows) \in Nat
  BY RowsForm
<1>2. Balance!Max(own) \in own /\ \A x \in own : x <= Balance!Max(own)
  BY <1>1, MaxOfPlaces
<1>3. Balance!Max(own) < Len(rows) + 1 /\ Len(rows) + 1 \in Int
  BY <1>1, <1>2
<1> HIDE DEF own
<1> QED
  BY <1>2, <1>3, WasAfter DEF own

\* The first row of a position opens it.
LEMMA FirstOpens ==
  ASSUME NEW rows \in Seq(Balance!Row), Sound(rows), NEW p, Balance!Indices(rows, p) # {},
         NEW h, NEW b, NEW odd, Balance!ChainOf(p, rows, h, b, odd)
  PROVE  LET m == Balance!Min(Balance!Indices(rows, p))
         IN  Balance!First(rows, p, m) /\ rows[m].entry = "IN" /\ Balance!FirstOpening(rows, p) = m
<1> DEFINE own == Balance!Indices(rows, p)
           m == Balance!Min(own)
<1>1. own \in SUBSET (1..Len(rows)) /\ Len(rows) \in Nat
  BY RowsForm
<1>2. m \in own /\ \A x \in own : m <= x
  BY <1>1, MinOfPlaces
<1>3. Balance!Earlier(rows, p, m) = {}
  BY <1>1, <1>2 DEF Balance!Earlier
<1>4. Balance!Was(rows, p, m) = 0
  BY <1>3 DEF Balance!Was, Balance!LeftBy
<1>5. Balance!Follows(rows[m], Balance!Was(rows, p, m))
  BY <1>2 DEF Balance!ChainOf
<1>6. rows[m].entry = "IN"
  <2>1. rows[m].vol \in Nat /\ rows[m].vol >= 1
    BY <1>2, OwnRow
  <2> QED
    BY <1>4, <1>5, <2>1 DEF Balance!Follows
<1>7. Balance!Openings(rows, p) \in SUBSET (1..Len(rows)) /\ m \in Balance!Openings(rows, p)
      /\ \A x \in Balance!Openings(rows, p) : m <= x
  BY <1>1, <1>2, <1>6 DEF Balance!Openings
<1>8. Balance!Min(Balance!Openings(rows, p)) = m
  <2> HIDE DEF m
  <2> QED
    BY <1>1, <1>7, MinIs
<1> QED
  BY <1>2, <1>6, <1>8 DEF Balance!First, Balance!FirstOpening

OpenedBy(rows, p, i) == {j \in Balance!Openings(rows, p) : j < i}
LeftUntil(rows, p, i) == {j \in Balance!Exits(rows, p) : j < i}

Unreversed(rows, p) == \A i \in Balance!Indices(rows, p) : rows[i].entry # "INOUT"

LEMMA VolumeForm ==
  ASSUME NEW rows \in Seq(Balance!Row), NEW p, NEW i
  PROVE  /\ Balance!VolumeAt(rows, p, i) = Balance!SumFunctionOnSet(Balance!Volumes(rows), OpenedBy(rows, p, i))
                                     - Balance!SumFunctionOnSet(Balance!Volumes(rows), LeftUntil(rows, p, i))
         /\ OpenedBy(rows, p, i) \in SUBSET (1..Len(rows))
         /\ LeftUntil(rows, p, i) \in SUBSET (1..Len(rows))
         /\ Balance!SumFunctionOnSet(Balance!Volumes(rows), OpenedBy(rows, p, i)) \in Int
         /\ Balance!SumFunctionOnSet(Balance!Volumes(rows), LeftUntil(rows, p, i)) \in Int
<1>1. Balance!VolumeAt(rows, p, i) = Balance!SumFunctionOnSet(Balance!Volumes(rows), OpenedBy(rows, p, i))
                                     - Balance!SumFunctionOnSet(Balance!Volumes(rows), LeftUntil(rows, p, i))
  BY DEF Balance!VolumeAt, OpenedBy, LeftUntil
<1>2. /\ Balance!Indices(rows, p) \in SUBSET (1..Len(rows)) /\ Len(rows) \in Nat
      /\ Balance!Volumes(rows) \in Column(Len(rows))
  BY RowsForm, ColumnsAre
<1>3. /\ OpenedBy(rows, p, i) \in SUBSET (1..Len(rows))
      /\ LeftUntil(rows, p, i) \in SUBSET (1..Len(rows))
  BY <1>2 DEF OpenedBy, LeftUntil, Balance!Openings, Balance!Exits
<1> QED
  BY <1>1, <1>2, <1>3, SumInt

LEMMA VolumeSteps ==
  ASSUME NEW rows \in Seq(Balance!Row), Sound(rows), NEW p, Unreversed(rows, p),
         \A j \in Balance!Indices(rows, p) : Balance!Follows(rows[j], Balance!Was(rows, p, j)),
         NEW i \in 1..Len(rows), Balance!VolumeAt(rows, p, i) = Balance!Was(rows, p, i)
  PROVE  Balance!VolumeAt(rows, p, i + 1) = Balance!Was(rows, p, i + 1)
<1> DEFINE In(k) == OpenedBy(rows, p, k)
           Out(k) == LeftUntil(rows, p, k)
           S(s) == Balance!SumFunctionOnSet(Balance!Volumes(rows), s)
<1>1. /\ Len(rows) \in Nat /\ DOMAIN rows = 1..Len(rows) /\ Balance!Volumes(rows) \in Column(Len(rows))
      /\ Balance!Indices(rows, p) \in SUBSET (1..Len(rows)) /\ i \in Int
  BY RowsForm, ColumnsAre
<1>2. Balance!Volumes(rows)[i] = rows[i].vol
  BY <1>1 DEF Balance!Volumes
<1>3. /\ Balance!VolumeAt(rows, p, i) = S(In(i)) - S(Out(i)) /\ In(i) \in SUBSET (1..Len(rows))
      /\ Out(i) \in SUBSET (1..Len(rows)) /\ S(In(i)) \in Int /\ S(Out(i)) \in Int
      /\ Balance!VolumeAt(rows, p, i + 1) = S(In(i + 1)) - S(Out(i + 1))
  BY VolumeForm
<1>4. CASE i \notin Balance!Indices(rows, p)
  <2>1. /\ In(i + 1) = In(i) /\ Out(i + 1) = Out(i)
        /\ Balance!Earlier(rows, p, i + 1) = Balance!Earlier(rows, p, i)
    BY <1>1, <1>4 DEF OpenedBy, LeftUntil, Balance!Openings, Balance!Exits, Balance!Earlier
  <2> QED
    BY <2>1, <1>3 DEF Balance!Was
<1>5. CASE i \in Balance!Indices(rows, p)
  <2>1. /\ rows[i].vol \in Nat /\ rows[i].after \in Nat
        /\ rows[i].entry \in {"IN", "OUT", "INOUT"} /\ rows[i].entry # "INOUT"
    BY <1>5, OwnRow DEF Unreversed
  <2>2. Balance!Was(rows, p, i + 1) = rows[i].after
    <3>1. i < i + 1 /\ \A j \in Balance!Indices(rows, p) : j < i + 1 => j <= i
      BY <1>1
    <3> QED
      BY <1>1, <1>5, <3>1, WasAfter
  <2>3. Balance!Follows(rows[i], Balance!Was(rows, p, i)) /\ Balance!Was(rows, p, i) \in Nat
    BY <1>5, WasNat
  <2>4. i \notin In(i) /\ i \notin Out(i)
    BY <1>1 DEF OpenedBy, LeftUntil
  <2>5. CASE rows[i].entry = "IN"
    <3>0. /\ \A j \in Balance!Indices(rows, p) : j < i + 1 <=> (j < i \/ j = i)
          /\ i \in Balance!Indices(rows, p) /\ rows[i].entry # "OUT"
      BY <1>1, <1>5, <2>5
    <3>1. In(i + 1) = In(i) \cup {i} /\ Out(i + 1) = Out(i)
      <4>1. In(i + 1) = In(i) \cup {i}
        BY <3>0, <1>1, <2>5 DEF OpenedBy, LeftUntil, Balance!Openings, Balance!Exits
      <4>2. Out(i + 1) = Out(i)
        BY <3>0, <1>1, <2>5 DEF OpenedBy, LeftUntil, Balance!Openings, Balance!Exits
      <4> QED
        BY <4>1, <4>2
    <3>2. S(In(i) \cup {i}) = rows[i].vol + S(In(i))
      <4> DEFINE column == Balance!Volumes(rows)
                 rest == In(i)
                 length == Len(rows)
      <4>1. /\ length \in Nat /\ column \in Column(length) /\ rest \in SUBSET (1..length)
            /\ i \in 1..length /\ i \notin rest /\ column[i] = rows[i].vol
        BY <1>1, <1>2, <1>3, <2>4
      <4> HIDE DEF column, rest, length
      <4>2. Balance!SumFunctionOnSet(column, rest \cup {i})
              = column[i] + Balance!SumFunctionOnSet(column, rest)
        BY <4>1, SumOneMore
      <4> QED
        BY <4>1, <4>2 DEF column, rest
    <3>3. rows[i].after = Balance!Was(rows, p, i) + rows[i].vol
      BY <2>3, <2>5 DEF Balance!Follows
    <3> DEFINE a == S(In(i))
               c == S(Out(i))
               w == Balance!Was(rows, p, i)
    <3>4. w = a - c /\ a \in Int /\ c \in Int
      BY <1>3
    <3>5. Balance!VolumeAt(rows, p, i + 1) = (rows[i].vol + a) - c
      BY <1>3, <3>1, <3>2
    <3> HIDE DEF a, c, w
    <3> QED
      BY <2>1, <2>2, <3>3, <3>4, <3>5 DEF w
  <2>6. CASE rows[i].entry = "OUT"
    <3>0. /\ \A j \in Balance!Indices(rows, p) : j < i + 1 <=> (j < i \/ j = i)
          /\ i \in Balance!Indices(rows, p) /\ rows[i].entry # "IN"
      BY <1>1, <1>5, <2>6
    <3>1. Out(i + 1) = Out(i) \cup {i} /\ In(i + 1) = In(i)
      <4>1. Out(i + 1) = Out(i) \cup {i}
        BY <3>0, <1>1, <2>6 DEF OpenedBy, LeftUntil, Balance!Openings, Balance!Exits
      <4>2. In(i + 1) = In(i)
        BY <3>0, <1>1, <2>6 DEF OpenedBy, LeftUntil, Balance!Openings, Balance!Exits
      <4> QED
        BY <4>1, <4>2
    <3>2. S(Out(i) \cup {i}) = rows[i].vol + S(Out(i))
      <4> DEFINE column == Balance!Volumes(rows)
                 rest == Out(i)
                 length == Len(rows)
      <4>1. /\ length \in Nat /\ column \in Column(length) /\ rest \in SUBSET (1..length)
            /\ i \in 1..length /\ i \notin rest /\ column[i] = rows[i].vol
        BY <1>1, <1>2, <1>3, <2>4
      <4> HIDE DEF column, rest, length
      <4>2. Balance!SumFunctionOnSet(column, rest \cup {i})
              = column[i] + Balance!SumFunctionOnSet(column, rest)
        BY <4>1, SumOneMore
      <4> QED
        BY <4>1, <4>2 DEF column, rest
    <3>3. rows[i].after = Balance!Was(rows, p, i) - rows[i].vol
      BY <2>3, <2>6 DEF Balance!Follows
    <3> DEFINE a == S(In(i))
               c == S(Out(i))
               w == Balance!Was(rows, p, i)
    <3>4. w = a - c /\ a \in Int /\ c \in Int
      BY <1>3
    <3>5. Balance!VolumeAt(rows, p, i + 1) = a - (rows[i].vol + c)
      BY <1>3, <3>1, <3>2
    <3> HIDE DEF a, c, w
    <3> QED
      BY <2>1, <2>2, <3>3, <3>4, <3>5 DEF w
  <2> QED
    BY <2>1, <2>5, <2>6
<1> QED
  BY <1>4, <1>5

\* The reconstruction's walk finds the volume the broker had at every row.
LEMMA VolumeIs ==
  ASSUME NEW rows \in Seq(Balance!Row), Sound(rows), NEW p, Unreversed(rows, p),
         \A j \in Balance!Indices(rows, p) : Balance!Follows(rows[j], Balance!Was(rows, p, j))
  PROVE  \A i \in 1..(Len(rows) + 1) : Balance!VolumeAt(rows, p, i) = Balance!Was(rows, p, i)
<1> DEFINE Good == {k \in 0..Len(rows) : Balance!VolumeAt(rows, p, k + 1) = Balance!Was(rows, p, k + 1)}
<1>1. /\ Len(rows) \in Nat /\ DOMAIN rows = 1..Len(rows)
      /\ Balance!Indices(rows, p) \in SUBSET (1..Len(rows))
  BY RowsForm
<1>2. 0 \in Good
  <2>1. OpenedBy(rows, p, 1) = {} /\ LeftUntil(rows, p, 1) = {} /\ Balance!Earlier(rows, p, 1) = {}
    BY <1>1 DEF OpenedBy, LeftUntil, Balance!Openings, Balance!Exits, Balance!Earlier
  <2>2. Balance!SumFunctionOnSet(Balance!Volumes(rows), {}) = 0
    BY SumEmpty
  <2>3. Balance!VolumeAt(rows, p, 1) = 0 - 0
    BY <2>1, <2>2, VolumeForm
  <2>4. Balance!Was(rows, p, 1) = 0
    BY <2>1 DEF Balance!Was, Balance!LeftBy
  <2> QED
    BY <1>1, <2>3, <2>4
<1>3. \A i \in 1..Len(rows) : i - 1 \in Good => i \in Good
  <2> SUFFICES ASSUME NEW i \in 1..Len(rows), i - 1 \in Good PROVE i \in Good
    OBVIOUS
  <2>1. i \in 0..Len(rows) /\ (i - 1) + 1 = i
    BY <1>1
  <2>2. Balance!VolumeAt(rows, p, i) = Balance!Was(rows, p, i)
    BY <2>1
  <2>3. Balance!VolumeAt(rows, p, i + 1) = Balance!Was(rows, p, i + 1)
    BY <2>2, VolumeSteps
  <2> QED
    BY <2>1, <2>3
<1>4. \A i \in 0..Len(rows) : i \in Good
  <2> HIDE DEF Good
  <2> QED
    BY <1>1, <1>2, <1>3, Upwards
<1> QED
  <2> SUFFICES ASSUME NEW i \in 1..(Len(rows) + 1) PROVE Balance!VolumeAt(rows, p, i) = Balance!Was(rows, p, i)
    OBVIOUS
  <2>1. i - 1 \in 0..Len(rows) /\ (i - 1) + 1 = i
    BY <1>1
  <2> QED
    BY <1>4, <2>1

\* A position that was never reversed nor opened again can be imported.
LEMMA RegularIsSafe ==
  ASSUME NEW rows \in Seq(Balance!Row), Sound(rows), NEW p, Balance!Indices(rows, p) # {},
         NEW h, NEW b, Balance!ChainOf(p, rows, h, b, FALSE)
  PROVE  ~Balance!Unsafe(rows, p)
<1> DEFINE own == Balance!Indices(rows, p)
<1>1. /\ \A j \in own : Balance!Follows(rows[j], Balance!Was(rows, p, j))
      /\ \A j \in own : rows[j].entry = "IN" /\ Balance!Earlier(rows, p, j) # {} => Balance!Was(rows, p, j) > 0
      /\ Unreversed(rows, p)
  BY DEF Balance!ChainOf, Unreversed
<1>2. /\ Len(rows) \in Nat /\ own \in SUBSET (1..Len(rows))
      /\ \A i \in own : i \in 1..(Len(rows) + 1) /\ rows[i].pos = p
  BY RowsForm, OwnRow
<1>3. \A i \in own : Balance!VolumeAt(rows, p, i) = Balance!Was(rows, p, i)
  BY <1>1, <1>2, VolumeIs
<1>4. Balance!Openings(rows, p) # {}
  <2> DEFINE m == Balance!Min(own)
  <2>1. Balance!First(rows, p, m) /\ rows[m].entry = "IN"
    BY FirstOpens
  <2>2. m \in Balance!Openings(rows, p)
    BY <2>1 DEF Balance!First, Balance!Openings
  <2> QED
    BY <2>2
<1>5. \A i \in own : rows[i].entry # "INOUT"
  BY <1>1 DEF Unreversed
<1>6. \A i \in Balance!Exits(rows, p) : i \in own /\ ~(rows[i].vol > Balance!VolumeAt(rows, p, i))
  <2> SUFFICES ASSUME NEW i \in Balance!Exits(rows, p)
               PROVE  i \in own /\ ~(rows[i].vol > Balance!VolumeAt(rows, p, i))
    OBVIOUS
  <2>1. i \in own /\ rows[i].entry = "OUT"
    BY DEF Balance!Exits
  <2>2. rows[i].vol <= Balance!Was(rows, p, i)
    BY <1>1, <2>1 DEF Balance!Follows
  <2>3. rows[i].vol \in Nat /\ Balance!Was(rows, p, i) \in Nat
    BY <2>1, OwnRow, WasNat
  <2> QED
    BY <1>3, <2>1, <2>2, <2>3
<1>7. \A j \in Balance!Exits(rows, p), i \in Balance!Openings(rows, p) : j < i => ~Balance!Closes(rows, j)
  <2> SUFFICES ASSUME NEW j \in Balance!Exits(rows, p), NEW i \in Balance!Openings(rows, p),
                      j < i, Balance!Closes(rows, j)
               PROVE  FALSE
    OBVIOUS
  <2>1. j \in own /\ rows[j].entry = "OUT" /\ i \in own
    BY DEF Balance!Exits, Balance!Openings
  <2>2. rows[j].vol = Balance!Was(rows, p, j)
    BY <1>2, <1>3, <2>1 DEF Balance!Closes
  <2>3. rows[j].vol \in Nat /\ Balance!Was(rows, p, j) \in Nat
    BY <2>1, OwnRow, WasNat
  <2>4. rows[j].after = Balance!Was(rows, p, j) - rows[j].vol
    BY <1>1, <2>1 DEF Balance!Follows
  <2>5. rows[j].after = 0
    BY <2>2, <2>3, <2>4
  <2>6. j # Balance!Max(own)
    <3> HIDE DEF own
    <3>1. i <= Balance!Max(own) /\ Balance!Max(own) \in own
      BY <1>2, <2>1, MaxOfPlaces
    <3> QED
      BY <1>2, <2>1, <3>1
  <2>7. PICK k : NextRow(rows, p, j, k)
    BY <2>1, <2>6, Successor
  <2>8. k \in own /\ j < k /\ Balance!Was(rows, p, k) = 0
    BY <2>5, <2>7 DEF NextRow
  <2>9. rows[k].vol \in Nat /\ rows[k].vol >= 1 /\ rows[k].entry \in {"IN", "OUT", "INOUT"}
    BY <2>8, OwnRow
  <2>10. rows[k].entry = "IN"
    BY <1>1, <2>8, <2>9 DEF Balance!Follows
  <2>11. j \in Balance!Earlier(rows, p, k)
    BY <2>1, <2>8 DEF Balance!Earlier
  <2>12. Balance!Was(rows, p, k) > 0
    BY <1>1, <2>8, <2>10, <2>11
  <2> QED
    BY <2>8, <2>12
<1> QED
  BY <1>4, <1>5, <1>6, <1>7 DEF Balance!Unsafe

\* What the import makes of a deal of a position that is not unsafe.
WholeAt(rows, p, h, i) ==
  /\ Balance!EventType(rows, i) = "trade_opened" <=> i = Balance!Min(Balance!Indices(rows, p))
  /\ Balance!EventType(rows, i) = "trade_closed" <=> (i = Balance!Max(Balance!Indices(rows, p)) /\ h = 0)
  /\ rows[i].entry = "IN" => Balance!VolumeAt(rows, p, i) + rows[i].vol = rows[i].after

LEMMA SafeIsWhole ==
  ASSUME NEW rows \in Seq(Balance!Row), Sound(rows), NEW p, Balance!Indices(rows, p) # {},
         NEW h, NEW b, NEW odd, Balance!ChainOf(p, rows, h, b, odd), ~Balance!Unsafe(rows, p),
         NEW i \in Balance!Indices(rows, p)
  PROVE  WholeAt(rows, p, h, i)
<1> DEFINE own == Balance!Indices(rows, p)
<1>1. /\ \A j \in own : Balance!Follows(rows[j], Balance!Was(rows, p, j))
      /\ h = Balance!Was(rows, p, Len(rows) + 1)
  BY DEF Balance!ChainOf
<1>2. Unreversed(rows, p)
  BY DEF Balance!Unsafe, Unreversed
<1>3. /\ Len(rows) \in Nat /\ own \in SUBSET (1..Len(rows)) /\ i \in 1..(Len(rows) + 1)
      /\ rows[i].pos = p /\ rows[i].vol \in Nat /\ rows[i].vol >= 1 /\ rows[i].after \in Nat
      /\ rows[i].entry \in {"IN", "OUT", "INOUT"} /\ Balance!Was(rows, p, i) \in Nat
  BY RowsForm, OwnRow, WasNat
<1>4. Balance!VolumeAt(rows, p, i) = Balance!Was(rows, p, i)
  BY <1>1, <1>2, <1>3, VolumeIs
<1>5. rows[i].entry \in {"IN", "OUT"} /\ Balance!Follows(rows[i], Balance!Was(rows, p, i))
  BY <1>1, <1>2, <1>3 DEF Unreversed
<1>6. /\ Balance!Max(own) \in own /\ h = rows[Balance!Max(own)].after
  BY <1>1, AtTheEnd
<1>7. Balance!EventType(rows, i) = "trade_opened" <=> i = Balance!Min(own)
  <2> DEFINE m == Balance!Min(own)
  <2>1. rows[m].entry = "IN" /\ Balance!FirstOpening(rows, p) = m
    BY FirstOpens
  <2> HIDE DEF m
  <2> QED
    BY <2>1, <1>3, <1>5 DEF Balance!EventType, m
<1>8. rows[i].entry = "IN" => Balance!VolumeAt(rows, p, i) + rows[i].vol = rows[i].after
  BY <1>3, <1>4, <1>5 DEF Balance!Follows
<1>9. Balance!EventType(rows, i) = "trade_closed" <=> (rows[i].entry = "OUT" /\ rows[i].vol = Balance!Was(rows, p, i))
  BY <1>3, <1>4, <1>5 DEF Balance!EventType, Balance!Closes
<1>10. (rows[i].entry = "OUT" /\ rows[i].vol = Balance!Was(rows, p, i)) <=> rows[i].after = 0
  BY <1>3, <1>5 DEF Balance!Follows
<1>11. ASSUME rows[i].after = 0 PROVE i = Balance!Max(own)
  <2> SUFFICES ASSUME i # Balance!Max(own) PROVE FALSE
    OBVIOUS
  <2>1. PICK k : NextRow(rows, p, i, k)
    BY Successor
  <2>2. k \in own /\ i < k /\ Balance!Was(rows, p, k) = 0
    BY <1>11, <2>1 DEF NextRow
  <2>3. rows[k].vol \in Nat /\ rows[k].vol >= 1 /\ rows[k].entry \in {"IN", "OUT", "INOUT"}
    BY <2>2, OwnRow
  <2>4. rows[k].entry = "IN"
    BY <1>1, <2>2, <2>3 DEF Balance!Follows
  <2>5. rows[i].entry = "OUT" /\ rows[i].vol = Balance!VolumeAt(rows, p, i)
    BY <1>4, <1>10, <1>11
  <2>6. Balance!Closes(rows, i)
    BY <1>3, <2>5 DEF Balance!Closes
  <2>7. k \in Balance!Openings(rows, p) /\ i \in Balance!Exits(rows, p)
    BY <2>2, <2>4, <2>5 DEF Balance!Openings, Balance!Exits
  <2> QED
    BY <2>2, <2>6, <2>7 DEF Balance!Unsafe
<1>12. rows[i].after = 0 <=> (i = Balance!Max(own) /\ h = 0)
  BY <1>6, <1>11
<1> QED
  BY <1>7, <1>8, <1>9, <1>10, <1>12 DEF WholeAt

LEMMA NamedRows ==
  ASSUME Balance!BalanceAssumption, NEW rows \in Seq(Balance!Row), Sound(rows),
         NEW i \in DOMAIN rows, Balance!IsTrade(rows[i])
  PROVE  /\ rows[i].pos \in Position /\ rows[i].order \in {rows[i].pos, CloseBy}
         /\ rows[i].order # None /\ rows[i].pos # None
  BY DEF Sound, Balance!TradeRow, Balance!BalanceAssumption

ByOrder(rows, o) == {rows[i].pos : i \in {j \in DOMAIN rows : Balance!IsTrade(rows[j]) /\ rows[j].order = o}}

\* The one position a commission leads to is the one it was charged for.
LEMMA TargetIs ==
  ASSUME Balance!BalanceAssumption, NEW rows \in Seq(Balance!Row), Sound(rows), NEW c, NEW q \in Position,
         Balance!Linked(rows, c, q), NEW t, Balance!Targets(rows, c) = {t}
  PROVE  Balance!Targets(rows, c) = {q}
<1>1. q # None /\ q # CloseBy /\ CloseBy # None
  BY DEF Balance!BalanceAssumption
<1>2. Balance!Indices(rows, None) = {}
  BY NamedRows DEF Balance!Indices
<1>3. ByOrder(rows, None) = {}
  BY NamedRows DEF ByOrder
<1>4. Balance!Targets(rows, c) # {}
  OBVIOUS
<1>5. Balance!Targets(rows, c) = IF Balance!Indices(rows, c.pos) # {} THEN {c.pos} ELSE ByOrder(rows, c.order)
  BY DEF Balance!Targets, ByOrder
<1>6. CASE c.pos = q /\ c.order = None
  BY <1>3, <1>4, <1>5, <1>6
<1>7. CASE c.pos = None /\ c.order \in {None, q}
  <2>1. Balance!Targets(rows, c) = ByOrder(rows, c.order)
    BY <1>2, <1>5, <1>7
  <2>2. c.order = q
    BY <1>3, <1>4, <1>7, <2>1
  <2>3. \A x \in ByOrder(rows, q) : x = q
    BY <1>1, NamedRows DEF ByOrder
  <2> QED
    BY <1>4, <2>1, <2>2, <2>3
<1>8. CASE c.pos = None /\ c.order = CloseBy /\ \E k \in Balance!Indices(rows, q) : rows[k].order = CloseBy
  <2>1. Balance!Targets(rows, c) = ByOrder(rows, CloseBy)
    BY <1>2, <1>5, <1>8
  <2>2. PICK k \in Balance!Indices(rows, q) : rows[k].order = CloseBy
    BY <1>8
  <2>3. q \in ByOrder(rows, CloseBy)
    BY <2>2 DEF Balance!Indices, ByOrder
  <2> QED
    BY <2>1, <2>3
<1> QED
  BY <1>6, <1>7, <1>8 DEF Balance!Linked

LEMMA CostsAre ==
  ASSUME Balance!BalanceAssumption, NEW rows \in Seq(Balance!Row), Sound(rows), NEW ch, Balance!CostsOf(rows, ch),
         NEW p \in Position
  PROVE  Balance!Costs(rows, p) \subseteq {ch[p]}
<1>1. CASE \A i \in Balance!Commissions(rows) : \E q \in Position : Balance!Targets(rows, rows[i]) = {q}
  <2>1. PICK owner : OwnersOf(rows, owner) /\ \A q \in Position : ch[q] = CostIn(rows, owner, q)
    BY CostsForm
  <2>2. DOMAIN owner = Balance!Commissions(rows) /\ \A i \in Balance!Commissions(rows) : owner[i] \in Position
    BY <2>1 DEF OwnersOf
  <2>3. \A i \in Balance!Commissions(rows) : Balance!Targets(rows, rows[i]) = {owner[i]}
    <3> SUFFICES ASSUME NEW i \in Balance!Commissions(rows) PROVE Balance!Targets(rows, rows[i]) = {owner[i]}
      OBVIOUS
    <3>1. Balance!Linked(rows, rows[i], owner[i])
      BY <2>1 DEF OwnersOf
    <3> QED
      BY <1>1, <2>2, <3>1, TargetIs
  <2>4. {i \in Balance!Commissions(rows) : Balance!Targets(rows, rows[i]) = {p}} = Balance!OwnedBy(owner, p)
    BY <2>2, <2>3 DEF Balance!OwnedBy
  <2>5. Balance!Costs(rows, p) = {CostIn(rows, owner, p)}
    BY <1>1, <2>4 DEF Balance!Costs, CostIn
  <2> QED
    BY <2>1, <2>5
<1>2. CASE ~(\A i \in Balance!Commissions(rows) : \E q \in Position : Balance!Targets(rows, rows[i]) = {q})
  BY <1>2 DEF Balance!Costs
<1> QED
  BY <1>1, <1>2

LEMMA SoundLedger == Balance!TypeInv => ledger \in Seq(Balance!Row) /\ Sound(ledger)
  BY DEF Balance!TypeInv, Balance!TypeOK, Sound

LEMMA BalanceTyped == Balance!TypeInv => Balance!TypeOK
  BY DEF Balance!TypeInv, Balance!TypeOK, Balance!TypeOK, Balance!Row

LEMMA DealIs ==
  ASSUME Balance!BalanceAssumption, Balance!TypeInv, NEW i \in Balance!HistoryDeals(ledger)
  PROVE  /\ ledger[i].pos \in Position /\ i \in Balance!Indices(ledger, ledger[i].pos)
         /\ ~Balance!Unsafe(ledger, ledger[i].pos)
<1>1. i \in DOMAIN ledger /\ Balance!IsTrade(ledger[i]) /\ ~Balance!Unsafe(ledger, ledger[i].pos)
  BY DEF Balance!HistoryDeals
<1> QED
  BY <1>1, NamedRows, SoundLedger DEF Balance!Indices

LEMMA CostsShown == Balance!IInv /\ Balance!BalanceAssumption => Balance!CostsAreExact
<1> SUFFICES ASSUME Balance!IInv, Balance!BalanceAssumption, archived = 0, NEW i \in Balance!HistoryDeals(ledger)
             PROVE  Balance!Published(ledger, i).costs \subseteq {charged[ledger[i].pos]}
  BY DEF Balance!CostsAreExact
<1>1. ledger[i].pos \in Position
  BY DealIs DEF Balance!IInv
<1>2. Balance!Costs(ledger, ledger[i].pos) \subseteq {charged[ledger[i].pos]}
  BY <1>1, CostsAre, SoundLedger DEF Balance!IInv, Balance!CostsInv
<1>3. Balance!Published(ledger, i).costs \in {Balance!Costs(ledger, ledger[i].pos), {}}
  BY DEF Balance!Published
<1> QED
  BY <1>2, <1>3

\* The chain of a position nothing was archived of.
LEMMA ChainHere ==
  ASSUME Balance!IInv, NEW p \in Position \ cut
  PROVE  /\ ledger \in Seq(Balance!Row) /\ Sound(ledger)
         /\ Balance!ChainOf(p, ledger, held[p], before[p], p \in irregular)
         /\ Balance!BalanceOf(p, ledger, balance, before[p])
  BY SoundLedger DEF Balance!IInv, Balance!ChainInv, Balance!BalanceInv

LEMMA SafeDeals ==
  ASSUME Balance!IInv, NEW p \in Position \ cut, ~Balance!Unsafe(ledger, p)
  PROVE  Balance!Indices(ledger, p) \subseteq Balance!HistoryDeals(ledger)
<1> SUFFICES ASSUME NEW i \in Balance!Indices(ledger, p) PROVE i \in Balance!HistoryDeals(ledger)
  OBVIOUS
<1> DEFINE m == Balance!Min(Balance!Indices(ledger, p))
<1>1. /\ ledger \in Seq(Balance!Row) /\ Sound(ledger) /\ Balance!Indices(ledger, p) # {}
      /\ Balance!ChainOf(p, ledger, held[p], before[p], p \in irregular)
  BY ChainHere
<1>2. m \in Balance!Indices(ledger, p)
  BY <1>1, FirstOpens DEF Balance!First
<1>3. WholeAt(ledger, p, held[p], m)
  <2> HIDE DEF m
  <2> QED
    BY <1>1, <1>2, SafeIsWhole
<1>4. Balance!EventType(ledger, m) = "trade_opened"
  BY <1>3 DEF WholeAt
<1>5. i \in DOMAIN ledger /\ Balance!IsTrade(ledger[i]) /\ ledger[i].pos = p
  BY DEF Balance!Indices
<1> QED
  BY <1>2, <1>4, <1>5 DEF Balance!HistoryDeals

LEMMA LifecycleShown == Balance!IInv /\ Balance!BalanceAssumption => Balance!LifecycleIsWhole
<1> SUFFICES ASSUME Balance!IInv, Balance!BalanceAssumption,
                    NEW i \in Balance!HistoryDeals(ledger), ledger[i].pos \notin cut
             PROVE  LET p == ledger[i].pos
                        e == Balance!Published(ledger, i)
                    IN  /\ Balance!Indices(ledger, p) \subseteq Balance!HistoryDeals(ledger)
                        /\ e.type = "trade_opened" <=> i = Balance!Min(Balance!Indices(ledger, p))
                        /\ e.type = "trade_closed" <=> (i = Balance!Max(Balance!Indices(ledger, p)) /\ held[p] = 0)
                        /\ e.volume \subseteq {ledger[i].after}
  BY DEF Balance!LifecycleIsWhole
<1> DEFINE p == ledger[i].pos
<1>1. p \in Position \ cut /\ i \in Balance!Indices(ledger, p) /\ ~Balance!Unsafe(ledger, p)
  BY DealIs DEF Balance!IInv
<1>2. /\ ledger \in Seq(Balance!Row) /\ Sound(ledger)
      /\ Balance!ChainOf(p, ledger, held[p], before[p], p \in irregular)
  BY <1>1, ChainHere
<1>3. WholeAt(ledger, p, held[p], i)
  <2> HIDE DEF p
  <2> QED
    BY <1>1, <1>2, SafeIsWhole
<1>4. Balance!Indices(ledger, p) \subseteq Balance!HistoryDeals(ledger)
  BY <1>1, SafeDeals
<1>5. Balance!Published(ledger, i).type = Balance!EventType(ledger, i)
  BY DEF Balance!Published
<1>6. Balance!Published(ledger, i).volume
        = IF ledger[i].entry = "IN" THEN {Balance!VolumeAt(ledger, p, i) + ledger[i].vol} ELSE {}
  BY DEF Balance!Published
<1>7. Balance!Published(ledger, i).volume \subseteq {ledger[i].after}
  BY <1>3, <1>6 DEF WholeAt
<1> QED
  BY <1>3, <1>4, <1>5, <1>7 DEF WholeAt

\* What the walk back finds before the first row of a position.
LEMMA WalkFinds ==
  ASSUME Balance!IInv, NEW p \in Position \ cut, Balance!Indices(ledger, p) # {}
  PROVE  /\ Balance!FirstOpening(ledger, p) = Balance!Min(Balance!Indices(ledger, p))
         /\ Balance!Openings(ledger, p) # {}
         /\ Balance!BalanceBefore(ledger, Balance!Anchor(TRUE), Balance!FirstOpening(ledger, p))
              = IF \A j \in Balance!Min(Balance!Indices(ledger, p))..Len(ledger) : Balance!Explained(ledger[j])
                THEN before[p] ELSE {}
<1> DEFINE m == Balance!Min(Balance!Indices(ledger, p))
<1>1. /\ ledger \in Seq(Balance!Row) /\ Sound(ledger)
      /\ Balance!ChainOf(p, ledger, held[p], before[p], p \in irregular)
      /\ Balance!BalanceOf(p, ledger, balance, before[p])
  BY ChainHere
<1>2. Balance!First(ledger, p, m) /\ Balance!FirstOpening(ledger, p) = m /\ ledger[m].entry = "IN"
  BY <1>1, FirstOpens
<1> HIDE DEF m
<1>3. m \in DOMAIN ledger /\ m \in Balance!Openings(ledger, p)
  BY <1>2 DEF Balance!First, Balance!Indices, Balance!Openings
<1>4. Balance!BalanceBefore(ledger, Balance!Anchor(TRUE), m)
        = IF Balance!KnownFrom(ledger, m)
          THEN {balance - Balance!SumFunctionOnSet(Balance!Effects(ledger), m..Len(ledger))}
          ELSE {}
  BY DEF Balance!BalanceBefore, Balance!Anchor, Balance!KnownFrom
<1>5. Balance!KnownFrom(ledger, m) =>
        before[p] = {balance - Balance!SumFunctionOnSet(Balance!Effects(ledger), m..Len(ledger))}
  BY <1>1, <1>2, <1>3 DEF Balance!BalanceOf
<1>6. Balance!BalanceBefore(ledger, Balance!Anchor(TRUE), m) = IF Balance!KnownFrom(ledger, m) THEN before[p] ELSE {}
  BY <1>4, <1>5
<1> QED
  BY <1>2, <1>3, <1>6 DEF Balance!KnownFrom, m

LEMMA BalanceShown == Balance!IInv => Balance!BalanceIsExact
<1> SUFFICES ASSUME Balance!IInv PROVE Balance!BalanceIsExact
  OBVIOUS
<1>1. ASSUME NEW p \in DOMAIN Balance!Report(ledger, Balance!Anchor(TRUE)) \ cut
      PROVE  Balance!Report(ledger, Balance!Anchor(TRUE))[p] \subseteq before[p]
  <2>1. p \in Position \ cut /\ Balance!Openings(ledger, p) # {}
    BY DEF Balance!Report
  <2>2. Balance!Indices(ledger, p) # {}
    BY <2>1 DEF Balance!Openings
  <2>3. Balance!BalanceBefore(ledger, Balance!Anchor(TRUE), Balance!FirstOpening(ledger, p)) \subseteq before[p]
    BY <2>1, <2>2, WalkFinds
  <2>4. Balance!Report(ledger, Balance!Anchor(TRUE))[p]
          \subseteq Balance!BalanceBefore(ledger, Balance!Anchor(TRUE), Balance!FirstOpening(ledger, p))
    BY <2>1 DEF Balance!Report
  <2> QED
    BY <2>3, <2>4
<1>2. ASSUME NEW p \in DOMAIN Balance!Report(ledger, Balance!Anchor(FALSE))
      PROVE  Balance!Report(ledger, Balance!Anchor(FALSE))[p] = {}
  <2>1. Balance!BalanceBefore(ledger, Balance!Anchor(FALSE), Balance!FirstOpening(ledger, p)) = {}
    BY DEF Balance!BalanceBefore, Balance!Anchor
  <2> QED
    BY <2>1 DEF Balance!Report
<1> QED
  BY <1>1, <1>2, Zenon DEF Balance!BalanceIsExact

LEMMA PublishedShown == Balance!IInv => Balance!ProvableIsPublished
<1> SUFFICES ASSUME Balance!IInv, NEW p \in Position \ (irregular \cup cut), Balance!Indices(ledger, p) # {}
             PROVE  /\ Balance!Indices(ledger, p) \subseteq Balance!HistoryDeals(ledger)
                    /\ (/\ \A j \in Balance!Min(Balance!Indices(ledger, p))..Len(ledger) : Balance!Explained(ledger[j])
                        /\ \A b \in before[p] : b > 0)
                         => Balance!Report(ledger, Balance!Anchor(TRUE))[p] = before[p]
  BY DEF Balance!ProvableIsPublished
<1>1. p \in Position \ cut /\ (p \in irregular) = FALSE
  OBVIOUS
<1>2. /\ ledger \in Seq(Balance!Row) /\ Sound(ledger)
      /\ Balance!ChainOf(p, ledger, held[p], before[p], FALSE)
  BY <1>1, ChainHere
<1>3. ~Balance!Unsafe(ledger, p)
  BY <1>2, RegularIsSafe
<1>4. Balance!Indices(ledger, p) \subseteq Balance!HistoryDeals(ledger)
  BY <1>1, <1>3, SafeDeals
<1>5. ASSUME \A j \in Balance!Min(Balance!Indices(ledger, p))..Len(ledger) : Balance!Explained(ledger[j]),
             \A b \in before[p] : b > 0
      PROVE  Balance!Report(ledger, Balance!Anchor(TRUE))[p] = before[p]
  <2>1. /\ Balance!BalanceBefore(ledger, Balance!Anchor(TRUE), Balance!FirstOpening(ledger, p)) = before[p]
        /\ Balance!Openings(ledger, p) # {}
    BY <1>1, <1>5, WalkFinds
  <2>2. Balance!Report(ledger, Balance!Anchor(TRUE))[p]
          = {b \in Balance!BalanceBefore(ledger, Balance!Anchor(TRUE), Balance!FirstOpening(ledger, p)) : b > 0}
    BY <1>3, <2>1 DEF Balance!Report
  <2> QED
    BY <1>5, <2>1, <2>2
<1> QED
  BY <1>4, <1>5

LEMMA BalanceShows == Balance!IInv /\ Balance!BalanceAssumption =>
  /\ Balance!TypeOK
  /\ Balance!BalanceIsExact /\ Balance!CostsAreExact
  /\ Balance!LifecycleIsWhole /\ Balance!ProvableIsPublished
  BY BalanceTyped, BalanceShown, CostsShown, LifecycleShown, PublishedShown DEF Balance!IInv

\* The account, its ledger and the answers the reconstruction has to find are in step:
\* the inductive invariant of the broker's side (history_balance.py).
THEOREM BalanceInvariant == Balance!Spec => []Balance!IInv
<1>1. Balance!BalanceAssumption
  BY AgentAssumption DEF AgentAssumption
<1>2. Balance!Init => Balance!IInv
  BY <1>1, BalanceInit
<1>3. Balance!IInv /\ [Balance!Next]_Balance!vars => Balance!IInv'
  BY <1>1, BalanceStep
<1> QED
  BY <1>2, <1>3, PTL DEF Balance!Spec

\* A behaviour of the composition is one of the account.
LEMMA BalanceComposed == SpecOne => Balance!Spec
<1>1. InitOne => Balance!Init
  BY DEF InitOne
<1>2. [NextOne]_<<part, vars, balanceVars, excursionVars, leaseVars, runtimeVars>>
        => [Balance!Next]_Balance!vars
  BY DEF NextOne, HandoffMoves, BalanceMoves, TrackerMoves, LeaseMoves, RuntimeMoves,
     balanceVars, Balance!vars
<1> QED
  BY <1>1, <1>2, PTL DEF SpecOne, Balance!Spec

\* ReconstructionIsExact: for any positions, volumes and deals, whatever is charged,
\* canceled or archived, the balances, costs and lifecycles that are published are the
\* account's own, and what can be proved is published (history_balance.py).
THEOREM ReconstructionExact == SpecOne => []ReconstructionIsExact
<1>1. Balance!BalanceAssumption
  BY AgentAssumption DEF AgentAssumption
<1>2. Balance!IInv => ReconstructionIsExact
  BY <1>1, BalanceShows DEF ReconstructionIsExact
<1> QED
  BY <1>2, BalanceComposed, BalanceInvariant, PTL
=============================================================================
