------------------------- MODULE InstancePoolProofs -------------------------
(***************************************************************************)
(* Theorems about InstancePool, for every set of slots, connections and    *)
(* claimers and every target size.                                         *)
(***************************************************************************)
EXTENDS InstancePool, TLAPS

\* The records the threads are reset to are of the right type.
LEMMA RecordTypes == Idle \in Flight /\ Resting \in Round /\ NoInstance \in Publication
BY DEF Idle, Resting, NoInstance, Flight, ClaimStep, Round, Publication

\* A function changed at one place.
LEMMA UpdateType ==
  ASSUME NEW S, NEW T, NEW f \in [S -> T], NEW p \in S, NEW r \in T
  PROVE  [f EXCEPT ![p] = r] \in [S -> T]
OBVIOUS

\* A claim that goes on to another step or another list keeps its type.
LEMMA StepType ==
  ASSUME claimer \in [Claimers -> Flight], NEW p \in Claimers, NEW x \in ClaimStep
  PROVE  [claimer EXCEPT ![p].pc = x] \in [Claimers -> Flight]
<1>1. [claimer[p] EXCEPT !.pc = x] \in Flight
  BY DEF Flight
<1>. QED  BY <1>1

LEMMA ListType ==
  ASSUME claimer \in [Claimers -> Flight], NEW p \in Claimers, NEW l \in SUBSET Slots
  PROVE  [claimer EXCEPT ![p].list = l] \in [Claimers -> Flight]
<1>1. [claimer[p] EXCEPT !.list = l] \in Flight
  BY DEF Flight
<1>. QED  BY <1>1

LEMMA FlightType ==
  ASSUME claimer \in [Claimers -> Flight], NEW p \in Claimers,
         \/ End(p)
         \/ \E x \in ClaimStep : Move(p, x)
         \/ \E l \in SUBSET Slots : claimer' = [claimer EXCEPT ![p].list = l]
  PROVE  claimer' \in [Claimers -> Flight]
<1>1. CASE End(p)
  BY <1>1, RecordTypes DEF End
<1>2. CASE \E x \in ClaimStep : Move(p, x)
  BY <1>2, StepType DEF Move
<1>3. CASE \E l \in SUBSET Slots : claimer' = [claimer EXCEPT ![p].list = l]
  BY <1>3, ListType
<1>. QED  BY <1>1, <1>2, <1>3

\* A slot whose state changes keeps its type.
LEMMA SlotType ==
  ASSUME slot \in [Slots -> Tree], NEW s,
         \E x \in {"unborn", "copied", "anonymous", "ready", "bound", "partial"} :
           slot' = [slot EXCEPT ![s].state = x]
  PROVE  slot' \in [Slots -> Tree]
BY DEF Tree

\* The initial state satisfies the invariant.
LEMMA InitInv == Init => IInv
<1>. SUFFICES ASSUME Init PROVE IInv
  OBVIOUS
<1>. USE PoolAssumption
<1>1. TypeOK
  BY RecordTypes DEF Init, TypeOK, Tree
<1>2. OnePlace /\ Nowhere
  BY DEF Init, OnePlace, Nowhere, NoInstance
<1>3. ThreadInv /\ FlightInv /\ ReservedIsHeld
  BY DEF Init, ThreadInv, FlightInv, ReservedIsHeld, Holds, InFlight, Idle, Resting, conn
<1>4. TakenInv /\ ReadyIsAnonymous /\ PublishedIsWhole
  BY DEF Init, TakenInv, ReadyIsAnonymous, PublishedIsWhole, Idle, NoInstance
<1>. QED  BY <1>1, <1>2, <1>3, <1>4 DEF IInv

-----------------------------------------------------------------------------
\* Every step keeps the types.
LEMMA TypeStep == IInv /\ [Next]_vars => TypeOK'
<1>. SUFFICES ASSUME IInv, [Next]_vars PROVE TypeOK'
  OBVIOUS
<1>0. TypeOK /\ ThreadInv
  BY DEF IInv
<1>. USE <1>0 DEF TypeOK, pool
<1>a. ASSUME Event PROVE events' \in 0..MaxEvents
  BY <1>a, PoolAssumption DEF Event
<1>1. CASE UNCHANGED vars
  BY <1>1 DEF vars
<1>2. CASE Maintain \/ Judge \/ Rest
  <2>1. builder' \in Round
    <3>1. CASE Maintain \/ Rest
      BY <3>1, RecordTypes DEF Maintain, Rest, Round
    <3>2. CASE Judge
      BY <3>2 DEF Judge, Round
    <3>. QED  BY <1>2, <3>1, <3>2
  <2>. QED  BY <1>2, <2>1 DEF Maintain, Judge, Rest
<1>3. CASE RemoveBegins \/ RemoveEnds
  <2>1. builder' \in Round
    BY <1>3 DEF RemoveBegins, RemoveEnds, Round
  <2>2. slot' \in [Slots -> Tree]
    BY <1>3, SlotType DEF RemoveBegins, RemoveEnds
  <2>. QED  BY <1>3, <2>1, <2>2 DEF RemoveBegins, RemoveEnds
<1>4. CASE Build
  <2>1. builder' \in Round
    BY <1>4 DEF Build, Round
  <2>2. slot' \in [Slots -> Tree]
    BY <1>4 DEF Build, Tree
  <2>. QED  BY <1>4, <2>1, <2>2 DEF Build
<1>5. CASE Sanitize \/ Certify
  <2>1. slot' \in [Slots -> Tree]
    BY <1>5, SlotType DEF Sanitize, Certify
  <2>. QED  BY <1>5, <2>1 DEF Sanitize, Certify
<1>6. CASE Shelve \/ BuildFails
  <2>1. builder' \in Round
    <3>1. CASE Shelve
      BY <3>1 DEF Shelve, Round
    <3>2. CASE BuildFails
      BY <3>2, RecordTypes DEF BuildFails
    <3>. QED  BY <1>6, <3>1, <3>2
  <2>2. building' \subseteq Slots /\ ready' \subseteq Slots
    BY <1>6 DEF Shelve, BuildFails, ThreadInv
  <2>3. events' \in 0..MaxEvents
    BY <1>6, <1>a DEF Shelve, BuildFails
  <2>. QED  BY <1>6, <2>1, <2>2, <2>3 DEF Shelve, BuildFails
<1>16. CASE RemoveFails
  BY <1>16, <1>a, RecordTypes DEF RemoveFails
<1>7. ASSUME NEW p \in Claimers, NEW c \in Conns, Begin(p, c) PROVE TypeOK'
  <2>1. claimer' \in [Claimers -> Flight]
    BY <1>7 DEF Begin, Idle, Flight, ClaimStep
  <2>2. claims' \in 0..MaxClaims
    BY <1>7, PoolAssumption DEF Begin
  <2>. QED  BY <1>7, <2>1, <2>2 DEF Begin
<1>8. ASSUME NEW p \in Claimers, Look(p) \/ Retire(p) \/ Refuse(p) PROVE TypeOK'
  <2>1. claimer' \in [Claimers -> Flight]
    BY <1>8, FlightType DEF Look, Retire, Refuse, ClaimStep
  <2>2. instance' \in [Conns -> Publication]
    BY <1>8, RecordTypes DEF Look, Retire, Refuse
  <2>3. events' \in 0..MaxEvents
    BY <1>8, <1>a DEF Look, Retire, Refuse
  <2>. QED  BY <1>8, <2>1, <2>2, <2>3 DEF Look, Retire, Refuse
<1>17. ASSUME NEW p \in Claimers, Reserve(p) \/ ReserveFails(p) PROVE TypeOK'
  <2>1. claimer' \in [Claimers -> Flight]
    BY <1>17, FlightType DEF Reserve, ReserveFails, ClaimStep
  <2>2. reservations' \subseteq Conns /\ orphaned' \subseteq Conns
    BY <1>17 DEF Reserve, ReserveFails, ThreadInv, At
  <2>3. events' \in 0..MaxEvents
    BY <1>17, <1>a DEF Reserve, ReserveFails
  <2>. QED  BY <1>17, <2>1, <2>2, <2>3 DEF Reserve, ReserveFails
<1>9. ASSUME NEW p \in Claimers, Recheck(p) \/ Take(p) \/ Check(p) PROVE TypeOK'
  <2>1. claimer' \in [Claimers -> Flight]
    <3>1. "take" \in ClaimStep /\ "check" \in ClaimStep /\ "bind" \in ClaimStep
          /\ claimer[p].list \in SUBSET Slots
      BY DEF ClaimStep, Flight
    <3>2. CASE Recheck(p)
      <4>1. [claimer[p] EXCEPT !.pc = "take", !.list = ready] \in Flight
        BY <3>1 DEF Flight
      <4>2. CASE Move(p, "unwind")
        BY <4>2, FlightType DEF ClaimStep
      <4>. QED  BY <3>2, <4>1, <4>2 DEF Recheck
    <3>3. CASE Take(p)
      <4>1. PICK s \in claimer[p].list :
              \/ s \in ready /\ Move(p, "check")
              \/ claimer' = [claimer EXCEPT ![p].list = @ \ {s}]
        BY <3>3 DEF Take
      <4>2. claimer[p].list \ {s} \in SUBSET Slots
        BY <3>1
      <4>. QED  BY <3>1, <4>1, <4>2, FlightType
    <3>4. CASE Check(p)
      BY <3>1, <3>4, FlightType DEF Check, Move
    <3>. QED  BY <1>9, <3>2, <3>3, <3>4
  <2>2. claimed' \in [Conns -> Slots \cup {None}] /\ reservations' \subseteq Conns
        /\ ready' \subseteq Slots
    BY <1>9 DEF Recheck, Take, Check
  <2>. QED  BY <1>9, <2>1, <2>2 DEF Recheck, Take, Check
<1>10. ASSUME NEW p \in Claimers, Bind(p) PROVE TypeOK'
  <2>1. claimer' \in [Claimers -> Flight]
    BY <1>10, FlightType DEF Bind, ClaimStep
  <2>2. slot' \in [Slots -> Tree]
    BY <1>10 DEF Bind, Tree
  <2>. QED  BY <1>10, <2>1, <2>2 DEF Bind
<1>11. ASSUME NEW p \in Claimers, Publish(p) \/ Confirm(p) \/ ConfirmFails(p) PROVE TypeOK'
  <2>1. claimer' \in [Claimers -> Flight]
    BY <1>11, FlightType DEF Publish, Confirm, ConfirmFails, ClaimStep
  <2>2. conn(p) \in Conns
    BY <1>11 DEF Publish, Confirm, ConfirmFails, At, ThreadInv
  <2>3. instance' \in [Conns -> Publication]
    <3>1. CASE Publish(p)
      BY <3>1, <2>2 DEF Publish, Publication
    <3>2. CASE Confirm(p)
      BY <3>2, <2>2, RecordTypes DEF Confirm
    <3>3. CASE ConfirmFails(p)
      BY <3>3, <2>2, RecordTypes DEF ConfirmFails, Publication
    <3>. QED  BY <1>11, <3>1, <3>2, <3>3
  <2>4. claimed' \in [Conns -> Slots \cup {None}]
    BY <1>11 DEF Publish, Confirm, ConfirmFails
  <2>5. events' \in 0..MaxEvents
    BY <1>11, <1>a DEF Publish, Confirm, ConfirmFails
  <2>. QED  BY <1>11, <2>1, <2>3, <2>4, <2>5 DEF Publish, Confirm, ConfirmFails
<1>18. ASSUME NEW p \in Claimers, ClaimFails(p) \/ NoneLeft(p) PROVE TypeOK'
  <2>1. claimer' \in [Claimers -> Flight]
    BY <1>18, FlightType DEF ClaimFails, NoneLeft, ClaimStep
  <2>2. slot' \in [Slots -> Tree]
    BY <1>18, SlotType DEF ClaimFails, NoneLeft
  <2>3. events' \in 0..MaxEvents
    BY <1>18, <1>a DEF ClaimFails, NoneLeft
  <2>. QED  BY <1>18, <2>1, <2>2, <2>3 DEF ClaimFails, NoneLeft
<1>19. ASSUME NEW p \in Claimers, Release(p) \/ ReleaseFails(p) PROVE TypeOK'
  <2>1. claimer' \in [Claimers -> Flight]
    BY <1>19, FlightType DEF Release, ReleaseFails, ClaimStep
  <2>2. conn(p) \in Conns
    BY <1>19 DEF Release, ReleaseFails, Unwinding, At, ThreadInv
  <2>3. slot' \in [Slots -> Tree]
    BY <1>19, SlotType DEF Release, ReleaseFails
  <2>4. /\ claimed' \in [Conns -> Slots \cup {None}]
        /\ reservations' \subseteq Conns /\ orphaned' \subseteq Conns
    BY <1>19, <2>2 DEF Release, ReleaseFails
  <2>5. events' \in 0..MaxEvents
    BY <1>19, <1>a DEF Release, ReleaseFails
  <2>. QED  BY <1>19, <2>1, <2>3, <2>4, <2>5 DEF Release, ReleaseFails
<1>12. ASSUME NEW p \in Claimers, DirectPublish(p) PROVE TypeOK'
  <2>1. claimer' \in [Claimers -> Flight]
    BY <1>12, FlightType DEF DirectPublish, ClaimStep
  <2>2. instance' \in [Conns -> Publication]
    BY <1>12 DEF DirectPublish, Publication
  <2>. QED  BY <1>12, <2>1, <2>2 DEF DirectPublish
<1>13. CASE NewTemplate
  BY <1>13, <1>a DEF NewTemplate
<1>14. ASSUME NEW c \in Conns, Spoil(c) \/ Discard(c) PROVE TypeOK'
  <2>1. instance' \in [Conns -> Publication]
    <3>1. CASE Spoil(c)
      BY <3>1 DEF Spoil, Publication
    <3>2. CASE Discard(c)
      BY <3>2, RecordTypes DEF Discard
    <3>. QED  BY <1>14, <3>1, <3>2
  <2>. QED  BY <1>14, <1>a, <2>1 DEF Spoil, Discard
<1>15. CASE Crash \/ Recover
  <2>1. builder' \in Round /\ claimer' \in [Claimers -> Flight]
    BY <1>15, RecordTypes DEF Crash, Recover
  <2>2. claimed' \in [Conns -> Slots \cup {None}]
    BY <1>15 DEF Crash, Recover
  <2>. QED  BY <1>15, <1>a, <2>1, <2>2 DEF Crash, Recover
<1>. QED
  BY <1>1, <1>2, <1>3, <1>4, <1>5, <1>6, <1>7, <1>8, <1>9, <1>10, <1>11, <1>12, <1>13,
     <1>14, <1>15, <1>16, <1>17, <1>18, <1>19 DEF Next, Maintenance, Claim

-----------------------------------------------------------------------------
\* A slot moves from one directory to the next and is never in two; a slot of
\* the builder stays in building/ until it is shelved or removed.
LEMMA PlaceStep == IInv /\ [Next]_vars => OnePlace' /\ Nowhere'
<1>. SUFFICES ASSUME IInv, [Next]_vars PROVE OnePlace' /\ Nowhere'
  OBVIOUS
<1>. USE PoolAssumption DEF IInv, TypeOK, Tree, pool, OnePlace, Nowhere
<1>1. CASE UNCHANGED vars
  BY <1>1 DEF vars
<1>2. CASE Maintain \/ Judge \/ Rest
  BY <1>2 DEF Maintain, Judge, Rest
<1>3. CASE RemoveBegins \/ RemoveEnds \/ RemoveFails
  BY <1>3 DEF RemoveBegins, RemoveEnds, RemoveFails
<1>4. CASE Build
  BY <1>4 DEF Build
<1>5. CASE Sanitize \/ Certify
  BY <1>5 DEF Sanitize, Certify
<1>6. CASE Shelve \/ BuildFails
  BY <1>6 DEF Shelve, BuildFails, ThreadInv
<1>7. ASSUME NEW p \in Claimers, NEW c \in Conns, Begin(p, c) PROVE OnePlace' /\ Nowhere'
  BY <1>7 DEF Begin
<1>8. ASSUME NEW p \in Claimers, Look(p) \/ Retire(p) \/ Refuse(p) \/ Reserve(p) \/ ReserveFails(p)
      PROVE OnePlace' /\ Nowhere'
  BY <1>8 DEF Look, Retire, Refuse, Reserve, ReserveFails, NoInstance
<1>9. ASSUME NEW p \in Claimers, Recheck(p) \/ Take(p) \/ Check(p) \/ NoneLeft(p)
      PROVE OnePlace' /\ Nowhere'
  BY <1>9 DEF Recheck, Take, Check, NoneLeft, ThreadInv, At, conn
<1>10. ASSUME NEW p \in Claimers, Bind(p) PROVE OnePlace' /\ Nowhere'
  BY <1>10 DEF Bind
<1>11. ASSUME NEW p \in Claimers, Publish(p) PROVE OnePlace' /\ Nowhere'
  BY <1>11 DEF Publish, ThreadInv, At, conn
<1>12. ASSUME NEW p \in Claimers, Confirm(p) PROVE OnePlace' /\ Nowhere'
  BY <1>12 DEF Confirm, NoInstance, ThreadInv, At, conn
<1>17. ASSUME NEW p \in Claimers, ConfirmFails(p) PROVE OnePlace' /\ Nowhere'
  <2>1. \A d \in Conns : instance'[d].slot \in {instance[d].slot, None}
    BY <1>17 DEF ConfirmFails, Publication, NoInstance
  <2>. QED  BY <1>17, <2>1 DEF ConfirmFails
<1>13. ASSUME NEW p \in Claimers, Release(p) \/ ReleaseFails(p) \/ ClaimFails(p) \/ DirectPublish(p)
       PROVE OnePlace' /\ Nowhere'
  <2>1. CASE Release(p)
    BY <2>1 DEF Release
  <2>2. CASE ReleaseFails(p)
    BY <2>2 DEF ReleaseFails
  <2>3. CASE ClaimFails(p)
    BY <2>3 DEF ClaimFails
  <2>4. CASE DirectPublish(p)
    BY <2>4 DEF DirectPublish
  <2>. QED  BY <1>13, <2>1, <2>2, <2>3, <2>4
<1>14. CASE NewTemplate
  BY <1>14 DEF NewTemplate
<1>15. ASSUME NEW c \in Conns, Spoil(c) \/ Discard(c) PROVE OnePlace' /\ Nowhere'
  <2>1. CASE Spoil(c)
    <3>1. \A d \in Conns : instance'[d].slot = instance[d].slot
      BY <2>1 DEF Spoil, Publication
    <3>. QED  BY <2>1, <3>1 DEF Spoil
  <2>2. CASE Discard(c)
    BY <2>2 DEF Discard, NoInstance
  <2>. QED  BY <1>15, <2>1, <2>2
<1>16. CASE Crash \/ Recover
  BY <1>16 DEF Crash, Recover
<1>. QED
  BY <1>1, <1>2, <1>3, <1>4, <1>5, <1>6, <1>7, <1>8, <1>9, <1>10, <1>11, <1>12, <1>13,
     <1>14, <1>15, <1>16, <1>17 DEF Next, Maintenance, Claim

-----------------------------------------------------------------------------
\* What the maintenance thread knows of its slot survives every step.
LEMMA ThreadStep == IInv /\ [Next]_vars => ThreadInv'
<1>. SUFFICES ASSUME IInv, [Next]_vars PROVE ThreadInv'
  OBVIOUS
<1>0. TypeOK /\ ThreadInv
  BY DEF IInv
<1>. USE <1>0 DEF TypeOK, pool, ThreadInv, conn
<1>1. CASE UNCHANGED vars
  BY <1>1 DEF vars
<1>2. ASSUME up, UNCHANGED <<claimer, up>>,
             builder'.pc = "building" => builder'.slot \in building',
             builder'.pc = "removing" => builder'.slot \in Slots
      PROVE  ThreadInv'
  BY <1>2
<1>3. CASE up /\ (Maintain \/ Rest)
  <2>1. builder'.pc \in {"judging", "resting"}
    <3>1. CASE Maintain
      BY <3>1 DEF Maintain, Resting
    <3>2. CASE Rest
      BY <3>2 DEF Rest, Resting
    <3>. QED  BY <1>3, <3>1, <3>2
  <2>. QED  BY <1>2, <1>3, <2>1 DEF Maintain, Rest
<1>4. CASE up /\ Judge
  BY <1>2, <1>4 DEF Judge, Round
<1>5. CASE up /\ (RemoveBegins \/ RemoveEnds)
  BY <1>2, <1>5 DEF RemoveBegins, RemoveEnds, Round
<1>6. CASE up /\ (Build \/ Sanitize \/ Certify)
  <2>1. CASE Build
    <3>1. PICK s \in Slots : /\ building' = building \cup {s}
                             /\ builder' = [pc |-> "building", list |-> {}, slot |-> s]
      BY <2>1 DEF Build
    <3>2. builder'.pc = "building" /\ builder'.slot = s
      BY <3>1
    <3>. QED  BY <1>2, <1>6, <2>1, <3>1, <3>2 DEF Build
  <2>2. CASE Sanitize \/ Certify
    BY <1>2, <1>6, <2>2 DEF Sanitize, Certify
  <2>. QED  BY <1>6, <2>1, <2>2
<1>7. CASE up /\ Shelve
  BY <1>2, <1>7 DEF Shelve, Round
<1>8. CASE up /\ (BuildFails \/ RemoveFails)
  <2>1. builder' = Resting /\ up' = up /\ claimer' = claimer
    BY <1>8 DEF BuildFails, RemoveFails
  <2>2. Resting.pc = "resting"
    BY DEF Resting
  <2>. QED  BY <1>2, <1>8, <2>1, <2>2
<1>9. ASSUME up, UNCHANGED <<building, builder, up>>, NEW p \in Claimers,
             NEW f \in Flight, claimer' = [claimer EXCEPT ![p] = f],
             f.pc # "idle" => f.conn \in Conns
      PROVE  ThreadInv'
  BY <1>9
<1>10. ASSUME up, UNCHANGED <<building, builder, up>>, NEW p \in Claimers,
              conn(p) \in Conns, NEW x \in ClaimStep, Move(p, x)
       PROVE  ThreadInv'
  BY <1>10 DEF Move, Flight
<1>11. ASSUME up, UNCHANGED <<building, builder, up>>, NEW p \in Claimers, End(p)
       PROVE  ThreadInv'
  BY <1>11 DEF End, Idle
<1>12. ASSUME NEW p \in Claimers, NEW c \in Conns, Begin(p, c) PROVE ThreadInv'
  BY <1>12 DEF Begin, Idle, At
<1>13. ASSUME NEW p \in Claimers, Look(p) \/ Retire(p) \/ Refuse(p) PROVE ThreadInv'
  BY <1>13, <1>10, <1>11 DEF Look, Retire, Refuse, At, ClaimStep
<1>20. ASSUME NEW p \in Claimers, Reserve(p) \/ ReserveFails(p) PROVE ThreadInv'
  BY <1>20, <1>10, <1>11 DEF Reserve, ReserveFails, At, ClaimStep
<1>14. ASSUME NEW p \in Claimers, Recheck(p) PROVE ThreadInv'
  <2>1. CASE Move(p, "unwind")
    BY <1>14, <2>1, <1>10 DEF Recheck, At, ClaimStep
  <2>2. CASE claimer' = [claimer EXCEPT ![p] = [@ EXCEPT !.pc = "take", !.list = ready]]
    <3>1. \A q \in Claimers : claimer'[q].conn = claimer[q].conn
      BY <2>2 DEF Flight
    <3>2. \A q \in Claimers : claimer'[q].pc # "idle" => claimer[q].pc # "idle"
      BY <1>14, <2>2 DEF Recheck, At, Flight
    <3>. QED  BY <1>14, <3>1, <3>2 DEF Recheck, At
  <2>. QED  BY <1>14, <2>1, <2>2 DEF Recheck
<1>15. ASSUME NEW p \in Claimers, Take(p) PROVE ThreadInv'
  <2>1. CASE Move(p, "check")
    BY <1>15, <2>1, <1>10 DEF Take, At, ClaimStep
  <2>2. CASE \E s : claimer' = [claimer EXCEPT ![p].list = @ \ {s}]
    <3>1. \A q \in Claimers : /\ claimer'[q].conn = claimer[q].conn
                               /\ claimer'[q].pc = claimer[q].pc
      BY <2>2 DEF Flight
    <3>. QED  BY <1>15, <3>1 DEF Take, At
  <2>. QED  BY <1>15, <2>1, <2>2 DEF Take
<1>16. ASSUME NEW p \in Claimers, Check(p) \/ Bind(p) \/ Publish(p) PROVE ThreadInv'
  BY <1>16, <1>10, <1>11 DEF Check, Bind, Publish, Move, At, ClaimStep
<1>17. ASSUME NEW p \in Claimers, Confirm(p) \/ ConfirmFails(p) \/ NoneLeft(p) \/ DirectPublish(p)
       PROVE  ThreadInv'
  BY <1>17, <1>10, <1>11 DEF Confirm, ConfirmFails, NoneLeft, DirectPublish, At, ClaimStep
<1>21. ASSUME NEW p \in Claimers, ClaimFails(p) PROVE ThreadInv'
  BY <1>21, <1>10 DEF ClaimFails, At, ClaimStep
<1>22. ASSUME NEW p \in Claimers, Release(p) \/ ReleaseFails(p) PROVE ThreadInv'
  BY <1>22, <1>10, <1>11 DEF Release, ReleaseFails, Unwinding, At, ClaimStep
<1>18. CASE NewTemplate \/ \E c \in Conns : Spoil(c) \/ Discard(c)
  BY <1>18 DEF NewTemplate, Spoil, Discard
<1>19. CASE Crash \/ Recover
  <2>1. CASE Crash
    <3>1. builder' = Resting /\ builder'.pc = "resting"
      BY <2>1 DEF Crash, Resting
    <3>2. \A q \in Claimers : claimer'[q] = Idle /\ claimer'[q].pc = "idle"
      BY <2>1 DEF Crash, Idle
    <3>. QED  BY <3>1, <3>2
  <2>2. CASE Recover
    <3>1. builder.pc = "resting"
      BY <2>2 DEF Recover, Resting
    <3>. QED  BY <2>2, <3>1 DEF Recover
  <2>. QED  BY <1>19, <2>1, <2>2
<1>. QED
  BY <1>1, <1>3, <1>4, <1>5, <1>6, <1>7, <1>8, <1>12, <1>13, <1>14, <1>15, <1>16, <1>17,
     <1>18, <1>19, <1>20, <1>21, <1>22 DEF Next, Maintenance, Claim

-----------------------------------------------------------------------------
\* The ways a claim and the reservations change together: not at all, a claim
\* reserves its connection, a claim in flight gives the reservation back, a claim
\* ends and its reservation stays.
LEMMA FlightStays ==
  ASSUME FlightInv, ReservedIsHeld, up, UNCHANGED <<reservations, orphaned>>, NEW p \in Claimers,
         \A q \in Claimers \ {p} : InFlight(q)' = InFlight(q) /\ conn(q)' = conn(q),
         InFlight(p)' <=> InFlight(p), InFlight(p) => conn(p)' = conn(p)
  PROVE  FlightInv' /\ ReservedIsHeld'
BY DEF FlightInv, ReservedIsHeld, Holds

LEMMA FlightStarts ==
  ASSUME FlightInv, ReservedIsHeld, up, NEW p \in Claimers,
         \A q \in Claimers \ {p} : InFlight(q)' = InFlight(q) /\ conn(q)' = conn(q),
         ~InFlight(p), InFlight(p)', conn(p)' = conn(p), orphaned' = orphaned,
         conn(p) \notin reservations, reservations' = reservations \cup {conn(p)}
  PROVE  FlightInv' /\ ReservedIsHeld'
BY DEF FlightInv, ReservedIsHeld, Holds

LEMMA FlightEnds ==
  ASSUME FlightInv, ReservedIsHeld, up, NEW p \in Claimers,
         \A q \in Claimers \ {p} : InFlight(q)' = InFlight(q) /\ conn(q)' = conn(q),
         InFlight(p), ~InFlight(p)', reservations' = reservations \ {conn(p)},
         orphaned' = orphaned
  PROVE  FlightInv' /\ ReservedIsHeld'
<1>1. conn(p) \in reservations \ orphaned
  BY DEF FlightInv, ReservedIsHeld, Holds
<1>. QED  BY <1>1 DEF FlightInv, ReservedIsHeld, Holds

LEMMA FlightOrphans ==
  ASSUME FlightInv, ReservedIsHeld, up, NEW p \in Claimers,
         \A q \in Claimers \ {p} : InFlight(q)' = InFlight(q) /\ conn(q)' = conn(q),
         InFlight(p) \/ conn(p) \notin reservations, ~InFlight(p)',
         reservations' = reservations \cup {conn(p)}, orphaned' = orphaned \cup {conn(p)}
  PROVE  FlightInv' /\ ReservedIsHeld'
<1>1. \A q \in Claimers \ {p} : InFlight(q) => conn(q) # conn(p)
  BY DEF FlightInv
<1>. QED  BY <1>1 DEF FlightInv, ReservedIsHeld, Holds

\* Claims in flight and reservations correspond, through crashes and recoveries.
LEMMA FlightStep == IInv /\ [Next]_vars => FlightInv' /\ ReservedIsHeld'
<1>. DEFINE Goal == FlightInv' /\ ReservedIsHeld'
<1>. SUFFICES ASSUME IInv, [Next]_vars PROVE Goal
  OBVIOUS
<1>0. TypeOK /\ ThreadInv /\ FlightInv /\ ReservedIsHeld
  BY DEF IInv
<1>1. CASE UNCHANGED <<claimer, reservations, orphaned, up>>
  BY <1>0, <1>1 DEF FlightInv, ReservedIsHeld, Holds, InFlight, conn
<1>2. ASSUME NEW p \in Claimers, NEW f, claimer' = [claimer EXCEPT ![p] = f]
      PROVE  /\ \A q \in Claimers \ {p} : InFlight(q)' = InFlight(q) /\ conn(q)' = conn(q)
             /\ claimer'[p] = f
  BY <1>0, <1>2 DEF TypeOK, InFlight, conn
<1>3. ASSUME NEW p \in Claimers, NEW x \in ClaimStep, Move(p, x)
      PROVE  /\ \A q \in Claimers \ {p} : InFlight(q)' = InFlight(q) /\ conn(q)' = conn(q)
             /\ conn(p)' = conn(p) /\ claimer'[p].pc = x
  BY <1>0, <1>3 DEF TypeOK, InFlight, conn, Move, Flight
<1>4. ASSUME NEW p \in Claimers, End(p)
      PROVE  /\ \A q \in Claimers \ {p} : InFlight(q)' = InFlight(q) /\ conn(q)' = conn(q)
             /\ ~InFlight(p)'
  <2>1. claimer' = [claimer EXCEPT ![p] = Idle] /\ Idle.pc = "idle"
    BY <1>4 DEF End, Idle
  <2>2. claimer'[p] = Idle
    BY <2>1, <1>2
  <2>. QED  BY <2>1, <2>2, <1>2 DEF InFlight
<1>5. ASSUME NEW p \in Claimers, NEW c \in Conns, Begin(p, c) PROVE Goal
  <2>1. PICK f : f.pc = "look" /\ claimer' = [claimer EXCEPT ![p] = f]
    BY <1>5 DEF Begin, Idle
  <2>2. ~InFlight(p) /\ ~InFlight(p)'
    BY <1>5, <2>1, <1>2 DEF Begin, At, InFlight
  <2>3. \A q \in Claimers \ {p} : InFlight(q)' = InFlight(q) /\ conn(q)' = conn(q)
    BY <2>1, <1>2
  <2>4. up /\ UNCHANGED <<reservations, orphaned>>
    BY <1>5 DEF Begin, At, pool
  <2>. QED  BY <1>0, <2>2, <2>3, <2>4, FlightStays
<1>6. ASSUME NEW p \in Claimers, Look(p) \/ Retire(p) \/ Refuse(p) PROVE Goal
  <2>1. up /\ up' /\ UNCHANGED <<reservations, orphaned>> /\ ~InFlight(p)
    BY <1>0, <1>6 DEF Look, Retire, Refuse, At, InFlight, pool
  <2>2. End(p) \/ Move(p, "reserve") \/ Move(p, "retire")
    BY <1>6 DEF Look, Retire, Refuse
  <2>3. ~InFlight(p)' /\ \A q \in Claimers \ {p} : InFlight(q)' = InFlight(q) /\ conn(q)' = conn(q)
    BY <2>2, <1>3, <1>4 DEF ClaimStep, InFlight
  <2>. QED  BY <1>0, <2>1, <2>3, FlightStays
<1>7. ASSUME NEW p \in Claimers, Reserve(p) PROVE Goal
  <2>1. up /\ up' /\ ~InFlight(p) /\ conn(p) \in Conns /\ orphaned' = orphaned
    BY <1>0, <1>7 DEF Reserve, At, InFlight, ThreadInv
  <2>2. CASE End(p) /\ UNCHANGED reservations
    BY <1>0, <2>1, <2>2, <1>4, FlightStays
  <2>3. CASE /\ conn(p) \notin reservations
             /\ reservations' = reservations \cup {conn(p)} /\ Move(p, "recheck")
    <3>1. /\ InFlight(p)' /\ conn(p)' = conn(p)
          /\ \A q \in Claimers \ {p} : InFlight(q)' = InFlight(q) /\ conn(q)' = conn(q)
      BY <2>3, <1>3 DEF ClaimStep, InFlight
    <3>. QED  BY <1>0, <2>1, <2>3, <3>1, FlightStarts
  <2>. QED  BY <1>7, <2>2, <2>3 DEF Reserve
<1>8. ASSUME NEW p \in Claimers, ReserveFails(p) PROVE Goal
  <2>1. up /\ conn(p) \notin reservations /\ End(p)
    BY <1>8 DEF ReserveFails, At
  <2>. QED  BY <1>0, <1>8, <2>1, <1>4, FlightOrphans DEF ReserveFails
<1>9. ASSUME NEW p \in Claimers, InFlight(p), At(p, claimer[p].pc), up',
             UNCHANGED <<reservations, orphaned>>, conn(p)' = conn(p),
             \A q \in Claimers \ {p} : InFlight(q)' = InFlight(q) /\ conn(q)' = conn(q),
             InFlight(p)'
      PROVE  Goal
  BY <1>0, <1>9, FlightStays DEF At
<1>10. ASSUME NEW p \in Claimers, Recheck(p) PROVE Goal
  <2>1. InFlight(p) /\ At(p, claimer[p].pc) /\ up' /\ UNCHANGED <<reservations, orphaned>>
    BY <1>10 DEF Recheck, At, InFlight, pool
  <2>2. CASE Move(p, "unwind")
    BY <2>1, <2>2, <1>3, <1>9 DEF ClaimStep, InFlight
  <2>3. CASE claimer' = [claimer EXCEPT ![p] = [@ EXCEPT !.pc = "take", !.list = ready]]
    <3>1. /\ [claimer[p] EXCEPT !.pc = "take", !.list = ready].pc = "take"
          /\ [claimer[p] EXCEPT !.pc = "take", !.list = ready].conn = conn(p)
      BY <1>0 DEF TypeOK, Flight, conn
    <3>2. claimer'[p].pc = "take" /\ claimer'[p].conn = conn(p)
      BY <1>0, <2>3, <3>1 DEF TypeOK
    <3>3. \A q \in Claimers \ {p} : InFlight(q)' = InFlight(q) /\ conn(q)' = conn(q)
      BY <2>3, <1>2
    <3>. QED  BY <2>1, <2>3, <3>2, <3>3, <1>9 DEF InFlight, conn
  <2>. QED  BY <1>10, <2>2, <2>3 DEF Recheck
<1>11. ASSUME NEW p \in Claimers, Take(p) PROVE Goal
  <2>1. InFlight(p) /\ At(p, claimer[p].pc) /\ up' /\ UNCHANGED <<reservations, orphaned>>
    BY <1>11 DEF Take, At, InFlight
  <2>2. CASE Move(p, "check")
    BY <2>1, <2>2, <1>3, <1>9 DEF ClaimStep, InFlight
  <2>3. CASE \E s : claimer' = [claimer EXCEPT ![p].list = @ \ {s}]
    <3>1. /\ claimer'[p].pc = claimer[p].pc /\ conn(p)' = conn(p)
          /\ \A q \in Claimers \ {p} : InFlight(q)' = InFlight(q) /\ conn(q)' = conn(q)
      BY <1>0, <2>3 DEF TypeOK, Flight, conn, InFlight
    <3>. QED  BY <2>1, <3>1, <1>9 DEF InFlight
  <2>. QED  BY <1>11, <2>2, <2>3 DEF Take
<1>12. ASSUME NEW p \in Claimers,
              Check(p) \/ Bind(p) \/ Publish(p) \/ Confirm(p) \/ ConfirmFails(p)
       PROVE  Goal
  <2>1. InFlight(p) /\ At(p, claimer[p].pc) /\ up' /\ UNCHANGED <<reservations, orphaned>>
    BY <1>12 DEF Check, Bind, Publish, Confirm, ConfirmFails, At, InFlight, pool
  <2>2. \E x \in {"bind", "take", "publish", "confirm", "unwind"} : Move(p, x)
    BY <1>12 DEF Check, Bind, Publish, Confirm, ConfirmFails, Move
  <2>. QED  BY <2>1, <2>2, <1>3, <1>9 DEF ClaimStep, InFlight
<1>13. ASSUME NEW p \in Claimers, ClaimFails(p) \/ NoneLeft(p) PROVE Goal
  <2>1. InFlight(p) /\ At(p, claimer[p].pc) /\ up' /\ UNCHANGED <<reservations, orphaned>>
    BY <1>13 DEF ClaimFails, NoneLeft, At, InFlight, pool
  <2>2. Move(p, "unwind") \/ Move(p, "empty")
    BY <1>13 DEF ClaimFails, NoneLeft
  <2>. QED  BY <2>1, <2>2, <1>3, <1>9 DEF ClaimStep, InFlight
<1>14. ASSUME NEW p \in Claimers, Release(p) \/ ReleaseFails(p) PROVE Goal
  <2>1. InFlight(p) /\ up
    BY <1>14 DEF Release, ReleaseFails, Unwinding, At, InFlight
  <2>2. End(p) \/ Move(p, "direct")
    BY <1>14 DEF Release, ReleaseFails
  <2>3. ~InFlight(p)' /\ \A q \in Claimers \ {p} : InFlight(q)' = InFlight(q) /\ conn(q)' = conn(q)
    BY <2>2, <1>3, <1>4 DEF ClaimStep, InFlight
  <2>4. CASE Release(p)
    BY <1>0, <2>1, <2>3, <2>4, FlightEnds DEF Release
  <2>5. CASE ReleaseFails(p)
    <3>1. reservations' = reservations \cup {conn(p)}
      BY <1>0, <2>1, <2>5 DEF ReleaseFails, FlightInv
    <3>. QED  BY <1>0, <2>1, <2>3, <2>5, <3>1, FlightOrphans DEF ReleaseFails
  <2>. QED  BY <1>14, <2>4, <2>5
<1>15. ASSUME NEW p \in Claimers, DirectPublish(p) PROVE Goal
  <2>1. up /\ up' /\ UNCHANGED <<reservations, orphaned>> /\ ~InFlight(p) /\ conn(p) \in Conns
    BY <1>0, <1>15 DEF DirectPublish, At, InFlight, ThreadInv, pool
  <2>. QED  BY <1>0, <1>15, <2>1, <1>4, FlightStays DEF DirectPublish
<1>16. CASE Crash
  <2>1. \A q \in Claimers : ~InFlight(q)'
    BY <1>16 DEF Crash, Idle, InFlight
  <2>. QED  BY <1>16, <2>1 DEF Crash, FlightInv, ReservedIsHeld
<1>17. CASE Recover
  <2>1. \A q \in Claimers : ~InFlight(q)'
    BY <1>0, <1>17 DEF Recover, Idle, InFlight, ThreadInv
  <2>. QED  BY <1>17, <2>1 DEF Recover, FlightInv, ReservedIsHeld
<1>18. CASE Maintenance \/ NewTemplate \/ \E c \in Conns : Spoil(c) \/ Discard(c)
  BY <1>1, <1>18 DEF Maintenance, Maintain, Judge, RemoveBegins, RemoveEnds, RemoveFails, Build,
     Sanitize, Certify, Shelve, BuildFails, Rest, NewTemplate, Spoil, Discard, pool
<1>19. CASE UNCHANGED vars
  BY <1>1, <1>19 DEF vars, pool
<1>. QED
  BY <1>5, <1>6, <1>7, <1>8, <1>10, <1>11, <1>12, <1>13, <1>14, <1>15, <1>16, <1>17, <1>18,
     <1>19 DEF Next, Claim

-----------------------------------------------------------------------------
\* The tree of a slot that a claim or an instance holds is touched by no one else;
\* a slot reaches ready/ only when it is certified.
LEMMA ContentStep == IInv /\ [Next]_vars => TakenInv' /\ ReadyIsAnonymous' /\ PublishedIsWhole'
<1>. DEFINE Goal == TakenInv' /\ ReadyIsAnonymous' /\ PublishedIsWhole'
<1>. SUFFICES ASSUME IInv, [Next]_vars PROVE Goal
  OBVIOUS
<1>0. /\ TypeOK /\ OnePlace /\ Nowhere /\ ThreadInv /\ FlightInv
      /\ TakenInv /\ ReadyIsAnonymous /\ PublishedIsWhole
  BY DEF IInv
<1>1. ASSUME UNCHANGED <<slot, claimed, instance>>, UNCHANGED claimer, ready' \subseteq ready
      PROVE  Goal
  BY <1>0, <1>1 DEF TakenInv, ReadyIsAnonymous, PublishedIsWhole, conn
<1>2. \* A slot that nobody holds changes.
      ASSUME NEW s \in Slots, NEW t, UNCHANGED <<claimed, instance, claimer, ready>>,
             slot' = [slot EXCEPT ![s] = t],
             \A c \in Conns : claimed[c] # s /\ instance[c].slot # s,
             s \in ready => t.state = "partial"
      PROVE  Goal
  <2>1. \A r \in Slots \ {s} : slot'[r] = slot[r]
    BY <1>0, <1>2 DEF TypeOK
  <2>2. TakenInv'
    <3>1. \A p \in Claimers : claimer[p].pc \in {"bind", "publish"} =>
            conn(p) \in Conns /\ claimed[conn(p)] \in Slots \ {s}
      BY <1>0, <1>2 DEF TypeOK, TakenInv, ThreadInv
    <3>. QED  BY <1>0, <1>2, <2>1, <3>1 DEF TakenInv, conn
  <2>3. ReadyIsAnonymous'
    BY <1>0, <1>2, <2>1 DEF TypeOK, ReadyIsAnonymous
  <2>4. PublishedIsWhole'
    BY <1>0, <1>2, <2>1 DEF TypeOK, TakenInv, PublishedIsWhole, Publication
  <2>. QED  BY <2>2, <2>3, <2>4
<1>3. CASE Maintain \/ Judge \/ RemoveEnds \/ RemoveFails \/ BuildFails \/ Rest \/ NewTemplate
  BY <1>1, <1>3 DEF Maintain, Judge, RemoveEnds, RemoveFails, BuildFails, Rest, NewTemplate, pool
<1>4. CASE RemoveBegins
  <2>1. \A c \in Conns : claimed[c] # builder.slot /\ instance[c].slot # builder.slot
    BY <1>0, <1>4, PoolAssumption DEF RemoveBegins, OnePlace, TypeOK
  <2>2. slot' = [slot EXCEPT ![builder.slot] = [slot[builder.slot] EXCEPT !.state = "partial"]]
    BY <1>4 DEF RemoveBegins
  <2>3. [slot[builder.slot] EXCEPT !.state = "partial"].state = "partial" /\ builder.slot \in Slots
    BY <1>0, <1>4 DEF RemoveBegins, TypeOK, Tree
  <2>. QED  BY <1>2, <1>4, <2>1, <2>2, <2>3 DEF RemoveBegins
<1>5. CASE Build
  <2>1. PICK s \in Slots :
          /\ slot[s].state = "unborn"
          /\ slot' = [slot EXCEPT ![s] = [release |-> template, state |-> "copied"]]
    BY <1>5 DEF Build
  <2>2. s \notin ready /\ \A c \in Conns : claimed[c] # s /\ instance[c].slot # s
    BY <1>0, <2>1 DEF Nowhere
  <2>. QED  BY <1>2, <1>5, <2>1, <2>2 DEF Build
<1>6. CASE Sanitize \/ Certify
  <2>1. builder.slot \in building
    BY <1>0, <1>6 DEF Sanitize, Certify, ThreadInv
  <2>2. /\ builder.slot \in Slots /\ builder.slot \notin ready
        /\ \A c \in Conns : claimed[c] # builder.slot /\ instance[c].slot # builder.slot
    BY <1>0, <2>1, PoolAssumption DEF OnePlace, TypeOK
  <2>3. \E x : slot' = [slot EXCEPT ![builder.slot] = [slot[builder.slot] EXCEPT !.state = x]]
    BY <1>6 DEF Sanitize, Certify
  <2>. QED  BY <1>2, <1>6, <2>2, <2>3 DEF Sanitize, Certify
<1>7. CASE Shelve
  <2>1. slot[builder.slot].state = "ready"
    BY <1>7 DEF Shelve, Valid
  <2>. QED  BY <1>0, <1>7, <2>1 DEF Shelve, TakenInv, ReadyIsAnonymous, PublishedIsWhole, conn
<1>8. \* A claim moves on to a step that holds no slot.
      ASSUME NEW p \in Claimers, NEW f, claimer' = [claimer EXCEPT ![p] = f],
             f.pc \notin {"check", "bind", "publish"}, ready' = ready, slot' = slot,
             \A q \in Claimers \ {p} : claimer[q].pc \in {"check", "bind", "publish"} =>
               claimed'[conn(q)] = claimed[conn(q)],
             \A c \in Conns : \/ instance'[c] = instance[c]
                              \/ instance'[c].kind # "pooled"
                              \/ /\ instance'[c].slot \in Slots
                                 /\ slot[instance'[c].slot].state = "bound"
      PROVE  Goal
  <2>1. \A q \in Claimers \ {p} : claimer'[q] = claimer[q]
    BY <1>0, <1>8 DEF TypeOK
  <2>2. claimer'[p] = f
    BY <1>0, <1>8 DEF TypeOK
  <2>3. TakenInv'
    <3>1. \A q \in Claimers : claimer'[q].pc \in {"check", "bind", "publish"} =>
            /\ claimer'[q] = claimer[q] /\ conn(q) \in Conns
            /\ claimed'[conn(q)] = claimed[conn(q)]
      BY <1>0, <1>8, <2>1, <2>2 DEF ThreadInv
    <3>2. \A c \in Conns : instance'[c].kind = "pooled" => instance'[c].slot # None
      BY <1>0, <1>8, PoolAssumption DEF TakenInv
    <3>. QED  BY <1>0, <1>8, <3>1, <3>2 DEF TakenInv, conn
  <2>. QED  BY <1>0, <1>8, <2>3 DEF ReadyIsAnonymous, PublishedIsWhole
<1>a. ASSUME NEW p \in Claimers, InFlight(p), claimed' = [claimed EXCEPT ![conn(p)] = None],
             NEW q \in Claimers \ {p}, claimer[q].pc \in {"check", "bind", "publish"}
      PROVE  claimed'[conn(q)] = claimed[conn(q)]
  <2>1. conn(q) # conn(p) /\ conn(q) \in Conns
    BY <1>0, <1>a DEF FlightInv, InFlight, ThreadInv
  <2>. QED  BY <1>0, <1>a, <2>1 DEF TypeOK
<1>9. ASSUME NEW p \in Claimers, NEW c \in Conns, Begin(p, c) PROVE Goal
  <2>1. PICK f : f.pc = "look" /\ claimer' = [claimer EXCEPT ![p] = f]
    BY <1>9 DEF Begin, Idle
  <2>. QED  BY <1>8, <1>9, <2>1 DEF Begin, pool
<1>b. ASSUME NEW p \in Claimers,
             NEW x \in {"retire", "reserve", "recheck", "take", "confirm", "unwind", "empty",
                        "direct"},
             End(p) \/ Move(p, x)
      PROVE  \E f : claimer' = [claimer EXCEPT ![p] = f] /\ f.pc \notin {"check", "bind", "publish"}
  <2>1. CASE End(p)
    <3>1. Idle.pc = "idle"
      BY DEF Idle
    <3>. QED  BY <2>1, <3>1 DEF End
  <2>2. CASE Move(p, x)
    <3>1. [claimer[p] EXCEPT !.pc = x].pc = x
      BY <1>0 DEF TypeOK, Flight
    <3>. QED  BY <2>2, <3>1 DEF Move
  <2>. QED  BY <1>b, <2>1, <2>2
<1>c. \* A claim goes on, its tree is left partial.
      ASSUME NEW p \in Claimers, InFlight(p), NEW f, claimer' = [claimer EXCEPT ![p] = f],
             f.pc \notin {"check", "bind", "publish"}, UNCHANGED <<claimed, ready, instance>>,
             claimed[conn(p)] # None,
             slot' = [slot EXCEPT ![claimed[conn(p)]].state = "partial"]
      PROVE  Goal
  <2>0. conn(p) \in Conns /\ claimed[conn(p)] \in Slots
    BY <1>0, <1>c DEF InFlight, ThreadInv, TypeOK
  <2>1. /\ claimer'[p] = f /\ \A q \in Claimers \ {p} : claimer'[q] = claimer[q]
        /\ \A s \in Slots \ {claimed[conn(p)]} : slot'[s] = slot[s]
    BY <1>0, <1>c, <2>0 DEF TypeOK
  <2>2. \A q \in Claimers \ {p} : claimer[q].pc \in {"check", "bind", "publish"} =>
          claimed[conn(q)] \in Slots \ {claimed[conn(p)]} /\ conn(q) \in Conns
    <3>1. \A q \in Claimers \ {p} : claimer[q].pc \in {"check", "bind", "publish"} =>
            /\ conn(q) # conn(p) /\ conn(q) \in Conns /\ claimed[conn(q)] # None
      BY <1>0, <1>c DEF FlightInv, InFlight, ThreadInv, TakenInv
    <3>. QED  BY <1>0, <1>c, <2>0, <3>1, PoolAssumption DEF OnePlace, TypeOK
  <2>3. TakenInv'
    BY <1>0, <1>c, <2>0, <2>1, <2>2 DEF TakenInv, conn
  <2>4. claimed[conn(p)] \notin ready /\ \A c \in Conns : instance[c].slot # claimed[conn(p)]
    BY <1>0, <1>c, <2>0, PoolAssumption DEF OnePlace
  <2>5. ReadyIsAnonymous'
    BY <1>0, <1>c, <2>1, <2>4 DEF ReadyIsAnonymous, TypeOK
  <2>6. PublishedIsWhole'
    BY <1>0, <1>c, <2>1, <2>4 DEF PublishedIsWhole, TakenInv, TypeOK, Publication
  <2>. QED  BY <2>3, <2>5, <2>6
<1>10. ASSUME NEW p \in Claimers, Look(p) \/ Retire(p) \/ Refuse(p) PROVE Goal
  <2>1. PICK f : claimer' = [claimer EXCEPT ![p] = f] /\ f.pc \notin {"check", "bind", "publish"}
    BY <1>10, <1>b DEF Look, Retire, Refuse
  <2>2. \A c \in Conns : instance'[c] = instance[c] \/ instance'[c].kind # "pooled"
    BY <1>0, <1>10 DEF Look, Retire, Refuse, NoInstance, TypeOK
  <2>3. claimed' = claimed /\ ready' = ready /\ slot' = slot
    BY <1>10 DEF Look, Retire, Refuse, pool
  <2>. QED  BY <1>8, <2>1, <2>2, <2>3
<1>21. ASSUME NEW p \in Claimers, Reserve(p) \/ ReserveFails(p) \/ NoneLeft(p) PROVE Goal
  <2>1. PICK f : claimer' = [claimer EXCEPT ![p] = f] /\ f.pc \notin {"check", "bind", "publish"}
    BY <1>21, <1>b DEF Reserve, ReserveFails, NoneLeft
  <2>2. claimed' = claimed /\ ready' = ready /\ slot' = slot /\ instance' = instance
    BY <1>21 DEF Reserve, ReserveFails, NoneLeft, pool
  <2>. QED  BY <1>8, <2>1, <2>2
<1>11. ASSUME NEW p \in Claimers, Recheck(p) PROVE Goal
  <2>1. PICK f : claimer' = [claimer EXCEPT ![p] = f] /\ f.pc \notin {"check", "bind", "publish"}
    <3>1. [claimer[p] EXCEPT !.pc = "take", !.list = ready].pc = "take"
      BY <1>0 DEF TypeOK, Flight
    <3>. QED  BY <1>11, <1>b, <3>1 DEF Recheck
  <2>2. claimed' = claimed /\ ready' = ready /\ slot' = slot /\ instance' = instance
    BY <1>11 DEF Recheck, pool
  <2>. QED  BY <1>8, <2>1, <2>2
<1>12. ASSUME NEW p \in Claimers, Take(p) PROVE Goal
  <2>0. InFlight(p) /\ conn(p) \in Conns
    BY <1>0, <1>12 DEF Take, At, InFlight, ThreadInv
  <2>1. CASE UNCHANGED <<claimed, ready>> /\ \E s : claimer' = [claimer EXCEPT ![p].list = @ \ {s}]
    <3>1. \A q \in Claimers : claimer'[q].pc = claimer[q].pc /\ claimer'[q].conn = claimer[q].conn
      BY <1>0, <2>1 DEF TypeOK, Flight
    <3>. QED  BY <1>0, <1>12, <2>1, <3>1 DEF Take, TakenInv, ReadyIsAnonymous, PublishedIsWhole, conn
  <2>2. ASSUME NEW s \in ready, claimed' = [claimed EXCEPT ![conn(p)] = s], ready' = ready \ {s},
               Move(p, "check")
        PROVE  Goal
    <3>1. claimer'[p].pc = "check" /\ conn(p)' = conn(p) /\ claimed'[conn(p)] = s /\ s # None
      BY <1>0, <2>0, <2>2, PoolAssumption DEF TypeOK, Flight, Move, conn
    <3>2. \A q \in Claimers \ {p} : claimer'[q] = claimer[q]
      BY <1>0, <2>2 DEF TypeOK, Move
    <3>3. \A q \in Claimers \ {p} : claimer[q].pc \in {"check", "bind", "publish"} =>
            claimed'[conn(q)] = claimed[conn(q)]
      <4>1. \A q \in Claimers \ {p} : claimer[q].pc \in {"check", "bind", "publish"} =>
              conn(q) # conn(p) /\ conn(q) \in Conns
        BY <1>0, <2>0 DEF FlightInv, InFlight, ThreadInv
      <4>. QED  BY <1>0, <2>2, <4>1 DEF TypeOK
    <3>4. TakenInv'
      BY <1>0, <1>12, <3>1, <3>2, <3>3 DEF TakenInv, Take, conn
    <3>. QED  BY <1>0, <1>12, <2>2, <3>4 DEF Take, ReadyIsAnonymous, PublishedIsWhole
  <2>. QED  BY <1>12, <2>1, <2>2 DEF Take
<1>13. ASSUME NEW p \in Claimers, Check(p) PROVE Goal
  <2>0. InFlight(p) /\ conn(p) \in Conns /\ claimer[p].pc = "check"
    BY <1>0, <1>13 DEF Check, At, InFlight, ThreadInv
  <2>1. CASE Valid(claimed[conn(p)]) /\ Move(p, "bind") /\ UNCHANGED claimed
    <3>1. /\ claimer'[p].pc = "bind" /\ conn(p)' = conn(p)
          /\ \A q \in Claimers \ {p} : claimer'[q] = claimer[q]
      BY <1>0, <2>1 DEF TypeOK, Flight, Move, conn
    <3>2. slot[claimed[conn(p)]].state = "ready"
      BY <2>1 DEF Valid
    <3>3. TakenInv'
      BY <1>0, <1>13, <2>0, <2>1, <3>1, <3>2 DEF TakenInv, Check, conn
    <3>. QED  BY <1>0, <1>13, <3>3 DEF Check, ReadyIsAnonymous, PublishedIsWhole
  <2>2. CASE /\ claimed' = [claimed EXCEPT ![conn(p)] = None]
             /\ claimer' = [claimer EXCEPT ![p].pc = "take"]
    <3>1. [claimer[p] EXCEPT !.pc = "take"].pc = "take"
      BY <1>0 DEF TypeOK, Flight
    <3>2. \A q \in Claimers \ {p} : claimer[q].pc \in {"check", "bind", "publish"} =>
            claimed'[conn(q)] = claimed[conn(q)]
      <4>1. \A q \in Claimers \ {p} : claimer[q].pc \in {"check", "bind", "publish"} =>
              conn(q) # conn(p) /\ conn(q) \in Conns
        BY <1>0, <2>0 DEF FlightInv, InFlight, ThreadInv
      <4>. QED  BY <1>0, <2>2, <4>1 DEF TypeOK
    <3>. QED  BY <1>8, <1>13, <2>2, <3>1, <3>2 DEF Check
  <2>. QED  BY <1>13, <2>1, <2>2 DEF Check
<1>14. ASSUME NEW p \in Claimers, Bind(p) PROVE Goal
  <2>0. /\ InFlight(p) /\ conn(p) \in Conns /\ claimer[p].pc = "bind"
        /\ claimed[conn(p)] \in Slots /\ slot[claimed[conn(p)]].state = "ready"
    BY <1>0, <1>14 DEF Bind, At, InFlight, ThreadInv, TakenInv, TypeOK
  <2>1. /\ claimer'[p].pc = "publish" /\ conn(p)' = conn(p)
        /\ \A q \in Claimers \ {p} : claimer'[q] = claimer[q]
    BY <1>0, <1>14 DEF Bind, TypeOK, Flight, Move, conn
  <2>2. /\ slot'[claimed[conn(p)]].state = "bound"
        /\ \A s \in Slots \ {claimed[conn(p)]} : slot'[s] = slot[s]
    BY <1>0, <1>14, <2>0 DEF Bind, TypeOK, Tree
  <2>3. \A q \in Claimers \ {p} : claimer[q].pc \in {"check", "bind", "publish"} =>
          claimed[conn(q)] \in Slots \ {claimed[conn(p)]} /\ conn(q) \in Conns
    <3>1. \A q \in Claimers \ {p} : claimer[q].pc \in {"check", "bind", "publish"} =>
            /\ conn(q) # conn(p) /\ conn(q) \in Conns /\ claimed[conn(q)] # None
      BY <1>0, <2>0 DEF FlightInv, InFlight, ThreadInv, TakenInv
    <3>. QED  BY <1>0, <2>0, <3>1, PoolAssumption DEF OnePlace, TypeOK
  <2>4. TakenInv'
    BY <1>0, <1>14, <2>0, <2>1, <2>2, <2>3 DEF TakenInv, Bind, conn
  <2>5. claimed[conn(p)] \notin ready /\ \A c \in Conns : instance[c].slot # claimed[conn(p)]
    BY <1>0, <2>0, PoolAssumption DEF OnePlace, TakenInv
  <2>6. ReadyIsAnonymous'
    BY <1>0, <1>14, <2>2, <2>5 DEF Bind, ReadyIsAnonymous, TypeOK
  <2>7. PublishedIsWhole'
    BY <1>0, <1>14, <2>2, <2>5 DEF Bind, PublishedIsWhole, TakenInv, TypeOK, Publication
  <2>. QED  BY <2>4, <2>6, <2>7
<1>15. ASSUME NEW p \in Claimers, Publish(p) PROVE Goal
  <2>0. /\ InFlight(p) /\ conn(p) \in Conns /\ claimer[p].pc = "publish"
        /\ claimed[conn(p)] \in Slots /\ slot[claimed[conn(p)]].state = "bound"
    BY <1>0, <1>15 DEF Publish, At, InFlight, ThreadInv, TakenInv, TypeOK
  <2>1. PICK f : claimer' = [claimer EXCEPT ![p] = f] /\ f.pc \notin {"check", "bind", "publish"}
    BY <1>15, <1>b DEF Publish
  <2>2. \A q \in Claimers \ {p} : claimer[q].pc \in {"check", "bind", "publish"} =>
          claimed'[conn(q)] = claimed[conn(q)]
    <3>1. \A q \in Claimers \ {p} : claimer[q].pc \in {"check", "bind", "publish"} =>
            conn(q) # conn(p) /\ conn(q) \in Conns
      BY <1>0, <2>0 DEF FlightInv, InFlight, ThreadInv
    <3>. QED  BY <1>0, <1>15, <3>1 DEF TypeOK, Publish
  <2>3. \A c \in Conns : \/ instance'[c] = instance[c]
                         \/ /\ instance'[c].slot \in Slots
                            /\ slot[instance'[c].slot].state = "bound"
    BY <1>0, <1>15, <2>0 DEF Publish, TypeOK
  <2>4. ready' = ready /\ slot' = slot
    BY <1>15 DEF Publish
  <2>. QED  BY <1>8, <2>1, <2>2, <2>3, <2>4
<1>16. ASSUME NEW p \in Claimers, Confirm(p) \/ ConfirmFails(p) PROVE Goal
  <2>1. PICK f : claimer' = [claimer EXCEPT ![p] = f] /\ f.pc \notin {"check", "bind", "publish"}
    BY <1>16, <1>b DEF Confirm, ConfirmFails
  <2>2. \A c \in Conns : instance'[c] = instance[c] \/ instance'[c].kind # "pooled"
    BY <1>0, <1>16 DEF Confirm, ConfirmFails, NoInstance, TypeOK, Publication
  <2>3. claimed' = claimed /\ ready' = ready /\ slot' = slot
    BY <1>16 DEF Confirm, ConfirmFails, pool
  <2>. QED  BY <1>8, <2>1, <2>2, <2>3
<1>22. ASSUME NEW p \in Claimers, ClaimFails(p) PROVE Goal
  <2>0. InFlight(p) /\ UNCHANGED <<claimed, ready, instance>>
    BY <1>22 DEF ClaimFails, At, InFlight
  <2>1. PICK f : claimer' = [claimer EXCEPT ![p] = f] /\ f.pc \notin {"check", "bind", "publish"}
    BY <1>22, <1>b DEF ClaimFails
  <2>2. CASE UNCHANGED slot
    BY <1>8, <2>0, <2>1, <2>2
  <2>3. CASE /\ claimer[p].pc \in {"check", "bind"}
             /\ slot' = [slot EXCEPT ![claimed[conn(p)]].state = "partial"]
    <3>1. claimed[conn(p)] # None
      BY <1>0, <2>3 DEF TakenInv
    <3>. QED  BY <1>c, <2>0, <2>1, <2>3, <3>1
  <2>. QED  BY <1>22, <2>2, <2>3 DEF ClaimFails
<1>23. ASSUME NEW p \in Claimers, Release(p) \/ ReleaseFails(p) PROVE Goal
  <2>0. InFlight(p) /\ UNCHANGED <<ready, instance>>
    BY <1>23 DEF Release, ReleaseFails, Unwinding, At, InFlight
  <2>1. PICK f : claimer' = [claimer EXCEPT ![p] = f] /\ f.pc \notin {"check", "bind", "publish"}
    BY <1>23, <1>b DEF Release, ReleaseFails
  <2>2. CASE claimed' = [claimed EXCEPT ![conn(p)] = None] /\ slot' = slot
    <3>1. \A q \in Claimers \ {p} : claimer[q].pc \in {"check", "bind", "publish"} =>
            claimed'[conn(q)] = claimed[conn(q)]
      BY <2>0, <2>2, <1>a
    <3>. QED  BY <1>8, <2>0, <2>1, <2>2, <3>1
  <2>3. CASE /\ claimed[conn(p)] # None /\ UNCHANGED claimed
             /\ slot' = [slot EXCEPT ![claimed[conn(p)]].state = "partial"]
    BY <1>c, <2>0, <2>1, <2>3
  <2>. QED  BY <1>23, <2>2, <2>3 DEF Release, ReleaseFails
<1>17. ASSUME NEW p \in Claimers, DirectPublish(p) PROVE Goal
  <2>1. PICK f : claimer' = [claimer EXCEPT ![p] = f] /\ f.pc \notin {"check", "bind", "publish"}
    BY <1>17, <1>b DEF DirectPublish
  <2>2. \A c \in Conns : instance'[c] = instance[c] \/ instance'[c].kind # "pooled"
    BY <1>0, <1>17 DEF DirectPublish, TypeOK
  <2>3. claimed' = claimed /\ ready' = ready /\ slot' = slot
    BY <1>17 DEF DirectPublish, pool
  <2>. QED  BY <1>8, <2>1, <2>2, <2>3
<1>18. ASSUME NEW c \in Conns, Spoil(c) \/ Discard(c) PROVE Goal
  <2>1. \A d \in Conns : instance'[d] = instance[d] \/ instance'[d].kind # "pooled"
    BY <1>0, <1>18 DEF Spoil, Discard, NoInstance, TypeOK, Publication
  <2>2. UNCHANGED <<slot, claimed, claimer, ready>>
    BY <1>18 DEF Spoil, Discard, pool
  <2>. QED  BY <1>0, <2>1, <2>2 DEF TakenInv, ReadyIsAnonymous, PublishedIsWhole, conn
<1>19. CASE Crash \/ Recover
  <2>1. \A p \in Claimers : claimer'[p].pc = "idle"
    BY <1>0, <1>19 DEF Crash, Recover, ThreadInv, Idle
  <2>. QED  BY <1>0, <1>19, <2>1 DEF Crash, Recover, pool, TakenInv, ReadyIsAnonymous, PublishedIsWhole
<1>20. CASE UNCHANGED vars
  BY <1>1, <1>20 DEF vars, pool
<1>. QED
  BY <1>3, <1>4, <1>5, <1>6, <1>7, <1>9, <1>10, <1>11, <1>12, <1>13, <1>14, <1>15, <1>16,
     <1>17, <1>18, <1>19, <1>20, <1>21, <1>22, <1>23 DEF Next, Maintenance, Claim

-----------------------------------------------------------------------------
\* The inductive invariant holds in every reachable state.
THEOREM Invariant == Spec => []IInv
<1>1. Init => IInv
  BY InitInv
<1>2. IInv /\ [Next]_vars => IInv'
  BY TypeStep, PlaceStep, ThreadStep, FlightStep, ContentStep DEF IInv
<1>. QED  BY <1>1, <1>2, PTL DEF Spec

\* The pool's directories and the threads' records keep their types
\* (mt5_instance_pool.py).
THEOREM TypeSafe == Spec => []TypeOK
<1>1. IInv => TypeOK
  BY DEF IInv
<1>. QED  BY <1>1, Invariant, PTL

\* No slot is in two directories: claim and build_one only move slots, so no two
\* accounts share a terminal tree.
THEOREM OnePlaceAlways == Spec => []OnePlace
<1>1. IInv => OnePlace
  BY DEF IInv
<1>. QED  BY <1>1, Invariant, PTL

\* The exclusive reservation of claim is held by exactly one claim in flight, or a
\* failing file operation has left it, and then no claim of its connection is.
THEOREM ReservedIsHeldAlways == Spec => []ReservedIsHeld
<1>1. IInv => ReservedIsHeld
  BY DEF IInv
<1>. QED  BY <1>1, Invariant, PTL

\* A slot reaches ready/ only after _sanitize_slot.
THEOREM ReadyIsAnonymousAlways == Spec => []ReadyIsAnonymous
<1>1. IInv => ReadyIsAnonymous
  BY DEF IInv
<1>. QED  BY <1>1, Invariant, PTL

\* What claim publishes is a whole tree bound to its connection.
THEOREM PublishedIsWholeAlways == Spec => []PublishedIsWhole
<1>1. IInv => PublishedIsWhole
  BY DEF IInv
<1>. QED  BY <1>1, Invariant, PTL
=============================================================================
