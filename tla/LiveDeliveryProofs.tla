------------------------- MODULE LiveDeliveryProofs -------------------------
(***************************************************************************)
(* Machine-checked theorems about LiveDelivery, for every MaxSeq,          *)
(* MaxAttempts and MaxInterrupts: the inductive invariant IInv, the safety *)
(* properties it implies, and the refinement of CausalChannel.             *)
(***************************************************************************)
EXTENDS LiveDelivery, SequenceTheorems, FiniteSetTheorems, TLAPS

\* An ascending listing of a set of events is a sequence of events.
LEMMA ListingIsSeq ==
  ASSUME NEW S \in SUBSET Event, NEW q \in [1..Cardinality(S) -> S]
  PROVE  q \in Seq(Event)
<1>1. IsFiniteSet(Event)
  BY FS_Interval, DeliveryAssumption DEF Event
<1>2. Cardinality(S) \in Nat
  BY <1>1, FS_Subset, FS_CardinalityType
<1>3. q \in [1..Cardinality(S) -> Event]
  OBVIOUS
<1> QED
  BY <1>2, <1>3, SeqDef

\* A non-empty queue is its head followed by its tail.
LEMMA HeadAndTail ==
  ASSUME NEW q \in Seq(Event), q # <<>>
  PROVE  /\ Head(q) \in Event /\ Tail(q) \in Seq(Event)
         /\ Head(q) \in Range(q)
         /\ Range(q) = {Head(q)} \cup Range(Tail(q))
<1>1. Len(q) \in Nat \ {0} /\ Head(q) = q[1]
  BY EmptySeq
<1>2. /\ Head(q) \in Event /\ Tail(q) \in Seq(Event)
      /\ Len(Tail(q)) = Len(q) - 1
      /\ \A i \in 1..Len(Tail(q)) : Tail(q)[i] = q[i + 1]
  BY HeadTailProperties
<1>3. Range(q) = {q[i] : i \in 1..Len(q)}
  BY RangeEquality
<1>4. Range(Tail(q)) = {Tail(q)[i] : i \in 1..Len(Tail(q))}
  BY <1>2, RangeEquality
<1>5. \A x \in Range(q) : x = Head(q) \/ x \in Range(Tail(q))
  <2> SUFFICES ASSUME NEW i \in 1..Len(q), i # 1
               PROVE  q[i] \in Range(Tail(q))
    BY <1>1, <1>3
  <2>1. i - 1 \in 1..Len(Tail(q)) /\ Tail(q)[i - 1] = q[i]
    BY <1>1, <1>2
  <2> QED BY <2>1, <1>4
<1>6. \A x \in Range(Tail(q)) : x \in Range(q)
  <2> SUFFICES ASSUME NEW i \in 1..Len(Tail(q))
               PROVE  Tail(q)[i] \in Range(q)
    BY <1>4
  <2>1. i + 1 \in 1..Len(q) /\ Tail(q)[i] = q[i + 1]
    BY <1>1, <1>2
  <2> QED BY <2>1, <1>3
<1> QED BY <1>1, <1>2, <1>3, <1>5, <1>6

\* In an ascending queue the head precedes every other element.
LEMMA AscendingTail ==
  ASSUME NEW q \in Seq(Event), q # <<>>, Ascending(q)
  PROVE  /\ Ascending(Tail(q))
         /\ \A x \in Range(Tail(q)) : Head(q) < x
<1>1. Len(q) \in Nat \ {0} /\ Head(q) = q[1] /\ DOMAIN q = 1..Len(q)
  BY EmptySeq, LenProperties
<1>2. /\ Tail(q) \in Seq(Event)
      /\ Len(Tail(q)) = Len(q) - 1
      /\ \A i \in 1..Len(Tail(q)) : Tail(q)[i] = q[i + 1]
  BY HeadTailProperties
<1>3. DOMAIN Tail(q) = 1..Len(Tail(q))
  BY <1>2, LenProperties
<1>4. ASSUME NEW i \in DOMAIN Tail(q), NEW j \in DOMAIN Tail(q), i < j
      PROVE  Tail(q)[i] < Tail(q)[j]
  <2>1. i + 1 \in DOMAIN q /\ j + 1 \in DOMAIN q /\ i + 1 < j + 1
    BY <1>1, <1>2, <1>3, <1>4
  <2> QED BY <2>1, <1>2, <1>3 DEF Ascending
<1>5. ASSUME NEW i \in 1..Len(Tail(q))
      PROVE  Head(q) < Tail(q)[i]
  <2>1. 1 \in DOMAIN q /\ i + 1 \in DOMAIN q /\ 1 < i + 1
    BY <1>1, <1>2
  <2> QED BY <2>1, <1>1, <1>2 DEF Ascending
<1>6. Range(Tail(q)) = {Tail(q)[i] : i \in 1..Len(Tail(q))}
  BY <1>2, RangeEquality
<1> QED BY <1>4, <1>5, <1>6 DEF Ascending

\* Appending an event adds it to the elements, and keeps the order when it
\* is later than all of them.
LEMMA AppendLast ==
  ASSUME NEW q \in Seq(Event), NEW e \in Event
  PROVE  /\ Append(q, e) \in Seq(Event)
         /\ Range(Append(q, e)) = Range(q) \cup {e}
         /\ (Ascending(q) /\ \A x \in Range(q) : x < e) => Ascending(Append(q, e))
<1>1. /\ Append(q, e) \in Seq(Event)
      /\ Len(Append(q, e)) = Len(q) + 1
      /\ \A i \in 1..Len(q) : Append(q, e)[i] = q[i]
      /\ Append(q, e)[Len(q) + 1] = e
  BY AppendProperties
<1>2. Len(q) \in Nat /\ DOMAIN q = 1..Len(q)
      /\ DOMAIN Append(q, e) = 1..Len(Append(q, e))
  BY <1>1, LenProperties
<1>3. Range(Append(q, e)) = Range(q) \cup {e}
  <2>1. \A x \in Range(Append(q, e)) : x \in Range(q) \cup {e}
    BY <1>1, <1>2 DEF Range
  <2>2. \A x \in Range(q) : x \in Range(Append(q, e))
    BY <1>1, <1>2 DEF Range
  <2>3. e \in Range(Append(q, e))
    BY <1>1, <1>2 DEF Range
  <2> QED BY <2>1, <2>2, <2>3
<1>4. ASSUME Ascending(q), \A x \in Range(q) : x < e
      PROVE  Ascending(Append(q, e))
  <2> SUFFICES ASSUME NEW i \in 1..(Len(q) + 1), NEW j \in 1..(Len(q) + 1), i < j
               PROVE  Append(q, e)[i] < Append(q, e)[j]
    BY <1>1, <1>2 DEF Ascending
  <2>1. CASE j \in 1..Len(q)
    <3>1. i \in 1..Len(q) BY <2>1, <1>2
    <3> QED BY <2>1, <3>1, <1>1, <1>2, <1>4 DEF Ascending
  <2>2. CASE j = Len(q) + 1
    <3>1. i \in 1..Len(q) BY <2>2, <1>2
    <3>2. q[i] \in Range(q) BY <3>1, <1>2 DEF Range
    <3> QED BY <2>2, <3>1, <3>2, <1>1, <1>4
  <2> QED BY <2>1, <2>2, <1>2
<1> QED BY <1>1, <1>3, <1>4

\* The empty queue has no elements and is ascending.
LEMMA EmptyQueue ==
  /\ <<>> \in Seq(Event) /\ Range(<<>>) = {} /\ Ascending(<<>>)
BY EmptySeq DEF Range, Ascending

-----------------------------------------------------------------------------
(* The steps of the bridge, the network and the poll, one lemma each.       *)

\* Reserving the next number (BuildEventJson) publishes nothing yet.
LEMMA ReserveStep ==
  ASSUME IInv, Reserve
  PROVE  IInv'
<1> USE DeliveryAssumption DEF Reserve, IInv, TypeOK, PollState, Event,
       pollVars, outboxVars, apiVars, bridgeVars
<1>1. TypeOK' /\ RememberedIsApplied'
  BY HeadAndTail DEF RememberedIsApplied, PollInv
<1>2. NumberingInv' /\ OutboxInv' /\ CausalPrefix'
  BY HeadAndTail DEF NumberingInv, OutboxInv, PollInv, CausalPrefix, Published, Known
<1>3. PollInv'
  BY HeadAndTail DEF NumberingInv, OutboxInv, PollInv, Published, Known, RememberedIsApplied
<1> QED BY <1>1, <1>2, <1>3

\* A file renamed into place (WriteEventAtomic) carries a number above every
\* published one, so nothing known can depend on it.
LEMMA PublishEventStep ==
  ASSUME IInv, PublishEvent
  PROVE  IInv'
<1> USE DeliveryAssumption DEF PublishEvent, IInv, TypeOK, PollState, Event,
       pollVars, outboxVars, apiVars, bridgeVars
<1>1. TypeOK' /\ RememberedIsApplied'
  BY DEF RememberedIsApplied, NumberingInv
<1>2. NumberingInv' /\ OutboxInv' /\ CausalPrefix'
  BY DEF NumberingInv, OutboxInv, PollInv, CausalPrefix, Published, Known
<1>3. PollInv'
  BY DEF NumberingInv, OutboxInv, PollInv, Published, Known, RememberedIsApplied
<1> QED BY <1>1, <1>2, <1>3

\* A reservation whose file was never written leaves only a gap.
LEMMA LeaveGapStep ==
  ASSUME IInv, LeaveGap
  PROVE  IInv'
<1> USE DeliveryAssumption DEF LeaveGap, IInv, TypeOK, PollState, Event,
       pollVars, outboxVars, apiVars, bridgeVars
<1>1. TypeOK' /\ RememberedIsApplied'
  BY HeadAndTail DEF RememberedIsApplied, PollInv
<1>2. NumberingInv' /\ OutboxInv' /\ CausalPrefix'
  BY HeadAndTail DEF NumberingInv, OutboxInv, PollInv, CausalPrefix, Published, Known
<1>3. PollInv'
  BY HeadAndTail DEF NumberingInv, OutboxInv, PollInv, Published, Known, RememberedIsApplied
<1> QED BY <1>1, <1>2, <1>3

\* A lost request takes nothing from the durable state.
LEMMA LoseStep ==
  ASSUME IInv, NEW e \in Event, Lose(e)
  PROVE  IInv'
<1> USE DeliveryAssumption DEF Lose, IInv, TypeOK, PollState, Event,
       pollVars, outboxVars, apiVars, bridgeVars
<1>1. TypeOK' /\ RememberedIsApplied'
  BY HeadAndTail DEF RememberedIsApplied, PollInv
<1>2. NumberingInv' /\ OutboxInv' /\ CausalPrefix'
  BY HeadAndTail DEF NumberingInv, OutboxInv, PollInv, CausalPrefix, Published, Known
<1>3. PollInv'
  BY HeadAndTail DEF NumberingInv, OutboxInv, PollInv, Published, Known, RememberedIsApplied
<1> QED BY <1>1, <1>2, <1>3

\* No published event before the head of the outbox is still on its way.
LEMMA HeadIsNext ==
  ASSUME IInv, pending # <<>>, deadLetter = {}
  PROVE  /\ Head(pending) \in Range(pending) /\ Head(pending) \in Event
         /\ \A s \in Published : s < Head(pending) => s \in Range(ledger)
<1>1. pending \in Seq(Event) /\ Ascending(pending)
  BY DEF IInv, TypeOK, OutboxInv
<1>2. /\ Head(pending) \in Range(pending) /\ Head(pending) \in Event
      /\ Range(pending) = {Head(pending)} \cup Range(Tail(pending))
      /\ \A x \in Range(Tail(pending)) : Head(pending) < x
      /\ Range(pending) \subseteq Event
  BY <1>1, HeadAndTail, AscendingTail, RangeOfSeq
<1>3. \A s \in Range(pending) : ~(s < Head(pending))
  BY <1>2 DEF Event
<1> QED BY <1>2, <1>3 DEF IInv, OutboxInv, Known

\* The first POST of send() is of the head of the outbox, and every earlier
\* published event has been applied.
LEMMA PostStep ==
  ASSUME IInv, Post
  PROVE  IInv'
<1>1. pending # <<>> /\ deadLetter = {}
  BY DEF IInv, PollInv, Post
<1>2. /\ Head(pending) \in Range(pending) /\ Head(pending) \in Event
      /\ \A s \in Published : s < Head(pending) => s \in Range(ledger)
  BY <1>1, HeadIsNext
<1> USE DeliveryAssumption DEF Post, IInv, TypeOK, PollState, pollVars,
       outboxVars, apiVars, bridgeVars
<1>3. TypeOK' /\ RememberedIsApplied'
  BY <1>2 DEF RememberedIsApplied
<1>4. NumberingInv' /\ OutboxInv'
  BY <1>2 DEF NumberingInv, OutboxInv, Published, Known
<1>5. CausalPrefix'
  BY <1>2 DEF CausalPrefix, Published
<1>6. PollInv'
  BY <1>1 DEF PollInv, Published, Known
<1> QED BY <1>3, <1>4, <1>5, <1>6

\* A retry of send() repeats the same head.
LEMMA RetryStep ==
  ASSUME IInv, Retry
  PROVE  IInv'
<1>1. pending # <<>> /\ deadLetter = {}
  BY DEF IInv, PollInv, Retry
<1>2. /\ Head(pending) \in Range(pending) /\ Head(pending) \in Event
      /\ \A s \in Published : s < Head(pending) => s \in Range(ledger)
  BY <1>1, HeadIsNext
<1> USE DeliveryAssumption DEF Retry, IInv, TypeOK, PollState, pollVars,
       outboxVars, apiVars, bridgeVars
<1>3. TypeOK' /\ RememberedIsApplied'
  BY <1>2 DEF RememberedIsApplied
<1>4. NumberingInv' /\ OutboxInv'
  BY <1>2 DEF NumberingInv, OutboxInv, Published, Known
<1>5. CausalPrefix'
  BY <1>2 DEF CausalPrefix, Published
<1>6. PollInv'
  BY <1>1 DEF PollInv, Published, Known
<1> QED BY <1>3, <1>4, <1>5, <1>6

\* A drain that stops at a transient failure keeps the outbox as it is.
LEMMA GiveUpStep ==
  ASSUME IInv, GiveUp
  PROVE  IInv'
<1> USE DeliveryAssumption DEF GiveUp, IInv, TypeOK, PollState, Event,
       pollVars, outboxVars, apiVars, bridgeVars
<1>1. TypeOK' /\ RememberedIsApplied'
  BY HeadAndTail DEF RememberedIsApplied, PollInv
<1>2. NumberingInv' /\ OutboxInv' /\ CausalPrefix'
  BY HeadAndTail DEF NumberingInv, OutboxInv, PollInv, CausalPrefix, Published, Known
<1>3. PollInv'
  BY HeadAndTail DEF NumberingInv, OutboxInv, PollInv, Published, Known, RememberedIsApplied
<1> QED BY <1>1, <1>2, <1>3

\* A 2xx answer confirms an event the API applied.
LEMMA AnswerSentStep ==
  ASSUME IInv, AnswerSent
  PROVE  IInv'
<1> USE DeliveryAssumption DEF AnswerSent, IInv, TypeOK, PollState, Event,
       pollVars, outboxVars, apiVars, bridgeVars
<1>1. TypeOK' /\ RememberedIsApplied'
  BY HeadAndTail DEF RememberedIsApplied, PollInv
<1>2. NumberingInv' /\ OutboxInv' /\ CausalPrefix'
  BY HeadAndTail DEF NumberingInv, OutboxInv, PollInv, CausalPrefix, Published, Known
<1>3. PollInv'
  BY HeadAndTail DEF NumberingInv, OutboxInv, PollInv, Published, Known, RememberedIsApplied
<1> QED BY <1>1, <1>2, <1>3

\* A permanent rejection answers a request that is in flight.
LEMMA AnswerRejectedStep ==
  ASSUME IInv, AnswerRejected
  PROVE  IInv'
<1> USE DeliveryAssumption DEF AnswerRejected, IInv, TypeOK, PollState, Event,
       pollVars, outboxVars, apiVars, bridgeVars
<1>1. TypeOK' /\ RememberedIsApplied'
  BY HeadAndTail DEF RememberedIsApplied, PollInv
<1>2. NumberingInv' /\ OutboxInv' /\ CausalPrefix'
  BY HeadAndTail DEF NumberingInv, OutboxInv, PollInv, CausalPrefix, Published, Known
<1>3. PollInv'
  BY HeadAndTail DEF NumberingInv, OutboxInv, PollInv, Published, Known, RememberedIsApplied
<1> QED BY <1>1, <1>2, <1>3

\* A drain ends with an empty outbox, so all it held was applied.
LEMMA DrainDoneStep ==
  ASSUME IInv, DrainDone
  PROVE  IInv'
<1> USE DeliveryAssumption DEF DrainDone, IInv, TypeOK, PollState, Event,
       pollVars, outboxVars, apiVars, bridgeVars
<1>1. TypeOK' /\ RememberedIsApplied'
  BY HeadAndTail DEF RememberedIsApplied, PollInv
<1>2. NumberingInv' /\ OutboxInv' /\ CausalPrefix'
  BY HeadAndTail DEF NumberingInv, OutboxInv, PollInv, CausalPrefix, Published, Known
<1>3. PollInv'
  BY EmptyQueue DEF PollInv
<1> QED BY <1>1, <1>2, <1>3

\* A poll only starts when there is no dead letter.
LEMMA BeginPollStep ==
  ASSUME IInv, BeginPoll
  PROVE  IInv'
<1> USE DeliveryAssumption DEF BeginPoll, IInv, TypeOK, PollState, Event,
       pollVars, outboxVars, apiVars, bridgeVars
<1>1. TypeOK' /\ RememberedIsApplied'
  BY HeadAndTail DEF RememberedIsApplied, PollInv
<1>2. NumberingInv' /\ OutboxInv' /\ CausalPrefix'
  BY HeadAndTail DEF NumberingInv, OutboxInv, PollInv, CausalPrefix, Published, Known
<1>3. PollInv'
  BY HeadAndTail DEF NumberingInv, OutboxInv, PollInv, Published, Known, RememberedIsApplied
<1> QED BY <1>1, <1>2, <1>3

\* pending_events returns every published file above the checkpoint.
LEMMA ReadEventsStep ==
  ASSUME IInv, ReadEvents
  PROVE  IInv'
<1> USE DeliveryAssumption DEF ReadEvents, IInv, TypeOK, PollState, Event,
       pollVars, outboxVars, apiVars, bridgeVars
<1>1. TypeOK' /\ RememberedIsApplied'
  BY HeadAndTail DEF RememberedIsApplied, PollInv
<1>2. NumberingInv' /\ OutboxInv' /\ CausalPrefix'
  BY HeadAndTail DEF NumberingInv, OutboxInv, PollInv, CausalPrefix, Published, Known
<1>3. PollInv'
  BY HeadAndTail DEF NumberingInv, OutboxInv, PollInv, Published, Known, RememberedIsApplied
<1> QED BY <1>1, <1>2, <1>3

\* The checkpoint moves only over events the outbox took.
LEMMA AcknowledgeStep ==
  ASSUME IInv, Acknowledge
  PROVE  IInv'
<1> USE DeliveryAssumption DEF Acknowledge, IInv, TypeOK, PollState, Event,
       pollVars, outboxVars, apiVars, bridgeVars
<1>1. TypeOK' /\ RememberedIsApplied'
  BY HeadAndTail DEF RememberedIsApplied, PollInv
<1>2. NumberingInv' /\ OutboxInv' /\ CausalPrefix'
  BY HeadAndTail DEF NumberingInv, OutboxInv, PollInv, CausalPrefix, Published, Known
<1>3. PollInv'
  BY HeadAndTail DEF NumberingInv, OutboxInv, PollInv, Published, Known, RememberedIsApplied
<1> QED BY <1>1, <1>2, <1>3

\* Deleting an acknowledged file forgets nothing: the event is known.
LEMMA PruneFileStep ==
  ASSUME IInv, NEW e \in Event, PruneFile(e)
  PROVE  IInv'
<1> USE DeliveryAssumption DEF PruneFile, IInv, TypeOK, PollState, Event,
       pollVars, outboxVars, apiVars, bridgeVars
<1>1. TypeOK' /\ RememberedIsApplied'
  BY HeadAndTail DEF RememberedIsApplied, PollInv
<1>2. NumberingInv' /\ OutboxInv' /\ CausalPrefix'
  BY HeadAndTail DEF NumberingInv, OutboxInv, PollInv, CausalPrefix, Published, Known
<1>3. PollInv'
  BY HeadAndTail DEF NumberingInv, OutboxInv, PollInv, Published, Known, RememberedIsApplied
<1> QED BY <1>1, <1>2, <1>3

\* Nothing at or below the checkpoint is left on disk.
LEMMA PruneDoneStep ==
  ASSUME IInv, PruneDone
  PROVE  IInv'
<1> USE DeliveryAssumption DEF PruneDone, IInv, TypeOK, PollState, Event,
       pollVars, outboxVars, apiVars, bridgeVars
<1>1. TypeOK' /\ RememberedIsApplied'
  BY HeadAndTail DEF RememberedIsApplied, PollInv
<1>2. NumberingInv' /\ OutboxInv' /\ CausalPrefix'
  BY HeadAndTail DEF NumberingInv, OutboxInv, PollInv, CausalPrefix, Published, Known
<1>3. PollInv'
  BY HeadAndTail DEF NumberingInv, OutboxInv, PollInv, Published, Known, RememberedIsApplied
<1> QED BY <1>1, <1>2, <1>3

\* dedup.add records an event after a complete drain applied it.
LEMMA RememberStep ==
  ASSUME IInv, NEW e \in Event, Remember(e)
  PROVE  IInv'
<1> USE DeliveryAssumption DEF Remember, IInv, TypeOK, PollState, Event,
       pollVars, outboxVars, apiVars, bridgeVars
<1>1. TypeOK' /\ RememberedIsApplied'
  BY HeadAndTail DEF RememberedIsApplied, PollInv
<1>2. NumberingInv' /\ OutboxInv' /\ CausalPrefix'
  BY HeadAndTail DEF NumberingInv, OutboxInv, PollInv, CausalPrefix, Published, Known
<1>3. PollInv'
  BY HeadAndTail DEF NumberingInv, OutboxInv, PollInv, Published, Known, RememberedIsApplied
<1> QED BY <1>1, <1>2, <1>3

\* A finished poll has remembered all its payloads.
LEMMA EndPollStep ==
  ASSUME IInv, EndPoll
  PROVE  IInv'
<1> USE DeliveryAssumption DEF EndPoll, IInv, TypeOK, PollState, Event,
       pollVars, outboxVars, apiVars, bridgeVars
<1>1. TypeOK' /\ RememberedIsApplied'
  BY HeadAndTail DEF RememberedIsApplied, PollInv
<1>2. NumberingInv' /\ OutboxInv' /\ CausalPrefix'
  BY HeadAndTail DEF NumberingInv, OutboxInv, PollInv, CausalPrefix, Published, Known
<1>3. PollInv'
  BY HeadAndTail DEF NumberingInv, OutboxInv, PollInv, Published, Known, RememberedIsApplied
<1> QED BY <1>1, <1>2, <1>3

\* A crash loses only what was in memory.
LEMMA InterruptStep ==
  ASSUME IInv, Interrupt
  PROVE  IInv'
<1> USE DeliveryAssumption DEF Interrupt, IInv, TypeOK, PollState, Event,
       pollVars, outboxVars, apiVars, bridgeVars
<1>1. TypeOK' /\ RememberedIsApplied'
  BY HeadAndTail DEF RememberedIsApplied, PollInv
<1>2. NumberingInv' /\ OutboxInv' /\ CausalPrefix'
  BY HeadAndTail DEF NumberingInv, OutboxInv, PollInv, CausalPrefix, Published, Known
<1>3. PollInv'
  BY HeadAndTail DEF NumberingInv, OutboxInv, PollInv, Published, Known, RememberedIsApplied
<1> QED BY <1>1, <1>2, <1>3

\* What the API applies next is the earliest event it does not have.
LEMMA ApplyStep ==
  ASSUME IInv, NEW e \in Event, Apply(e)
  PROVE  IInv'
<1>1. /\ ledger \in Seq(Event) /\ Ascending(ledger) /\ e \in Known
      /\ e \notin Range(ledger) /\ e \in wire
  BY DEF IInv, TypeOK, OutboxInv, Apply
<1>2. \A x \in Range(ledger) : x < e
  <2> SUFFICES ASSUME NEW x \in Range(ledger), ~(x < e)
               PROVE  FALSE
    OBVIOUS
  <2>1. x \in Event
    BY <1>1, RangeOfSeq
  <2>2. e < x
    BY <1>1, <2>1 DEF Event
  <2>3. e \in Published
    BY <1>1 DEF Known, Published
  <2> QED BY <1>1, <2>2, <2>3 DEF IInv, CausalPrefix
<1>3. /\ Range(ledger') = Range(ledger) \cup {e}
      /\ ledger' \in Seq(Event) /\ Ascending(ledger')
  BY <1>1, <1>2, AppendLast DEF Apply
<1>4. Published' = Published /\ Known' = Known
  BY <1>1, <1>3 DEF Published, Known, Apply, outboxVars
<1> USE DEF Apply, IInv, outboxVars, pollVars, bridgeVars
<1>5. TypeOK' /\ RememberedIsApplied'
  BY <1>3 DEF TypeOK, RememberedIsApplied
<1>6. NumberingInv' /\ OutboxInv'
  BY <1>3, <1>4 DEF NumberingInv, OutboxInv
<1>7. CausalPrefix'
  BY <1>1, <1>3, <1>4 DEF CausalPrefix, Ascending
<1>8. PollInv'
  BY <1>3, <1>4 DEF PollInv
<1> QED BY <1>5, <1>6, <1>7, <1>8

\* A confirmed event leaves the outbox because it is in the ledger.
LEMMA PopSentStep ==
  ASSUME IInv, PopSent
  PROVE  IInv'
<1>1. /\ pending \in Seq(Event) /\ pending # <<>> /\ Ascending(pending)
      /\ Head(pending) \in Range(ledger)
  BY DEF IInv, TypeOK, OutboxInv, PollInv, PopSent
<1>2. /\ pending' \in Seq(Event) /\ Ascending(pending')
      /\ Range(pending) = {Head(pending)} \cup Range(pending')
  BY <1>1, HeadAndTail, AscendingTail DEF PopSent
<1> USE DEF PopSent, IInv, pollVars, apiVars, bridgeVars
<1>3. Published' = Published /\ Known' = Known
  BY <1>1, <1>2 DEF Published, Known
<1>4. TypeOK' /\ RememberedIsApplied'
  BY <1>2, DeliveryAssumption DEF TypeOK, RememberedIsApplied, PollState
<1>5. NumberingInv' /\ OutboxInv' /\ CausalPrefix'
  BY <1>2, <1>3 DEF NumberingInv, OutboxInv, CausalPrefix
<1>6. PollInv'
  BY <1>1, <1>2, <1>3 DEF PollInv
<1> QED BY <1>4, <1>5, <1>6

\* A rejected event leaves the outbox for the dead letters, and the drain stops.
LEMMA StoreDeadLetterStep ==
  ASSUME IInv, StoreDeadLetter
  PROVE  IInv'
<1>1. pending \in Seq(Event) /\ pending # <<>> /\ Ascending(pending)
  BY DEF IInv, TypeOK, OutboxInv, PollInv, StoreDeadLetter
<1>2. /\ pending' \in Seq(Event) /\ Ascending(pending')
      /\ Head(pending) \in Event
      /\ Range(pending) = {Head(pending)} \cup Range(pending')
  BY <1>1, HeadAndTail, AscendingTail DEF StoreDeadLetter
<1> USE DEF StoreDeadLetter, IInv, pollVars, apiVars, bridgeVars
<1>3. Published' = Published /\ Known' = Known
  BY <1>2 DEF Published, Known
<1>4. TypeOK' /\ RememberedIsApplied'
  BY <1>2, DeliveryAssumption DEF TypeOK, RememberedIsApplied, PollState
<1>5. NumberingInv' /\ OutboxInv' /\ CausalPrefix'
  BY <1>2, <1>3 DEF NumberingInv, OutboxInv, CausalPrefix
<1>6. PollInv'
  BY DEF PollInv
<1> QED BY <1>4, <1>5, <1>6

\* enqueue_many adds, in order, events later than all it took before.
LEMMA EnqueueStep ==
  ASSUME IInv, Enqueue
  PROVE  IInv'
<1> DEFINE new == payloads \ (Range(pending) \cup deadLetter)
<1>1. /\ pending = <<>> /\ deadLetter = {} /\ new = payloads
      /\ payloads = records \ delivered
      /\ records \subseteq eventFiles /\ payloads \subseteq Event
      /\ delivered \subseteq Range(ledger)
  BY EmptyQueue DEF IInv, TypeOK, PollInv, Enqueue, RememberedIsApplied
<1>2. PICK q \in [1..Cardinality(new) -> new] :
        IsAscendingListing(q, new) /\ pending' = pending \o q
  BY DEF Enqueue
<1>3. q \in Seq(Event)
  BY <1>1, ListingIsSeq
<1>4. /\ pending' \in Seq(Event) /\ Ascending(pending')
      /\ Range(pending') = payloads
  BY <1>1, <1>2, <1>3, ConcatEmptySeq DEF IsAscendingListing, Ascending
<1> HIDE DEF new
<1> USE DEF Enqueue, IInv, apiVars, bridgeVars
<1>5. Published' = Published /\ Known' = Known \cup records
  BY <1>1, <1>4, EmptyQueue DEF Published, Known
<1>6. TypeOK' /\ RememberedIsApplied'
  BY <1>4 DEF TypeOK, RememberedIsApplied, PollState
<1>7. \A e \in records : \A s \in Published : s < e => s \in Known'
  <2> SUFFICES ASSUME NEW e \in records, NEW s \in Published, s < e
               PROVE  s \in Known'
    OBVIOUS
  <2>1. CASE s \in Known
    BY <2>1, <1>5
  <2>2. CASE s \notin Known
    <3>1. s \in eventFiles
      BY <2>2 DEF Published, Known
    <3>2. s > lastSequence
      BY <2>2, <3>1 DEF OutboxInv, TypeOK, Event, Published
    <3>3. ~(e < s)
      BY <3>1 DEF TypeOK, Event
    <3>4. s \in records
      BY <3>1, <3>2, <3>3 DEF PollInv
    <3> QED BY <3>4, <1>5
  <2> QED BY <2>1, <2>2
<1>8. NumberingInv' /\ OutboxInv' /\ CausalPrefix'
  BY <1>4, <1>5, <1>7 DEF NumberingInv, OutboxInv, CausalPrefix
<1>9. PollInv'
  BY <1>1, <1>4, <1>5 DEF PollInv
<1> QED BY <1>6, <1>8, <1>9

-----------------------------------------------------------------------------
\* IInv holds initially ...
LEMMA InitInv == Init => IInv
<1> SUFFICES ASSUME Init PROVE IInv
  OBVIOUS
<1>1. Range(pending) = {} /\ Range(ledger) = {} /\ Published = {} /\ Known = {}
      /\ Ascending(pending) /\ Ascending(ledger)
      /\ pending \in Seq(Event) /\ ledger \in Seq(Event)
  BY EmptyQueue DEF Init, Published, Known
<1>2. TypeOK
  <2>1. reserved \in BOOLEAN
    BY DEF Init
  <2>2. /\ eventSeq \in 0..MaxSeq /\ lastSequence \in 0..MaxSeq
        /\ attempt \in 0..MaxAttempts /\ interrupts \in 0..MaxInterrupts
    BY DeliveryAssumption DEF Init
  <2> QED
    BY <1>1, <2>1, <2>2 DEF Init, TypeOK, PollState
<1>3. NumberingInv /\ OutboxInv /\ PollInv
  BY <1>1 DEF Init, NumberingInv, OutboxInv, PollInv
<1>4. CausalPrefix /\ RememberedIsApplied
  BY <1>1 DEF Init, CausalPrefix, RememberedIsApplied, Ascending
<1> QED BY <1>2, <1>3, <1>4 DEF IInv

\* ... and every step preserves it.
LEMMA StepInv == IInv /\ [Next]_vars => IInv'
<1> SUFFICES ASSUME IInv, [Next]_vars PROVE IInv'
  OBVIOUS
<1>1. ASSUME UNCHANGED vars PROVE IInv'
  BY <1>1 DEF vars, bridgeVars, outboxVars, pollVars, apiVars, IInv, TypeOK,
       NumberingInv, OutboxInv, PollInv, CausalPrefix, RememberedIsApplied,
       Published, Known
<1>2. CASE Bridge
  BY <1>2, ReserveStep, PublishEventStep, LeaveGapStep DEF Bridge
<1>3. CASE Api
  BY <1>3, ApplyStep, LoseStep DEF Api
<1>4. CASE Drain
  BY <1>4, PostStep, RetryStep, GiveUpStep, AnswerSentStep, AnswerRejectedStep,
     PopSentStep, StoreDeadLetterStep, DrainDoneStep DEF Drain
<1>5. CASE Poll
  <2>1. CASE BlockedPoll
    BY <2>1, <1>1 DEF BlockedPoll
  <2>2. CASE \E n \in Event : PruneFile(n) \/ Remember(n)
    BY <2>2, PruneFileStep, RememberStep
  <2> QED
    BY <1>5, <2>1, <2>2, BeginPollStep, ReadEventsStep, EnqueueStep,
       AcknowledgeStep, PruneDoneStep, EndPollStep DEF Poll
<1>6. CASE Interrupt
  BY <1>6, InterruptStep
<1> QED
  BY <1>1, <1>2, <1>3, <1>4, <1>5, <1>6 DEF Next

\* IInv is an invariant of every behaviour of the delivery path.
THEOREM Invariance == Spec => []IInv
<1> QED BY InitInv, StepInv, PTL DEF Spec

(***************************************************************************)
(* Every variable keeps its type: the outbox and the API ledger only ever  *)
(* hold numbers the EA reserved (EventOutbox._validate_state).             *)
(***************************************************************************)
THEOREM TypeCorrect == Spec => []TypeOK
<1>1. IInv => TypeOK
  BY DEF IInv
<1> QED BY <1>1, Invariance, PTL

(***************************************************************************)
(* The API never applies an event before an earlier published one, however *)
(* many polls are interrupted and requests lost, repeated or delayed       *)
(* (EventOutbox.drain: the causal order open -> modify -> close).          *)
(***************************************************************************)
THEOREM CausalOrder == Spec => []CausalPrefix
<1>1. IInv => CausalPrefix
  BY DEF IInv
<1> QED BY <1>1, Invariance, PTL

(***************************************************************************)
(* PersistentDedup only remembers events the API has applied, so dropping  *)
(* a payload because dedup.contains(event_id) never loses an event.        *)
(***************************************************************************)
THEOREM DedupIsSound == Spec => []RememberedIsApplied
<1>1. IInv => RememberedIsApplied
  BY DEF IInv
<1> QED BY <1>1, Invariance, PTL

(***************************************************************************)
(* An acknowledged event that left the outbox never returns to it: the     *)
(* checkpoint written by acknowledge_events is final.                      *)
(***************************************************************************)
THEOREM AcknowledgedIsFinal == Spec => SettledStaysSettled
<1> DEFINE Settled == \A e \in Event :
      (e <= lastSequence /\ e \notin Range(pending)) => e \notin Range(pending')
<1>1. ASSUME IInv, [Next]_vars PROVE Settled
  <2>1. CASE Enqueue
    <3> DEFINE new == payloads \ (Range(pending) \cup deadLetter)
    <3>1. /\ pending = <<>> /\ new \in SUBSET Event /\ lastSequence \in 0..MaxSeq
          /\ \A n \in new : n > lastSequence
      BY <1>1, <2>1 DEF IInv, TypeOK, PollInv, Enqueue
    <3>2. PICK q \in [1..Cardinality(new) -> new] :
            IsAscendingListing(q, new) /\ pending' = pending \o q
      BY <2>1 DEF Enqueue
    <3>3. pending' = q /\ Range(q) = new
      BY <3>1, <3>2, ListingIsSeq, ConcatEmptySeq DEF IsAscendingListing
    <3>4. \A n \in Range(pending') : ~(n <= lastSequence)
      BY <3>1, <3>3, DeliveryAssumption DEF Event
    <3> QED BY <3>4
  <2>2. CASE PopSent \/ StoreDeadLetter
    <3>1. pending \in Seq(Event) /\ pending # <<>> /\ pending' = Tail(pending)
      BY <1>1, <2>2 DEF IInv, TypeOK, PollInv, PopSent, StoreDeadLetter
    <3> QED BY <3>1, HeadAndTail
  <2>3. CASE pending' = pending
    BY <2>3
  <2>4. Enqueue \/ PopSent \/ StoreDeadLetter \/ pending' = pending
    BY <1>1 DEF Next, Bridge, Api, Drain, Poll, vars, outboxVars, Reserve,
         PublishEvent, LeaveGap, Apply, Lose, Post, Retry, GiveUp, AnswerSent,
         AnswerRejected, DrainDone, BeginPoll, BlockedPoll, ReadEvents,
         Acknowledge, PruneFile, PruneDone, Remember, EndPoll, Interrupt
  <2> QED BY <2>1, <2>2, <2>3, <2>4
<1> QED
  BY <1>1, Invariance, PTL DEF Spec, SettledStaysSettled

(***************************************************************************)
(* An unresolved dead letter blocks its successors for good: nothing is    *)
(* posted, acknowledged or deleted while one exists, across restarts.      *)
(***************************************************************************)
THEOREM DeadLetterIsABarrier == Spec => DeadLetterBlocks
<1> DEFINE Blocked == deadLetter # {} => /\ wire' \subseteq wire
                                         /\ lastSequence' = lastSequence
                                         /\ eventFiles \subseteq eventFiles'
<1>1. ASSUME IInv, [Next]_vars PROVE Blocked
  <2> SUFFICES ASSUME deadLetter # {} PROVE Blocked
    OBVIOUS
  <2>1. pc = "idle"
    BY <1>1 DEF IInv, PollInv
  <2> QED
    BY <1>1, <2>1 DEF Next, Bridge, Api, Drain, Poll, vars, outboxVars, apiVars,
         Reserve, PublishEvent, LeaveGap, Apply, Lose, Post, Retry, GiveUp,
         AnswerSent, AnswerRejected, PopSent, StoreDeadLetter, DrainDone,
         BeginPoll, BlockedPoll, ReadEvents, Enqueue, Acknowledge, PruneFile,
         PruneDone, Remember, EndPoll, Interrupt
<1> QED
  BY <1>1, Invariance, PTL DEF Spec, DeadLetterBlocks

-----------------------------------------------------------------------------
(* Refinement: what every step does to the two variables of CausalChannel.  *)

\* Moving an event out of the outbox or off the disk forgets nothing.
LEMMA SourceKept ==
  ASSUME IInv, [Next]_vars, ~PublishEvent, \A e \in Event : ~Apply(e)
  PROVE  Published' = Published /\ ledger' = ledger
<1>1. CASE PopSent \/ StoreDeadLetter
  <2>1. /\ pending \in Seq(Event) /\ pending # <<>> /\ pending' = Tail(pending)
        /\ PopSent => Head(pending) \in Range(ledger)
    BY <1>1 DEF IInv, TypeOK, PollInv, PopSent, StoreDeadLetter
  <2>2. Range(pending) = {Head(pending)} \cup Range(pending')
    BY <2>1, HeadAndTail
  <2> QED BY <1>1, <2>1, <2>2 DEF Published, PopSent, StoreDeadLetter, apiVars
<1>2. CASE Enqueue
  <2> DEFINE new == payloads \ (Range(pending) \cup deadLetter)
  <2>1. /\ pending = <<>> /\ new \in SUBSET Event /\ new \subseteq eventFiles
    BY <1>2 DEF IInv, TypeOK, PollInv, Enqueue
  <2>2. PICK q \in [1..Cardinality(new) -> new] :
          IsAscendingListing(q, new) /\ pending' = pending \o q
    BY <1>2 DEF Enqueue
  <2>3. Range(pending) = {} /\ Range(pending') = new
    BY <2>1, <2>2, ListingIsSeq, ConcatEmptySeq, EmptyQueue DEF IsAscendingListing
  <2> QED BY <1>2, <2>1, <2>3 DEF Published, Enqueue, apiVars
<1>3. CASE ReadEvents \/ \E n \in Event : PruneFile(n)
  <2>1. /\ \A n \in eventFiles : n \in eventFiles' \/ n <= lastSequence
        /\ eventFiles' \subseteq eventFiles
        /\ UNCHANGED <<pending, deadLetter, ledger>>
    BY <1>3 DEF IInv, TypeOK, Event, ReadEvents, PruneFile, outboxVars, apiVars
  <2>2. \A n \in eventFiles \ eventFiles' : n \in Known
    BY <2>1 DEF IInv, OutboxInv, Published
  <2> QED BY <2>1, <2>2 DEF Published, Known
<1>4. CASE UNCHANGED <<eventFiles, pending, deadLetter, ledger>>
  BY <1>4 DEF Published
<1>5. \/ PopSent \/ StoreDeadLetter \/ Enqueue
      \/ ReadEvents \/ (\E n \in Event : PruneFile(n))
      \/ UNCHANGED <<eventFiles, pending, deadLetter, ledger>>
  BY DEF Next, Bridge, Api, Drain, Poll, vars, outboxVars, apiVars, Reserve,
     LeaveGap, Lose, Post, Retry, GiveUp, AnswerSent, AnswerRejected, DrainDone,
     BeginPoll, BlockedPoll, Acknowledge, PruneDone, Remember, EndPoll, Interrupt
<1> QED BY <1>1, <1>2, <1>3, <1>4, <1>5

(***************************************************************************)
(* The delivery path implements CausalChannel: a published event is never  *)
(* forgotten, and the API applies events exactly in publication order.     *)
(***************************************************************************)
THEOREM DeliveryRefinesChannel == Spec => ImplementsChannel
<1>1. Init => Channel!ChannelInit
  BY EmptyQueue DEF Init, Channel!ChannelInit, Published
<1>2. ASSUME IInv, [Next]_vars
      PROVE  [Channel!ChannelNext]_Channel!channelVars
  <2>1. CASE PublishEvent
    <3>1. /\ eventSeq \in Event /\ Published' = Published \cup {eventSeq}
          /\ \A s \in Published : s < eventSeq
          /\ ledger' = ledger
      <4>1. eventSeq \in Event /\ eventSeq \notin Published
        BY <1>2, <2>1 DEF IInv, NumberingInv, PublishEvent
      <4>2. Published \subseteq Event
        BY <1>2, RangeOfSeq DEF IInv, TypeOK, Published
      <4>3. \A s \in Published : s < eventSeq
        BY <1>2, <4>1, <4>2 DEF IInv, NumberingInv, Event
      <4>4. Published' = Published \cup {eventSeq} /\ ledger' = ledger
        BY <2>1 DEF PublishEvent, Published, outboxVars, apiVars
      <4> QED BY <4>1, <4>3, <4>4
    <3> QED BY <3>1 DEF Channel!ChannelNext, Channel!Publish
  <2>2. CASE \E e \in Event : Apply(e)
    <3> PICK e \in Event : Apply(e)
      BY <2>2
    <3>1. /\ e \in wire /\ e \notin Range(ledger) /\ e \in Known
          /\ ledger \in Seq(Event) /\ ledger' = Append(ledger, e)
      BY <1>2 DEF IInv, TypeOK, OutboxInv, Apply
    <3>2. e \in Published /\ \A s \in Published : s < e => s \in Range(ledger)
      BY <1>2, <3>1 DEF IInv, CausalPrefix, Known, Published
    <3>3. Published' = Published
      <4>1. Range(ledger') = Range(ledger) \cup {e}
        BY <3>1, AppendLast
      <4> QED BY <3>2, <4>1 DEF Apply, Published, outboxVars
    <3>4. Channel!Range(ledger) = Range(ledger)
      BY DEF Range, Channel!Range
    <3> QED
      BY <3>1, <3>2, <3>3, <3>4 DEF Channel!ChannelNext, Channel!Deliver
  <2>3. CASE ~PublishEvent /\ \A e \in Event : ~Apply(e)
    BY <1>2, <2>3, SourceKept DEF Channel!channelVars
  <2> QED BY <2>1, <2>2, <2>3
<1> QED
  BY <1>1, <1>2, Invariance, PTL DEF Spec, ImplementsChannel, Channel!ChannelSpec
=============================================================================
