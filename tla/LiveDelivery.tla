---------------------------- MODULE LiveDelivery ----------------------------
(***************************************************************************)
(* The delivery of one connection's MT5 event stream to the ingestion API: *)
(* the bridge EA publishing event-N.json files, LiveSync.poll_once moving  *)
(* them into the persistent outbox, EventOutbox.drain and EventSender.send *)
(* posting them, and a network that loses, repeats and delays requests.    *)
(*                                                                         *)
(* An event is its bridge sequence number: the payload built from one      *)
(* DEAL_ADD file carries the native deal ticket, so its event_id is a      *)
(* function of the file.  Events derived by comparing snapshots are the    *)
(* subject of LiveJournal, not of this module.                             *)
(*                                                                         *)
(* Every durable write is a step of its own, so Interrupt - a crash, or an *)
(* exception that abandons the poll - can fall between any two of them.    *)
(* The next poll rebuilds its objects from disk, as the supervisor does.   *)
(***************************************************************************)
EXTENDS Integers, Sequences, FiniteSets, Functions

CONSTANTS MaxSeq,         \* bound: sequence numbers the EA may reserve
          MaxAttempts,    \* EventSender.max_retries
          MaxInterrupts   \* bound: crashes and abandoned polls

ASSUME DeliveryAssumption ==
  /\ MaxSeq \in Nat
  /\ MaxAttempts \in Nat \ {0}
  /\ MaxInterrupts \in Nat

VARIABLES
  eventSeq,      \* cursor.json: last sequence number durably reserved
  reserved,      \* TRUE between the reservation and the rename of its file
  eventFiles,    \* N for each events/event-N.json on disk
  lastSequence,  \* file-event-checkpoint.json
  pending,       \* live-outbox.json "pending", oldest first
  deadLetter,    \* live-outbox.json "dead_letter"
  delivered,     \* live-dedup.sqlite
  pc,            \* where poll_once stands
  records,       \* the event files read by this poll
  payloads,      \* those this poll will remember as delivered
  phase,         \* which of the two drains of poll_once is running
  attempt,       \* POSTs made for the head of the outbox in this send
  wire,          \* requests posted that the API may still receive
  ledger,        \* events in the order the API first applied them
  interrupts

bridgeVars  == <<eventSeq, reserved>>
outboxVars  == <<pending, deadLetter>>
pollVars    == <<records, payloads, phase>>
apiVars     == <<wire, ledger>>
vars == <<bridgeVars, eventFiles, lastSequence, outboxVars, delivered, pc,
          pollVars, attempt, apiVars, interrupts>>

Event == 1..MaxSeq

PollState == {"idle", "drain", "await", "sent", "rejected", "read",
              "enqueue", "acknowledge", "prune", "remember"}

Init ==
  /\ eventSeq = 0 /\ reserved = FALSE /\ eventFiles = {}
  /\ lastSequence = 0
  /\ pending = <<>> /\ deadLetter = {} /\ delivered = {}
  /\ pc = "idle" /\ records = {} /\ payloads = {} /\ phase = "recover"
  /\ attempt = 0 /\ wire = {} /\ ledger = <<>> /\ interrupts = 0

-----------------------------------------------------------------------------
(* The bridge EA: BuildEventJson reserves N in cursor.json before           *)
(* WriteEventAtomic renames event-N.json into place.  A failed write or a   *)
(* terminal that dies in between leaves a gap, never a reused number.       *)

Reserve ==
  /\ ~reserved
  /\ eventSeq < MaxSeq
  /\ eventSeq' = eventSeq + 1
  /\ reserved' = TRUE
  /\ UNCHANGED <<eventFiles, lastSequence, outboxVars, delivered, pc, pollVars,
                 attempt, apiVars, interrupts>>

PublishEvent ==
  /\ reserved
  /\ eventFiles' = eventFiles \cup {eventSeq}
  /\ reserved' = FALSE
  /\ UNCHANGED <<eventSeq, lastSequence, outboxVars, delivered, pc, pollVars,
                 attempt, apiVars, interrupts>>

LeaveGap ==
  /\ reserved
  /\ reserved' = FALSE
  /\ UNCHANGED <<eventSeq, eventFiles, lastSequence, outboxVars, delivered, pc,
                 pollVars, attempt, apiVars, interrupts>>

-----------------------------------------------------------------------------
(* The ingestion API and the network.  The API deduplicates by event_id, so *)
(* only the first application of an event is visible and a copy of a        *)
(* request that is still travelling need not be counted.                    *)

Apply(e) ==
  /\ e \in wire \ Range(ledger)
  /\ ledger' = Append(ledger, e)
  /\ UNCHANGED <<bridgeVars, eventFiles, lastSequence, outboxVars, delivered,
                 pc, pollVars, attempt, wire, interrupts>>

Lose(e) ==
  /\ e \in wire
  /\ wire' = wire \ {e}
  /\ UNCHANGED <<bridgeVars, eventFiles, lastSequence, outboxVars, delivered,
                 pc, pollVars, attempt, ledger, interrupts>>

-----------------------------------------------------------------------------
(* EventOutbox.drain and EventSender.send                                   *)

\* drain() takes the oldest pending event and send() makes its first POST.
Post ==
  /\ pc = "drain"
  /\ pending # <<>>
  /\ wire' = wire \cup {Head(pending)}
  /\ attempt' = 1
  /\ pc' = "await"
  /\ UNCHANGED <<bridgeVars, eventFiles, lastSequence, outboxVars, delivered,
                 pollVars, ledger, interrupts>>

\* A time-out, a 408/425/429 or a 5xx: the request may or may not have been
\* applied, and the next attempt repeats it.
Retry ==
  /\ pc = "await"
  /\ attempt < MaxAttempts
  /\ wire' = wire \cup {Head(pending)}
  /\ attempt' = attempt + 1
  /\ UNCHANGED <<bridgeVars, eventFiles, lastSequence, outboxVars, delivered,
                 pc, pollVars, ledger, interrupts>>

GiveUpWithoutRaising ==   \* mutant: an incomplete second drain ends as a complete one
  /\ pc = "await"
  /\ pc' = IF phase = "deliver" THEN "remember" ELSE "idle"
  /\ attempt' = 0
  /\ UNCHANGED <<bridgeVars, eventFiles, lastSequence, outboxVars, delivered,
                 pollVars, apiVars, interrupts>>

GiveUpAndDrop ==   \* mutant: a transient failure drops the event
  /\ pc = "await"
  /\ pending' = Tail(pending)
  /\ pc' = "idle"
  /\ attempt' = 0 /\ records' = {} /\ payloads' = {}
  /\ UNCHANGED <<bridgeVars, eventFiles, lastSequence, deadLetter, delivered,
                 phase, apiVars, interrupts>>

\* The last attempt failed, or any attempt met a 401/403: the event stays at
\* the head, the drain stops and _drain_outbox raises LiveSyncDeliveryError.
GiveUp ==
  /\ pc = "await"
  /\ pc' = "idle"
  /\ attempt' = 0 /\ records' = {} /\ payloads' = {}
  /\ UNCHANGED <<bridgeVars, eventFiles, lastSequence, outboxVars, delivered,
                 phase, apiVars, interrupts>>

AnswerSent ==
  /\ pc = "await"
  /\ Head(pending) \in wire \cap Range(ledger)
  /\ pc' = "sent"
  /\ UNCHANGED <<bridgeVars, eventFiles, lastSequence, outboxVars, delivered,
                 pollVars, attempt, apiVars, interrupts>>

AnswerRejected ==
  /\ pc = "await"
  /\ Head(pending) \in wire
  /\ pc' = "rejected"
  /\ UNCHANGED <<bridgeVars, eventFiles, lastSequence, outboxVars, delivered,
                 pollVars, attempt, apiVars, interrupts>>

PopSent ==
  /\ pc = "sent"
  /\ pending' = Tail(pending)
  /\ attempt' = 0
  /\ pc' = "drain"
  /\ UNCHANGED <<bridgeVars, eventFiles, lastSequence, deadLetter, delivered,
                 pollVars, apiVars, interrupts>>

StoreDeadLetterAndGoOn ==   \* mutant: the drain continues with the successors
  /\ pc = "rejected"
  /\ pending' = Tail(pending)
  /\ deadLetter' = deadLetter \cup {Head(pending)}
  /\ pc' = "drain"
  /\ attempt' = 0
  /\ UNCHANGED <<bridgeVars, eventFiles, lastSequence, delivered, pollVars,
                 apiVars, interrupts>>

\* The rejected event becomes a causal barrier and the poll raises.
StoreDeadLetter ==
  /\ pc = "rejected"
  /\ pending' = Tail(pending)
  /\ deadLetter' = deadLetter \cup {Head(pending)}
  /\ pc' = "idle"
  /\ attempt' = 0 /\ records' = {} /\ payloads' = {}
  /\ UNCHANGED <<bridgeVars, eventFiles, lastSequence, delivered, phase,
                 apiVars, interrupts>>

DrainDone ==
  /\ pc = "drain"
  /\ pending = <<>>
  /\ pc' = IF phase = "recover" THEN "read" ELSE "remember"
  /\ UNCHANGED <<bridgeVars, eventFiles, lastSequence, outboxVars, delivered,
                 pollVars, attempt, apiVars, interrupts>>

-----------------------------------------------------------------------------
(* LiveSync.poll_once                                                       *)

BeginPollUnblocked ==   \* mutant: dead_letter_count() is not consulted
  /\ pc = "idle"
  /\ pc' = "drain"
  /\ phase' = "recover"
  /\ UNCHANGED <<bridgeVars, eventFiles, lastSequence, outboxVars, delivered,
                 records, payloads, attempt, apiVars, interrupts>>

BeginPoll ==
  /\ pc = "idle"
  /\ deadLetter = {}
  /\ pc' = "drain"
  /\ phase' = "recover"
  /\ UNCHANGED <<bridgeVars, eventFiles, lastSequence, outboxVars, delivered,
                 records, payloads, attempt, apiVars, interrupts>>

\* A dead letter from an earlier poll: nothing is read, sent or acknowledged.
BlockedPoll ==
  /\ pc = "idle"
  /\ deadLetter # {}
  /\ UNCHANGED vars

ReadEveryFile ==   \* mutant: pending_events neither prunes nor filters
  /\ pc = "read"
  /\ records' = eventFiles
  /\ payloads' = records' \ delivered
  /\ pc' = "enqueue"
  /\ UNCHANGED <<bridgeVars, eventFiles, lastSequence, outboxVars, delivered,
                 phase, attempt, apiVars, interrupts>>

\* pending_events deletes the files the checkpoint covers and returns the
\* others; payloads the dedup store knows are dropped.
ReadEvents ==
  /\ pc = "read"
  /\ eventFiles' = {n \in eventFiles : n > lastSequence}
  /\ records' = eventFiles'
  /\ payloads' = records' \ delivered
  /\ pc' = "enqueue"
  /\ UNCHANGED <<bridgeVars, lastSequence, outboxVars, delivered, phase,
                 attempt, apiVars, interrupts>>

\* q lists the elements of S in the order pending_events sorts them.
IsAscendingListing(q, S) ==
  /\ Range(q) = S
  /\ \A i, j \in DOMAIN q : i < j => q[i] < q[j]

\* enqueue_many appends, in one durable write, what the outbox does not hold.
Enqueue ==
  /\ pc = "enqueue"
  /\ LET new == payloads \ (Range(pending) \cup deadLetter)
     IN  \E q \in [1..Cardinality(new) -> new] :
           /\ IsAscendingListing(q, new)
           /\ pending' = pending \o q
  /\ pc' = IF records = {} THEN "drain" ELSE "acknowledge"
  /\ phase' = "deliver"
  /\ UNCHANGED <<bridgeVars, eventFiles, lastSequence, deadLetter, delivered,
                 records, payloads, attempt, apiVars, interrupts>>

\* acknowledge_events replaces the checkpoint first ...
Acknowledge ==
  /\ pc = "acknowledge"
  /\ \E last \in records :
       /\ \A n \in records : n <= last
       /\ lastSequence' = last
  /\ pc' = "prune"
  /\ UNCHANGED <<bridgeVars, eventFiles, outboxVars, delivered, pollVars,
                 attempt, apiVars, interrupts>>

PruneOneTooMany(n) ==   \* mutant: off by one
  /\ pc = "prune"
  /\ n \in eventFiles /\ n <= lastSequence + 1
  /\ eventFiles' = eventFiles \ {n}
  /\ UNCHANGED <<bridgeVars, lastSequence, outboxVars, delivered, pc, pollVars,
                 attempt, apiVars, interrupts>>

\* ... and then unlinks the acknowledged files one by one.
PruneFile(n) ==
  /\ pc = "prune"
  /\ n \in eventFiles /\ n <= lastSequence
  /\ eventFiles' = eventFiles \ {n}
  /\ UNCHANGED <<bridgeVars, lastSequence, outboxVars, delivered, pc, pollVars,
                 attempt, apiVars, interrupts>>

PruneDone ==
  /\ pc = "prune"
  /\ \A n \in eventFiles : n > lastSequence
  /\ pc' = "drain"
  /\ UNCHANGED <<bridgeVars, eventFiles, lastSequence, outboxVars, delivered,
                 pollVars, attempt, apiVars, interrupts>>

\* dedup.add commits one event_id at a time, only after a complete drain.
Remember(e) ==
  /\ pc = "remember"
  /\ e \in payloads
  /\ delivered' = delivered \cup {e}
  /\ payloads' = payloads \ {e}
  /\ UNCHANGED <<bridgeVars, eventFiles, lastSequence, outboxVars, pc, records,
                 phase, attempt, apiVars, interrupts>>

EndPoll ==
  /\ pc = "remember"
  /\ payloads = {}
  /\ pc' = "idle"
  /\ records' = {}
  /\ UNCHANGED <<bridgeVars, eventFiles, lastSequence, outboxVars, delivered,
                 payloads, phase, attempt, apiVars, interrupts>>

\* The agent dies, or a step raises: what was only in memory is gone.
Interrupt ==
  /\ pc # "idle"
  /\ interrupts < MaxInterrupts
  /\ interrupts' = interrupts + 1
  /\ pc' = "idle"
  /\ attempt' = 0 /\ records' = {} /\ payloads' = {}
  /\ UNCHANGED <<bridgeVars, eventFiles, lastSequence, outboxVars, delivered,
                 phase, apiVars>>

-----------------------------------------------------------------------------
Bridge == Reserve \/ PublishEvent \/ LeaveGap

Api == \E e \in Event : Apply(e) \/ Lose(e)

Drain == \/ Post \/ Retry \/ GiveUp \/ AnswerSent \/ AnswerRejected
         \/ PopSent \/ StoreDeadLetter \/ DrainDone

Poll == \/ BeginPoll \/ BlockedPoll \/ ReadEvents \/ Enqueue \/ Acknowledge
        \/ (\E n \in Event : PruneFile(n) \/ Remember(n))
        \/ PruneDone \/ EndPoll

Next == Bridge \/ Api \/ Drain \/ Poll \/ Interrupt

Spec == Init /\ [][Next]_vars

(* The supervisor polls forever, so a poll that can step does.  The network *)
(* is eventually good: a request posted again and again is applied, and its *)
(* confirmation received again and again is seen before the sender gives up.*)
Fairness ==
  /\ WF_vars(Drain \/ Poll)
  /\ SF_vars(\E e \in Event : Apply(e))
  /\ SF_vars(AnswerSent)

FairSpec == Spec /\ Fairness
-----------------------------------------------------------------------------
TypeOK ==
  /\ eventSeq \in 0..MaxSeq
  /\ reserved \in BOOLEAN
  /\ eventFiles \subseteq Event
  /\ lastSequence \in 0..MaxSeq
  /\ pending \in Seq(Event)
  /\ deadLetter \subseteq Event
  /\ delivered \subseteq Event
  /\ pc \in PollState
  /\ records \subseteq Event
  /\ payloads \subseteq Event
  /\ phase \in {"recover", "deliver"}
  /\ attempt \in 0..MaxAttempts
  /\ wire \subseteq Event
  /\ ledger \in Seq(Event)
  /\ interrupts \in 0..MaxInterrupts

\* Every transaction that was ever published and is still recorded somewhere
\* that survives a crash.
Published == eventFiles \cup Range(pending) \cup deadLetter \cup Range(ledger)

(***************************************************************************)
(* Whatever is lost, repeated, delayed or interrupted, the API never       *)
(* applies - and no request in flight could make it apply - an event       *)
(* before an earlier one of the same account: a close never overtakes its  *)
(* open (EventOutbox.drain, "preserves open -> modify -> close").          *)
(***************************************************************************)
CausalPrefix ==
  /\ \A i, j \in DOMAIN ledger : i < j => ledger[i] < ledger[j]
  /\ \A e \in Range(ledger) \cup wire : \A s \in Published :
       s < e => s \in Range(ledger)

(***************************************************************************)
(* The dedup store never claims an event the API has not applied: an event *)
(* filtered out by dedup.contains is one that really arrived.              *)
(***************************************************************************)
RememberedIsApplied == delivered \subseteq Range(ledger)

(***************************************************************************)
(* An acknowledged event that has left the outbox never comes back, so a   *)
(* crash after the checkpoint can repeat only what was not settled.        *)
(***************************************************************************)
SettledStaysSettled ==
  [][\A e \in Event :
       (e <= lastSequence /\ e \notin Range(pending)) => e \notin Range(pending')]_vars

(***************************************************************************)
(* While a dead letter is unresolved nothing is posted and no event file   *)
(* is acknowledged or deleted, also after a restart (docs: "Una            *)
(* dead-letter permanente blocca gli eventi causali successivi").          *)
(***************************************************************************)
DeadLetterBlocks ==
  [][deadLetter # {} => /\ wire' \subseteq wire
                        /\ lastSequence' = lastSequence
                        /\ eventFiles \subseteq eventFiles']_vars

(***************************************************************************)
(* Every published event is eventually applied by the API, unless some     *)
(* event was permanently rejected and the channel waits for the operator.  *)
(***************************************************************************)
EventuallyApplied ==
  \A e \in Event : e \in eventFiles ~> (e \in Range(ledger) \/ deadLetter # {})

-----------------------------------------------------------------------------
(* The inductive strengthening of the safety properties.                    *)

Ascending(q) == \A i, j \in DOMAIN q : i < j => q[i] < q[j]

\* Events that reached the outbox: no longer dependent on their file.
Known == Range(pending) \cup deadLetter \cup Range(ledger)

\* Published numbers are reserved ones; the number being written is new.
NumberingInv ==
  /\ \A e \in Published : e <= eventSeq
  /\ lastSequence <= eventSeq
  /\ reserved => /\ eventSeq \in Event /\ eventSeq \notin Published
                 /\ lastSequence < eventSeq

\* The outbox takes events in order and without holes, and a checkpoint only
\* covers events it took.
OutboxInv ==
  /\ Ascending(pending) /\ Ascending(ledger)
  /\ wire \subseteq Known
  /\ \A e \in Known : \A s \in Published : s < e => s \in Known
  /\ \A s \in Published : s <= lastSequence => s \in Known

\* What the point reached by the poll says about the durable state.
PollInv ==
  /\ pc # "idle" => deadLetter = {}
  /\ pc \in {"await", "sent", "rejected"} => pending # <<>>
  /\ pc = "sent" => Head(pending) \in Range(ledger)
  /\ pc \in {"read", "enqueue"} => phase = "recover" /\ pending = <<>>
  /\ pc \in {"acknowledge", "prune", "remember"} => phase = "deliver"
  /\ pc = "enqueue" => records \subseteq eventFiles /\ payloads = records \ delivered
  /\ pc \in {"enqueue", "acknowledge"} =>
       /\ \A n \in records : n > lastSequence
       /\ \A n \in eventFiles : n > lastSequence =>
            n \in records \/ \A m \in records : m < n
  /\ pc = "acknowledge" => records \subseteq Known
  /\ (phase = "deliver" /\ pc # "idle") =>
       payloads \subseteq Range(pending) \cup Range(ledger)
  /\ pc = "remember" => payloads \subseteq Range(ledger)

IInv == /\ TypeOK /\ NumberingInv /\ OutboxInv /\ PollInv
        /\ CausalPrefix /\ RememberedIsApplied

-----------------------------------------------------------------------------
\* The promise this module keeps: nothing published is forgotten, and the
\* API's order is the order of publication.
Channel == INSTANCE CausalChannel WITH source <- Published, journal <- ledger

ImplementsChannel == Channel!ChannelSpec
=============================================================================
