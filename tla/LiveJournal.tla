----------------------------- MODULE LiveJournal -----------------------------
(***************************************************************************)
(* What the journal of one connection ends up saying about its positions.  *)
(*                                                                         *)
(* A broker executes deals; the terminal runs the EA's callbacks for them  *)
(* and, independently, the EA's timer publishes a bundle with the open     *)
(* positions.  LiveSync.poll_once reads the bundle and then the stream,    *)
(* merges them (EventMerge), and makes outbox, checkpoint and snapshot     *)
(* durable one after the other.                                            *)
(*                                                                         *)
(* The bundle is one value: BridgeBundle is the place for its files.  The  *)
(* network, retries and dead letters are LiveDelivery's; here a delivery   *)
(* succeeds or abandons the poll.  A deal moves whole lots.                *)
(***************************************************************************)
EXTENDS EventMerge

CONSTANTS Stop,          \* stop_loss values a position may have
          MaxDeals,      \* bound: deals the broker executes
          MaxChanges,    \* bound: changes of a stop
          MaxOrders,     \* bound: deals, changes and restarts together
          MaxWaiting,    \* bound: transactions the EA has still to publish
          MaxPending,    \* MAX_PENDING_DEAL_EVENTS
          MaxRestarts,   \* bound: restarts of the EA
          MaxInterrupts  \* bound: crashes and abandoned polls

ASSUME JournalAssumption ==
  /\ Position \subseteq Nat \ {0}
  /\ NoStop \notin Stop
  /\ MaxDeals \in Nat /\ MaxChanges \in Nat /\ MaxOrders \in Nat
  /\ MaxWaiting \in Nat /\ MaxInterrupts \in Nat
  /\ MaxPending \in Nat /\ MaxRestarts \in Nat

VARIABLES
  book,        \* the broker's open positions
  deals,       \* every deal executed, oldest first
  changes,     \* stops changed so far
  callbacks,   \* transactions OnTradeTransaction has not handled yet
  retryQueue,  \* g_pending_deal_tickets
  restarts,
  stream,      \* the event files published so far, in sequence order
  bundle,      \* the committed bundle: positions, the records published before
               \* it, and (history) whether those tell of everything it shows
  acked,       \* file-event-checkpoint.json, as a prefix of stream
  saved,       \* the snapshot store: positions at the last complete poll
  outbox,      \* live-outbox.json "pending"
  known,       \* live-dedup.sqlite
  journal,     \* events in the order the API first applied them
  pc,          \* where poll_once stands
  current,     \* the bundle this poll read
  records,     \* the stream records this poll read
  payloads,    \* the events it will remember as delivered
  interrupts,
  torn,        \* history: some poll ended between Acknowledge and SaveSnapshot
  misaligned   \* history: some poll merged a stream and a bundle of two instants

\* The environment; only a restart of the EA changes the last one.
brokerVars == <<book, deals, changes, restarts>>
bridgeVars == <<callbacks, retryQueue, stream, bundle>>
storeVars  == <<acked, saved, known>>
pollVars   == <<current, records, payloads>>
vars == <<brokerVars, bridgeVars, storeVars, outbox, journal, pc, pollVars,
          interrupts, torn, misaligned>>

Empty == <<>>   \* no position: a function with an empty domain
NoBundle == [positions |-> Empty, seq |-> 0, whole |-> TRUE]

Init ==
  /\ book = Empty /\ deals = <<>> /\ changes = 0
  /\ callbacks = <<>> /\ retryQueue = <<>> /\ stream = <<>>
  /\ restarts = 0
  /\ bundle = NoBundle
  /\ acked = 0 /\ saved = Empty /\ known = {}
  /\ outbox = <<>> /\ journal = <<>>
  /\ pc = "recover" /\ current = NoBundle /\ records = <<>> /\ payloads = <<>>
  /\ interrupts = 0 /\ torn = FALSE /\ misaligned = FALSE

-----------------------------------------------------------------------------
(* The broker.  A position identifier is never reused; `was' is the volume  *)
(* the position had before the deal.                                        *)

HasOrders == Len(deals) + changes + restarts < MaxOrders
HasRoom   == Len(callbacks) + Len(retryQueue) < MaxWaiting /\ HasOrders

Execute(p, entry, vol, was) ==
  /\ Len(deals) < MaxDeals /\ HasRoom
  /\ deals' = Append(deals, [pos |-> p, entry |-> entry, vol |-> vol, was |-> was])
  /\ callbacks' = Append(callbacks, [kind |-> "DEAL_ADD", deal |-> Len(deals) + 1, pos |-> p])
  /\ UNCHANGED <<changes, restarts, retryQueue, stream, bundle, storeVars, outbox, journal,
                 pc, pollVars, interrupts, torn, misaligned>>

OpenPosition(p, sl) ==
  /\ \A d \in Range(deals) : d.pos # p
  /\ book' = [q \in DOMAIN book \cup {p} |->
                IF q = p THEN [vol |-> 1, sl |-> sl] ELSE book[q]]
  /\ Execute(p, "IN", 1, 0)

ScaleIn(p) ==
  /\ p \in DOMAIN book
  /\ book' = [book EXCEPT ![p].vol = @ + 1]
  /\ Execute(p, "IN", 1, book[p].vol)

Reduce(p, vol) ==
  /\ p \in DOMAIN book
  /\ vol \in 1..book[p].vol
  /\ book' = IF vol = book[p].vol
             THEN [q \in DOMAIN book \ {p} |-> book[q]]
             ELSE [book EXCEPT ![p].vol = @ - vol]
  /\ Execute(p, "OUT", vol, book[p].vol)

ChangeStop(p, sl) ==
  /\ changes < MaxChanges /\ HasRoom
  /\ p \in DOMAIN book /\ sl # book[p].sl
  /\ book' = [book EXCEPT ![p].sl = sl]
  /\ changes' = changes + 1
  /\ callbacks' = Append(callbacks, [kind |-> "POSITION", deal |-> NoDeal, pos |-> p])
  /\ UNCHANGED <<deals, restarts, retryQueue, stream, bundle, storeVars, outbox, journal,
                 pc, pollVars, interrupts, torn, misaligned>>

-----------------------------------------------------------------------------
(* The bridge EA, one callback at a time.                                   *)

DealRecord(d) == [kind |-> "DEAL_ADD", pos |-> deals[d].pos, deal |-> d,
                  entry |-> deals[d].entry, vol |-> deals[d].vol, seq |-> 0]
PositionRecord(p) == [kind |-> "POSITION", pos |-> p, deal |-> NoDeal,
                      entry |-> "", vol |-> 0, seq |-> 0]

Publish(rs) ==
  stream' = stream \o [i \in DOMAIN rs |-> [rs[i] EXCEPT !.seq = Len(stream) + i]]

\* A full queue drops the deal; an executed deal is never queued twice.
QueuePendingDealEvent(d) ==
  IF Len(retryQueue) < MaxPending THEN Append(retryQueue, d) ELSE retryQueue

\* OnTradeTransaction.  A deal whose history entry or symbol is not visible
\* yet is queued; a POSITION notification of a closed position is dropped.
OnTradeTransaction ==
  /\ callbacks # <<>>
  /\ LET t == Head(callbacks)
     IN  \/ /\ t.kind = "DEAL_ADD"
            /\ Publish(<<DealRecord(t.deal)>>)
            /\ UNCHANGED retryQueue
         \/ /\ t.kind = "DEAL_ADD"
            /\ retryQueue' = QueuePendingDealEvent(t.deal)
            /\ UNCHANGED stream
         \/ /\ t.kind = "POSITION"
            /\ Publish(IF t.pos \in DOMAIN book THEN <<PositionRecord(t.pos)>> ELSE <<>>)
            /\ UNCHANGED retryQueue
  /\ callbacks' = Tail(callbacks)
  /\ UNCHANGED <<brokerVars, bundle, storeVars, outbox, journal, pc, pollVars,
                 interrupts, torn, misaligned>>

\* Every deal executed has its record, in the broker's order.
IsDealHistory(q) ==
  LET published == Sublist(q, {i \in DOMAIN q : q[i].kind = "DEAL_ADD"})
  IN  [i \in DOMAIN published |-> published[i].deal] = [d \in DOMAIN deals |-> d]

\* OnTimer: RetryPendingDealEvents walks the queue backwards, publishing the
\* deals that have become visible, then WriteAllSnapshots commits a bundle.
OnTimer ==
  \E visible \in SUBSET Range(retryQueue) :
    LET ready == {i \in DOMAIN retryQueue : retryQueue[i] \in visible}
        found == Reverse(Sublist(retryQueue, ready))
    IN  /\ Publish([i \in DOMAIN found |-> DealRecord(found[i])])
        /\ retryQueue' = Sublist(retryQueue, DOMAIN retryQueue \ ready)
        /\ bundle' = [positions |-> book, seq |-> Len(stream'),
                      whole |-> callbacks = <<>> /\ IsDealHistory(stream')]
        /\ UNCHANGED <<brokerVars, callbacks, storeVars, outbox, journal, pc,
                       pollVars, interrupts, torn, misaligned>>

\* OnInit: callbacks and queue are the memory of the process that has ended.
\* What it published stays; in new_only mode no older deal is looked for.
RestartExpert ==
  /\ restarts < MaxRestarts /\ HasOrders
  /\ restarts' = restarts + 1
  /\ callbacks' = <<>> /\ retryQueue' = <<>>
  /\ UNCHANGED <<book, deals, changes, stream, bundle, storeVars, outbox, journal,
                 pc, pollVars, interrupts, torn, misaligned>>

-----------------------------------------------------------------------------
(* LiveSync.poll_once                                                       *)

\* EventOutbox.drain with an API that deduplicates by event_id.
Deliver ==
  /\ pc \in {"recover", "deliver"}
  /\ outbox # <<>>
  /\ outbox' = Tail(outbox)
  /\ journal' = IF \E i \in DOMAIN journal : EventId(journal[i]) = EventId(Head(outbox))
                THEN journal ELSE Append(journal, Head(outbox))
  /\ UNCHANGED <<brokerVars, bridgeVars, storeVars, pc, pollVars, interrupts, torn, misaligned>>

\* adapter.snapshot(), read before pending_events().
ReadSnapshot ==
  /\ pc = "recover" /\ outbox = <<>>
  /\ current' = bundle
  /\ pc' = "read"
  /\ UNCHANGED <<brokerVars, bridgeVars, storeVars, outbox, journal, records,
                 payloads, interrupts, torn, misaligned>>

TwoInstants == ~current.whole \/ current.seq # Len(stream)

\* What enqueue_many appends: an identity that is pending already, or was met
\* earlier in the batch, is passed over.
NewPlaces(events, q) ==
  {i \in DOMAIN events :
     /\ \A j \in DOMAIN q : EventId(q[j]) # EventId(events[i])
     /\ \A j \in 1..(i - 1) : EventId(events[j]) # EventId(events[i])}

\* pending_events, the merge, the dedup filter and enqueue_many: only the
\* last of them is durable, so a crash among them leaves nothing.
Enqueue ==
  /\ pc = "read"
  /\ LET read   == SubSeq(stream, acked + 1, Len(stream))
         events == PollEvents(read, saved, current.positions)
         unsent == Sublist(events, {i \in DOMAIN events : EventId(events[i]) \notin known})
     IN  /\ records' = read
         /\ payloads' = unsent
         /\ outbox' = outbox \o Sublist(unsent, NewPlaces(unsent, outbox))
         /\ pc' = IF read = <<>> THEN "save" ELSE "acknowledge"
  /\ misaligned' = (misaligned \/ TwoInstants)
  /\ UNCHANGED <<brokerVars, bridgeVars, storeVars, journal, current, interrupts, torn>>

AcknowledgeAllFiles ==   \* mutant: the directory is read again
  /\ pc = "acknowledge"
  /\ acked' = Len(stream)
  /\ pc' = "save"
  /\ UNCHANGED <<brokerVars, bridgeVars, saved, known, outbox, journal, pollVars,
                 interrupts, torn, misaligned>>

Acknowledge ==
  /\ pc = "acknowledge"
  /\ acked' = Last(records).seq
  /\ pc' = "save"
  /\ UNCHANGED <<brokerVars, bridgeVars, saved, known, outbox, journal, pollVars,
                 interrupts, torn, misaligned>>

SaveLatestSnapshot ==   \* mutant: the bundle is read again
  /\ pc = "save"
  /\ saved' = bundle.positions
  /\ pc' = "deliver"
  /\ UNCHANGED <<brokerVars, bridgeVars, acked, known, outbox, journal, pollVars,
                 interrupts, torn, misaligned>>

SaveSnapshot ==
  /\ pc = "save"
  /\ saved' = current.positions
  /\ pc' = "deliver"
  /\ UNCHANGED <<brokerVars, bridgeVars, acked, known, outbox, journal, pollVars,
                 interrupts, torn, misaligned>>

EndPoll ==
  /\ pc = "deliver" /\ outbox = <<>>
  /\ known' = known \cup {EventId(e) : e \in Range(payloads)}
  /\ pc' = "recover"
  /\ current' = NoBundle /\ records' = <<>> /\ payloads' = <<>>
  /\ UNCHANGED <<brokerVars, bridgeVars, acked, saved, outbox, journal,
                 interrupts, torn, misaligned>>

\* A crash, or a delivery failure that raises LiveSyncDeliveryError.  In the
\* first drain it changes nothing: the next poll starts with that drain.
Interrupt ==
  /\ pc # "recover"
  /\ interrupts < MaxInterrupts
  /\ interrupts' = interrupts + 1
  /\ pc' = "recover"
  /\ current' = NoBundle /\ records' = <<>> /\ payloads' = <<>>
  /\ torn' = (torn \/ (pc = "save" /\ records # <<>>))
  /\ UNCHANGED <<brokerVars, bridgeVars, storeVars, outbox, journal, misaligned>>

-----------------------------------------------------------------------------
Broker == \E p \in Position :
            \/ \E sl \in Stop : OpenPosition(p, sl) \/ ChangeStop(p, sl)
            \/ ScaleIn(p)
            \/ \E vol \in 1..MaxDeals : Reduce(p, vol)

Bridge == OnTradeTransaction \/ OnTimer \/ RestartExpert

Poll == \/ Deliver \/ ReadSnapshot \/ Enqueue \/ Acknowledge
        \/ SaveSnapshot \/ EndPoll

Next == Broker \/ Bridge \/ Poll \/ Interrupt

Spec == Init /\ [][Next]_vars
-----------------------------------------------------------------------------
EventType == {"trade_opened", "trade_volume_changed", "trade_partial_closed",
              "trade_closed", "trade_modified", "deal_recorded"}

IsBook(b) == /\ DOMAIN b \subseteq Position
             /\ \A p \in DOMAIN b : b[p].vol \in 1..MaxDeals /\ b[p].sl \in Stop

\* Every variable holds what its file or its program variable can hold.
TypeOK ==
  /\ IsBook(book) /\ IsBook(bundle.positions) /\ IsBook(current.positions)
  /\ IsBook(saved)
  /\ Len(deals) <= MaxDeals /\ changes \in 0..MaxChanges
  /\ Range(retryQueue) \subseteq DOMAIN deals
  /\ bundle.seq <= Len(stream)
  /\ acked \in 0..Len(stream)
  /\ \A e \in Range(outbox) \cup Range(journal) \cup Range(payloads) :
       /\ e.type \in EventType /\ e.ticket \in Position
       /\ e.native \in 0..MaxDeals /\ e.vol \in Nat
  /\ pc \in {"recover", "read", "acknowledge", "save", "deliver"}
  /\ Len(retryQueue) <= MaxPending
  /\ interrupts \in 0..MaxInterrupts /\ torn \in BOOLEAN /\ misaligned \in BOOLEAN

\* What has been reported: delivered, or durable and still to be delivered.
Reported == Range(journal) \cup Range(outbox)

(***************************************************************************)
(* A published deal whose file was acknowledged - and so may be deleted -  *)
(* is reported under its native ticket, whatever snapshots were read and   *)
(* wherever the poll was interrupted ("neither path loses data",           *)
(* live_sync.py poll_once).                                                *)
(***************************************************************************)
AcknowledgedDealsAreReported ==
  \A i \in 1..acked : stream[i].kind = "DEAL_ADD" =>
    \E e \in Reported : e.native = stream[i].deal

(***************************************************************************)
(* The snapshot the next poll will compare with never hides a change: a    *)
(* position that appears in it, leaves it or gets another stop was         *)
(* reported first, by the stream or by the comparison.                     *)
(***************************************************************************)
SavedChangesAreReported ==
  [][/\ \A p \in DOMAIN saved' \ DOMAIN saved :
          \E e \in Reported' : e.type = "trade_opened" /\ e.ticket = p
     /\ \A p \in DOMAIN saved \ DOMAIN saved' :
          \E e \in Reported' : e.type = "trade_closed" /\ e.ticket = p
     /\ \A p \in DOMAIN saved \cap DOMAIN saved' : saved[p].sl # saved'[p].sl =>
          \E e \in Reported' : /\ e.type = "trade_modified" /\ e.ticket = p
                               /\ e.sl = saved'[p].sl]_vars

\* Nothing is on its way: everything published was read and delivered, and the
\* last poll compared with the positions of this moment.
AtRest == /\ callbacks = <<>> /\ retryQueue = <<>>
          /\ pc = "recover" /\ outbox = <<>> /\ acked = Len(stream)
          /\ saved = book

Tells(type, p) == \E e \in Range(journal) : e.type = type /\ e.ticket = p

OpenInJournal == {p \in Position : Tells("trade_opened", p) /\ ~Tells("trade_closed", p)}

(***************************************************************************)
(* As long as every poll merges a stream and a bundle that reflect the     *)
(* same transactions, and none ends between its acknowledgement and its    *)
(* snapshot: once every deal was published, in the broker's order, and     *)
(* nothing is on its way, the positions the journal has opened and not     *)
(* closed are the broker's - wherever else polls were interrupted and      *)
(* repeated (_merge_event_stream_with_snapshot, poll_once).                *)
(***************************************************************************)
JournalKnowsPositions ==
  (AtRest /\ IsDealHistory(stream) /\ ~misaligned /\ ~torn) =>
    OpenInJournal = DOMAIN book

\* What the broker knows a deal did to its position.
DealType(d) ==
  IF deals[d].entry = "IN"
  THEN IF deals[d].was = 0 THEN "trade_opened" ELSE "trade_volume_changed"
  ELSE IF deals[d].vol < deals[d].was THEN "trade_partial_closed" ELSE "trade_closed"

Reduces(e) == \/ e.type \in {"trade_partial_closed", "trade_closed"}
              \/ e.type = "trade_volume_changed" /\ e.lowers

IsEconomic(e) == e.type = "trade_opened" \/ Reduces(e) \/ e.native # NoDeal

(***************************************************************************)
(* As long as every poll merges a stream and a bundle that reflect the     *)
(* same transactions, and none ends between its acknowledgement and its    *)
(* snapshot, the journal is exact: an event that opens, reduces or closes  *)
(* a position stands for a deal of its own, in the broker's order, and has *)
(* the type the broker's own volumes give, wherever else polls were        *)
(* interrupted and repeated (_merge_event_stream_with_snapshot).  A        *)
(* POSITION notification may still echo an increase: only echoes that      *)
(* reduce are removed.                                                     *)
(***************************************************************************)
ExactWhenAligned ==
  (~misaligned /\ ~torn) =>
    \A i, j \in DOMAIN journal :
       LET e == journal[i]
       IN  IsEconomic(e) =>
             /\ e.native # NoDeal
             /\ e.type = DealType(e.native) /\ e.ticket = deals[e.native].pos
             /\ (IsEconomic(journal[j]) /\ j > i) => journal[j].native > e.native

(***************************************************************************)
(* What the journal may be relied on for, where bundle and stream meet.    *)
(***************************************************************************)
JournalIsExact == TypeOK /\ ExactWhenAligned /\ JournalKnowsPositions

-----------------------------------------------------------------------------
(* A statement of the source that the code does not keep.                   *)

(***************************************************************************)
(* "A POSITION notification for the same transition (or the snapshot diff  *)
(* below) is only a state echo and must not reduce the volume a second     *)
(* time" (_merge_event_stream_with_snapshot): the journal has at most as   *)
(* many reductions of a position as the broker executed.                   *)
(***************************************************************************)
NoSecondReduction ==
  \A p \in Position :
    Cardinality({i \in DOMAIN journal : journal[i].ticket = p /\ Reduces(journal[i])})
      <= Cardinality({d \in DOMAIN deals : deals[d].pos = p /\ deals[d].entry = "OUT"})
=============================================================================
