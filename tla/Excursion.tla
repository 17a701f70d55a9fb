------------------------------ MODULE Excursion ------------------------------
(***************************************************************************)
(* How far a position went for and against its owner: the record           *)
(* excursion_tracker.py keeps of it from the two-second bundles, and the   *)
(* close event that carries it away.                                       *)
(*                                                                         *)
(* Every poll builds the tracker anew from position-excursions.json,       *)
(* observes the events and the bundle it read, enriches the close, makes   *)
(* it durable in the outbox, acknowledges the stream, saves the snapshot   *)
(* and only then discards the record.  Bundle and stream are published     *)
(* apart and may be of two instants.  Records of different positions never *)
(* touch, so there is one position; a price is the distance from its       *)
(* opening price.  What drain delivers is LiveDelivery's.                  *)
(***************************************************************************)
EXTENDS Integers, Sequences, FiniteSetsExt

CONSTANTS Distance,      \* prices are in -Distance..Distance
          MaxMoves,      \* bound: changes of the price
          MaxPolls,      \* bound: polls begun
          MaxInterrupts  \* bound: crashes and abandoned polls

ExcursionAssumption ==
  /\ Distance \in Nat \ {0} /\ MaxMoves \in Nat /\ MaxPolls \in Nat /\ MaxInterrupts \in Nat

Price == -Distance..Distance

VARIABLES
  side,       \* "buy" or "sell"
  life,       \* "unborn", "open" or "closed"
  path,       \* the prices the position lived through
  price,      \* the last of them
  stream,     \* deal records published: <<>>, <<"IN">> or <<"IN", "OUT">>
  bundle,     \* the positions file: {} or {price}
  acked,      \* records acknowledged
  saved,      \* the snapshot store shows the position
  store,      \* position-excursions.json: {} or {record}
  journal,    \* close events ever made durable, in order
  pc,
  current, records,  \* the bundle and the records this poll read
  memory,     \* PositionExcursionTracker.positions of this poll
  enriched,   \* closed_excursions of this poll
  sampled,    \* history: what completed observations saw of the position
  moves, polls, interrupts

marketVars == <<side, life, path, price, moves>>
bridgeVars == <<stream, bundle>>
pollVars   == <<current, records, memory, enriched>>
vars == <<marketVars, bridgeVars, acked, saved, store, journal, pc, pollVars,
          sampled, polls, interrupts>>

NoExtrema == [mfe |-> 0, mae |-> 0, samples |-> 0]

Init ==
  /\ side \in {"buy", "sell"}
  /\ life = "unborn" /\ path = {} /\ price = 0 /\ moves = 0
  /\ stream = <<>> /\ bundle = {}
  /\ acked = 0 /\ saved = FALSE /\ store = {} /\ journal = <<>>
  /\ pc = "read" /\ current = {} /\ records = <<>> /\ memory = {} /\ enriched = FALSE
  /\ sampled = {} /\ polls = 0 /\ interrupts = 0
-----------------------------------------------------------------------------
(* The market, the broker and the bridge.                                   *)

Open ==
  /\ life = "unborn"
  /\ life' = "open" /\ path' = {0}
  /\ stream' = <<"IN">>
  /\ UNCHANGED <<side, price, moves, bundle, acked, saved, store, journal, pc, pollVars,
                 sampled, polls, interrupts>>

Move(x) ==
  /\ life = "open" /\ x # price /\ moves < MaxMoves
  /\ price' = x /\ path' = path \cup {x} /\ moves' = moves + 1
  /\ UNCHANGED <<side, life, bridgeVars, acked, saved, store, journal, pc, pollVars,
                 sampled, polls, interrupts>>

Close ==
  /\ life = "open"
  /\ life' = "closed"
  /\ stream' = Append(stream, "OUT")
  /\ UNCHANGED <<side, path, price, moves, bundle, acked, saved, store, journal, pc,
                 pollVars, sampled, polls, interrupts>>

\* The EA's timer.
Publish ==
  /\ bundle' = IF life = "open" THEN {price} ELSE {}
  /\ UNCHANGED <<marketVars, stream, acked, saved, store, journal, pc, pollVars,
                 sampled, polls, interrupts>>
-----------------------------------------------------------------------------
(* PositionExcursionTracker                                                 *)

Favorable(x) == IF side = "sell" THEN -x ELSE x

\* _observe_value
Observed(r, x) ==
  [mfe |-> Max({r.mfe, Favorable(x)}), mae |-> Max({r.mae, -Favorable(x)}),
   samples |-> r.samples + 1]

Has(entry) == entry \in {records[i] : i \in DOMAIN records}

SawOpening == Has("IN") \/ (current # {} /\ ~saved)

\* Without a volume to replay against, a deal of a position the bundle still
\* shows is taken for a partial close.
NativeClose == Has("OUT") /\ (saved \/ Has("IN") \/ current = {})

\* A close comes from its deal, or from the comparison of two snapshots,
\* which knows no closing price.
SawClose == NativeClose \/ (saved /\ current = {})
-----------------------------------------------------------------------------
(* LiveSync.poll_once                                                       *)

Read ==
  /\ pc = "read" /\ polls < MaxPolls
  /\ polls' = polls + 1
  /\ current' = bundle
  /\ records' = SubSeq(stream, acked + 1, Len(stream))
  /\ memory' = store
  /\ enriched' = FALSE
  /\ pc' = "opened"
  /\ UNCHANGED <<marketVars, bridgeVars, acked, saved, store, journal, sampled,
                 interrupts>>

\* observe_open_events
ObserveOpened ==
  /\ pc = "opened"
  /\ memory' = IF SawOpening /\ memory = {} THEN {NoExtrema} ELSE memory
  /\ store' = memory'
  /\ pc' = "snapshot"
  /\ UNCHANGED <<marketVars, bridgeVars, acked, saved, journal, current, records,
                 enriched, sampled, polls, interrupts>>

ObserveUnsaved ==   \* Mutant: the sample stays in the poll's memory
  /\ pc = "snapshot"
  /\ memory' = {Observed(r, x) : r \in IF memory = {} THEN {NoExtrema} ELSE memory,
                                 x \in current}
                 \cup {r \in memory : current = {}}
  /\ sampled' = sampled \cup current
  /\ pc' = "enqueue"
  /\ UNCHANGED <<marketVars, bridgeVars, acked, saved, store, journal, current, records,
                 enriched, polls, interrupts>>

\* observe_snapshot: one more sample, persisted before anything else happens.
ObserveSnapshot ==
  /\ pc = "snapshot"
  /\ memory' = {Observed(r, x) : r \in IF memory = {} THEN {NoExtrema} ELSE memory,
                                 x \in current}
                 \cup {r \in memory : current = {}}
  /\ store' = memory'
  /\ sampled' = sampled \cup current
  /\ pc' = "enqueue"
  /\ UNCHANGED <<marketVars, bridgeVars, acked, saved, journal, current, records,
                 enriched, polls, interrupts>>

\* What the broker's prices of all completed observations amount to.
Truth(xs) == [mfe |-> Max({0} \cup {Favorable(x) : x \in xs}),
              mae |-> Max({0} \cup {-Favorable(x) : x \in xs})]

\* The close as enrich_close_events leaves it; a native close has one
\* event_id, another is identified by what it carries.
CloseEvent(extrema) ==
  [native |-> NativeClose, extrema |-> extrema,
   truth  |-> Truth(sampled \cup (IF NativeClose THEN {price} ELSE {}))]

IsNew(e) == \A i \in DOMAIN journal :
              IF e.native THEN ~journal[i].native
              ELSE journal[i].native \/ journal[i].extrema # e.extrema

\* enrich_close_events, then enqueue_many.
Enqueue ==
  /\ pc = "enqueue"
  /\ memory' = IF NativeClose THEN {Observed(r, price) : r \in memory} ELSE memory
  /\ enriched' = (SawClose /\ memory # {})
  /\ journal' = IF SawClose /\ IsNew(CloseEvent(memory'))
                THEN Append(journal, CloseEvent(memory')) ELSE journal
  /\ pc' = "acknowledge"
  /\ UNCHANGED <<marketVars, bridgeVars, acked, saved, store, current, records, sampled,
                 polls, interrupts>>

Acknowledge ==
  /\ pc = "acknowledge"
  /\ acked' = acked + Len(records)
  /\ pc' = "save"
  /\ UNCHANGED <<marketVars, bridgeVars, saved, store, journal, pollVars, sampled, polls, interrupts>>

SaveSnapshot ==
  /\ pc = "save"
  /\ saved' = (current # {})
  /\ pc' = "discard"
  /\ UNCHANGED <<marketVars, bridgeVars, acked, store, journal, pollVars, sampled, polls, interrupts>>

DiscardUnshown ==   \* Mutant: a position the bundle does not show is discarded
  /\ pc = "discard"
  /\ store' = IF current = {} THEN {} ELSE store
  /\ memory' = {}
  /\ pc' = "read"
  /\ current' = {} /\ records' = <<>> /\ enriched' = FALSE
  /\ UNCHANGED <<marketVars, bridgeVars, acked, saved, journal, sampled, polls, interrupts>>

\* discard persists only when it removed a record.
Discard ==
  /\ pc = "discard"
  /\ store' = IF enriched THEN {} ELSE store
  /\ memory' = {}
  /\ pc' = "read"
  /\ current' = {} /\ records' = <<>> /\ enriched' = FALSE
  /\ UNCHANGED <<marketVars, bridgeVars, acked, saved, journal, sampled, polls, interrupts>>

\* A crash, or an exception of one of the writes.
Interrupt ==
  /\ pc # "read" /\ interrupts < MaxInterrupts
  /\ interrupts' = interrupts + 1
  /\ pc' = "read"
  /\ current' = {} /\ records' = <<>> /\ memory' = {} /\ enriched' = FALSE
  /\ UNCHANGED <<marketVars, bridgeVars, acked, saved, store, journal, sampled, polls>>
-----------------------------------------------------------------------------
Market == Open \/ Close \/ \E x \in Price : Move(x)

Poll == Read \/ ObserveOpened \/ ObserveSnapshot \/ Enqueue \/ Acknowledge
          \/ SaveSnapshot \/ Discard

Next == Market \/ Publish \/ Poll \/ Interrupt

Spec == Init /\ [][Next]_vars
-----------------------------------------------------------------------------
Extrema == [mfe : 0..Distance, mae : 0..Distance, samples : Nat]

\* What a close carries, and what it should carry.
CloseEvents == [native : BOOLEAN, extrema : SUBSET Extrema,
                truth : {Truth(xs) : xs \in SUBSET Price}]

AtMostOne(S, T) == S \subseteq T /\ \A x, y \in S : x = y

\* Every variable holds what its file or its program variable can hold.
TypeOK ==
  /\ side \in {"buy", "sell"} /\ life \in {"unborn", "open", "closed"}
  /\ path \subseteq Price /\ price \in Price /\ moves \in 0..MaxMoves
  /\ stream \in {<<>>, <<"IN">>, <<"IN", "OUT">>}
  /\ AtMostOne(bundle, Price) /\ AtMostOne(current, Price)
  /\ acked \in 0..Len(stream) /\ saved \in BOOLEAN
  /\ AtMostOne(store, Extrema) /\ AtMostOne(memory, Extrema)
  /\ journal \in Seq(CloseEvents)
  /\ pc \in {"read", "opened", "snapshot", "enqueue", "acknowledge", "save", "discard"}
  /\ records \in {<<>>, <<"IN">>, <<"OUT">>, <<"IN", "OUT">>}
  /\ enriched \in BOOLEAN /\ sampled \subseteq Price
  /\ polls \in 0..MaxPolls /\ interrupts \in 0..MaxInterrupts

(***************************************************************************)
(* "The persisted state also lets an open position survive an Agent        *)
(* restart without resetting its extrema" (excursion_tracker.py): the      *)
(* close that is first made durable carries exactly the extremes of every  *)
(* sample any poll completed, and of its own price, wherever polls ended.  *)
(***************************************************************************)
CloseCarriesExtrema ==
  \A i \in DOMAIN journal : i = 1 =>
    \E r \in journal[i].extrema :
      r.mfe = journal[i].truth.mfe /\ r.mae = journal[i].truth.mae

(***************************************************************************)
(* No close ever tells of a price the position did not live through, for   *)
(* either direction, even if it is the second one of the same position.    *)
(***************************************************************************)
ExtremaAreReal ==
  \A i \in DOMAIN journal : \A r \in journal[i].extrema :
    /\ r.mfe \in {0} \cup {IF side = "buy" THEN x ELSE -x : x \in path}
    /\ r.mae \in {0} \cup {IF side = "buy" THEN -x ELSE x : x \in path}

(***************************************************************************)
(* "Removing the local accumulator cannot lose the event" (poll_once): the *)
(* record of a position leaves the file only when a close that carries     *)
(* extrema is durable; CloseCarriesExtrema says which ones it carries.     *)
(***************************************************************************)
RemovedOnlyWhenReported ==
  [][(store # {} /\ store' = {}) =>
       \E i \in DOMAIN journal : journal[i].extrema # {}]_vars
-----------------------------------------------------------------------------
(* The inductive invariant.                                                 *)

\* The stream tells the life of the position; a bundle shows a price it had.
MarketInv ==
  /\ life = "unborn" => stream = <<>> /\ price = 0 /\ path = {}
  /\ life = "open" => stream = <<"IN">>
  /\ life = "closed" => stream = <<"IN", "OUT">>
  /\ life # "unborn" => price \in path
  /\ bundle \cup current \subseteq path

\* A poll reads what is not acknowledged, in order, and writes what it remembers.
PollInv ==
  /\ pc \in {"opened", "snapshot", "enqueue", "acknowledge"} =>
       /\ acked + Len(records) <= Len(stream)
       /\ Has("IN") <=> acked = 0 /\ records # <<>>
  /\ pc \in {"opened", "snapshot", "enqueue"} => memory = store

\* The record has the extremes of these samples, and of the opening price.
IsExtremeOf(r, xs) ==
  /\ r.mfe \in {0} \cup {Favorable(x) : x \in xs}
  /\ r.mae \in {0} \cup {-Favorable(x) : x \in xs}
  /\ \A x \in xs : Favorable(x) <= r.mfe /\ -Favorable(x) <= r.mae

\* Until a close is durable there is a record on disk as soon as anything else has
\* moved on - the checkpoint, the snapshot, a sample - and it holds every sample.
RecordInv ==
  /\ enriched => journal # <<>>
  /\ journal = <<>> =>
       /\ saved \/ acked > 0 \/ sampled # {} => store # {}
       /\ pc \in {"snapshot", "enqueue", "acknowledge"} /\ SawOpening => store # {}
       /\ pc \in {"enqueue", "acknowledge", "save"} /\ current # {} => store # {}
       /\ \A r \in store : IsExtremeOf(r, sampled)

\* No record tells of a price the position did not live through.
RealInv ==
  \A r \in store \cup memory :
    /\ r.mfe \in {0} \cup {Favorable(x) : x \in path}
    /\ r.mae \in {0} \cup {-Favorable(x) : x \in path}

IInv == /\ TypeOK /\ MarketInv /\ PollInv /\ RecordInv /\ RealInv
        /\ CloseCarriesExtrema /\ ExtremaAreReal
=============================================================================
