----------------------------- MODULE EventMerge -----------------------------
(***************************************************************************)
(* How one poll turns what the bridge published into journal events: the   *)
(* snapshot diff of event_detector.detect_events/detect_windows_events, the*)
(* replay of the transaction stream over the previous snapshot in          *)
(* _merge_event_stream_with_snapshot, and the identity of the result in    *)
(* event_normalizer.build_event_id.  All of it is pure.                    *)
(*                                                                         *)
(* A snapshot maps the open positions to their volume and stop; `sl'       *)
(* stands for the stop_loss/take_profit pair and volumes are whole lots.   *)
(* Prices, money and symbols do not influence the control and are left     *)
(* out; pending orders follow the same diff and are not represented.       *)
(***************************************************************************)
EXTENDS Integers, Sequences, SequencesExt, FiniteSets, Functions

CONSTANTS Position   \* position identifiers, a set of natural numbers

NoDeal == 0          \* native_deal_ticket is None
NoStop == "null"     \* stop_loss is None: not even a stop of 0.0

\* The events a poll emits.  `was' is previous_volume, `wasSl' the previous
\* stop, `lowers' the partial_close flag of trade_volume_changed.
JournalEvent(type, p, native, vol, was, lowers, sl, wasSl) ==
  [type |-> type, ticket |-> p, native |-> native, vol |-> vol, was |-> was,
   lowers |-> lowers, sl |-> sl, wasSl |-> wasSl]

Opened(p, native, vol, sl) ==
  JournalEvent("trade_opened", p, native, vol, 0, FALSE, sl, NoStop)
VolumeChanged(p, native, vol, was, lowers) ==
  JournalEvent("trade_volume_changed", p, native, vol, was, lowers, NoStop, NoStop)
PartialClosed(p, native, vol) ==
  JournalEvent("trade_partial_closed", p, native, vol, 0, FALSE, NoStop, NoStop)
Closed(p, native, vol) ==
  JournalEvent("trade_closed", p, native, vol, 0, FALSE, NoStop, NoStop)
Modified(p, sl, wasSl) ==
  JournalEvent("trade_modified", p, NoDeal, 0, 0, FALSE, sl, wasSl)
Recorded(p, seq) ==
  JournalEvent("deal_recorded", p, NoDeal, seq, 0, FALSE, NoStop, NoStop)

\* build_event_id: the deal ticket when there is one, else the state itself.
EventId(e) ==
  <<e.type, e.ticket, e.native,
    IF e.native # NoDeal THEN <<>>
    ELSE CASE e.type = "trade_opened"         -> <<e.vol, e.sl>>
           [] e.type = "trade_modified"       -> <<e.sl, e.wasSl>>
           [] e.type = "trade_volume_changed" -> <<e.vol, e.was, e.lowers>>
           [] OTHER                           -> <<e.vol>>>>

-----------------------------------------------------------------------------
\* The entries of a list at some of its places, and a finite set of numbers in
\* ascending order (SelectSeq and SetToSortSeq, in a form one can reason about).
Sublist(q, places) ==
  LET Upto[i \in 0..Len(q)] ==
        IF i = 0 THEN <<>>
        ELSE IF i \in places THEN Append(Upto[i - 1], q[i]) ELSE Upto[i - 1]
  IN  Upto[Len(q)]

InOrder(S) ==
  [k \in 1..Cardinality(S) |-> CHOOSE n \in S : Cardinality({m \in S : m < n}) = k - 1]

-----------------------------------------------------------------------------
(* detect_events followed by the volume comparison of detect_windows_events.*)

OpenedOrModified(p, prev, cur) ==
  IF p \notin DOMAIN prev THEN Opened(p, NoDeal, cur[p].vol, cur[p].sl)
  ELSE Modified(p, cur[p].sl, prev[p].sl)

Resized(p, prev, cur) ==
  VolumeChanged(p, NoDeal, cur[p].vol, prev[p].vol, cur[p].vol < prev[p].vol)

DetectEvents(prev, cur) ==
  LET shared  == DOMAIN prev \cap DOMAIN cur
      changed == InOrder({p \in DOMAIN cur : p \in DOMAIN prev => cur[p].sl # prev[p].sl})
      gone    == InOrder(DOMAIN prev \ DOMAIN cur)
      resized == InOrder({p \in shared : cur[p].vol # prev[p].vol})
  IN  [i \in DOMAIN changed |-> OpenedOrModified(changed[i], prev, cur)]
      \o [i \in DOMAIN gone |-> Closed(gone[i], NoDeal, prev[gone[i]].vol)]
      \o [i \in DOMAIN resized |-> Resized(resized[i], prev, cur)]

-----------------------------------------------------------------------------
(* One record of the stream.  `tracked' is the volume each position had     *)
(* before it, 0 where the replay knows of none.                             *)

DealEvent(r, tracked, cur) ==
  LET before == tracked[r.pos]
  IN  CASE r.entry = "IN" /\ before > 0 ->
             VolumeChanged(r.pos, r.deal, before + r.vol, before, FALSE)
        [] r.entry = "IN" /\ before = 0 ->
             Opened(r.pos, r.deal, r.vol, NoStop)
        [] r.entry = "OUT" /\ before > 0 ->
             IF before > r.vol THEN PartialClosed(r.pos, r.deal, r.vol)
                               ELSE Closed(r.pos, r.deal, r.vol)
        [] r.entry = "OUT" /\ before = 0 ->
             IF r.pos \in DOMAIN cur THEN PartialClosed(r.pos, r.deal, r.vol)
                                     ELSE Closed(r.pos, r.deal, r.vol)

\* A POSITION notification carries no state of its own: the event is read off
\* the two snapshots.
PositionEvent(r, prev, cur) ==
  IF r.pos \notin DOMAIN cur THEN Recorded(r.pos, r.seq)
  ELSE IF r.pos \in DOMAIN prev /\ prev[r.pos].vol # cur[r.pos].vol
       THEN VolumeChanged(r.pos, NoDeal, cur[r.pos].vol, prev[r.pos].vol,
                          cur[r.pos].vol < prev[r.pos].vol)
       ELSE Modified(r.pos, cur[r.pos].sl,
                     IF r.pos \in DOMAIN prev THEN prev[r.pos].sl ELSE NoStop)

TrackedAfter(r, tracked) ==
  IF r.kind # "DEAL_ADD" THEN tracked
  ELSE [tracked EXCEPT ![r.pos] =
          IF r.entry = "IN" THEN @ + r.vol
          ELSE IF @ > r.vol THEN @ - r.vol ELSE 0]

\* The volume of each position before record k + 1, from the previous snapshot on.
Volumes(records, prev) ==
  LET After[k \in 0..Len(records)] ==
        IF k = 0
        THEN [p \in Position |-> IF p \in DOMAIN prev THEN prev[p].vol ELSE 0]
        ELSE TrackedAfter(records[k], After[k - 1])
  IN  After

Replay(records, prev, cur) ==
  LET tracked == Volumes(records, prev)
  IN  [k \in DOMAIN records |->
         IF records[k].kind = "DEAL_ADD"
         THEN DealEvent(records[k], tracked[k - 1], cur)
         ELSE PositionEvent(records[k], prev, cur)]

MergeKeepingEchoes(records, prev, cur) ==   \* mutant: the diff's echo of a close stays
  LET stream  == Replay(records, prev, cur)
      covered == {<<e.type, e.ticket>> : e \in Range(stream)}
      diff    == DetectEvents(prev, cur)
  IN  stream \o Sublist(diff, {i \in DOMAIN diff : <<diff[i].type, diff[i].ticket>> \notin covered})

\* _merge_event_stream_with_snapshot.
MergeStream(records, prev, cur) ==
  LET replayed == Replay(records, prev, cur)
      economicClose == {e.ticket : e \in {x \in Range(replayed) :
                          x.type \in {"trade_partial_closed", "trade_closed"}}}
      IsEcho(e) == /\ e.type = "trade_volume_changed" /\ e.lowers
                   /\ e.ticket \in economicClose
      stream  == Sublist(replayed, {i \in DOMAIN replayed : ~IsEcho(replayed[i])})
      covered == {<<e.type, e.ticket>> : e \in Range(stream)}
      IsNews(e) == <<e.type, e.ticket>> \notin covered /\ ~IsEcho(e)
      diff    == DetectEvents(prev, cur)
  IN  stream \o Sublist(diff, {i \in DOMAIN diff : IsNews(diff[i])})

PollEvents(records, prev, cur) ==
  IF records = <<>> THEN DetectEvents(prev, cur) ELSE MergeStream(records, prev, cur)
=============================================================================
