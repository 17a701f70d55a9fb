--------------------------- MODULE CausalChannel ---------------------------
(***************************************************************************)
(* What the live event path promises between the MT5 terminal and the      *)
(* journal's ingestion API, with every file, queue and retry removed.      *)
(*                                                                         *)
(* The terminal publishes numbered transactions; the journal applies them. *)
(* A published transaction is never forgotten, and the journal applies one *)
(* only after every earlier published one ("open -> modify -> close").     *)
(* The channel may stop - a rejected transaction blocks it until an        *)
(* operator intervenes - so it promises order and durability, not arrival. *)
(***************************************************************************)
EXTENDS Integers, Sequences, Functions

CONSTANT Event   \* the sequence numbers a transaction may carry

VARIABLES source,   \* sequence numbers of the transactions published so far
          journal   \* the same numbers in the order the journal applied them

channelVars == <<source, journal>>

ChannelInit == source = {} /\ journal = <<>>

\* The terminal numbers its transactions in increasing order.
Publish(e) ==
  /\ \A s \in source : s < e
  /\ source' = source \cup {e}
  /\ UNCHANGED journal

\* The journal applies the earliest published transaction it does not have.
Deliver(e) ==
  /\ e \in source \ Range(journal)
  /\ \A s \in source : s < e => s \in Range(journal)
  /\ journal' = Append(journal, e)
  /\ UNCHANGED source

ChannelNext == \/ \E e \in Event : Publish(e)
               \/ \E e \in source : Deliver(e)

ChannelSpec == ChannelInit /\ [][ChannelNext]_channelVars
=============================================================================
