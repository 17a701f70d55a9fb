--------------------------- MODULE HistoryBalance ---------------------------
(***************************************************************************)
(* What the history import says of an account, and what is true of it.     *)
(*                                                                         *)
(* The broker's account lives through deals; the EA exports the ledger of  *)
(* all of them with the current balance as its anchor (BridgeBundle is the *)
(* place for how that pair is taken at one instant).  history_balance.py   *)
(* walks it backwards to the balance before each opening, forwards to the  *)
(* volume of each position, and gathers what each position cost.  The      *)
(* broker's side keeps, next to the ledger, the answers the reconstruction *)
(* has to find.  Prices, profits and volumes are small whole numbers; the  *)
(* four economic fields of a row are one amount and the part that is cost. *)
(***************************************************************************)
EXTENDS Integers, Sequences, FiniteSetsExt, Functions

CONSTANTS Position,     \* position identifiers
          None,         \* identifier "0": no position, no order
          CloseBy,      \* the one order that closes positions by each other
          MaxVolume,    \* bound: volume one deal enters with
          MaxDeals,     \* bound: rows the ledger may hold
          MaxArchived   \* bound: oldest rows the broker takes out of it

BalanceAssumption ==
  /\ None \notin Position /\ CloseBy \notin Position \cup {None}
  /\ MaxVolume \in Nat /\ MaxDeals \in Nat /\ MaxArchived \in Nat

VARIABLES
  ledger,     \* the deals the terminal knows of, in history order
  balance,    \* ACCOUNT_BALANCE
  held,       \* volume of each position
  before,     \* {} or the balance each position was first opened on
  charged,    \* what each position cost so far
  irregular,  \* positions that were reversed, or opened again after a close
  cut,        \* positions of which the broker has archived a deal
  archived

vars == <<ledger, balance, held, before, charged, irregular, cut, archived>>

\* The row of a deal: its position and order, the volume it moved, what it did
\* to the balance, the part of that which is cost, and the volume it left,
\* which is not exported.
DealRow(p, o, entry, v, amount, cost, after) ==
  [kind |-> "trade", pos |-> p, order |-> o, entry |-> entry, vol |-> v,
   amount |-> amount, cost |-> cost, after |-> after]

\* A row that moves no volume.
CashRow(kind, pos, order, amount) ==
  [kind |-> kind, pos |-> pos, order |-> order, entry |-> "IN", vol |-> 0,
   amount |-> amount, cost |-> 0, after |-> 0]

IsTrade(r) == r.kind = "trade"

Indices(rows, p)  == {i \in DOMAIN rows : IsTrade(rows[i]) /\ rows[i].pos = p}
Openings(rows, p) == {i \in Indices(rows, p) : rows[i].entry = "IN"}
Exits(rows, p)    == {i \in Indices(rows, p) : rows[i].entry = "OUT"}
-----------------------------------------------------------------------------
(* The broker.                                                              *)

Init ==
  /\ ledger = <<>> /\ balance = 0
  /\ held = [p \in Position |-> 0]
  /\ before = [p \in Position |-> {}]
  /\ charged = [p \in Position |-> 0]
  /\ irregular = {} /\ cut = {} /\ archived = 0

Post(row) ==
  /\ Len(ledger) < MaxDeals
  /\ ledger' = Append(ledger, row)
  /\ balance' = balance + (IF row.kind = "credit" THEN 0 ELSE row.amount)
  /\ UNCHANGED <<cut, archived>>

\* A first execution, a scale-in, or the identifier's return after a close.
Enter(p, v) ==
  /\ Post(DealRow(p, p, "IN", v, -1, -1, held[p] + v))
  /\ held' = [held EXCEPT ![p] = @ + v]
  /\ before' = IF before[p] = {} THEN [before EXCEPT ![p] = {balance}] ELSE before
  /\ charged' = [charged EXCEPT ![p] = @ - 1]
  /\ irregular' = IF before[p] # {} /\ held[p] = 0 THEN irregular \cup {p} ELSE irregular

Leave(p, v, o) ==
  /\ v \in 1..held[p]
  /\ Post(DealRow(p, o, "OUT", v, v, 0, held[p] - v))
  /\ held' = [held EXCEPT ![p] = @ - v]
  /\ UNCHANGED <<before, charged, irregular>>

\* A netting account: the deal closes the position and opens the other side.
Reversal(p) ==
  /\ held[p] > 0
  /\ Post(DealRow(p, p, "INOUT", held[p] + 1, 1, 0, 1))
  /\ held' = [held EXCEPT ![p] = 1]
  /\ irregular' = irregular \cup {p}
  /\ UNCHANGED <<before, charged>>

\* Deposits, withdrawals, dividends; credit; a row of a type of the future.
Adjust(kind, a) ==
  /\ Post(CashRow(kind, None, None, a))
  /\ UNCHANGED <<held, before, charged, irregular>>

\* A commission posted as a row of its own for what p did, naming the
\* position, one of its orders, or nothing.
Charge(p, pos, order) ==
  /\ before[p] # {}
  /\ \/ pos = p /\ order = None
     \/ pos = None /\ \E i \in Indices(ledger, p) : ledger[i].order = order
     \/ pos = None /\ order = None
  /\ Post(CashRow("commission", pos, order, -1))
  /\ charged' = [charged EXCEPT ![p] = @ - 1]
  /\ UNCHANGED <<held, before, irregular>>

\* The latest deal of p is canceled: its row changes its type and loses its
\* economics, and a balance row compensates them. A close-by is one operation on
\* two positions: the cancellation of one leg of it alone is left out. (With it a
\* separate commission that names the close-by's order is given to the other
\* position, as order_positions, history_balance.py:143, drops a canceled deal.)
Cancel(p) ==
  LET own  == Indices(ledger, p)
      last == Max(own)
      rest == own \ {last}
      r    == ledger[last]
  IN  /\ own # {} /\ Len(ledger) < MaxDeals
      /\ r.order = p
      /\ p \in cut => rest # {}
      /\ ledger' = Append([ledger EXCEPT ![last] = [r EXCEPT !.kind = "canceled",
                                                             !.amount = 0, !.cost = 0]],
                          CashRow("cash", None, None, -r.amount))
      /\ balance' = balance - r.amount
      /\ held' = [held EXCEPT ![p] = IF rest = {} THEN 0 ELSE ledger[Max(rest)].after]
      /\ before' = IF rest = {} THEN [before EXCEPT ![p] = {}] ELSE before
      /\ charged' = [charged EXCEPT ![p] = @ - r.cost]
      /\ UNCHANGED <<irregular, cut, archived>>

\* The broker archives its oldest deal: the export starts later.
Archive ==
  /\ ledger # <<>> /\ archived < MaxArchived
  /\ ledger' = Tail(ledger)
  /\ archived' = archived + 1
  /\ cut' = IF Head(ledger).pos \in Position THEN cut \cup {Head(ledger).pos} ELSE cut
  /\ UNCHANGED <<balance, held, before, charged, irregular>>

Next ==
  \/ \E p \in Position :
       \/ \E v \in 1..MaxVolume : Enter(p, v)
       \/ \E v \in 1..(MaxDeals * MaxVolume), o \in {p, CloseBy} : Leave(p, v, o)
       \/ Reversal(p) \/ Cancel(p)
       \/ \E pos \in {p, None}, o \in {p, CloseBy, None} : Charge(p, pos, o)
  \/ Adjust("cash", 3) \/ Adjust("credit", 2) \/ Adjust("unknown", 1)
  \/ Archive

Spec == Init /\ [][Next]_vars
-----------------------------------------------------------------------------
(* reconstruct_trade_deals, over exported rows and an anchor.               *)

\* _effect: what a row did to the balance.
Effect(r) == IF r.kind = "credit" THEN 0 ELSE r.amount

ExplainedWhenCanceled(r) ==   \* Mutant: BUY_CANCELED among the known types
  r.kind # "unknown"

\* The columns of an export that its sums are taken over.
Effects(rows) == [j \in DOMAIN rows |-> Effect(rows[j])]
Volumes(rows) == [j \in DOMAIN rows |-> rows[j].vol]
Costings(rows) == [j \in DOMAIN rows |-> rows[j].cost]
Amounts(rows) == [j \in DOMAIN rows |-> rows[j].amount]

\* A canceled deal no longer shows its effect, nor does a type nobody knows.
Explained(r) == r.kind \notin {"canceled", "unknown"}

\* The walk back from the anchor, as long as every row on it is explained.
BalanceBefore(rows, anchor, i) ==
  IF anchor.coherent /\ \A j \in i..Len(rows) : Explained(rows[j])
  THEN {anchor.balance - SumFunctionOnSet(Effects(rows), i..Len(rows))}
  ELSE {}

\* The positions a separate commission may belong to.
Targets(rows, r) ==
  IF Indices(rows, r.pos) # {} THEN {r.pos}
  ELSE {rows[i].pos : i \in {j \in DOMAIN rows : IsTrade(rows[j]) /\ rows[j].order = r.order}}

Commissions(rows) == {i \in DOMAIN rows : rows[i].kind = "commission"}

\* total_commission: one commission that cannot be attributed makes the
\* costs of every position incomplete.
Costs(rows, p) ==
  IF \A i \in Commissions(rows) : \E q \in Position : Targets(rows, rows[i]) = {q}
  THEN {SumFunctionOnSet(Costings(rows), Indices(rows, p))
          + SumFunctionOnSet(Amounts(rows),
                             {i \in Commissions(rows) : Targets(rows, rows[i]) = {p}})}
  ELSE {}

\* The position's volume when the walk reaches row i.
VolumeAt(rows, p, i) ==
  SumFunctionOnSet(Volumes(rows), {j \in Openings(rows, p) : j < i})
    - SumFunctionOnSet(Volumes(rows), {j \in Exits(rows, p) : j < i})

Closes(rows, i) == /\ rows[i].entry = "OUT"
                   /\ rows[i].vol = VolumeAt(rows, rows[i].pos, i)

\* unsafe_position: nothing of the position is imported as a trade.
Unsafe(rows, p) ==
  \/ Openings(rows, p) = {}
  \/ \E i \in Indices(rows, p) : rows[i].entry = "INOUT"
  \/ \E i \in Exits(rows, p) : rows[i].vol > VolumeAt(rows, p, i)
  \/ \E i \in Openings(rows, p), j \in Exits(rows, p) : j < i /\ Closes(rows, j)

FirstOpening(rows, p) == Min(Openings(rows, p))

\* The event one exported row becomes, and what it publishes.
EventType(rows, i) ==
  IF rows[i].entry = "IN"
  THEN IF i = FirstOpening(rows, rows[i].pos) THEN "trade_opened" ELSE "trade_volume_changed"
  ELSE IF Closes(rows, i) THEN "trade_closed" ELSE "trade_partial_closed"

Published(rows, i) ==
  [pos    |-> rows[i].pos,
   type   |-> EventType(rows, i),
   volume |-> IF rows[i].entry = "IN" THEN {VolumeAt(rows, rows[i].pos, i) + rows[i].vol}
              ELSE {},
   costs  |-> IF EventType(rows, i) = "trade_closed" THEN Costs(rows, rows[i].pos) ELSE {}]

\* history_deals of the adapter, for the window all_available.
HistoryDeals(rows) ==
  {i \in DOMAIN rows :
     /\ IsTrade(rows[i])
     /\ ~Unsafe(rows, rows[i].pos)
     /\ \E j \in Indices(rows, rows[i].pos) : EventType(rows, j) = "trade_opened"}

\* build_balance_backfill_report: one entry per position with an opening.
Report(rows, anchor) ==
  [p \in {q \in Position : Openings(rows, q) # {}} |->
     IF Unsafe(rows, p) THEN {}
     ELSE {b \in BalanceBefore(rows, anchor, FirstOpening(rows, p)) : b > 0}]

Anchor(coherent) == [balance |-> balance, coherent |-> coherent]
-----------------------------------------------------------------------------
Kind == {"trade", "cash", "credit", "unknown", "commission", "canceled"}

Row == [kind : Kind, pos : Position \cup {None}, order : Position \cup {None, CloseBy},
        entry : {"IN", "OUT", "INOUT"}, vol : Nat, amount : Int, cost : Int, after : Nat]

\* Every variable holds what the account and its history can hold.
TypeOK ==
  /\ ledger \in Seq(Row) /\ balance \in Int /\ held \in [Position -> Nat]
  /\ before \in [Position -> SUBSET Int]
  /\ \A p \in Position : \A a, b \in before[p] : a = b
  /\ charged \in [Position -> Int]
  /\ irregular \in SUBSET Position /\ cut \in SUBSET Position /\ archived \in 0..MaxArchived

(***************************************************************************)
(* "No estimate is made" (reconstruct_trade_deals): a balance before an    *)
(* opening is the one the account had, whatever deposits, credits,         *)
(* charges, cancellations and other positions came since - or none is      *)
(* published, and none ever is on an incoherent anchor.  It fails for a    *)
(* position whose opening the broker has archived: a scale-in is taken for *)
(* it (history_balance.py:195).                                            *)
(***************************************************************************)
BalanceIsExact ==
  LET report == Report(ledger, Anchor(TRUE))
      doubtful == Report(ledger, Anchor(FALSE))
  IN  /\ \A p \in DOMAIN report \ cut : report[p] \subseteq before[p]
      /\ \A p \in DOMAIN doubtful : doubtful[p] = {}

(***************************************************************************)
(* A close that carries total_commission carries all the position cost:    *)
(* its deals and every separate commission charged for it, by whatever     *)
(* link, and nothing of another position, as long as nothing is archived.  *)
(***************************************************************************)
CostsAreExact ==
  archived = 0 => \A i \in HistoryDeals(ledger) :
    Published(ledger, i).costs \subseteq {charged[ledger[i].pos]}

(***************************************************************************)
(* A position is imported whole or not at all: it opens once and first, is *)
(* closed by its last deal and exactly when the broker holds nothing of it *)
(* any more, and every opening shows the volume the broker had then.       *)
(***************************************************************************)
LifecycleIsWhole ==
  LET deals == HistoryDeals(ledger)
  IN \A i \in {j \in deals : ledger[j].pos \notin cut} :
    LET p == ledger[i].pos
        e == Published(ledger, i)
    IN  /\ Indices(ledger, p) \subseteq deals
        /\ e.type = "trade_opened" <=> i = Min(Indices(ledger, p))
        /\ e.type = "trade_closed" <=> (i = Max(Indices(ledger, p)) /\ held[p] = 0)
        /\ e.volume \subseteq {ledger[i].after}

(***************************************************************************)
(* Failing closed is no excuse for losing data: a position that was never  *)
(* reversed or opened again is imported, and its balance is published when *)
(* nothing since its opening is unexplained and the balance was positive.  *)
(***************************************************************************)
ProvableIsPublished ==
  LET deals == HistoryDeals(ledger)
      report == Report(ledger, Anchor(TRUE))
  IN \A p \in Position \ (irregular \cup cut) :
    Indices(ledger, p) # {} =>
      /\ Indices(ledger, p) \subseteq deals
      /\ (/\ \A j \in Min(Indices(ledger, p))..Len(ledger) : Explained(ledger[j])
          /\ \A b \in before[p] : b > 0)
           => report[p] = before[p]
-----------------------------------------------------------------------------
(* The inductive invariant of the account and its ledger. *)

\* The volume the rows of p before the i-th left of it.
Earlier(rows, p, i) == {j \in Indices(rows, p) : j < i}

LeftBy(rows, own) == IF own = {} THEN 0 ELSE rows[Max(own)].after

Was(rows, p, i) == LeftBy(rows, Earlier(rows, p, i))

\* A trade has a position, one of its orders and a volume.
TradeRow(r) ==
  IsTrade(r) => r.pos \in Position /\ r.order \in {r.pos, CloseBy} /\ r.vol >= 1

\* A deal leaves its position with what it found there and did to it.
Follows(r, w) ==
  \/ r.entry = "IN" /\ r.after = w + r.vol
  \/ r.entry = "OUT" /\ r.vol <= w /\ r.after = w - r.vol
  \/ r.entry = "INOUT" /\ w > 0 /\ r.after = 1

TypeInv == TypeOK /\ \A i \in DOMAIN ledger : TradeRow(ledger[i])

\* Every row of p starts from what the one before it left, the last left what is
\* held, and one that is not odd was neither reversed nor opened again.
ChainOf(p, rows, h, b, odd) ==
  /\ Indices(rows, p) = {} <=> b = {}
  /\ h = Was(rows, p, Len(rows) + 1)
  /\ \A i \in Indices(rows, p) : Follows(rows[i], Was(rows, p, i))
  /\ ~odd => \A i \in Indices(rows, p) :
       /\ rows[i].entry # "INOUT"
       /\ rows[i].entry = "IN" /\ Earlier(rows, p, i) # {} => Was(rows, p, i) > 0

ChainInv ==
  \A p \in Position \ cut : ChainOf(p, ledger, held[p], before[p], p \in irregular)

\* Where all since the first row of p is explained, the walk back finds b.
First(rows, p, m) == m \in Indices(rows, p) /\ \A j \in Indices(rows, p) : m <= j

KnownFrom(rows, m) == \A j \in m..Len(rows) : Explained(rows[j])

BalanceOf(p, rows, bal, b) ==
  \A m \in DOMAIN rows : (First(rows, p, m) /\ KnownFrom(rows, m)) =>
    b = {bal - SumFunctionOnSet(Effects(rows), m..Len(rows))}

BalanceInv == \A p \in Position \ cut : BalanceOf(p, ledger, balance, before[p])

\* The position, one of its orders, or nothing: what a charge names of q.
Linked(rows, r, q) ==
  \/ r.pos = q /\ r.order = None
  \/ r.pos = None /\ r.order \in {None, q}
  \/ /\ r.pos = None /\ r.order = CloseBy
     /\ \E k \in Indices(rows, q) : rows[k].order = CloseBy

OwnedBy(owner, q) == {i \in DOMAIN owner : owner[i] = q}

\* Every separate commission has an owner its row leads to, who was charged it.
CostsOf(rows, ch) ==
  \E owner \in [Commissions(rows) -> Position] :
    /\ \A i \in Commissions(rows) : Linked(rows, rows[i], owner[i])
    /\ \A p \in Position :
         ch[p] = SumFunctionOnSet(Costings(rows), Indices(rows, p))
                   + SumFunctionOnSet(Amounts(rows), OwnedBy(owner, p))

CostsInv == archived = 0 => CostsOf(ledger, charged)

IInv == TypeInv /\ ChainInv /\ BalanceInv /\ CostsInv
=============================================================================
