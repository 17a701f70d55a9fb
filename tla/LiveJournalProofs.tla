-------------------------- MODULE LiveJournalProofs --------------------------
(***************************************************************************)
(* Theorems about LiveJournal, for every set of positions and stops and    *)
(* every bound: what was acknowledged and what the saved snapshot changes  *)
(* has been reported, and where bundle and stream meet the journal is      *)
(* exact.  First what the lists of EventMerge consist of.                  *)
(***************************************************************************)
EXTENDS LiveJournal, SequenceTheorems, FiniteSetTheorems, WellFoundedInduction, TLAPS

-----------------------------------------------------------------------------
(* Numbers, and functions that go through them.                             *)

\* A set of natural numbers has a smallest one.
LEMMA SmallestNumber ==
  ASSUME NEW S \in SUBSET Nat, S # {}
  PROVE  \E x \in S : \A y \in S : x <= y
<1>1. PICK x \in S : \A y \in S : <<y, x>> \notin OpToRel(<, Nat)
  BY WFMin, NatLessThanWellFounded
<1>2. ASSUME NEW y \in S PROVE x <= y
  <2>1. ~ (y < x)
    BY <1>1, Zenon DEF OpToRel
  <2>. QED  BY <2>1
<1>. QED  BY <1>2

\* What holds at 0 and is handed on from i - 1 to i holds up to N.
LEMMA Upwards ==
  ASSUME NEW N \in Nat, NEW S, 0 \in S, \A i \in 1..N : i - 1 \in S => i \in S
  PROVE  \A i \in 0..N : i \in S
<1>. DEFINE Bad == {i \in 0..N : i \notin S}
<1>1. SUFFICES ASSUME Bad # {} PROVE FALSE
  BY DEF Bad
<1>2. Bad \in SUBSET Nat
  OBVIOUS
<1>. HIDE DEF Bad
<1>3. PICK n \in Bad : \A m \in Bad : n <= m
  BY <1>1, <1>2, SmallestNumber
<1>4. n \in 1..N /\ n - 1 \in 0..N /\ n \notin S
  BY <1>3 DEF Bad
<1>5. n - 1 \notin Bad
  BY <1>2, <1>3, <1>4
<1>. QED  BY <1>4, <1>5 DEF Bad

\* A function that begins with a value and takes a step at each number.
StepByStep(N, V, v0, step) ==
  \E f \in [0..N -> V] : f[0] = v0 /\ \A i \in 1..N : f[i] = step[<<i, f[i - 1]>>]

LEMMA Recursion ==
  ASSUME NEW N \in Nat, NEW V, NEW v0 \in V, NEW step \in [(1..N) \X V -> V]
  PROVE  StepByStep(N, V, v0, step)
<1>. DEFINE Upto(n) == \E f \in [0..n -> V] :
                         f[0] = v0 /\ \A i \in 1..n : f[i] = step[<<i, f[i - 1]>>]
            Good == {n \in 0..N : Upto(n)}
<1>1. 0 \in Good
  <2>1. /\ [i \in 0..0 |-> v0] \in [0..0 -> V]
        /\ [i \in 0..0 |-> v0][0] = v0
        /\ \A i \in 1..0 : [k \in 0..0 |-> v0][i] = step[<<i, [k \in 0..0 |-> v0][i - 1]>>]
    OBVIOUS
  <2>2. Upto(0)
    BY <2>1
  <2>. QED  BY <2>2
<1>2. ASSUME NEW n \in 1..N, n - 1 \in Good PROVE n \in Good
  <2>1. PICK f \in [0..(n - 1) -> V] :
          f[0] = v0 /\ \A i \in 1..(n - 1) : f[i] = step[<<i, f[i - 1]>>]
    BY <1>2
  <2>. DEFINE g == [i \in 0..n |-> IF i = n THEN step[<<n, f[n - 1]>>] ELSE f[i]]
  <2>2. f[n - 1] \in V /\ step[<<n, f[n - 1]>>] \in V
    OBVIOUS
  <2>3. g \in [0..n -> V] /\ g[0] = v0
    BY <2>1, <2>2
  <2>4. ASSUME NEW i \in 1..n PROVE g[i] = step[<<i, g[i - 1]>>]
    <3>1. i - 1 \in 0..n /\ i - 1 # n /\ g[i - 1] = f[i - 1]
      OBVIOUS
    <3>2. CASE i = n
      BY <3>1, <3>2
    <3>3. CASE i # n
      <4>1. i \in 1..(n - 1) /\ g[i] = f[i]
        BY <3>3
      <4>. QED  BY <2>1, <3>1, <4>1
    <3>. QED  BY <3>2, <3>3
  <2>. HIDE DEF g
  <2>5. Upto(n)
    BY <2>3, <2>4
  <2>. QED  BY <2>5
<1>. HIDE DEF Good
<1>3. \A n \in 0..N : n \in Good
  BY <1>1, <1>2, Upwards
<1>. QED  BY <1>3 DEF Good, StepByStep

-----------------------------------------------------------------------------
(* Lists.                                                                   *)

LEMMA RangeOfAppend ==
  ASSUME NEW T, NEW q \in Seq(T), NEW x \in T
  PROVE  /\ Append(q, x) \in Seq(T) /\ Len(Append(q, x)) = Len(q) + 1
         /\ Range(Append(q, x)) = Range(q) \cup {x}
<1>1. /\ Append(q, x) \in Seq(T) /\ Len(Append(q, x)) = Len(q) + 1
      /\ \A i \in 1..Len(q) : Append(q, x)[i] = q[i]
      /\ Append(q, x)[Len(q) + 1] = x
  BY AppendProperties
<1>2. DOMAIN q = 1..Len(q) /\ DOMAIN Append(q, x) = 1..(Len(q) + 1) /\ Len(q) \in Nat
  BY <1>1, LenProperties
<1>. QED  BY <1>1, <1>2 DEF Range

LEMMA RangeOfConcat ==
  ASSUME NEW T, NEW q \in Seq(T), NEW r \in Seq(T)
  PROVE  /\ q \o r \in Seq(T) /\ Len(q \o r) = Len(q) + Len(r)
         /\ Range(q \o r) = Range(q) \cup Range(r)
<1>1. /\ q \o r \in Seq(T) /\ Len(q \o r) = Len(q) + Len(r)
      /\ \A i \in 1..(Len(q) + Len(r)) :
           (q \o r)[i] = IF i <= Len(q) THEN q[i] ELSE r[i - Len(q)]
  BY ConcatProperties
<1>2. /\ DOMAIN q = 1..Len(q) /\ DOMAIN r = 1..Len(r)
      /\ DOMAIN (q \o r) = 1..(Len(q) + Len(r)) /\ Len(q) \in Nat /\ Len(r) \in Nat
  BY <1>1, LenProperties
<1>3. ASSUME NEW x \in Range(q) \cup Range(r) PROVE x \in Range(q \o r)
  <2>1. CASE x \in Range(q)
    BY <1>1, <1>2, <2>1 DEF Range
  <2>2. CASE x \in Range(r)
    <3>1. PICK i \in 1..Len(r) : r[i] = x
      BY <1>2, <2>2 DEF Range
    <3>2. /\ Len(q) + i \in 1..(Len(q) + Len(r)) /\ ~(Len(q) + i <= Len(q))
          /\ Len(q) + i - Len(q) = i
      BY <1>2
    <3>. QED  BY <1>1, <1>2, <3>1, <3>2 DEF Range
  <2>. QED  BY <2>1, <2>2
<1>4. ASSUME NEW x \in Range(q \o r) PROVE x \in Range(q) \cup Range(r)
  <2>1. PICK i \in 1..(Len(q) + Len(r)) : (q \o r)[i] = x
    BY <1>2, <1>4 DEF Range
  <2>2. CASE i <= Len(q)
    BY <1>1, <1>2, <2>1, <2>2 DEF Range
  <2>3. CASE ~(i <= Len(q))
    <3>1. i - Len(q) \in 1..Len(r)
      BY <1>2, <2>3
    <3>. QED  BY <1>1, <1>2, <2>1, <2>3, <3>1 DEF Range
  <2>. QED  BY <2>2, <2>3
<1>. QED  BY <1>1, <1>3, <1>4

\* A sublist is built along its list, one place after the other.
LEMMA SublistSteps ==
  ASSUME NEW T, NEW q \in Seq(T), NEW places \in SUBSET DOMAIN q
  PROVE  \E F : /\ Sublist(q, places) = F[Len(q)] /\ F[0] = <<>>
                /\ \A i \in 1..Len(q) :
                     F[i] = IF i \in places THEN Append(F[i - 1], q[i]) ELSE F[i - 1]
<1>. DEFINE N == Len(q)
            rec(g) == [i \in 0..N |-> IF i = 0 THEN <<>>
                                      ELSE IF i \in places THEN Append(g[i - 1], q[i])
                                           ELSE g[i - 1]]
            F == CHOOSE g : g = rec(g)
            step == [x \in (1..N) \X Seq(T) |->
                       IF x[1] \in places THEN Append(x[2], q[x[1]]) ELSE x[2]]
<1>1. N \in Nat /\ DOMAIN q = 1..N /\ \A i \in 1..N : q[i] \in T
  BY LenProperties
<1>2. \E f : f = rec(f)
  <2>1. <<>> \in Seq(T)
    BY EmptySeq
  <2>2. step \in [(1..N) \X Seq(T) -> Seq(T)]
    BY <1>1, AppendProperties
  <2>. HIDE DEF step, N
  <2>3. StepByStep(N, Seq(T), <<>>, step)
    BY <1>1, <2>1, <2>2, Recursion
  <2>4. PICK f \in [0..N -> Seq(T)] :
          f[0] = <<>> /\ \A i \in 1..N : f[i] = step[<<i, f[i - 1]>>]
    BY <2>3 DEF StepByStep
  <2>5. ASSUME NEW i \in 1..N
        PROVE  f[i] = IF i \in places THEN Append(f[i - 1], q[i]) ELSE f[i - 1]
    <3>1. f[i - 1] \in Seq(T)
      BY <1>1
    <3>. QED  BY <2>4, <3>1 DEF step
  <2>6. f = rec(f)
    <3>1. ASSUME NEW i \in 0..N PROVE f[i] = rec(f)[i]
      <4>1. CASE i = 0
        BY <2>4, <4>1
      <4>2. CASE i # 0
        <5>1. i \in 1..N
          BY <1>1, <4>2
        <5>2. rec(f)[i] = IF i \in places THEN Append(f[i - 1], q[i]) ELSE f[i - 1]
          BY <4>2
        <5>. QED  BY <2>5, <5>1, <5>2
      <4>. QED  BY <4>1, <4>2
    <3>. QED  BY <3>1
  <2>. QED  BY <2>6
<1>3. F = rec(F)
  BY <1>2
<1>4. /\ F[0] = <<>>
      /\ \A i \in 1..N : F[i] = IF i \in places THEN Append(F[i - 1], q[i]) ELSE F[i - 1]
  <2>. HIDE DEF F, N
  <2>1. PICK G : G = rec(F)
    OBVIOUS
  <2>2. \A i \in 0..N : G[i] = IF i = 0 THEN <<>>
                              ELSE IF i \in places THEN Append(F[i - 1], q[i]) ELSE F[i - 1]
    BY <2>1
  <2>3. F = G
    BY <1>3, <2>1
  <2>. QED  BY <1>1, <2>2, <2>3
<1>5. Sublist(q, places) = F[N]
  BY DEF Sublist, F, N
<1>. HIDE DEF F
<1>. QED  BY <1>4, <1>5

\* A sublist has the entries at its places, and no more of them than the list.
LEMMA SublistIs ==
  ASSUME NEW T, NEW q \in Seq(T), NEW places \in SUBSET DOMAIN q
  PROVE  /\ Sublist(q, places) \in Seq(T) /\ Len(Sublist(q, places)) <= Len(q)
         /\ Range(Sublist(q, places)) = {q[i] : i \in places}
<1>. DEFINE N == Len(q)
<1>1. N \in Nat /\ DOMAIN q = 1..N /\ \A i \in 1..N : q[i] \in T
  BY LenProperties
<1>4. PICK F : /\ Sublist(q, places) = F[N] /\ F[0] = <<>>
               /\ \A i \in 1..N :
                    F[i] = IF i \in places THEN Append(F[i - 1], q[i]) ELSE F[i - 1]
  BY SublistSteps
<1>. DEFINE taken(i) == {q[j] : j \in {k \in places : k <= i}}
            S == {i \in 0..N : F[i] \in Seq(T) /\ Len(F[i]) <= i /\ Range(F[i]) = taken(i)}
<1>. HIDE DEF N
<1>5. 0 \in S
  <2>1. {k \in places : k <= 0} = {}
    BY <1>1
  <2>2. <<>> \in Seq(T) /\ Len(<<>>) = 0 /\ Range(<<>>) = {}
    BY EmptySeq DEF Range
  <2>3. taken(0) = {}
    BY <2>1
  <2>. HIDE DEF taken, S
  <2>4. F[0] \in Seq(T) /\ Len(F[0]) <= 0 /\ Range(F[0]) = taken(0)
    <3>1. F[0] = <<>>
      BY <1>4
    <3>2. Len(F[0]) = 0
      BY <2>2, <3>1, Zenon
    <3>3. F[0] \in Seq(T) /\ Range(F[0]) = taken(0)
      BY <2>2, <2>3, <3>1, Zenon
    <3>. QED  BY <3>2, <3>3
  <2>. QED  BY <1>1, <2>4 DEF S
<1>6. ASSUME NEW i \in 1..N, i - 1 \in S PROVE i \in S
  <2>. HIDE DEF taken
  <2>1. /\ F[i - 1] \in Seq(T) /\ Len(F[i - 1]) <= i - 1
        /\ Range(F[i - 1]) = taken(i - 1) /\ q[i] \in T
    BY <1>1, <1>6
  <2>2. Len(F[i - 1]) \in Nat
    BY <2>1, LenProperties
  <2>3. CASE i \in places
    <3>1. taken(i) = taken(i - 1) \cup {q[i]}
      BY <1>1, <2>3 DEF taken
    <3>2. F[i] = Append(F[i - 1], q[i])
      BY <1>4, <2>3
    <3>. HIDE DEF S
    <3>3. /\ F[i] \in Seq(T) /\ Len(F[i]) = Len(F[i - 1]) + 1
          /\ Range(F[i]) = Range(F[i - 1]) \cup {q[i]}
      BY <2>1, <3>2, RangeOfAppend
    <3>4. i \in 0..N /\ Len(F[i]) <= i /\ Range(F[i]) = taken(i)
      BY <1>1, <2>1, <2>2, <3>1, <3>3
    <3>. QED  BY <3>3, <3>4 DEF S
  <2>4. CASE i \notin places
    <3>1. taken(i) = taken(i - 1)
      BY <1>1, <2>4 DEF taken
    <3>2. F[i] = F[i - 1]
      BY <1>4, <2>4
    <3>. HIDE DEF S
    <3>3. i \in 0..N /\ F[i] \in Seq(T) /\ Len(F[i]) <= i /\ Range(F[i]) = taken(i)
      BY <1>1, <2>1, <2>2, <3>1, <3>2
    <3>. QED  BY <3>3 DEF S
  <2>. QED  BY <2>3, <2>4
<1>. HIDE DEF S
<1>7. N \in S
  BY <1>1, <1>5, <1>6, Upwards
<1>9. taken(N) = {q[i] : i \in places}
  BY <1>1
<1>. HIDE DEF taken
<1>. QED  BY <1>4, <1>7, <1>9 DEF S, N

\* A finite set of numbers in ascending order is a list of exactly these numbers.
LEMMA InOrderIs ==
  ASSUME NEW S \in SUBSET Nat, IsFiniteSet(S)
  PROVE  InOrder(S) \in Seq(S) /\ Range(InOrder(S)) = S
<1>. DEFINE C == Cardinality(S)
            below(n) == {m \in S : m < n}
            rank(n) == Cardinality(below(n))
            f == [n \in S |-> rank(n)]
<1>1. C \in Nat
  BY FS_CardinalityType
<1>2. ASSUME NEW n \in S PROVE IsFiniteSet(below(n)) /\ rank(n) \in 0..(C - 1)
  <2>2. below(n) \in SUBSET (S \ {n})
    OBVIOUS
  <2>. HIDE DEF below, rank, f, C
  <2>1. /\ IsFiniteSet(S \ {n}) /\ Cardinality(S \ {n}) = C - 1
    BY FS_RemoveElement DEF C
  <2>3. /\ IsFiniteSet(below(n)) /\ Cardinality(below(n)) <= C - 1
    BY <2>1, <2>2, FS_Subset
  <2>4. Cardinality(below(n)) \in Nat
    BY <2>3, FS_CardinalityType
  <2>. QED  BY <1>1, <2>3, <2>4 DEF rank
<1>3. ASSUME NEW m \in S, NEW n \in S, m < n PROVE rank(m) < rank(n)
  <2>1. below(m) \cup {m} \in SUBSET below(n) /\ m \notin below(m)
    <3>1. m \in Nat /\ n \in Nat /\ ~(m < m)
      OBVIOUS
    <3>2. \A x \in S : x \in Nat
      OBVIOUS
    <3>3. \A x \in S : x < m => x < n
      BY <1>3, <3>1, <3>2
    <3>. HIDE DEF rank, f, C
    <3>. QED  BY <1>3, <3>1, <3>3
  <2>. HIDE DEF below, rank, f, C
  <2>2. IsFiniteSet(below(m)) /\ IsFiniteSet(below(n))
    BY <1>2
  <2>3. /\ IsFiniteSet(below(m) \cup {m})
        /\ Cardinality(below(m) \cup {m}) = Cardinality(below(m)) + 1
    BY <2>1, <2>2, FS_AddElement
  <2>4. Cardinality(below(m) \cup {m}) <= Cardinality(below(n))
    BY <2>1, <2>2, FS_Subset
  <2>5. Cardinality(below(m)) \in Nat /\ Cardinality(below(n)) \in Nat
    BY <2>2, FS_CardinalityType
  <2>. QED  BY <2>1, <2>3, <2>4, <2>5 DEF rank
<1>. HIDE DEF below, rank, C
<1>0. \A n \in S : rank(n) \in 0..(C - 1) /\ rank(n) \in Nat
  BY <1>1, <1>2
<1>4. ASSUME NEW k \in 1..C PROVE \E n \in S : rank(n) = k - 1
  <2>1. f \in [S -> 0..(C - 1)]
    BY <1>0
  <2>2. \A m, n \in S : f[m] = f[n] => m = n
    <3>1. ASSUME NEW m \in S, NEW n \in S, m # n PROVE rank(m) # rank(n)
      <4>1. m < n \/ n < m
        BY <3>1
      <4>2. rank(m) \in Nat /\ rank(n) \in Nat
        BY <1>0
      <4>. QED  BY <1>3, <4>1, <4>2
    <3>. QED  BY <3>1
  <2>. HIDE DEF f
  <2>3. f \in Injection(S, 0..(C - 1))
    BY <2>1, <2>2 DEF Injection, IsInjective
  <2>4. /\ IsFiniteSet(0..(C - 1)) /\ Cardinality(0..(C - 1)) = C
    BY <1>1, FS_Interval
  <2>5. f \in Surjection(S, 0..(C - 1))
    BY <2>3, <2>4, FS_Injection DEF C
  <2>6. k - 1 \in 0..(C - 1)
    BY <1>1
  <2>7. PICK n \in S : f[n] = k - 1
    BY <2>5, <2>6 DEF Surjection
  <2>. QED  BY <2>7 DEF f
<1>5. InOrder(S) = [k \in 1..C |-> CHOOSE n \in S : rank(n) = k - 1]
  BY DEF InOrder, rank, below, C
<1>6. ASSUME NEW k \in 1..C PROVE InOrder(S)[k] \in S /\ rank(InOrder(S)[k]) = k - 1
  <2>1. InOrder(S)[k] = CHOOSE n \in S : rank(n) = k - 1
    BY <1>5
  <2>. QED  BY <1>4, <2>1
<1>7. InOrder(S) = [k \in 1..C |-> InOrder(S)[k]] /\ DOMAIN InOrder(S) = 1..C
  BY <1>5
<1>8. InOrder(S) \in Seq(S)
  BY <1>1, <1>6, <1>7, SeqDef
<1>9. ASSUME NEW n \in S PROVE n \in Range(InOrder(S))
  <2>0. rank(n) + 1 \in 1..C /\ rank(n) \in Nat /\ rank(n) + 1 - 1 = rank(n)
    BY <1>0, <1>1
  <2>1. PICK k \in 1..C : k - 1 = rank(n)
    BY <2>0
  <2>2. PICK m \in S : m = InOrder(S)[k] /\ rank(m) = rank(n)
    BY <1>6, <2>1
  <2>3. m = n
    <3>1. m < n \/ n < m \/ m = n
      OBVIOUS
    <3>2. ~(rank(m) < rank(n)) /\ ~(rank(n) < rank(m))
      BY <2>0, <2>2
    <3>. QED  BY <1>3, <3>1, <3>2
  <2>. QED  BY <1>7, <2>2, <2>3 DEF Range
<1>10. Range(InOrder(S)) \subseteq S
  BY <1>6, <1>7 DEF Range
<1>. QED  BY <1>8, <1>9, <1>10

\* What a function says of the members of such a set, in order.
Listing(S, f) == [i \in DOMAIN InOrder(S) |-> f[InOrder(S)[i]]]

LEMMA ListingIs ==
  ASSUME NEW S \in SUBSET Nat, IsFiniteSet(S), NEW T, NEW f \in [S -> T]
  PROVE  Listing(S, f) \in Seq(T) /\ Range(Listing(S, f)) = {f[x] : x \in S}
<1>. DEFINE q == InOrder(S)
<1>1. q \in Seq(S) /\ Range(q) = S
  BY InOrderIs
<1>2. /\ Len(q) \in Nat /\ DOMAIN q = 1..Len(q) /\ \A i \in 1..Len(q) : q[i] \in S
  BY <1>1, LenProperties
<1>. HIDE DEF q
<1>3. Listing(S, f) = [i \in 1..Len(q) |-> f[q[i]]]
  BY <1>2 DEF Listing, q
<1>4. \A i \in 1..Len(q) : f[q[i]] \in T
  BY <1>2
<1>5. Listing(S, f) \in Seq(T)
  BY <1>2, <1>3, <1>4, SeqDef
<1>6. Range(Listing(S, f)) = {f[q[i]] : i \in 1..Len(q)}
  BY <1>3 DEF Range
<1>7. {f[q[i]] : i \in 1..Len(q)} = {f[x] : x \in S}
  BY <1>1, <1>2 DEF Range
<1>. QED  BY <1>5, <1>6, <1>7

-----------------------------------------------------------------------------
(* What the merge works on, and what it makes of it.                        *)

Stops == Stop \cup {NoStop}

Record ==
  {r \in [kind : {"DEAL_ADD", "POSITION"}, pos : Position, deal : 0..MaxDeals,
          entry : {"IN", "OUT", ""}, vol : Nat, seq : Nat] :
     r.kind = "DEAL_ADD" => r.entry \in {"IN", "OUT"}}

Event ==
  {e \in [type : EventType, ticket : Position, native : 0..MaxDeals, vol : Nat, was : Nat,
          lowers : BOOLEAN, sl : Stops, wasSl : Stops] :
     e.type = "trade_modified" => e.native = NoDeal}

\* A snapshot of open positions.
IsPositions(b) ==
  /\ DOMAIN b \in SUBSET Position /\ IsFiniteSet(DOMAIN b)
  /\ b \in [DOMAIN b -> [vol : 1..MaxDeals, sl : Stop]]

\* The events among E tell how the positions of prev became those of cur.
TellOfChanges(E, prev, cur) ==
  /\ \A p \in DOMAIN cur \ DOMAIN prev :
       \E e \in E : e.type = "trade_opened" /\ e.ticket = p
  /\ \A p \in DOMAIN prev \ DOMAIN cur :
       \E e \in E : e.type = "trade_closed" /\ e.ticket = p
  /\ \A p \in DOMAIN prev \cap DOMAIN cur : prev[p].sl # cur[p].sl =>
       \E e \in E : e.type = "trade_modified" /\ e.ticket = p /\ e.sl = cur[p].sl

\* The volumes of the replay are numbers and follow the records.
LEMMA VolumesAre ==
  ASSUME NEW q \in Seq(Record), NEW prev, IsPositions(prev)
  PROVE  /\ \A k \in 0..Len(q) : Volumes(q, prev)[k] \in [Position -> Nat]
         /\ Volumes(q, prev)[0] = [p \in Position |-> IF p \in DOMAIN prev THEN prev[p].vol ELSE 0]
         /\ \A k \in 1..Len(q) :
              Volumes(q, prev)[k] = TrackedAfter(q[k], Volumes(q, prev)[k - 1])
<1>. DEFINE N == Len(q)
            T == [Position -> Nat]
            start == [p \in Position |-> IF p \in DOMAIN prev THEN prev[p].vol ELSE 0]
            rec(g) == [k \in 0..N |-> IF k = 0 THEN start ELSE TrackedAfter(q[k], g[k - 1])]
            F == CHOOSE g : g = rec(g)
            step == [x \in (1..N) \X T |-> TrackedAfter(q[x[1]], x[2])]
            S == {k \in 0..N : F[k] \in T}
<1>1. N \in Nat /\ \A k \in 1..N : q[k] \in Record
  BY LenProperties
<1>2. start \in T
  <2>1. ASSUME NEW p \in DOMAIN prev PROVE prev[p].vol \in Nat
    BY JournalAssumption DEF IsPositions, JournalAssumption
  <2>. QED  BY <2>1
<1>3. ASSUME NEW r \in Record, NEW t \in T PROVE TrackedAfter(r, t) \in T
  <2>1. r.pos \in Position /\ r.vol \in Nat
    BY DEF Record
  <2>. DEFINE v == IF r.entry = "IN" THEN t[r.pos] + r.vol
                   ELSE IF t[r.pos] > r.vol THEN t[r.pos] - r.vol ELSE 0
  <2>2. v \in Nat
    BY <2>1
  <2>3. TrackedAfter(r, t) = IF r.kind # "DEAL_ADD" THEN t ELSE [t EXCEPT ![r.pos] = v]
    BY DEF TrackedAfter
  <2>. HIDE DEF v
  <2>. QED  BY <2>2, <2>3
<1>. HIDE DEF start, T, N
<1>4. \E f : f = rec(f)
  <2>2. step \in [(1..N) \X T -> T]
    BY <1>1, <1>3
  <2>. HIDE DEF step
  <2>3. StepByStep(N, T, start, step)
    BY <1>1, <1>2, <2>2, Recursion
  <2>4. PICK f \in [0..N -> T] :
          f[0] = start /\ \A i \in 1..N : f[i] = step[<<i, f[i - 1]>>]
    BY <2>3 DEF StepByStep
  <2>5. ASSUME NEW i \in 1..N PROVE f[i] = TrackedAfter(q[i], f[i - 1])
    <3>1. f[i - 1] \in T
      BY <1>1
    <3>. QED  BY <2>4, <3>1 DEF step
  <2>6. f = rec(f)
    <3>1. ASSUME NEW i \in 0..N PROVE f[i] = rec(f)[i]
      <4>1. CASE i = 0
        BY <2>4, <4>1
      <4>2. CASE i # 0
        <5>1. i \in 1..N
          BY <1>1, <4>2
        <5>2. rec(f)[i] = TrackedAfter(q[i], f[i - 1])
          BY <4>2
        <5>. QED  BY <2>5, <5>1, <5>2
      <4>. QED  BY <4>1, <4>2
    <3>. QED  BY <3>1
  <2>. QED  BY <2>6
<1>5. F = rec(F)
  BY <1>4
<1>6. F[0] = start /\ \A k \in 1..N : F[k] = TrackedAfter(q[k], F[k - 1])
  <2>. HIDE DEF F
  <2>1. PICK G : G = rec(F)
    OBVIOUS
  <2>2. \A k \in 0..N : G[k] = IF k = 0 THEN start ELSE TrackedAfter(q[k], F[k - 1])
    BY <2>1
  <2>3. F = G
    BY <1>5, <2>1
  <2>. QED  BY <1>1, <2>2, <2>3
<1>. HIDE DEF F
<1>7. 0 \in S
  BY <1>1, <1>2, <1>6
<1>8. ASSUME NEW k \in 1..N, k - 1 \in S PROVE k \in S
  BY <1>1, <1>3, <1>6, <1>8
<1>. HIDE DEF S
<1>9. \A k \in 0..N : k \in S
  BY <1>1, <1>7, <1>8, Upwards
<1>10. Volumes(q, prev) = F
  BY DEF Volumes, F, start, N
<1>. QED  BY <1>6, <1>9, <1>10 DEF S, N, T, start

\* A record of a deal becomes an event with its native ticket, which is no echo.
LEMMA DealEventIs ==
  ASSUME NEW r \in Record, r.kind = "DEAL_ADD", NEW tracked \in [Position -> Nat], NEW cur
  PROVE  /\ DealEvent(r, tracked, cur) \in Event
         /\ DealEvent(r, tracked, cur).native = r.deal
         /\ ~DealEvent(r, tracked, cur).lowers
         /\ DealEvent(r, tracked, cur).type # "trade_modified"
<1>. DEFINE before == tracked[r.pos]
<1>1. /\ r.pos \in Position /\ r.deal \in 0..MaxDeals /\ r.vol \in Nat
      /\ r.entry \in {"IN", "OUT"} /\ before \in Nat
  BY DEF Record
<1>. USE DEF Event, EventType, Stops, JournalEvent, NoDeal
<1>2. CASE r.entry = "IN" /\ before > 0
  <2>1. DealEvent(r, tracked, cur) = VolumeChanged(r.pos, r.deal, before + r.vol, before, FALSE)
    BY <1>1, <1>2 DEF DealEvent, VolumeChanged
  <2>. QED  BY <1>1, <2>1 DEF VolumeChanged
<1>3. CASE r.entry = "IN" /\ before = 0
  <2>1. DealEvent(r, tracked, cur) = Opened(r.pos, r.deal, r.vol, NoStop)
    BY <1>3 DEF DealEvent
  <2>. QED  BY <1>1, <2>1 DEF Opened
<1>4. CASE r.entry = "OUT"
  <2>1. \/ DealEvent(r, tracked, cur) = PartialClosed(r.pos, r.deal, r.vol)
        \/ DealEvent(r, tracked, cur) = Closed(r.pos, r.deal, r.vol)
    <3>1. before > 0 \/ before = 0
      BY <1>1
    <3>. QED  BY <1>4, <3>1 DEF DealEvent
  <2>2. CASE DealEvent(r, tracked, cur) = PartialClosed(r.pos, r.deal, r.vol)
    BY <1>1, <2>2 DEF PartialClosed
  <2>3. CASE DealEvent(r, tracked, cur) = Closed(r.pos, r.deal, r.vol)
    BY <1>1, <2>3 DEF Closed
  <2>. QED  BY <2>1, <2>2, <2>3
<1>5. before > 0 \/ before = 0
  BY <1>1
<1>. QED  BY <1>1, <1>2, <1>3, <1>4, <1>5

\* A POSITION notification becomes an event; one of a stop tells the snapshot's.
LEMMA PositionEventIs ==
  ASSUME NEW r \in Record, NEW prev, IsPositions(prev), NEW cur, IsPositions(cur)
  PROVE  /\ PositionEvent(r, prev, cur) \in Event
         /\ PositionEvent(r, prev, cur).type = "trade_modified" =>
              PositionEvent(r, prev, cur).sl = cur[PositionEvent(r, prev, cur).ticket].sl
<1>1. r.pos \in Position /\ r.seq \in Nat /\ 0 \in 0..MaxDeals
  <2>1. r.pos \in Position /\ r.seq \in Nat
    BY DEF Record
  <2>. QED  BY <2>1, JournalAssumption DEF JournalAssumption
<1>2. ASSUME NEW b, IsPositions(b), NEW p \in DOMAIN b
      PROVE  b[p].vol \in Nat /\ b[p].sl \in Stop
  BY <1>2, JournalAssumption DEF IsPositions, JournalAssumption
<1>. USE DEF Event, EventType, Stops, JournalEvent, NoDeal
<1>3. CASE r.pos \notin DOMAIN cur
  <2>1. PositionEvent(r, prev, cur) = Recorded(r.pos, r.seq)
    BY <1>3 DEF PositionEvent
  <2>. QED  BY <1>1, <2>1 DEF Recorded
<1>4. CASE /\ r.pos \in DOMAIN cur
           /\ r.pos \in DOMAIN prev /\ prev[r.pos].vol # cur[r.pos].vol
  <2>1. PositionEvent(r, prev, cur) = VolumeChanged(r.pos, NoDeal, cur[r.pos].vol, prev[r.pos].vol,
                                                    cur[r.pos].vol < prev[r.pos].vol)
    BY <1>4 DEF PositionEvent
  <2>2. cur[r.pos].vol \in Nat /\ prev[r.pos].vol \in Nat
    BY <1>2, <1>4
  <2>. QED  BY <1>1, <2>1, <2>2 DEF VolumeChanged
<1>5. CASE /\ r.pos \in DOMAIN cur
           /\ ~(r.pos \in DOMAIN prev /\ prev[r.pos].vol # cur[r.pos].vol)
  <2>1. PositionEvent(r, prev, cur) =
          Modified(r.pos, cur[r.pos].sl, IF r.pos \in DOMAIN prev THEN prev[r.pos].sl ELSE NoStop)
    BY <1>5 DEF PositionEvent
  <2>2. /\ cur[r.pos].sl \in Stops
        /\ (IF r.pos \in DOMAIN prev THEN prev[r.pos].sl ELSE NoStop) \in Stops
    BY <1>2, <1>5
  <2>. QED  BY <1>1, <2>1, <2>2 DEF Modified
<1>. QED  BY <1>3, <1>4, <1>5

\* The replay: one event for each record, those of deals under their tickets.
LEMMA ReplayIs ==
  ASSUME NEW q \in Seq(Record), NEW prev, IsPositions(prev), NEW cur, IsPositions(cur)
  PROVE  /\ Replay(q, prev, cur) \in Seq(Event)
         /\ DOMAIN Replay(q, prev, cur) = DOMAIN q
         /\ \A k \in DOMAIN q : q[k].kind = "DEAL_ADD" =>
              /\ Replay(q, prev, cur)[k].native = q[k].deal
              /\ ~Replay(q, prev, cur)[k].lowers
         /\ \A k \in DOMAIN q : LET e == Replay(q, prev, cur)[k]
                                IN  e.type = "trade_modified" => e.sl = cur[e.ticket].sl
<1>. DEFINE N == Len(q)
            tracked == Volumes(q, prev)
            one(k) == IF q[k].kind = "DEAL_ADD" THEN DealEvent(q[k], tracked[k - 1], cur)
                      ELSE PositionEvent(q[k], prev, cur)
            rs == Replay(q, prev, cur)
<1>1. N \in Nat /\ DOMAIN q = 1..N /\ \A k \in 1..N : q[k] \in Record
  BY LenProperties
<1>2. \A k \in 0..N : tracked[k] \in [Position -> Nat]
  BY VolumesAre
<1>3. rs = [k \in 1..N |-> one(k)]
  BY <1>1 DEF Replay
<1>. HIDE DEF tracked, N, rs
<1>4. ASSUME NEW k \in 1..N
      PROVE  /\ one(k) \in Event
             /\ q[k].kind = "DEAL_ADD" => one(k).native = q[k].deal /\ ~one(k).lowers
             /\ one(k).type = "trade_modified" => one(k).sl = cur[one(k).ticket].sl
  <2>1. q[k] \in Record /\ k - 1 \in 0..N
    BY <1>1
  <2>2. CASE q[k].kind = "DEAL_ADD"
    <3>1. tracked[k - 1] \in [Position -> Nat]
      BY <1>2, <2>1
    <3>2. one(k) = DealEvent(q[k], tracked[k - 1], cur)
      BY <2>2
    <3>. HIDE DEF one
    <3>. QED  BY <2>1, <2>2, <3>1, <3>2, DealEventIs
  <2>3. CASE q[k].kind # "DEAL_ADD"
    <3>1. one(k) = PositionEvent(q[k], prev, cur)
      BY <2>3
    <3>. HIDE DEF one
    <3>. QED  BY <2>1, <2>3, <3>1, PositionEventIs
  <2>. QED  BY <2>2, <2>3
<1>. HIDE DEF one
<1>5. rs \in Seq(Event) /\ DOMAIN rs = 1..N
  BY <1>1, <1>3, <1>4, SeqDef
<1>6. \A k \in 1..N : rs[k] = one(k)
  BY <1>3
<1>. QED  BY <1>1, <1>4, <1>5, <1>6 DEF rs

\* The comparison of two snapshots tells of every change between them.
LEMMA DetectEventsAre ==
  ASSUME NEW prev, IsPositions(prev), NEW cur, IsPositions(cur)
  PROVE  /\ DetectEvents(prev, cur) \in Seq(Event)
         /\ \A p \in DOMAIN cur \ DOMAIN prev :
              Opened(p, NoDeal, cur[p].vol, cur[p].sl) \in Range(DetectEvents(prev, cur))
         /\ \A p \in DOMAIN prev \ DOMAIN cur :
              Closed(p, NoDeal, prev[p].vol) \in Range(DetectEvents(prev, cur))
         /\ \A p \in DOMAIN prev \cap DOMAIN cur : prev[p].sl # cur[p].sl =>
              Modified(p, cur[p].sl, prev[p].sl) \in Range(DetectEvents(prev, cur))
         /\ \A e \in Range(DetectEvents(prev, cur)) :
              \/ \E p \in DOMAIN cur \ DOMAIN prev : e = Opened(p, NoDeal, cur[p].vol, cur[p].sl)
              \/ \E p \in DOMAIN prev \ DOMAIN cur : e = Closed(p, NoDeal, prev[p].vol)
              \/ \E p \in DOMAIN prev \cap DOMAIN cur :
                   e = Modified(p, cur[p].sl, prev[p].sl) \/ e = Resized(p, prev, cur)
<1>. DEFINE C == {p \in DOMAIN cur : p \in DOMAIN prev => cur[p].sl # prev[p].sl}
            G == DOMAIN prev \ DOMAIN cur
            R == {p \in DOMAIN prev \cap DOMAIN cur : cur[p].vol # prev[p].vol}
            fc == [p \in C |-> OpenedOrModified(p, prev, cur)]
            fg == [p \in G |-> Closed(p, NoDeal, prev[p].vol)]
            fr == [p \in R |-> Resized(p, prev, cur)]
            lc == Listing(C, fc)
            lg == Listing(G, fg)
            lr == Listing(R, fr)
<1>1. /\ C \in SUBSET Nat /\ G \in SUBSET Nat /\ R \in SUBSET Nat
      /\ IsFiniteSet(C) /\ IsFiniteSet(G) /\ IsFiniteSet(R)
  <2>1. /\ C \in SUBSET DOMAIN cur /\ G \in SUBSET DOMAIN prev /\ R \in SUBSET DOMAIN cur
    OBVIOUS
  <2>2. /\ DOMAIN cur \in SUBSET Nat /\ DOMAIN prev \in SUBSET Nat
        /\ IsFiniteSet(DOMAIN cur) /\ IsFiniteSet(DOMAIN prev)
    BY JournalAssumption DEF IsPositions, JournalAssumption
  <2>. HIDE DEF C, G, R
  <2>3. IsFiniteSet(C)
    BY <2>1, <2>2, FS_Subset
  <2>4. IsFiniteSet(G)
    BY <2>1, <2>2, FS_Subset
  <2>5. IsFiniteSet(R)
    BY <2>1, <2>2, FS_Subset
  <2>. QED  BY <2>1, <2>2, <2>3, <2>4, <2>5
<1>2. ASSUME NEW b, IsPositions(b), NEW p \in DOMAIN b
      PROVE  p \in Position /\ b[p].vol \in Nat /\ b[p].sl \in Stop
  BY <1>2, JournalAssumption DEF IsPositions, JournalAssumption
<1>3. 0 \in 0..MaxDeals
  BY JournalAssumption DEF JournalAssumption
<1>4. fc \in [C -> Event]
  <2>1. ASSUME NEW p \in C PROVE OpenedOrModified(p, prev, cur) \in Event
    <3>1. p \in Position /\ cur[p].vol \in Nat /\ cur[p].sl \in Stop
      BY <1>2
    <3>2. CASE p \notin DOMAIN prev
      BY <1>3, <3>1, <3>2 DEF OpenedOrModified, Opened, JournalEvent, Event, EventType,
         Stops, NoDeal
    <3>3. CASE p \in DOMAIN prev
      <4>1. prev[p].sl \in Stop
        BY <1>2, <3>3
      <4>. QED  BY <1>3, <3>1, <3>3, <4>1 DEF OpenedOrModified, Modified, JournalEvent,
                   Event, EventType, Stops, NoDeal
    <3>. QED  BY <3>2, <3>3
  <2>. QED  BY <2>1
<1>5. fg \in [G -> Event]
  <2>1. ASSUME NEW p \in G PROVE Closed(p, NoDeal, prev[p].vol) \in Event
    <3>1. p \in Position /\ prev[p].vol \in Nat
      BY <1>2
    <3>. QED  BY <1>3, <3>1 DEF Closed, JournalEvent, Event, EventType, Stops, NoDeal
  <2>. QED  BY <2>1
<1>6. fr \in [R -> Event]
  <2>1. ASSUME NEW p \in R PROVE Resized(p, prev, cur) \in Event
    <3>1. p \in Position /\ prev[p].vol \in Nat /\ cur[p].vol \in Nat
      BY <1>2
    <3>. QED  BY <1>3, <3>1 DEF Resized, VolumeChanged, JournalEvent, Event, EventType,
                 Stops, NoDeal
  <2>. QED  BY <2>1
<1>7. DetectEvents(prev, cur) = lc \o lg \o lr
  <2>1. \A S \in SUBSET Nat : IsFiniteSet(S) =>
          \A i \in DOMAIN InOrder(S) : InOrder(S)[i] \in S
    BY InOrderIs DEF Range
  <2>2. lc = [i \in DOMAIN InOrder(C) |-> OpenedOrModified(InOrder(C)[i], prev, cur)]
    <3>1. \A i \in DOMAIN InOrder(C) : InOrder(C)[i] \in C
      BY <1>1, <2>1
    <3>. HIDE DEF C
    <3>. QED  BY <3>1 DEF Listing
  <2>3. lg = [i \in DOMAIN InOrder(G) |-> Closed(InOrder(G)[i], NoDeal, prev[InOrder(G)[i]].vol)]
    <3>1. \A i \in DOMAIN InOrder(G) : InOrder(G)[i] \in G
      BY <1>1, <2>1
    <3>. HIDE DEF G
    <3>. QED  BY <3>1 DEF Listing
  <2>4. lr = [i \in DOMAIN InOrder(R) |-> Resized(InOrder(R)[i], prev, cur)]
    <3>1. \A i \in DOMAIN InOrder(R) : InOrder(R)[i] \in R
      BY <1>1, <2>1
    <3>. HIDE DEF R
    <3>. QED  BY <3>1 DEF Listing
  <2>5. DetectEvents(prev, cur) =
          [i \in DOMAIN InOrder(C) |-> OpenedOrModified(InOrder(C)[i], prev, cur)]
          \o [i \in DOMAIN InOrder(G) |-> Closed(InOrder(G)[i], NoDeal, prev[InOrder(G)[i]].vol)]
          \o [i \in DOMAIN InOrder(R) |-> Resized(InOrder(R)[i], prev, cur)]
    BY DEF DetectEvents
  <2>. HIDE DEF C, G, R, lc, lg, lr
  <2>. QED  BY <2>2, <2>3, <2>4, <2>5
<1>. HIDE DEF C, G, R, fc, fg, fr
<1>8. lc \in Seq(Event) /\ Range(lc) = {fc[p] : p \in C}
  BY <1>1, <1>4, ListingIs
<1>9. lg \in Seq(Event) /\ Range(lg) = {fg[p] : p \in G}
  BY <1>1, <1>5, ListingIs
<1>10. lr \in Seq(Event) /\ Range(lr) = {fr[p] : p \in R}
  BY <1>1, <1>6, ListingIs
<1>. HIDE DEF lc, lg, lr
<1>11. lc \o lg \in Seq(Event) /\ Range(lc \o lg) = Range(lc) \cup Range(lg)
  BY <1>8, <1>9, RangeOfConcat
<1>. DEFINE lcg == lc \o lg
<1>. HIDE DEF lcg
<1>12. lcg \o lr \in Seq(Event) /\ Range(lcg \o lr) = Range(lcg) \cup Range(lr)
  <2>1. lcg \in Seq(Event)
    BY <1>11 DEF lcg
  <2>. QED  BY <1>10, <2>1, RangeOfConcat
<1>13. /\ DetectEvents(prev, cur) \in Seq(Event)
       /\ Range(DetectEvents(prev, cur)) = (Range(lc) \cup Range(lg)) \cup Range(lr)
  BY <1>7, <1>11, <1>12 DEF lcg
<1>14. ASSUME NEW p \in DOMAIN cur \ DOMAIN prev
       PROVE  Opened(p, NoDeal, cur[p].vol, cur[p].sl) \in Range(DetectEvents(prev, cur))
  <2>1. p \in C /\ fc[p] = Opened(p, NoDeal, cur[p].vol, cur[p].sl)
    BY DEF C, fc, OpenedOrModified
  <2>. QED  BY <1>8, <1>13, <2>1
<1>15. ASSUME NEW p \in DOMAIN prev \ DOMAIN cur
       PROVE  Closed(p, NoDeal, prev[p].vol) \in Range(DetectEvents(prev, cur))
  <2>1. p \in G /\ fg[p] = Closed(p, NoDeal, prev[p].vol)
    BY DEF G, fg
  <2>. QED  BY <1>9, <1>13, <2>1
<1>16. ASSUME NEW p \in DOMAIN prev \cap DOMAIN cur, prev[p].sl # cur[p].sl
       PROVE  Modified(p, cur[p].sl, prev[p].sl) \in Range(DetectEvents(prev, cur))
  <2>1. p \in C /\ fc[p] = Modified(p, cur[p].sl, prev[p].sl)
    BY <1>16 DEF C, fc, OpenedOrModified
  <2>. QED  BY <1>8, <1>13, <2>1
<1>17. ASSUME NEW e \in Range(DetectEvents(prev, cur))
       PROVE  \/ \E p \in DOMAIN cur \ DOMAIN prev : e = Opened(p, NoDeal, cur[p].vol, cur[p].sl)
              \/ \E p \in DOMAIN prev \ DOMAIN cur : e = Closed(p, NoDeal, prev[p].vol)
              \/ \E p \in DOMAIN prev \cap DOMAIN cur :
                   e = Modified(p, cur[p].sl, prev[p].sl) \/ e = Resized(p, prev, cur)
  <2>1. CASE e \in Range(lc)
    <3>1. PICK p \in C : e = fc[p]
      BY <1>8, <2>1
    <3>. QED  BY <3>1 DEF C, fc, OpenedOrModified
  <2>2. CASE e \in Range(lg)
    <3>1. PICK p \in G : e = fg[p]
      BY <1>9, <2>2
    <3>. QED  BY <3>1 DEF G, fg
  <2>3. CASE e \in Range(lr)
    <3>1. PICK p \in R : e = fr[p]
      BY <1>10, <2>3
    <3>. QED  BY <3>1 DEF R, fr
  <2>. QED  BY <1>13, <2>1, <2>2, <2>3
<1>. QED  BY <1>13, <1>14, <1>15, <1>16, <1>17

\* The merge keeps every event of a deal, and of each change the comparison finds
\* at least one event that tells of it.
LEMMA MergeStreamIs ==
  ASSUME NEW q \in Seq(Record), NEW prev, IsPositions(prev), NEW cur, IsPositions(cur)
  PROVE  /\ MergeStream(q, prev, cur) \in Seq(Event)
         /\ \A k \in DOMAIN q : q[k].kind = "DEAL_ADD" =>
              \E e \in Range(MergeStream(q, prev, cur)) : e.native = q[k].deal
         /\ \A d \in Range(DetectEvents(prev, cur)) : d.type # "trade_volume_changed" =>
              \E e \in Range(MergeStream(q, prev, cur)) :
                 /\ e.type = d.type /\ e.ticket = d.ticket
                 /\ e = d \/ (e.type = "trade_modified" => e.sl = cur[e.ticket].sl)
<1>. DEFINE replayed == Replay(q, prev, cur)
            economicClose == {e.ticket : e \in {x \in Range(replayed) :
                                x.type \in {"trade_partial_closed", "trade_closed"}}}
            IsEcho(e) == /\ e.type = "trade_volume_changed" /\ e.lowers
                         /\ e.ticket \in economicClose
            kept   == {i \in DOMAIN replayed : ~IsEcho(replayed[i])}
            merged == Sublist(replayed, kept)
            covered == {<<e.type, e.ticket>> : e \in Range(merged)}
            IsNews(e) == <<e.type, e.ticket>> \notin covered /\ ~IsEcho(e)
            diff   == DetectEvents(prev, cur)
            new    == {i \in DOMAIN diff : IsNews(diff[i])}
            rest   == Sublist(diff, new)
<1>1. /\ replayed \in Seq(Event) /\ DOMAIN replayed = DOMAIN q
      /\ \A k \in DOMAIN q : q[k].kind = "DEAL_ADD" =>
           replayed[k].native = q[k].deal /\ ~replayed[k].lowers
      /\ \A k \in DOMAIN q : replayed[k].type = "trade_modified" =>
           replayed[k].sl = cur[replayed[k].ticket].sl
  BY ReplayIs
<1>2. diff \in Seq(Event)
  BY DetectEventsAre
<1>3. MergeStream(q, prev, cur) = merged \o rest
  BY DEF MergeStream
<1>. HIDE DEF replayed, diff
<1>4. kept \in SUBSET DOMAIN replayed /\ new \in SUBSET DOMAIN diff
  OBVIOUS
<1>5. merged \in Seq(Event) /\ Range(merged) = {replayed[i] : i \in kept}
  <2>. HIDE DEF kept
  <2>. QED  BY <1>1, <1>4, SublistIs
<1>6. rest \in Seq(Event) /\ Range(rest) = {diff[i] : i \in new}
  <2>. HIDE DEF new
  <2>. QED  BY <1>2, <1>4, SublistIs
<1>. HIDE DEF merged, rest
<1>7. /\ MergeStream(q, prev, cur) \in Seq(Event)
      /\ Range(MergeStream(q, prev, cur)) = Range(merged) \cup Range(rest)
  BY <1>3, <1>5, <1>6, RangeOfConcat
<1>8. ASSUME NEW k \in DOMAIN q, q[k].kind = "DEAL_ADD"
      PROVE  \E e \in Range(MergeStream(q, prev, cur)) : e.native = q[k].deal
  <2>1. k \in kept /\ replayed[k].native = q[k].deal
    BY <1>1, <1>8
  <2>. QED  BY <1>5, <1>7, <2>1
<1>9. ASSUME NEW d \in Range(diff), d.type # "trade_volume_changed"
      PROVE  \E e \in Range(MergeStream(q, prev, cur)) :
                /\ e.type = d.type /\ e.ticket = d.ticket
                /\ e = d \/ (e.type = "trade_modified" => e.sl = cur[e.ticket].sl)
  <2>1. CASE <<d.type, d.ticket>> \notin covered
    <3>1. PICK i \in DOMAIN diff : diff[i] = d
      BY DEF Range
    <3>2. i \in new
      <4>1. ~IsEcho(d)
        BY <1>9
      <4>. HIDE DEF IsEcho, covered
      <4>. QED  BY <2>1, <3>1, <4>1
    <3>3. d \in Range(rest)
      BY <1>6, <3>1, <3>2
    <3>. QED  BY <1>7, <3>3
  <2>2. CASE <<d.type, d.ticket>> \in covered
    <3>1. PICK e \in Range(merged) : e.type = d.type /\ e.ticket = d.ticket
      BY <2>2
    <3>2. PICK i \in kept : replayed[i] = e
      BY <1>5, <3>1
    <3>3. e.type = "trade_modified" => e.sl = cur[e.ticket].sl
      BY <1>1, <3>2
    <3>. QED  BY <1>7, <3>1, <3>3
  <2>. QED  BY <2>1, <2>2
<1>. QED  BY <1>7, <1>8, <1>9 DEF diff

\* What a poll reports tells of every deal it read and of every change of the
\* snapshot (live_sync.py poll_once, detect_windows_events).
LEMMA PollEventsAre ==
  ASSUME NEW q \in Seq(Record), NEW prev, IsPositions(prev), NEW cur, IsPositions(cur)
  PROVE  /\ PollEvents(q, prev, cur) \in Seq(Event)
         /\ TellOfChanges(Range(PollEvents(q, prev, cur)), prev, cur)
         /\ \A k \in DOMAIN q : q[k].kind = "DEAL_ADD" =>
              \E e \in Range(PollEvents(q, prev, cur)) : e.native = q[k].deal
<1>. DEFINE es == PollEvents(q, prev, cur)
            diff == DetectEvents(prev, cur)
<1>1. /\ diff \in Seq(Event)
      /\ \A p \in DOMAIN cur \ DOMAIN prev :
           Opened(p, NoDeal, cur[p].vol, cur[p].sl) \in Range(diff)
      /\ \A p \in DOMAIN prev \ DOMAIN cur : Closed(p, NoDeal, prev[p].vol) \in Range(diff)
      /\ \A p \in DOMAIN prev \cap DOMAIN cur : prev[p].sl # cur[p].sl =>
           Modified(p, cur[p].sl, prev[p].sl) \in Range(diff)
  BY DetectEventsAre
<1>. HIDE DEF diff
<1>2. /\ es \in Seq(Event)
      /\ \A k \in DOMAIN q : q[k].kind = "DEAL_ADD" => \E e \in Range(es) : e.native = q[k].deal
      /\ \A d \in Range(diff) : d.type # "trade_volume_changed" =>
           \E e \in Range(es) :
              /\ e.type = d.type /\ e.ticket = d.ticket
              /\ e = d \/ (e.type = "trade_modified" => e.sl = cur[e.ticket].sl)
  <2>1. CASE q = <<>>
    <3>1. es = diff /\ DOMAIN q = {}
      BY <2>1 DEF PollEvents, diff
    <3>. HIDE DEF es
    <3>. QED  BY <1>1, <3>1
  <2>2. CASE q # <<>>
    <3>1. es = MergeStream(q, prev, cur)
      BY <2>2 DEF PollEvents
    <3>. HIDE DEF es
    <3>. QED  BY <3>1, MergeStreamIs DEF diff
  <2>. QED  BY <2>1, <2>2
<1>. HIDE DEF es
<1>3. ASSUME NEW p \in DOMAIN cur \ DOMAIN prev
      PROVE  \E e \in Range(es) : e.type = "trade_opened" /\ e.ticket = p
  <2>. DEFINE d == Opened(p, NoDeal, cur[p].vol, cur[p].sl)
  <2>1. d \in Range(diff) /\ d.type = "trade_opened" /\ d.ticket = p
    BY <1>1 DEF Opened, JournalEvent
  <2>. HIDE DEF d
  <2>. QED  BY <1>2, <2>1
<1>4. ASSUME NEW p \in DOMAIN prev \ DOMAIN cur
      PROVE  \E e \in Range(es) : e.type = "trade_closed" /\ e.ticket = p
  <2>. DEFINE d == Closed(p, NoDeal, prev[p].vol)
  <2>1. d \in Range(diff) /\ d.type = "trade_closed" /\ d.ticket = p
    BY <1>1 DEF Closed, JournalEvent
  <2>. HIDE DEF d
  <2>. QED  BY <1>2, <2>1
<1>5. ASSUME NEW p \in DOMAIN prev \cap DOMAIN cur, prev[p].sl # cur[p].sl
      PROVE  \E e \in Range(es) : e.type = "trade_modified" /\ e.ticket = p /\ e.sl = cur[p].sl
  <2>. DEFINE d == Modified(p, cur[p].sl, prev[p].sl)
  <2>1. d \in Range(diff)
    BY <1>1, <1>5
  <2>2. d.type = "trade_modified" /\ d.ticket = p /\ d.sl = cur[p].sl
    BY DEF Modified, JournalEvent
  <2>. HIDE DEF d
  <2>. QED  BY <1>2, <2>1, <2>2
<1>. QED  BY <1>2, <1>3, <1>4, <1>5 DEF es, TellOfChanges

-----------------------------------------------------------------------------
(* Identities.                                                              *)

\* Events of one identity are of one type, position and deal, and of one stop.
LEMMA EventIdIs ==
  ASSUME NEW e \in Event, NEW f \in Event, EventId(e) = EventId(f)
  PROVE  /\ e.type = f.type /\ e.ticket = f.ticket /\ e.native = f.native
         /\ e.type = "trade_modified" => e.sl = f.sl
<1>. DEFINE id(x) == IF x.native # NoDeal THEN <<>>
                     ELSE CASE x.type = "trade_opened"         -> <<x.vol, x.sl>>
                            [] x.type = "trade_modified"       -> <<x.sl, x.wasSl>>
                            [] x.type = "trade_volume_changed" -> <<x.vol, x.was, x.lowers>>
                            [] OTHER                           -> <<x.vol>>
<1>1. \A x : EventId(x) = <<x.type, x.ticket, x.native, id(x)>>
  BY DEF EventId
<1>. HIDE DEF id
<1>2. e.type = f.type /\ e.ticket = f.ticket /\ e.native = f.native /\ id(e) = id(f)
  BY <1>1
<1>3. ASSUME NEW x \in Event, x.type = "trade_modified" PROVE id(x) = <<x.sl, x.wasSl>>
  BY <1>3 DEF id, Event
<1>4. ASSUME e.type = "trade_modified" PROVE e.sl = f.sl
  <2>1. id(e) = <<e.sl, e.wasSl>> /\ id(f) = <<f.sl, f.wasSl>>
    BY <1>2, <1>3, <1>4
  <2>2. <<e.sl, e.wasSl>> = <<f.sl, f.wasSl>>
    BY <1>2, <2>1, Zenon
  <2>. QED  BY <2>2
<1>. QED  BY <1>2, <1>4

\* enqueue_many keeps what is pending and leaves no identity of the batch out.
LEMMA NewPlacesAre ==
  ASSUME NEW es \in Seq(Event), NEW q \in Seq(Event)
  PROVE  LET all == q \o Sublist(es, NewPlaces(es, q))
         IN  /\ all \in Seq(Event) /\ Range(q) \subseteq Range(all)
             /\ \A e \in Range(es) : \E f \in Range(all) : EventId(f) = EventId(e)
<1>. DEFINE new == NewPlaces(es, q)
            added == Sublist(es, new)
            all == q \o added
<1>1. new \in SUBSET DOMAIN es
  BY DEF NewPlaces
<1>. HIDE DEF new
<1>2. added \in Seq(Event) /\ Range(added) = {es[i] : i \in new}
  BY <1>1, SublistIs
<1>. HIDE DEF added
<1>3. all \in Seq(Event) /\ Range(all) = Range(q) \cup Range(added)
  BY <1>2, RangeOfConcat
<1>4. ASSUME NEW e \in Range(es) PROVE \E f \in Range(all) : EventId(f) = EventId(e)
  <2>. DEFINE same == {i \in DOMAIN es : EventId(es[i]) = EventId(e)}
  <2>1. DOMAIN es = 1..Len(es) /\ Len(es) \in Nat
    BY LenProperties
  <2>2. same \in SUBSET Nat /\ same # {}
    BY <2>1 DEF Range
  <2>. HIDE DEF same
  <2>3. PICK i \in same : \A j \in same : i <= j
    BY <2>2, SmallestNumber
  <2>4. i \in 1..Len(es) /\ EventId(es[i]) = EventId(e)
    BY <2>1, <2>3 DEF same
  <2>5. ASSUME NEW j \in 1..(i - 1) PROVE EventId(es[j]) # EventId(es[i])
    <3>1. j \in 1..Len(es) /\ ~(i <= j)
      BY <2>1, <2>4
    <3>2. j \notin same
      BY <2>3, <3>1
    <3>. QED  BY <2>1, <2>4, <3>1, <3>2 DEF same
  <2>6. CASE \E j \in DOMAIN q : EventId(q[j]) = EventId(es[i])
    BY <1>3, <2>4, <2>6 DEF Range
  <2>7. CASE \A j \in DOMAIN q : EventId(q[j]) # EventId(es[i])
    <3>1. i \in new
      BY <2>1, <2>4, <2>5, <2>7 DEF new, NewPlaces
    <3>. QED  BY <1>2, <1>3, <2>4, <3>1
  <2>. QED  BY <2>6, <2>7
<1>. QED  BY <1>3, <1>4 DEF all, added, new
-----------------------------------------------------------------------------
(* The invariant.  First what the variables hold.                           *)

Deal == [pos : Position, entry : {"IN", "OUT"}, vol : Nat, was : Nat]

Callback == [kind : {"DEAL_ADD", "POSITION"}, deal : 0..MaxDeals, pos : Position]

\* Published records carry the number of their file.
IsPublished(q) == q \in Seq(Record) /\ \A i \in 1..Len(q) : q[i].seq = i

\* Every volume was dealt lot by lot; only executed deals wait for their record.
BrokerTypes ==
  /\ deals \in Seq(Deal) /\ Len(deals) <= MaxDeals /\ changes \in 0..MaxChanges
  /\ IsPositions(book) /\ \A p \in DOMAIN book : book[p].vol <= Len(deals)
  /\ callbacks \in Seq(Callback)
  /\ \A t \in Range(callbacks) : t.kind = "DEAL_ADD" => t.deal \in 1..Len(deals)

BridgeTypes ==
  /\ retryQueue \in Seq(1..Len(deals)) /\ Len(retryQueue) <= MaxPending
  /\ IsPublished(stream)
  /\ IsPositions(bundle.positions) /\ bundle.seq \in 0..Len(stream)

PollTypes ==
  /\ acked \in 0..Len(stream)
  /\ IsPositions(saved) /\ IsPositions(current.positions)
  /\ outbox \in Seq(Event) /\ journal \in Seq(Event) /\ payloads \in Seq(Event)
  /\ pc \in {"recover", "read", "acknowledge", "save", "deliver"}
  /\ interrupts \in 0..MaxInterrupts /\ torn \in BOOLEAN /\ misaligned \in BOOLEAN

Types == BrokerTypes /\ BridgeTypes /\ PollTypes

\* The deals of the first n records of q are told by events among E.
DealsTold(E, q, n) ==
  \A i \in 1..n : q[i].kind = "DEAL_ADD" => \E e \in E : e.native = q[i].deal

\* F has every identity of E.
Covers(E, F) == \A e \in E : \E f \in F : EventId(f) = EventId(e)

\* What the files to acknowledge tell is reported, and so is what the snapshot
\* to save changes: the outbox was written before either.
BatchIsReported ==
  /\ pc = "acknowledge" =>
       /\ Last(records).seq \in 0..Len(stream)
       /\ DealsTold(Reported, stream, Last(records).seq)
  /\ pc \in {"acknowledge", "save"} => TellOfChanges(Reported, saved, current.positions)

\* An identity is remembered as delivered only once it has been reported.
KnownIsReported ==
  /\ \A id \in known : \E f \in Reported : EventId(f) = id
  /\ Covers(Range(payloads), Reported)

IInv == /\ Types
        /\ DealsTold(Reported, stream, acked)
        /\ BatchIsReported /\ KnownIsReported

-----------------------------------------------------------------------------
(* What a step leaves of a report.                                          *)

LEMMA CoversTwice ==
  ASSUME NEW E, NEW F, NEW G, Covers(E, F), Covers(F, G)
  PROVE  Covers(E, G)
<1>1. ASSUME NEW e \in E PROVE \E g \in G : EventId(g) = EventId(e)
  <2>1. PICK f \in F : EventId(f) = EventId(e)
    BY DEF Covers
  <2>2. PICK g \in G : EventId(g) = EventId(f)
    BY DEF Covers
  <2>. QED  BY <2>1, <2>2
<1>. QED  BY <1>1 DEF Covers

\* Deals stay told when identities and records stay.
LEMMA DealsStayTold ==
  ASSUME NEW E \in SUBSET Event, NEW F \in SUBSET Event, Covers(E, F),
         NEW q, NEW r, NEW n, \A i \in 1..n : r[i] = q[i], DealsTold(E, q, n)
  PROVE  DealsTold(F, r, n)
<1>1. ASSUME NEW i \in 1..n, r[i].kind = "DEAL_ADD" PROVE \E f \in F : f.native = r[i].deal
  <2>1. r[i] = q[i]
    OBVIOUS
  <2>2. PICK e \in E : e.native = q[i].deal
    BY <1>1, <2>1 DEF DealsTold
  <2>3. PICK f \in F : EventId(f) = EventId(e)
    BY DEF Covers
  <2>4. f.native = e.native
    BY <2>3, EventIdIs
  <2>. QED  BY <2>1, <2>2, <2>4
<1>. QED  BY <1>1 DEF DealsTold

\* So do the changes of the snapshot.
LEMMA ChangesStayTold ==
  ASSUME NEW E \in SUBSET Event, NEW F \in SUBSET Event, Covers(E, F),
         NEW prev, NEW cur, TellOfChanges(E, prev, cur)
  PROVE  TellOfChanges(F, prev, cur)
<1>1. ASSUME NEW e \in E
      PROVE  \E f \in F : /\ f.type = e.type /\ f.ticket = e.ticket
                          /\ e.type = "trade_modified" => f.sl = e.sl
  <2>1. PICK f \in F : EventId(f) = EventId(e)
    BY DEF Covers
  <2>2. /\ e.type = f.type /\ e.ticket = f.ticket
        /\ e.type = "trade_modified" => e.sl = f.sl
    BY <2>1, EventIdIs
  <2>. QED  BY <2>2
<1>2. ASSUME NEW p \in DOMAIN cur \ DOMAIN prev
      PROVE  \E e \in F : e.type = "trade_opened" /\ e.ticket = p
  <2>1. PICK e \in E : e.type = "trade_opened" /\ e.ticket = p
    BY DEF TellOfChanges
  <2>. QED  BY <1>1, <2>1
<1>3. ASSUME NEW p \in DOMAIN prev \ DOMAIN cur
      PROVE  \E e \in F : e.type = "trade_closed" /\ e.ticket = p
  <2>1. PICK e \in E : e.type = "trade_closed" /\ e.ticket = p
    BY DEF TellOfChanges
  <2>. QED  BY <1>1, <2>1
<1>4. ASSUME NEW p \in DOMAIN prev \cap DOMAIN cur, prev[p].sl # cur[p].sl
      PROVE  \E e \in F : e.type = "trade_modified" /\ e.ticket = p /\ e.sl = cur[p].sl
  <2>1. PICK e \in E : e.type = "trade_modified" /\ e.ticket = p /\ e.sl = cur[p].sl
    BY <1>4 DEF TellOfChanges
  <2>. QED  BY <1>1, <2>1
<1>. QED  BY <1>2, <1>3, <1>4 DEF TellOfChanges

\* Publishing adds records and gives them the numbers of their files.
LEMMA PublishIs ==
  ASSUME NEW q, IsPublished(q), NEW rs \in Seq(Record), NEW r,
         r = q \o [i \in DOMAIN rs |-> [rs[i] EXCEPT !.seq = Len(q) + i]]
  PROVE  /\ IsPublished(r) /\ Len(q) \in Nat /\ Len(r) \in Nat /\ Len(q) <= Len(r)
         /\ \A i \in 1..Len(q) : r[i] = q[i]
<1>. DEFINE N == Len(q)
            M == Len(rs)
            num == [i \in DOMAIN rs |-> [rs[i] EXCEPT !.seq = N + i]]
<1>1. q \in Seq(Record) /\ \A i \in 1..Len(q) : q[i].seq = i
  BY DEF IsPublished
<1>2. /\ N \in Nat /\ M \in Nat /\ DOMAIN rs = 1..M /\ \A i \in 1..M : rs[i] \in Record
  BY <1>1, LenProperties
<1>. HIDE DEF N, M
<1>3. num = [i \in 1..M |-> [rs[i] EXCEPT !.seq = N + i]]
  BY <1>2
<1>4. ASSUME NEW i \in 1..M PROVE num[i] \in Record /\ num[i].seq = N + i
  <2>1. num[i] = [rs[i] EXCEPT !.seq = N + i] /\ rs[i] \in Record /\ N + i \in Nat
    BY <1>2, <1>3
  <2>. HIDE DEF num
  <2>. QED  BY <2>1 DEF Record
<1>. HIDE DEF num
<1>5. num \in Seq(Record) /\ Len(num) = M
  <2>1. num \in [1..M -> Record]
    BY <1>3, <1>4
  <2>2. num \in Seq(Record)
    BY <1>2, <2>1, SeqDef
  <2>. QED  BY <1>2, <2>1, <2>2, LenProperties
<1>6. r = q \o num
  BY DEF num, N
<1>7. /\ r \in Seq(Record) /\ Len(r) = N + M
      /\ \A i \in 1..(N + M) : r[i] = IF i <= N THEN q[i] ELSE num[i - N]
  <2>1. /\ q \o num \in Seq(Record) /\ Len(q \o num) = Len(q) + Len(num)
        /\ \A i \in 1..(Len(q) + Len(num)) :
             (q \o num)[i] = IF i <= Len(q) THEN q[i] ELSE num[i - Len(q)]
    BY <1>1, <1>5, ConcatProperties
  <2>2. Len(q) = N
    BY DEF N
  <2>. QED  BY <1>5, <1>6, <2>1, <2>2
<1>8. ASSUME NEW i \in 1..(N + M) PROVE r[i].seq = i
  <2>1. CASE i <= N
    BY <1>1, <1>2, <1>7, <2>1 DEF N
  <2>2. CASE ~(i <= N)
    <3>1. i - N \in 1..M /\ N + (i - N) = i
      BY <1>2, <2>2
    <3>. QED  BY <1>4, <1>7, <2>2, <3>1
  <2>. QED  BY <2>1, <2>2
<1>9. IsPublished(r) /\ N <= Len(r) /\ Len(r) \in Nat
  BY <1>2, <1>7, <1>8 DEF IsPublished
<1>10. \A i \in 1..N : r[i] = q[i]
  BY <1>2, <1>7
<1>. QED  BY <1>2, <1>9, <1>10 DEF N

-----------------------------------------------------------------------------
(* The steps.                                                               *)

LEMMA TailIs ==
  ASSUME NEW T, NEW q \in Seq(T), q # <<>>
  PROVE  /\ Head(q) \in T /\ Tail(q) \in Seq(T)
         /\ Head(q) \in Range(q) /\ Range(Tail(q)) \subseteq Range(q)
         /\ \A x \in Range(q) : x = Head(q) \/ x \in Range(Tail(q))
<1>1. /\ Tail(q) \in Seq(T) /\ Len(Tail(q)) = Len(q) - 1
      /\ \A i \in 1..Len(Tail(q)) : Tail(q)[i] = q[i + 1]
  BY HeadTailProperties
<1>2. Len(q) \in Nat \ {0} /\ DOMAIN q = 1..Len(q) /\ \A i \in 1..Len(q) : q[i] \in T
  BY EmptySeq, LenProperties
<1>3. DOMAIN Tail(q) = 1..Len(Tail(q)) /\ Len(Tail(q)) \in Nat
  BY <1>1, LenProperties
<1>4. Head(q) = q[1]
  BY <1>2
<1>5. Head(q) \in T /\ Head(q) \in Range(q)
  BY <1>2, <1>4 DEF Range
<1>6. ASSUME NEW x \in Range(Tail(q)) PROVE x \in Range(q)
  <2>1. PICK i \in 1..Len(Tail(q)) : Tail(q)[i] = x
    BY <1>3 DEF Range
  <2>2. i + 1 \in 1..Len(q) /\ q[i + 1] = x
    BY <1>1, <1>2, <2>1
  <2>. QED  BY <1>2, <2>2 DEF Range
<1>7. ASSUME NEW x \in Range(q) PROVE x = Head(q) \/ x \in Range(Tail(q))
  <2>1. PICK i \in 1..Len(q) : q[i] = x
    BY <1>2 DEF Range
  <2>2. CASE i = 1
    BY <1>4, <2>1, <2>2
  <2>3. CASE i # 1
    <3>1. i - 1 \in 1..Len(Tail(q)) /\ (i - 1) + 1 = i
      BY <1>1, <1>2, <2>3
    <3>2. Tail(q)[i - 1] = x
      BY <1>1, <2>1, <3>1
    <3>. QED  BY <1>3, <3>1, <3>2 DEF Range
  <2>. QED  BY <2>2, <2>3
<1>. QED  BY <1>1, <1>5, <1>6, <1>7

\* The broker and the bridge leave what was reported as it is.
LEMMA ReportsUntouched ==
  ASSUME IInv, UNCHANGED <<storeVars, outbox, journal, pc, pollVars>>,
         Len(stream) <= Len(stream'), Len(stream) \in Nat, Len(stream') \in Nat,
         \A i \in 1..Len(stream) : stream'[i] = stream[i]
  PROVE  /\ DealsTold(Reported, stream, acked)'
         /\ BatchIsReported' /\ KnownIsReported' /\ acked' \in 0..Len(stream')
<1>1. /\ Reported' = Reported /\ acked' = acked /\ saved' = saved /\ known' = known
      /\ pc' = pc /\ current' = current /\ records' = records /\ payloads' = payloads
  BY DEF Reported, storeVars, pollVars
<1>2. acked \in 0..Len(stream)
  BY DEF IInv, Types, PollTypes
<1>3. ASSUME NEW n \in 0..Len(stream), DealsTold(Reported, stream, n)
      PROVE  DealsTold(Reported, stream', n)
  BY <1>3 DEF DealsTold
<1>4. DealsTold(Reported', stream', acked') /\ acked' \in 0..Len(stream')
  <2>1. DealsTold(Reported, stream, acked)
    BY DEF IInv
  <2>. QED  BY <1>1, <1>2, <1>3, <2>1
<1>5. KnownIsReported'
  BY <1>1 DEF IInv, KnownIsReported
<1>6. BatchIsReported'
  <2>1. BatchIsReported
    BY DEF IInv
  <2>2. CASE pc = "acknowledge"
    <3>1. /\ Last(records).seq \in 0..Len(stream)
          /\ DealsTold(Reported, stream, Last(records).seq)
      BY <2>1, <2>2 DEF BatchIsReported
    <3>2. DealsTold(Reported, stream', Last(records).seq)
      BY <1>3, <3>1
    <3>3. Last(records).seq \in 0..Len(stream')
      BY <3>1
    <3>. QED  BY <1>1, <2>1, <3>2, <3>3 DEF BatchIsReported
  <2>3. CASE pc # "acknowledge"
    BY <1>1, <2>1, <2>3 DEF BatchIsReported
  <2>. QED  BY <2>2, <2>3
<1>. QED  BY <1>4, <1>5, <1>6 DEF DealsTold

\* A transaction the broker reports is one more callback.
LEMMA CallbackTypes ==
  ASSUME NEW q \in Seq(Callback), NEW n, NEW m, n \in Nat, m \in Nat, n <= m,
         \A t \in Range(q) : t.kind = "DEAL_ADD" => t.deal \in 1..n,
         NEW t \in Callback, t.kind = "DEAL_ADD" => t.deal \in 1..m
  PROVE  /\ Append(q, t) \in Seq(Callback)
         /\ \A u \in Range(Append(q, t)) : u.kind = "DEAL_ADD" => u.deal \in 1..m
<1>1. Append(q, t) \in Seq(Callback) /\ Range(Append(q, t)) = Range(q) \cup {t}
  BY RangeOfAppend
<1>2. ASSUME NEW u \in Range(q), u.kind = "DEAL_ADD" PROVE u.deal \in 1..m
  <2>1. u.deal \in 1..n
    BY <1>2
  <2>. QED  BY <2>1
<1>. QED  BY <1>1, <1>2

\* A deal: the book has to be shown by the operation itself.
LEMMA ExecuteKeeps ==
  ASSUME IInv, NEW p \in Position, NEW entry \in {"IN", "OUT"}, NEW vol \in Nat,
         NEW was \in Nat, Execute(p, entry, vol, was),
         IsPositions(book'), \A x \in DOMAIN book' : book'[x].vol <= Len(deals) + 1
  PROVE  IInv'
<1>. DEFINE d == [pos |-> p, entry |-> entry, vol |-> vol, was |-> was]
            t == [kind |-> "DEAL_ADD", deal |-> Len(deals) + 1, pos |-> p]
<1>1. /\ BrokerTypes /\ BridgeTypes /\ PollTypes
  BY DEF IInv, Types
<1>2. /\ deals' = Append(deals, d) /\ callbacks' = Append(callbacks, t) /\ Len(deals) < MaxDeals
      /\ UNCHANGED <<changes, retryQueue, stream, bundle, storeVars, outbox, journal,
                     pc, pollVars, interrupts, torn, misaligned>>
  BY DEF Execute
<1>3. /\ Len(deals) \in Nat /\ MaxDeals \in Nat /\ deals \in Seq(Deal)
  BY <1>1, LenProperties, JournalAssumption DEF BrokerTypes, JournalAssumption
<1>4. d \in Deal /\ t \in Callback
  BY <1>2, <1>3 DEF Deal, Callback
<1>5. t.kind = "DEAL_ADD" => t.deal \in 1..(Len(deals) + 1)
  BY <1>3
<1>. HIDE DEF d, t
<1>6. deals' \in Seq(Deal) /\ Len(deals') = Len(deals) + 1
  BY <1>2, <1>3, <1>4, RangeOfAppend
<1>7. /\ callbacks' \in Seq(Callback)
      /\ \A u \in Range(callbacks') : u.kind = "DEAL_ADD" => u.deal \in 1..(Len(deals) + 1)
  <2>1. /\ callbacks \in Seq(Callback)
        /\ \A u \in Range(callbacks) : u.kind = "DEAL_ADD" => u.deal \in 1..Len(deals)
    BY <1>1 DEF BrokerTypes
  <2>2. Len(deals) + 1 \in Nat /\ Len(deals) <= Len(deals) + 1
    BY <1>3
  <2>. QED  BY <1>2, <1>3, <1>4, <1>5, <2>1, <2>2, CallbackTypes
<1>8. BrokerTypes'
  BY <1>1, <1>2, <1>3, <1>6, <1>7 DEF BrokerTypes
<1>9. BridgeTypes'
  <2>1. retryQueue' \in Seq(1..Len(deals'))
    <3>1. retryQueue \in Seq(1..Len(deals)) /\ 1..Len(deals) \subseteq 1..Len(deals')
      BY <1>1, <1>3, <1>6 DEF BridgeTypes
    <3>. QED  BY <1>2, <3>1, SeqMonotonic
  <2>. QED  BY <1>1, <1>2, <2>1 DEF BridgeTypes, IsPublished
<1>10. PollTypes'
  BY <1>1, <1>2 DEF PollTypes, storeVars, pollVars
<1>11. /\ DealsTold(Reported, stream, acked)' /\ BatchIsReported' /\ KnownIsReported'
  <2>1. Len(stream) \in Nat /\ stream' = stream
    BY <1>1, <1>2, LenProperties DEF BridgeTypes, IsPublished
  <2>2. UNCHANGED <<storeVars, outbox, journal, pc, pollVars>>
    BY <1>2
  <2>. QED  BY <2>1, <2>2, ReportsUntouched
<1>. QED  BY <1>8, <1>9, <1>10, <1>11 DEF IInv, Types

LEMMA OpenPositionKeeps ==
  ASSUME IInv, NEW p \in Position, NEW sl \in Stop, OpenPosition(p, sl)
  PROVE  IInv'
<1>1. /\ IsPositions(book) /\ \A x \in DOMAIN book : book[x].vol <= Len(deals)
      /\ deals \in Seq(Deal) /\ Len(deals) \in Nat /\ MaxDeals \in Nat /\ Len(deals) < MaxDeals
  BY LenProperties, JournalAssumption
     DEF IInv, Types, BrokerTypes, OpenPosition, Execute, JournalAssumption
<1>2. /\ book' = [q \in DOMAIN book \cup {p} |->
                    IF q = p THEN [vol |-> 1, sl |-> sl] ELSE book[q]]
      /\ Execute(p, "IN", 1, 0)
  BY DEF OpenPosition
<1>3. IsFiniteSet(DOMAIN book \cup {p}) /\ DOMAIN book' = DOMAIN book \cup {p}
  <2>1. IsFiniteSet(DOMAIN book)
    BY <1>1 DEF IsPositions
  <2>. QED  BY <1>2, <2>1, FS_AddElement
<1>4. ASSUME NEW x \in DOMAIN book'
      PROVE  /\ x \in Position /\ book'[x] \in [vol : 1..MaxDeals, sl : Stop]
             /\ book'[x].vol <= Len(deals) + 1
  <2>1. CASE x = p
    BY <1>1, <1>2, <1>3, <2>1
  <2>2. CASE x # p
    <3>1. x \in DOMAIN book /\ book'[x] = book[x]
      BY <1>2, <1>3, <2>2
    <3>2. x \in Position /\ book[x] \in [vol : 1..MaxDeals, sl : Stop]
      BY <1>1, <3>1 DEF IsPositions
    <3>. QED  BY <1>1, <3>1, <3>2
  <2>. QED  BY <2>1, <2>2
<1>5. IsPositions(book')
  <2>1. book' \in [DOMAIN book' -> [vol : 1..MaxDeals, sl : Stop]]
    BY <1>2, <1>4
  <2>. QED  BY <1>3, <1>4, <2>1 DEF IsPositions
<1>. QED  BY <1>2, <1>4, <1>5, ExecuteKeeps

LEMMA ScaleInKeeps ==
  ASSUME IInv, NEW p \in Position, ScaleIn(p)
  PROVE  IInv'
<1>1. /\ IsPositions(book) /\ \A x \in DOMAIN book : book[x].vol <= Len(deals)
      /\ deals \in Seq(Deal) /\ Len(deals) \in Nat /\ MaxDeals \in Nat /\ Len(deals) < MaxDeals
  BY LenProperties, JournalAssumption
     DEF IInv, Types, BrokerTypes, ScaleIn, Execute, JournalAssumption
<1>2. /\ p \in DOMAIN book /\ book' = [book EXCEPT ![p].vol = @ + 1]
      /\ Execute(p, "IN", 1, book[p].vol)
  BY DEF ScaleIn
<1>3. \A x \in DOMAIN book : book[x] \in [vol : 1..MaxDeals, sl : Stop]
  BY <1>1 DEF IsPositions
<1>4. DOMAIN book' = DOMAIN book /\ book[p].vol \in Nat
  BY <1>1, <1>2, <1>3
<1>5. ASSUME NEW x \in DOMAIN book
      PROVE  /\ book'[x] \in [vol : 1..MaxDeals, sl : Stop]
             /\ book'[x].vol <= Len(deals) + 1
  <2>1. CASE x = p
    <3>1. book'[x] = [book[p] EXCEPT !.vol = @ + 1]
      BY <1>2, <2>1
    <3>2. book[p] \in [vol : 1..MaxDeals, sl : Stop] /\ book[p].vol <= Len(deals)
      BY <1>1, <1>2, <1>3
    <3>. QED  BY <1>1, <3>1, <3>2
  <2>2. CASE x # p
    <3>1. book'[x] = book[x]
      BY <1>2, <2>2
    <3>. QED  BY <1>1, <1>3, <3>1
  <2>. QED  BY <2>1, <2>2
<1>6. IsPositions(book')
  <2>1. book' = [x \in DOMAIN book |-> book'[x]]
    BY <1>2
  <2>2. book' \in [DOMAIN book' -> [vol : 1..MaxDeals, sl : Stop]]
    BY <1>4, <1>5, <2>1
  <2>. QED  BY <1>1, <1>4, <2>2 DEF IsPositions
<1>. QED  BY <1>2, <1>4, <1>5, <1>6, ExecuteKeeps

LEMMA ReduceKeeps ==
  ASSUME IInv, NEW p \in Position, NEW vol \in 1..MaxDeals, Reduce(p, vol)
  PROVE  IInv'
<1>1. /\ IsPositions(book) /\ \A x \in DOMAIN book : book[x].vol <= Len(deals)
      /\ deals \in Seq(Deal) /\ Len(deals) \in Nat /\ MaxDeals \in Nat /\ Len(deals) < MaxDeals
  BY LenProperties, JournalAssumption
     DEF IInv, Types, BrokerTypes, Reduce, Execute, JournalAssumption
<1>2. /\ p \in DOMAIN book /\ vol \in 1..book[p].vol /\ Execute(p, "OUT", vol, book[p].vol)
      /\ book' = IF vol = book[p].vol
                 THEN [q \in DOMAIN book \ {p} |-> book[q]]
                 ELSE [book EXCEPT ![p].vol = @ - vol]
  BY DEF Reduce
<1>3. \A x \in DOMAIN book : x \in Position /\ book[x] \in [vol : 1..MaxDeals, sl : Stop]
  BY <1>1 DEF IsPositions
<1>4. book[p].vol \in 1..MaxDeals /\ book[p].vol <= Len(deals) /\ vol \in Nat
  BY <1>1, <1>2, <1>3
<1>5. IsPositions(book') /\ \A x \in DOMAIN book' : book'[x].vol <= Len(deals) + 1
  <2>1. CASE vol = book[p].vol
    <3>1. book' = [q \in DOMAIN book \ {p} |-> book[q]]
      BY <1>2, <2>1
    <3>2. DOMAIN book' = DOMAIN book \ {p} /\ \A x \in DOMAIN book' : book'[x] = book[x]
      BY <3>1
    <3>3. IsFiniteSet(DOMAIN book \ {p})
      <4>1. IsFiniteSet(DOMAIN book) /\ DOMAIN book \ {p} \subseteq DOMAIN book
        BY <1>1 DEF IsPositions
      <4>. QED  BY <4>1, FS_Subset
    <3>4. book' \in [DOMAIN book' -> [vol : 1..MaxDeals, sl : Stop]]
      BY <1>3, <3>1, <3>2
    <3>. QED  BY <1>1, <1>3, <3>2, <3>3, <3>4 DEF IsPositions
  <2>2. CASE vol # book[p].vol
    <3>1. book' = [book EXCEPT ![p].vol = @ - vol] /\ DOMAIN book' = DOMAIN book
      BY <1>2, <2>2
    <3>2. ASSUME NEW x \in DOMAIN book
          PROVE  /\ book'[x] \in [vol : 1..MaxDeals, sl : Stop]
                 /\ book'[x].vol <= Len(deals) + 1
      <4>1. CASE x = p
        <5>1. book'[x] = [book[p] EXCEPT !.vol = @ - vol]
          BY <3>1, <4>1
        <5>2. book[p].vol - vol \in 1..MaxDeals /\ book[p].vol - vol <= Len(deals) + 1
          BY <1>1, <1>2, <1>4, <2>2
        <5>3. book[p] \in [vol : 1..MaxDeals, sl : Stop]
          BY <1>2, <1>3
        <5>. QED  BY <5>1, <5>2, <5>3
      <4>2. CASE x # p
        <5>1. book'[x] = book[x]
          BY <3>1, <4>2
        <5>. QED  BY <1>1, <1>3, <5>1
      <4>. QED  BY <4>1, <4>2
    <3>3. book' \in [DOMAIN book' -> [vol : 1..MaxDeals, sl : Stop]]
      <4>1. book' = [x \in DOMAIN book |-> book'[x]]
        BY <3>1
      <4>. QED  BY <3>1, <3>2, <4>1
    <3>. QED  BY <1>1, <3>1, <3>2, <3>3 DEF IsPositions
  <2>. QED  BY <2>1, <2>2
<1>6. book[p].vol \in Nat /\ vol \in Nat
  BY <1>1, <1>4
<1>. QED  BY <1>2, <1>5, <1>6, ExecuteKeeps

LEMMA ChangeStopKeeps ==
  ASSUME IInv, NEW p \in Position, NEW sl \in Stop, ChangeStop(p, sl)
  PROVE  IInv'
<1>. DEFINE t == [kind |-> "POSITION", deal |-> NoDeal, pos |-> p]
<1>1. /\ BrokerTypes /\ BridgeTypes /\ PollTypes
  BY DEF IInv, Types
<1>2. /\ changes < MaxChanges /\ changes' = changes + 1 /\ p \in DOMAIN book
      /\ book' = [book EXCEPT ![p].sl = sl] /\ callbacks' = Append(callbacks, t)
      /\ UNCHANGED <<deals, restarts, retryQueue, stream, bundle, storeVars, outbox, journal,
                     pc, pollVars, interrupts, torn, misaligned>>
  BY DEF ChangeStop
<1>3. /\ Len(deals) \in Nat /\ MaxDeals \in Nat /\ MaxChanges \in Nat
  BY <1>1, LenProperties, JournalAssumption DEF BrokerTypes, JournalAssumption
<1>4. t \in Callback /\ t.kind # "DEAL_ADD"
  BY <1>3 DEF Callback, NoDeal
<1>. HIDE DEF t
<1>5. /\ callbacks' \in Seq(Callback)
      /\ \A u \in Range(callbacks') : u.kind = "DEAL_ADD" => u.deal \in 1..Len(deals)
  <2>1. /\ callbacks \in Seq(Callback)
        /\ \A u \in Range(callbacks) : u.kind = "DEAL_ADD" => u.deal \in 1..Len(deals)
    BY <1>1 DEF BrokerTypes
  <2>2. Len(deals) <= Len(deals)
    BY <1>3
  <2>. QED  BY <1>2, <1>3, <1>4, <2>1, <2>2, CallbackTypes
<1>6. IsPositions(book') /\ \A x \in DOMAIN book' : book'[x].vol <= Len(deals)
  <2>1. \A x \in DOMAIN book :
          book[x] \in [vol : 1..MaxDeals, sl : Stop] /\ book[x].vol <= Len(deals)
    BY <1>1 DEF BrokerTypes, IsPositions
  <2>2. DOMAIN book' = DOMAIN book
    BY <1>2
  <2>3. ASSUME NEW x \in DOMAIN book
        PROVE  book'[x] \in [vol : 1..MaxDeals, sl : Stop] /\ book'[x].vol <= Len(deals)
    <3>1. CASE x = p
      <4>1. book'[x] = [book[p] EXCEPT !.sl = sl]
        BY <1>2, <3>1
      <4>2. book[p] \in [vol : 1..MaxDeals, sl : Stop] /\ book[p].vol <= Len(deals)
        BY <1>2, <2>1
      <4>. QED  BY <4>1, <4>2
    <3>2. CASE x # p
      <4>1. book'[x] = book[x]
        BY <1>2, <3>2
      <4>. QED  BY <2>1, <4>1
    <3>. QED  BY <3>1, <3>2
  <2>4. book' \in [DOMAIN book' -> [vol : 1..MaxDeals, sl : Stop]]
    <3>1. book' = [x \in DOMAIN book |-> book'[x]]
      BY <1>2
    <3>. QED  BY <2>2, <2>3, <3>1
  <2>. QED  BY <1>1, <2>2, <2>3, <2>4 DEF BrokerTypes, IsPositions
<1>7. BrokerTypes'
  <2>1. changes' \in 0..MaxChanges
    BY <1>1, <1>2, <1>3 DEF BrokerTypes
  <2>. QED  BY <1>1, <1>2, <1>5, <1>6, <2>1 DEF BrokerTypes
<1>8. BridgeTypes'
  BY <1>1, <1>2 DEF BridgeTypes, IsPublished
<1>9. PollTypes'
  BY <1>1, <1>2 DEF PollTypes, storeVars, pollVars
<1>10. /\ DealsTold(Reported, stream, acked)' /\ BatchIsReported' /\ KnownIsReported'
  <2>1. Len(stream) \in Nat /\ stream' = stream
    BY <1>1, <1>2, LenProperties DEF BridgeTypes, IsPublished
  <2>2. UNCHANGED <<storeVars, outbox, journal, pc, pollVars>>
    BY <1>2
  <2>. QED  BY <2>1, <2>2, ReportsUntouched
<1>. QED  BY <1>7, <1>8, <1>9, <1>10 DEF IInv, Types

\* The bridge: it publishes records, and queues deals or not.
LEMMA BridgeKeeps ==
  ASSUME IInv, NEW rs \in Seq(Record), Publish(rs),
         callbacks' \in Seq(Callback), Range(callbacks') \subseteq Range(callbacks),
         retryQueue' \in Seq(1..Len(deals)), Len(retryQueue') <= MaxPending,
         IsPositions(bundle'.positions), bundle'.seq \in 0..Len(stream'),
         UNCHANGED <<book, deals, changes, storeVars, outbox, journal, pc, pollVars,
                     interrupts, torn, misaligned>>
  PROVE  IInv'
<1>1. /\ BrokerTypes /\ BridgeTypes /\ PollTypes
  BY DEF IInv, Types
<1>2. /\ IsPublished(stream') /\ Len(stream) \in Nat /\ Len(stream') \in Nat
      /\ Len(stream) <= Len(stream') /\ \A i \in 1..Len(stream) : stream'[i] = stream[i]
  <2>1. IsPublished(stream)
    BY <1>1 DEF BridgeTypes
  <2>2. stream' = stream \o [i \in DOMAIN rs |-> [rs[i] EXCEPT !.seq = Len(stream) + i]]
    BY DEF Publish
  <2>. QED  BY <2>1, <2>2, PublishIs
<1>3. BrokerTypes'
  <2>1. \A t \in Range(callbacks') : t.kind = "DEAL_ADD" => t.deal \in 1..Len(deals)
    BY <1>1 DEF BrokerTypes
  <2>. QED  BY <1>1, <2>1 DEF BrokerTypes
<1>4. BridgeTypes'
  BY <1>2 DEF BridgeTypes
<1>5. /\ DealsTold(Reported, stream, acked)' /\ BatchIsReported' /\ KnownIsReported'
      /\ acked' \in 0..Len(stream')
  <2>1. UNCHANGED <<storeVars, outbox, journal, pc, pollVars>>
    OBVIOUS
  <2>. QED  BY <1>2, <2>1, ReportsUntouched
<1>6. PollTypes'
  BY <1>1, <1>5 DEF PollTypes, storeVars, pollVars
<1>. QED  BY <1>3, <1>4, <1>5, <1>6 DEF IInv, Types

\* The records the bridge publishes.
LEMMA RecordsAre ==
  ASSUME Types
  PROVE  /\ \A d \in 1..Len(deals) : DealRecord(d) \in Record
         /\ \A p \in Position : PositionRecord(p) \in Record
<1>1. deals \in Seq(Deal) /\ Len(deals) <= MaxDeals /\ Len(deals) \in Nat /\ MaxDeals \in Nat
  BY LenProperties, JournalAssumption DEF Types, BrokerTypes, JournalAssumption
<1>2. ASSUME NEW d \in 1..Len(deals) PROVE DealRecord(d) \in Record
  <2>1. deals[d] \in Deal /\ d \in 0..MaxDeals
    BY <1>1, ElementOfSeq
  <2>. QED  BY <2>1 DEF DealRecord, Record, Deal
<1>3. ASSUME NEW p \in Position PROVE PositionRecord(p) \in Record
  <2>1. NoDeal \in 0..MaxDeals /\ 0 \in Nat
    BY <1>1 DEF NoDeal
  <2>2. PositionRecord(p).kind # "DEAL_ADD"
    BY DEF PositionRecord
  <2>3. PositionRecord(p) \in [kind : {"DEAL_ADD", "POSITION"}, pos : Position,
                              deal : 0..MaxDeals, entry : {"IN", "OUT", ""}, vol : Nat, seq : Nat]
    BY <2>1 DEF PositionRecord
  <2>. QED  BY <2>2, <2>3 DEF Record
<1>. QED  BY <1>2, <1>3

LEMMA OnTradeTransactionKeeps ==
  ASSUME IInv, OnTradeTransaction
  PROVE  IInv'
<1>. DEFINE t == Head(callbacks)
<1>1. /\ BrokerTypes /\ BridgeTypes /\ PollTypes /\ Types
  BY DEF IInv, Types
<1>2. /\ callbacks \in Seq(Callback) /\ callbacks # <<>>
      /\ \A u \in Range(callbacks) : u.kind = "DEAL_ADD" => u.deal \in 1..Len(deals)
      /\ callbacks' = Tail(callbacks)
      /\ UNCHANGED <<book, deals, changes, bundle, storeVars, outbox, journal, pc, pollVars,
                     interrupts, torn, misaligned>>
  BY <1>1 DEF OnTradeTransaction, BrokerTypes, brokerVars
<1>3. /\ t \in Callback /\ callbacks' \in Seq(Callback)
      /\ t \in Range(callbacks) /\ Range(callbacks') \subseteq Range(callbacks)
  BY <1>2, TailIs
<1>4. t.pos \in Position /\ (t.kind = "DEAL_ADD" => t.deal \in 1..Len(deals))
  BY <1>2, <1>3 DEF Callback
<1>5. \/ /\ t.kind = "DEAL_ADD" /\ Publish(<<DealRecord(t.deal)>>) /\ retryQueue' = retryQueue
      \/ /\ t.kind = "DEAL_ADD" /\ stream' = stream
         /\ retryQueue' = QueuePendingDealEvent(t.deal)
      \/ /\ Publish(IF t.pos \in DOMAIN book THEN <<PositionRecord(t.pos)>> ELSE <<>>)
         /\ retryQueue' = retryQueue
  BY DEF OnTradeTransaction
<1>. HIDE DEF t
<1>6. /\ retryQueue \in Seq(1..Len(deals)) /\ Len(retryQueue) <= MaxPending
      /\ IsPublished(stream) /\ IsPositions(bundle.positions) /\ bundle.seq \in 0..Len(stream)
  BY <1>1 DEF BridgeTypes
<1>7. ASSUME NEW rs \in Seq(Record), Publish(rs) PROVE bundle'.seq \in 0..Len(stream')
  <2>1. /\ Len(stream) <= Len(stream') /\ Len(stream) \in Nat /\ Len(stream') \in Nat
    BY <1>6, <1>7, PublishIs DEF Publish
  <2>. QED  BY <1>2, <1>6, <2>1
<1>8. ASSUME NEW rs \in Seq(Record), Publish(rs),
             retryQueue' \in Seq(1..Len(deals)), Len(retryQueue') <= MaxPending
      PROVE  IInv'
  <2>1. bundle'.seq \in 0..Len(stream') /\ IsPositions(bundle'.positions)
    BY <1>2, <1>6, <1>7, <1>8
  <2>. QED  BY <1>2, <1>3, <1>8, <2>1, BridgeKeeps
<1>9. <<>> \in Seq(Record)
  BY EmptySeq
<1>10. ASSUME NEW r \in Record PROVE <<r>> \in Seq(Record)
  OBVIOUS
<1>11. CASE t.kind = "DEAL_ADD" /\ Publish(<<DealRecord(t.deal)>>) /\ retryQueue' = retryQueue
  <2>1. DealRecord(t.deal) \in Record
    BY <1>1, <1>4, <1>11, RecordsAre
  <2>2. <<DealRecord(t.deal)>> \in Seq(Record)
    BY <1>10, <2>1
  <2>. QED  BY <1>6, <1>8, <1>11, <2>2
<1>12. CASE /\ t.kind = "DEAL_ADD" /\ stream' = stream
            /\ retryQueue' = QueuePendingDealEvent(t.deal)
  <2>1. Publish(<<>>)
    <3>1. stream \in Seq(Record)
      BY <1>6 DEF IsPublished
    <3>2. [i \in DOMAIN <<>> |-> [<<>>[i] EXCEPT !.seq = Len(stream) + i]] = <<>>
      OBVIOUS
    <3>3. stream \o <<>> = stream
      BY <3>1, ConcatEmptySeq
    <3>. QED  BY <1>12, <3>2, <3>3 DEF Publish
  <2>2. retryQueue' \in Seq(1..Len(deals)) /\ Len(retryQueue') <= MaxPending
    <3>1. CASE Len(retryQueue) < MaxPending
      <4>1. retryQueue' = Append(retryQueue, t.deal) /\ t.deal \in 1..Len(deals)
        BY <1>4, <1>12, <3>1 DEF QueuePendingDealEvent
      <4>2. retryQueue' \in Seq(1..Len(deals)) /\ Len(retryQueue') = Len(retryQueue) + 1
        BY <1>6, <4>1, AppendProperties
      <4>3. Len(retryQueue) \in Nat /\ MaxPending \in Nat
        BY <1>6, LenProperties, JournalAssumption DEF JournalAssumption
      <4>. QED  BY <3>1, <4>2, <4>3
    <3>2. CASE ~(Len(retryQueue) < MaxPending)
      BY <1>6, <1>12, <3>2 DEF QueuePendingDealEvent
    <3>. QED  BY <3>1, <3>2
  <2>. QED  BY <1>8, <1>9, <2>1, <2>2
<1>13. CASE /\ Publish(IF t.pos \in DOMAIN book THEN <<PositionRecord(t.pos)>> ELSE <<>>)
            /\ retryQueue' = retryQueue
  <2>1. PositionRecord(t.pos) \in Record
    BY <1>1, <1>4, RecordsAre
  <2>2. (IF t.pos \in DOMAIN book THEN <<PositionRecord(t.pos)>> ELSE <<>>) \in Seq(Record)
    BY <1>9, <1>10, <2>1
  <2>. QED  BY <1>6, <1>8, <1>13, <2>2
<1>. QED  BY <1>5, <1>11, <1>12, <1>13

LEMMA ReverseIs ==
  ASSUME NEW T, NEW q \in Seq(T)
  PROVE  Reverse(q) \in Seq(T)
<1>1. Len(q) \in Nat /\ \A i \in 1..Len(q) : q[i] \in T
  BY LenProperties
<1>2. \A i \in 1..Len(q) : (Len(q) - i) + 1 \in 1..Len(q)
  BY <1>1
<1>3. Reverse(q) \in [1..Len(q) -> T]
  BY <1>1, <1>2 DEF Reverse
<1>. QED  BY <1>1, <1>3, SeqDef

LEMMA OnTimerKeeps ==
  ASSUME IInv, OnTimer
  PROVE  IInv'
<1>1. /\ BrokerTypes /\ BridgeTypes /\ PollTypes /\ Types
  BY DEF IInv, Types
<1>2. PICK visible \in SUBSET Range(retryQueue) :
        LET ready == {i \in DOMAIN retryQueue : retryQueue[i] \in visible}
            found == Reverse(Sublist(retryQueue, ready))
        IN  /\ Publish([i \in DOMAIN found |-> DealRecord(found[i])])
            /\ retryQueue' = Sublist(retryQueue, DOMAIN retryQueue \ ready)
            /\ bundle' = [positions |-> book, seq |-> Len(stream'),
                          whole |-> callbacks = <<>> /\ IsDealHistory(stream')]
            /\ UNCHANGED <<brokerVars, callbacks, storeVars, outbox, journal, pc,
                           pollVars, interrupts, torn, misaligned>>
  BY DEF OnTimer
<1>. DEFINE ready == {i \in DOMAIN retryQueue : retryQueue[i] \in visible}
            listed == Sublist(retryQueue, ready)
            found == Reverse(listed)
            rs == [i \in DOMAIN found |-> DealRecord(found[i])]
            D == 1..Len(deals)
<1>3. /\ Publish(rs) /\ retryQueue' = Sublist(retryQueue, DOMAIN retryQueue \ ready)
      /\ bundle' = [positions |-> book, seq |-> Len(stream'),
                    whole |-> callbacks = <<>> /\ IsDealHistory(stream')]
      /\ UNCHANGED <<brokerVars, callbacks, storeVars, outbox, journal, pc,
                     pollVars, interrupts, torn, misaligned>>
  BY <1>2
<1>4. retryQueue \in Seq(D) /\ Len(retryQueue) <= MaxPending /\ IsPublished(stream)
  BY <1>1 DEF BridgeTypes
<1>5. ready \in SUBSET DOMAIN retryQueue /\ (DOMAIN retryQueue \ ready) \in SUBSET DOMAIN retryQueue
  OBVIOUS
<1>. HIDE DEF ready, D
<1>6. listed \in Seq(D)
  BY <1>4, <1>5, SublistIs
<1>7. /\ retryQueue' \in Seq(D) /\ Len(retryQueue') <= Len(retryQueue)
  BY <1>3, <1>4, <1>5, SublistIs
<1>. HIDE DEF listed
<1>8. found \in Seq(D)
  BY <1>6, ReverseIs
<1>. HIDE DEF found
<1>9. rs \in Seq(Record)
  <2>1. /\ DOMAIN found = 1..Len(found) /\ Len(found) \in Nat
        /\ \A i \in 1..Len(found) : found[i] \in D
    BY <1>8, LenProperties
  <2>2. \A i \in 1..Len(found) : DealRecord(found[i]) \in Record
    BY <1>1, <2>1, RecordsAre DEF D
  <2>3. rs = [i \in 1..Len(found) |-> DealRecord(found[i])]
    BY <2>1
  <2>4. rs \in [1..Len(found) -> Record]
    BY <2>2, <2>3
  <2>. QED  BY <2>1, <2>4, SeqDef
<1>. HIDE DEF rs
<1>10. bundle'.seq \in 0..Len(stream') /\ IsPositions(bundle'.positions)
  <2>1. Len(stream') \in Nat
    <3>1. stream' = stream \o [i \in DOMAIN rs |-> [rs[i] EXCEPT !.seq = Len(stream) + i]]
      BY <1>3 DEF Publish
    <3>. QED  BY <1>4, <1>9, <3>1, PublishIs
  <2>2. bundle'.positions = book /\ bundle'.seq = Len(stream')
    BY <1>3
  <2>. QED  BY <1>1, <2>1, <2>2 DEF BrokerTypes
<1>11. /\ callbacks' = callbacks /\ callbacks \in Seq(Callback)
       /\ UNCHANGED <<book, deals, changes, storeVars, outbox, journal, pc, pollVars,
                      interrupts, torn, misaligned>>
  BY <1>1, <1>3 DEF brokerVars, BrokerTypes
<1>12. Len(retryQueue') <= MaxPending
  <2>1. Len(retryQueue) \in Nat /\ Len(retryQueue') \in Nat /\ MaxPending \in Nat
    BY <1>4, <1>7, LenProperties, JournalAssumption DEF JournalAssumption
  <2>. QED  BY <1>4, <1>7, <2>1
<1>13. callbacks' \in Seq(Callback) /\ Range(callbacks') \subseteq Range(callbacks)
  BY <1>11
<1>. QED  BY <1>3, <1>7, <1>9, <1>10, <1>11, <1>12, <1>13, BridgeKeeps DEF D

LEMMA RestartExpertKeeps ==
  ASSUME IInv, RestartExpert
  PROVE  IInv'
<1>1. /\ BrokerTypes /\ BridgeTypes
  BY DEF IInv, Types
<1>2. /\ callbacks' = <<>> /\ retryQueue' = <<>>
      /\ UNCHANGED <<book, deals, changes, stream, bundle, storeVars, outbox, journal,
                     pc, pollVars, interrupts, torn, misaligned>>
  BY DEF RestartExpert
<1>3. /\ callbacks' \in Seq(Callback) /\ Range(callbacks') \subseteq Range(callbacks)
      /\ retryQueue' \in Seq(1..Len(deals)) /\ Len(retryQueue') <= MaxPending
  <2>1. Range(<<>>) = {}
    BY DEF Range
  <2>2. MaxPending \in Nat /\ Len(<<>>) = 0
    BY JournalAssumption DEF JournalAssumption
  <2>. QED  BY <1>2, <2>1, <2>2, EmptySeq
<1>4. <<>> \in Seq(Record) /\ Publish(<<>>)
  <2>1. stream \in Seq(Record)
    BY <1>1 DEF BridgeTypes, IsPublished
  <2>2. [i \in DOMAIN <<>> |-> [<<>>[i] EXCEPT !.seq = Len(stream) + i]] = <<>>
    OBVIOUS
  <2>3. stream \o <<>> = stream
    BY <2>1, ConcatEmptySeq
  <2>. QED  BY <1>2, <2>2, <2>3, EmptySeq DEF Publish
<1>5. IsPositions(bundle'.positions) /\ bundle'.seq \in 0..Len(stream')
  BY <1>1, <1>2 DEF BridgeTypes
<1>. QED  BY <1>2, <1>3, <1>4, <1>5, BridgeKeeps

\* The poll leaves broker and bridge alone.
LEMMA EnvironmentUntouched ==
  ASSUME Types, UNCHANGED <<brokerVars, bridgeVars>>
  PROVE  BrokerTypes' /\ BridgeTypes'
BY DEF Types, BrokerTypes, BridgeTypes, IsPublished, brokerVars, bridgeVars

LEMMA RangeIs ==
  ASSUME NEW T, NEW q \in Seq(T)
  PROVE  Range(q) \in SUBSET T
BY LenProperties DEF Range

\* A delivery that drops an event met its identity in the journal.
LEMMA DeliverKeeps ==
  ASSUME IInv, Deliver
  PROVE  IInv'
<1>. DEFINE h == Head(outbox)
            met == \E i \in DOMAIN journal : EventId(journal[i]) = EventId(h)
<1>1. Types /\ PollTypes /\ BatchIsReported /\ KnownIsReported /\ DealsTold(Reported, stream, acked)
  BY DEF IInv, Types
<1>2. /\ pc \in {"recover", "deliver"} /\ outbox # <<>> /\ outbox' = Tail(outbox)
      /\ journal' = IF met THEN journal ELSE Append(journal, h)
      /\ UNCHANGED <<brokerVars, bridgeVars, storeVars, pc, pollVars, interrupts, torn, misaligned>>
  BY DEF Deliver
<1>3. outbox \in Seq(Event) /\ journal \in Seq(Event)
  BY <1>1 DEF PollTypes
<1>4. /\ h \in Event /\ outbox' \in Seq(Event)
      /\ \A e \in Range(outbox) : e = h \/ e \in Range(outbox')
  BY <1>2, <1>3, TailIs
<1>. HIDE DEF h
<1>5. /\ journal' \in Seq(Event) /\ Range(journal) \subseteq Range(journal')
      /\ \E e \in Range(journal') : EventId(e) = EventId(h)
  <2>1. CASE met
    <3>1. journal' = journal
      BY <1>2, <2>1
    <3>2. \E e \in Range(journal) : EventId(e) = EventId(h)
      BY <2>1 DEF Range
    <3>. QED  BY <1>3, <3>1, <3>2
  <2>2. CASE ~met
    <3>1. journal' = Append(journal, h)
      BY <1>2, <2>2
    <3>2. journal' \in Seq(Event) /\ Range(journal') = Range(journal) \cup {h}
      BY <1>3, <1>4, <3>1, RangeOfAppend
    <3>3. h \in Range(journal')
      BY <3>2
    <3>. QED  BY <3>2, <3>3
  <2>. QED  BY <2>1, <2>2
<1>. HIDE DEF met
<1>6. Covers(Reported, Reported')
  <2>1. ASSUME NEW e \in Reported PROVE \E f \in Reported' : EventId(f) = EventId(e)
    <3>1. CASE e \in Range(journal)
      BY <1>5, <3>1 DEF Reported
    <3>2. CASE e \in Range(outbox)
      <4>1. CASE e = h
        BY <1>5, <4>1 DEF Reported
      <4>2. CASE e \in Range(outbox')
        BY <4>2 DEF Reported
      <4>. QED  BY <1>4, <3>2, <4>1, <4>2
    <3>. QED  BY <3>1, <3>2 DEF Reported
  <2>. QED  BY <2>1 DEF Covers
<1>7. PollTypes'
  BY <1>1, <1>2, <1>4, <1>5 DEF PollTypes, storeVars, pollVars, bridgeVars
<1>8. BrokerTypes' /\ BridgeTypes'
  BY <1>1, <1>2, EnvironmentUntouched
<1>9. Reported \in SUBSET Event /\ Reported' \in SUBSET Event
  <2>1. outbox' \in Seq(Event) /\ journal' \in Seq(Event)
    BY <1>4, <1>5
  <2>. QED  BY <1>3, <2>1, RangeIs DEF Reported
<1>10. DealsTold(Reported, stream, acked)'
  <2>1. stream' = stream /\ acked' = acked
    BY <1>2 DEF bridgeVars, storeVars
  <2>2. DealsTold(Reported', stream, acked)
    BY <1>1, <1>6, <1>9, DealsStayTold
  <2>. QED  BY <2>1, <2>2 DEF DealsTold
<1>11. BatchIsReported'
  <2>1. pc' \notin {"acknowledge", "save"}
    BY <1>2
  <2>. QED  BY <2>1 DEF BatchIsReported
<1>12. KnownIsReported'
  <2>1. known' = known /\ payloads' = payloads
    BY <1>2 DEF storeVars, pollVars
  <2>2. \A id \in known : \E f \in Reported' : EventId(f) = id
    <3>1. ASSUME NEW id \in known PROVE \E f \in Reported' : EventId(f) = id
      <4>1. PICK e \in Reported : EventId(e) = id
        BY <1>1 DEF KnownIsReported
      <4>2. PICK f \in Reported' : EventId(f) = EventId(e)
        BY <1>6, <4>1 DEF Covers
      <4>. QED  BY <4>1, <4>2
    <3>. QED  BY <3>1
  <2>3. Covers(Range(payloads), Reported')
    <3>1. Covers(Range(payloads), Reported)
      BY <1>1 DEF KnownIsReported
    <3>. QED  BY <1>6, <3>1, CoversTwice
  <2>. QED  BY <2>1, <2>2, <2>3 DEF KnownIsReported
<1>. QED  BY <1>7, <1>8, <1>10, <1>11, <1>12 DEF IInv, Types

LEMMA ReadSnapshotKeeps ==
  ASSUME IInv, ReadSnapshot
  PROVE  IInv'
<1>1. Types /\ BridgeTypes /\ PollTypes /\ KnownIsReported /\ DealsTold(Reported, stream, acked)
  BY DEF IInv, Types
<1>2. /\ current' = bundle /\ pc' = "read"
      /\ UNCHANGED <<brokerVars, bridgeVars, storeVars, outbox, journal, records,
                     payloads, interrupts, torn, misaligned>>
  BY DEF ReadSnapshot
<1>3. BrokerTypes' /\ BridgeTypes'
  BY <1>1, <1>2, EnvironmentUntouched
<1>4. PollTypes'
  BY <1>1, <1>2 DEF PollTypes, BridgeTypes, storeVars, bridgeVars
<1>5. /\ Reported' = Reported /\ stream' = stream /\ acked' = acked
      /\ known' = known /\ payloads' = payloads
  BY <1>2 DEF Reported, bridgeVars, storeVars
<1>6. DealsTold(Reported, stream, acked)' /\ KnownIsReported'
  BY <1>1, <1>5 DEF DealsTold, KnownIsReported
<1>7. BatchIsReported'
  BY <1>2 DEF BatchIsReported
<1>. QED  BY <1>3, <1>4, <1>6, <1>7 DEF IInv, Types

LEMMA AcknowledgeKeeps ==
  ASSUME IInv, Acknowledge
  PROVE  IInv'
<1>1. Types /\ PollTypes /\ KnownIsReported /\ BatchIsReported
  BY DEF IInv, Types
<1>2. /\ pc = "acknowledge" /\ acked' = Last(records).seq /\ pc' = "save"
      /\ UNCHANGED <<brokerVars, bridgeVars, saved, known, outbox, journal, pollVars,
                     interrupts, torn, misaligned>>
  BY DEF Acknowledge
<1>3. BrokerTypes' /\ BridgeTypes'
  BY <1>1, <1>2, EnvironmentUntouched
<1>4. /\ acked' \in 0..Len(stream) /\ DealsTold(Reported, stream, acked')
      /\ TellOfChanges(Reported, saved, current.positions)
  BY <1>1, <1>2 DEF BatchIsReported
<1>5. /\ Reported' = Reported /\ stream' = stream /\ saved' = saved /\ current' = current
      /\ known' = known /\ payloads' = payloads
  BY <1>2 DEF Reported, bridgeVars, pollVars
<1>6. PollTypes'
  BY <1>1, <1>2, <1>4, <1>5 DEF PollTypes
<1>7. DealsTold(Reported, stream, acked)' /\ KnownIsReported'
  BY <1>1, <1>4, <1>5 DEF DealsTold, KnownIsReported
<1>8. BatchIsReported'
  <2>1. TellOfChanges(Reported', saved', current'.positions)
    BY <1>4, <1>5
  <2>. QED  BY <1>2, <2>1 DEF BatchIsReported
<1>. QED  BY <1>3, <1>6, <1>7, <1>8 DEF IInv, Types

LEMMA SaveSnapshotKeeps ==
  ASSUME IInv, SaveSnapshot
  PROVE  IInv'
<1>1. Types /\ PollTypes /\ KnownIsReported /\ DealsTold(Reported, stream, acked)
  BY DEF IInv, Types
<1>2. /\ saved' = current.positions /\ pc' = "deliver"
      /\ UNCHANGED <<brokerVars, bridgeVars, acked, known, outbox, journal, pollVars,
                     interrupts, torn, misaligned>>
  BY DEF SaveSnapshot
<1>3. BrokerTypes' /\ BridgeTypes'
  BY <1>1, <1>2, EnvironmentUntouched
<1>4. PollTypes'
  BY <1>1, <1>2 DEF PollTypes, bridgeVars, pollVars
<1>5. /\ Reported' = Reported /\ stream' = stream /\ acked' = acked
      /\ known' = known /\ payloads' = payloads
  BY <1>2 DEF Reported, bridgeVars, pollVars
<1>6. DealsTold(Reported, stream, acked)' /\ KnownIsReported'
  BY <1>1, <1>5 DEF DealsTold, KnownIsReported
<1>7. BatchIsReported'
  BY <1>2 DEF BatchIsReported
<1>. QED  BY <1>3, <1>4, <1>6, <1>7 DEF IInv, Types

\* What the end of a poll forgets: its bundle, its records and its events.
LEMMA NothingInHand ==
  ASSUME current' = NoBundle, payloads' = <<>>
  PROVE  IsPositions(current'.positions) /\ payloads' \in Seq(Event) /\ Range(payloads') = {}
<1>1. Empty = [x \in {} |-> x]
  BY DEF Empty
<1>2. IsPositions(Empty)
  <2>1. DOMAIN Empty = {} /\ IsFiniteSet({})
    BY <1>1, FS_EmptySet
  <2>2. Empty \in [{} -> [vol : 1..MaxDeals, sl : Stop]]
    BY <1>1
  <2>. QED  BY <2>1, <2>2 DEF IsPositions
<1>3. current'.positions = Empty
  BY DEF NoBundle
<1>4. Range(<<>>) = {} /\ <<>> \in Seq(Event)
  BY EmptySeq DEF Range
<1>. QED  BY <1>2, <1>3, <1>4

LEMMA EndPollKeeps ==
  ASSUME IInv, EndPoll
  PROVE  IInv'
<1>1. Types /\ PollTypes /\ KnownIsReported /\ DealsTold(Reported, stream, acked)
  BY DEF IInv, Types
<1>2. /\ known' = known \cup {EventId(e) : e \in Range(payloads)} /\ pc' = "recover"
      /\ current' = NoBundle /\ payloads' = <<>>
      /\ UNCHANGED <<brokerVars, bridgeVars, acked, saved, outbox, journal,
                     interrupts, torn, misaligned>>
  BY DEF EndPoll
<1>3. BrokerTypes' /\ BridgeTypes'
  BY <1>1, <1>2, EnvironmentUntouched
<1>4. IsPositions(current'.positions) /\ payloads' \in Seq(Event) /\ Range(payloads') = {}
  BY <1>2, NothingInHand
<1>5. Reported' = Reported /\ stream' = stream /\ acked' = acked
  BY <1>2 DEF Reported, bridgeVars
<1>6. PollTypes'
  BY <1>1, <1>2, <1>4, <1>5 DEF PollTypes
<1>7. KnownIsReported'
  <2>1. ASSUME NEW id \in known' PROVE \E f \in Reported : EventId(f) = id
    <3>1. CASE id \in known
      BY <1>1, <3>1 DEF KnownIsReported
    <3>2. CASE id \notin known
      <4>1. PICK e \in Range(payloads) : id = EventId(e)
        BY <1>2, <3>2
      <4>. QED  BY <1>1, <4>1 DEF KnownIsReported, Covers
    <3>. QED  BY <3>1, <3>2
  <2>. QED  BY <1>4, <1>5, <2>1 DEF KnownIsReported, Covers
<1>8. DealsTold(Reported, stream, acked)' /\ BatchIsReported'
  BY <1>1, <1>2, <1>5 DEF DealsTold, BatchIsReported
<1>. QED  BY <1>3, <1>6, <1>7, <1>8 DEF IInv, Types

LEMMA InterruptKeeps ==
  ASSUME IInv, Interrupt
  PROVE  IInv'
<1>1. Types /\ PollTypes /\ KnownIsReported /\ DealsTold(Reported, stream, acked)
  BY DEF IInv, Types
<1>2. /\ interrupts < MaxInterrupts /\ interrupts' = interrupts + 1 /\ pc' = "recover"
      /\ current' = NoBundle /\ payloads' = <<>>
      /\ torn' = (torn \/ (pc = "save" /\ records # <<>>))
      /\ UNCHANGED <<brokerVars, bridgeVars, storeVars, outbox, journal, misaligned>>
  BY DEF Interrupt
<1>3. BrokerTypes' /\ BridgeTypes'
  BY <1>1, <1>2, EnvironmentUntouched
<1>4. IsPositions(current'.positions) /\ payloads' \in Seq(Event) /\ Range(payloads') = {}
  BY <1>2, NothingInHand
<1>5. /\ Reported' = Reported /\ stream' = stream /\ acked' = acked /\ known' = known
      /\ saved' = saved
  BY <1>2 DEF Reported, bridgeVars, storeVars
<1>6. interrupts' \in 0..MaxInterrupts /\ torn' \in BOOLEAN
  <2>1. interrupts \in 0..MaxInterrupts /\ MaxInterrupts \in Nat
    BY <1>1, JournalAssumption DEF PollTypes, JournalAssumption
  <2>2. interrupts' \in 0..MaxInterrupts
    BY <1>2, <2>1
  <2>3. torn' \in BOOLEAN
    BY <1>2
  <2>. QED  BY <2>2, <2>3
<1>7. PollTypes'
  BY <1>1, <1>2, <1>4, <1>5, <1>6 DEF PollTypes
<1>8. KnownIsReported'
  BY <1>1, <1>4, <1>5 DEF KnownIsReported, Covers
<1>9. DealsTold(Reported, stream, acked)' /\ BatchIsReported'
  BY <1>1, <1>2, <1>5 DEF DealsTold, BatchIsReported
<1>. QED  BY <1>3, <1>7, <1>8, <1>9 DEF IInv, Types

\* The batch is durable before anything else: each of its events, or one of its
\* identity, is delivered or waits in the outbox from here on.
LEMMA EnqueueKeeps ==
  ASSUME IInv, Enqueue
  PROVE  IInv'
<1>. DEFINE read   == SubSeq(stream, acked + 1, Len(stream))
            events == PollEvents(read, saved, current.positions)
            places == {i \in DOMAIN events : EventId(events[i]) \notin known}
            unsent == Sublist(events, places)
            N      == Len(stream)
<1>1. /\ Types /\ BridgeTypes /\ PollTypes /\ KnownIsReported
      /\ DealsTold(Reported, stream, acked)
  BY DEF IInv, Types
<1>2. /\ records' = read /\ payloads' = unsent
      /\ outbox' = outbox \o Sublist(unsent, NewPlaces(unsent, outbox))
      /\ pc' = (IF read = <<>> THEN "save" ELSE "acknowledge")
      /\ misaligned' = (misaligned \/ TwoInstants)
      /\ UNCHANGED <<brokerVars, bridgeVars, storeVars, journal, current, interrupts, torn>>
  BY DEF Enqueue
<1>3. /\ stream \in Seq(Record) /\ N \in Nat /\ acked \in 0..N
      /\ \A i \in 1..N : stream[i] \in Record /\ stream[i].seq = i
      /\ IsPositions(saved) /\ IsPositions(current.positions)
      /\ outbox \in Seq(Event) /\ journal \in Seq(Event)
  BY <1>1, LenProperties DEF BridgeTypes, PollTypes, IsPublished
<1>. HIDE DEF N
<1>4. /\ read \in Seq(Record) /\ Len(read) = N - acked
      /\ \A i \in 1..(N - acked) : read[i] = stream[acked + i]
  <2>1. acked + 1 \in Int /\ N \in Int /\ \A i \in (acked + 1)..N : stream[i] \in Record
    BY <1>3
  <2>2. read = SubSeq(stream, acked + 1, N)
    BY DEF N
  <2>. HIDE DEF read
  <2>3. /\ read \in Seq(Record) /\ Len(read) = (IF acked + 1 <= N THEN N - (acked + 1) + 1 ELSE 0)
        /\ \A i \in 1..(N - (acked + 1) + 1) : read[i] = stream[(acked + 1) + i - 1]
    BY <2>1, <2>2, SubSeqProperties
  <2>4. /\ N - (acked + 1) + 1 = N - acked /\ (~(acked + 1 <= N) => N - acked = 0)
        /\ \A i \in 1..(N - acked) : (acked + 1) + i - 1 = acked + i
    BY <1>3
  <2>. QED  BY <2>3, <2>4
<1>. HIDE DEF read
<1>5. /\ events \in Seq(Event) /\ TellOfChanges(Range(events), saved, current.positions)
      /\ \A k \in DOMAIN read : read[k].kind = "DEAL_ADD" =>
           \E e \in Range(events) : e.native = read[k].deal
  BY <1>3, <1>4, PollEventsAre
<1>. HIDE DEF events
<1>6. places \in SUBSET DOMAIN events
  OBVIOUS
<1>7. unsent \in Seq(Event) /\ Range(unsent) = {events[i] : i \in places}
  <2>. HIDE DEF places
  <2>. QED  BY <1>5, <1>6, SublistIs
<1>. HIDE DEF unsent
<1>8. /\ outbox' \in Seq(Event) /\ Range(outbox) \subseteq Range(outbox')
      /\ \A e \in Range(unsent) : \E f \in Range(outbox') : EventId(f) = EventId(e)
  BY <1>2, <1>3, <1>7, NewPlacesAre
<1>9. Reported \subseteq Reported' /\ Range(outbox') \subseteq Reported'
  BY <1>2, <1>8 DEF Reported
<1>10. Covers(Range(events), Reported')
  <2>1. ASSUME NEW e \in Range(events) PROVE \E f \in Reported' : EventId(f) = EventId(e)
    <3>1. CASE EventId(e) \in known
      <4>1. PICK f \in Reported : EventId(f) = EventId(e)
        BY <1>1, <3>1 DEF KnownIsReported
      <4>. QED  BY <1>9, <4>1
    <3>2. CASE EventId(e) \notin known
      <4>1. PICK i \in DOMAIN events : events[i] = e
        BY DEF Range
      <4>2. i \in places
        BY <3>2, <4>1
      <4>3. e \in Range(unsent)
        BY <1>7, <4>1, <4>2
      <4>. QED  BY <1>8, <1>9, <4>3
    <3>. QED  BY <3>1, <3>2
  <2>. QED  BY <2>1 DEF Covers
<1>11. /\ Reported \in SUBSET Event /\ Reported' \in SUBSET Event
       /\ Range(events) \in SUBSET Event /\ Range(unsent) \in SUBSET Event
  <2>1. journal' \in Seq(Event)
    BY <1>2, <1>3
  <2>. QED  BY <1>3, <1>5, <1>7, <1>8, <2>1, RangeIs DEF Reported
<1>12. Covers(Reported, Reported')
  BY <1>9 DEF Covers
<1>13. stream' = stream /\ acked' = acked /\ saved' = saved /\ known' = known /\ current' = current
  BY <1>2 DEF bridgeVars, storeVars
<1>14. DealsTold(Reported', stream, acked)
  BY <1>1, <1>11, <1>12, DealsStayTold
<1>15. DealsTold(Reported', stream, N)
  <2>1. ASSUME NEW i \in 1..N, stream[i].kind = "DEAL_ADD"
        PROVE  \E f \in Reported' : f.native = stream[i].deal
    <3>1. CASE i <= acked
      <4>1. i \in 1..acked
        BY <1>3, <3>1
      <4>. QED  BY <1>14, <2>1, <4>1 DEF DealsTold
    <3>2. CASE ~(i <= acked)
      <4>1. i - acked \in 1..(N - acked) /\ acked + (i - acked) = i
        BY <1>3, <3>2
      <4>2. read[i - acked] = stream[i] /\ i - acked \in DOMAIN read
        BY <1>4, <4>1, LenProperties
      <4>3. PICK e \in Range(events) : e.native = stream[i].deal
        BY <1>5, <2>1, <4>2
      <4>4. PICK f \in Reported' : EventId(f) = EventId(e)
        BY <1>10, <4>3 DEF Covers
      <4>5. e \in Event /\ f \in Event
        BY <1>11
      <4>6. f.native = e.native
        BY <4>4, <4>5, EventIdIs
      <4>. QED  BY <4>3, <4>6
    <3>. QED  BY <3>1, <3>2
  <2>. QED  BY <2>1 DEF DealsTold
<1>16. TellOfChanges(Reported', saved, current.positions)
  BY <1>5, <1>10, <1>11, ChangesStayTold
<1>17. BatchIsReported'
  <2>1. ASSUME read # <<>> PROVE Last(read).seq = N
    <3>1. Len(read) \in Nat \ {0}
      BY <1>4, <2>1, EmptySeq
    <3>2. Len(read) = N - acked
      BY <1>4
    <3>3. acked \in Nat /\ acked <= N /\ N - acked # 0
      BY <1>3, <3>1, <3>2
    <3>4. N - acked \in 1..(N - acked) /\ acked + (N - acked) = N /\ N \in 1..N
      BY <1>3, <3>3
    <3>5. Last(read) = read[N - acked] /\ read[N - acked] = stream[N]
      BY <1>4, <3>4 DEF Last
    <3>. QED  BY <1>3, <3>4, <3>5
  <2>2. ASSUME pc' = "acknowledge"
        PROVE  /\ Last(records').seq \in 0..Len(stream')
               /\ DealsTold(Reported', stream', Last(records').seq)
    <3>1. read # <<>>
      BY <1>2, <2>2
    <3>2. Last(records').seq = N
      BY <1>2, <2>1, <3>1
    <3>. QED  BY <1>3, <1>13, <1>15, <3>2 DEF N
  <2>3. TellOfChanges(Reported', saved', current'.positions)
    BY <1>13, <1>16
  <2>. QED  BY <2>2, <2>3 DEF BatchIsReported
<1>18. KnownIsReported'
  <2>1. \A id \in known' : \E f \in Reported' : EventId(f) = id
    BY <1>1, <1>9, <1>13 DEF KnownIsReported
  <2>2. Covers(Range(payloads'), Reported')
    BY <1>2, <1>8, <1>9 DEF Covers
  <2>. QED  BY <2>1, <2>2 DEF KnownIsReported
<1>19. BrokerTypes' /\ BridgeTypes'
  BY <1>1, <1>2, EnvironmentUntouched
<1>20. PollTypes'
  <2>1. misaligned' \in BOOLEAN
    BY <1>2
  <2>2. pc' \in {"recover", "read", "acknowledge", "save", "deliver"}
    BY <1>2
  <2>3. acked' \in 0..Len(stream')
    BY <1>3, <1>13 DEF N
  <2>4. IsPositions(saved') /\ IsPositions(current'.positions)
    BY <1>3, <1>13
  <2>5. outbox' \in Seq(Event) /\ journal' \in Seq(Event) /\ payloads' \in Seq(Event)
    BY <1>2, <1>3, <1>7, <1>8
  <2>6. interrupts' \in 0..MaxInterrupts /\ torn' \in BOOLEAN
    BY <1>1, <1>2 DEF PollTypes
  <2>. QED  BY <2>1, <2>2, <2>3, <2>4, <2>5, <2>6 DEF PollTypes
<1>21. DealsTold(Reported', stream', acked')
  BY <1>13, <1>14
<1>. QED  BY <1>17, <1>18, <1>19, <1>20, <1>21 DEF IInv, Types, DealsTold

LEMMA InitHolds ==
  ASSUME Init
  PROVE  IInv
<1>. USE DEF Init
<1>1. Empty = [x \in {} |-> x]
  BY DEF Empty
<1>2. IsPositions(Empty) /\ DOMAIN Empty = {}
  <2>1. DOMAIN Empty = {} /\ IsFiniteSet({})
    BY <1>1, FS_EmptySet
  <2>2. Empty \in [{} -> [vol : 1..MaxDeals, sl : Stop]]
    BY <1>1
  <2>. QED  BY <2>1, <2>2 DEF IsPositions
<1>3. Range(<<>>) = {}
  BY DEF Range
<1>4. /\ MaxDeals \in Nat /\ MaxChanges \in Nat /\ MaxPending \in Nat /\ MaxInterrupts \in Nat
  BY JournalAssumption DEF JournalAssumption
<1>5. BrokerTypes
  <2>1. deals \in Seq(Deal) /\ Len(deals) = 0 /\ callbacks \in Seq(Callback)
    BY EmptySeq
  <2>2. Range(callbacks) = {} /\ changes \in 0..MaxChanges
    BY <1>3, <1>4
  <2>3. IsPositions(book) /\ DOMAIN book = {}
    BY <1>2
  <2>. QED  BY <1>4, <2>1, <2>2, <2>3 DEF BrokerTypes
<1>6. BridgeTypes
  <2>1. IsPublished(stream)
    BY EmptySeq DEF IsPublished
  <2>2. bundle.positions = Empty /\ bundle.seq = 0 /\ Len(stream) = 0
    BY EmptySeq DEF NoBundle
  <2>3. retryQueue \in Seq(1..Len(deals)) /\ Len(retryQueue) <= MaxPending
    BY <1>4, EmptySeq
  <2>. QED  BY <1>2, <2>1, <2>2, <2>3 DEF BridgeTypes
<1>7. PollTypes
  <2>1. current.positions = Empty /\ Len(stream) = 0
    BY EmptySeq DEF NoBundle
  <2>2. outbox \in Seq(Event) /\ journal \in Seq(Event) /\ payloads \in Seq(Event)
    BY EmptySeq
  <2>3. interrupts \in 0..MaxInterrupts /\ acked \in 0..Len(stream)
    BY <1>4, <2>1
  <2>. QED  BY <1>2, <2>1, <2>2, <2>3 DEF PollTypes
<1>8. DealsTold(Reported, stream, acked)
  BY DEF DealsTold
<1>9. KnownIsReported
  BY <1>3 DEF KnownIsReported, Covers
<1>10. BatchIsReported
  BY DEF BatchIsReported
<1>. QED  BY <1>5, <1>6, <1>7, <1>8, <1>9, <1>10 DEF IInv, Types

LEMMA NextHolds ==
  ASSUME IInv, [Next]_vars
  PROVE  IInv'
<1>1. CASE Broker
  <2>1. PICK p \in Position : \/ \E sl \in Stop : OpenPosition(p, sl) \/ ChangeStop(p, sl)
                              \/ ScaleIn(p)
                              \/ \E vol \in 1..MaxDeals : Reduce(p, vol)
    BY <1>1 DEF Broker
  <2>. QED  BY <2>1, OpenPositionKeeps, ChangeStopKeeps, ScaleInKeeps, ReduceKeeps
<1>2. CASE Bridge
  BY <1>2, OnTradeTransactionKeeps, OnTimerKeeps, RestartExpertKeeps DEF Bridge
<1>3. CASE Poll
  BY <1>3, DeliverKeeps, ReadSnapshotKeeps, EnqueueKeeps, AcknowledgeKeeps,
     SaveSnapshotKeeps, EndPollKeeps DEF Poll
<1>4. CASE Interrupt
  BY <1>4, InterruptKeeps
<1>5. CASE UNCHANGED vars
  <2>1. UNCHANGED <<book, deals, changes, callbacks, retryQueue, stream, bundle, acked, saved,
                    known, outbox, journal, pc, current, records, payloads, interrupts, torn,
                    misaligned>>
    BY <1>5 DEF vars, brokerVars, bridgeVars, storeVars, pollVars
  <2>2. Types'
    BY <2>1 DEF IInv, Types, BrokerTypes, BridgeTypes, PollTypes, IsPublished
  <2>3. Reported' = Reported
    BY <2>1 DEF Reported
  <2>. QED  BY <2>1, <2>2, <2>3 DEF IInv, DealsTold, BatchIsReported, KnownIsReported
<1>. QED  BY <1>1, <1>2, <1>3, <1>4, <1>5 DEF Next

LEMMA Inductive == Spec => []IInv
<1>1. Init => IInv
  BY InitHolds
<1>2. IInv /\ [Next]_vars => IInv'
  BY NextHolds
<1>. QED  BY <1>1, <1>2, PTL DEF Spec

-----------------------------------------------------------------------------
(* What the journal may be relied on for.                                   *)

\* Every variable holds what its file or its program variable can hold.
THEOREM VariablesAreTyped == Spec => []TypeOK
<1>1. IInv => TypeOK
  <2>. SUFFICES ASSUME IInv PROVE TypeOK
    OBVIOUS
  <2>1. BrokerTypes /\ BridgeTypes /\ PollTypes
    BY DEF IInv, Types
  <2>2. ASSUME NEW b, IsPositions(b) PROVE IsBook(b)
    BY <2>2 DEF IsPositions, IsBook
  <2>3. IsBook(book) /\ IsBook(bundle.positions) /\ IsBook(current.positions) /\ IsBook(saved)
    BY <2>1, <2>2 DEF BrokerTypes, BridgeTypes, PollTypes
  <2>4. Range(retryQueue) \subseteq DOMAIN deals /\ bundle.seq <= Len(stream)
    <3>1. Range(retryQueue) \subseteq 1..Len(deals)
      BY <2>1, RangeIs DEF BridgeTypes
    <3>2. DOMAIN deals = 1..Len(deals)
      BY <2>1, LenProperties DEF BrokerTypes
    <3>3. Len(stream) \in Nat /\ bundle.seq \in 0..Len(stream)
      BY <2>1, LenProperties DEF BridgeTypes, IsPublished
    <3>. QED  BY <3>1, <3>2, <3>3
  <2>5. ASSUME NEW e \in Range(outbox) \cup Range(journal) \cup Range(payloads)
        PROVE  /\ e.type \in EventType /\ e.ticket \in Position
               /\ e.native \in 0..MaxDeals /\ e.vol \in Nat
    <3>1. e \in Event
      BY <2>1, RangeIs DEF PollTypes
    <3>. QED  BY <3>1 DEF Event
  <2>. QED  BY <2>1, <2>3, <2>4, <2>5 DEF TypeOK, BrokerTypes, BridgeTypes, PollTypes
<1>. QED  BY <1>1, Inductive, PTL

\* A deal whose file was acknowledged, and so may be deleted, is reported under
\* its native ticket, whatever snapshots were read and wherever the poll was
\* interrupted (LiveSync.poll_once).
THEOREM AcknowledgedDeals == Spec => []AcknowledgedDealsAreReported
<1>1. IInv => AcknowledgedDealsAreReported
  BY DEF IInv, DealsTold, AcknowledgedDealsAreReported
<1>. QED  BY <1>1, Inductive, PTL

\* The snapshot the next poll compares with never hides a position that appeared,
\* disappeared or got another stop (LiveSync.poll_once, detect_windows_events).
THEOREM SavedChanges == Spec => SavedChangesAreReported
<1>. DEFINE Told == /\ \A p \in DOMAIN saved' \ DOMAIN saved :
                         \E e \in Reported' : e.type = "trade_opened" /\ e.ticket = p
                    /\ \A p \in DOMAIN saved \ DOMAIN saved' :
                         \E e \in Reported' : e.type = "trade_closed" /\ e.ticket = p
                    /\ \A p \in DOMAIN saved \cap DOMAIN saved' : saved[p].sl # saved'[p].sl =>
                         \E e \in Reported' : /\ e.type = "trade_modified" /\ e.ticket = p
                                              /\ e.sl = saved'[p].sl
<1>1. IInv /\ [Next]_vars => [Told]_vars
  <2>. SUFFICES ASSUME IInv, [Next]_vars PROVE [Told]_vars
    OBVIOUS
  <2>1. CASE saved' = saved
    BY <2>1
  <2>2. CASE saved' # saved
    <3>1. SaveSnapshot
      BY <2>2 DEF Next, Broker, Bridge, Poll, vars, OpenPosition, ScaleIn, Reduce, Execute,
         ChangeStop, OnTradeTransaction, OnTimer, RestartExpert, Deliver, ReadSnapshot,
         Enqueue, Acknowledge, EndPoll, Interrupt, storeVars
    <3>2. /\ pc = "save" /\ saved' = current.positions /\ outbox' = outbox /\ journal' = journal
      BY <3>1 DEF SaveSnapshot
    <3>3. TellOfChanges(Reported, saved, current.positions)
      BY <3>2 DEF IInv, BatchIsReported
    <3>4. Reported' = Reported
      BY <3>2 DEF Reported
    <3>5. TellOfChanges(Reported', saved, saved')
      BY <3>2, <3>3, <3>4
    <3>. QED  BY <3>5 DEF TellOfChanges
  <2>. QED  BY <2>1, <2>2
<1>. QED  BY <1>1, Inductive, PTL DEF Spec, SavedChangesAreReported

-----------------------------------------------------------------------------
(* The broker's account of its deals, and what a stream tells of them.      *)

\* The volume a deal leaves of its position.
Left(d) == IF d.entry = "IN" THEN d.was + d.vol ELSE d.was - d.vol

\* The volume of a position after the first c deals of q.
Vol(q, c, p) ==
  LET mine == {i \in 1..c : q[i].pos = p}
  IN  IF mine = {} THEN 0 ELSE Left(q[CHOOSE i \in mine : \A j \in mine : j <= i])

\* Every deal begins with the volume the earlier ones left; one that finds none
\* is the first of its position.
IsLedger(q) ==
  \A i \in 1..Len(q) :
    /\ q[i].vol >= 1 /\ q[i].was = Vol(q, i - 1, q[i].pos)
    /\ q[i].entry = "OUT" => q[i].vol <= q[i].was
    /\ q[i].was = 0 => \A j \in 1..(i - 1) : q[j].pos # q[i].pos

\* What every number up to b inherits from the one before it, from a on.
LEMMA UpwardsFrom ==
  ASSUME NEW a \in Nat, NEW b \in Nat, a <= b, NEW S, a \in S,
         \A i \in (a + 1)..b : i - 1 \in S => i \in S
  PROVE  \A i \in a..b : i \in S
<1>. DEFINE T == {k \in 0..(b - a) : a + k \in S}
<1>1. 0 \in T
  OBVIOUS
<1>2. ASSUME NEW k \in 1..(b - a), k - 1 \in T PROVE k \in T
  <2>1. a + (k - 1) \in S /\ a + k \in (a + 1)..b /\ (a + k) - 1 = a + (k - 1)
    BY <1>2
  <2>2. a + k \in S
    BY <2>1
  <2>. QED  BY <2>2
<1>. HIDE DEF T
<1>3. b - a \in Nat
  OBVIOUS
<1>4. \A k \in 0..(b - a) : k \in T
  BY <1>1, <1>2, <1>3, Upwards
<1>5. ASSUME NEW i \in a..b PROVE i \in S
  <2>1. i - a \in 0..(b - a) /\ a + (i - a) = i
    OBVIOUS
  <2>2. i - a \in T
    BY <1>4, <2>1
  <2>. QED  BY <2>1, <2>2 DEF T
<1>. QED  BY <1>5

\* The volume follows the deals one by one.
LEMMA VolStep ==
  ASSUME NEW q, NEW c \in Nat, NEW p
  PROVE  /\ Vol(q, 0, p) = 0
         /\ Vol(q, c + 1, p) = IF q[c + 1].pos = p THEN Left(q[c + 1]) ELSE Vol(q, c, p)
<1>. DEFINE mine(n) == {i \in 1..n : q[i].pos = p}
            last(n) == CHOOSE i \in mine(n) : \A j \in mine(n) : j <= i
<1>0. \A n : Vol(q, n, p) = IF mine(n) = {} THEN 0 ELSE Left(q[last(n)])
  BY DEF Vol
<1>1. mine(0) = {}
  OBVIOUS
<1>2. ASSUME q[c + 1].pos # p PROVE mine(c + 1) = mine(c)
  BY <1>2
<1>3. ASSUME q[c + 1].pos = p PROVE mine(c + 1) # {} /\ last(c + 1) = c + 1
  <2>1. c + 1 \in mine(c + 1) /\ \A j \in mine(c + 1) : j \in Nat /\ j <= c + 1
    BY <1>3
  <2>. HIDE DEF mine
  <2>2. \A i \in mine(c + 1) : (\A j \in mine(c + 1) : j <= i) => i = c + 1
    BY <2>1
  <2>. QED  BY <2>1, <2>2
<1>4. CASE q[c + 1].pos = p
  <2>1. Vol(q, c + 1, p) = Left(q[last(c + 1)])
    BY <1>0, <1>3, <1>4
  <2>. HIDE DEF last, mine
  <2>. QED  BY <1>0, <1>1, <1>3, <1>4, <2>1
<1>5. CASE q[c + 1].pos # p
  <2>1. mine(c + 1) = mine(c)
    BY <1>2, <1>5
  <2>2. last(c + 1) = last(c)
    BY <2>1
  <2>. HIDE DEF last, mine
  <2>. QED  BY <1>0, <1>1, <1>5, <2>1, <2>2
<1>. QED  BY <1>4, <1>5

\* What a deal is: the volumes are numbers, and one that reduces finds something.
LEMMA DealsAre ==
  ASSUME NEW q \in Seq(Deal), IsLedger(q), NEW i \in 1..Len(q)
  PROVE  /\ q[i].pos \in Position /\ q[i].entry \in {"IN", "OUT"}
         /\ q[i].vol \in Nat /\ q[i].vol > 0 /\ q[i].was \in Nat /\ Left(q[i]) \in Nat
         /\ q[i].was = Vol(q, i - 1, q[i].pos)
         /\ q[i].entry = "OUT" => q[i].was > 0 /\ q[i].vol <= q[i].was
         /\ Vol(q, i, q[i].pos) = Left(q[i])
<1>1. q[i] \in Deal
  BY ElementOfSeq
<1>2. /\ q[i].pos \in Position /\ q[i].entry \in {"IN", "OUT"}
      /\ q[i].vol \in Nat /\ q[i].was \in Nat
  BY <1>1 DEF Deal
<1>3. /\ q[i].vol >= 1 /\ q[i].was = Vol(q, i - 1, q[i].pos)
      /\ q[i].entry = "OUT" => q[i].vol <= q[i].was
  BY DEF IsLedger
<1>4. Left(q[i]) \in Nat
  BY <1>2, <1>3 DEF Left
<1>5. Vol(q, i, q[i].pos) = Left(q[i])
  <2>1. Len(q) \in Nat
    BY LenProperties
  <2>2. i - 1 \in Nat /\ (i - 1) + 1 = i
    BY <2>1
  <2>. HIDE DEF Vol
  <2>3. Vol(q, (i - 1) + 1, q[i].pos)
          = IF q[(i - 1) + 1].pos = q[i].pos THEN Left(q[(i - 1) + 1]) ELSE Vol(q, i - 1, q[i].pos)
    BY <2>2, VolStep
  <2>. QED  BY <2>2, <2>3
<1>. QED  BY <1>2, <1>3, <1>4, <1>5

\* The volume of any position between two deals.
LEMMA VolNext ==
  ASSUME NEW q \in Seq(Deal), NEW i \in 1..Len(q), NEW p
  PROVE  Vol(q, i, p) = IF q[i].pos = p THEN Left(q[i]) ELSE Vol(q, i - 1, p)
<1>1. Len(q) \in Nat
  BY LenProperties
<1>2. i - 1 \in Nat /\ (i - 1) + 1 = i
  BY <1>1
<1>3. Vol(q, (i - 1) + 1, p)
        = IF q[(i - 1) + 1].pos = p THEN Left(q[(i - 1) + 1]) ELSE Vol(q, i - 1, p)
  BY <1>2, VolStep
<1>. QED  BY <1>2, <1>3

\* No volume is below zero.
LEMMA VolIsNat ==
  ASSUME NEW q \in Seq(Deal), IsLedger(q), NEW c \in 0..Len(q), NEW p
  PROVE  Vol(q, c, p) \in Nat
<1>. DEFINE S == {i \in 0..Len(q) : Vol(q, i, p) \in Nat}
<1>1. Len(q) \in Nat
  BY LenProperties
<1>2. 0 \in S
  <2>1. Vol(q, 0, p) = 0
    BY VolStep
  <2>. QED  BY <1>1, <2>1
<1>3. ASSUME NEW i \in 1..Len(q), i - 1 \in S PROVE i \in S
  <2>1. Left(q[i]) \in Nat
    BY DealsAre
  <2>2. Vol(q, i, p) = IF q[i].pos = p THEN Left(q[i]) ELSE Vol(q, i - 1, p)
    BY VolNext
  <2>. QED  BY <1>1, <1>3, <2>1, <2>2
<1>. HIDE DEF S
<1>4. \A i \in 0..Len(q) : i \in S
  BY <1>1, <1>2, <1>3, Upwards
<1>. QED  BY <1>4 DEF S

\* Without a deal that reduces, the volume of a position does not fall.
LEMMA FallsByAReduction ==
  ASSUME NEW q \in Seq(Deal), IsLedger(q), NEW a \in 0..Len(q), NEW b \in a..Len(q), NEW p,
         \A d \in (a + 1)..b : q[d].pos = p => q[d].entry # "OUT"
  PROVE  Vol(q, a, p) <= Vol(q, b, p)
<1>. DEFINE S == {i \in a..b : Vol(q, a, p) <= Vol(q, i, p)}
<1>1. Len(q) \in Nat /\ a \in Nat /\ b \in Nat /\ a <= b
  BY LenProperties
<1>2. \A i \in 0..Len(q) : Vol(q, i, p) \in Nat
  BY VolIsNat
<1>3. a \in S
  BY <1>1, <1>2
<1>4. ASSUME NEW i \in (a + 1)..b, i - 1 \in S PROVE i \in S
  <2>1. i \in 1..Len(q) /\ i - 1 \in 0..Len(q) /\ i \in 0..Len(q) /\ i \in a..b
    BY <1>1
  <2>2. /\ Vol(q, i, p) = IF q[i].pos = p THEN Left(q[i]) ELSE Vol(q, i - 1, p)
        /\ Vol(q, i, p) \in Nat /\ Vol(q, i - 1, p) \in Nat /\ Vol(q, a, p) \in Nat
    BY <1>2, <2>1, VolNext
  <2>3. Vol(q, a, p) <= Vol(q, i - 1, p)
    BY <1>4
  <2>4. CASE q[i].pos = p
    <3>1. /\ q[i].entry = "IN" /\ q[i].was = Vol(q, i - 1, p) /\ q[i].vol \in Nat
      BY <2>1, <2>4, DealsAre
    <3>2. Vol(q, i, p) = Vol(q, i - 1, p) + q[i].vol
      BY <2>2, <2>4, <3>1 DEF Left
    <3>3. Vol(q, a, p) <= Vol(q, i, p)
      BY <2>2, <2>3, <3>1, <3>2
    <3>. QED  BY <2>1, <3>3
  <2>5. CASE q[i].pos # p
    BY <2>1, <2>2, <2>3, <2>5
  <2>. QED  BY <2>4, <2>5
<1>. HIDE DEF S
<1>5. \A i \in a..b : i \in S
  BY <1>1, <1>3, <1>4, UpwardsFrom
<1>. QED  BY <1>1, <1>5 DEF S

\* A position that is not open becomes so by a deal that finds nothing.
LEMMA OpensByAnOpening ==
  ASSUME NEW q \in Seq(Deal), IsLedger(q), NEW a \in 0..Len(q), NEW b \in a..Len(q), NEW p,
         Vol(q, a, p) = 0, \A d \in (a + 1)..b : q[d].pos = p => q[d].was # 0
  PROVE  Vol(q, b, p) = 0
<1>. DEFINE S == {i \in a..b : Vol(q, i, p) = 0}
<1>1. Len(q) \in Nat /\ a \in Nat /\ b \in Nat /\ a <= b
  BY LenProperties
<1>2. a \in S
  BY <1>1
<1>3. ASSUME NEW i \in (a + 1)..b, i - 1 \in S PROVE i \in S
  <2>1. i \in 1..Len(q) /\ i \in a..b
    BY <1>1
  <2>2. Vol(q, i, p) = IF q[i].pos = p THEN Left(q[i]) ELSE Vol(q, i - 1, p)
    BY <2>1, VolNext
  <2>3. q[i].pos = p => q[i].was = Vol(q, i - 1, p)
    BY <2>1, DealsAre
  <2>. QED  BY <1>3, <2>1, <2>2, <2>3
<1>. HIDE DEF S
<1>4. \A i \in a..b : i \in S
  BY <1>1, <1>2, <1>3, UpwardsFrom
<1>. QED  BY <1>1, <1>4 DEF S

\* An open position ends by a deal that leaves nothing.
LEMMA ClosesByAClose ==
  ASSUME NEW q \in Seq(Deal), IsLedger(q), NEW a \in 0..Len(q), NEW b \in a..Len(q), NEW p,
         Vol(q, a, p) # 0, \A d \in (a + 1)..b : q[d].pos = p => Left(q[d]) # 0
  PROVE  Vol(q, b, p) # 0
<1>. DEFINE S == {i \in a..b : Vol(q, i, p) # 0}
<1>1. Len(q) \in Nat /\ a \in Nat /\ b \in Nat /\ a <= b
  BY LenProperties
<1>2. a \in S
  BY <1>1
<1>3. ASSUME NEW i \in (a + 1)..b, i - 1 \in S PROVE i \in S
  <2>1. i \in 1..Len(q) /\ i \in a..b
    BY <1>1
  <2>2. Vol(q, i, p) = IF q[i].pos = p THEN Left(q[i]) ELSE Vol(q, i - 1, p)
    BY <2>1, VolNext
  <2>. QED  BY <1>3, <2>1, <2>2
<1>. HIDE DEF S
<1>4. \A i \in a..b : i \in S
  BY <1>1, <1>2, <1>3, UpwardsFrom
<1>. QED  BY <1>1, <1>4 DEF S

\* A position that was closed is not opened again.
LEMMA ClosedStaysClosed ==
  ASSUME NEW q \in Seq(Deal), IsLedger(q), NEW a \in 1..Len(q), Left(q[a]) = 0
  PROVE  Vol(q, Len(q), q[a].pos) = 0
<1>. DEFINE p == q[a].pos
<1>1. Len(q) \in Nat /\ a \in 0..Len(q) /\ Len(q) \in a..Len(q)
  BY LenProperties
<1>2. Vol(q, a, p) = 0
  BY DealsAre
<1>3. ASSUME NEW d \in (a + 1)..Len(q), q[d].pos = p PROVE q[d].was # 0
  <2>1. d \in 1..Len(q) /\ a \in 1..(d - 1)
    BY <1>1
  <2>2. q[d].was = 0 => \A j \in 1..(d - 1) : q[j].pos # q[d].pos
    BY <2>1 DEF IsLedger
  <2>. QED  BY <1>3, <2>1, <2>2
<1>. HIDE DEF p
<1>4. Vol(q, Len(q), p) = 0
  BY <1>1, <1>2, <1>3, OpensByAnOpening
<1>. QED  BY <1>4 DEF p

\* Further deals change nothing about what was before.
LEMMA VolOfLonger ==
  ASSUME NEW q \in Seq(Deal), NEW r \in Seq(Deal), Len(q) <= Len(r),
         \A i \in 1..Len(q) : r[i] = q[i], NEW c \in 0..Len(q), NEW p
  PROVE  Vol(r, c, p) = Vol(q, c, p)
<1>. DEFINE S == {i \in 0..Len(q) : Vol(r, i, p) = Vol(q, i, p)}
<1>1. Len(q) \in Nat /\ Len(r) \in Nat
  BY LenProperties
<1>2. 0 \in S
  <2>1. Vol(q, 0, p) = 0 /\ Vol(r, 0, p) = 0
    BY VolStep
  <2>. QED  BY <1>1, <2>1
<1>3. ASSUME NEW i \in 1..Len(q), i - 1 \in S PROVE i \in S
  <2>1. i \in 1..Len(r) /\ r[i] = q[i] /\ i \in 0..Len(q)
    BY <1>1
  <2>2. Vol(q, i, p) = IF q[i].pos = p THEN Left(q[i]) ELSE Vol(q, i - 1, p)
    BY VolNext
  <2>3. Vol(r, i, p) = IF r[i].pos = p THEN Left(r[i]) ELSE Vol(r, i - 1, p)
    BY <2>1, VolNext
  <2>4. Vol(r, i - 1, p) = Vol(q, i - 1, p)
    BY <1>3
  <2>. QED  BY <2>1, <2>2, <2>3, <2>4
<1>. HIDE DEF S
<1>4. \A i \in 0..Len(q) : i \in S
  BY <1>1, <1>2, <1>3, Upwards
<1>. QED  BY <1>4 DEF S

\* A deal that begins where the others ended extends the account.
LEMMA LedgerGrows ==
  ASSUME NEW q \in Seq(Deal), IsLedger(q), NEW d \in Deal, d.vol >= 1,
         d.was = Vol(q, Len(q), d.pos), d.entry = "OUT" => d.vol <= d.was,
         d.was = 0 => \A j \in 1..Len(q) : q[j].pos # d.pos
  PROVE  /\ IsLedger(Append(q, d))
         /\ \A p : Vol(Append(q, d), Len(q) + 1, p)
                     = IF p = d.pos THEN Left(d) ELSE Vol(q, Len(q), p)
         /\ \A c \in 0..Len(q), p \in Position : Vol(Append(q, d), c, p) = Vol(q, c, p)
<1>. DEFINE r == Append(q, d)
            N == Len(q)
<1>1. /\ r \in Seq(Deal) /\ Len(r) = N + 1 /\ N \in Nat
      /\ \A i \in 1..N : r[i] = q[i]
      /\ r[N + 1] = d
  BY AppendProperties, LenProperties
<1>. HIDE DEF r
<1>2. \A c \in 0..N : \A p : Vol(r, c, p) = Vol(q, c, p)
  <2>1. N <= Len(r)
    BY <1>1
  <2>. QED  BY <1>1, <2>1, VolOfLonger
<1>3. ASSUME NEW i \in 1..(N + 1)
      PROVE  /\ r[i].vol >= 1 /\ r[i].was = Vol(r, i - 1, r[i].pos)
             /\ r[i].entry = "OUT" => r[i].vol <= r[i].was
             /\ r[i].was = 0 => \A j \in 1..(i - 1) : r[j].pos # r[i].pos
  <2>1. CASE i = N + 1
    <3>1. r[i] = d /\ i - 1 = N /\ N \in 0..N
      BY <1>1, <2>1
    <3>2. Vol(r, i - 1, d.pos) = Vol(q, N, d.pos)
      BY <1>2, <3>1
    <3>3. \A j \in 1..(i - 1) : r[j] = q[j]
      BY <1>1, <3>1
    <3>. QED  BY <3>1, <3>2, <3>3
  <2>2. CASE i # N + 1
    <3>1. i \in 1..N /\ r[i] = q[i] /\ i - 1 \in 0..N /\ \A j \in 1..(i - 1) : r[j] = q[j]
      BY <1>1, <2>2
    <3>2. Vol(r, i - 1, r[i].pos) = Vol(q, i - 1, q[i].pos)
      BY <1>2, <3>1
    <3>3. /\ q[i].vol >= 1 /\ q[i].was = Vol(q, i - 1, q[i].pos)
          /\ q[i].entry = "OUT" => q[i].vol <= q[i].was
          /\ q[i].was = 0 => \A j \in 1..(i - 1) : q[j].pos # q[i].pos
      BY <3>1 DEF IsLedger
    <3>. QED  BY <3>1, <3>2, <3>3
  <2>. QED  BY <2>1, <2>2
<1>4. IsLedger(r)
  BY <1>1, <1>3 DEF IsLedger
<1>5. ASSUME NEW p PROVE Vol(r, N + 1, p) = IF p = d.pos THEN Left(d) ELSE Vol(q, N, p)
  <2>1. Vol(r, N + 1, p) = IF r[N + 1].pos = p THEN Left(r[N + 1]) ELSE Vol(r, N, p)
    BY <1>1, VolStep
  <2>2. Vol(r, N, p) = Vol(q, N, p)
    BY <1>1, <1>2
  <2>. QED  BY <1>1, <2>1, <2>2
<1>. QED  BY <1>2, <1>4, <1>5 DEF r

\* A snapshot shows what the first c deals left.
Matches(b, q, c) ==
  \A p \in Position : Vol(q, c, p) = IF p \in DOMAIN b THEN b[p].vol ELSE 0

\* The deals of the first n records of s, and that they follow the broker's order.
DealsOf(s, n) == {s[j].deal : j \in {k \in 1..n : s[k].kind = "DEAL_ADD"}}
InSequence(s, n) ==
  \A i \in 1..n : s[i].kind = "DEAL_ADD" => DealsOf(s, i - 1) = 1..(s[i].deal - 1)

\* The first n records of s tell of the very deals the snapshot b shows.
Aligned(b, s, n, q) ==
  InSequence(s, n) /\ \E c \in 0..Len(q) : DealsOf(s, n) = 1..c /\ Matches(b, q, c)

\* A record tells of its deal what the broker executed.
RecordOf(r, q) ==
  r.kind = "DEAL_ADD" => /\ r.deal \in 1..Len(q) /\ r.pos = q[r.deal].pos
                         /\ r.entry = q[r.deal].entry /\ r.vol = q[r.deal].vol

\* The deals told grow record by record.
LEMMA DealsOfNext ==
  ASSUME NEW s, NEW n \in Nat
  PROVE  /\ DealsOf(s, 0) = {}
         /\ DealsOf(s, n + 1) = IF s[n + 1].kind = "DEAL_ADD"
                                THEN DealsOf(s, n) \cup {s[n + 1].deal} ELSE DealsOf(s, n)
<1>1. 1..0 = {} /\ 1..(n + 1) = 1..n \cup {n + 1}
  OBVIOUS
<1>. QED  BY <1>1 DEF DealsOf

\* The first numbers up to c say which c it is.
LEMMA SameNumbers ==
  ASSUME NEW c \in Nat, NEW d \in Nat, 1..c = 1..d
  PROVE  c = d
<1>1. c # 0 => c \in 1..c
  OBVIOUS
<1>2. d # 0 => d \in 1..d
  OBVIOUS
<1>3. c \in 1..c => c <= d
  OBVIOUS
<1>4. d \in 1..d => d <= c
  OBVIOUS
<1>. QED  BY <1>1, <1>2, <1>3, <1>4

\* Records and deals that follow leave an alignment as it is.
LEMMA AlignedStays ==
  ASSUME NEW b, NEW n \in Nat, NEW s, NEW t, \A i \in 1..n : t[i] = s[i],
         NEW q \in Seq(Deal), NEW r \in Seq(Deal), Len(q) <= Len(r),
         \A i \in 1..Len(q) : r[i] = q[i],
         Aligned(b, s, n, q)
  PROVE  Aligned(b, t, n, r)
<1>1. Len(q) \in Nat /\ Len(r) \in Nat
  BY LenProperties
<1>2. ASSUME NEW i \in 0..n PROVE DealsOf(t, i) = DealsOf(s, i)
  <2>1. \A k \in 1..i : k \in 1..n /\ t[k] = s[k]
    OBVIOUS
  <2>. QED  BY <2>1 DEF DealsOf
<1>3. InSequence(t, n)
  <2>1. ASSUME NEW i \in 1..n, t[i].kind = "DEAL_ADD"
        PROVE  DealsOf(t, i - 1) = 1..(t[i].deal - 1)
    <3>1. t[i] = s[i] /\ i - 1 \in 0..n
      OBVIOUS
    <3>2. DealsOf(s, i - 1) = 1..(s[i].deal - 1)
      BY <2>1, <3>1 DEF Aligned, InSequence
    <3>. QED  BY <1>2, <3>1, <3>2
  <2>. QED  BY <2>1 DEF InSequence
<1>4. PICK c \in 0..Len(q) : DealsOf(s, n) = 1..c /\ Matches(b, q, c)
  BY DEF Aligned
<1>5. c \in 0..Len(r) /\ DealsOf(t, n) = 1..c
  BY <1>1, <1>2, <1>4
<1>6. Matches(b, r, c)
  <2>1. \A p \in Position : Vol(r, c, p) = Vol(q, c, p)
    BY VolOfLonger
  <2>. QED  BY <1>4, <2>1 DEF Matches
<1>. QED  BY <1>3, <1>5, <1>6 DEF Aligned

-----------------------------------------------------------------------------
\* A history of every deal tells of them in order, and of all of them.
LEMMA HistoryTold ==
  ASSUME NEW s \in Seq(Record), NEW q \in Seq(Deal),
         LET published == Sublist(s, {i \in DOMAIN s : s[i].kind = "DEAL_ADD"})
         IN  [i \in DOMAIN published |-> published[i].deal] = [d \in DOMAIN q |-> d]
  PROVE  InSequence(s, Len(s)) /\ DealsOf(s, Len(s)) = 1..Len(q)
<1>. DEFINE places == {i \in DOMAIN s : s[i].kind = "DEAL_ADD"}
            N == Len(s)
            all == Sublist(s, places)
<1>1. /\ N \in Nat /\ DOMAIN s = 1..N /\ \A i \in 1..N : s[i] \in Record
      /\ Len(q) \in Nat /\ DOMAIN q = 1..Len(q)
  BY LenProperties
<1>2. PICK F : /\ all = F[N] /\ F[0] = <<>>
               /\ \A i \in 1..N :
                    F[i] = IF i \in places THEN Append(F[i - 1], s[i]) ELSE F[i - 1]
  <2>1. places \in SUBSET DOMAIN s
    OBVIOUS
  <2>. HIDE DEF places
  <2>. QED  BY <2>1, SublistSteps
<1>3. DOMAIN all = 1..Len(q) /\ \A i \in 1..Len(q) : all[i].deal = i
  <2>1. [i \in DOMAIN all |-> all[i].deal] = [d \in DOMAIN q |-> d]
    OBVIOUS
  <2>. HIDE DEF all
  <2>2. DOMAIN [i \in DOMAIN all |-> all[i].deal] = DOMAIN [d \in DOMAIN q |-> d]
    BY <2>1
  <2>3. DOMAIN all = DOMAIN q
    BY <2>2
  <2>4. ASSUME NEW i \in DOMAIN q PROVE all[i].deal = i
    <3>1. [j \in DOMAIN all |-> all[j].deal][i] = [d \in DOMAIN q |-> d][i]
      BY <2>1
    <3>. QED  BY <2>3, <3>1
  <2>. QED  BY <1>1, <2>3, <2>4
<1>. HIDE DEF all, N
\* What was taken from the first i records is the beginning of the whole.
<1>. DEFINE Part(i) == /\ F[i] \in Seq(Record)
                       /\ DealsOf(s, i) = {r.deal : r \in Range(F[i])}
            S == {i \in 0..N : Part(i)}
<1>4. \A i \in 0..N : Part(i)
  <2>1. 0 \in S
    <3>1. <<>> \in Seq(Record) /\ Range(<<>>) = {}
      BY EmptySeq DEF Range
    <3>2. DealsOf(s, 0) = {}
      BY DealsOfNext
    <3>3. Part(0)
      BY <1>2, <3>1, <3>2
    <3>. HIDE DEF Part
    <3>. QED  BY <1>1, <3>3
  <2>2. ASSUME NEW i \in 1..N, i - 1 \in S PROVE i \in S
    <3>1. Part(i - 1) /\ i - 1 \in Nat /\ (i - 1) + 1 = i
      BY <1>1, <2>2
    <3>2. DealsOf(s, i) = IF s[i].kind = "DEAL_ADD"
                          THEN DealsOf(s, i - 1) \cup {s[i].deal} ELSE DealsOf(s, i - 1)
      BY <3>1, DealsOfNext
    <3>3. CASE i \in places
      <4>1. F[i] = Append(F[i - 1], s[i]) /\ s[i].kind = "DEAL_ADD" /\ s[i] \in Record
        BY <1>1, <1>2, <3>3
      <4>2. F[i] \in Seq(Record) /\ Range(F[i]) = Range(F[i - 1]) \cup {s[i]}
        BY <3>1, <4>1, RangeOfAppend
      <4>3. DealsOf(s, i) = {r.deal : r \in Range(F[i])}
        BY <3>1, <3>2, <4>1, <4>2
      <4>. QED  BY <1>1, <4>2, <4>3
    <3>4. CASE i \notin places
      <4>1. F[i] = F[i - 1] /\ s[i].kind # "DEAL_ADD"
        BY <1>1, <1>2, <3>4
      <4>. QED  BY <1>1, <3>1, <3>2, <4>1
    <3>. QED  BY <3>3, <3>4
  <2>. HIDE DEF S
  <2>3. \A i \in 0..N : i \in S
    BY <1>1, <2>1, <2>2, Upwards
  <2>. QED  BY <2>3 DEF S
<1>. DEFINE Begins(i, k) == /\ Len(F[i]) <= Len(F[k])
                            /\ \A j \in 1..Len(F[i]) : F[k][j] = F[i][j]
<1>5. ASSUME NEW i \in 0..N PROVE Begins(i, N)
  <2>. DEFINE U == {k \in i..N : Begins(i, k)}
  <2>. HIDE DEF Part
  <2>0. \A k \in 0..N : F[k] \in Seq(Record) /\ Len(F[k]) \in Nat
    BY <1>4, LenProperties DEF Part
  <2>1. i \in U
    BY <1>1, <2>0
  <2>2. ASSUME NEW k \in (i + 1)..N, k - 1 \in U PROVE k \in U
    <3>1. k \in 1..N /\ k - 1 \in 0..N /\ k \in i..N /\ Begins(i, k - 1)
      BY <1>1, <2>2
    <3>2. CASE k \in places
      <4>1. F[k] = Append(F[k - 1], s[k]) /\ s[k] \in Record
        BY <1>1, <1>2, <3>1, <3>2
      <4>2. /\ Len(F[k]) = Len(F[k - 1]) + 1 /\ Len(F[k - 1]) \in Nat
            /\ \A j \in 1..Len(F[k - 1]) : F[k][j] = F[k - 1][j]
        BY <2>0, <3>1, <4>1, AppendProperties
      <4>3. Len(F[i]) \in Nat /\ Len(F[i]) <= Len(F[k - 1])
        BY <2>0, <3>1
      <4>4. \A j \in 1..Len(F[i]) : j \in 1..Len(F[k - 1])
        BY <4>2, <4>3
      <4>5. Len(F[i]) <= Len(F[k])
        BY <4>2, <4>3
      <4>6. \A j \in 1..Len(F[i]) : F[k][j] = F[i][j]
        BY <3>1, <4>2, <4>4
      <4>. QED  BY <3>1, <4>5, <4>6
    <3>3. CASE k \notin places
      <4>1. F[k] = F[k - 1]
        BY <1>2, <3>1, <3>3
      <4>. QED  BY <3>1, <4>1
    <3>. QED  BY <3>2, <3>3
  <2>. HIDE DEF U, Begins
  <2>3. \A k \in i..N : k \in U
    <3>1. i \in Nat /\ N \in Nat /\ i <= N
      BY <1>1
    <3>. QED  BY <2>1, <2>2, <3>1, UpwardsFrom
  <2>. QED  BY <1>1, <2>3 DEF U
<1>6. ASSUME NEW i \in 0..N
      PROVE  Len(F[i]) \in Nat /\ DealsOf(s, i) = 1..Len(F[i]) /\ Len(F[i]) <= Len(q)
             /\ \A j \in 1..Len(F[i]) : F[i][j].deal = j
  <2>1. Part(i) /\ Part(N) /\ Begins(i, N)
    BY <1>1, <1>4, <1>5
  <2>2. Len(F[i]) \in Nat /\ Len(F[N]) \in Nat /\ DOMAIN F[N] = 1..Len(F[N])
    BY <2>1, LenProperties
  <2>3. Len(F[N]) = Len(q)
    <3>1. 1..Len(F[N]) = 1..Len(q)
      BY <1>2, <1>3, <2>2
    <3>. QED  BY <1>1, <2>2, <3>1, SameNumbers
  <2>4. \A j \in 1..Len(F[i]) : j \in 1..Len(q) /\ F[i][j] = F[N][j]
    BY <1>1, <2>1, <2>2, <2>3
  <2>5. \A j \in 1..Len(F[i]) : F[i][j].deal = j
    BY <1>2, <1>3, <2>4
  <2>6. DealsOf(s, i) = 1..Len(F[i])
    <3>1. DealsOf(s, i) = {r.deal : r \in Range(F[i])} /\ DOMAIN F[i] = 1..Len(F[i])
      BY <2>1, LenProperties
    <3>2. Range(F[i]) = {F[i][j] : j \in 1..Len(F[i])}
      BY <3>1 DEF Range
    <3>. HIDE DEF Part, Begins
    <3>3. {r.deal : r \in {F[i][j] : j \in 1..Len(F[i])}} = 1..Len(F[i])
      BY <2>5
    <3>. QED  BY <3>1, <3>2, <3>3
  <2>. QED  BY <2>1, <2>2, <2>3, <2>5, <2>6
<1>7. DealsOf(s, N) = 1..Len(q)
  <2>1. DealsOf(s, N) = 1..Len(F[N])
    BY <1>1, <1>6
  <2>2. F[N] \in Seq(Record)
    BY <1>1, <1>4
  <2>3. DOMAIN F[N] = 1..Len(F[N])
    BY <2>2, LenProperties
  <2>. QED  BY <1>2, <1>3, <2>1, <2>3
<1>8. ASSUME NEW i \in 1..N, s[i].kind = "DEAL_ADD"
      PROVE  DealsOf(s, i - 1) = 1..(s[i].deal - 1)
  <2>1. i - 1 \in 0..N /\ i \in 0..N /\ i \in places
    BY <1>1, <1>8
  <2>2. F[i] = Append(F[i - 1], s[i]) /\ F[i - 1] \in Seq(Record) /\ s[i] \in Record
    BY <1>1, <1>2, <1>4, <2>1
  <2>3. Len(F[i]) = Len(F[i - 1]) + 1 /\ F[i][Len(F[i - 1]) + 1] = s[i]
    BY <2>2, AppendProperties
  <2>4. s[i].deal = Len(F[i - 1]) + 1 /\ Len(F[i - 1]) \in Nat
    <3>1. Len(F[i - 1]) \in Nat /\ Len(F[i - 1]) + 1 \in 1..Len(F[i])
      BY <1>6, <2>1, <2>3
    <3>2. F[i][Len(F[i - 1]) + 1].deal = Len(F[i - 1]) + 1
      BY <1>6, <2>1, <3>1
    <3>. QED  BY <2>3, <3>1, <3>2
  <2>5. DealsOf(s, i - 1) = 1..Len(F[i - 1]) /\ s[i].deal - 1 = Len(F[i - 1])
    BY <1>6, <2>1, <2>4
  <2>. QED  BY <2>5
<1>. QED  BY <1>7, <1>8 DEF InSequence, N

-----------------------------------------------------------------------------
(* Events that stand for deals, in order.                                   *)

\* What the broker knows a deal did (DealType, of the deal itself).
TypeOfDeal(d) ==
  IF d.entry = "IN"
  THEN IF d.was = 0 THEN "trade_opened" ELSE "trade_volume_changed"
  ELSE IF d.vol < d.was THEN "trade_partial_closed" ELSE "trade_closed"

\* An event that opens, reduces or closes is a deal's, and says what the deal did.
IsExact(e, q) ==
  IsEconomic(e) => /\ e.native \in 1..Len(q)
                   /\ e.type = TypeOfDeal(q[e.native]) /\ e.ticket = q[e.native].pos

Ascends(q) ==
  \A i, j \in DOMAIN q :
    i < j /\ IsEconomic(q[i]) /\ IsEconomic(q[j]) => q[i].native < q[j].native

NativesOf(q) == {e.native : e \in {x \in Range(q) : IsEconomic(x)}}

\* A later deal, or no deal, may follow.
LEMMA AscendsAppend ==
  ASSUME NEW T, NEW q \in Seq(T), Ascends(q), NEW x \in T,
         \A e \in Range(q) : IsEconomic(e) /\ IsEconomic(x) => e.native < x.native
  PROVE  Ascends(Append(q, x))
<1>. DEFINE r == Append(q, x)
            L == Len(q)
<1>1. /\ L \in Nat /\ DOMAIN q = 1..L /\ DOMAIN r = 1..(L + 1)
      /\ \A i \in 1..L : r[i] = q[i]
      /\ r[L + 1] = x
  <2>1. /\ r \in Seq(T) /\ Len(r) = L + 1 /\ r[L + 1] = x
        /\ \A i \in 1..L : r[i] = q[i]
    BY AppendProperties
  <2>. HIDE DEF r
  <2>. QED  BY <2>1, LenProperties
<1>. HIDE DEF r, L
<1>2. ASSUME NEW i \in 1..(L + 1), NEW j \in 1..(L + 1), i < j,
             IsEconomic(r[i]), IsEconomic(r[j])
      PROVE  r[i].native < r[j].native
  <2>1. i \in 1..L /\ r[i] = q[i]
    BY <1>1, <1>2
  <2>2. CASE j = L + 1
    <3>1. q[i] \in Range(q)
      BY <1>1, <2>1 DEF Range
    <3>. QED  BY <1>1, <1>2, <2>1, <2>2, <3>1
  <2>3. CASE j # L + 1
    <3>1. j \in 1..L /\ r[j] = q[j]
      BY <1>1, <2>3
    <3>. QED  BY <1>1, <1>2, <2>1, <3>1 DEF Ascends
  <2>. QED  BY <2>2, <2>3
<1>3. Ascends(r)
  BY <1>1, <1>2 DEF Ascends
<1>. QED  BY <1>3 DEF r

\* What is taken from a list in its order ascends when the list does there.
LEMMA SublistAscends ==
  ASSUME NEW T, NEW q \in Seq(T), NEW places \in SUBSET DOMAIN q,
         \A i, j \in places :
           i < j /\ IsEconomic(q[i]) /\ IsEconomic(q[j]) => q[i].native < q[j].native
  PROVE  Ascends(Sublist(q, places))
<1>. DEFINE N == Len(q)
<1>1. N \in Nat /\ DOMAIN q = 1..N /\ \A i \in 1..N : q[i] \in T
  BY LenProperties
<1>2. PICK F : /\ Sublist(q, places) = F[N] /\ F[0] = <<>>
               /\ \A i \in 1..N :
                    F[i] = IF i \in places THEN Append(F[i - 1], q[i]) ELSE F[i - 1]
  BY SublistSteps
<1>. HIDE DEF N
<1>. DEFINE Part(i) == /\ F[i] \in Seq(T) /\ Ascends(F[i])
                       /\ \A e \in Range(F[i]) : \E k \in places : k <= i /\ e = q[k]
            S == {i \in 0..N : Part(i)}
<1>3. 0 \in S
  <2>1. <<>> \in Seq(T) /\ Range(<<>>) = {} /\ DOMAIN <<>> = {}
    BY EmptySeq DEF Range
  <2>2. Ascends(<<>>)
    BY <2>1 DEF Ascends
  <2>3. Part(0)
    BY <1>2, <2>1, <2>2
  <2>. HIDE DEF Part
  <2>. QED  BY <1>1, <2>3
<1>4. ASSUME NEW i \in 1..N, i - 1 \in S PROVE i \in S
  <2>1. Part(i - 1) /\ i \in 0..N
    BY <1>1, <1>4
  <2>. HIDE DEF S
  <2>2. CASE i \in places
    <3>1. F[i] = Append(F[i - 1], q[i]) /\ q[i] \in T
      BY <1>1, <1>2, <2>2
    <3>2. F[i] \in Seq(T) /\ Range(F[i]) = Range(F[i - 1]) \cup {q[i]}
      BY <2>1, <3>1, RangeOfAppend
    <3>3. ASSUME NEW e \in Range(F[i - 1]), IsEconomic(e), IsEconomic(q[i])
          PROVE  e.native < q[i].native
      <4>1. PICK k \in places : k <= i - 1 /\ e = q[k]
        BY <2>1
      <4>2. k < i
        BY <1>1, <4>1
      <4>. QED  BY <2>2, <3>3, <4>1, <4>2
    <3>4. Ascends(F[i])
      BY <2>1, <3>1, <3>3, AscendsAppend
    <3>5. ASSUME NEW e \in Range(F[i]) PROVE \E k \in places : k <= i /\ e = q[k]
      <4>1. CASE e = q[i]
        BY <2>2, <4>1
      <4>2. CASE e \in Range(F[i - 1])
        <5>1. PICK k \in places : k <= i - 1 /\ e = q[k]
          BY <2>1, <4>2
        <5>2. k <= i
          BY <1>1, <5>1
        <5>. QED  BY <5>1, <5>2
      <4>. QED  BY <3>2, <4>1, <4>2
    <3>. QED  BY <2>1, <3>2, <3>4, <3>5 DEF S
  <2>3. CASE i \notin places
    <3>1. F[i] = F[i - 1]
      BY <1>2, <2>3
    <3>2. ASSUME NEW e \in Range(F[i]) PROVE \E k \in places : k <= i /\ e = q[k]
      <4>1. PICK k \in places : k <= i - 1 /\ e = q[k]
        BY <2>1, <3>1
      <4>2. k <= i
        BY <1>1, <4>1
      <4>. QED  BY <4>1, <4>2
    <3>3. F[i] \in Seq(T) /\ Ascends(F[i])
      BY <2>1, <3>1
    <3>. QED  BY <2>1, <3>2, <3>3 DEF S
  <2>. QED  BY <2>2, <2>3
<1>. HIDE DEF S
<1>5. N \in S
  BY <1>1, <1>3, <1>4, Upwards
<1>. QED  BY <1>2, <1>5 DEF S

\* Nothing economic after it leaves a list ascending.
LEMMA AscendsConcat ==
  ASSUME NEW T, NEW q \in Seq(T), NEW r \in Seq(T), Ascends(q),
         \A e \in Range(r) : ~IsEconomic(e)
  PROVE  Ascends(q \o r)
<1>. DEFINE L == Len(q)
            M == Len(r)
            s == q \o r
<1>1. /\ L \in Nat /\ M \in Nat /\ DOMAIN q = 1..L /\ DOMAIN s = 1..(L + M) /\ DOMAIN r = 1..M
      /\ \A i \in 1..(L + M) : s[i] = IF i <= L THEN q[i] ELSE r[i - L]
  <2>1. /\ s \in Seq(T) /\ Len(s) = L + M
        /\ \A i \in 1..(L + M) : s[i] = IF i <= L THEN q[i] ELSE r[i - L]
    BY ConcatProperties
  <2>. HIDE DEF s
  <2>. QED  BY <2>1, LenProperties
<1>. HIDE DEF s, L, M
<1>2. ASSUME NEW i \in 1..(L + M), IsEconomic(s[i]) PROVE i \in 1..L /\ s[i] = q[i]
  <2>1. CASE i <= L
    BY <1>1, <2>1
  <2>2. CASE ~(i <= L)
    <3>1. i - L \in 1..M /\ s[i] = r[i - L]
      BY <1>1, <2>2
    <3>2. r[i - L] \in Range(r)
      BY <1>1, <3>1 DEF Range
    <3>. QED  BY <1>2, <3>1, <3>2
  <2>. QED  BY <2>1, <2>2
<1>3. Ascends(s)
  BY <1>1, <1>2 DEF Ascends
<1>. QED  BY <1>3 DEF s

-----------------------------------------------------------------------------
(* The replay over the previous snapshot.                                   *)

\* The stream tells of deals that the broker executed.
TellsOf(s, q) == \A i \in 1..Len(s) : RecordOf(s[i], q)

\* What a list holds after its first a entries.
IsRest(rest, s, a) ==
  Len(rest) = Len(s) - a /\ \A k \in 1..(Len(s) - a) : rest[k] = s[a + k]

\* The volumes the replay tracks are those the broker's deals left.
LEMMA TrackedIsVol ==
  ASSUME NEW q \in Seq(Deal), IsLedger(q), NEW s \in Seq(Record),
         TellsOf(s, q), InSequence(s, Len(s)),
         NEW a \in 0..Len(s), NEW read \in Seq(Record), IsRest(read, s, a),
         NEW prev, IsPositions(prev), Aligned(prev, s, a, q)
  PROVE  \A k \in 0..(Len(s) - a) :
           \E c \in 0..Len(q) : /\ DealsOf(s, a + k) = 1..c
                                /\ \A p \in Position : Volumes(read, prev)[k][p] = Vol(q, c, p)
<1>. DEFINE M == Len(s) - a
            V == Volumes(read, prev)
            Follows(k) == \E c \in 0..Len(q) : /\ DealsOf(s, a + k) = 1..c
                                               /\ \A p \in Position : V[k][p] = Vol(q, c, p)
            S == {k \in 0..M : Follows(k)}
<1>1. M \in Nat /\ a \in Nat /\ Len(s) \in Nat /\ Len(q) \in Nat
  BY LenProperties
<1>2. /\ \A k \in 0..M : V[k] \in [Position -> Nat]
      /\ V[0] = [p \in Position |-> IF p \in DOMAIN prev THEN prev[p].vol ELSE 0]
      /\ \A k \in 1..M : V[k] = TrackedAfter(read[k], V[k - 1])
  BY VolumesAre DEF IsRest
<1>. HIDE DEF V, M
<1>3. 0 \in S
  <2>1. PICK c \in 0..Len(q) : DealsOf(s, a) = 1..c /\ Matches(prev, q, c)
    BY DEF Aligned
  <2>2. \A p \in Position : V[0][p] = Vol(q, c, p)
    BY <1>2, <2>1 DEF Matches
  <2>3. a + 0 = a
    BY <1>1
  <2>4. Follows(0)
    BY <2>1, <2>2, <2>3
  <2>. HIDE DEF Follows
  <2>. QED  BY <1>1, <2>4
<1>4. ASSUME NEW k \in 1..M, k - 1 \in S PROVE k \in S
  <2>1. PICK c \in 0..Len(q) : /\ DealsOf(s, a + (k - 1)) = 1..c
                               /\ \A p \in Position : V[k - 1][p] = Vol(q, c, p)
    BY <1>4
  <2>2. /\ a + k \in 1..Len(s) /\ a + (k - 1) \in Nat /\ (a + (k - 1)) + 1 = a + k
        /\ (a + k) - 1 = a + (k - 1) /\ k \in 0..M /\ k - 1 \in 0..M
    BY <1>1 DEF M
  <2>3. read[k] = s[a + k] /\ V[k] = TrackedAfter(read[k], V[k - 1])
    BY <1>2 DEF M, IsRest
  <2>4. DealsOf(s, a + k) = IF s[a + k].kind = "DEAL_ADD"
                            THEN DealsOf(s, a + (k - 1)) \cup {s[a + k].deal}
                            ELSE DealsOf(s, a + (k - 1))
    BY <2>2, DealsOfNext
  <2>. HIDE DEF S
  <2>5. CASE s[a + k].kind # "DEAL_ADD"
    <3>1. V[k] = V[k - 1] /\ DealsOf(s, a + k) = 1..c
      BY <2>1, <2>3, <2>4, <2>5 DEF TrackedAfter
    <3>. QED  BY <2>1, <2>2, <3>1 DEF S
  <2>6. CASE s[a + k].kind = "DEAL_ADD"
    <3>. DEFINE r == s[a + k]
                d == r.deal
    <3>1. d \in 1..Len(q) /\ r.pos = q[d].pos /\ r.entry = q[d].entry /\ r.vol = q[d].vol
      BY <2>2, <2>6 DEF RecordOf, TellsOf
    <3>2. DealsOf(s, a + (k - 1)) = 1..(d - 1)
      BY <2>2, <2>6 DEF InSequence
    <3>. HIDE DEF d, r
    <3>3. d - 1 = c
      <4>1. d - 1 \in Nat /\ c \in Nat /\ 1..c = 1..(d - 1)
        BY <1>1, <2>1, <3>1, <3>2
      <4>. QED  BY <4>1, SameNumbers
    <3>4. DealsOf(s, a + k) = 1..d
      <4>1. 1..d = 1..(d - 1) \cup {d}
        BY <1>1, <3>1
      <4>. QED  BY <2>4, <2>6, <3>2, <4>1 DEF d, r
    <3>5. /\ q[d].pos \in Position /\ q[d].entry \in {"IN", "OUT"} /\ q[d].vol \in Nat
          /\ q[d].was \in Nat /\ q[d].was = Vol(q, d - 1, q[d].pos)
          /\ q[d].entry = "OUT" => q[d].vol <= q[d].was
      BY <3>1, DealsAre
    <3>6. V[k - 1][q[d].pos] = q[d].was /\ V[k - 1] \in [Position -> Nat]
      BY <1>2, <2>1, <2>2, <3>3, <3>5
    <3>7. TrackedAfter(r, V[k - 1])
            = [V[k - 1] EXCEPT ![q[d].pos] =
                 IF q[d].entry = "IN" THEN V[k - 1][q[d].pos] + q[d].vol
                 ELSE IF V[k - 1][q[d].pos] > q[d].vol THEN V[k - 1][q[d].pos] - q[d].vol ELSE 0]
      BY <2>6, <3>1 DEF TrackedAfter, r
    <3>8. (IF q[d].entry = "IN" THEN V[k - 1][q[d].pos] + q[d].vol
           ELSE IF V[k - 1][q[d].pos] > q[d].vol THEN V[k - 1][q[d].pos] - q[d].vol ELSE 0)
            = Left(q[d])
      BY <3>5, <3>6 DEF Left
    <3>9. V[k] = [V[k - 1] EXCEPT ![q[d].pos] = Left(q[d])]
      BY <2>3, <3>7, <3>8 DEF r
    <3>10. ASSUME NEW p \in Position PROVE V[k][p] = Vol(q, d, p)
      <4>1. Vol(q, d, p) = IF q[d].pos = p THEN Left(q[d]) ELSE Vol(q, d - 1, p)
        BY <3>1, VolNext
      <4>2. V[k][p] = IF q[d].pos = p THEN Left(q[d]) ELSE V[k - 1][p]
        BY <3>6, <3>9
      <4>. QED  BY <2>1, <3>3, <4>1, <4>2
    <3>11. d \in 0..Len(q)
      BY <1>1, <3>1
    <3>. QED  BY <2>2, <3>4, <3>10, <3>11 DEF S
  <2>. QED  BY <2>5, <2>6
<1>. HIDE DEF S
<1>5. \A k \in 0..M : k \in S
  BY <1>1, <1>3, <1>4, Upwards
<1>. QED  BY <1>5 DEF S, V, M

\* A deal is replayed as what the broker did; a notification can at most echo
\* that the volume of its position fell.
LEMMA ReplayIsExact ==
  ASSUME NEW q \in Seq(Deal), IsLedger(q), NEW s \in Seq(Record),
         TellsOf(s, q), InSequence(s, Len(s)),
         NEW a \in 0..Len(s), NEW read \in Seq(Record), IsRest(read, s, a),
         NEW prev, IsPositions(prev), Aligned(prev, s, a, q), NEW cur, IsPositions(cur),
         NEW k \in 1..(Len(s) - a)
  PROVE  LET e == Replay(read, prev, cur)[k]
         IN  /\ read[k].kind = "DEAL_ADD" =>
                  /\ e.native = read[k].deal /\ e.native \in 1..Len(q) /\ ~e.lowers
                  /\ e.type = TypeOfDeal(q[e.native]) /\ e.ticket = q[e.native].pos
             /\ read[k].kind # "DEAL_ADD" /\ IsEconomic(e) =>
                  /\ e.type = "trade_volume_changed" /\ e.lowers
                  /\ e.ticket \in DOMAIN prev \cap DOMAIN cur
                  /\ cur[e.ticket].vol < prev[e.ticket].vol
<1>. DEFINE r == read[k]
            V == Volumes(read, prev)
            e == Replay(read, prev, cur)[k]
<1>1. /\ Len(s) \in Nat /\ a \in Nat /\ Len(q) \in Nat /\ DOMAIN read = 1..(Len(s) - a)
      /\ k - 1 \in 0..(Len(s) - a) /\ a + k \in 1..Len(s) /\ (a + k) - 1 = a + (k - 1)
      /\ r = s[a + k]
  BY LenProperties DEF IsRest
<1>2. r.pos \in Position
  <2>1. r \in Record
    BY <1>1, ElementOfSeq
  <2>. QED  BY <2>1 DEF Record
<1>3. e = IF r.kind = "DEAL_ADD" THEN DealEvent(r, V[k - 1], cur) ELSE PositionEvent(r, prev, cur)
  BY <1>1 DEF Replay
<1>. HIDE DEF e
<1>4. ASSUME r.kind = "DEAL_ADD"
      PROVE  /\ e.native = r.deal /\ e.native \in 1..Len(q) /\ ~e.lowers
             /\ e.type = TypeOfDeal(q[e.native]) /\ e.ticket = q[e.native].pos
  <2>. DEFINE d == r.deal
  <2>1. d \in 1..Len(q) /\ r.pos = q[d].pos /\ r.entry = q[d].entry /\ r.vol = q[d].vol
    BY <1>1, <1>4 DEF RecordOf, TellsOf
  <2>2. DealsOf(s, a + (k - 1)) = 1..(d - 1)
    BY <1>1, <1>4 DEF InSequence
  <2>3. PICK c \in 0..Len(q) : /\ DealsOf(s, a + (k - 1)) = 1..c
                               /\ \A p \in Position : V[k - 1][p] = Vol(q, c, p)
    <3>. HIDE DEF d, r
    <3>1. \A i \in 0..(Len(s) - a) :
             \E c \in 0..Len(q) : /\ DealsOf(s, a + i) = 1..c
                                  /\ \A p \in Position : Volumes(read, prev)[i][p] = Vol(q, c, p)
      BY TrackedIsVol
    <3>. HIDE DEF V
    <3>2. k - 1 \in 0..(Len(s) - a)
      BY <1>1
    <3>3. PICK c \in 0..Len(q) : /\ DealsOf(s, a + (k - 1)) = 1..c
                               /\ \A p \in Position : Volumes(read, prev)[k - 1][p] = Vol(q, c, p)
      BY <3>1, <3>2
    <3>. QED  BY <3>3 DEF V
  <2>. HIDE DEF d, r, V
  <2>4. d - 1 = c
    <3>1. d - 1 \in Nat /\ c \in Nat /\ 1..c = 1..(d - 1)
      BY <1>1, <2>1, <2>2, <2>3
    <3>. QED  BY <3>1, SameNumbers
  <2>5. /\ q[d].pos \in Position /\ q[d].entry \in {"IN", "OUT"} /\ q[d].vol \in Nat
        /\ q[d].was \in Nat /\ q[d].was = Vol(q, d - 1, q[d].pos)
        /\ q[d].entry = "OUT" => q[d].was > 0 /\ q[d].vol <= q[d].was
    BY <2>1, DealsAre
  <2>6. V[k - 1][r.pos] = q[d].was
    BY <2>1, <2>3, <2>4, <2>5
  <2>7. e = DealEvent(r, V[k - 1], cur)
    BY <1>3, <1>4
  <2>8. CASE q[d].entry = "IN" /\ q[d].was = 0
    <3>1. e = Opened(r.pos, r.deal, r.vol, NoStop)
      BY <2>1, <2>6, <2>7, <2>8 DEF DealEvent
    <3>. QED  BY <2>1, <2>8, <3>1 DEF Opened, JournalEvent, TypeOfDeal, d
  <2>9. CASE q[d].entry = "IN" /\ q[d].was # 0
    <3>1. q[d].was > 0
      BY <2>5, <2>9
    <3>2. e = VolumeChanged(r.pos, r.deal, q[d].was + r.vol, q[d].was, FALSE)
      BY <2>1, <2>6, <2>7, <2>9, <3>1 DEF DealEvent
    <3>. QED  BY <2>1, <2>9, <3>2 DEF VolumeChanged, JournalEvent, TypeOfDeal, d
  <2>10. CASE q[d].entry = "OUT"
    <3>1. e = IF q[d].was > r.vol THEN PartialClosed(r.pos, r.deal, r.vol)
                                  ELSE Closed(r.pos, r.deal, r.vol)
      BY <2>1, <2>5, <2>6, <2>7, <2>10 DEF DealEvent
    <3>2. q[d].was > r.vol <=> q[d].vol < q[d].was
      BY <2>1, <2>5
    <3>. QED  BY <2>1, <2>10, <3>1, <3>2 DEF PartialClosed, Closed, JournalEvent, TypeOfDeal, d
  <2>. QED  BY <2>5, <2>8, <2>9, <2>10 DEF d
<1>5. ASSUME r.kind # "DEAL_ADD", IsEconomic(e)
      PROVE  /\ e.type = "trade_volume_changed" /\ e.lowers
             /\ e.ticket \in DOMAIN prev \cap DOMAIN cur
             /\ cur[e.ticket].vol < prev[e.ticket].vol
  <2>1. e = PositionEvent(r, prev, cur)
    BY <1>3, <1>5
  <2>. HIDE DEF r
  <2>2. ASSUME e.type \in {"deal_recorded", "trade_modified"}, e.native = NoDeal PROVE FALSE
    BY <1>5, <2>2 DEF IsEconomic, Reduces
  <2>3. CASE r.pos \notin DOMAIN cur
    <3>1. e = Recorded(r.pos, r.seq)
      BY <2>1, <2>3 DEF PositionEvent
    <3>. QED  BY <2>2, <3>1 DEF Recorded, JournalEvent
  <2>4. CASE /\ r.pos \in DOMAIN cur
             /\ r.pos \in DOMAIN prev /\ prev[r.pos].vol # cur[r.pos].vol
    <3>1. e = VolumeChanged(r.pos, NoDeal, cur[r.pos].vol, prev[r.pos].vol,
                            cur[r.pos].vol < prev[r.pos].vol)
      BY <2>1, <2>4 DEF PositionEvent
    <3>2. /\ e.type = "trade_volume_changed" /\ e.ticket = r.pos /\ e.native = NoDeal
          /\ e.lowers = (cur[r.pos].vol < prev[r.pos].vol)
      BY <3>1 DEF VolumeChanged, JournalEvent
    <3>3. e.lowers
      BY <1>5, <3>2 DEF IsEconomic, Reduces
    <3>. QED  BY <2>4, <3>2, <3>3
  <2>5. CASE /\ r.pos \in DOMAIN cur
             /\ ~(r.pos \in DOMAIN prev /\ prev[r.pos].vol # cur[r.pos].vol)
    <3>1. e = Modified(r.pos, cur[r.pos].sl, IF r.pos \in DOMAIN prev THEN prev[r.pos].sl ELSE NoStop)
      BY <2>1, <2>5 DEF PositionEvent
    <3>. QED  BY <2>2, <3>1 DEF Modified, JournalEvent
  <2>. QED  BY <2>3, <2>4, <2>5
<1>. QED  BY <1>4, <1>5 DEF e, r

\* Where the volume of a position fell, a deal reduced it.
LEMMA LowerByADeal ==
  ASSUME NEW q \in Seq(Deal), IsLedger(q), NEW a \in 0..Len(q), NEW b \in a..Len(q),
         NEW prev, IsPositions(prev), Matches(prev, q, a),
         NEW cur, IsPositions(cur), Matches(cur, q, b),
         NEW p \in DOMAIN prev \cap DOMAIN cur, cur[p].vol < prev[p].vol
  PROVE  \E d \in (a + 1)..b :
            q[d].pos = p /\ TypeOfDeal(q[d]) \in {"trade_partial_closed", "trade_closed"}
<1>1. p \in Position /\ prev[p].vol \in Nat /\ cur[p].vol \in Nat
  <2>1. p \in Position /\ prev[p].vol \in 1..MaxDeals /\ cur[p].vol \in 1..MaxDeals
    BY DEF IsPositions
  <2>. QED  BY <2>1, JournalAssumption DEF JournalAssumption
<1>2. Vol(q, a, p) = prev[p].vol /\ Vol(q, b, p) = cur[p].vol
  BY <1>1 DEF Matches
<1>3. ~(Vol(q, a, p) <= Vol(q, b, p))
  BY <1>1, <1>2
<1>4. PICK d \in (a + 1)..b : q[d].pos = p /\ q[d].entry = "OUT"
  BY <1>3, FallsByAReduction
<1>. QED  BY <1>4 DEF TypeOfDeal

\* What the comparison of two snapshots finds of open, reduced and closed
\* positions is the doing of a deal between them.
LEMMA DiffIsOfDeals ==
  ASSUME NEW q \in Seq(Deal), IsLedger(q), NEW a \in 0..Len(q), NEW b \in a..Len(q),
         NEW prev, IsPositions(prev), Matches(prev, q, a),
         NEW cur, IsPositions(cur), Matches(cur, q, b),
         NEW e \in Range(DetectEvents(prev, cur)), IsEconomic(e)
  PROVE  \E d \in (a + 1)..b :
           /\ q[d].pos = e.ticket
           /\ \/ e.type \in {"trade_opened", "trade_closed"} /\ TypeOfDeal(q[d]) = e.type
              \/ /\ e.type = "trade_volume_changed" /\ e.lowers
                 /\ TypeOfDeal(q[d]) \in {"trade_partial_closed", "trade_closed"}
<1>1. /\ Len(q) \in Nat /\ a \in Nat /\ b \in Nat /\ a <= b /\ b \in 0..Len(q)
      /\ \A d \in (a + 1)..b : d \in 1..Len(q)
  BY LenProperties
<1>2. ASSUME NEW p \in Position
      PROVE  /\ Vol(q, a, p) = IF p \in DOMAIN prev THEN prev[p].vol ELSE 0
             /\ Vol(q, b, p) = IF p \in DOMAIN cur THEN cur[p].vol ELSE 0
  BY DEF Matches
<1>3. ASSUME NEW x, IsPositions(x), NEW p \in DOMAIN x
      PROVE  p \in Position /\ x[p].vol \in Nat /\ x[p].vol # 0
  <2>1. p \in Position /\ x[p].vol \in 1..MaxDeals
    BY <1>3 DEF IsPositions
  <2>. QED  BY <2>1, JournalAssumption DEF JournalAssumption
<1>4. \/ \E p \in DOMAIN cur \ DOMAIN prev : e = Opened(p, NoDeal, cur[p].vol, cur[p].sl)
      \/ \E p \in DOMAIN prev \ DOMAIN cur : e = Closed(p, NoDeal, prev[p].vol)
      \/ \E p \in DOMAIN prev \cap DOMAIN cur :
           e = Modified(p, cur[p].sl, prev[p].sl) \/ e = Resized(p, prev, cur)
  BY DetectEventsAre
<1>5. ASSUME NEW p \in DOMAIN cur \ DOMAIN prev, e = Opened(p, NoDeal, cur[p].vol, cur[p].sl)
      PROVE  \E d \in (a + 1)..b : /\ q[d].pos = e.ticket /\ e.type = "trade_opened"
                                   /\ TypeOfDeal(q[d]) = "trade_opened"
  <2>1. e.ticket = p /\ e.type = "trade_opened"
    BY <1>5 DEF Opened, JournalEvent
  <2>2. Vol(q, a, p) = 0 /\ Vol(q, b, p) # 0
    BY <1>2, <1>3
  <2>3. PICK d \in (a + 1)..b : q[d].pos = p /\ q[d].was = 0
    BY <2>2, OpensByAnOpening
  <2>4. q[d].entry \in {"IN", "OUT"} /\ (q[d].entry = "OUT" => q[d].was > 0)
    BY <1>1, DealsAre
  <2>5. TypeOfDeal(q[d]) = "trade_opened"
    BY <2>3, <2>4 DEF TypeOfDeal
  <2>. QED  BY <2>1, <2>3, <2>5
<1>6. ASSUME NEW p \in DOMAIN prev \ DOMAIN cur, e = Closed(p, NoDeal, prev[p].vol)
      PROVE  \E d \in (a + 1)..b : /\ q[d].pos = e.ticket /\ e.type = "trade_closed"
                                   /\ TypeOfDeal(q[d]) = "trade_closed"
  <2>1. e.ticket = p /\ e.type = "trade_closed"
    BY <1>6 DEF Closed, JournalEvent
  <2>2. Vol(q, a, p) # 0 /\ Vol(q, b, p) = 0
    BY <1>2, <1>3
  <2>3. PICK d \in (a + 1)..b : q[d].pos = p /\ Left(q[d]) = 0
    BY <2>2, ClosesByAClose
  <2>4. /\ q[d].entry \in {"IN", "OUT"} /\ q[d].vol \in Nat /\ q[d].vol > 0 /\ q[d].was \in Nat
    BY <1>1, DealsAre
  <2>5. q[d].entry # "IN" /\ ~(q[d].vol < q[d].was)
    BY <2>3, <2>4 DEF Left
  <2>6. TypeOfDeal(q[d]) = "trade_closed"
    BY <2>5 DEF TypeOfDeal
  <2>. QED  BY <2>1, <2>3, <2>6
<1>7. ASSUME NEW p \in DOMAIN prev \cap DOMAIN cur, e = Modified(p, cur[p].sl, prev[p].sl)
      PROVE  FALSE
  BY <1>7 DEF Modified, JournalEvent, IsEconomic, Reduces
<1>9. ASSUME NEW p \in DOMAIN prev \cap DOMAIN cur, e = Resized(p, prev, cur)
      PROVE  \E d \in (a + 1)..b :
                /\ q[d].pos = e.ticket /\ e.type = "trade_volume_changed" /\ e.lowers
                /\ TypeOfDeal(q[d]) \in {"trade_partial_closed", "trade_closed"}
  <2>1. /\ e.type = "trade_volume_changed" /\ e.ticket = p /\ e.native = NoDeal
        /\ e.lowers = (cur[p].vol < prev[p].vol)
    BY <1>9 DEF Resized, VolumeChanged, JournalEvent
  <2>2. e.lowers /\ cur[p].vol < prev[p].vol
    BY <2>1 DEF IsEconomic, Reduces
  <2>3. PICK d \in (a + 1)..b :
          q[d].pos = p /\ TypeOfDeal(q[d]) \in {"trade_partial_closed", "trade_closed"}
    BY <2>2, LowerByADeal
  <2>. QED  BY <2>1, <2>2, <2>3
<1>10. CASE \E p \in DOMAIN cur \ DOMAIN prev : e = Opened(p, NoDeal, cur[p].vol, cur[p].sl)
  BY <1>5, <1>10
<1>11. CASE \E p \in DOMAIN prev \ DOMAIN cur : e = Closed(p, NoDeal, prev[p].vol)
  BY <1>6, <1>11
<1>12. CASE \E p \in DOMAIN prev \cap DOMAIN cur :
              e = Modified(p, cur[p].sl, prev[p].sl) \/ e = Resized(p, prev, cur)
  BY <1>7, <1>9, <1>12
<1>. QED  BY <1>4, <1>10, <1>11, <1>12

\* The deals a poll reads are those the two snapshots are apart.
LEMMA DealsBetween ==
  ASSUME NEW q \in Seq(Deal), NEW s \in Seq(Record), TellsOf(s, q), InSequence(s, Len(s)),
         NEW a \in 0..Len(s), NEW read \in Seq(Record), IsRest(read, s, a),
         NEW c \in Nat, NEW d \in Nat, DealsOf(s, a) = 1..c, DealsOf(s, Len(s)) = 1..d
  PROVE  /\ c <= d
         /\ \A n \in (c + 1)..d : \E k \in 1..(Len(s) - a) :
              read[k].kind = "DEAL_ADD" /\ read[k].deal = n
         /\ \A k \in 1..(Len(s) - a) : read[k].kind = "DEAL_ADD" => read[k].deal \in (c + 1)..d
         /\ \A k \in 1..(Len(s) - a), l \in 1..(Len(s) - a) :
              (k < l /\ read[k].kind = "DEAL_ADD" /\ read[l].kind = "DEAL_ADD")
                => read[k].deal < read[l].deal
<1>. DEFINE N == Len(s)
<1>1. N \in Nat /\ a \in Nat /\ a <= N /\ Len(q) \in Nat
  BY LenProperties
<1>2. \A k \in 1..(N - a) : read[k] = s[a + k] /\ a + k \in 1..N
  BY <1>1 DEF IsRest
<1>3. \A m, n \in 0..N : m <= n => DealsOf(s, m) \subseteq DealsOf(s, n)
  <2>1. ASSUME NEW m \in 0..N, NEW n \in 0..N, m <= n, NEW x \in DealsOf(s, m)
        PROVE  x \in DealsOf(s, n)
    <3>1. PICK j \in 1..m : s[j].kind = "DEAL_ADD" /\ x = s[j].deal
      BY DEF DealsOf
    <3>2. j \in 1..n
      BY <1>1, <2>1
    <3>. QED  BY <3>1, <3>2 DEF DealsOf
  <2>. QED  BY <2>1
<1>4. \A n \in 0..N, j \in 1..N : (j <= n /\ s[j].kind = "DEAL_ADD") => s[j].deal \in DealsOf(s, n)
  BY DEF DealsOf
<1>5. \A j \in 1..N : s[j].kind = "DEAL_ADD" => s[j].deal \in 1..Len(q)
  BY DEF TellsOf, RecordOf
<1>. HIDE DEF N
<1>6. c <= d
  <2>1. c # 0 => c \in 1..c
    OBVIOUS
  <2>2. 1..c \subseteq 1..d
    <3>1. a \in 0..N /\ N \in 0..N
      BY <1>1
    <3>2. DealsOf(s, a) \subseteq DealsOf(s, N)
      BY <1>1, <1>3, <3>1
    <3>. QED  BY <3>2 DEF N
  <2>. QED  BY <2>1, <2>2
<1>7. ASSUME NEW n \in (c + 1)..d
      PROVE  \E k \in 1..(N - a) : read[k].kind = "DEAL_ADD" /\ read[k].deal = n
  <2>1. n \in DealsOf(s, N) /\ n \notin DealsOf(s, a)
    BY <1>7 DEF N
  <2>2. PICK j \in 1..N : s[j].kind = "DEAL_ADD" /\ n = s[j].deal
    BY <2>1 DEF DealsOf
  <2>3. ~(j <= a)
    BY <1>1, <1>4, <2>1, <2>2
  <2>4. j - a \in 1..(N - a) /\ a + (j - a) = j
    BY <1>1, <2>3
  <2>5. read[j - a] = s[j]
    BY <1>2, <2>4
  <2>. QED  BY <2>2, <2>4, <2>5
<1>8. ASSUME NEW k \in 1..(N - a), read[k].kind = "DEAL_ADD" PROVE read[k].deal \in (c + 1)..d
  <2>1. /\ read[k] = s[a + k] /\ a + k \in 1..N /\ (a + k) - 1 \in 0..N /\ a <= (a + k) - 1
    BY <1>1, <1>2
  <2>2. read[k].deal \in 1..Len(q)
    BY <1>5, <1>8, <2>1
  <2>3. DealsOf(s, (a + k) - 1) = 1..(read[k].deal - 1)
    BY <1>8, <2>1 DEF InSequence, N
  <2>4. DealsOf(s, a) \subseteq DealsOf(s, (a + k) - 1)
    BY <1>1, <1>3, <2>1
  <2>5. read[k].deal \in DealsOf(s, N)
    BY <1>1, <1>4, <1>8, <2>1
  <2>6. 1..c \subseteq 1..(read[k].deal - 1) /\ read[k].deal \in 1..d
    BY <2>3, <2>4, <2>5 DEF N
  <2>7. c # 0 => c \in 1..c
    OBVIOUS
  <2>8. c <= read[k].deal - 1
    BY <2>2, <2>6, <2>7
  <2>. QED  BY <2>2, <2>6, <2>8
<1>9. ASSUME NEW k \in 1..(N - a), NEW l \in 1..(N - a), k < l,
             read[k].kind = "DEAL_ADD", read[l].kind = "DEAL_ADD"
      PROVE  read[k].deal < read[l].deal
  <2>1. /\ read[k] = s[a + k] /\ a + k \in 1..N /\ read[l] = s[a + l] /\ a + l \in 1..N
        /\ (a + l) - 1 \in 0..N /\ a + k <= (a + l) - 1
    BY <1>1, <1>2, <1>9
  <2>2. read[k].deal \in DealsOf(s, (a + l) - 1)
    BY <1>4, <1>9, <2>1
  <2>3. DealsOf(s, (a + l) - 1) = 1..(read[l].deal - 1)
    BY <1>9, <2>1 DEF InSequence, N
  <2>4. read[k].deal \in 1..Len(q) /\ read[l].deal \in 1..Len(q)
    BY <1>5, <1>9, <2>1
  <2>. QED  BY <2>2, <2>3, <2>4
<1>. QED  BY <1>6, <1>7, <1>8, <1>9 DEF N

\* Where stream and snapshots meet, the events of a poll are exact: those that
\* open, reduce or close a position are the deals it read, in their order
\* (_merge_event_stream_with_snapshot).
LEMMA PollIsExact ==
  ASSUME NEW q \in Seq(Deal), IsLedger(q), NEW s \in Seq(Record), TellsOf(s, q),
         NEW a \in 0..Len(s), NEW read \in Seq(Record), IsRest(read, s, a),
         NEW prev, IsPositions(prev), Aligned(prev, s, a, q),
         NEW cur, IsPositions(cur), Aligned(cur, s, Len(s), q)
  PROVE  /\ \A e \in Range(PollEvents(read, prev, cur)) : IsExact(e, q)
         /\ Ascends(PollEvents(read, prev, cur))
         /\ NativesOf(PollEvents(read, prev, cur)) = DealsOf(s, Len(s)) \ DealsOf(s, a)
<1>. DEFINE M == Len(s) - a
            es == PollEvents(read, prev, cur)
            diff == DetectEvents(prev, cur)
<1>1. /\ Len(s) \in Nat /\ a \in Nat /\ M \in Nat /\ Len(q) \in Nat
      /\ Len(read) = M /\ DOMAIN read = 1..M
  BY LenProperties DEF IsRest
<1>2. InSequence(s, Len(s))
  BY DEF Aligned
<1>3. PICK c \in 0..Len(q) : DealsOf(s, a) = 1..c /\ Matches(prev, q, c)
  BY DEF Aligned
<1>4. PICK d \in 0..Len(q) : DealsOf(s, Len(s)) = 1..d /\ Matches(cur, q, d)
  BY DEF Aligned
<1>5. /\ c <= d
      /\ \A n \in (c + 1)..d : \E k \in 1..M : read[k].kind = "DEAL_ADD" /\ read[k].deal = n
      /\ \A k \in 1..M : read[k].kind = "DEAL_ADD" => read[k].deal \in (c + 1)..d
      /\ \A k \in 1..M, l \in 1..M :
           (k < l /\ read[k].kind = "DEAL_ADD" /\ read[l].kind = "DEAL_ADD")
             => read[k].deal < read[l].deal
  <2>1. c \in Nat /\ d \in Nat
    BY <1>1
  <2>. HIDE DEF M
  <2>. QED  BY <1>2, <1>3, <1>4, <2>1, DealsBetween DEF M
<1>6. d \in c..Len(q) /\ DealsOf(s, Len(s)) \ DealsOf(s, a) = (c + 1)..d
  BY <1>1, <1>3, <1>4, <1>5
<1>7. ASSUME NEW e \in Range(diff), IsEconomic(e)
      PROVE  \E n \in (c + 1)..d :
               /\ q[n].pos = e.ticket
               /\ \/ e.type \in {"trade_opened", "trade_closed"} /\ TypeOfDeal(q[n]) = e.type
                  \/ /\ e.type = "trade_volume_changed" /\ e.lowers
                     /\ TypeOfDeal(q[n]) \in {"trade_partial_closed", "trade_closed"}
  BY <1>3, <1>4, <1>6, <1>7, DiffIsOfDeals
<1>8. diff \in Seq(Event)
  BY DetectEventsAre
<1>. HIDE DEF diff
<1>9. CASE read = <<>>
  <2>1. es = diff
    BY <1>9 DEF PollEvents, diff
  <2>2. M = 0 /\ (c + 1)..d = {}
    <3>1. M = 0
      BY <1>1, <1>9
    <3>. QED  BY <1>5, <3>1
  <2>3. \A e \in Range(diff) : ~IsEconomic(e)
    BY <1>7, <2>2
  <2>. HIDE DEF es
  <2>4. \A i \in DOMAIN diff : diff[i] \in Range(diff)
    BY DEF Range
  <2>5. Ascends(es)
    BY <2>1, <2>3, <2>4 DEF Ascends
  <2>6. NativesOf(es) = {}
    BY <2>1, <2>3 DEF NativesOf
  <2>. QED  BY <1>6, <2>1, <2>2, <2>3, <2>5, <2>6 DEF IsExact, es
<1>10. CASE read # <<>>
  <2>. DEFINE replayed == Replay(read, prev, cur)
              economicClose == {e.ticket : e \in {x \in Range(replayed) :
                                  x.type \in {"trade_partial_closed", "trade_closed"}}}
              IsEcho(e) == /\ e.type = "trade_volume_changed" /\ e.lowers
                           /\ e.ticket \in economicClose
              kept   == {i \in DOMAIN replayed : ~IsEcho(replayed[i])}
              merged == Sublist(replayed, kept)
              covered == {<<e.type, e.ticket>> : e \in Range(merged)}
              IsNews(e) == <<e.type, e.ticket>> \notin covered /\ ~IsEcho(e)
              new    == {i \in DOMAIN diff : IsNews(diff[i])}
              rest   == Sublist(diff, new)
  <2>1. es = merged \o rest
    BY <1>10 DEF PollEvents, MergeStream, diff
  <2>. HIDE DEF es
  <2>2. replayed \in Seq(Event) /\ DOMAIN replayed = 1..M
    BY <1>1, ReplayIs
  <2>3. ASSUME NEW k \in 1..M
        PROVE  LET e == replayed[k]
               IN  /\ read[k].kind = "DEAL_ADD" =>
                        /\ e.native = read[k].deal /\ e.native \in 1..Len(q) /\ ~e.lowers
                        /\ e.type = TypeOfDeal(q[e.native]) /\ e.ticket = q[e.native].pos
                   /\ read[k].kind # "DEAL_ADD" /\ IsEconomic(e) =>
                        /\ e.type = "trade_volume_changed" /\ e.lowers
                        /\ e.ticket \in DOMAIN prev \cap DOMAIN cur
                        /\ cur[e.ticket].vol < prev[e.ticket].vol
    BY <1>2, ReplayIsExact
  <2>. HIDE DEF replayed
  <2>4. ASSUME NEW n \in (c + 1)..d
        PROVE  \E k \in kept : /\ replayed[k].type = TypeOfDeal(q[n])
                               /\ replayed[k].ticket = q[n].pos
    <3>1. PICK k \in 1..M : read[k].kind = "DEAL_ADD" /\ read[k].deal = n
      BY <1>5
    <3>. QED  BY <2>2, <2>3, <3>1
  <2>5. ASSUME NEW n \in (c + 1)..d, TypeOfDeal(q[n]) \in {"trade_partial_closed", "trade_closed"}
        PROVE  q[n].pos \in economicClose
    <3>1. PICK k \in kept : /\ replayed[k].type = TypeOfDeal(q[n])
                            /\ replayed[k].ticket = q[n].pos
      BY <2>4
    <3>2. replayed[k] \in Range(replayed)
      BY DEF Range
    <3>. QED  BY <2>5, <3>1, <3>2
  <2>6. ASSUME NEW k \in kept, IsEconomic(replayed[k])
        PROVE  k \in 1..M /\ read[k].kind = "DEAL_ADD"
    <3>1. k \in 1..M /\ ~IsEcho(replayed[k])
      BY <2>2
    <3>2. SUFFICES ASSUME read[k].kind # "DEAL_ADD" PROVE FALSE
      BY <3>1
    <3>. DEFINE e == replayed[k]
    <3>3. /\ e.type = "trade_volume_changed" /\ e.lowers
          /\ e.ticket \in DOMAIN prev \cap DOMAIN cur /\ cur[e.ticket].vol < prev[e.ticket].vol
      BY <2>3, <2>6, <3>1, <3>2
    <3>4. \E n \in (c + 1)..d :
             q[n].pos = e.ticket /\ TypeOfDeal(q[n]) \in {"trade_partial_closed", "trade_closed"}
      <4>. HIDE DEF e
      <4>. QED  BY <1>3, <1>4, <1>6, <3>3, LowerByADeal
    <3>5. e.ticket \in economicClose
      BY <2>5, <3>4
    <3>. QED  BY <3>1, <3>3, <3>5
  <2>7. ASSUME NEW k \in 1..M, read[k].kind = "DEAL_ADD"
        PROVE  k \in kept /\ IsEconomic(replayed[k])
    <3>1. k \in kept
      BY <2>2, <2>3, <2>7
    <3>2. replayed[k].native \in 1..Len(q)
      BY <2>3, <2>7
    <3>3. replayed[k].native # NoDeal
      BY <1>1, <3>2 DEF NoDeal
    <3>. QED  BY <3>1, <3>3 DEF IsEconomic
  <2>8. kept \in SUBSET DOMAIN replayed /\ new \in SUBSET DOMAIN diff
    OBVIOUS
  <2>9. \A i, j \in kept : (i < j /\ IsEconomic(replayed[i]) /\ IsEconomic(replayed[j]))
                              => replayed[i].native < replayed[j].native
    <3>1. ASSUME NEW i \in kept, NEW j \in kept, i < j,
                 IsEconomic(replayed[i]), IsEconomic(replayed[j])
          PROVE  replayed[i].native < replayed[j].native
      <4>1. /\ i \in 1..M /\ j \in 1..M /\ read[i].kind = "DEAL_ADD" /\ read[j].kind = "DEAL_ADD"
        BY <2>6, <3>1
      <4>2. replayed[i].native = read[i].deal /\ replayed[j].native = read[j].deal
        BY <2>3, <4>1
      <4>. QED  BY <1>5, <3>1, <4>1, <4>2
    <3>. QED  BY <3>1
  <2>10. merged \in Seq(Event) /\ Range(merged) = {replayed[i] : i \in kept}
    <3>. HIDE DEF kept
    <3>. QED  BY <2>2, <2>8, SublistIs
  <2>11. Ascends(merged)
    <3>. HIDE DEF kept
    <3>. QED  BY <2>2, <2>8, <2>9, SublistAscends
  <2>12. rest \in Seq(Event) /\ Range(rest) = {diff[i] : i \in new}
    <3>. HIDE DEF new
    <3>. QED  BY <1>8, <2>8, SublistIs
  <2>13. ASSUME NEW e \in Range(rest) PROVE ~IsEconomic(e)
    <3>1. PICK i \in new : e = diff[i]
      BY <2>12
    <3>2. e \in Range(diff) /\ <<e.type, e.ticket>> \notin covered /\ ~IsEcho(e)
      BY <3>1 DEF Range
    <3>3. SUFFICES ASSUME IsEconomic(e) PROVE FALSE
      OBVIOUS
    <3>4. PICK n \in (c + 1)..d :
            /\ q[n].pos = e.ticket
            /\ \/ e.type \in {"trade_opened", "trade_closed"} /\ TypeOfDeal(q[n]) = e.type
               \/ /\ e.type = "trade_volume_changed" /\ e.lowers
                  /\ TypeOfDeal(q[n]) \in {"trade_partial_closed", "trade_closed"}
      BY <1>7, <3>2, <3>3
    <3>5. CASE TypeOfDeal(q[n]) = e.type
      <4>1. PICK k \in kept : replayed[k].type = e.type /\ replayed[k].ticket = e.ticket
        BY <2>4, <3>4, <3>5
      <4>2. replayed[k] \in Range(merged)
        BY <2>10
      <4>3. <<e.type, e.ticket>> \in covered
        <5>. HIDE DEF merged
        <5>. QED  BY <4>1, <4>2
      <4>. QED  BY <3>2, <4>3
    <3>6. CASE /\ e.type = "trade_volume_changed" /\ e.lowers
               /\ TypeOfDeal(q[n]) \in {"trade_partial_closed", "trade_closed"}
      <4>1. e.ticket \in economicClose
        BY <2>5, <3>4, <3>6
      <4>. QED  BY <3>2, <3>6, <4>1
    <3>. QED  BY <3>4, <3>5, <3>6
  <2>. HIDE DEF merged, rest
  <2>14. Ascends(es) /\ Range(es) = Range(merged) \cup Range(rest)
    <3>1. Ascends(merged \o rest)
      BY <2>10, <2>11, <2>12, <2>13, AscendsConcat
    <3>2. Range(merged \o rest) = Range(merged) \cup Range(rest)
      BY <2>10, <2>12, RangeOfConcat
    <3>. QED  BY <2>1, <3>1, <3>2
  <2>15. ASSUME NEW e \in Range(es), IsEconomic(e)
         PROVE  \E k \in 1..M : read[k].kind = "DEAL_ADD" /\ e = replayed[k]
    <3>1. PICK k \in kept : e = replayed[k]
      BY <2>10, <2>13, <2>14, <2>15
    <3>. QED  BY <2>6, <2>15, <3>1
  <2>16. \A e \in Range(es) : IsExact(e, q)
    <3>1. ASSUME NEW e \in Range(es), IsEconomic(e)
          PROVE  /\ e.native \in 1..Len(q)
                 /\ e.type = TypeOfDeal(q[e.native]) /\ e.ticket = q[e.native].pos
      BY <2>3, <2>15, <3>1
    <3>. QED  BY <3>1 DEF IsExact
  <2>17. NativesOf(es) = (c + 1)..d
    <3>1. ASSUME NEW e \in Range(es), IsEconomic(e) PROVE e.native \in (c + 1)..d
      <4>1. PICK k \in 1..M : read[k].kind = "DEAL_ADD" /\ e = replayed[k]
        BY <2>15, <3>1
      <4>. QED  BY <1>5, <2>3, <4>1
    <3>2. ASSUME NEW n \in (c + 1)..d
          PROVE  \E e \in Range(es) : IsEconomic(e) /\ e.native = n
      <4>1. PICK k \in 1..M : read[k].kind = "DEAL_ADD" /\ read[k].deal = n
        BY <1>5
      <4>2. k \in kept /\ IsEconomic(replayed[k]) /\ replayed[k].native = n
        BY <2>3, <2>7, <4>1
      <4>. QED  BY <2>10, <2>14, <4>2
    <3>. QED  BY <3>1, <3>2 DEF NativesOf
  <2>. QED  BY <1>6, <2>14, <2>16, <2>17 DEF es
<1>. QED  BY <1>9, <1>10

-----------------------------------------------------------------------------
(* Journal and outbox.                                                      *)

\* They tell of the first deals of q, each in its turn; what the outbox tells
\* is new or repeats what was delivered.
TellsInOrder(j, o, q) ==
  /\ \A e \in Range(j) \cup Range(o) : IsExact(e, q)
  /\ Ascends(j) /\ Ascends(o)
  /\ \A n \in NativesOf(o) : n \in NativesOf(j) \/ \A m \in NativesOf(j) : m < n
  /\ \E c \in 0..Len(q) : NativesOf(j) \cup NativesOf(o) = 1..c

\* Two events of one deal have one identity.
LEMMA SameDealSameId ==
  ASSUME NEW q \in Seq(Deal), NEW e \in Event, NEW f \in Event, IsExact(e, q), IsExact(f, q),
         IsEconomic(e), IsEconomic(f), e.native = f.native
  PROVE  EventId(e) = EventId(f)
<1>1. /\ e.native \in 1..Len(q) /\ e.type = f.type /\ e.ticket = f.ticket
  BY DEF IsExact
<1>2. e.native # NoDeal /\ f.native # NoDeal
  <2>1. Len(q) \in Nat
    BY LenProperties
  <2>. QED  BY <1>1, <2>1 DEF NoDeal
<1>3. \A x : x.native # NoDeal => EventId(x) = <<x.type, x.ticket, x.native, <<>>>>
  BY DEF EventId
<1>. QED  BY <1>1, <1>2, <1>3

\* The first event of an ascending list is before the others.
LEMMA TailAscends ==
  ASSUME NEW T, NEW q \in Seq(T), q # <<>>, Ascends(q)
  PROVE  /\ Ascends(Tail(q))
         /\ \A e \in Range(Tail(q)) :
              IsEconomic(e) /\ IsEconomic(Head(q)) => Head(q).native < e.native
<1>1. /\ Tail(q) \in Seq(T) /\ Len(Tail(q)) = Len(q) - 1
      /\ \A i \in 1..Len(Tail(q)) : Tail(q)[i] = q[i + 1]
  BY HeadTailProperties
<1>2. /\ Len(q) \in Nat \ {0} /\ DOMAIN q = 1..Len(q)
      /\ DOMAIN Tail(q) = 1..(Len(q) - 1) /\ Head(q) = q[1]
  BY <1>1, EmptySeq, LenProperties
<1>3. \A i \in 1..(Len(q) - 1) : Tail(q)[i] = q[i + 1] /\ i + 1 \in DOMAIN q
  BY <1>1, <1>2
<1>4. Ascends(Tail(q))
  <2>1. ASSUME NEW i \in 1..(Len(q) - 1), NEW j \in 1..(Len(q) - 1), i < j,
               IsEconomic(Tail(q)[i]), IsEconomic(Tail(q)[j])
        PROVE  Tail(q)[i].native < Tail(q)[j].native
    <3>1. i + 1 < j + 1
      BY <2>1
    <3>. QED  BY <1>3, <2>1, <3>1 DEF Ascends
  <2>. QED  BY <1>2, <2>1 DEF Ascends
<1>5. ASSUME NEW e \in Range(Tail(q)), IsEconomic(e), IsEconomic(Head(q))
      PROVE  Head(q).native < e.native
  <2>1. PICK i \in 1..(Len(q) - 1) : e = Tail(q)[i]
    BY <1>2 DEF Range
  <2>2. e = q[i + 1] /\ i + 1 \in DOMAIN q /\ 1 \in DOMAIN q /\ 1 < i + 1
    BY <1>2, <1>3, <2>1
  <2>. QED  BY <1>2, <1>5, <2>2 DEF Ascends
<1>. QED  BY <1>4, <1>5

\* Delivering the first event of the outbox, or finding its identity applied.
LEMMA DeliveryIsExact ==
  ASSUME NEW q \in Seq(Deal), NEW j \in Seq(Event), NEW o \in Seq(Event), o # <<>>,
         TellsInOrder(j, o, q), NEW k,
         k = IF \E i \in DOMAIN j : EventId(j[i]) = EventId(Head(o)) THEN j ELSE Append(j, Head(o))
  PROVE  TellsInOrder(k, Tail(o), q)
<1>. DEFINE h == Head(o)
            t == Tail(o)
            met == \E i \in DOMAIN j : EventId(j[i]) = EventId(h)
<1>1. /\ h \in Event /\ t \in Seq(Event) /\ h \in Range(o) /\ Range(t) \subseteq Range(o)
      /\ \A x \in Range(o) : x = h \/ x \in Range(t)
  BY TailIs
<1>2. /\ Ascends(t)
      /\ \A e \in Range(t) : IsEconomic(e) /\ IsEconomic(h) => h.native < e.native
  BY TailAscends DEF TellsInOrder
<1>3. /\ \A e \in Range(j) \cup Range(o) : IsExact(e, q)
      /\ Ascends(j)
      /\ \A n \in NativesOf(o) : n \in NativesOf(j) \/ \A m \in NativesOf(j) : m < n
  BY DEF TellsInOrder
<1>4. PICK c \in 0..Len(q) : NativesOf(j) \cup NativesOf(o) = 1..c
  BY DEF TellsInOrder
<1>5. k = IF met THEN j ELSE Append(j, h)
  OBVIOUS
<1>. HIDE DEF h, t, met
<1>6. Range(j) \in SUBSET Event
  BY RangeIs
<1>7. /\ NativesOf(t) \subseteq NativesOf(o)
      /\ IsEconomic(h) => /\ NativesOf(o) = NativesOf(t) \cup {h.native}
                          /\ \A n \in NativesOf(t) : h.native < n
      /\ ~IsEconomic(h) => NativesOf(o) = NativesOf(t)
  BY <1>1, <1>2 DEF NativesOf
<1>8. CASE IsEconomic(h) /\ ~met
  <2>1. ASSUME NEW f \in Range(j), IsEconomic(f), f.native = h.native PROVE FALSE
    <3>1. EventId(f) = EventId(h)
      BY <1>1, <1>3, <1>6, <1>8, <2>1, SameDealSameId
    <3>. QED  BY <1>8, <3>1 DEF met, Range
  <2>2. h.native \notin NativesOf(j) /\ h.native \in NativesOf(o)
    BY <1>7, <1>8, <2>1 DEF NativesOf
  <2>3. \A m \in NativesOf(j) : m < h.native
    BY <1>3, <2>2
  <2>4. k = Append(j, h) /\ k \in Seq(Event) /\ Range(k) = Range(j) \cup {h}
    <3>1. k = Append(j, h)
      BY <1>5, <1>8
    <3>. QED  BY <1>1, <3>1, RangeOfAppend
  <2>5. Ascends(k)
    <3>1. \A e \in Range(j) : IsEconomic(e) /\ IsEconomic(h) => e.native < h.native
      BY <2>3 DEF NativesOf
    <3>. QED  BY <1>1, <1>3, <2>4, <3>1, AscendsAppend
  <2>6. NativesOf(k) = NativesOf(j) \cup {h.native}
    BY <1>8, <2>4 DEF NativesOf
  <2>7. \A n \in NativesOf(t) : n \in NativesOf(k) \/ \A m \in NativesOf(k) : m < n
    BY <1>3, <1>7, <1>8, <2>6
  <2>8. NativesOf(k) \cup NativesOf(t) = 1..c
    BY <1>4, <1>7, <1>8, <2>6
  <2>9. \A e \in Range(k) \cup Range(t) : IsExact(e, q)
    BY <1>1, <1>3, <2>4
  <2>. QED  BY <1>2, <2>5, <2>7, <2>8, <2>9 DEF TellsInOrder, t
<1>9. CASE ~IsEconomic(h) /\ ~met
  <2>1. k = Append(j, h) /\ k \in Seq(Event) /\ Range(k) = Range(j) \cup {h}
    <3>1. k = Append(j, h)
      BY <1>5, <1>9
    <3>. QED  BY <1>1, <3>1, RangeOfAppend
  <2>2. Ascends(k)
    BY <1>1, <1>3, <1>9, <2>1, AscendsAppend
  <2>3. NativesOf(k) = NativesOf(j)
    BY <1>9, <2>1 DEF NativesOf
  <2>4. \A e \in Range(k) \cup Range(t) : IsExact(e, q)
    BY <1>1, <1>3, <2>1
  <2>. QED  BY <1>2, <1>3, <1>4, <1>7, <1>9, <2>2, <2>3, <2>4 DEF TellsInOrder, t
<1>10. CASE met
  <2>1. k = j
    BY <1>5, <1>10
  <2>2. IsEconomic(h) => h.native \in NativesOf(j)
    <3>1. SUFFICES ASSUME IsEconomic(h) PROVE h.native \in NativesOf(j)
      OBVIOUS
    <3>2. PICK f \in Range(j) : EventId(f) = EventId(h)
      BY <1>10 DEF met, Range
    <3>3. f.native = h.native
      BY <1>1, <1>6, <3>2, EventIdIs
    <3>4. h.native # NoDeal
      <4>1. h.native \in 1..Len(q)
        BY <1>1, <1>3, <3>1 DEF IsExact
      <4>2. Len(q) \in Nat
        BY LenProperties
      <4>. QED  BY <4>1, <4>2 DEF NoDeal
    <3>5. IsEconomic(f)
      BY <3>3, <3>4 DEF IsEconomic
    <3>. QED  BY <3>2, <3>3, <3>5 DEF NativesOf
  <2>3. NativesOf(j) \cup NativesOf(t) = 1..c
    BY <1>4, <1>7, <2>2
  <2>4. \A e \in Range(j) \cup Range(t) : IsExact(e, q)
    BY <1>1, <1>3
  <2>5. \A n \in NativesOf(t) : n \in NativesOf(j) \/ \A m \in NativesOf(j) : m < n
    BY <1>3, <1>7
  <2>. QED  BY <1>2, <1>3, <2>1, <2>3, <2>4, <2>5 DEF TellsInOrder, t
<1>. QED  BY <1>8, <1>9, <1>10

\* What is taken from an ascending list in its order ascends.
LEMMA PartAscends ==
  ASSUME NEW T, NEW q \in Seq(T), Ascends(q), NEW P \in SUBSET DOMAIN q
  PROVE  /\ Sublist(q, P) \in Seq(T) /\ Range(Sublist(q, P)) \subseteq Range(q)
         /\ Ascends(Sublist(q, P))
<1>1. \A x, y \in P : x < y /\ IsEconomic(q[x]) /\ IsEconomic(q[y]) => q[x].native < q[y].native
  BY DEF Ascends
<1>2. Ascends(Sublist(q, P))
  BY <1>1, SublistAscends
<1>3. Sublist(q, P) \in Seq(T) /\ Range(Sublist(q, P)) = {q[i] : i \in P}
  BY SublistIs
<1>4. {q[i] : i \in P} \subseteq Range(q)
  BY DEF Range
<1>. QED  BY <1>2, <1>3, <1>4

\* A batch of exact events that goes on where the journal is, or before.
LEMMA BatchIsExact ==
  ASSUME NEW q \in Seq(Deal), NEW j \in Seq(Event), TellsInOrder(j, <<>>, q),
         NEW es \in Seq(Event), Ascends(es), \A e \in Range(es) : IsExact(e, q),
         NEW a \in 0..Len(q), NEW b \in 0..Len(q), NativesOf(es) = (a + 1)..b,
         1..a \subseteq NativesOf(j),
         NEW ids, \A id \in ids : \E f \in Range(j) : EventId(f) = id,
         NEW unsent, unsent = Sublist(es, {i \in DOMAIN es : EventId(es[i]) \notin ids})
  PROVE  TellsInOrder(j, <<>> \o Sublist(unsent, NewPlaces(unsent, <<>>)), q)
<1>. DEFINE places == {i \in DOMAIN es : EventId(es[i]) \notin ids}
            o == Sublist(unsent, NewPlaces(unsent, <<>>))
<1>1. Len(q) \in Nat /\ a \in Nat /\ b \in Nat
  BY LenProperties
<1>2. PICK c \in 0..Len(q) : NativesOf(j) \cup NativesOf(<<>>) = 1..c
  BY DEF TellsInOrder
<1>3. Range(<<>>) = {} /\ <<>> \in Seq(Event)
  BY EmptySeq DEF Range
<1>4. NativesOf(j) = 1..c /\ a <= c
  <2>1. NativesOf(<<>>) = {}
    BY <1>3 DEF NativesOf
  <2>2. a # 0 => a \in 1..a
    BY <1>1
  <2>3. NativesOf(j) = 1..c
    BY <1>2, <2>1
  <2>4. a # 0 => a \in 1..c
    BY <2>2, <2>3
  <2>. QED  BY <1>1, <2>3, <2>4
<1>5. /\ places \in SUBSET DOMAIN es /\ unsent = Sublist(es, places)
  OBVIOUS
<1>6. unsent \in Seq(Event) /\ Range(unsent) = {es[i] : i \in places} /\ Ascends(unsent)
  <2>1. \A x, y \in places : x < y /\ IsEconomic(es[x]) /\ IsEconomic(es[y])
                               => es[x].native < es[y].native
    BY DEF Ascends
  <2>. HIDE DEF places
  <2>2. Ascends(Sublist(es, places))
    BY <1>5, <2>1, SublistAscends
  <2>3. Sublist(es, places) \in Seq(Event) /\ Range(Sublist(es, places)) = {es[i] : i \in places}
    BY <1>5, SublistIs
  <2>. QED  BY <1>5, <2>2, <2>3
<1>7. o \in Seq(Event) /\ Range(o) \subseteq Range(unsent) /\ Ascends(o)
  <2>1. NewPlaces(unsent, <<>>) \in SUBSET DOMAIN unsent
    BY DEF NewPlaces
  <2>. QED  BY <1>6, <2>1, PartAscends
<1>8. /\ <<>> \o o = o
      /\ \A e \in Range(unsent) : \E f \in Range(o) : EventId(f) = EventId(e)
  <2>1. <<>> \o o = o
    BY <1>7, ConcatEmptySeq
  <2>2. ASSUME NEW u \in Seq(Event), NEW v \in Seq(Event)
        PROVE  \A e \in Range(u) :
                 \E f \in Range(v \o Sublist(u, NewPlaces(u, v))) : EventId(f) = EventId(e)
    BY NewPlacesAre
  <2>3. \A e \in Range(unsent) :
          \E f \in Range(<<>> \o Sublist(unsent, NewPlaces(unsent, <<>>))) : EventId(f) = EventId(e)
    BY <1>3, <1>6, <2>2
  <2>. QED  BY <2>1, <2>3, Zenon
<1>. HIDE DEF o
<1>9. Range(unsent) \subseteq Range(es)
  <2>1. ASSUME NEW i \in places PROVE es[i] \in Range(es)
    BY <1>5 DEF Range
  <2>. QED  BY <1>6, <2>1
<1>10. \A e \in Range(j) \cup Range(o) : IsExact(e, q)
  BY <1>7, <1>9 DEF TellsInOrder
<1>11. NativesOf(o) \subseteq (a + 1)..b
  BY <1>7, <1>9 DEF NativesOf
<1>12. ASSUME NEW n \in (a + 1)..b PROVE n \in NativesOf(j) \cup NativesOf(o)
  <2>1. PICK e \in Range(es) : IsEconomic(e) /\ e.native = n
    BY DEF NativesOf
  <2>2. Range(es) \in SUBSET Event /\ Range(j) \in SUBSET Event /\ Range(o) \in SUBSET Event
    BY <1>7, RangeIs
  <2>3. PICK f \in Range(j) \cup Range(o) : EventId(f) = EventId(e)
    <3>1. CASE EventId(e) \in ids
      BY <3>1
    <3>2. CASE EventId(e) \notin ids
      <4>1. PICK i \in DOMAIN es : e = es[i]
        BY DEF Range
      <4>2. e \in Range(unsent)
        BY <1>6, <3>2, <4>1
      <4>. QED  BY <1>8, <4>2
    <3>. QED  BY <3>1, <3>2
  <2>4. f.native = n
    BY <2>1, <2>2, <2>3, EventIdIs
  <2>5. IsEconomic(f)
    <3>1. f.native # NoDeal
      BY <1>1, <2>4 DEF NoDeal
    <3>. QED  BY <3>1 DEF IsEconomic
  <2>. QED  BY <2>4, <2>5 DEF NativesOf
<1>13. \A n \in NativesOf(o) : n \in NativesOf(j) \/ \A m \in NativesOf(j) : m < n
  BY <1>1, <1>4, <1>11
<1>14. \E x \in 0..Len(q) : NativesOf(j) \cup NativesOf(o) = 1..x
  <2>1. CASE b <= c
    <3>1. NativesOf(j) \cup NativesOf(o) = 1..c
      BY <1>1, <1>4, <1>11, <2>1
    <3>. QED  BY <3>1
  <2>2. CASE c < b
    <3>1. 1..b = 1..c \cup (a + 1)..b
      BY <1>1, <1>4, <2>2
    <3>2. NativesOf(j) \cup NativesOf(o) = 1..b
      BY <1>4, <1>11, <1>12, <3>1
    <3>. QED  BY <3>2
  <2>3. b <= c \/ c < b
    BY <1>1
  <2>. QED  BY <2>1, <2>2, <2>3
<1>. QED  BY <1>7, <1>8, <1>10, <1>13, <1>14 DEF TellsInOrder, o

-----------------------------------------------------------------------------
(* The invariant of an exact journal.                                       *)

\* Every poll so far merged one instant, and saved what it had acknowledged.
Undisturbed == ~misaligned /\ ~torn

\* The broker's deals lead to its positions, and the stream tells of them.
Account ==
  /\ IsLedger(deals) /\ Matches(book, deals, Len(deals))
  /\ TellsOf(stream, deals)

\* A whole bundle shows what the records published before it tell of.
SnapshotsMeet ==
  /\ bundle.whole => Aligned(bundle.positions, stream, bundle.seq, deals)
  /\ current.seq \in 0..Len(stream)
  /\ current.whole => Aligned(current.positions, stream, current.seq, deals)

\* The snapshot saved belongs to the checkpoint, except between the two writes.
PollMeets ==
  Undisturbed =>
    /\ (pc # "save" \/ records = <<>>) => Aligned(saved, stream, acked, deals)
    /\ pc = "acknowledge" =>
         records # <<>> /\ Aligned(current.positions, stream, Last(records).seq, deals)
    /\ pc = "save" => Aligned(current.positions, stream, acked, deals)

\* What is reported tells of the first deals, each in its turn.
ReportIsExact ==
  /\ pc = "read" => outbox = <<>>
  /\ Undisturbed => TellsInOrder(journal, outbox, deals)

\* The inductive invariant.
EInv == IInv /\ Account /\ SnapshotsMeet /\ PollMeets /\ ReportIsExact

-----------------------------------------------------------------------------
(* Steps of the broker and of the EA.                                       *)

\* Deals that follow leave what is reported, and what the stream tells, exact.
LEMMA TellsGrow ==
  ASSUME NEW q \in Seq(Deal), NEW r \in Seq(Deal), Len(q) <= Len(r),
         \A i \in 1..Len(q) : r[i] = q[i], NEW j, NEW o, TellsInOrder(j, o, q)
  PROVE  TellsInOrder(j, o, r)
<1>1. Len(q) \in Nat /\ Len(r) \in Nat
  BY LenProperties
<1>2. \A i \in 1..Len(q) : i \in 1..Len(r)
  BY <1>1
<1>3. \A e : IsExact(e, q) => IsExact(e, r)
  BY <1>2 DEF IsExact
<1>4. 0..Len(q) \subseteq 0..Len(r)
  BY <1>1
<1>. QED  BY <1>3, <1>4 DEF TellsInOrder

\* The same for what the stream tells.
LEMMA TellsOfGrow ==
  ASSUME NEW q \in Seq(Deal), NEW r \in Seq(Deal), Len(q) <= Len(r),
         \A i \in 1..Len(q) : r[i] = q[i], NEW s, TellsOf(s, q)
  PROVE  TellsOf(s, r)
<1>1. Len(q) \in Nat /\ Len(r) \in Nat
  BY LenProperties
<1>2. \A i \in 1..Len(q) : i \in 1..Len(r) /\ r[i] = q[i]
  BY <1>1
<1>. QED  BY <1>2 DEF TellsOf, RecordOf

\* Deals and records that follow leave the poll where it stands.
LEMMA SurroundingsGrow ==
  ASSUME EInv,
         deals' \in Seq(Deal), Len(deals) <= Len(deals'),
         \A i \in 1..Len(deals) : deals'[i] = deals[i],
         Len(stream') \in Nat, Len(stream) <= Len(stream'),
         \A i \in 1..Len(stream) : stream'[i] = stream[i],
         UNCHANGED <<storeVars, outbox, journal, pc, pollVars, torn, misaligned>>
  PROVE  /\ PollMeets' /\ ReportIsExact'
         /\ bundle.whole => Aligned(bundle.positions, stream', bundle.seq, deals')
         /\ current'.seq \in 0..Len(stream')
         /\ current'.whole => Aligned(current'.positions, stream', current'.seq, deals')
<1>1. /\ deals \in Seq(Deal) /\ Len(stream) \in Nat
      /\ bundle.seq \in 0..Len(stream) /\ acked \in 0..Len(stream)
      /\ current.seq \in 0..Len(stream)
  BY LenProperties
     DEF EInv, IInv, Types, BrokerTypes, BridgeTypes, PollTypes, IsPublished, SnapshotsMeet
<1>2. UNCHANGED <<acked, saved, known, outbox, journal, pc, current, records, payloads, torn,
                  misaligned>>
  BY DEF storeVars, pollVars
<1>3. ASSUME NEW b, NEW n \in 0..Len(stream), Aligned(b, stream, n, deals)
      PROVE  Aligned(b, stream', n, deals')
  <2>1. n \in Nat /\ \A i \in 1..n : stream'[i] = stream[i]
    BY <1>1
  <2>. QED  BY <1>1, <1>3, <2>1, AlignedStays
<1>4. /\ bundle.whole => Aligned(bundle.positions, stream', bundle.seq, deals')
      /\ current'.seq \in 0..Len(stream')
      /\ current'.whole => Aligned(current'.positions, stream', current'.seq, deals')
  BY <1>1, <1>2, <1>3 DEF EInv, SnapshotsMeet
<1>5. PollMeets'
  <2>1. SUFFICES ASSUME Undisturbed
        PROVE  /\ (pc # "save" \/ records = <<>>) => Aligned(saved, stream', acked, deals')
               /\ pc = "acknowledge" =>
                    /\ records # <<>>
                    /\ Aligned(current.positions, stream', Last(records).seq, deals')
               /\ pc = "save" => Aligned(current.positions, stream', acked, deals')
    BY <1>2 DEF PollMeets, Undisturbed
  <2>2. /\ (pc # "save" \/ records = <<>>) => Aligned(saved, stream, acked, deals)
        /\ pc = "acknowledge" =>
             records # <<>> /\ Aligned(current.positions, stream, Last(records).seq, deals)
        /\ pc = "save" => Aligned(current.positions, stream, acked, deals)
    BY <2>1 DEF EInv, PollMeets
  <2>3. pc = "acknowledge" => Last(records).seq \in 0..Len(stream)
    BY DEF EInv, IInv, BatchIsReported
  <2>. QED  BY <1>1, <1>3, <2>2, <2>3
<1>6. ReportIsExact'
  <2>1. SUFFICES ASSUME Undisturbed PROVE TellsInOrder(journal, outbox, deals')
    BY <1>2 DEF EInv, ReportIsExact, Undisturbed
  <2>2. TellsInOrder(journal, outbox, deals)
    BY <2>1 DEF EInv, ReportIsExact
  <2>. QED  BY <1>1, <2>2, TellsGrow
<1>. QED  BY <1>4, <1>5, <1>6

\* A deal that leaves the book as it says keeps the account.
LEMMA ExecuteExact ==
  ASSUME EInv, IInv', NEW p \in Position, NEW entry \in {"IN", "OUT"}, NEW vol \in Nat,
         NEW was \in Nat, Execute(p, entry, vol, was),
         vol >= 1, was = Vol(deals, Len(deals), p), entry = "OUT" => vol <= was,
         was = 0 => \A j \in 1..Len(deals) : deals[j].pos # p,
         \A x \in Position \ {p} : /\ x \in DOMAIN book' <=> x \in DOMAIN book
                                   /\ x \in DOMAIN book => book'[x].vol = book[x].vol,
         (IF entry = "IN" THEN was + vol ELSE was - vol)
           = IF p \in DOMAIN book' THEN book'[p].vol ELSE 0
  PROVE  EInv'
<1>. DEFINE d == [pos |-> p, entry |-> entry, vol |-> vol, was |-> was]
<1>1. /\ deals' = Append(deals, d)
      /\ UNCHANGED <<changes, restarts, retryQueue, stream, bundle, storeVars, outbox, journal,
                     pc, pollVars, interrupts, torn, misaligned>>
  BY DEF Execute
<1>2. /\ deals \in Seq(Deal) /\ Len(deals) \in Nat /\ Len(stream) \in Nat
  BY LenProperties DEF EInv, IInv, Types, BrokerTypes, BridgeTypes, IsPublished
<1>3. /\ d \in Deal /\ d.vol >= 1 /\ d.was = Vol(deals, Len(deals), d.pos)
      /\ d.entry = "OUT" => d.vol <= d.was
      /\ d.was = 0 => \A j \in 1..Len(deals) : deals[j].pos # d.pos
      /\ d.pos = p /\ Left(d) = IF p \in DOMAIN book' THEN book'[p].vol ELSE 0
  BY DEF Deal, Left
<1>. HIDE DEF d
<1>4. IsLedger(deals) /\ Matches(book, deals, Len(deals)) /\ TellsOf(stream, deals)
  BY DEF EInv, Account
<1>5. /\ IsLedger(deals')
      /\ \A x : Vol(deals', Len(deals) + 1, x)
                  = IF x = p THEN Left(d) ELSE Vol(deals, Len(deals), x)
  <2>1. /\ IsLedger(Append(deals, d))
        /\ \A x : Vol(Append(deals, d), Len(deals) + 1, x)
                    = IF x = d.pos THEN Left(d) ELSE Vol(deals, Len(deals), x)
    BY <1>2, <1>3, <1>4, LedgerGrows
  <2>. QED  BY <1>1, <1>3, <2>1
<1>6. /\ deals' \in Seq(Deal) /\ Len(deals') = Len(deals) + 1
      /\ \A i \in 1..Len(deals) : deals'[i] = deals[i]
  BY <1>1, <1>2, <1>3, AppendProperties
<1>7. Matches(book', deals', Len(deals'))
  <2>1. ASSUME NEW x \in Position
        PROVE  Vol(deals', Len(deals) + 1, x) = IF x \in DOMAIN book' THEN book'[x].vol ELSE 0
    <3>1. CASE x = p
      BY <1>3, <1>5, <3>1
    <3>2. CASE x # p
      <4>1. Vol(deals', Len(deals) + 1, x) = Vol(deals, Len(deals), x)
        BY <1>5, <3>2
      <4>2. Vol(deals, Len(deals), x) = IF x \in DOMAIN book THEN book[x].vol ELSE 0
        BY <1>4 DEF Matches
      <4>3. x \in Position \ {p}
        BY <3>2
      <4>. QED  BY <4>1, <4>2, <4>3
    <3>. QED  BY <3>1, <3>2
  <2>. QED  BY <1>6, <2>1 DEF Matches
<1>8. Len(deals) <= Len(deals')
  BY <1>2, <1>6
<1>9. TellsOf(stream', deals')
  <2>1. TellsOf(stream, deals')
    BY <1>2, <1>4, <1>6, <1>8, TellsOfGrow
  <2>. QED  BY <1>1, <2>1
<1>10. Account'
  BY <1>5, <1>7, <1>9 DEF Account
<1>11. /\ PollMeets' /\ ReportIsExact'
       /\ bundle.whole => Aligned(bundle.positions, stream', bundle.seq, deals')
       /\ current'.seq \in 0..Len(stream')
       /\ current'.whole => Aligned(current'.positions, stream', current'.seq, deals')
  <2>1. /\ Len(stream') \in Nat /\ Len(stream) <= Len(stream')
        /\ \A i \in 1..Len(stream) : stream'[i] = stream[i]
    BY <1>1, <1>2
  <2>2. UNCHANGED <<storeVars, outbox, journal, pc, pollVars, torn, misaligned>>
    BY <1>1
  <2>. QED  BY <1>6, <1>8, <2>1, <2>2, SurroundingsGrow
<1>12. SnapshotsMeet'
  BY <1>1, <1>11 DEF SnapshotsMeet
<1>. QED  BY <1>10, <1>11, <1>12 DEF EInv

\* A first deal finds no volume of its position.
LEMMA OpenPositionExact ==
  ASSUME EInv, NEW p \in Position, NEW sl \in Stop, OpenPosition(p, sl)
  PROVE  EInv'
<1>1. /\ \A d \in Range(deals) : d.pos # p
      /\ book' = [q \in DOMAIN book \cup {p} |-> IF q = p THEN [vol |-> 1, sl |-> sl] ELSE book[q]]
      /\ Execute(p, "IN", 1, 0)
  BY DEF OpenPosition
<1>2. /\ deals \in Seq(Deal) /\ Len(deals) \in Nat /\ DOMAIN deals = 1..Len(deals)
      /\ IsLedger(deals) /\ IInv
  BY LenProperties DEF EInv, Account, IInv, Types, BrokerTypes
<1>3. \A j \in 1..Len(deals) : deals[j].pos # p
  BY <1>1, <1>2 DEF Range
<1>4. Vol(deals, Len(deals), p) = 0
  BY <1>3 DEF Vol
<1>5. \A x \in Position \ {p} : /\ x \in DOMAIN book' <=> x \in DOMAIN book
                                /\ x \in DOMAIN book => book'[x].vol = book[x].vol
  BY <1>1
<1>6. p \in DOMAIN book' /\ book'[p].vol = 1
  BY <1>1
<1>7. IInv'
  BY <1>2, OpenPositionKeeps
<1>8. 0 + 1 = IF p \in DOMAIN book' THEN book'[p].vol ELSE 0
  BY <1>6
<1>9. 0 \in Nat /\ 1 \in Nat /\ 1 >= 1
  OBVIOUS
<1>. QED  BY <1>1, <1>3, <1>4, <1>5, <1>7, <1>8, <1>9, ExecuteExact

\* A deal that adds finds the volume the book has.
LEMMA ScaleInExact ==
  ASSUME EInv, NEW p \in Position, ScaleIn(p)
  PROVE  EInv'
<1>1. /\ p \in DOMAIN book /\ book' = [book EXCEPT ![p].vol = @ + 1]
      /\ Execute(p, "IN", 1, book[p].vol)
  BY DEF ScaleIn
<1>2. /\ IInv /\ IsPositions(book) /\ Matches(book, deals, Len(deals))
      /\ MaxDeals \in Nat
  BY JournalAssumption DEF EInv, Account, IInv, Types, BrokerTypes, JournalAssumption
<1>3. /\ book[p] \in [vol : 1..MaxDeals, sl : Stop] /\ book[p].vol \in 1..MaxDeals
      /\ book \in [DOMAIN book -> [vol : 1..MaxDeals, sl : Stop]]
  BY <1>1, <1>2 DEF IsPositions
<1>4. Vol(deals, Len(deals), p) = book[p].vol
  BY <1>1, <1>2 DEF Matches
<1>5. /\ DOMAIN book' = DOMAIN book
      /\ \A x \in DOMAIN book \ {p} : book'[x] = book[x]
      /\ book'[p] = [book[p] EXCEPT !.vol = @ + 1]
  BY <1>1, <1>3
<1>6. book'[p].vol = book[p].vol + 1
  BY <1>3, <1>5
<1>7. \A x \in Position \ {p} : /\ x \in DOMAIN book' <=> x \in DOMAIN book
                                /\ x \in DOMAIN book => book'[x].vol = book[x].vol
  BY <1>5
<1>8. IInv'
  BY <1>2, ScaleInKeeps
<1>9. book[p].vol \in Nat /\ book[p].vol # 0 /\ 1 >= 1
  BY <1>2, <1>3
<1>10. book[p].vol + 1 = IF p \in DOMAIN book' THEN book'[p].vol ELSE 0
  BY <1>1, <1>5, <1>6
<1>. QED  BY <1>1, <1>4, <1>7, <1>8, <1>9, <1>10, ExecuteExact

\* A deal that reduces takes no more than the book has.
LEMMA ReduceExact ==
  ASSUME EInv, NEW p \in Position, NEW vol \in 1..MaxDeals, Reduce(p, vol)
  PROVE  EInv'
<1>1. /\ p \in DOMAIN book /\ vol \in 1..book[p].vol
      /\ book' = IF vol = book[p].vol THEN [q \in DOMAIN book \ {p} |-> book[q]]
                 ELSE [book EXCEPT ![p].vol = @ - vol]
      /\ Execute(p, "OUT", vol, book[p].vol)
  BY DEF Reduce
<1>2. /\ IInv /\ IsPositions(book) /\ Matches(book, deals, Len(deals))
      /\ MaxDeals \in Nat
  BY JournalAssumption DEF EInv, Account, IInv, Types, BrokerTypes, JournalAssumption
<1>3. /\ book[p] \in [vol : 1..MaxDeals, sl : Stop] /\ book[p].vol \in 1..MaxDeals
      /\ book \in [DOMAIN book -> [vol : 1..MaxDeals, sl : Stop]]
  BY <1>1, <1>2 DEF IsPositions
<1>4. Vol(deals, Len(deals), p) = book[p].vol
  BY <1>1, <1>2 DEF Matches
<1>5. \A x \in Position \ {p} : /\ x \in DOMAIN book' <=> x \in DOMAIN book
                                /\ x \in DOMAIN book => book'[x].vol = book[x].vol
  <2>1. CASE vol = book[p].vol
    BY <1>1, <2>1
  <2>2. CASE vol # book[p].vol
    BY <1>1, <1>3, <2>2
  <2>. QED  BY <2>1, <2>2
<1>6. book[p].vol - vol = IF p \in DOMAIN book' THEN book'[p].vol ELSE 0
  <2>1. CASE vol = book[p].vol
    <3>1. p \notin DOMAIN book'
      BY <1>1, <2>1
    <3>. QED  BY <1>2, <1>3, <2>1, <3>1
  <2>2. CASE vol # book[p].vol
    <3>1. p \in DOMAIN book' /\ book'[p] = [book[p] EXCEPT !.vol = @ - vol]
      BY <1>1, <1>3, <2>2
    <3>. QED  BY <1>3, <3>1
  <2>. QED  BY <2>1, <2>2
<1>7. IInv'
  BY <1>2, ReduceKeeps
<1>8. /\ book[p].vol \in Nat /\ book[p].vol # 0 /\ vol \in Nat /\ vol >= 1
      /\ vol <= book[p].vol
  BY <1>1, <1>2, <1>3
<1>. QED  BY <1>1, <1>4, <1>5, <1>6, <1>7, <1>8, ExecuteExact

\* A stop is no part of the account.
LEMMA ChangeStopExact ==
  ASSUME EInv, NEW p \in Position, NEW sl \in Stop, ChangeStop(p, sl)
  PROVE  EInv'
<1>1. /\ p \in DOMAIN book /\ book' = [book EXCEPT ![p].sl = sl]
      /\ UNCHANGED <<deals, stream, bundle, storeVars, outbox, journal, pc, pollVars, torn,
                     misaligned>>
  BY DEF ChangeStop
<1>2. /\ IInv /\ IsPositions(book) /\ deals \in Seq(Deal)
      /\ Len(deals) \in Nat /\ Len(stream) \in Nat
  BY LenProperties DEF EInv, IInv, Types, BrokerTypes, BridgeTypes, IsPublished
<1>3. IInv'
  BY <1>2, ChangeStopKeeps
<1>4. DOMAIN book' = DOMAIN book /\ \A x \in DOMAIN book : book'[x].vol = book[x].vol
  <2>1. book \in [DOMAIN book -> [vol : 1..MaxDeals, sl : Stop]]
    BY <1>2 DEF IsPositions
  <2>2. DOMAIN book' = DOMAIN book
    BY <1>1, <2>1
  <2>3. ASSUME NEW x \in DOMAIN book PROVE book'[x].vol = book[x].vol
    <3>1. CASE x = p
      <4>1. book'[p] = [book[p] EXCEPT !.sl = sl] /\ book[p] \in [vol : 1..MaxDeals, sl : Stop]
        BY <1>1, <2>1
      <4>. QED  BY <3>1, <4>1
    <3>2. CASE x # p
      BY <1>1, <2>1, <3>2
    <3>. QED  BY <3>1, <3>2
  <2>. QED  BY <2>2, <2>3
<1>5. Account'
  BY <1>1, <1>4 DEF EInv, Account, Matches
<1>6. /\ PollMeets' /\ ReportIsExact'
      /\ bundle.whole => Aligned(bundle.positions, stream', bundle.seq, deals')
      /\ current'.seq \in 0..Len(stream')
      /\ current'.whole => Aligned(current'.positions, stream', current'.seq, deals')
  <2>1. /\ deals' \in Seq(Deal) /\ Len(deals) <= Len(deals')
        /\ \A i \in 1..Len(deals) : deals'[i] = deals[i]
        /\ Len(stream') \in Nat /\ Len(stream) <= Len(stream')
        /\ \A i \in 1..Len(stream) : stream'[i] = stream[i]
    BY <1>1, <1>2
  <2>2. UNCHANGED <<storeVars, outbox, journal, pc, pollVars, torn, misaligned>>
    BY <1>1
  <2>. QED  BY <2>1, <2>2, SurroundingsGrow
<1>. QED  BY <1>1, <1>3, <1>5, <1>6 DEF EInv, SnapshotsMeet

\* Publishing records that tell of deals executed leaves a stream that does.
LEMMA PublishTells ==
  ASSUME NEW q, NEW s \in Seq(Record), TellsOf(s, q), NEW rs \in Seq(Record), TellsOf(rs, q),
         NEW r, r = s \o [i \in DOMAIN rs |-> [rs[i] EXCEPT !.seq = Len(s) + i]]
  PROVE  TellsOf(r, q)
<1>. DEFINE N == Len(s)
            M == Len(rs)
            num == [i \in DOMAIN rs |-> [rs[i] EXCEPT !.seq = N + i]]
<1>1. /\ N \in Nat /\ M \in Nat /\ DOMAIN rs = 1..M /\ \A i \in 1..M : rs[i] \in Record
  BY LenProperties
<1>2. /\ \A i \in 1..N : RecordOf(s[i], q)
      /\ \A i \in 1..M : RecordOf(rs[i], q)
  BY DEF TellsOf
<1>3. ASSUME NEW i \in 1..M
      PROVE  num[i] \in Record /\ RecordOf(num[i], q)
  <2>1. num[i] = [rs[i] EXCEPT !.seq = N + i] /\ rs[i] \in Record /\ N + i \in Nat
    BY <1>1
  <2>. HIDE DEF num, N
  <2>2. num[i] \in Record
    BY <2>1 DEF Record
  <2>3. /\ num[i].kind = rs[i].kind /\ num[i].deal = rs[i].deal /\ num[i].pos = rs[i].pos
        /\ num[i].entry = rs[i].entry /\ num[i].vol = rs[i].vol
    BY <2>1 DEF Record
  <2>4. RecordOf(rs[i], q)
    BY <1>2
  <2>. QED  BY <2>2, <2>3, <2>4 DEF RecordOf
<1>4. num = [i \in 1..M |-> [rs[i] EXCEPT !.seq = N + i]]
  BY <1>1
<1>5. r = s \o num
  OBVIOUS
<1>. HIDE DEF N, M, num
<1>6. num \in Seq(Record) /\ Len(num) = M
  <2>1. num \in [1..M -> Record]
    BY <1>3, <1>4
  <2>2. num \in Seq(Record)
    BY <1>1, <2>1, SeqDef
  <2>. QED  BY <1>1, <2>1, <2>2, LenProperties
<1>7. Len(r) = N + M /\ \A i \in 1..(N + M) : r[i] = IF i <= N THEN s[i] ELSE num[i - N]
  <2>1. /\ Len(s \o num) = Len(s) + Len(num)
        /\ \A i \in 1..(Len(s) + Len(num)) :
             (s \o num)[i] = IF i <= Len(s) THEN s[i] ELSE num[i - Len(s)]
    BY <1>6, ConcatProperties
  <2>2. Len(s) = N
    BY DEF N
  <2>. QED  BY <1>5, <1>6, <2>1, <2>2
<1>8. ASSUME NEW i \in 1..(N + M) PROVE RecordOf(r[i], q)
  <2>1. CASE i <= N
    BY <1>1, <1>2, <1>7, <2>1
  <2>2. CASE ~(i <= N)
    <3>1. i - N \in 1..M
      BY <1>1, <2>2
    <3>. QED  BY <1>3, <1>7, <2>2, <3>1
  <2>. QED  BY <2>1, <2>2
<1>. QED  BY <1>7, <1>8 DEF TellsOf

\* A step of the EA: records of executed deals, and the bundle as it was or one
\* that meets the stream.
LEMMA BridgeExact ==
  ASSUME EInv, IInv', NEW rs \in Seq(Record), TellsOf(rs, deals), Publish(rs),
         \/ bundle' = bundle
         \/ bundle'.whole => Aligned(bundle'.positions, stream', bundle'.seq, deals'),
         UNCHANGED <<book, deals, storeVars, outbox, journal, pc, pollVars, torn, misaligned>>
  PROVE  EInv'
<1>1. /\ IsPublished(stream) /\ stream \in Seq(Record)
      /\ deals \in Seq(Deal) /\ Len(deals) \in Nat
  BY LenProperties DEF EInv, IInv, Types, BrokerTypes, BridgeTypes, IsPublished
<1>2. stream' = stream \o [i \in DOMAIN rs |-> [rs[i] EXCEPT !.seq = Len(stream) + i]]
  BY DEF Publish
<1>3. /\ Len(stream) \in Nat /\ Len(stream') \in Nat
      /\ Len(stream) <= Len(stream') /\ \A i \in 1..Len(stream) : stream'[i] = stream[i]
  BY <1>1, <1>2, PublishIs
<1>4. Account'
  <2>1. IsLedger(deals) /\ Matches(book, deals, Len(deals)) /\ TellsOf(stream, deals)
    BY DEF EInv, Account
  <2>2. TellsOf(stream', deals)
    BY <1>1, <1>2, <2>1, PublishTells
  <2>3. deals' = deals /\ book' = book
    OBVIOUS
  <2>. QED  BY <2>1, <2>2, <2>3 DEF Account
<1>5. /\ PollMeets' /\ ReportIsExact'
      /\ bundle.whole => Aligned(bundle.positions, stream', bundle.seq, deals')
      /\ current'.seq \in 0..Len(stream')
      /\ current'.whole => Aligned(current'.positions, stream', current'.seq, deals')
  <2>1. /\ deals' \in Seq(Deal) /\ Len(deals) <= Len(deals')
        /\ \A i \in 1..Len(deals) : deals'[i] = deals[i]
    BY <1>1
  <2>. QED  BY <1>3, <2>1, SurroundingsGrow
<1>6. bundle'.whole => Aligned(bundle'.positions, stream', bundle'.seq, deals')
  BY <1>5
<1>. QED  BY <1>4, <1>5, <1>6 DEF EInv, SnapshotsMeet

\* The records the bridge publishes tell of the deals.
LEMMA RecordsTell ==
  /\ \A d \in 1..Len(deals) : RecordOf(DealRecord(d), deals)
  /\ \A p : RecordOf(PositionRecord(p), deals)
BY DEF RecordOf, DealRecord, PositionRecord

\* One record, or none, is a list of records that tell.
LEMMA OneTells ==
  ASSUME NEW q, NEW r \in Record, RecordOf(r, q)
  PROVE  <<r>> \in Seq(Record) /\ TellsOf(<<r>>, q)
<1>1. <<r>> \in Seq(Record) /\ Len(<<r>>) = 1 /\ <<r>>[1] = r
  OBVIOUS
<1>. QED  BY <1>1 DEF TellsOf

LEMMA NoneTells ==
  ASSUME NEW q
  PROVE  <<>> \in Seq(Record) /\ TellsOf(<<>>, q)
<1>1. Len(<<>>) = 0
  OBVIOUS
<1>. QED  BY <1>1, EmptySeq DEF TellsOf

\* Publishing nothing leaves the stream.
LEMMA PublishNone ==
  ASSUME EInv, stream' = stream
  PROVE  Publish(<<>>)
<1>1. stream \in Seq(Record)
  BY DEF EInv, IInv, Types, BridgeTypes, IsPublished
<1>2. [i \in DOMAIN <<>> |-> [<<>>[i] EXCEPT !.seq = Len(stream) + i]] = <<>>
  OBVIOUS
<1>3. stream \o <<>> = stream
  BY <1>1, ConcatEmptySeq
<1>. QED  BY <1>2, <1>3 DEF Publish

\* A callback publishes the record of an executed deal, or a record of none.
LEMMA OnTradeTransactionExact ==
  ASSUME EInv, OnTradeTransaction
  PROVE  EInv'
<1>. DEFINE t == Head(callbacks)
<1>1. /\ IInv /\ IInv' /\ Types
  BY OnTradeTransactionKeeps DEF EInv, IInv
<1>2. /\ callbacks \in Seq(Callback) /\ callbacks # <<>>
      /\ \A u \in Range(callbacks) : u.kind = "DEAL_ADD" => u.deal \in 1..Len(deals)
      /\ bundle' = bundle
      /\ UNCHANGED <<book, deals, storeVars, outbox, journal, pc, pollVars, torn, misaligned>>
  BY <1>1 DEF OnTradeTransaction, Types, BrokerTypes, brokerVars
<1>3. /\ t \in Callback /\ t \in Range(callbacks)
  BY <1>2, TailIs
<1>4. t.pos \in Position /\ (t.kind = "DEAL_ADD" => t.deal \in 1..Len(deals))
  BY <1>2, <1>3 DEF Callback
<1>5. \/ t.kind = "DEAL_ADD" /\ Publish(<<DealRecord(t.deal)>>)
      \/ stream' = stream
      \/ Publish(IF t.pos \in DOMAIN book THEN <<PositionRecord(t.pos)>> ELSE <<>>)
  BY DEF OnTradeTransaction
<1>. HIDE DEF t
<1>6. ASSUME NEW rs \in Seq(Record), TellsOf(rs, deals), Publish(rs)
      PROVE  EInv'
  BY <1>1, <1>2, <1>6, BridgeExact
<1>7. CASE t.kind = "DEAL_ADD" /\ Publish(<<DealRecord(t.deal)>>)
  <2>1. DealRecord(t.deal) \in Record
    BY <1>1, <1>4, <1>7, RecordsAre
  <2>2. RecordOf(DealRecord(t.deal), deals)
    BY <1>4, <1>7, RecordsTell
  <2>3. <<DealRecord(t.deal)>> \in Seq(Record) /\ TellsOf(<<DealRecord(t.deal)>>, deals)
    BY <2>1, <2>2, OneTells
  <2>. QED  BY <1>6, <1>7, <2>3
<1>8. CASE stream' = stream
  BY <1>6, <1>8, PublishNone, NoneTells
<1>9. CASE Publish(IF t.pos \in DOMAIN book THEN <<PositionRecord(t.pos)>> ELSE <<>>)
  <2>. DEFINE rs == IF t.pos \in DOMAIN book THEN <<PositionRecord(t.pos)>> ELSE <<>>
  <2>1. PositionRecord(t.pos) \in Record /\ RecordOf(PositionRecord(t.pos), deals)
    BY <1>1, <1>4, RecordsAre, RecordsTell
  <2>2. /\ <<PositionRecord(t.pos)>> \in Seq(Record)
        /\ TellsOf(<<PositionRecord(t.pos)>>, deals)
    BY <2>1, OneTells
  <2>3. rs \in Seq(Record) /\ TellsOf(rs, deals)
    BY <2>2, NoneTells
  <2>4. Publish(rs)
    BY <1>9
  <2>. HIDE DEF rs
  <2>. QED  BY <1>6, <2>3, <2>4
<1>. QED  BY <1>5, <1>7, <1>8, <1>9

\* The timer publishes records of queued deals; the bundle it commits is whole only
\* when the stream has told every deal.
LEMMA OnTimerExact ==
  ASSUME EInv, OnTimer
  PROVE  EInv'
<1>1. /\ IInv /\ IInv' /\ Types
  BY OnTimerKeeps DEF EInv, IInv
<1>2. PICK visible \in SUBSET Range(retryQueue) :
        LET ready == {i \in DOMAIN retryQueue : retryQueue[i] \in visible}
            found == Reverse(Sublist(retryQueue, ready))
        IN  /\ Publish([i \in DOMAIN found |-> DealRecord(found[i])])
            /\ retryQueue' = Sublist(retryQueue, DOMAIN retryQueue \ ready)
            /\ bundle' = [positions |-> book, seq |-> Len(stream'),
                          whole |-> callbacks = <<>> /\ IsDealHistory(stream')]
            /\ UNCHANGED <<brokerVars, callbacks, storeVars, outbox, journal, pc,
                           pollVars, interrupts, torn, misaligned>>
  BY DEF OnTimer
<1>. DEFINE ready == {i \in DOMAIN retryQueue : retryQueue[i] \in visible}
            listed == Sublist(retryQueue, ready)
            found == Reverse(listed)
            rs == [i \in DOMAIN found |-> DealRecord(found[i])]
            D == 1..Len(deals)
<1>3. /\ Publish(rs)
      /\ bundle' = [positions |-> book, seq |-> Len(stream'),
                    whole |-> callbacks = <<>> /\ IsDealHistory(stream')]
      /\ UNCHANGED <<book, deals, storeVars, outbox, journal, pc, pollVars, torn, misaligned>>
  BY <1>2 DEF brokerVars
<1>4. /\ retryQueue \in Seq(D) /\ deals \in Seq(Deal) /\ Len(deals) \in Nat
      /\ stream' \in Seq(Record)
      /\ Matches(book, deals, Len(deals))
  BY <1>1, LenProperties
     DEF EInv, Account, IInv, Types, BrokerTypes, BridgeTypes, IsPublished
<1>5. ready \in SUBSET DOMAIN retryQueue
  OBVIOUS
<1>. HIDE DEF ready, D
<1>6. listed \in Seq(D)
  BY <1>4, <1>5, SublistIs
<1>. HIDE DEF listed
<1>7. found \in Seq(D)
  BY <1>6, ReverseIs
<1>. HIDE DEF found
<1>8. rs \in Seq(Record) /\ TellsOf(rs, deals)
  <2>1. /\ DOMAIN found = 1..Len(found) /\ Len(found) \in Nat
        /\ \A i \in 1..Len(found) : found[i] \in D
    BY <1>7, LenProperties
  <2>2. \A i \in 1..Len(found) :
          DealRecord(found[i]) \in Record /\ RecordOf(DealRecord(found[i]), deals)
    BY <1>1, <2>1, RecordsAre, RecordsTell DEF D
  <2>3. rs = [i \in 1..Len(found) |-> DealRecord(found[i])]
    BY <2>1
  <2>. HIDE DEF rs
  <2>4. rs \in [1..Len(found) -> Record]
    BY <2>2, <2>3
  <2>5. rs \in Seq(Record)
    BY <2>1, <2>4, SeqDef
  <2>6. Len(rs) = Len(found)
    BY <2>1, <2>4, <2>5, LenProperties
  <2>7. \A i \in 1..Len(rs) : RecordOf(rs[i], deals)
    BY <2>2, <2>3, <2>6
  <2>. QED  BY <2>5, <2>7 DEF TellsOf
<1>. HIDE DEF rs
<1>9. bundle'.whole => Aligned(bundle'.positions, stream', bundle'.seq, deals')
  <2>1. SUFFICES ASSUME IsDealHistory(stream')
                 PROVE  Aligned(book, stream', Len(stream'), deals)
    BY <1>3
  <2>2. LET published == Sublist(stream', {i \in DOMAIN stream' : stream'[i].kind = "DEAL_ADD"})
        IN  [i \in DOMAIN published |-> published[i].deal] = [d \in DOMAIN deals |-> d]
    BY <2>1 DEF IsDealHistory
  <2>3. InSequence(stream', Len(stream')) /\ DealsOf(stream', Len(stream')) = 1..Len(deals)
    BY <1>4, <2>2, HistoryTold
  <2>4. Len(deals) \in 0..Len(deals)
    BY <1>4
  <2>. QED  BY <1>4, <2>3, <2>4 DEF Aligned
<1>. QED  BY <1>1, <1>3, <1>8, <1>9, BridgeExact

\* A restart of the EA touches neither stream nor bundle.
LEMMA RestartExpertExact ==
  ASSUME EInv, RestartExpert
  PROVE  EInv'
<1>1. IInv /\ IInv'
  BY RestartExpertKeeps DEF EInv
<1>2. /\ stream' = stream /\ bundle' = bundle
      /\ UNCHANGED <<book, deals, storeVars, outbox, journal, pc, pollVars, torn, misaligned>>
  BY DEF RestartExpert
<1>3. <<>> \in Seq(Record) /\ TellsOf(<<>>, deals) /\ Publish(<<>>)
  BY <1>2, PublishNone, NoneTells
<1>. QED  BY <1>1, <1>2, <1>3, BridgeExact

-----------------------------------------------------------------------------
(* Steps of the poll.                                                       *)

\* The poll leaves broker and bridge alone.
LEMMA AccountUntouched ==
  ASSUME EInv, UNCHANGED <<brokerVars, bridgeVars>>
  PROVE  /\ Account' /\ book' = book /\ deals' = deals /\ stream' = stream /\ bundle' = bundle
         /\ current' = current => SnapshotsMeet'
BY DEF EInv, Account, SnapshotsMeet, brokerVars, bridgeVars

\* A delivery moves the first event from outbox to journal.
LEMMA DeliverExact ==
  ASSUME EInv, Deliver
  PROVE  EInv'
<1>1. /\ pc \in {"recover", "deliver"} /\ outbox # <<>> /\ outbox' = Tail(outbox)
      /\ journal' = IF \E i \in DOMAIN journal : EventId(journal[i]) = EventId(Head(outbox))
                    THEN journal ELSE Append(journal, Head(outbox))
      /\ UNCHANGED <<brokerVars, bridgeVars, storeVars, pc, pollVars, interrupts, torn, misaligned>>
  BY DEF Deliver
<1>2. /\ UNCHANGED <<acked, saved, pc, current, records, torn, misaligned>>
  BY <1>1 DEF storeVars, pollVars
<1>3. /\ Account' /\ deals' = deals /\ stream' = stream /\ SnapshotsMeet'
  BY <1>1, <1>2, AccountUntouched
<1>4. PollMeets'
  BY <1>2, <1>3 DEF EInv, PollMeets, Undisturbed
<1>5. ReportIsExact'
  <2>1. SUFFICES ASSUME Undisturbed PROVE TellsInOrder(journal', outbox', deals)
    BY <1>1, <1>2, <1>3 DEF ReportIsExact, Undisturbed
  <2>2. TellsInOrder(journal, outbox, deals)
    BY <2>1 DEF EInv, ReportIsExact
  <2>3. deals \in Seq(Deal) /\ journal \in Seq(Event) /\ outbox \in Seq(Event)
    BY DEF EInv, IInv, Types, BrokerTypes, PollTypes
  <2>4. TellsInOrder(journal', Tail(outbox), deals)
    BY <1>1, <2>2, <2>3, DeliveryIsExact
  <2>. QED  BY <1>1, <2>4
<1>6. IInv'
  BY DeliverKeeps DEF EInv
<1>. QED  BY <1>3, <1>4, <1>5, <1>6 DEF EInv

\* The bundle read is the one committed, whole or not.
LEMMA ReadSnapshotExact ==
  ASSUME EInv, ReadSnapshot
  PROVE  EInv'
<1>1. /\ pc = "recover" /\ outbox = <<>> /\ current' = bundle /\ pc' = "read"
      /\ UNCHANGED <<brokerVars, bridgeVars, storeVars, outbox, journal, records,
                     payloads, interrupts, torn, misaligned>>
  BY DEF ReadSnapshot
<1>2. acked' = acked /\ saved' = saved
  BY <1>1 DEF storeVars
<1>3. Account' /\ deals' = deals /\ stream' = stream /\ bundle' = bundle
  BY <1>1, AccountUntouched
<1>4. SnapshotsMeet'
  <2>1. bundle.seq \in 0..Len(stream)
    BY DEF EInv, IInv, Types, BridgeTypes
  <2>. QED  BY <1>1, <1>3, <2>1 DEF EInv, SnapshotsMeet
<1>5. PollMeets'
  BY <1>1, <1>2, <1>3 DEF EInv, PollMeets, Undisturbed
<1>6. ReportIsExact'
  BY <1>1, <1>3 DEF EInv, ReportIsExact, Undisturbed
<1>7. IInv'
  BY ReadSnapshotKeeps DEF EInv
<1>. QED  BY <1>3, <1>4, <1>5, <1>6, <1>7 DEF EInv

\* The checkpoint moves to where the snapshot of the poll belongs.
LEMMA AcknowledgeExact ==
  ASSUME EInv, Acknowledge
  PROVE  EInv'
<1>1. /\ pc = "acknowledge" /\ acked' = Last(records).seq /\ pc' = "save"
      /\ UNCHANGED <<brokerVars, bridgeVars, saved, known, outbox, journal, pollVars,
                     interrupts, torn, misaligned>>
  BY DEF Acknowledge
<1>2. current' = current /\ records' = records
  BY <1>1 DEF pollVars
<1>3. Account' /\ deals' = deals /\ stream' = stream /\ SnapshotsMeet'
  BY <1>1, <1>2, AccountUntouched
<1>4. PollMeets'
  BY <1>1, <1>2, <1>3 DEF EInv, PollMeets, Undisturbed
<1>5. ReportIsExact'
  BY <1>1, <1>3 DEF EInv, ReportIsExact, Undisturbed
<1>6. IInv'
  BY AcknowledgeKeeps DEF EInv
<1>. QED  BY <1>3, <1>4, <1>5, <1>6 DEF EInv

\* The snapshot saved belongs to the checkpoint.
LEMMA SaveSnapshotExact ==
  ASSUME EInv, SaveSnapshot
  PROVE  EInv'
<1>1. /\ pc = "save" /\ saved' = current.positions /\ pc' = "deliver"
      /\ UNCHANGED <<brokerVars, bridgeVars, acked, known, outbox, journal, pollVars,
                     interrupts, torn, misaligned>>
  BY DEF SaveSnapshot
<1>2. current' = current /\ records' = records
  BY <1>1 DEF pollVars
<1>3. Account' /\ deals' = deals /\ stream' = stream /\ SnapshotsMeet'
  BY <1>1, <1>2, AccountUntouched
<1>4. PollMeets'
  BY <1>1, <1>2, <1>3 DEF EInv, PollMeets, Undisturbed
<1>5. ReportIsExact'
  BY <1>1, <1>3 DEF EInv, ReportIsExact, Undisturbed
<1>6. IInv'
  BY SaveSnapshotKeeps DEF EInv
<1>. QED  BY <1>3, <1>4, <1>5, <1>6 DEF EInv

\* Nothing to merge: no snapshot, no record, no deal.
LEMMA NothingAligned ==
  ASSUME NEW s, NEW q \in Seq(Deal)
  PROVE  Aligned(Empty, s, 0, q)
<1>1. InSequence(s, 0)
  BY DEF InSequence
<1>2. DealsOf(s, 0) = {} /\ 1..0 = {} /\ 0 \in 0..Len(q)
  BY LenProperties DEF DealsOf
<1>3. Matches(Empty, q, 0)
  <2>1. ASSUME NEW p \in Position PROVE Vol(q, 0, p) = 0 /\ p \notin DOMAIN Empty
    BY VolStep DEF Empty
  <2>. QED  BY <2>1 DEF Matches
<1>. QED  BY <1>1, <1>2, <1>3 DEF Aligned

\* Without a bundle in hand nothing is claimed.
LEMMA NoBundleMeets ==
  ASSUME NEW s, Len(s) \in Nat, NEW q \in Seq(Deal)
  PROVE  /\ NoBundle.seq \in 0..Len(s)
         /\ Aligned(NoBundle.positions, s, NoBundle.seq, q)
<1>1. NoBundle.seq = 0 /\ NoBundle.positions = Empty
  BY DEF NoBundle
<1>. QED  BY <1>1, NothingAligned

\* A poll that ends forgets its bundle.
LEMMA EndPollExact ==
  ASSUME EInv, EndPoll
  PROVE  EInv'
<1>1. /\ pc = "deliver" /\ outbox = <<>> /\ pc' = "recover" /\ current' = NoBundle
      /\ UNCHANGED <<brokerVars, bridgeVars, acked, saved, outbox, journal,
                     interrupts, torn, misaligned>>
  BY DEF EndPoll
<1>2. /\ Account' /\ deals' = deals /\ stream' = stream /\ bundle' = bundle
      /\ deals \in Seq(Deal) /\ Len(stream) \in Nat
  BY <1>1, AccountUntouched, LenProperties
     DEF EInv, IInv, Types, BrokerTypes, BridgeTypes, IsPublished
<1>3. SnapshotsMeet'
  <2>1. NoBundle.seq \in 0..Len(stream) /\ Aligned(NoBundle.positions, stream, NoBundle.seq, deals)
    BY <1>2, NoBundleMeets
  <2>. QED  BY <1>1, <1>2, <2>1 DEF EInv, SnapshotsMeet
<1>4. PollMeets'
  BY <1>1, <1>2 DEF EInv, PollMeets, Undisturbed
<1>5. ReportIsExact'
  BY <1>1, <1>2 DEF EInv, ReportIsExact, Undisturbed
<1>6. IInv'
  BY EndPollKeeps DEF EInv
<1>. QED  BY <1>2, <1>3, <1>4, <1>5, <1>6 DEF EInv

\* An interruption between checkpoint and snapshot tears them apart; any other
\* leaves the saved snapshot with its checkpoint.
LEMMA InterruptExact ==
  ASSUME EInv, Interrupt
  PROVE  EInv'
<1>1. /\ pc # "recover" /\ pc' = "recover" /\ current' = NoBundle /\ records' = <<>>
      /\ torn' = (torn \/ (pc = "save" /\ records # <<>>))
      /\ UNCHANGED <<brokerVars, bridgeVars, storeVars, outbox, journal, misaligned>>
  BY DEF Interrupt
<1>2. /\ Account' /\ deals' = deals /\ stream' = stream /\ bundle' = bundle
      /\ deals \in Seq(Deal) /\ Len(stream) \in Nat
  BY <1>1, AccountUntouched, LenProperties
     DEF EInv, IInv, Types, BrokerTypes, BridgeTypes, IsPublished
<1>3. SnapshotsMeet'
  <2>1. NoBundle.seq \in 0..Len(stream) /\ Aligned(NoBundle.positions, stream, NoBundle.seq, deals)
    BY <1>2, NoBundleMeets
  <2>. QED  BY <1>1, <1>2, <2>1 DEF EInv, SnapshotsMeet
<1>4. PollMeets'
  <2>1. SUFFICES ASSUME Undisturbed' PROVE Aligned(saved, stream, acked, deals)
    BY <1>1, <1>2 DEF PollMeets, storeVars
  <2>2. Undisturbed /\ (pc # "save" \/ records = <<>>)
    BY <1>1, <2>1 DEF Undisturbed
  <2>. QED  BY <2>2 DEF EInv, PollMeets
<1>5. ReportIsExact'
  BY <1>1, <1>2 DEF EInv, ReportIsExact, Undisturbed
<1>6. IInv'
  BY InterruptKeeps DEF EInv
<1>. QED  BY <1>2, <1>3, <1>4, <1>5, <1>6 DEF EInv

\* What is acknowledged has been delivered once nothing is pending.
LEMMA AcknowledgedAreDelivered ==
  ASSUME EInv, outbox = <<>>, NEW a \in Nat, DealsOf(stream, acked) = 1..a
  PROVE  1..a \subseteq NativesOf(journal)
<1>1. ASSUME NEW n \in 1..a PROVE n \in NativesOf(journal)
  <2>1. PICK i \in 1..acked : stream[i].kind = "DEAL_ADD" /\ stream[i].deal = n
    BY DEF DealsOf
  <2>2. PICK e \in Reported : e.native = n
    BY <2>1 DEF EInv, IInv, DealsTold
  <2>3. Range(outbox) = {}
    BY EmptySeq DEF Range
  <2>4. e \in Range(journal) /\ n # NoDeal
    BY <2>2, <2>3 DEF Reported, NoDeal
  <2>. QED  BY <2>2, <2>4 DEF NativesOf, IsEconomic
<1>. QED  BY <1>1

\* A poll of one instant adds the events of the deals between saved and current
\* snapshot, after those delivered.
LEMMA EnqueueExact ==
  ASSUME EInv, Enqueue
  PROVE  EInv'
<1>. DEFINE read   == SubSeq(stream, acked + 1, Len(stream))
            events == PollEvents(read, saved, current.positions)
            unsent == Sublist(events, {i \in DOMAIN events : EventId(events[i]) \notin known})
            N      == Len(stream)
<1>1. IInv /\ IInv' /\ Types /\ KnownIsReported /\ Account
  BY EnqueueKeeps DEF EInv, IInv
<1>2. /\ pc = "read" /\ records' = read
      /\ outbox' = outbox \o Sublist(unsent, NewPlaces(unsent, outbox))
      /\ pc' = (IF read = <<>> THEN "save" ELSE "acknowledge")
      /\ misaligned' = (misaligned \/ TwoInstants)
      /\ UNCHANGED <<brokerVars, bridgeVars, storeVars, journal, current, interrupts, torn>>
  BY DEF Enqueue
<1>3. /\ stream \in Seq(Record) /\ N \in Nat /\ acked \in 0..N
      /\ \A i \in 1..N : stream[i] \in Record /\ stream[i].seq = i
      /\ IsPositions(saved) /\ IsPositions(current.positions)
      /\ outbox = <<>> /\ journal \in Seq(Event) /\ deals \in Seq(Deal)
  BY <1>1, <1>2, LenProperties
     DEF Types, BrokerTypes, BridgeTypes, PollTypes, IsPublished, EInv, ReportIsExact
<1>. HIDE DEF N
<1>4. /\ read \in Seq(Record) /\ Len(read) = N - acked
      /\ \A i \in 1..(N - acked) : read[i] = stream[acked + i]
  <2>1. acked + 1 \in Int /\ N \in Int /\ \A i \in (acked + 1)..N : stream[i] \in Record
    BY <1>3
  <2>2. read = SubSeq(stream, acked + 1, N)
    BY DEF N
  <2>. HIDE DEF read
  <2>3. /\ read \in Seq(Record) /\ Len(read) = (IF acked + 1 <= N THEN N - (acked + 1) + 1 ELSE 0)
        /\ \A i \in 1..(N - (acked + 1) + 1) : read[i] = stream[(acked + 1) + i - 1]
    BY <2>1, <2>2, SubSeqProperties
  <2>4. /\ N - (acked + 1) + 1 = N - acked /\ (~(acked + 1 <= N) => N - acked = 0)
        /\ \A i \in 1..(N - acked) : (acked + 1) + i - 1 = acked + i
    BY <1>3
  <2>. QED  BY <2>3, <2>4
<1>. HIDE DEF read
<1>5. IsRest(read, stream, acked)
  BY <1>4 DEF IsRest, N
<1>6. /\ Account' /\ deals' = deals /\ stream' = stream /\ SnapshotsMeet'
  BY <1>2, AccountUntouched
<1>7. acked' = acked /\ saved' = saved
  BY <1>2 DEF storeVars
<1>8. ASSUME Undisturbed'
      PROVE  /\ Undisturbed /\ Aligned(saved, stream, acked, deals)
             /\ Aligned(current.positions, stream, N, deals)
             /\ TellsInOrder(journal, <<>>, deals)
  <2>1. Undisturbed /\ ~TwoInstants
    BY <1>2, <1>8 DEF Undisturbed
  <2>2. current.whole /\ current.seq = N
    BY <2>1 DEF TwoInstants, N
  <2>3. Aligned(current.positions, stream, N, deals)
    BY <2>2 DEF EInv, SnapshotsMeet
  <2>4. Aligned(saved, stream, acked, deals)
    BY <1>2, <2>1 DEF EInv, PollMeets
  <2>5. TellsInOrder(journal, <<>>, deals)
    BY <1>3, <2>1 DEF EInv, ReportIsExact
  <2>. QED  BY <2>1, <2>3, <2>4, <2>5
<1>9. read # <<>> => Last(read).seq = N
  <2>1. SUFFICES ASSUME read # <<>> PROVE Last(read).seq = N
    OBVIOUS
  <2>2. Len(read) \in Nat \ {0}
    BY <1>4, <2>1, EmptySeq
  <2>3. acked \in Nat /\ acked <= N /\ N - acked # 0 /\ Len(read) = N - acked
    BY <1>3, <1>4, <2>2
  <2>4. N - acked \in 1..(N - acked) /\ acked + (N - acked) = N /\ N \in 1..N
    BY <1>3, <2>3
  <2>5. Last(read) = read[N - acked] /\ read[N - acked] = stream[N]
    BY <1>4, <2>3, <2>4 DEF Last
  <2>. QED  BY <1>3, <2>4, <2>5
<1>10. read = <<>> => acked = N
  <2>1. Len(<<>>) = 0
    OBVIOUS
  <2>. QED  BY <1>3, <1>4, <2>1
<1>11. PollMeets'
  <2>1. SUFFICES ASSUME Undisturbed'
        PROVE  /\ (pc' # "save" \/ read = <<>>) => Aligned(saved, stream, acked, deals)
               /\ pc' = "acknowledge" =>
                    read # <<>> /\ Aligned(current.positions, stream, Last(read).seq, deals)
               /\ pc' = "save" => Aligned(current.positions, stream, acked, deals)
    BY <1>2, <1>6, <1>7 DEF PollMeets
  <2>2. /\ Aligned(saved, stream, acked, deals) /\ Aligned(current.positions, stream, N, deals)
    BY <1>8, <2>1
  <2>3. CASE read = <<>>
    BY <1>2, <1>10, <2>2, <2>3
  <2>4. CASE read # <<>>
    BY <1>2, <1>9, <2>2, <2>4
  <2>. QED  BY <2>3, <2>4
<1>12. ReportIsExact'
  <2>1. SUFFICES ASSUME Undisturbed' PROVE TellsInOrder(journal, outbox', deals)
    BY <1>2, <1>6 DEF ReportIsExact
  <2>2. /\ Aligned(saved, stream, acked, deals)
        /\ Aligned(current.positions, stream, Len(stream), deals)
        /\ TellsInOrder(journal, <<>>, deals)
    BY <1>8, <2>1 DEF N
  <2>3. /\ events \in Seq(Event) /\ \A e \in Range(events) : IsExact(e, deals)
        /\ Ascends(events)
        /\ NativesOf(events) = DealsOf(stream, Len(stream)) \ DealsOf(stream, acked)
    <3>1. events \in Seq(Event)
      BY <1>3, <1>4, PollEventsAre
    <3>2. acked \in 0..Len(stream) /\ read \in Seq(Record)
      BY <1>3, <1>4 DEF N
    <3>3. IsLedger(deals) /\ TellsOf(stream, deals)
      BY <1>1 DEF Account
    <3>4. /\ \A e \in Range(PollEvents(read, saved, current.positions)) : IsExact(e, deals)
          /\ Ascends(PollEvents(read, saved, current.positions))
          /\ NativesOf(PollEvents(read, saved, current.positions))
               = DealsOf(stream, Len(stream)) \ DealsOf(stream, acked)
      BY <1>3, <1>5, <2>2, <3>2, <3>3, PollIsExact
    <3>. QED  BY <3>1, <3>4
  <2>4. PICK a \in 0..Len(deals) : DealsOf(stream, acked) = 1..a
    BY <2>2 DEF Aligned
  <2>5. PICK b \in 0..Len(deals) : DealsOf(stream, Len(stream)) = 1..b
    BY <2>2 DEF Aligned
  <2>6. Len(deals) \in Nat /\ a \in Nat /\ b \in Nat
    BY <1>3, LenProperties
  <2>. HIDE DEF events
  <2>7. NativesOf(events) = (a + 1)..b
    BY <2>3, <2>4, <2>5, <2>6
  <2>8. 1..a \subseteq NativesOf(journal)
    BY <1>3, <2>4, <2>6, AcknowledgedAreDelivered
  <2>9. \A id \in known : \E f \in Range(journal) : EventId(f) = id
    <3>1. Range(outbox) = {}
      BY <1>3, EmptySeq DEF Range
    <3>. QED  BY <1>1, <3>1 DEF KnownIsReported, Reported
  <2>10. unsent = Sublist(events, {i \in DOMAIN events : EventId(events[i]) \notin known})
    OBVIOUS
  <2>. HIDE DEF unsent
  <2>11. TellsInOrder(journal, <<>> \o Sublist(unsent, NewPlaces(unsent, <<>>)), deals)
    BY <1>3, <2>2, <2>3, <2>4, <2>5, <2>7, <2>8, <2>9, <2>10, BatchIsExact
  <2>. QED  BY <1>2, <1>3, <2>11
<1>. QED  BY <1>1, <1>6, <1>11, <1>12 DEF EInv

\* At first there is no deal to tell of.
LEMMA ExactAtFirst ==
  ASSUME Init
  PROVE  EInv
<1>. USE DEF Init
<1>1. IInv
  BY InitHolds
<1>2. deals \in Seq(Deal) /\ Len(deals) = 0 /\ Len(stream) = 0
  BY EmptySeq
<1>3. Aligned(Empty, stream, 0, deals)
  BY <1>2, NothingAligned
<1>4. Account
  <2>1. IsLedger(deals) /\ TellsOf(stream, deals)
    BY <1>2 DEF IsLedger, TellsOf
  <2>2. Matches(book, deals, Len(deals))
    <3>1. ASSUME NEW p \in Position PROVE Vol(deals, 0, p) = 0 /\ p \notin DOMAIN book
      BY VolStep DEF Empty
    <3>. QED  BY <1>2, <3>1 DEF Matches
  <2>. QED  BY <2>1, <2>2 DEF Account
<1>5. SnapshotsMeet
  BY <1>2, <1>3 DEF SnapshotsMeet, NoBundle
<1>6. PollMeets
  BY <1>3 DEF PollMeets
<1>7. ReportIsExact
  <2>1. Range(<<>>) = {} /\ DOMAIN <<>> = {}
    BY EmptySeq DEF Range
  <2>2. Ascends(<<>>) /\ NativesOf(<<>>) = {}
    BY <2>1 DEF Ascends, NativesOf
  <2>3. \E c \in 0..Len(deals) : {} = 1..c
    <3>1. 0 \in 0..Len(deals) /\ 1..0 = {}
      BY <1>2
    <3>. QED  BY <3>1
  <2>4. NativesOf(journal) \cup NativesOf(outbox) = {}
    BY <2>2
  <2>5. TellsInOrder(journal, outbox, deals)
    BY <2>1, <2>2, <2>3, <2>4 DEF TellsInOrder
  <2>. QED  BY <2>5 DEF ReportIsExact
<1>. QED  BY <1>1, <1>4, <1>5, <1>6, <1>7 DEF EInv

\* Every step keeps the invariant.
LEMMA ExactNext ==
  ASSUME EInv, [Next]_vars
  PROVE  EInv'
<1>1. CASE Broker
  <2>1. PICK p \in Position : \/ \E sl \in Stop : OpenPosition(p, sl) \/ ChangeStop(p, sl)
                              \/ ScaleIn(p)
                              \/ \E vol \in 1..MaxDeals : Reduce(p, vol)
    BY <1>1 DEF Broker
  <2>. QED  BY <2>1, OpenPositionExact, ChangeStopExact, ScaleInExact, ReduceExact
<1>2. CASE Bridge
  BY <1>2, OnTradeTransactionExact, OnTimerExact, RestartExpertExact DEF Bridge
<1>3. CASE Poll
  BY <1>3, DeliverExact, ReadSnapshotExact, EnqueueExact, AcknowledgeExact,
     SaveSnapshotExact, EndPollExact DEF Poll
<1>4. CASE Interrupt
  BY <1>4, InterruptExact
<1>5. CASE UNCHANGED vars
  <2>1. UNCHANGED <<book, deals, changes, callbacks, retryQueue, stream, bundle, acked, saved,
                    known, outbox, journal, pc, current, records, payloads, interrupts, torn,
                    misaligned>>
    BY <1>5 DEF vars, brokerVars, bridgeVars, storeVars, pollVars
  <2>2. IInv'
    BY <1>5, NextHolds DEF EInv
  <2>. QED  BY <2>1, <2>2 DEF EInv, Account, SnapshotsMeet, PollMeets, ReportIsExact, Undisturbed
<1>. QED  BY <1>1, <1>2, <1>3, <1>4, <1>5 DEF Next

\* The invariant of an exact journal is inductive.
LEMMA ExactInductive == Spec => []EInv
<1>1. Init => EInv
  BY ExactAtFirst
<1>2. EInv /\ [Next]_vars => EInv'
  BY ExactNext
<1>. QED  BY <1>1, <1>2, PTL DEF Spec

\* What exact events say of each other.
LEMMA ExactIsExact ==
  ASSUME EInv
  PROVE  ExactWhenAligned
<1>1. SUFFICES ASSUME Undisturbed, NEW i \in DOMAIN journal, NEW j \in DOMAIN journal,
                      IsEconomic(journal[i])
               PROVE  /\ journal[i].native # NoDeal
                      /\ journal[i].type = DealType(journal[i].native)
                      /\ journal[i].ticket = deals[journal[i].native].pos
                      /\ (IsEconomic(journal[j]) /\ j > i) => journal[j].native > journal[i].native
  BY DEF ExactWhenAligned, Undisturbed
<1>2. /\ \A e \in Range(journal) : IsExact(e, deals)
      /\ Ascends(journal)
  BY <1>1 DEF EInv, ReportIsExact, TellsInOrder
<1>3. /\ deals \in Seq(Deal) /\ Len(deals) \in Nat /\ journal \in Seq(Event)
      /\ DOMAIN journal = 1..Len(journal) /\ Len(journal) \in Nat
  BY LenProperties DEF EInv, IInv, Types, BrokerTypes, PollTypes
<1>4. journal[i] \in Range(journal) /\ journal[j] \in Range(journal)
  BY DEF Range
<1>5. /\ journal[i].native \in 1..Len(deals)
      /\ journal[i].type = TypeOfDeal(deals[journal[i].native])
      /\ journal[i].ticket = deals[journal[i].native].pos
  BY <1>1, <1>2, <1>4 DEF IsExact
<1>6. journal[i].native # NoDeal
  BY <1>3, <1>5 DEF NoDeal
<1>7. TypeOfDeal(deals[journal[i].native]) = DealType(journal[i].native)
  BY DEF TypeOfDeal, DealType
<1>8. ASSUME IsEconomic(journal[j]), j > i PROVE journal[j].native > journal[i].native
  <2>1. journal[j].native \in 1..Len(deals)
    BY <1>2, <1>4, <1>8 DEF IsExact
  <2>2. i < j
    BY <1>3, <1>8
  <2>3. journal[i].native < journal[j].native
    BY <1>1, <1>2, <1>8, <2>2 DEF Ascends
  <2>. QED  BY <1>3, <1>5, <2>1, <2>3
<1>. QED  BY <1>5, <1>6, <1>7, <1>8

\* A position is open when its last deal left something of it.
LEMMA OpenIsVolume ==
  ASSUME EInv, NEW p \in Position
  PROVE  p \in DOMAIN book <=> Vol(deals, Len(deals), p) # 0
<1>1. IsPositions(book) /\ Matches(book, deals, Len(deals)) /\ MaxDeals \in Nat
  BY JournalAssumption DEF EInv, Account, IInv, Types, BrokerTypes, JournalAssumption
<1>2. p \in DOMAIN book => book[p].vol \in 1..MaxDeals
  BY <1>1 DEF IsPositions
<1>3. Vol(deals, Len(deals), p) = IF p \in DOMAIN book THEN book[p].vol ELSE 0
  BY <1>1 DEF Matches
<1>. QED  BY <1>1, <1>2, <1>3

\* At rest, every deal has been told: its opening and closing give the open positions.
LEMMA PositionsAreKnown ==
  ASSUME EInv
  PROVE  JournalKnowsPositions
<1>1. SUFFICES ASSUME AtRest, IsDealHistory(stream), Undisturbed
               PROVE  OpenInJournal = DOMAIN book
  BY DEF JournalKnowsPositions, Undisturbed
<1>. DEFINE q == deals
            L == Len(deals)
<1>2. /\ q \in Seq(Deal) /\ L \in Nat /\ stream \in Seq(Record) /\ IsLedger(q)
      /\ outbox = <<>> /\ acked = Len(stream) /\ journal \in Seq(Event)
      /\ DOMAIN book \subseteq Position
  BY <1>1, LenProperties
     DEF AtRest, EInv, Account, IInv, Types, BrokerTypes, BridgeTypes, PollTypes, IsPublished,
         IsPositions
<1>3. 1..L \subseteq NativesOf(journal)
  <2>1. LET published == Sublist(stream, {i \in DOMAIN stream : stream[i].kind = "DEAL_ADD"})
        IN  [i \in DOMAIN published |-> published[i].deal] = [d \in DOMAIN deals |-> d]
    BY <1>1 DEF IsDealHistory
  <2>2. DealsOf(stream, Len(stream)) = 1..Len(deals)
    BY <1>2, <2>1, HistoryTold
  <2>. QED  BY <1>2, <2>2, AcknowledgedAreDelivered
<1>4. \A e \in Range(journal) : IsExact(e, q)
  BY <1>1 DEF EInv, ReportIsExact, TellsInOrder
<1>5. ASSUME NEW d \in 1..L
      PROVE  Tells(TypeOfDeal(q[d]), q[d].pos)
  <2>1. PICK e \in Range(journal) : IsEconomic(e) /\ e.native = d
    BY <1>3 DEF NativesOf
  <2>2. e.type = TypeOfDeal(q[d]) /\ e.ticket = q[d].pos
    BY <1>4, <2>1 DEF IsExact
  <2>. QED  BY <2>2 DEF Tells
<1>6. ASSUME NEW type \in {"trade_opened", "trade_closed"}, NEW p, Tells(type, p)
      PROVE  \E d \in 1..L : TypeOfDeal(q[d]) = type /\ q[d].pos = p
  <2>1. PICK e \in Range(journal) : e.type = type /\ e.ticket = p
    BY <1>6 DEF Tells
  <2>2. IsEconomic(e)
    BY <2>1 DEF IsEconomic, Reduces
  <2>. QED  BY <1>4, <2>1, <2>2 DEF IsExact
<1>7. ASSUME NEW d \in 1..L
      PROVE  /\ TypeOfDeal(q[d]) = "trade_opened" <=> q[d].was = 0
             /\ TypeOfDeal(q[d]) = "trade_closed" <=> Left(q[d]) = 0
             /\ q[d].was = 0 => Left(q[d]) # 0
  <2>1. /\ q[d].entry \in {"IN", "OUT"}
        /\ q[d].vol \in Nat /\ q[d].vol > 0 /\ q[d].was \in Nat
        /\ q[d].entry = "OUT" => q[d].was > 0 /\ q[d].vol <= q[d].was
    BY <1>2, DealsAre
  <2>2. CASE q[d].entry = "IN"
    BY <2>1, <2>2 DEF TypeOfDeal, Left
  <2>3. CASE q[d].entry = "OUT"
    BY <2>1, <2>3 DEF TypeOfDeal, Left
  <2>. QED  BY <2>1, <2>2, <2>3
<1>8. ASSUME NEW p \in OpenInJournal PROVE p \in DOMAIN book
  <2>1. p \in Position /\ Tells("trade_opened", p) /\ ~Tells("trade_closed", p)
    BY DEF OpenInJournal
  <2>2. PICK d \in 1..L : TypeOfDeal(q[d]) = "trade_opened" /\ q[d].pos = p
    BY <1>6, <2>1
  <2>3. Vol(q, d, p) # 0
    <3>1. Vol(q, d, p) = Left(q[d])
      BY <1>2, <2>2, DealsAre
    <3>. QED  BY <1>7, <2>2, <3>1
  <2>4. \A n \in (d + 1)..L : q[n].pos = p => Left(q[n]) # 0
    <3>1. ASSUME NEW n \in (d + 1)..L, q[n].pos = p, Left(q[n]) = 0 PROVE FALSE
      <4>1. n \in 1..L
        BY <1>2
      <4>2. TypeOfDeal(q[n]) = "trade_closed"
        BY <1>7, <3>1, <4>1
      <4>. QED  BY <1>5, <2>1, <3>1, <4>1, <4>2
    <3>. QED  BY <3>1
  <2>5. d \in 0..Len(q) /\ Len(q) \in d..Len(q)
    BY <1>2
  <2>6. Vol(q, Len(q), p) # 0
    BY <1>2, <2>3, <2>4, <2>5, ClosesByAClose
  <2>. QED  BY <2>1, <2>6, OpenIsVolume
<1>9. ASSUME NEW p \in DOMAIN book PROVE p \in OpenInJournal
  <2>1. p \in Position /\ Vol(q, Len(q), p) # 0
    BY <1>2, OpenIsVolume
  <2>2. Tells("trade_opened", p)
    <3>1. Vol(q, 0, p) = 0
      BY VolStep
    <3>2. 0 \in 0..Len(q) /\ Len(q) \in 0..Len(q) /\ 0 + 1 = 1
      BY <1>2
    <3>3. ~(\A n \in (0 + 1)..Len(q) : q[n].pos = p => q[n].was # 0)
      BY <1>2, <2>1, <3>1, <3>2, OpensByAnOpening
    <3>4. PICK n \in 1..Len(q) : q[n].pos = p /\ q[n].was = 0
      BY <3>2, <3>3
    <3>. QED  BY <1>5, <1>7, <3>4
  <2>3. ~Tells("trade_closed", p)
    <3>1. SUFFICES ASSUME Tells("trade_closed", p) PROVE FALSE
      OBVIOUS
    <3>2. PICK d \in 1..L : TypeOfDeal(q[d]) = "trade_closed" /\ q[d].pos = p
      BY <1>6, <3>1
    <3>3. Left(q[d]) = 0
      BY <1>7, <3>2
    <3>4. Vol(q, Len(q), q[d].pos) = 0
      BY <1>2, <3>2, <3>3, ClosedStaysClosed
    <3>. QED  BY <2>1, <3>2, <3>4
  <2>. QED  BY <2>1, <2>2, <2>3 DEF OpenInJournal
<1>. QED  BY <1>8, <1>9

\* Where bundle and stream meet, an economic event is a deal of its own, in the
\* broker's order and of its type, and the journal knows the open positions
\* (_merge_event_stream_with_snapshot, LiveSync.poll_once).
THEOREM JournalExact == Spec => []JournalIsExact
<1>1. EInv => ExactWhenAligned /\ JournalKnowsPositions
  BY ExactIsExact, PositionsAreKnown
<1>. QED  BY <1>1, VariablesAreTyped, ExactInductive, PTL DEF JournalIsExact
=============================================================================
