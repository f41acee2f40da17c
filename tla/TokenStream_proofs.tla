------------------------- MODULE TokenStream_proofs -------------------------
(***************************************************************************)
(* Proofs about TokenStream, for any finite set of stop strings, with and  *)
(* without tools, and for answers and chunks of any length: types, that    *)
(* nothing of a stop string is sent, and that a client that streams gets   *)
(* the answer it would get without streaming.                              *)
(***************************************************************************)
EXTENDS TokenStream, FiniteSetTheorems, SequenceTheorems, WellFoundedInduction, TLAPS

Text == Seq(Symbols)

-----------------------------------------------------------------------------
(* Least and greatest numbers.                                              *)

\* A set of naturals that is not empty has a least member: the form of
\* induction the proofs below use.
LEMMA LeastNatural ==
    ASSUME NEW S \in SUBSET Nat, S # {}
    PROVE  \E n \in S : \A m \in S : n =< m
<1>1. \E n \in S : \A m \in S : ~(<<m, n>> \in OpToRel(<, Nat))
  BY NatLessThanWellFounded, WFMin
<1>2. PICK n \in S : \A m \in S : ~(<<m, n>> \in OpToRel(<, Nat))
  BY <1>1
<1>3. ASSUME NEW m \in S PROVE n =< m
  <2>1. m \in Nat /\ n \in Nat
    OBVIOUS
  <2>2. ~(m < n)
    BY <1>2, <2>1 DEF OpToRel
  <2> QED BY <2>1, <2>2
<1> QED BY <1>3

LEMMA MinIsLeast ==
    ASSUME NEW S \in SUBSET Nat, S # {}
    PROVE  Min(S) \in S /\ \A n \in S : Min(S) =< n
  BY LeastNatural DEF Min

\* A function on a finite set takes a greatest value.
LEMMA GreatestValue ==
    ASSUME NEW S, IsFiniteSet(S), S # {}, NEW f \in [S -> Nat]
    PROVE  \E x \in S : \A y \in S : f[x] >= f[y]
<1> DEFINE Above(x) == {y \in S : f[y] > f[x]}
           sizes == {n \in Nat : \E x \in S : n = Cardinality(Above(x))}
<1>1. \A x \in S : IsFiniteSet(Above(x)) /\ Cardinality(Above(x)) \in Nat
  <2> TAKE x \in S
  <2>1. Above(x) \in SUBSET S
    OBVIOUS
  <2> HIDE DEF Above
  <2> QED BY <2>1, FS_Subset, FS_CardinalityType
<1>2. sizes # {} /\ sizes \subseteq Nat
  <2> HIDE DEF Above
  <2> QED BY <1>1
<1>3. PICK n \in sizes : \A m \in sizes : n =< m
  <2> HIDE DEF sizes
  <2> QED BY <1>2, LeastNatural
<1>4. PICK x \in S : n = Cardinality(Above(x))
  OBVIOUS
<1>5. ASSUME NEW y \in S, ~(f[x] >= f[y]) PROVE FALSE
  <2>1. f[x] \in Nat /\ f[y] \in Nat /\ f[y] > f[x]
    BY <1>5
  <2>2. Above(y) \in SUBSET Above(x) /\ y \in Above(x) /\ y \notin Above(y)
    BY <2>1
  <2> HIDE DEF Above
  <2>3. /\ Cardinality(Above(y)) <= Cardinality(Above(x))
        /\ Cardinality(Above(y)) # Cardinality(Above(x))
    BY <1>1, <2>2, FS_Subset
  <2>4. n =< Cardinality(Above(y))
    BY <1>1, <1>3
  <2> QED BY <1>1, <1>4, <2>3, <2>4
<1> QED BY <1>5

\* The holdback is longer than any stop string but for one symbol.
LEMMA HoldbackCoversStops ==
    /\ Holdback \in Nat /\ Holdback >= 1
    /\ \A w \in Stops : Len(w) <= Holdback + 1
<1> DEFINE words == Stops \cup {ThinkEnd} \cup (IF Tools THEN {ToolOpen} ELSE {})
           lengths == {Len(w) : w \in words}
           f == [w \in words |-> Len(w)]
<1>1. IsFiniteSet(words)
  <2>1. IsFiniteSet(Stops \cup {ThinkEnd})
    BY StopsAssumption, FS_AddElement
  <2>2. IsFiniteSet((Stops \cup {ThinkEnd}) \cup {ToolOpen})
    BY <2>1, FS_AddElement
  <2>3. words = Stops \cup {ThinkEnd} \/ words = (Stops \cup {ThinkEnd}) \cup {ToolOpen}
    OBVIOUS
  <2> QED BY <2>1, <2>2, <2>3
<1>2. /\ ThinkEnd \in Text /\ Len(ThinkEnd) = 2
      /\ ToolOpen \in Text /\ Len(ToolOpen) = 2
  BY DEF ThinkEnd, ToolOpen, Text, Symbols
<1>3. words \subseteq Text /\ ThinkEnd \in words
  BY <1>2, StopsAssumption DEF Text
<1> HIDE DEF words
<1>4. \A w \in words : Len(w) \in Nat
  BY <1>3 DEF Text
<1>5. f \in [words -> Nat]
  BY <1>4
<1>6. PICK x \in words : \A y \in words : f[x] >= f[y]
  <2> HIDE DEF f
  <2> QED BY <1>1, <1>3, <1>5, GreatestValue
<1>7. Len(x) \in lengths /\ \A n \in lengths : Len(x) >= n
  BY <1>6
<1>8. Max(lengths) \in lengths /\ \A n \in lengths : Max(lengths) >= n
  <2> HIDE DEF lengths
  <2> QED BY <1>7 DEF Max
<1>9. Max(lengths) \in Nat /\ Max(lengths) >= 2
  BY <1>2, <1>3, <1>4, <1>8
<1>10. \A w \in Stops : Len(w) \in Nat /\ Len(w) <= Max(lengths)
  BY <1>4, <1>8 DEF words
<1>11. Holdback = Max(lengths) - 1
  BY DEF Holdback, words
<1> HIDE DEF lengths
<1> QED BY <1>9, <1>10, <1>11

-----------------------------------------------------------------------------
(* Text and positions.                                                      *)

LEMMA Markers ==
    /\ ThinkEnd \in Text /\ Len(ThinkEnd) = 2
    /\ ToolOpen \in Text /\ Len(ToolOpen) = 2
    /\ ToolClose \in Text /\ Len(ToolClose) = 1
  BY DEF ThinkEnd, ToolOpen, ToolClose, Text, Symbols

LEMMA BetweenIsText ==
    ASSUME NEW t \in Text, NEW p \in Nat, NEW q \in 0..Len(t)
    PROVE  /\ Between(t, p, q) \in Text
           /\ Len(Between(t, p, q)) = IF p < q THEN q - p ELSE 0
           /\ \A i \in 1..(q - p) : Between(t, p, q)[i] = t[p + i]
<1>1. CASE p < q
  <2>1. \A i \in (p + 1)..q : t[i] \in Symbols
    BY DEF Text
  <2>2. /\ SubSeq(t, p + 1, q) \in Seq(Symbols)
        /\ Len(SubSeq(t, p + 1, q)) = IF p + 1 <= q THEN q - (p + 1) + 1 ELSE 0
        /\ \A i \in 1..(q - (p + 1) + 1) : SubSeq(t, p + 1, q)[i] = t[(p + 1) + i - 1]
    BY <2>1, SubSeqProperties
  <2> QED BY <1>1, <2>2 DEF Between, Text
<1>2. CASE ~(p < q)
  BY <1>2, EmptySeq DEF Between, Text
<1> QED BY <1>1, <1>2

LEMMA BeforeIsText ==
    ASSUME NEW t \in Text, NEW q \in 0..Len(t)
    PROVE  /\ Before(t, q) \in Text /\ Len(Before(t, q)) = q
           /\ \A i \in 1..q : Before(t, q)[i] = t[i]
<1>1. \A i \in 1..q : t[i] \in Symbols
  BY DEF Text
<1>2. /\ SubSeq(t, 1, q) \in Seq(Symbols)
      /\ Len(SubSeq(t, 1, q)) = IF 1 <= q THEN q - 1 + 1 ELSE 0
      /\ \A i \in 1..(q - 1 + 1) : SubSeq(t, 1, q)[i] = t[1 + i - 1]
  BY <1>1, SubSeqProperties
<1> QED BY <1>2 DEF Before, Text

\* A word occurs where the text has its symbols.
LEMMA OccursAt ==
    ASSUME NEW t \in Text, NEW words \in SUBSET (Text \ {<<>>}), NEW p \in 0..Len(t), NEW q
    PROVE  q \in Occurrences(t, words, p)
             <=> /\ q \in p..Len(t)
                 /\ \E w \in words : /\ q + Len(w) <= Len(t)
                                     /\ \A i \in 1..Len(w) : t[q + i] = w[i]
<1>1. SUFFICES ASSUME q \in p..Len(t), NEW w \in words, q + Len(w) <= Len(t)
               PROVE  Between(t, q, q + Len(w)) = w
                        <=> \A i \in 1..Len(w) : t[q + i] = w[i]
  BY DEF Occurrences
<1>2. Len(w) \in Nat \ {0} /\ w \in Text /\ q \in Nat /\ Len(t) \in Nat
  <2>1. w \in Seq(Symbols) /\ w # <<>> /\ t \in Seq(Symbols)
    BY DEF Text
  <2>2. Len(w) \in Nat \ {0} /\ Len(t) \in Nat
    BY <2>1, EmptySeq
  <2> QED BY <1>1, <2>1, <2>2 DEF Text
<1>3. /\ Between(t, q, q + Len(w)) \in Text
      /\ Len(Between(t, q, q + Len(w))) = Len(w)
      /\ \A i \in 1..Len(w) : Between(t, q, q + Len(w))[i] = t[q + i]
  <2>1. q + Len(w) \in 0..Len(t) /\ (q + Len(w)) - q = Len(w) /\ q < q + Len(w)
    BY <1>1, <1>2
  <2> QED BY <1>2, <2>1, BetweenIsText
<1>4. ASSUME \A i \in 1..Len(w) : t[q + i] = w[i] PROVE Between(t, q, q + Len(w)) = w
  BY <1>2, <1>3, <1>4, SeqEqual DEF Text
<1> QED BY <1>3, <1>4

LEMMA OccursIn ==
    ASSUME NEW t \in Text, NEW words \in SUBSET (Text \ {<<>>}), NEW p \in 0..Len(t),
           NEW q \in Occurrences(t, words, p)
    PROVE  /\ q \in p..Len(t)
           /\ \E w \in words : q + Len(w) <= Len(t) /\ \A i \in 1..Len(w) : t[q + i] = w[i]
<1>1. q \in p..Len(t) /\ Len(t) \in Nat
  BY DEF Occurrences, Text
<1>2. PICK w \in words : q + Len(w) <= Len(t) /\ Between(t, q, q + Len(w)) = w
  BY DEF Occurrences
<1>3. Len(w) \in Nat /\ q \in Nat
  BY <1>1 DEF Text
<1>4. q + Len(w) \in 0..Len(t) /\ (q + Len(w)) - q = Len(w)
  BY <1>1, <1>2, <1>3
<1>5. \A i \in 1..Len(w) : w[i] = t[q + i]
  <2> DEFINE r == q + Len(w)
  <2>1. r \in 0..Len(t) /\ r - q = Len(w)
    BY <1>4
  <2>2. Between(t, q, r) = w
    BY <1>2
  <2> HIDE DEF r
  <2>3. \A i \in 1..(r - q) : Between(t, q, r)[i] = t[q + i]
    BY <1>3, <2>1, BetweenIsText
  <2> QED BY <2>1, <2>2, <2>3
<1> QED BY <1>1, <1>2, <1>5

LEMMA FirstOfIsFirst ==
    ASSUME NEW t \in Text, NEW words, NEW p \in 0..Len(t)
    PROVE  /\ FirstOf(t, words, p) \in p..Len(t)
           /\ FirstOf(t, words, p) \in Occurrences(t, words, p) \cup {Len(t)}
           /\ \A q \in Occurrences(t, words, p) : FirstOf(t, words, p) <= q
<1> DEFINE found == Occurrences(t, words, p)
<1>1. found \subseteq p..Len(t) /\ Len(t) \in Nat
  BY DEF Occurrences, Text
<1>2. found \cup {Len(t)} \in SUBSET Nat
  BY <1>1
<1> HIDE DEF found
<1>3. /\ Min(found \cup {Len(t)}) \in found \cup {Len(t)}
      /\ \A n \in found \cup {Len(t)} : Min(found \cup {Len(t)}) =< n
  BY <1>2, MinIsLeast
<1>4. Min(found \cup {Len(t)}) \in p..Len(t)
  <2>1. p \in Int /\ Len(t) \in Nat /\ p <= Len(t)
    BY <1>1
  <2>2. Len(t) \in p..Len(t)
    BY <2>1
  <2> QED BY <1>1, <1>3, <2>2
<1> QED BY <1>3, <1>4 DEF FirstOf, found

\* The symbol before the end of a call.
LEMMA CloseIsOneSymbol ==
    ASSUME NEW t \in Text, NEW p \in 0..Len(t), FirstOf(t, {ToolClose}, p) # Len(t)
    PROVE  /\ FirstOf(t, {ToolClose}, p) + 1 \in 1..Len(t)
           /\ t[FirstOf(t, {ToolClose}, p) + 1] = "</tool_call>"
<1> DEFINE c == FirstOf(t, {ToolClose}, p)
<1>1. c \in Occurrences(t, {ToolClose}, p)
  BY FirstOfIsFirst
<1>2. ToolClose # <<>> /\ ToolClose[1] = "</tool_call>" /\ Len(ToolClose) = 1
  BY DEF ToolClose
<1> HIDE DEF c
<1>3. /\ c \in p..Len(t)
      /\ \E w \in {ToolClose} : c + Len(w) <= Len(t) /\ \A i \in 1..Len(w) : t[c + i] = w[i]
  BY <1>1, <1>2, Markers, OccursAt
<1>4. c \in p..Len(t) /\ c + 1 <= Len(t) /\ t[c + 1] = "</tool_call>"
  BY <1>2, <1>3
<1> QED BY <1>4 DEF c, Text

-----------------------------------------------------------------------------
(* What is sent.                                                            *)

LEMMA NothingIsTyped == Nothing \in Channels
  BY EmptySeq DEF Nothing, Delta, Channels

LEMMA JoinIsTyped ==
    ASSUME NEW a \in Channels, NEW b \in Channels
    PROVE  /\ Join(a, b) \in Channels
           /\ Join(a, b).reasoning = a.reasoning \o b.reasoning
           /\ Join(a, b).content = a.content \o b.content
           /\ Join(a, b).calls = a.calls \o b.calls
<1>1. /\ a.reasoning \o b.reasoning \in Seq(Symbols)
      /\ a.content \o b.content \in Seq(Symbols)
      /\ a.calls \o b.calls \in Seq(Seq(Symbols))
  <2>1. /\ a.reasoning \in Seq(Symbols) /\ b.reasoning \in Seq(Symbols)
        /\ a.content \in Seq(Symbols) /\ b.content \in Seq(Symbols)
        /\ a.calls \in Seq(Seq(Symbols)) /\ b.calls \in Seq(Seq(Symbols))
    BY DEF Channels
  <2> QED BY <2>1, ConcatProperties
<1> QED BY <1>1 DEF Channels, Join, Delta

LEMMA SplitIsTyped ==
    ASSUME NEW t \in Text, NEW p \in 0..Len(t), NEW q \in 0..Len(t)
    PROVE  Split(t, p, q) \in Channels
<1> DEFINE end == FirstOf(t, {ThinkEnd}, 0)
<1>1. end \in 0..Len(t) /\ Len(t) \in Nat
  BY FirstOfIsFirst DEF Text
<1> HIDE DEF end
<1>2. Between(t, p, IF q < end THEN q ELSE end) \in Text
  <2>1. (IF q < end THEN q ELSE end) \in 0..Len(t)
    BY <1>1
  <2> QED BY <2>1, BetweenIsText
<1>3. Between(t, Larger(p, end + Len(ThinkEnd)), q) \in Text
  <2>1. Larger(p, end + Len(ThinkEnd)) \in Nat
    BY <1>1, Markers DEF Larger
  <2> QED BY <2>1, BetweenIsText
<1>4. Split(t, p, q) = [reasoning |-> Between(t, p, IF q < end THEN q ELSE end),
                        content |-> Between(t, Larger(p, end + Len(ThinkEnd)), q), calls |-> <<>>]
  BY DEF Split, Delta, end
<1> QED BY <1>2, <1>3, <1>4, EmptySeq DEF Channels, Text

LEMMA BlockIsTyped ==
    ASSUME NEW block \in Text PROVE Block(block) \in Channels
<1>1. <<>> \in Seq(Symbols) /\ <<>> \in Seq(Seq(Symbols)) /\ <<block>> \in Seq(Seq(Symbols))
  BY EmptySeq DEF Text
<1>2. Block(block) = IF Parses(block)
                     THEN [reasoning |-> <<>>, content |-> <<>>, calls |-> <<block>>]
                     ELSE [reasoning |-> <<>>, content |-> block, calls |-> <<>>]
  BY DEF Block, Delta
<1> QED BY <1>1, <1>2 DEF Channels, Text

-----------------------------------------------------------------------------
(* The loop of _drain.                                                      *)

\* Where a turn finds the next call, and how far it may send.
Open(t, p) == IF Tools THEN FirstOf(t, {ToolOpen}, p) ELSE Len(t)
Stay(t, limit, p) == Larger(p, IF Open(t, p) < limit THEN Open(t, p) ELSE limit)
Close(t, p) == FirstOf(t, {ToolClose}, Open(t, p))

LEMMA TurnPositions ==
    ASSUME NEW t \in Text, NEW limit \in 0..Len(t), NEW p \in 0..Len(t)
    PROVE  /\ Open(t, p) \in p..Len(t) /\ Stay(t, limit, p) \in p..Len(t)
           /\ Close(t, p) \in Open(t, p)..Len(t)
           /\ Open(t, p) \in 0..Len(t) /\ Stay(t, limit, p) \in 0..Len(t)
           /\ Stay(t, limit, p) <= Larger(p, limit)
<1>1. Len(t) \in Nat /\ p \in Nat /\ limit \in Nat
  BY DEF Text
<1>2. Open(t, p) \in p..Len(t) /\ Open(t, p) \in 0..Len(t)
  BY <1>1, FirstOfIsFirst DEF Open
<1>3. Close(t, p) \in Open(t, p)..Len(t)
  BY <1>2, FirstOfIsFirst DEF Close
<1> QED BY <1>1, <1>2, <1>3 DEF Stay, Larger

\* A turn, case by case.
LEMMA TurnCases ==
    ASSUME NEW t, NEW limit, NEW final, NEW p, NEW rest
    PROVE  Turn(t, limit, final, p, rest) =
             IF p = Len(t) THEN [out |-> Nothing, at |-> p]
             ELSE IF Stay(t, limit, p) # Open(t, p) \/ Open(t, p) = Len(t)
               THEN [out |-> Split(t, p, Stay(t, limit, p)), at |-> Stay(t, limit, p)]
             ELSE IF Close(t, p) < Len(t)
               THEN [out |-> Join(Split(t, p, Open(t, p)),
                                  Join(Block(Between(t, Open(t, p), Close(t, p) + Len(ToolClose))),
                                       rest[Close(t, p) + Len(ToolClose)].out)),
                     at |-> rest[Close(t, p) + Len(ToolClose)].at]
             ELSE IF final
               THEN [out |-> Join(Split(t, p, Open(t, p)), Split(t, Open(t, p), Len(t))), at |-> Len(t)]
             ELSE [out |-> Split(t, p, Open(t, p)), at |-> Open(t, p)]
  BY Zenon DEF Turn, Open, Stay, Close

\* A turn asks only for what later turns do.
LEMMA TurnIsLocal ==
    ASSUME NEW t \in Text, NEW limit \in 0..Len(t), NEW final, NEW p \in 0..Len(t), NEW f, NEW g,
           \A e \in (p + 1)..Len(t) : f[e] = g[e]
    PROVE  Turn(t, limit, final, p, f) = Turn(t, limit, final, p, g)
<1>1. Close(t, p) < Len(t) => Close(t, p) + Len(ToolClose) \in (p + 1)..Len(t)
  <2>1. p \in Nat /\ Len(t) \in Nat
    BY DEF Text
  <2>2. Open(t, p) \in p..Len(t) /\ Close(t, p) \in Open(t, p)..Len(t)
    BY TurnPositions
  <2>3. Close(t, p) \in Nat /\ p <= Close(t, p)
    BY <2>1, <2>2
  <2> QED BY <2>1, <2>3, Markers
<1>2. Close(t, p) < Len(t) => f[Close(t, p) + Len(ToolClose)] = g[Close(t, p) + Len(ToolClose)]
  BY <1>1
<1> QED BY <1>2, TurnCases, Zenon

\* The loop is what its definition says: turn by turn from the end of the text.
LEMMA SentUnfolds ==
    ASSUME NEW t \in Text, NEW limit \in 0..Len(t), NEW final
    PROVE  /\ Sent(t, limit, final) = [p \in 0..Len(t) |-> Turn(t, limit, final, p, Sent(t, limit, final))]
           /\ \A p \in 0..Len(t) :
                Sent(t, limit, final)[p] = Turn(t, limit, final, p, Sent(t, limit, final))
<1> DEFINE N == Len(t)
           T(p, f) == Turn(t, limit, final, p, f)
           Solves(k, f) == f = [p \in k..N |-> T(p, f)]
           missing == {n \in 0..N : ~ \E f : Solves(N - n, f)}
<1>1. N \in Nat
  BY DEF Text
<1>2. \A p \in 0..N : \A f, g : (\A e \in (p + 1)..N : f[e] = g[e]) => T(p, f) = T(p, g)
  BY TurnIsLocal
<1>3. Sent(t, limit, final) = CHOOSE f : f = [p \in 0..N |-> T(p, f)]
  BY DEF Sent
<1> HIDE DEF N, T
<1>4. missing = {}
  <2> SUFFICES ASSUME missing # {} PROVE FALSE
    OBVIOUS
  <2>1. missing \in SUBSET Nat
    BY <1>1
  <2>2. PICK n \in missing : \A m \in missing : n =< m
    <3> HIDE DEF missing
    <3> QED BY <2>1, LeastNatural
  <2>3. n \in 0..N /\ ~ \E f : Solves(N - n, f)
    OBVIOUS
  <2>4. CASE n = 0
    <3> DEFINE f == [p \in N..N |-> T(p, <<>>)]
    <3>1. \A p \in N..N : f[p] = T(p, f)
      <4>1. N \in 0..N /\ (N + 1)..N = {} /\ N..N = {N}
        BY <1>1
      <4>2. T(N, <<>>) = T(N, f)
        <5> HIDE DEF f
        <5> QED BY <1>2, <4>1
      <4> QED BY <4>1, <4>2
    <3>2. f = [p \in N..N |-> T(p, f)]
      BY <3>1
    <3>3. Solves(N - n, f)
      BY <1>1, <2>4, <3>2
    <3> QED BY <2>3, <3>3
  <2>5. CASE n > 0
    <3> DEFINE k == N - n
    <3>1. n - 1 \in 0..N /\ n - 1 \notin missing
      BY <1>1, <2>1, <2>2, <2>3, <2>5
    <3>2. PICK g : Solves(N - (n - 1), g)
      BY <3>1
    <3>3. k \in 0..N /\ k \in Int /\ N - (n - 1) = k + 1
      BY <1>1, <2>3, <2>5
    <3>4. g = [p \in (k + 1)..N |-> T(p, g)]
      BY <3>2, <3>3
    <3> DEFINE f == [p \in k..N |-> IF p = k THEN T(k, g) ELSE g[p]]
    <3>5. \A e \in (k + 1)..N : f[e] = g[e]
      BY <1>1, <3>3
    <3>6. ASSUME NEW p \in k..N PROVE f[p] = T(p, f)
      <4>1. p \in 0..N /\ \A e \in (p + 1)..N : e \in (k + 1)..N
        BY <1>1, <3>3
      <4>2. T(p, f) = T(p, g)
        <5> HIDE DEF f, k
        <5> QED BY <1>2, <3>5, <4>1
      <4>3. CASE p = k
        BY <4>2, <4>3
      <4>4. CASE p # k
        <5>1. p \in (k + 1)..N
          BY <1>1, <3>3, <4>4
        <5>2. g[p] = T(p, g)
          <6> HIDE DEF k
          <6> QED BY <3>4, <5>1
        <5> QED BY <3>5, <4>2, <5>1, <5>2
      <4> QED BY <4>3, <4>4
    <3>7. f = [p \in k..N |-> T(p, f)]
      BY <3>6
    <3>8. Solves(N - n, f)
      BY <3>7
    <3> QED BY <2>3, <3>8
  <2> QED BY <1>1, <2>3, <2>4, <2>5
<1>5. \E f : f = [p \in 0..N |-> T(p, f)]
  <2>1. N \in 0..N /\ N - N = 0
    BY <1>1
  <2>2. \E f : Solves(N - N, f)
    BY <1>4, <2>1
  <2> QED BY <2>1, <2>2
<1>6. Sent(t, limit, final) = [p \in 0..N |-> T(p, Sent(t, limit, final))]
  BY <1>3, <1>5
<1>7. \A p \in 0..N : Sent(t, limit, final)[p] = T(p, Sent(t, limit, final))
  <2> HIDE DEF missing, Solves
  <2> DEFINE s == Sent(t, limit, final)
  <2>1. s = [p \in 0..N |-> T(p, s)]
    BY <1>6
  <2> HIDE DEF s
  <2>2. \A p \in 0..N : s[p] = T(p, s)
    BY <2>1
  <2> QED BY <2>2 DEF s
<1> QED BY <1>6, <1>7 DEF N, T

\* Where the loop stops: not past the limit, but at the end of a call, unless
\* it is the last.
Paused(t, limit, at) == at <= limit \/ (Tools /\ at \in 1..Len(t) /\ t[at] = "</tool_call>")

LEMMA SentIsTyped ==
    ASSUME NEW t \in Text, NEW limit \in 0..Len(t), NEW final \in BOOLEAN, NEW p \in 0..Len(t)
    PROVE  /\ Sent(t, limit, final)[p].out \in Channels
           /\ Sent(t, limit, final)[p].at \in p..Len(t)
           /\ ~final => \/ Paused(t, limit, Sent(t, limit, final)[p].at)
                        \/ Sent(t, limit, final)[p].at = p
<1> DEFINE N == Len(t)
           s == Sent(t, limit, final)
           Good(q) == /\ s[q].out \in Channels /\ s[q].at \in q..N
                      /\ ~final => Paused(t, limit, s[q].at) \/ s[q].at = q
           bad == {n \in 0..N : ~Good(N - n)}
<1>1. N \in Nat /\ limit \in Nat
  BY DEF Text
<1>2. \A q \in 0..N : s[q] = Turn(t, limit, final, q, s)
  BY SentUnfolds
<1> HIDE DEF s
<1>3. ASSUME NEW q \in 0..N, \A e \in (q + 1)..N : Good(e) PROVE Good(q)
  <2> DEFINE open == Open(t, q)
             stay == Stay(t, limit, q)
             close == Close(t, q)
             end == close + 1
  <2>1. /\ open \in 0..N /\ q <= open /\ stay \in 0..N /\ q <= stay /\ stay <= Larger(q, limit)
        /\ close \in 0..N /\ open <= close
    <3>1. /\ open \in q..N /\ stay \in q..N /\ stay <= Larger(q, limit) /\ close \in open..N
      BY TurnPositions
    <3> HIDE DEF open, stay, close
    <3> QED BY <1>1, <3>1
  <2>2. s[q] = IF q = N THEN [out |-> Nothing, at |-> q]
               ELSE IF stay # open \/ open = N THEN [out |-> Split(t, q, stay), at |-> stay]
               ELSE IF close < N
                 THEN [out |-> Join(Split(t, q, open), Join(Block(Between(t, open, end)), s[end].out)),
                       at |-> s[end].at]
               ELSE IF final THEN [out |-> Join(Split(t, q, open), Split(t, open, N)), at |-> N]
               ELSE [out |-> Split(t, q, open), at |-> open]
    BY <1>2, TurnCases, Markers
  <2>3. close < N => end \in 1..N /\ t[end] = "</tool_call>"
    <3>1. close = FirstOf(t, {ToolClose}, open)
      BY DEF Close
    <3>2. open \in 0..Len(t) /\ (close < N => FirstOf(t, {ToolClose}, open) # Len(t))
      BY <1>1, <2>1, <3>1
    <3> HIDE DEF open, close
    <3>3. close < N => /\ FirstOf(t, {ToolClose}, open) + 1 \in 1..Len(t)
                       /\ t[FirstOf(t, {ToolClose}, open) + 1] = "</tool_call>"
      BY <3>2, CloseIsOneSymbol
    <3> QED BY <3>1, <3>3
  <2>4. \A m \in 0..N : m <= Larger(q, limit) => Paused(t, limit, m) \/ m <= q
    BY <1>1 DEF Paused, Larger
  <2> HIDE DEF open, stay, close, N
  <2>5. CASE q = N
    <3>1. s[q].out = Nothing /\ s[q].at = q
      BY <2>2, <2>5
    <3> QED BY <1>1, <3>1, NothingIsTyped
  <2>6. CASE q # N /\ (stay # open \/ open = N)
    <3>1. s[q].out = Split(t, q, stay) /\ s[q].at = stay
      BY <2>2, <2>6
    <3>2. s[q].out \in Channels
      BY <2>1, <3>1, SplitIsTyped DEF N
    <3> QED BY <1>1, <2>1, <2>4, <3>1, <3>2
  <2>7. CASE q # N /\ ~(stay # open \/ open = N) /\ close < N
    <3>1. /\ s[q].out = Join(Split(t, q, open), Join(Block(Between(t, open, end)), s[end].out))
          /\ s[q].at = s[end].at
      BY <2>2, <2>7
    <3>2. end \in (q + 1)..N /\ end \in 0..N /\ Good(end)
      BY <1>1, <1>3, <2>1, <2>3, <2>7
    <3>3. Split(t, q, open) \in Channels /\ Block(Between(t, open, end)) \in Channels
      BY <2>1, <3>2, SplitIsTyped, BlockIsTyped, BetweenIsText DEF N
    <3>4. s[q].out \in Channels
      <4>1. Join(Block(Between(t, open, end)), s[end].out) \in Channels
        BY <3>2, <3>3, JoinIsTyped
      <4>2. Join(Split(t, q, open), Join(Block(Between(t, open, end)), s[end].out)) \in Channels
        BY <3>3, <4>1, JoinIsTyped
      <4> QED BY <3>1, <4>2
    <3>5. s[end].at \in end..N
      BY <3>2
    <3>6. ~final => Paused(t, limit, s[q].at)
      <4>1. s[end].at = end => Paused(t, limit, s[end].at)
        <5>1. Tools
          BY <2>7 DEF open, Open, N
        <5> QED BY <2>3, <2>7, <5>1 DEF Paused, N
      <4> QED BY <3>1, <3>2, <4>1
    <3>7. s[q].at \in q..N
      BY <1>1, <3>1, <3>2, <3>5
    <3> QED BY <3>4, <3>6, <3>7
  <2>8. CASE q # N /\ ~(stay # open \/ open = N) /\ ~(close < N) /\ final
    <3>1. s[q].out = Join(Split(t, q, open), Split(t, open, N)) /\ s[q].at = N
      BY <2>2, <2>8
    <3>2. Split(t, q, open) \in Channels /\ Split(t, open, N) \in Channels
      BY <1>1, <2>1, SplitIsTyped DEF N
    <3>3. Join(Split(t, q, open), Split(t, open, N)) \in Channels
      BY <3>2, JoinIsTyped
    <3> QED BY <1>1, <2>8, <3>1, <3>3
  <2>9. CASE q # N /\ ~(stay # open \/ open = N) /\ ~(close < N) /\ ~final
    <3>1. s[q].out = Split(t, q, open) /\ s[q].at = open
      BY <2>2, <2>9
    <3>2. Split(t, q, open) \in Channels
      BY <2>1, SplitIsTyped DEF N
    <3> QED BY <1>1, <2>1, <2>4, <2>9, <3>1, <3>2
  <2> QED BY <2>5, <2>6, <2>7, <2>8, <2>9
<1>4. bad = {}
  <2> SUFFICES ASSUME bad # {} PROVE FALSE
    OBVIOUS
  <2> HIDE DEF Good
  <2>1. bad \in SUBSET Nat
    BY <1>1
  <2>2. PICK n \in bad : \A m \in bad : n =< m
    <3> HIDE DEF bad
    <3> QED BY <2>1, LeastNatural
  <2>3. n \in 0..N /\ ~Good(N - n) /\ N - n \in 0..N
    BY <1>1
  <2>4. ASSUME NEW e \in ((N - n) + 1)..N PROVE Good(e)
    <3>1. N - e \in 0..N /\ N - e < n /\ N - (N - e) = e
      BY <1>1, <2>3
    <3>2. N - e \notin bad
      BY <1>1, <2>2, <2>3, <3>1
    <3> QED BY <3>1, <3>2
  <2> QED BY <1>3, <2>3, <2>4
<1>5. Good(p)
  <2>1. N - p \in 0..N /\ N - (N - p) = p
    BY <1>1
  <2> QED BY <1>4, <2>1
<1> QED BY <1>5 DEF s

-----------------------------------------------------------------------------
(* Stop strings.                                                            *)

LEMMA StopsAreWords == Stops \in SUBSET (Text \ {<<>>})
  BY StopsAssumption DEF Text

LEMMA CutIsText ==
    ASSUME NEW t \in Text
    PROVE  /\ FirstOf(t, Stops, 0) \in 0..Len(t)
           /\ Cut(t) \in Text /\ Len(Cut(t)) = FirstOf(t, Stops, 0)
           /\ \A i \in 1..Len(Cut(t)) : Cut(t)[i] = t[i]
           /\ ~HasStop(t) => FirstOf(t, Stops, 0) = Len(t)
<1>1. 0 \in 0..Len(t)
  BY DEF Text
<1>2. /\ FirstOf(t, Stops, 0) \in 0..Len(t)
      /\ FirstOf(t, Stops, 0) \in Occurrences(t, Stops, 0) \cup {Len(t)}
  BY <1>1, FirstOfIsFirst
<1> QED BY <1>2, BeforeIsText DEF Cut, HasStop

\* What has been sent ends before what is held back, or with a call.
Waits(t, p) == Paused(t, Larger(Len(t), Holdback) - Holdback, p)

LEMMA DrainIsTyped ==
    ASSUME NEW t \in Text, NEW p \in 0..Len(t), NEW final \in BOOLEAN
    PROVE  /\ Drain(t, p, final).out \in Channels
           /\ Drain(t, p, final).at \in p..Len(t)
           /\ p <= FirstOf(t, Stops, 0) => Drain(t, p, final).at <= FirstOf(t, Stops, 0)
           /\ ~final /\ ~HasStop(t) /\ Waits(t, p) => Waits(t, Drain(t, p, final).at)
<1> DEFINE u == Cut(t)
           limit == IF final \/ HasStop(t) THEN Len(u) ELSE Larger(Len(u), Holdback) - Holdback
           d == Drain(t, p, final)
<1>1. /\ u \in Text /\ Len(u) \in 0..Len(t) /\ Len(u) = FirstOf(t, Stops, 0)
      /\ \A i \in 1..Len(u) : u[i] = t[i]
      /\ ~HasStop(t) => Len(u) = Len(t)
      /\ Len(t) \in Nat /\ p \in Nat /\ Len(u) \in Nat
  BY CutIsText DEF Text
<1>2. limit \in 0..Len(u)
  BY <1>1, HoldbackCoversStops DEF Larger
<1>3. d = IF p < Len(u) THEN Sent(u, limit, final)[p] ELSE [out |-> Nothing, at |-> p]
  BY DEF Drain
<1>4. ~final /\ ~HasStop(t) => limit = Larger(Len(t), Holdback) - Holdback
  BY <1>1
<1> HIDE DEF d, u, limit
<1>5. CASE p < Len(u)
  <2>1. p \in 0..Len(u)
    BY <1>1, <1>5
  <2>2. /\ d.out \in Channels /\ d.at \in p..Len(u)
        /\ ~final => Paused(u, limit, d.at) \/ d.at = p
    BY <1>1, <1>2, <1>3, <1>5, <2>1, SentIsTyped
  <2>3. Paused(u, limit, d.at) => Paused(t, limit, d.at)
    BY <1>1, <2>2 DEF Paused
  <2>4. d.at \in p..Len(t) /\ d.at <= Len(u)
    BY <1>1, <2>2
  <2> QED BY <1>1, <1>4, <2>2, <2>3, <2>4 DEF Waits, d
<1>6. CASE ~(p < Len(u))
  <2>1. d.out = Nothing /\ d.at = p
    BY <1>3, <1>6
  <2> QED BY <1>1, <2>1, NothingIsTyped DEF d
<1> QED BY <1>5, <1>6

\* No stop string goes on after the end of a tool call.  One that did could
\* begin in a call that has been sent as a whole.
StopsEndWithACall ==
    Tools => \A w \in Stops : \A i \in 1..(Len(w) - 1) : w[i] # "</tool_call>"

\* A stop string that arrives begins where nothing has been sent.
LEMMA StopIsAhead ==
    ASSUME StopsEndWithACall, NEW t \in Text, NEW ids \in Text, NEW p \in 0..Len(t),
           ~HasStop(t), Waits(t, p)
    PROVE  p <= FirstOf(t \o ids, Stops, 0)
<1> DEFINE new == t \o ids
           first == FirstOf(new, Stops, 0)
<1>1. /\ new \in Text /\ Len(t) \in Nat /\ Len(ids) \in Nat /\ Len(new) = Len(t) + Len(ids)
      /\ \A i \in 1..Len(t) : new[i] = t[i]
      /\ p \in Nat /\ p <= Len(t)
  BY ConcatProperties DEF Text
<1> HIDE DEF new
<1>2. first \in 0..Len(new) /\ first \in Occurrences(new, Stops, 0) \cup {Len(new)} /\ first \in Nat
  BY <1>1, FirstOfIsFirst DEF Text
<1> HIDE DEF first
<1>3. CASE first = Len(new)
  BY <1>1, <1>3 DEF first, new
<1>4. CASE first \in Occurrences(new, Stops, 0)
  <2>1. 0 \in 0..Len(new) /\ 0 \in 0..Len(t)
    BY <1>1
  <2>2. PICK w \in Stops : first + Len(w) <= Len(new) /\ \A i \in 1..Len(w) : new[first + i] = w[i]
    <3>1. new \in Text /\ 0 \in 0..Len(new) /\ Stops \in SUBSET (Text \ {<<>>})
      BY <1>1, <2>1, StopsAreWords
    <3> QED BY <1>4, <3>1, OccursIn, SMTT(30)
  <2>3. Len(w) \in Nat /\ Len(w) <= Holdback + 1 /\ Holdback \in Nat
    BY StopsAreWords, HoldbackCoversStops DEF Text
  <2>4. first + Len(w) > Len(t)
    <3> SUFFICES ASSUME first + Len(w) <= Len(t) PROVE FALSE
      BY <1>1, <1>2, <2>3
    <3>1. \A i \in 1..Len(w) : t[first + i] = w[i]
      <4> TAKE i \in 1..Len(w)
      <4>1. first + i \in 1..Len(t)
        BY <1>1, <1>2, <2>3
      <4> QED BY <1>1, <2>2, <4>1
    <3>2. first \in 0..Len(t)
      BY <1>1, <1>2, <2>3
    <3>3. first \in Occurrences(t, Stops, 0)
      BY <2>1, <3>1, <3>2, StopsAreWords, OccursAt
    <3> QED BY <3>3 DEF HasStop
  <2>5. CASE p <= Larger(Len(t), Holdback) - Holdback
    BY <1>1, <1>2, <2>3, <2>4, <2>5 DEF Larger, first, new
  <2>6. CASE Tools /\ p \in 1..Len(t) /\ t[p] = "</tool_call>"
    <3> SUFFICES ASSUME first < p PROVE FALSE
      BY <1>1, <1>2 DEF first, new
    <3>1. p - first \in 1..(Len(w) - 1) /\ p - first \in 1..Len(w) /\ first + (p - first) = p
      BY <1>1, <1>2, <2>3, <2>4
    <3>2. w[p - first] = new[p] /\ new[p] = t[p]
      BY <1>1, <2>2, <2>6, <3>1
    <3> QED BY <2>6, <3>1, <3>2 DEF StopsEndWithACall
  <2> QED BY <2>5, <2>6 DEF Waits, Paused
<1> QED BY <1>2, <1>3, <1>4

LEMMA StillWaits ==
    ASSUME NEW t \in Text, NEW ids \in Text, NEW p \in 0..Len(t), Waits(t, p)
    PROVE  Waits(t \o ids, p)
<1> DEFINE new == t \o ids
<1>1. /\ Len(t) \in Nat /\ Len(new) \in Nat /\ Len(t) <= Len(new) /\ p \in Nat
      /\ \A i \in 1..Len(t) : new[i] = t[i]
  BY ConcatProperties DEF Text
<1> HIDE DEF new
<1>2. Waits(new, p)
  BY <1>1, HoldbackCoversStops DEF Waits, Paused, Larger
<1> QED BY <1>2 DEF new

-----------------------------------------------------------------------------
(* Type correctness.                                                        *)

LEMMA ChunksAreText == Chunks \subseteq Text
<1> SUFFICES ASSUME NEW ids \in Chunks PROVE ids \in Text
  OBVIOUS
<1>1. PICK n \in {m \in 0..MaxChunk : Len(text) + m <= Length} : ids \in [1..n -> Symbols]
  BY DEF Chunks
<1>2. n \in Nat
  BY LengthAssumption
<1> QED BY <1>1, <1>2, SeqDef DEF Text

LEMMA PositionsAdvance ==
    ASSUME NEW t \in Text, NEW p \in 0..Len(t), NEW q \in p..Len(t) PROVE q \in 0..Len(t)
<1>1. Len(t) \in Nat
  BY DEF Text
<1> QED BY <1>1

LEMMA LongerText ==
    ASSUME NEW t \in Text, NEW ids \in Text
    PROVE  t \o ids \in Text /\ Len(t \o ids) \in Nat /\ Len(t) <= Len(t \o ids)
  BY ConcatProperties DEF Text

\* What a chunk does to the stream.
LEMMA ChunkDoes ==
    ASSUME TypeOK, Chunk
    PROVE  \E ids \in Text :
             LET d == Drain(text \o ids, emitted, FALSE)
             IN /\ text' = text \o ids /\ text' \in Text /\ emitted \in 0..Len(text')
                /\ emitted' = d.at /\ out' = Join(out, d.out)
                /\ phase' = IF HasStop(text') THEN "over" ELSE "streaming"
                /\ UNCHANGED upstream \/ upstream' = "aborted"
                /\ UNCHANGED finish \/ finish' \in {"stop", "tool_calls"}
                /\ HasStop(text') => /\ upstream' = "aborted"
                                     /\ finish' = FinishReason("stop", out'.calls)
                /\ ~HasStop(text') => UNCHANGED <<upstream, finish>>
<1>1. PICK ids \in Chunks :
        LET d == Drain(text \o ids, emitted, FALSE)
        IN /\ text' = text \o ids
           /\ emitted' = d.at /\ out' = Join(out, d.out)
           /\ IF HasStop(text \o ids)
                THEN /\ phase' = "over" /\ upstream' = "aborted"
                     /\ finish' = FinishReason("stop", out'.calls)
                ELSE UNCHANGED <<phase, upstream, finish>>
  BY DEF Chunk
<1>2. ids \in Text /\ text \in Text /\ emitted \in 0..Len(text) /\ phase = "streaming"
  BY ChunksAreText DEF TypeOK, Text, Chunk
<1>3. text \o ids \in Text /\ emitted \in 0..Len(text \o ids)
  <2>1. Len(text) \in Nat
    BY <1>2 DEF Text
  <2> QED BY <1>2, <2>1, LongerText
<1> QED BY <1>1, <1>2, <1>3 DEF FinishReason

\* What the last chunk does.
LEMMA FinalDoes ==
    ASSUME TypeOK, NEW reason \in {"stop", "length"}, Final(reason)
    PROVE  \E ids \in Text :
             LET added == Drain(text \o ids, emitted, FALSE)
                 flushed == Drain(text \o ids, added.at, TRUE)
             IN /\ text' = text \o ids /\ text' \in Text /\ emitted \in 0..Len(text')
                /\ emitted' = flushed.at /\ out' = Join(out, Join(added.out, flushed.out))
                /\ phase' = "over" /\ upstream' = "ended"
                /\ finish' = FinishReason(IF HasStop(text') THEN "stop" ELSE reason, out'.calls)
<1>1. PICK ids \in Chunks :
        LET t == text \o ids
            added == Drain(t, emitted, FALSE)
            flushed == Drain(t, added.at, TRUE)
        IN /\ text' = t /\ emitted' = flushed.at
           /\ out' = Join(out, Join(added.out, flushed.out))
           /\ finish' = FinishReason(IF HasStop(t) THEN "stop" ELSE reason, out'.calls)
  BY DEF Final
<1>2. ids \in Text /\ text \in Text /\ emitted \in 0..Len(text)
  BY ChunksAreText DEF TypeOK, Text
<1>3. text \o ids \in Text /\ emitted \in 0..Len(text \o ids)
  <2>1. Len(text) \in Nat
    BY <1>2 DEF Text
  <2> QED BY <1>2, <2>1, LongerText
<1> QED BY <1>1, <1>2, <1>3 DEF Final

LEMMA StepTypes == TypeOK /\ [Next]_vars => TypeOK'
<1> SUFFICES ASSUME TypeOK, [Next]_vars PROVE TypeOK'
  OBVIOUS
<1>1. CASE Chunk
  <2>1. PICK ids \in Text :
          LET d == Drain(text \o ids, emitted, FALSE)
          IN /\ text' = text \o ids /\ text' \in Text /\ emitted \in 0..Len(text')
             /\ emitted' = d.at /\ out' = Join(out, d.out)
             /\ phase' = IF HasStop(text') THEN "over" ELSE "streaming"
             /\ UNCHANGED upstream \/ upstream' = "aborted"
             /\ UNCHANGED finish \/ finish' \in {"stop", "tool_calls"}
    BY <1>1, ChunkDoes
  <2>2. emitted' \in emitted..Len(text') /\ Drain(text', emitted, FALSE).out \in Channels
    BY <2>1, DrainIsTyped
  <2>3. out' \in Channels
    BY <2>1, <2>2, JoinIsTyped DEF TypeOK
  <2>4. emitted' \in 0..Len(text')
    BY <2>1, <2>2, PositionsAdvance
  <2> QED BY <2>1, <2>3, <2>4 DEF TypeOK, Text
<1>2. ASSUME NEW reason \in {"stop", "length"}, Final(reason) PROVE TypeOK'
  <2>1. PICK ids \in Text :
          LET added == Drain(text \o ids, emitted, FALSE)
              flushed == Drain(text \o ids, added.at, TRUE)
          IN /\ text' = text \o ids /\ text' \in Text /\ emitted \in 0..Len(text')
             /\ emitted' = flushed.at /\ out' = Join(out, Join(added.out, flushed.out))
             /\ phase' = "over" /\ upstream' = "ended"
             /\ finish' = FinishReason(IF HasStop(text') THEN "stop" ELSE reason, out'.calls)
    BY <1>2, FinalDoes
  <2> DEFINE added == Drain(text', emitted, FALSE)
             flushed == Drain(text', added.at, TRUE)
  <2>2. added.at \in emitted..Len(text') /\ added.out \in Channels
    BY <2>1, DrainIsTyped
  <2>3. added.at \in 0..Len(text')
    BY <2>1, <2>2, PositionsAdvance
  <2> HIDE DEF added
  <2>4. flushed.at \in added.at..Len(text') /\ flushed.out \in Channels
    BY <2>1, <2>3, DrainIsTyped
  <2>5. emitted' = flushed.at /\ out' = Join(out, Join(added.out, flushed.out))
    BY <2>1 DEF added
  <2> HIDE DEF flushed
  <2>6. out' \in Channels
    <3>1. Join(added.out, flushed.out) \in Channels
      BY <2>2, <2>4, JoinIsTyped
    <3> QED BY <2>5, <3>1, JoinIsTyped DEF TypeOK
  <2>7. emitted' \in 0..Len(text')
    BY <2>1, <2>3, <2>4, <2>5, PositionsAdvance
  <2> QED BY <2>1, <2>6, <2>7 DEF TypeOK, Text, FinishReason
<1>3. CASE Breaks
  <2>1. text \in Text /\ emitted \in 0..Len(text) /\ Len(text) \in Nat
    BY DEF TypeOK, Text
  <2>2. /\ emitted' \in emitted..Len(text) /\ Drain(text, emitted, TRUE).out \in Channels
        /\ out' = Join(out, Drain(text, emitted, TRUE).out)
    BY <1>3, <2>1, DrainIsTyped DEF Breaks
  <2>3. out' \in Channels
    BY <2>2, JoinIsTyped DEF TypeOK
  <2>4. emitted' \in 0..Len(text)
    BY <2>1, <2>2, PositionsAdvance
  <2> QED BY <1>3, <2>3, <2>4 DEF Breaks, TypeOK
<1>4. CASE Disconnects
  BY <1>4 DEF Disconnects, TypeOK
<1>5. CASE UNCHANGED vars
  BY <1>5 DEF vars, TypeOK
<1> QED BY <1>1, <1>2, <1>3, <1>4, <1>5 DEF Next

LEMMA InitTypes == Init => TypeOK
<1>1. <<>> \in Seq(Symbols) /\ Len(<<>>) = 0
  BY EmptySeq
<1> QED BY <1>1, NothingIsTyped DEF Init, TypeOK

\* Every reachable state is well typed: positions stay within the text, what is
\* sent is text or whole calls, and the finish reason is one of the protocol's
\* (_process_stream_chunk, _finish_stream).
THEOREM TypeCorrectness == Spec => []TypeOK
<1> QED BY InitTypes, StepTypes, PTL DEF Spec

-----------------------------------------------------------------------------
(* Nothing of a stop string is sent.                                        *)

\* While it streams, no stop string has arrived, and what could be the
\* beginning of one is held back.
HeldBack == phase = "streaming" => ~HasStop(text) /\ Waits(text, emitted)

IInv == TypeOK /\ HeldBack /\ SendsNothingOfAStop

LEMMA StepInv == StopsEndWithACall /\ IInv /\ [Next]_vars => IInv'
<1> SUFFICES ASSUME StopsEndWithACall, IInv, [Next]_vars PROVE HeldBack' /\ SendsNothingOfAStop'
  BY StepTypes DEF IInv
<1>0. text \in Text /\ emitted \in 0..Len(text) /\ Len(text) \in Nat
  BY DEF IInv, TypeOK, Text
<1>1. CASE Chunk
  <2>1. PICK ids \in Text :
          LET d == Drain(text \o ids, emitted, FALSE)
          IN /\ text' = text \o ids /\ text' \in Text /\ emitted \in 0..Len(text')
             /\ emitted' = d.at /\ out' = Join(out, d.out)
             /\ phase' = IF HasStop(text') THEN "over" ELSE "streaming"
             /\ UNCHANGED upstream \/ upstream' = "aborted"
             /\ UNCHANGED finish \/ finish' \in {"stop", "tool_calls"}
    BY <1>1, ChunkDoes DEF IInv
  <2>2. ~HasStop(text) /\ Waits(text, emitted)
    BY <1>1 DEF Chunk, IInv, HeldBack
  <2>3. emitted <= FirstOf(text', Stops, 0)
    BY <1>0, <2>1, <2>2, StopIsAhead
  <2>4. Waits(text', emitted)
    BY <1>0, <2>1, <2>2, StillWaits
  <2>5. /\ emitted' <= FirstOf(text', Stops, 0)
        /\ ~HasStop(text') => Waits(text', emitted')
    BY <2>1, <2>3, <2>4, DrainIsTyped
  <2> QED BY <2>1, <2>5 DEF HeldBack, SendsNothingOfAStop
<1>2. ASSUME NEW reason \in {"stop", "length"}, Final(reason) PROVE HeldBack' /\ SendsNothingOfAStop'
  <2>1. PICK ids \in Text :
          LET added == Drain(text \o ids, emitted, FALSE)
              flushed == Drain(text \o ids, added.at, TRUE)
          IN /\ text' = text \o ids /\ text' \in Text /\ emitted \in 0..Len(text')
             /\ emitted' = flushed.at /\ out' = Join(out, Join(added.out, flushed.out))
             /\ phase' = "over" /\ upstream' = "ended"
             /\ finish' = FinishReason(IF HasStop(text') THEN "stop" ELSE reason, out'.calls)
    BY <1>2, FinalDoes DEF IInv
  <2>2. ~HasStop(text) /\ Waits(text, emitted)
    BY <1>2 DEF Final, IInv, HeldBack
  <2>3. emitted <= FirstOf(text', Stops, 0)
    BY <1>0, <2>1, <2>2, StopIsAhead
  <2> DEFINE added == Drain(text', emitted, FALSE)
             flushed == Drain(text', added.at, TRUE)
  <2>4. added.at \in emitted..Len(text') /\ added.at <= FirstOf(text', Stops, 0)
    BY <2>1, <2>3, DrainIsTyped
  <2>5. added.at \in 0..Len(text')
    BY <2>1, <2>4, PositionsAdvance
  <2>6. emitted' = flushed.at
    BY <2>1
  <2> HIDE DEF added
  <2>7. flushed.at <= FirstOf(text', Stops, 0)
    BY <2>1, <2>4, <2>5, DrainIsTyped
  <2> QED BY <2>1, <2>6, <2>7 DEF HeldBack, SendsNothingOfAStop
<1>3. CASE Breaks
  <2>1. emitted <= FirstOf(text, Stops, 0)
    BY DEF IInv, SendsNothingOfAStop
  <2>2. Drain(text, emitted, TRUE).at <= FirstOf(text, Stops, 0)
    BY <1>0, <2>1, DrainIsTyped
  <2> QED BY <1>3, <2>2 DEF Breaks, HeldBack, SendsNothingOfAStop
<1>4. CASE Disconnects
  BY <1>4 DEF Disconnects, IInv, HeldBack, SendsNothingOfAStop
<1>5. CASE UNCHANGED vars
  BY <1>5 DEF vars, IInv, HeldBack, SendsNothingOfAStop
<1> QED BY <1>1, <1>2, <1>3, <1>4, <1>5 DEF Next

LEMMA InitInv == Init => IInv
<1> SUFFICES ASSUME Init PROVE IInv
  OBVIOUS
<1>1. text = <<>> /\ Len(text) = 0 /\ emitted = 0 /\ text \in Text
  BY EmptySeq DEF Init, Text
<1>2. Occurrences(text, Stops, 0) = {}
  <2> SUFFICES ASSUME NEW q \in Occurrences(text, Stops, 0) PROVE FALSE
    OBVIOUS
  <2>1. PICK w \in Stops : q + Len(w) <= Len(text) /\ q \in 0..Len(text)
    BY DEF Occurrences
  <2>2. Len(w) \in Nat \ {0}
    BY StopsAreWords, EmptySeq DEF Text
  <2> QED BY <1>1, <2>1, <2>2
<1>3. 0 <= FirstOf(text, Stops, 0)
  BY <1>1, CutIsText
<1> QED BY <1>1, <1>2, <1>3, InitTypes, HoldbackCoversStops
        DEF IInv, HeldBack, SendsNothingOfAStop, HasStop, Waits, Paused, Larger

\* However the answer is cut into chunks, of a stop string and of what comes
\* after it nothing is sent, if no stop string goes on after the end of a tool
\* call (_safe_length, _drain).
THEOREM StopsAreNotSent == ASSUME StopsEndWithACall PROVE Spec => []SendsNothingOfAStop
<1>1. Init => IInv
  BY InitInv
<1>2. IInv /\ [Next]_vars => IInv'
  BY StepInv
<1>3. IInv => SendsNothingOfAStop
  BY DEF IInv
<1> QED BY <1>1, <1>2, <1>3, PTL DEF Spec

-----------------------------------------------------------------------------
(* Deltas add up.                                                           *)

LEMMA DeltaOf ==
    ASSUME NEW a \in Channels
    PROVE  /\ a.reasoning \in Text /\ a.content \in Text /\ a.calls \in Seq(Text)
           /\ a = Delta(a.reasoning, a.content, a.calls)
  BY DEF Channels, Delta, Text

LEMMA NothingJoins ==
    ASSUME NEW a \in Channels
    PROVE  Join(Nothing, a) = a /\ Join(a, Nothing) = a
<1>1. /\ <<>> \o a.reasoning = a.reasoning /\ a.reasoning \o <<>> = a.reasoning
      /\ <<>> \o a.content = a.content /\ a.content \o <<>> = a.content
      /\ <<>> \o a.calls = a.calls /\ a.calls \o <<>> = a.calls
  BY DeltaOf, ConcatEmptySeq DEF Text
<1>2. Nothing.reasoning = <<>> /\ Nothing.content = <<>> /\ Nothing.calls = <<>>
  BY DEF Nothing, Delta
<1>3. /\ Join(Nothing, a) = Delta(a.reasoning, a.content, a.calls)
      /\ Join(a, Nothing) = Delta(a.reasoning, a.content, a.calls)
  BY <1>1, <1>2 DEF Join
<1> QED BY <1>3, DeltaOf

LEMMA TextAssociates ==
    ASSUME NEW a \in Text, NEW b \in Text, NEW c \in Text PROVE (a \o b) \o c = a \o (b \o c)
  BY ConcatAssociative DEF Text

LEMMA CallsAssociate ==
    ASSUME NEW a \in Seq(Text), NEW b \in Seq(Text), NEW c \in Seq(Text)
    PROVE  (a \o b) \o c = a \o (b \o c)
  BY ConcatAssociative

LEMMA JoinAssociates ==
    ASSUME NEW a \in Channels, NEW b \in Channels, NEW c \in Channels
    PROVE  Join(Join(a, b), c) = Join(a, Join(b, c))
<1>1. /\ (a.reasoning \o b.reasoning) \o c.reasoning = a.reasoning \o (b.reasoning \o c.reasoning)
      /\ (a.content \o b.content) \o c.content = a.content \o (b.content \o c.content)
      /\ (a.calls \o b.calls) \o c.calls = a.calls \o (b.calls \o c.calls)
  <2>1. /\ a.reasoning \in Text /\ b.reasoning \in Text /\ c.reasoning \in Text
        /\ a.content \in Text /\ b.content \in Text /\ c.content \in Text
        /\ a.calls \in Seq(Text) /\ b.calls \in Seq(Text) /\ c.calls \in Seq(Text)
    BY DeltaOf
  <2>2. (a.reasoning \o b.reasoning) \o c.reasoning = a.reasoning \o (b.reasoning \o c.reasoning)
    <3> DEFINE x == a.reasoning
               y == b.reasoning
               z == c.reasoning
    <3>1. x \in Text /\ y \in Text /\ z \in Text
      BY <2>1
    <3> HIDE DEF x, y, z
    <3>2. (x \o y) \o z = x \o (y \o z)
      BY <3>1, TextAssociates
    <3> QED BY <3>2 DEF x, y, z
  <2>3. (a.content \o b.content) \o c.content = a.content \o (b.content \o c.content)
    <3> DEFINE x == a.content
               y == b.content
               z == c.content
    <3>1. x \in Text /\ y \in Text /\ z \in Text
      BY <2>1
    <3> HIDE DEF x, y, z
    <3>2. (x \o y) \o z = x \o (y \o z)
      BY <3>1, TextAssociates
    <3> QED BY <3>2 DEF x, y, z
  <2>4. (a.calls \o b.calls) \o c.calls = a.calls \o (b.calls \o c.calls)
    <3> DEFINE x == a.calls
               y == b.calls
               z == c.calls
    <3>1. x \in Seq(Text) /\ y \in Seq(Text) /\ z \in Seq(Text)
      BY <2>1
    <3> HIDE DEF x, y, z
    <3>2. (x \o y) \o z = x \o (y \o z)
      BY <3>1, CallsAssociate
    <3> QED BY <3>2 DEF x, y, z
  <2> QED BY <2>2, <2>3, <2>4
<1>2. /\ Join(a, b).reasoning = a.reasoning \o b.reasoning
      /\ Join(a, b).content = a.content \o b.content
      /\ Join(a, b).calls = a.calls \o b.calls
      /\ Join(b, c).reasoning = b.reasoning \o c.reasoning
      /\ Join(b, c).content = b.content \o c.content
      /\ Join(b, c).calls = b.calls \o c.calls
  BY JoinIsTyped
<1>3. /\ Join(Join(a, b), c) = Delta(Join(a, b).reasoning \o c.reasoning, Join(a, b).content \o c.content,
                                     Join(a, b).calls \o c.calls)
      /\ Join(a, Join(b, c)) = Delta(a.reasoning \o Join(b, c).reasoning, a.content \o Join(b, c).content,
                                     a.calls \o Join(b, c).calls)
  BY DEF Join
<1> QED BY <1>1, <1>2, <1>3

LEMMA BetweenAdds ==
    ASSUME NEW t \in Text, NEW p \in 0..Len(t), NEW q \in p..Len(t), NEW r \in q..Len(t)
    PROVE  Between(t, p, q) \o Between(t, q, r) = Between(t, p, r)
<1>0. Len(t) \in Nat /\ p \in Nat /\ q \in Nat /\ r \in Nat /\ p <= q /\ q <= r /\ r <= Len(t)
  BY DEF Text
<1>1. \A m, n \in Nat : Between(t, m, n) = SubSeq(t, m + 1, n)
  <2> TAKE m, n \in Nat
  <2>1. ~(m < n) => SubSeq(t, m + 1, n) = <<>>
    BY SubSeqEmpty
  <2> QED BY <2>1 DEF Between
<1>2. p + 1 \in 1..(Len(t) + 1) /\ q \in ((p + 1) - 1)..Len(t) /\ r \in q..Len(t)
  BY <1>0
<1>3. SubSeq(t, p + 1, q) \o SubSeq(t, q + 1, r) = SubSeq(t, p + 1, r)
  BY <1>2, ConcatAdjacentSubSeq DEF Text
<1> QED BY <1>0, <1>1, <1>3

LEMMA EmptyBetween ==
    ASSUME NEW t, NEW p \in Nat, NEW q \in Nat, q <= p PROVE Between(t, p, q) = <<>>
  BY DEF Between

\* _split_delta, field by field.
LEMMA SplitFields ==
    ASSUME NEW t \in Text, NEW p \in 0..Len(t), NEW q \in 0..Len(t)
    PROVE  LET end == FirstOf(t, {ThinkEnd}, 0)
           IN  /\ end \in 0..Len(t) /\ end \in Nat /\ Len(t) \in Nat /\ p \in Nat /\ q \in Nat
               /\ Split(t, p, q) = Delta(Between(t, p, IF q < end THEN q ELSE end),
                                         Between(t, Larger(p, end + 2), q), <<>>)
               /\ Split(t, p, q).reasoning = Between(t, p, IF q < end THEN q ELSE end)
               /\ Split(t, p, q).content = Between(t, Larger(p, end + 2), q)
               /\ Split(t, p, q).calls = <<>>
<1>1. FirstOf(t, {ThinkEnd}, 0) \in 0..Len(t) /\ Len(t) \in Nat
  BY FirstOfIsFirst DEF Text
<1> QED BY <1>1, Markers DEF Split, Delta

LEMMA EmptySplit ==
    ASSUME NEW t \in Text, NEW p \in 0..Len(t)
    PROVE  Split(t, p, p) = Nothing
<1> DEFINE end == FirstOf(t, {ThinkEnd}, 0)
<1>1. /\ end \in Nat /\ p \in Nat
      /\ Split(t, p, p) = Delta(Between(t, p, IF p < end THEN p ELSE end),
                                Between(t, Larger(p, end + 2), p), <<>>)
  BY SplitFields
<1> HIDE DEF end
<1>2. Between(t, p, IF p < end THEN p ELSE end) = <<>> /\ Between(t, Larger(p, end + 2), p) = <<>>
  BY <1>1, EmptyBetween DEF Larger
<1> QED BY <1>1, <1>2 DEF Nothing

LEMMA SplitAdds ==
    ASSUME NEW t \in Text, NEW p \in 0..Len(t), NEW q \in p..Len(t), NEW r \in q..Len(t)
    PROVE  Join(Split(t, p, q), Split(t, q, r)) = Split(t, p, r)
<1> DEFINE end == FirstOf(t, {ThinkEnd}, 0)
           a(m, n) == Between(t, m, IF n < end THEN n ELSE end)
           b(m, n) == Between(t, Larger(m, end + 2), n)
<1>0. /\ Len(t) \in Nat /\ p \in Nat /\ q \in Nat /\ r \in Nat /\ p <= q /\ q <= r /\ r <= Len(t)
      /\ end \in Nat /\ end <= Len(t)
      /\ p \in 0..Len(t) /\ q \in 0..Len(t) /\ r \in 0..Len(t)
  <2>1. Len(t) \in Nat
    BY DEF Text
  <2>2. end \in 0..Len(t)
    BY <2>1, FirstOfIsFirst
  <2> HIDE DEF end
  <2> QED BY <2>1, <2>2
<1>1. \A m, n \in 0..Len(t) :
        /\ Split(t, m, n) = Delta(a(m, n), b(m, n), <<>>)
        /\ Split(t, m, n).reasoning = a(m, n) /\ Split(t, m, n).content = b(m, n)
        /\ Split(t, m, n).calls = <<>>
  BY SplitFields
<1> HIDE DEF end
<1>2. a(p, q) \o a(q, r) = a(p, r)
  <2>1. CASE q < end
    <3>1. (IF r < end THEN r ELSE end) \in q..Len(t)
      BY <1>0, <2>1
    <3> QED BY <1>0, <2>1, <3>1, BetweenAdds
  <2>2. CASE ~(q < end)
    <3>1. a(q, r) = <<>> /\ a(p, q) = a(p, r)
      BY <1>0, <2>2, EmptyBetween
    <3>2. a(p, q) \in Text
      BY <1>0, <2>2, BetweenIsText
    <3> QED BY <3>1, <3>2, ConcatEmptySeq DEF Text
  <2> QED BY <2>1, <2>2
<1>3. b(p, q) \o b(q, r) = b(p, r)
  <2>1. CASE q <= end + 2
    <3>1. b(p, q) = <<>> /\ b(q, r) = b(p, r)
      BY <1>0, <2>1, EmptyBetween DEF Larger
    <3>2. b(q, r) \in Text
      <4>1. Larger(q, end + 2) \in Nat
        BY <1>0 DEF Larger
      <4> QED BY <1>0, <4>1, BetweenIsText
    <3> QED BY <3>1, <3>2, ConcatEmptySeq DEF Text
  <2>2. CASE ~(q <= end + 2)
    <3>1. Larger(q, end + 2) = q /\ Larger(p, end + 2) \in 0..Len(t) /\ q \in Larger(p, end + 2)..Len(t)
      BY <1>0, <2>2 DEF Larger
    <3> QED BY <1>0, <3>1, BetweenAdds
  <2> QED BY <2>1, <2>2
<1> HIDE DEF a, b
<1>4. Join(Split(t, p, q), Split(t, q, r)) = Delta(a(p, q) \o a(q, r), b(p, q) \o b(q, r), <<>> \o <<>>)
  BY <1>0, <1>1 DEF Join
<1>5. <<>> \o <<>> = <<>>
  BY EmptySeq, ConcatEmptySeq
<1> QED BY <1>0, <1>1, <1>2, <1>3, <1>4, <1>5

-----------------------------------------------------------------------------
(* What a flush sends from a position on.                                   *)

Rest(u, p) == Sent(u, Len(u), TRUE)[p].out

LEMMA RestCases ==
    ASSUME NEW u \in Text, NEW p \in 0..Len(u)
    PROVE  /\ Rest(u, p) \in Channels
           /\ p = Len(u) => Rest(u, p) = Nothing
           /\ p # Len(u) /\ Open(u, p) = Len(u) => Rest(u, p) = Split(u, p, Len(u))
           /\ Open(u, p) # Len(u) /\ Close(u, p) # Len(u) =>
                Rest(u, p) = Join(Split(u, p, Open(u, p)),
                                  Join(Block(Between(u, Open(u, p), Close(u, p) + 1)),
                                       Rest(u, Close(u, p) + 1)))
           /\ Open(u, p) # Len(u) /\ Close(u, p) = Len(u) =>
                Rest(u, p) = Join(Split(u, p, Open(u, p)), Split(u, Open(u, p), Len(u)))
<1> DEFINE N == Len(u)
           s == Sent(u, N, TRUE)
           open == Open(u, p)
           close == Close(u, p)
<1>1. N \in Nat /\ N \in 0..N
  BY DEF Text
<1>2. s[p].out \in Channels
  BY <1>1, SentIsTyped
<1>3. open \in p..N /\ close \in open..N
  BY <1>1, TurnPositions
<1>4. Stay(u, N, p) = open
  <2> HIDE DEF open
  <2>1. Stay(u, N, p) = Larger(p, IF open < N THEN open ELSE N)
    BY DEF Stay, open
  <2> QED BY <1>1, <1>3, <2>1 DEF Larger
<1>5. s[p] = Turn(u, N, TRUE, p, s)
  BY <1>1, SentUnfolds
<1> HIDE DEF N, s, open, close
<1>6. s[p] = IF p = N THEN [out |-> Nothing, at |-> p]
             ELSE IF open = N THEN [out |-> Split(u, p, open), at |-> open]
             ELSE IF close < N
               THEN [out |-> Join(Split(u, p, open), Join(Block(Between(u, open, close + 1)), s[close + 1].out)),
                     at |-> s[close + 1].at]
             ELSE [out |-> Join(Split(u, p, open), Split(u, open, N)), at |-> N]
  BY <1>4, <1>5, TurnCases, Markers DEF N, open, close
<1>7. p = N => s[p].out = Nothing
  BY <1>6
<1>8. p # N /\ open = N => s[p].out = Split(u, p, N)
  BY <1>6
<1>9. open # N => p # N
  BY <1>1, <1>3
<1>10. open # N /\ close # N =>
         s[p].out = Join(Split(u, p, open), Join(Block(Between(u, open, close + 1)), s[close + 1].out))
  BY <1>1, <1>3, <1>6, <1>9
<1>11. open # N /\ close = N => s[p].out = Join(Split(u, p, open), Split(u, open, N))
  BY <1>1, <1>6, <1>9
<1> QED BY <1>2, <1>7, <1>8, <1>10, <1>11 DEF Rest, N, s, open, close

\* From anywhere before it, the next call is the same one.
LEMMA SameCallFrom ==
    ASSUME NEW u \in Text, NEW p \in 0..Len(u), NEW q \in p..Open(u, p)
    PROVE  q \in 0..Len(u) /\ Open(u, q) = Open(u, p) /\ Close(u, q) = Close(u, p)
<1>1. /\ Len(u) \in Nat /\ p \in Nat /\ Open(u, p) \in p..Len(u)
  BY TurnPositions DEF Text
<1>2. q \in 0..Len(u) /\ q \in p..Len(u) /\ q <= Open(u, p)
  BY <1>1
<1>3. Open(u, q) = Open(u, p)
  <2>1. CASE ~Tools
    BY <2>1 DEF Open
  <2>2. CASE Tools
    <3> DEFINE a == FirstOf(u, {ToolOpen}, p)
               b == FirstOf(u, {ToolOpen}, q)
    <3>1. /\ a \in p..Len(u) /\ a \in Occurrences(u, {ToolOpen}, p) \cup {Len(u)}
          /\ \A n \in Occurrences(u, {ToolOpen}, p) : a <= n
          /\ b \in q..Len(u) /\ b \in Occurrences(u, {ToolOpen}, q) \cup {Len(u)}
          /\ \A n \in Occurrences(u, {ToolOpen}, q) : b <= n
      BY <1>2, FirstOfIsFirst
    <3>2. q <= a
      BY <1>2, <2>2 DEF Open
    <3> HIDE DEF a, b
    <3>3. a \in Occurrences(u, {ToolOpen}, p) => a \in Occurrences(u, {ToolOpen}, q)
      BY <1>1, <1>2, <3>1, <3>2 DEF Occurrences
    <3>4. b \in Occurrences(u, {ToolOpen}, q) => b \in Occurrences(u, {ToolOpen}, p)
      BY <1>1, <1>2, <3>1 DEF Occurrences
    <3>5. b <= Len(u) /\ a <= Len(u) /\ a \in Nat /\ b \in Nat
      BY <1>1, <1>2, <3>1
    <3>6. b <= a
      BY <3>1, <3>3, <3>5
    <3>7. a <= b
      BY <3>1, <3>4, <3>5
    <3>8. a = b
      BY <3>5, <3>6, <3>7
    <3> QED BY <2>2, <3>8 DEF Open, a, b
  <2> QED BY <2>1, <2>2
<1> QED BY <1>2, <1>3 DEF Close

\* What is sent from a position on does not depend on where it is cut, if it is
\* before the next call.
LEMMA RestMoves ==
    ASSUME NEW u \in Text, NEW p \in 0..Len(u), NEW q \in p..Open(u, p)
    PROVE  Rest(u, p) = Join(Split(u, p, q), Rest(u, q))
<1> DEFINE N == Len(u)
           open == Open(u, p)
           close == Close(u, p)
<1>1. /\ N \in Nat /\ p \in 0..N /\ q \in 0..N /\ open \in 0..N /\ close \in 0..N
      /\ p <= q /\ q <= open /\ open <= N /\ open <= close
      /\ q \in p..N /\ open \in q..N /\ N \in open..N /\ open \in p..N /\ N \in q..N
  <2>1. N \in Nat /\ open \in p..N /\ close \in open..N /\ p \in 0..N
    BY TurnPositions DEF Text
  <2>2. q \in p..open
    OBVIOUS
  <2> HIDE DEF N, open, close
  <2> QED BY <2>1, <2>2
<1>2. Open(u, q) = open /\ Close(u, q) = close
  BY SameCallFrom
<1>3. Split(u, p, q) \in Channels /\ Split(u, q, open) \in Channels /\ Split(u, open, N) \in Channels
  BY <1>1, SplitIsTyped
<1>4. Join(Split(u, p, q), Split(u, q, open)) = Split(u, p, open)
  BY <1>1, SplitAdds
<1> HIDE DEF N, open, close
<1>5. CASE open = N
  <2>1. CASE q = N
    <3>1. Rest(u, q) = Nothing
      BY <1>1, <2>1, RestCases DEF N
    <3>2. Rest(u, p) = Split(u, p, q)
      <4>1. CASE p = N
        BY <1>1, <2>1, <4>1, RestCases, EmptySplit DEF N
      <4>2. CASE p # N
        BY <1>5, <2>1, <4>2, RestCases DEF N, open
      <4> QED BY <4>1, <4>2
    <3> QED BY <1>3, <3>1, <3>2, NothingJoins
  <2>2. CASE q # N
    <3>1. p # N
      BY <1>1, <2>2
    <3>2. Rest(u, q) = Split(u, q, N) /\ Rest(u, p) = Split(u, p, N)
      BY <1>1, <1>2, <1>5, <2>2, <3>1, RestCases DEF N, open
    <3> QED BY <1>4, <1>5, <3>2
  <2> QED BY <2>1, <2>2
<1>6. CASE open # N /\ close # N
  <2> DEFINE tail == Join(Block(Between(u, open, close + 1)), Rest(u, close + 1))
  <2>1. Rest(u, p) = Join(Split(u, p, open), tail) /\ Rest(u, q) = Join(Split(u, q, open), tail)
    BY <1>1, <1>2, <1>6, RestCases DEF N, open, close
  <2>2. tail \in Channels
    <3>1. close + 1 \in 0..N
      BY <1>1, <1>6
    <3>2. Between(u, open, close + 1) \in Text
      BY <1>1, <3>1, BetweenIsText DEF N
    <3>3. Block(Between(u, open, close + 1)) \in Channels /\ Rest(u, close + 1) \in Channels
      BY <3>1, <3>2, BlockIsTyped, RestCases DEF N
    <3> QED BY <3>3, JoinIsTyped
  <2> HIDE DEF tail
  <2>3. Join(Join(Split(u, p, q), Split(u, q, open)), tail) = Join(Split(u, p, q), Join(Split(u, q, open), tail))
    BY <1>3, <2>2, JoinAssociates
  <2> QED BY <1>4, <2>1, <2>3
<1>7. CASE open # N /\ close = N
  <2>1. /\ Rest(u, p) = Join(Split(u, p, open), Split(u, open, N))
        /\ Rest(u, q) = Join(Split(u, q, open), Split(u, open, N))
    BY <1>1, <1>2, <1>7, RestCases DEF N, open, close
  <2>2. Join(Join(Split(u, p, q), Split(u, q, open)), Split(u, open, N))
          = Join(Split(u, p, q), Join(Split(u, q, open), Split(u, open, N)))
    BY <1>3, JoinAssociates
  <2> QED BY <1>4, <2>1, <2>2
<1> QED BY <1>5, <1>6, <1>7

-----------------------------------------------------------------------------
(* A text and what it is cut to: neither sends what the other does not.     *)

\* Induction from the end of the text.
LEMMA FromTheEnd ==
    ASSUME NEW N \in Nat, NEW S,
           \A q \in 0..N : (\A e \in (q + 1)..N : e \in S) => q \in S
    PROVE  \A q \in 0..N : q \in S
<1> DEFINE missing == {n \in 0..N : N - n \notin S}
<1>1. missing = {}
  <2> SUFFICES ASSUME missing # {} PROVE FALSE
    OBVIOUS
  <2>1. missing \in SUBSET Nat
    OBVIOUS
  <2>2. PICK n \in missing : \A m \in missing : n =< m
    <3> HIDE DEF missing
    <3> QED BY <2>1, LeastNatural
  <2>3. n \in 0..N /\ N - n \notin S /\ N - n \in 0..N
    OBVIOUS
  <2>4. \A e \in ((N - n) + 1)..N : e \in S
    <3> SUFFICES ASSUME NEW e \in ((N - n) + 1)..N PROVE e \in S
      OBVIOUS
    <3>1. N - e \in 0..N /\ N - (N - e) = e /\ ~(n =< N - e)
      BY <2>3
    <3> QED BY <2>2, <3>1
  <2> QED BY <2>3, <2>4
<1> SUFFICES ASSUME NEW q \in 0..N PROVE q \in S
  OBVIOUS
<1>2. N - q \in 0..N /\ N - (N - q) = q
  OBVIOUS
<1> QED BY <1>1, <1>2

\* A single word occurs where the text has its symbols.
LEMMA WordOccurs ==
    ASSUME NEW t \in Text, NEW w \in Text \ {<<>>}, NEW p \in 0..Len(t), NEW q
    PROVE  q \in Occurrences(t, {w}, p)
             <=> /\ q \in p..Len(t) /\ q + Len(w) <= Len(t)
                 /\ \A i \in 1..Len(w) : t[q + i] = w[i]
<1>1. {w} \in SUBSET (Text \ {<<>>})
  OBVIOUS
<1>2. ASSUME q \in Occurrences(t, {w}, p)
      PROVE  /\ q \in p..Len(t) /\ q + Len(w) <= Len(t)
             /\ \A i \in 1..Len(w) : t[q + i] = w[i]
  <2>1. /\ q \in p..Len(t)
        /\ \E x \in {w} : q + Len(x) <= Len(t) /\ \A i \in 1..Len(x) : t[q + i] = x[i]
    BY <1>1, <1>2, OccursIn
  <2> QED BY <2>1
<1>3. ASSUME q \in p..Len(t), q + Len(w) <= Len(t), \A i \in 1..Len(w) : t[q + i] = w[i]
      PROVE  q \in Occurrences(t, {w}, p)
  <2>1. \E x \in {w} : q + Len(x) <= Len(t) /\ \A i \in 1..Len(x) : t[q + i] = x[i]
    BY <1>3
  <2> QED BY <1>1, <1>3, <2>1, OccursAt
<1> QED BY <1>2, <1>3

IsAt(t, w, q) == q + Len(w) <= Len(t) /\ \A i \in 1..Len(w) : t[q + i] = w[i]

LEMMA WordIsAt ==
    ASSUME NEW t \in Text, NEW w \in Text \ {<<>>}, NEW p \in 0..Len(t), NEW q
    PROVE  q \in Occurrences(t, {w}, p) <=> q \in p..Len(t) /\ IsAt(t, w, q)
<1>1. ASSUME q \in Occurrences(t, {w}, p) PROVE q \in p..Len(t) /\ IsAt(t, w, q)
  <2>1. q \in p..Len(t) /\ q + Len(w) <= Len(t)
    BY <1>1, WordOccurs
  <2>2. ASSUME NEW i \in 1..Len(w) PROVE t[q + i] = w[i]
    BY <1>1, WordOccurs
  <2> QED BY <2>1, <2>2 DEF IsAt
<1>2. ASSUME q \in p..Len(t), IsAt(t, w, q) PROVE q \in Occurrences(t, {w}, p)
  <2>1. q + Len(w) <= Len(t) /\ \A i \in 1..Len(w) : t[q + i] = w[i]
    BY <1>2 DEF IsAt
  <2> QED BY <1>2, <2>1, WordOccurs
<1> QED BY <1>1, <1>2

LEMMA MarkersAreWords ==
    /\ ThinkEnd \in Text \ {<<>>} /\ Len(ThinkEnd) = 2
    /\ ToolOpen \in Text \ {<<>>} /\ Len(ToolOpen) = 2
    /\ ToolClose \in Text \ {<<>>} /\ Len(ToolClose) = 1
<1>1. \A w \in Text : Len(w) # 0 => w # <<>>
  BY EmptySeq
<1> QED BY <1>1, Markers

LEMMA MarkersOccur ==
    ASSUME NEW t \in Text, NEW p \in 0..Len(t), NEW q
    PROVE  /\ q \in Occurrences(t, {ThinkEnd}, p) =>
                q + 2 <= Len(t) /\ t[q + 1] = "<" /\ t[q + 2] = "/think>"
           /\ q \in Occurrences(t, {ToolOpen}, p) =>
                q + 2 <= Len(t) /\ t[q + 1] = "<" /\ t[q + 2] = "tool_call>"
           /\ q \in Occurrences(t, {ToolClose}, p) =>
                q + 1 <= Len(t) /\ t[q + 1] = "</tool_call>"
<1>1. ASSUME NEW w \in Text \ {<<>>}, q \in Occurrences(t, {w}, p)
      PROVE  q + Len(w) <= Len(t) /\ \A i \in 1..Len(w) : t[q + i] = w[i]
  BY <1>1, WordOccurs
<1>2. /\ ThinkEnd[1] = "<" /\ ThinkEnd[2] = "/think>" /\ ToolOpen[1] = "<" /\ ToolOpen[2] = "tool_call>"
      /\ ToolClose[1] = "</tool_call>"
  BY DEF ThinkEnd, ToolOpen, ToolClose
<1>3. /\ 1 \in 1..Len(ThinkEnd) /\ 2 \in 1..Len(ThinkEnd) /\ 1 \in 1..Len(ToolOpen)
      /\ 2 \in 1..Len(ToolOpen) /\ 1 \in 1..Len(ToolClose)
  BY MarkersAreWords
<1>4. ASSUME q \in Occurrences(t, {ThinkEnd}, p)
      PROVE  q + 2 <= Len(t) /\ t[q + 1] = "<" /\ t[q + 2] = "/think>"
  <2>1. q + Len(ThinkEnd) <= Len(t) /\ \A i \in 1..Len(ThinkEnd) : t[q + i] = ThinkEnd[i]
    BY <1>1, <1>4, MarkersAreWords
  <2> QED BY <1>2, <1>3, <2>1, MarkersAreWords
<1>5. ASSUME q \in Occurrences(t, {ToolOpen}, p)
      PROVE  q + 2 <= Len(t) /\ t[q + 1] = "<" /\ t[q + 2] = "tool_call>"
  <2>1. q + Len(ToolOpen) <= Len(t) /\ \A i \in 1..Len(ToolOpen) : t[q + i] = ToolOpen[i]
    BY <1>1, <1>5, MarkersAreWords
  <2> QED BY <1>2, <1>3, <2>1, MarkersAreWords
<1>6. ASSUME q \in Occurrences(t, {ToolClose}, p)
      PROVE  q + 1 <= Len(t) /\ t[q + 1] = "</tool_call>"
  <2>1. q + Len(ToolClose) <= Len(t) /\ \A i \in 1..Len(ToolClose) : t[q + i] = ToolClose[i]
    BY <1>1, <1>6, MarkersAreWords
  <2> QED BY <1>2, <1>3, <2>1, MarkersAreWords
<1> QED BY <1>4, <1>5, <1>6

\* The one is the other with more at its end.
Agree(t, u) == \A i \in Nat : 1 <= i /\ i <= Len(t) /\ i <= Len(u) => t[i] = u[i]

LEMMA SameBetween ==
    ASSUME NEW t \in Text, NEW u \in Text, Agree(t, u), NEW p \in Nat, NEW q \in 0..Len(t), q <= Len(u)
    PROVE  Between(t, p, q) = Between(u, p, q)
<1>1. Len(t) \in Nat /\ Len(u) \in Nat /\ q \in Nat /\ q \in 0..Len(u) /\ q <= Len(t)
  BY DEF Text
<1>2. /\ Between(t, p, q) \in Text /\ Len(Between(t, p, q)) = (IF p < q THEN q - p ELSE 0)
      /\ \A i \in 1..(q - p) : Between(t, p, q)[i] = t[p + i]
  BY BetweenIsText
<1>3. /\ Between(u, p, q) \in Text /\ Len(Between(u, p, q)) = (IF p < q THEN q - p ELSE 0)
      /\ \A i \in 1..(q - p) : Between(u, p, q)[i] = u[p + i]
  BY <1>1, BetweenIsText
<1>4. CASE p < q
  <2>1. \A i \in 1..(q - p) : Between(t, p, q)[i] = Between(u, p, q)[i]
    <3> SUFFICES ASSUME NEW i \in 1..(q - p) PROVE t[p + i] = u[p + i]
      BY <1>2, <1>3
    <3>1. p + i \in Nat /\ 1 <= p + i /\ p + i <= Len(t) /\ p + i <= Len(u)
      BY <1>1
    <3> QED BY <3>1 DEF Agree
  <2> QED BY <1>2, <1>3, <1>4, <2>1, SeqEqual DEF Text
<1>5. CASE ~(p < q)
  BY <1>5 DEF Between
<1> QED BY <1>4, <1>5

\* A word that is found where both texts are, is found by both.
LEMMA SameFirst ==
    ASSUME NEW t \in Text, NEW u \in Text, Agree(t, u), NEW w \in Text \ {<<>>}, NEW p \in 0..Len(t),
           FirstOf(t, {w}, p) # Len(t), FirstOf(t, {w}, p) + Len(w) <= Len(u)
    PROVE  FirstOf(u, {w}, p) = FirstOf(t, {w}, p)
<1> DEFINE f == FirstOf(t, {w}, p)
           g == FirstOf(u, {w}, p)
<1>1. /\ Len(t) \in Nat /\ Len(u) \in Nat /\ Len(w) \in Nat \ {0} /\ p \in Nat
      /\ {w} \in SUBSET (Text \ {<<>>})
  BY EmptySeq DEF Text
<1>2. f \in p..Len(t) /\ f \in Occurrences(t, {w}, p) /\ \A q \in Occurrences(t, {w}, p) : f <= q
  BY <1>1, FirstOfIsFirst
<1>3. f + Len(w) <= Len(t) /\ \A i \in 1..Len(w) : t[f + i] = w[i]
  <2> HIDE DEF f
  <2> QED BY <1>2, WordOccurs, ZenonT(40)
<1>4. f \in Nat /\ p <= f /\ f + Len(w) <= Len(u)
  BY <1>1, <1>2
<1>5. p \in 0..Len(u) /\ f \in p..Len(u)
  BY <1>1, <1>4
<1>6. g \in p..Len(u) /\ g \in Occurrences(u, {w}, p) \cup {Len(u)} /\ \A q \in Occurrences(u, {w}, p) : g <= q
  BY <1>5, FirstOfIsFirst
<1> HIDE DEF f, g
<1>7. f \in Occurrences(u, {w}, p)
  <2>1. \A i \in 1..Len(w) : u[f + i] = w[i]
    <3> SUFFICES ASSUME NEW i \in 1..Len(w) PROVE u[f + i] = w[i]
      OBVIOUS
    <3>1. f + i \in Nat /\ 1 <= f + i /\ f + i <= Len(t) /\ f + i <= Len(u)
      BY <1>1, <1>3, <1>4
    <3> QED BY <1>3, <3>1 DEF Agree
  <2> QED BY <1>4, <1>5, <2>1, WordOccurs
<1>8. g <= f /\ g \in Nat /\ p <= g
  <2>1. g <= f
    BY <1>6, <1>7
  <2>2. g \in p..Len(u)
    BY <1>6
  <2> QED BY <1>1, <2>1, <2>2
<1>9. CASE g < f
  <2>1. g # Len(u)
    BY <1>1, <1>4, <1>9
  <2>2. g + Len(w) <= Len(u) /\ \A i \in 1..Len(w) : u[g + i] = w[i]
    BY <1>5, <1>6, <2>1, WordOccurs, ZenonT(40)
  <2>3. \A i \in 1..Len(w) : t[g + i] = w[i]
    <3> SUFFICES ASSUME NEW i \in 1..Len(w) PROVE t[g + i] = w[i]
      OBVIOUS
    <3>1. g + i \in Nat /\ 1 <= g + i /\ g + i <= Len(t) /\ g + i <= Len(u)
      BY <1>1, <1>3, <1>4, <1>8, <1>9
    <3> QED BY <2>2, <3>1 DEF Agree
  <2>4. g \in p..Len(t) /\ g + Len(w) <= Len(t)
    BY <1>1, <1>3, <1>4, <1>8, <1>9
  <2>5. g \in Occurrences(t, {w}, p)
    BY <2>3, <2>4, WordOccurs
  <2>6. f <= g
    BY <1>2, <2>5 DEF f
  <2> QED BY <1>4, <1>8, <1>9, <2>6
<1> QED BY <1>4, <1>8, <1>9 DEF f, g
Reasons(u) == FirstOf(u, {ThinkEnd}, 0) # Len(u)

\* What is split from it is the same in both.
LEMMA SameSplit ==
    ASSUME NEW t \in Text, NEW u \in Text, Agree(t, u), Reasons(u),
           NEW p \in 0..Len(t), NEW q \in p..Len(t), q <= Len(u),
           q = p \/ t = u \/ q < Len(t)
    PROVE  Split(t, p, q) = Split(u, p, q)
<1>1. CASE t = u
  BY <1>1
<1>2. CASE q = p
  <2>1. p \in 0..Len(u)
    BY <1>2
  <2> QED BY <1>2, <2>1, EmptySplit
<1>3. CASE q < Len(t)
  <2> DEFINE end == FirstOf(u, {ThinkEnd}, 0)
             ending == FirstOf(t, {ThinkEnd}, 0)
  <2>1. /\ Len(t) \in Nat /\ Len(u) \in Nat /\ p \in Nat /\ q \in Nat /\ p <= q
        /\ p \in 0..Len(u) /\ q \in 0..Len(u) /\ q \in 0..Len(t) /\ 0 \in 0..Len(u) /\ 0 \in 0..Len(t)
    BY DEF Text
  <2>2. end \in Occurrences(u, {ThinkEnd}, 0) /\ end \in 0..Len(u)
    BY <2>1, FirstOfIsFirst DEF Reasons
  <2>3. ThinkEnd \in Text \ {<<>>} /\ Len(ThinkEnd) = 2
    BY MarkersAreWords
  <2>4. end + 2 <= Len(u) /\ end \in Nat
    <3> HIDE DEF end
    <3>1. end + Len(ThinkEnd) <= Len(u)
      BY <2>1, <2>2, <2>3, WordOccurs
    <3> QED BY <2>1, <2>2, <2>3, <3>1
  <2>5. ending \in 0..Len(t) /\ ending \in Nat
    BY <2>1, FirstOfIsFirst
  <2>6. ending # Len(t) => ending + 2 <= Len(t)
    <3> SUFFICES ASSUME ending # Len(t) PROVE ending + 2 <= Len(t)
      OBVIOUS
    <3>1. ending \in Occurrences(t, {ThinkEnd}, 0)
      BY <2>1, FirstOfIsFirst
    <3> QED BY <2>1, <2>3, <3>1, WordOccurs
  <2>7. /\ Split(t, p, q) = Delta(Between(t, p, IF q < ending THEN q ELSE ending),
                                  Between(t, Larger(p, ending + 2), q), <<>>)
        /\ Split(u, p, q) = Delta(Between(u, p, IF q < end THEN q ELSE end),
                                  Between(u, Larger(p, end + 2), q), <<>>)
    BY <2>1, SplitFields
  <2>8. CASE end + 2 <= Len(t)
    <3>1. Agree(u, t)
      BY DEF Agree
    <3>2. ending = end
      BY <2>1, <2>3, <2>8, <3>1, SameFirst DEF Reasons
    <3> HIDE DEF end, ending
    <3>3. Between(t, p, IF q < end THEN q ELSE end) = Between(u, p, IF q < end THEN q ELSE end)
      <4>1. (IF q < end THEN q ELSE end) \in 0..Len(t) /\ (IF q < end THEN q ELSE end) <= Len(u)
        BY <2>1, <2>4, <2>8
      <4> QED BY <2>1, <4>1, SameBetween
    <3>4. Between(t, Larger(p, end + 2), q) = Between(u, Larger(p, end + 2), q)
      <4>1. Larger(p, end + 2) \in Nat
        BY <2>1, <2>4 DEF Larger
      <4> QED BY <2>1, <4>1, SameBetween
    <3> QED BY <2>7, <3>2, <3>3, <3>4
  <2>9. CASE ~(end + 2 <= Len(t))
    <3>1. ending = Len(t)
      <4> SUFFICES ASSUME ending # Len(t) PROVE FALSE
        OBVIOUS
      <4>1. ending + 2 <= Len(u) /\ ending < end
        BY <2>1, <2>4, <2>5, <2>6, <2>9
      <4>2. end = ending
        BY <2>1, <2>3, <4>1, SameFirst
      <4> QED BY <2>4, <4>1, <4>2
    <3> HIDE DEF end, ending
    <3>2. q <= end
      BY <1>3, <2>1, <2>4, <2>9
    <3>3. /\ (IF q < ending THEN q ELSE ending) = q /\ (IF q < end THEN q ELSE end) = q
          /\ q <= Larger(p, ending + 2) /\ q <= Larger(p, end + 2)
          /\ Larger(p, ending + 2) \in Nat /\ Larger(p, end + 2) \in Nat
      BY <1>3, <2>1, <2>4, <2>5, <3>1, <3>2 DEF Larger
    <3>4. /\ Between(t, p, q) = Between(u, p, q)
          /\ Between(t, Larger(p, ending + 2), q) = <<>> /\ Between(u, Larger(p, end + 2), q) = <<>>
      BY <2>1, <3>3, SameBetween, EmptyBetween
    <3> QED BY <2>7, <3>3, <3>4
  <2> QED BY <2>8, <2>9
<1> QED BY <1>1, <1>2, <1>3
\* A call that is complete in both is found by both.
LEMMA SameCall ==
    ASSUME NEW t \in Text, NEW u \in Text, Agree(t, u), NEW p \in 0..Len(t), p <= Len(u),
           Open(t, p) # Len(t), Close(t, p) # Len(t), Close(t, p) + 1 <= Len(u)
    PROVE  /\ Open(u, p) = Open(t, p) /\ Close(u, p) = Close(t, p)
           /\ Open(t, p) + 2 <= Close(t, p)
<1> DEFINE open == Open(t, p)
           close == Close(t, p)
<1>1. /\ Len(t) \in Nat /\ Len(u) \in Nat /\ p \in Nat /\ open \in Nat /\ close \in Nat
      /\ p <= open /\ open <= close /\ open \in 0..Len(t)
  <2>1. Len(t) \in Nat /\ Len(u) \in Nat /\ 0 \in 0..Len(t)
    BY DEF Text
  <2>2. open \in p..Len(t) /\ close \in open..Len(t)
    BY <2>1, TurnPositions
  <2> HIDE DEF open, close
  <2> QED BY <2>1, <2>2
<1>2. Tools /\ open = FirstOf(t, {ToolOpen}, p) /\ close = FirstOf(t, {ToolClose}, open)
  BY DEF Open, Close
<1> HIDE DEF open, close
<1>3. open \in Occurrences(t, {ToolOpen}, p) /\ close \in Occurrences(t, {ToolClose}, open)
  <2>1. open # Len(t) /\ close # Len(t)
    BY DEF open, close
  <2> QED BY <1>1, <1>2, <2>1, FirstOfIsFirst
<1>4. open + 2 <= Len(t) /\ t[open + 1] = "<" /\ t[open + 2] = "tool_call>"
  BY <1>1, <1>3, MarkersOccur
<1>5. close + 1 <= Len(t) /\ t[close + 1] = "</tool_call>"
  BY <1>1, <1>3, MarkersOccur
<1>6. open + 2 <= close
  <2>1. close + 1 # open + 1 /\ close + 1 # open + 2
    BY <1>4, <1>5
  <2> QED BY <1>1, <2>1
<1>7. close + 1 <= Len(u) /\ open # Len(t) /\ close # Len(t)
  BY DEF open, close
<1>8. Open(u, p) = open
  <2>1. FirstOf(u, {ToolOpen}, p) = FirstOf(t, {ToolOpen}, p)
    <3>1. FirstOf(t, {ToolOpen}, p) # Len(t) /\ FirstOf(t, {ToolOpen}, p) + Len(ToolOpen) <= Len(u)
      BY <1>1, <1>2, <1>6, <1>7, MarkersAreWords
    <3> QED BY <3>1, MarkersAreWords, SameFirst, ZenonT(40)
  <2> QED BY <1>2, <2>1 DEF Open
<1>9. FirstOf(u, {ToolClose}, open) = close
  <2>1. FirstOf(t, {ToolClose}, open) # Len(t) /\ FirstOf(t, {ToolClose}, open) + Len(ToolClose) <= Len(u)
    BY <1>1, <1>2, <1>7, MarkersAreWords
  <2> QED BY <1>1, <1>2, <2>1, MarkersAreWords, SameFirst, ZenonT(40)
<1> QED BY <1>6, <1>8, <1>9 DEF open, close, Close

\* What may be sent of the one text: all of it, or what is before its end and
\* is there in the other.
Sendable(t, u, limit) ==
    /\ limit \in 0..Len(t) /\ limit <= Len(u)
    /\ t = u \/ limit < Len(t) \/ Len(t) = 0

\* A call that is complete in the one is complete in the other.
CallsFit(t, u) == Tools => \A c \in 1..Len(t) : t[c] = "</tool_call>" => c <= Len(u)

LEMMA SameStay ==
    ASSUME NEW t \in Text, NEW u \in Text, Agree(t, u), Reasons(u), NEW limit, Sendable(t, u, limit),
           NEW p \in 0..Len(t), p <= Len(u)
    PROVE  /\ Stay(t, limit, p) \in 0..Len(t) /\ Stay(t, limit, p) <= Len(u)
           /\ p \in 0..Len(u) /\ Stay(t, limit, p) \in p..Open(u, p)
           /\ Split(t, p, Stay(t, limit, p)) = Split(u, p, Stay(t, limit, p))
<1> DEFINE stay == Stay(t, limit, p)
           open == Open(t, p)
           opening == Open(u, p)
<1>1. /\ Len(t) \in Nat /\ Len(u) \in Nat /\ p \in Nat /\ limit \in Nat
      /\ p \in 0..Len(u) /\ limit <= Len(t) /\ limit <= Len(u) /\ limit \in 0..Len(t)
  BY DEF Sendable, Text
<1>2. open \in p..Len(t) /\ opening \in p..Len(u)
  BY <1>1, TurnPositions
<1>3. stay = Larger(p, IF open < limit THEN open ELSE limit)
  BY DEF Stay
<1> HIDE DEF stay, open, opening
<1>4. open \in Nat /\ p <= open /\ open <= Len(t) /\ opening \in Nat /\ p <= opening /\ opening <= Len(u)
  BY <1>1, <1>2
<1>5. /\ stay \in Nat /\ p <= stay /\ stay <= Len(t) /\ stay <= Len(u)
      /\ stay # p => stay <= limit /\ stay <= open
  BY <1>1, <1>3, <1>4 DEF Larger
<1>6. stay <= opening
  <2> SUFFICES ASSUME opening < stay PROVE FALSE
    BY <1>4, <1>5
  <2>1. stay # p /\ stay <= limit /\ stay <= open /\ opening < limit /\ opening # Len(u)
    BY <1>1, <1>4, <1>5
  <2>2. Tools /\ opening = FirstOf(u, {ToolOpen}, p) /\ open = FirstOf(t, {ToolOpen}, p)
    BY <2>1 DEF opening, open, Open
  <2>3. opening + 2 <= Len(t)
    <3>1. CASE t = u
      <4>1. opening \in Occurrences(u, {ToolOpen}, p)
        BY <1>1, <2>1, <2>2, FirstOfIsFirst
      <4>2. opening + Len(ToolOpen) <= Len(u)
        BY <1>1, <4>1, MarkersAreWords, WordOccurs
      <4> QED BY <3>1, <4>2, MarkersAreWords
    <3>2. CASE limit < Len(t)
      BY <1>1, <1>4, <2>1, <3>2
    <3>3. CASE Len(t) = 0
      BY <1>1, <1>4, <2>1, <3>3
    <3> QED BY <3>1, <3>2, <3>3 DEF Sendable
  <2>4. Agree(u, t)
    BY DEF Agree
  <2>5. open = opening
    BY <1>1, <2>1, <2>2, <2>3, <2>4, MarkersAreWords, SameFirst, ZenonT(40)
  <2> QED BY <1>4, <1>5, <2>1, <2>5
<1>7. Split(t, p, stay) = Split(u, p, stay)
  <2>1. stay \in p..Len(t)
    BY <1>1, <1>5
  <2>2. stay = p \/ t = u \/ stay < Len(t)
    BY <1>1, <1>5 DEF Sendable
  <2> QED BY <1>5, <2>1, <2>2, SameSplit
<1>8. stay \in p..opening /\ stay \in 0..Len(t)
  BY <1>1, <1>4, <1>5, <1>6
<1> QED BY <1>1, <1>5, <1>7, <1>8 DEF stay, opening
\* The loop over the one text sends what a flush of the other begins with.
BeginsRest(t, limit, u, p) ==
    /\ Sent(t, limit, FALSE)[p].at \in p..Len(u)
    /\ Join(Sent(t, limit, FALSE)[p].out, Rest(u, Sent(t, limit, FALSE)[p].at)) = Rest(u, p)

\* What the loop sends of a text, and then a flush of what the text is cut to,
\* is what a flush alone would send.
LEMMA SentThenRest ==
    ASSUME NEW t \in Text, NEW u \in Text, Agree(t, u), Reasons(u), NEW limit, Sendable(t, u, limit),
           CallsFit(t, u), NEW p \in 0..Len(t), p <= Len(u)
    PROVE  BeginsRest(t, limit, u, p)
<1> DEFINE N == Len(t)
           s == Sent(t, limit, FALSE)
           Good(q) == s[q].at <= Len(u) /\ Join(s[q].out, Rest(u, s[q].at)) = Rest(u, q)
           good == {q \in 0..N : q <= Len(u) => Good(q)}
<1>1. N \in Nat /\ Len(u) \in Nat /\ limit \in 0..N
  BY DEF Sendable, Text
<1>2. \A q \in 0..N : s[q] = Turn(t, limit, FALSE, q, s) /\ s[q].out \in Channels /\ s[q].at \in q..N
  BY <1>1, SentUnfolds, SentIsTyped
<1> HIDE DEF s
<1>3. ASSUME NEW q \in 0..N, q <= Len(u), \A e \in (q + 1)..N : e \in good PROVE Good(q)
  <2> DEFINE open == Open(t, q)
             stay == Stay(t, limit, q)
             close == Close(t, q)
             end == close + 1
  <2>1. /\ q \in Nat /\ open \in Nat /\ close \in Nat /\ q <= open /\ open <= close /\ close <= N
        /\ open \in 0..N /\ q \in 0..Len(u)
    <3>1. open \in q..N /\ close \in open..N
      BY <1>1, TurnPositions
    <3> HIDE DEF open, stay, close
    <3> QED BY <1>1, <1>3, <3>1
  <2>2. /\ stay \in 0..N /\ stay <= Len(u) /\ stay \in q..Open(u, q)
        /\ Split(t, q, stay) = Split(u, q, stay)
    BY <1>3, SameStay
  <2>3. s[q] = IF q = N THEN [out |-> Nothing, at |-> q]
               ELSE IF stay # open \/ open = N THEN [out |-> Split(t, q, stay), at |-> stay]
               ELSE IF close < N
                 THEN [out |-> Join(Split(t, q, open), Join(Block(Between(t, open, end)), s[end].out)),
                       at |-> s[end].at]
               ELSE [out |-> Split(t, q, open), at |-> open]
    <3>1. s[q] = Turn(t, limit, FALSE, q, s)
      BY <1>2
    <3>2. close + Len(ToolClose) = end
      BY Markers
    <3> QED BY <3>1, <3>2, TurnCases, Zenon
  <2> HIDE DEF open, stay, close
  <2>4. CASE q = N
    <3>1. s[q].out = Nothing /\ s[q].at = q
      BY <2>3, <2>4
    <3>2. Join(Nothing, Rest(u, q)) = Rest(u, q)
      BY <2>1, RestCases, NothingJoins
    <3> QED BY <1>3, <3>1, <3>2
  <2>5. CASE s[q].out = Split(t, q, stay) /\ s[q].at = stay
    <3>1. Rest(u, q) = Join(Split(u, q, stay), Rest(u, stay))
      BY <2>1, <2>2, RestMoves
    <3> QED BY <2>2, <2>5, <3>1
  <2>6. CASE q # N /\ stay = open /\ open # N /\ close < N
    <3>1. end \in (q + 1)..N /\ end \in 0..N /\ end \in 1..N /\ end \in Nat /\ open < end /\ close # N
      BY <1>1, <2>1, <2>6
    <3>2. end <= Len(u)
      <4>1. Tools
        BY <2>6 DEF open, Open
      <4>2. FirstOf(t, {ToolClose}, open) # Len(t) /\ close = FirstOf(t, {ToolClose}, open)
        BY <3>1 DEF close, open, Close
      <4>3. t[end] = "</tool_call>"
        BY <2>1, <4>2, CloseIsOneSymbol
      <4> QED BY <3>1, <4>1, <4>3 DEF CallsFit
    <3>3. Open(u, q) = open /\ Close(u, q) = close /\ open + 2 <= close
      BY <1>3, <2>6, <3>1, <3>2, SameCall DEF open, close
    <3>4. Good(end)
      BY <1>3, <3>1, <3>2
    <3>5. /\ Split(t, q, open) = Split(u, q, open)
          /\ Between(t, open, end) = Between(u, open, end)
      <4>1. Between(t, open, end) = Between(u, open, end)
        BY <2>1, <3>1, <3>2, SameBetween
      <4> QED BY <2>2, <2>6, <4>1
    <3> DEFINE head == Split(u, q, open)
               block == Block(Between(u, open, end))
               tail == s[end].out
               rest == Rest(u, s[end].at)
    <3>6. s[q].out = Join(head, Join(block, tail)) /\ s[q].at = s[end].at
      BY <2>3, <2>6, <3>5
    <3>7. head \in Channels /\ block \in Channels /\ tail \in Channels /\ rest \in Channels
      <4>1. open \in 0..Len(u) /\ end \in 0..Len(u)
        BY <1>1, <2>1, <3>1, <3>2
      <4>2. s[end].at \in 0..Len(u)
        <5>1. s[end].at \in end..N /\ s[end].at <= Len(u)
          BY <1>2, <3>1, <3>4
        <5> QED BY <1>1, <3>1, <5>1
      <4>3. Between(u, open, end) \in Text
        BY <2>1, <4>1, BetweenIsText
      <4> QED BY <1>2, <2>1, <3>1, <4>1, <4>2, <4>3, SplitIsTyped, BlockIsTyped, RestCases
    <3>8. Rest(u, q) = Join(head, Join(block, Rest(u, end)))
      <4>1. open # Len(u) /\ close # Len(u)
        BY <1>1, <2>1, <3>1, <3>2
      <4> QED BY <2>1, <3>3, <4>1, RestCases
    <3>9. Rest(u, end) = Join(tail, rest) /\ s[end].at <= Len(u)
      BY <3>4
    <3> HIDE DEF head, block, tail, rest, Good
    <3>10. Join(Join(head, Join(block, tail)), rest) = Join(head, Join(block, Join(tail, rest)))
      <4>1. Join(block, tail) \in Channels
        BY <3>7, JoinIsTyped
      <4>2. Join(Join(head, Join(block, tail)), rest) = Join(head, Join(Join(block, tail), rest))
        BY <3>7, <4>1, JoinAssociates
      <4>3. Join(Join(block, tail), rest) = Join(block, Join(tail, rest))
        BY <3>7, JoinAssociates
      <4> QED BY <4>2, <4>3
    <3> QED BY <3>6, <3>8, <3>9, <3>10 DEF Good, rest
  <2>7. \/ s[q].out = Split(t, q, stay) /\ s[q].at = stay
        \/ q = N
        \/ q # N /\ stay = open /\ open # N /\ close < N
    BY <2>3
  <2> HIDE DEF Good
  <2> QED BY <2>4, <2>5, <2>6, <2>7
<1>4. \A q \in 0..N : q \in good
  <2>1. ASSUME NEW q \in 0..N, \A e \in (q + 1)..N : e \in good PROVE q \in good
    BY <1>3, <2>1
  <2> HIDE DEF good
  <2> QED BY <1>1, <2>1, FromTheEnd
<1>5. Good(p)
  BY <1>4
<1>6. s[p].at \in p..Len(u)
  <2>1. p \in 0..N /\ p \in Nat
    BY <1>1
  <2>2. s[p].at \in p..N
    BY <1>2, <2>1
  <2> QED BY <1>1, <1>5, <2>1, <2>2
<1> QED BY <1>5, <1>6 DEF s, BeginsRest
-----------------------------------------------------------------------------
(* A client that streams.                                                   *)

\* A flush sends everything, if no call is left open.
LEMMA NoCallIsOpen ==
    ASSUME NEW u \in Text, NEW p \in 0..Len(u), NEW final \in BOOLEAN,
           Tools => \A q \in Occurrences(u, {ToolOpen}, 0) : Occurrences(u, {ToolClose}, q) # {}
    PROVE  Sent(u, Len(u), final)[p].at = Len(u)
<1> DEFINE N == Len(u)
           s == Sent(u, N, final)
           good == {q \in 0..N : s[q].at = N}
<1>1. N \in Nat /\ N \in 0..N
  BY DEF Text
<1>2. \A q \in 0..N : s[q] = Turn(u, N, final, q, s)
  BY <1>1, SentUnfolds
<1> HIDE DEF s
<1>3. ASSUME NEW q \in 0..N, \A e \in (q + 1)..N : e \in good PROVE s[q].at = N
  <2> DEFINE open == Open(u, q)
             close == Close(u, q)
  <2>1. open \in q..N /\ close \in open..N
    BY <1>1, TurnPositions
  <2>2. Stay(u, N, q) = open
    <3> HIDE DEF open
    <3>1. Stay(u, N, q) = Larger(q, IF open < N THEN open ELSE N)
      BY DEF Stay, open
    <3> QED BY <1>1, <2>1, <3>1 DEF Larger
  <2>3. s[q] = IF q = N THEN [out |-> Nothing, at |-> q]
               ELSE IF open = N THEN [out |-> Split(u, q, open), at |-> open]
               ELSE IF close < N
                 THEN [out |-> Join(Split(u, q, open), Join(Block(Between(u, open, close + 1)), s[close + 1].out)),
                       at |-> s[close + 1].at]
               ELSE IF final
                 THEN [out |-> Join(Split(u, q, open), Split(u, open, N)), at |-> N]
               ELSE [out |-> Split(u, q, open), at |-> open]
    <3>1. s[q] = Turn(u, N, final, q, s)
      BY <1>2
    <3> QED BY <2>2, <3>1, TurnCases, Markers
  <2>4. q \in Nat /\ q <= open /\ open \in Nat /\ close \in Nat /\ open <= close /\ close <= N /\ open <= N
    <3> HIDE DEF open, close
    <3> QED BY <1>1, <2>1
  <2>5. open # N => close < N
    <3> SUFFICES ASSUME open # N PROVE close < N
      OBVIOUS
    <3>1. Tools /\ open = FirstOf(u, {ToolOpen}, q) /\ close = FirstOf(u, {ToolClose}, open)
      BY DEF Open, Close
    <3> HIDE DEF open, close
    <3>2. open \in Occurrences(u, {ToolOpen}, q)
      BY <1>1, <3>1, FirstOfIsFirst
    <3>3. open \in Occurrences(u, {ToolOpen}, 0)
      BY <1>1, <2>4, <3>2 DEF Occurrences
    <3>4. PICK c \in Occurrences(u, {ToolClose}, open) : TRUE
      BY <3>1, <3>3
    <3>5. open \in 0..N
      BY <1>1, <2>4
    <3>6. close <= c /\ c + 1 <= N /\ c \in open..N
      <4>1. close <= c
        BY <3>1, <3>5, FirstOfIsFirst
      <4>2. c + 1 <= N
        BY <3>5, MarkersOccur
      <4> QED BY <4>1, <4>2 DEF Occurrences
    <3> QED BY <1>1, <2>4, <3>6
  <2> HIDE DEF open, close
  <2>6. CASE close < N
    <3>1. close + 1 \in (q + 1)..N
      BY <1>1, <2>4, <2>6
    <3>2. s[close + 1].at = N
      BY <1>3, <3>1
    <3> QED BY <2>3, <2>6, <3>2
  <2>7. CASE ~(close < N)
    BY <2>3, <2>5, <2>7
  <2> QED BY <2>6, <2>7
<1>4. \A q \in 0..N : q \in good
  <2>1. ASSUME NEW q \in 0..N, \A e \in (q + 1)..N : e \in good PROVE q \in good
    BY <1>3, <2>1
  <2> HIDE DEF good
  <2> QED BY <1>1, <2>1, FromTheEnd
<1> QED BY <1>4 DEF s
LEMMA CutOfWhole == ASSUME NEW t \in Text, ~HasStop(t) PROVE Cut(t) = t
<1>1. Cut(t) \in Seq(Symbols) /\ t \in Seq(Symbols) /\ Len(Cut(t)) = Len(t)
      /\ \A i \in 1..Len(t) : Cut(t)[i] = t[i]
  BY CutIsText DEF Text
<1> QED BY <1>1, SeqEqual

\* A chunk before the end: what is sent is what a flush would begin with,
\* whatever arrives later.
LEMMA DrainThenRest ==
    ASSUME StopsEndWithACall, NEW t \in Text, NEW ids \in Text, NEW p \in 0..Len(t),
           ~HasStop(t), Waits(t, p), Reasons(Cut(t \o ids))
    PROVE  Join(Drain(t, p, FALSE).out, Rest(Cut(t \o ids), Drain(t, p, FALSE).at))
             = Rest(Cut(t \o ids), p)
<1> DEFINE new == t \o ids
           u == Cut(new)
           limit == Larger(Len(t), Holdback) - Holdback
           d == Drain(t, p, FALSE)
<1>1. /\ new \in Text /\ Len(t) \in Nat /\ \A i \in 1..Len(t) : new[i] = t[i]
  BY ConcatProperties DEF Text
<1>2. u \in Text /\ Len(u) \in Nat /\ Len(u) = FirstOf(new, Stops, 0) /\ \A i \in 1..Len(u) : u[i] = new[i]
  <2> HIDE DEF new
  <2>1. u \in Text /\ Len(u) = FirstOf(new, Stops, 0) /\ \A i \in 1..Len(u) : u[i] = new[i]
    BY <1>1, CutIsText
  <2> HIDE DEF u
  <2> QED BY <2>1 DEF Text
<1>3. p <= Len(u)
  BY <1>2, StopIsAhead
<1>4. limit \in 0..Len(t) /\ (limit < Len(t) \/ Len(t) = 0)
  BY <1>1, HoldbackCoversStops DEF Larger
<1>5. limit <= Len(u)
  <2>1. Waits(t, limit)
    BY <1>4 DEF Waits, Paused
  <2> HIDE DEF limit
  <2> QED BY <1>2, <1>4, <2>1, StopIsAhead
<1>6. CallsFit(t, u)
  <2> SUFFICES ASSUME Tools, NEW c \in 1..Len(t), t[c] = "</tool_call>" PROVE c <= Len(u)
    BY DEF CallsFit
  <2>1. Waits(t, c) /\ c \in 0..Len(t)
    BY DEF Waits, Paused
  <2> QED BY <1>2, <2>1, StopIsAhead
<1>7. d = IF p < Len(t) THEN Sent(t, limit, FALSE)[p] ELSE [out |-> Nothing, at |-> p]
  BY CutOfWhole DEF Drain
<1>8. Agree(t, u)
  <2> HIDE DEF new, u
  <2> QED BY <1>1, <1>2 DEF Agree
<1>9. Reasons(u)
  OBVIOUS
<1> HIDE DEF u, new, limit, d
<1>10. CASE p < Len(t)
  <2>1. Sendable(t, u, limit)
    BY <1>4, <1>5 DEF Sendable
  <2>2. BeginsRest(t, limit, u, p)
    BY <1>2, <1>3, <1>6, <1>8, <1>9, <2>1, SentThenRest
  <2> QED BY <1>7, <1>10, <2>2 DEF u, new, d, BeginsRest
<1>11. CASE ~(p < Len(t))
  <2>1. d.out = Nothing /\ d.at = p
    BY <1>7, <1>11
  <2>2. p \in 0..Len(u)
    BY <1>1, <1>2, <1>3
  <2>3. Join(Nothing, Rest(u, p)) = Rest(u, p)
    BY <1>2, <2>2, RestCases, NothingJoins
  <2> QED BY <2>1, <2>3 DEF u, new, d
<1> QED BY <1>10, <1>11

\* The last chunk, and the flush.
LEMMA LastDrains ==
    ASSUME NEW t \in Text, NEW p \in Nat, p <= Len(Cut(t))
    PROVE  LET u == Cut(t)
               d == Drain(t, p, FALSE)
           IN  /\ Reasons(u) => Join(d.out, Rest(u, d.at)) = Rest(u, p)
               /\ HasStop(t) /\ (Tools => \A q \in Occurrences(u, {ToolOpen}, 0) :
                                             Occurrences(u, {ToolClose}, q) # {})
                    => d.at = Len(u)
               /\ Drain(t, p, TRUE).out = Rest(u, p)
<1> DEFINE u == Cut(t)
           limit == IF HasStop(t) THEN Len(u) ELSE Larger(Len(u), Holdback) - Holdback
           d == Drain(t, p, FALSE)
           flushed == Drain(t, p, TRUE)
<1>1. u \in Text /\ Len(u) \in Nat /\ p \in 0..Len(u)
  <2>1. u \in Text
    BY CutIsText
  <2> QED BY <2>1 DEF Text
<1>2. limit \in 0..Len(u)
  <2> HIDE DEF u
  <2> QED BY <1>1, HoldbackCoversStops DEF Larger
<1>3. /\ d = IF p < Len(u) THEN Sent(u, limit, FALSE)[p] ELSE [out |-> Nothing, at |-> p]
      /\ flushed = IF p < Len(u) THEN Sent(u, Len(u), TRUE)[p] ELSE [out |-> Nothing, at |-> p]
  BY DEF Drain
<1>4. HasStop(t) => limit = Len(u)
  OBVIOUS
<1> HIDE DEF u, limit, d, flushed
<1>5. CASE p < Len(u)
  <2>1. ASSUME Reasons(u) PROVE Join(d.out, Rest(u, d.at)) = Rest(u, p)
    <3>1. Sendable(u, u, limit) /\ Agree(u, u) /\ CallsFit(u, u)
      BY <1>1, <1>2 DEF Sendable, Agree, CallsFit
    <3>2. BeginsRest(u, limit, u, p)
      BY <1>1, <2>1, <3>1, SentThenRest
    <3> QED BY <1>3, <1>5, <3>2 DEF BeginsRest
  <2>2. ASSUME HasStop(t), Tools => \A q \in Occurrences(u, {ToolOpen}, 0) : Occurrences(u, {ToolClose}, q) # {}
        PROVE  d.at = Len(u)
    BY <1>1, <1>3, <1>4, <1>5, <2>2, NoCallIsOpen
  <2> QED BY <1>3, <1>5, <2>1, <2>2 DEF Rest, u, d, flushed
<1>6. CASE ~(p < Len(u))
  <2>1. d.out = Nothing /\ d.at = p /\ p = Len(u) /\ flushed.out = Nothing
    BY <1>1, <1>3, <1>6
  <2>2. Rest(u, p) = Nothing /\ Rest(u, p) \in Channels
    BY <1>1, <2>1, RestCases
  <2> QED BY <2>1, <2>2, NothingJoins DEF u, d, flushed
<1> QED BY <1>5, <1>6
-----------------------------------------------------------------------------
(* The answer without streaming.                                            *)

\* Where a word is found in the end of a text.
LEMMA FoundInTheEnd ==
    ASSUME NEW u \in Text, NEW b \in 0..Len(u), NEW w \in Text \ {<<>>}, NEW r \in 0..(Len(u) - b)
    PROVE  FirstOf(Between(u, b, Len(u)), {w}, r) = FirstOf(u, {w}, b + r) - b
<1> DEFINE N == Len(u)
           a == Between(u, b, N)
           f == FirstOf(a, {w}, r)
           g == FirstOf(u, {w}, b + r)
<1>1. N \in Nat /\ b \in Nat /\ r \in Nat /\ b <= N /\ N \in 0..N /\ b + r \in 0..N /\ Len(w) \in Nat \ {0}
  <2>1. N \in Nat
    BY DEF Text
  <2>2. Len(w) \in Nat \ {0}
    BY EmptySeq DEF Text
  <2> QED BY <2>1, <2>2
<1>2. a \in Text /\ Len(a) = N - b /\ \A i \in 1..(N - b) : a[i] = u[b + i]
  <2>1. /\ a \in Text /\ Len(a) = (IF b < N THEN N - b ELSE 0)
        /\ \A i \in 1..(N - b) : a[i] = u[b + i]
    BY <1>1, BetweenIsText
  <2> HIDE DEF a, N
  <2> QED BY <1>1, <2>1
<1> HIDE DEF a
<1>3. r \in 0..Len(a)
  BY <1>2
<1>4. f \in r..Len(a) /\ f \in Occurrences(a, {w}, r) \cup {Len(a)} /\ \A q \in Occurrences(a, {w}, r) : f <= q
  BY <1>2, <1>3, FirstOfIsFirst
<1>5. g \in (b + r)..N /\ g \in Occurrences(u, {w}, b + r) \cup {N} /\ \A q \in Occurrences(u, {w}, b + r) : g <= q
  BY <1>1, FirstOfIsFirst
<1> HIDE DEF f, g, N
<1>6. ASSUME NEW q \in Nat PROVE q \in Occurrences(a, {w}, r) <=> b + q \in Occurrences(u, {w}, b + r)
  <2>1. q \in Occurrences(a, {w}, r) <=> q \in r..Len(a) /\ IsAt(a, w, q)
    BY <1>2, <1>3, WordIsAt
  <2>2. b + q \in Occurrences(u, {w}, b + r) <=> b + q \in (b + r)..N /\ IsAt(u, w, b + q)
    BY <1>1, WordIsAt DEF N
  <2>3. q \in r..Len(a) <=> b + q \in (b + r)..N
    BY <1>1, <1>2
  <2>4. q + Len(w) <= Len(a) <=> (b + q) + Len(w) <= N
    BY <1>1, <1>2
  <2>5. ASSUME q + Len(w) <= Len(a), NEW i \in 1..Len(w) PROVE a[q + i] = u[(b + q) + i]
    <3>1. q + i \in 1..(N - b) /\ b + (q + i) = (b + q) + i
      BY <1>1, <1>2, <2>5
    <3> QED BY <1>2, <3>1
  <2>6. IsAt(a, w, q) <=> IsAt(u, w, b + q)
    BY <2>4, <2>5 DEF IsAt, N
  <2> QED BY <2>1, <2>2, <2>3, <2>6
<1>7. f \in Nat /\ g - b \in Nat /\ b + (g - b) = g /\ f <= N - b /\ g <= N
  BY <1>1, <1>2, <1>4, <1>5
<1>8. CASE f = Len(a) /\ g = N
  BY <1>2, <1>8 DEF f, g, a, N
<1>9. CASE f # Len(a)
  <2>1. b + f \in Occurrences(u, {w}, b + r) /\ f + Len(w) <= Len(a)
    <3>1. f \in Occurrences(a, {w}, r)
      BY <1>4, <1>9
    <3> QED BY <1>2, <1>3, <1>6, <1>7, <3>1, WordOccurs
  <2>2. g <= b + f /\ g # N
    <3>1. g <= b + f
      BY <1>5, <2>1
    <3> QED BY <1>1, <1>2, <1>7, <2>1, <3>1
  <2>3. g - b \in Occurrences(a, {w}, r)
    BY <1>5, <1>6, <1>7, <2>2
  <2>4. f <= g - b
    BY <1>4, <2>3
  <2>5. f = g - b
    BY <1>1, <1>7, <2>2, <2>4
  <2> QED BY <2>5 DEF f, g, a, N
<1>10. CASE g # N
  <2>1. g - b \in Occurrences(a, {w}, r)
    BY <1>5, <1>6, <1>7, <1>10
  <2>2. f <= g - b
    BY <1>4, <2>1
  <2>3. f # Len(a)
    <3>1. g - b < N - b /\ Len(a) = N - b
      BY <1>1, <1>2, <1>7, <1>10, SMTT(30)
    <3> QED BY <1>1, <1>7, <2>2, <3>1
  <2> QED BY <1>9, <2>3
<1> QED BY <1>8, <1>9, <1>10

LEMMA BetweenInTheEnd ==
    ASSUME NEW u \in Text, NEW b \in 0..Len(u), NEW p \in Nat, NEW q \in 0..(Len(u) - b)
    PROVE  Between(Between(u, b, Len(u)), p, q) = Between(u, b + p, b + q)
<1> DEFINE N == Len(u)
           a == Between(u, b, N)
<1>1. N \in Nat /\ b \in Nat /\ b <= N /\ N \in 0..N /\ b + q \in 0..N /\ q \in Nat /\ b + p \in Nat
  BY DEF Text
<1>2. a \in Text /\ Len(a) = N - b /\ \A i \in 1..(N - b) : a[i] = u[b + i]
  <2>1. /\ a \in Text /\ Len(a) = (IF b < N THEN N - b ELSE 0)
        /\ \A i \in 1..(N - b) : a[i] = u[b + i]
    BY <1>1, BetweenIsText
  <2> HIDE DEF a, N
  <2> QED BY <1>1, <2>1
<1> HIDE DEF a, N
<1>3. CASE p < q
  <2>1. /\ Between(a, p, q) \in Text /\ Len(Between(a, p, q)) = (IF p < q THEN q - p ELSE 0)
        /\ \A i \in 1..(q - p) : Between(a, p, q)[i] = a[p + i]
    <3>1. q \in 0..Len(a)
      BY <1>2 DEF N
    <3> QED BY <1>2, <3>1, BetweenIsText
  <2>2. /\ Between(u, b + p, b + q) \in Text
        /\ Len(Between(u, b + p, b + q)) = (IF b + p < b + q THEN (b + q) - (b + p) ELSE 0)
        /\ \A i \in 1..((b + q) - (b + p)) : Between(u, b + p, b + q)[i] = u[(b + p) + i]
    BY <1>1, BetweenIsText DEF N
  <2>3. Len(Between(a, p, q)) = q - p /\ Len(Between(u, b + p, b + q)) = q - p
    <3>1. b + p < b + q /\ (b + q) - (b + p) = q - p
      BY <1>1, <1>3
    <3> QED BY <1>3, <2>1, <2>2, <3>1
  <2>4. ASSUME NEW i \in 1..(q - p) PROVE Between(a, p, q)[i] = Between(u, b + p, b + q)[i]
    <3>1. p + i \in 1..(N - b) /\ b + (p + i) = (b + p) + i /\ i \in 1..((b + q) - (b + p))
      BY <1>1 DEF N
    <3> QED BY <1>2, <2>1, <2>2, <3>1
  <2> QED BY <2>1, <2>2, <2>3, <2>4, SeqEqual DEF Text, a, N
<1>4. CASE ~(p < q)
  BY <1>1, <1>4 DEF Between, a, N
<1> QED BY <1>3, <1>4
\* Without a complete call, a flush is one split.
LEMMA RestWithoutCall ==
    ASSUME NEW u \in Text, NEW p \in 0..Len(u), Close(u, p) = Len(u)
    PROVE  Rest(u, p) = Split(u, p, Len(u))
<1> DEFINE N == Len(u)
           open == Open(u, p)
<1>1. N \in Nat /\ N \in 0..N /\ open \in p..N
  BY TurnPositions DEF Text
<1>2. CASE open # N
  <2>1. Rest(u, p) = Join(Split(u, p, open), Split(u, open, N))
    BY <1>2, RestCases
  <2>2. N \in open..N
    <3> HIDE DEF open, N
    <3> QED BY <1>1
  <2> QED BY <1>1, <2>1, <2>2, SplitAdds
<1>3. CASE open = N
  BY <1>1, <1>3, RestCases, EmptySplit
<1> QED BY <1>2, <1>3

\* Where the answer begins.
Answer(u) == FirstOf(u, {ThinkEnd}, 0) + 2

LEMMA AnswerBegins ==
    ASSUME NEW u \in Text, Reasons(u)
    PROVE  /\ Answer(u) \in 0..Len(u) /\ Answer(u) \in Nat
           /\ FirstOf(u, {ThinkEnd}, 0) \in 0..Len(u) /\ FirstOf(u, {ThinkEnd}, 0) \in Nat
           /\ u[FirstOf(u, {ThinkEnd}, 0) + 1] = "<" /\ u[FirstOf(u, {ThinkEnd}, 0) + 2] = "/think>"
<1> DEFINE end == FirstOf(u, {ThinkEnd}, 0)
<1>1. Len(u) \in Nat /\ 0 \in 0..Len(u)
  BY DEF Text
<1>2. end \in Occurrences(u, {ThinkEnd}, 0) /\ end \in 0..Len(u)
  BY <1>1, FirstOfIsFirst DEF Reasons
<1> HIDE DEF end
<1>3. end + 2 <= Len(u) /\ u[end + 1] = "<" /\ u[end + 2] = "/think>"
  BY <1>1, <1>2, MarkersOccur
<1> QED BY <1>1, <1>2, <1>3 DEF end, Answer

LEMMA SplitOfAnswer ==
    ASSUME NEW u \in Text, Reasons(u), NEW p \in Answer(u)..Len(u), NEW q \in p..Len(u)
    PROVE  Split(u, p, q) = Delta(<<>>, Between(u, p, q), <<>>)
<1> DEFINE end == FirstOf(u, {ThinkEnd}, 0)
<1>1. /\ Len(u) \in Nat /\ end \in Nat /\ p \in Nat /\ q \in Nat /\ end + 2 <= p /\ p <= q
      /\ p \in 0..Len(u) /\ q \in 0..Len(u)
  <2>1. Len(u) \in Nat
    BY DEF Text
  <2>3. end \in Nat
    BY AnswerBegins
  <2>2. Answer(u) = end + 2
    BY DEF Answer
  <2> HIDE DEF end
  <2> QED BY <2>1, <2>2, <2>3
<1>2. Split(u, p, q) = Delta(Between(u, p, IF q < end THEN q ELSE end), Between(u, Larger(p, end + 2), q), <<>>)
  BY <1>1, SplitFields
<1> HIDE DEF end
<1>3. Between(u, p, IF q < end THEN q ELSE end) = <<>>
  <2>1. (IF q < end THEN q ELSE end) = end /\ end <= p
    BY <1>1
  <2> QED BY <1>1, <2>1, EmptyBetween
<1>4. Larger(p, end + 2) = p
  BY <1>1 DEF Larger
<1> QED BY <1>2, <1>3, <1>4

\* One turn of the loop of _parse_tool_calls.
CallsTurn(a, f, r) ==
    LET open == FirstOf(a, {ToolOpen}, r)
        close == FirstOf(a, {ToolClose}, open)
        end == close + Len(ToolClose)
    IN IF close = Len(a) THEN Delta(<<>>, Between(a, r, Len(a)), <<>>)
       ELSE Join(Delta(<<>>, Between(a, r, open), <<>>), Join(Block(Between(a, open, end)), f[end]))

\* The loop over the answer does what a flush does, turn by turn.
LEMMA CallsTurnIsRest ==
    ASSUME NEW u \in Text, Reasons(u), Tools, NEW r \in 0..(Len(u) - Answer(u)), NEW f,
           \A e \in (r + 1)..(Len(u) - Answer(u)) : f[e] = Rest(u, Answer(u) + e)
    PROVE  CallsTurn(Between(u, Answer(u), Len(u)), f, r) = Rest(u, Answer(u) + r)
<1> DEFINE N == Len(u)
           b == Answer(u)
           M == N - b
           a == Between(u, b, N)
           p == b + r
           open == Open(u, p)
           close == Close(u, p)
           opening == FirstOf(a, {ToolOpen}, r)
           closing == FirstOf(a, {ToolClose}, opening)
<1>1. N \in Nat /\ b \in Nat /\ b <= N /\ M \in Nat /\ r \in Nat /\ r <= M /\ p \in b..N /\ p \in 0..N
      /\ b \in 0..N /\ N \in 0..N
  <2>1. N \in Nat /\ b \in 0..N /\ b \in Nat
    BY AnswerBegins DEF Text
  <2> HIDE DEF b, N
  <2> QED BY <2>1 DEF b, N
<1>2. a \in Text /\ Len(a) = M
  <2>1. a \in Text /\ Len(a) = (IF b < N THEN N - b ELSE 0)
    BY <1>1, BetweenIsText
  <2> HIDE DEF a, b, N
  <2> QED BY <1>1, <2>1
<1>3. open \in p..N /\ close \in open..N
  BY <1>1, TurnPositions
<1>4. open = FirstOf(u, {ToolOpen}, p) /\ close = FirstOf(u, {ToolClose}, open)
  BY DEF Open, Close
<1>5. opening = open - b
  BY <1>1, <1>4, FoundInTheEnd, MarkersAreWords
<1>6. open - b \in 0..M /\ b + (open - b) = open /\ open \in Nat /\ close \in Nat /\ open <= close /\ close <= N
      /\ open \in p..N
  <2> HIDE DEF open, close, N, b
  <2> QED BY <1>1, <1>3 DEF N
<1>7. closing = close - b
  <2>1. FirstOf(a, {ToolClose}, open - b) = FirstOf(u, {ToolClose}, b + (open - b)) - b
    <3> DEFINE o == open - b
    <3>1. o \in 0..(Len(u) - b)
      BY <1>6
    <3> HIDE DEF o, open
    <3>2. FirstOf(Between(u, b, Len(u)), {ToolClose}, o) = FirstOf(u, {ToolClose}, b + o) - b
      BY <1>1, <3>1, FoundInTheEnd, MarkersAreWords
    <3> QED BY <3>2 DEF o
  <2> HIDE DEF open, close
  <2> QED BY <1>4, <1>5, <1>6, <2>1
<1>8. CallsTurn(a, f, r) = IF closing = M THEN Delta(<<>>, Between(a, r, M), <<>>)
                           ELSE Join(Delta(<<>>, Between(a, r, opening), <<>>),
                                     Join(Block(Between(a, opening, closing + 1)), f[closing + 1]))
  BY <1>2, MarkersAreWords DEF CallsTurn
<1> HIDE DEF open, close, opening, closing
<1>9. CASE close = N
  <2>1. closing = M
    BY <1>7, <1>9
  <2>2. Rest(u, p) = Split(u, p, N)
    BY <1>1, <1>9, RestWithoutCall DEF close
  <2>3. Split(u, p, N) = Delta(<<>>, Between(u, p, N), <<>>)
    <3>1. p \in Answer(u)..Len(u) /\ N \in p..Len(u)
      BY <1>1
    <3> QED BY <3>1, SplitOfAnswer
  <2>4. Between(a, r, M) = Between(u, p, N)
    <3>1. b + M = N /\ M \in 0..(Len(u) - b) /\ r \in Nat
      BY <1>1
    <3>2. Between(a, r, M) = Between(u, b + r, b + M)
      <4> HIDE DEF M, b
      <4> QED BY <1>1, <3>1, BetweenInTheEnd
    <3> QED BY <3>1, <3>2
  <2> QED BY <1>8, <2>1, <2>2, <2>3, <2>4
<1>10. CASE close # N
  <2>1. closing # M /\ open # N /\ closing + 1 \in (r + 1)..M /\ b + (closing + 1) = close + 1
        /\ closing + 1 \in 0..M
    <3> HIDE DEF N, b
    <3> QED BY <1>1, <1>3, <1>6, <1>7, <1>10 DEF N
  <2>2. Rest(u, p) = Join(Split(u, p, open), Join(Block(Between(u, open, close + 1)), Rest(u, close + 1)))
    BY <1>1, <1>10, <2>1, RestCases DEF open, close
  <2>3. Split(u, p, open) = Delta(<<>>, Between(u, p, open), <<>>)
    <3>1. p \in Answer(u)..Len(u) /\ open \in p..Len(u)
      BY <1>1, <1>6
    <3> QED BY <3>1, SplitOfAnswer
  <2>4. Between(a, r, opening) = Between(u, p, open)
    <3>1. opening \in 0..(Len(u) - b) /\ b + opening = open
      BY <1>5, <1>6
    <3>2. Between(a, r, opening) = Between(u, b + r, b + opening)
      <4> HIDE DEF b
      <4> QED BY <1>1, <3>1, BetweenInTheEnd
    <3> QED BY <3>1, <3>2
  <2>5. Between(a, opening, closing + 1) = Between(u, open, close + 1)
    <3>1. opening \in Nat /\ b + opening = open /\ closing + 1 \in 0..(Len(u) - b)
      BY <1>5, <1>6, <2>1
    <3>2. Between(a, opening, closing + 1) = Between(u, b + opening, b + (closing + 1))
      <4> DEFINE e == closing + 1
      <4>1. e \in 0..(Len(u) - b)
        BY <3>1
      <4> HIDE DEF b, e
      <4> QED BY <1>1, <3>1, <4>1, BetweenInTheEnd
    <3> QED BY <2>1, <3>1, <3>2
  <2>6. f[closing + 1] = Rest(u, close + 1)
    <3>1. f[closing + 1] = Rest(u, Answer(u) + (closing + 1))
      BY <2>1
    <3> QED BY <2>1, <3>1
  <2> QED BY <1>8, <2>1, <2>2, <2>3, <2>4, <2>5, <2>6
<1> QED BY <1>9, <1>10
LEMMA CallsTurnIsLocal ==
    ASSUME NEW a \in Text, NEW r \in 0..Len(a), NEW f, NEW g, \A e \in (r + 1)..Len(a) : f[e] = g[e]
    PROVE  CallsTurn(a, f, r) = CallsTurn(a, g, r)
<1> DEFINE open == FirstOf(a, {ToolOpen}, r)
           close == FirstOf(a, {ToolClose}, open)
<1>1. Len(a) \in Nat /\ open \in r..Len(a) /\ open \in 0..Len(a)
  <2>1. Len(a) \in Nat /\ open \in r..Len(a)
    BY FirstOfIsFirst DEF Text
  <2> HIDE DEF open
  <2> QED BY <2>1
<1>2. close \in open..Len(a)
  <2> HIDE DEF open
  <2> QED BY <1>1, FirstOfIsFirst
<1>3. close # Len(a) => close + 1 \in (r + 1)..Len(a)
  <2> HIDE DEF open, close
  <2> QED BY <1>1, <1>2
<1>4. close # Len(a) => f[close + 1] = g[close + 1]
  BY <1>3
<1> QED BY <1>4, MarkersAreWords DEF CallsTurn

\* Without streaming the calls of the answer are those a flush sends.
LEMMA RestIsToolCalls ==
    ASSUME NEW u \in Text, Reasons(u), Tools
    PROVE  Rest(u, Answer(u)) = ToolCalls(Between(u, Answer(u), Len(u)))
<1> DEFINE N == Len(u)
           b == Answer(u)
           M == N - b
           a == Between(u, b, N)
           g == [r \in 0..M |-> Rest(u, b + r)]
           f == CHOOSE h : h = [r \in 0..Len(a) |-> CallsTurn(a, h, r)]
           good == {r \in 0..M : f[r] = g[r]}
<1>1. N \in Nat /\ b \in Nat /\ b <= N /\ M \in Nat /\ N \in 0..N
  <2>1. N \in Nat /\ b \in 0..N /\ b \in Nat
    BY AnswerBegins DEF Text
  <2> HIDE DEF b, N
  <2> QED BY <2>1 DEF b, N
<1>2. a \in Text /\ Len(a) = M
  <2>1. a \in Text /\ Len(a) = (IF b < N THEN N - b ELSE 0)
    BY <1>1, BetweenIsText
  <2> HIDE DEF a, b, N
  <2> QED BY <1>1, <2>1
<1>3. ToolCalls(a) = f[0]
  BY DEF ToolCalls, CallsTurn
<1>4. ASSUME NEW r \in 0..M PROVE g[r] = CallsTurn(a, g, r)
  <2>1. \A e \in (r + 1)..M : g[e] = Rest(u, b + e)
    BY <1>1
  <2>2. CallsTurn(a, g, r) = Rest(u, b + r)
    <3>1. /\ r \in 0..(Len(u) - Answer(u))
          /\ \A e \in (r + 1)..(Len(u) - Answer(u)) : g[e] = Rest(u, Answer(u) + e)
      BY <2>1
    <3> HIDE DEF g
    <3> QED BY <3>1, CallsTurnIsRest
  <2> QED BY <2>2
<1>5. g = [r \in 0..Len(a) |-> CallsTurn(a, g, r)]
  <2> HIDE DEF a, M
  <2> QED BY <1>2, <1>4
<1>6. f = [r \in 0..Len(a) |-> CallsTurn(a, f, r)]
  <2> HIDE DEF g, a
  <2> QED BY <1>5
<1> HIDE DEF f, g, a, M
<1>7. ASSUME NEW r \in 0..M, \A e \in (r + 1)..M : e \in good PROVE r \in good
  <2>1. \A e \in (r + 1)..Len(a) : f[e] = g[e]
    BY <1>2, <1>7
  <2>2. CallsTurn(a, f, r) = CallsTurn(a, g, r)
    BY <1>2, <2>1, CallsTurnIsLocal
  <2>3. f[r] = CallsTurn(a, f, r)
    BY <1>2, <1>6
  <2> QED BY <1>4, <2>2, <2>3
<1>8. \A r \in 0..M : r \in good
  <2> HIDE DEF good
  <2> QED BY <1>1, <1>7, FromTheEnd
<1>9. f[0] = g[0] /\ g[0] = Rest(u, b)
  <2>1. 0 \in 0..M /\ b + 0 = b
    BY <1>1
  <2>2. f[0] = g[0]
    BY <1>8, <2>1
  <2>3. g[0] = Rest(u, b + 0)
    BY <2>1 DEF g
  <2> QED BY <2>1, <2>2, <2>3
<1> QED BY <1>3, <1>9 DEF a

\* After its end there is no reasoning.
LEMMA RestHasNoReasoning ==
    ASSUME NEW u \in Text, Reasons(u), NEW p \in Answer(u)..Len(u)
    PROVE  Rest(u, p).reasoning = <<>>
<1> DEFINE N == Len(u)
           b == Answer(u)
           good == {q \in 0..N : b <= q => Rest(u, q).reasoning = <<>>}
<1>1. N \in Nat /\ b \in Nat /\ N \in 0..N
  BY AnswerBegins DEF Text
<1>2. <<>> \o <<>> = <<>>
  BY EmptySeq, ConcatEmptySeq
<1>3. ASSUME NEW q \in 0..N, b <= q, \A e \in (q + 1)..N : e \in good PROVE Rest(u, q).reasoning = <<>>
  <2> DEFINE open == Open(u, q)
             close == Close(u, q)
  <2>1. open \in q..N /\ close \in open..N
    BY <1>1, TurnPositions
  <2> HIDE DEF open, close
  <2>2. open \in Nat /\ close \in Nat /\ q <= open /\ open <= close /\ close <= N /\ q \in b..N /\ open \in 0..N
        /\ N \in q..N
    <3> HIDE DEF N, b
    <3> QED BY <1>1, <1>3, <2>1
  <2>3. CASE close = N
    <3>1. Rest(u, q) = Split(u, q, N)
      BY <2>3, RestWithoutCall DEF close
    <3>2. Split(u, q, N) = Delta(<<>>, Between(u, q, N), <<>>)
      BY <2>2, SplitOfAnswer
    <3> QED BY <3>1, <3>2 DEF Delta
  <2>4. CASE close # N
    <3> DEFINE head == Split(u, q, open)
               block == Block(Between(u, open, close + 1))
               tail == Rest(u, close + 1)
    <3>1. open # N /\ close + 1 \in 0..N /\ close + 1 \in (q + 1)..N /\ b <= close + 1
      BY <1>1, <1>3, <2>2, <2>4
    <3>2. Rest(u, q) = Join(head, Join(block, tail))
      BY <2>4, <3>1, RestCases DEF open, close
    <3>3. head = Delta(<<>>, Between(u, q, open), <<>>)
      BY <2>1, <2>2, SplitOfAnswer
    <3>4. head.reasoning = <<>>
      BY <3>3 DEF Delta
    <3>5. block.reasoning = <<>>
      BY DEF Block, Delta
    <3>6. tail.reasoning = <<>>
      BY <1>3, <3>1
    <3> HIDE DEF head, block, tail
    <3>7. /\ Join(block, tail).reasoning = block.reasoning \o tail.reasoning
          /\ Join(head, Join(block, tail)).reasoning = head.reasoning \o Join(block, tail).reasoning
      BY DEF Join, Delta
    <3> QED BY <1>2, <3>2, <3>4, <3>5, <3>6, <3>7
  <2> QED BY <2>3, <2>4
<1>4. \A q \in 0..N : q \in good
  <2>1. ASSUME NEW q \in 0..N, \A e \in (q + 1)..N : e \in good PROVE q \in good
    BY <1>3, <2>1
  <2> HIDE DEF good
  <2> QED BY <1>1, <2>1, FromTheEnd
<1>5. p \in 0..N /\ b <= p
  BY <1>1
<1> QED BY <1>4, <1>5
\* A flush of the whole sends the answer that is given without streaming.
LEMMA RestIsComplete ==
    ASSUME NEW t \in Text, Reasons(Cut(t)),
           FirstOf(Cut(t), {ThinkEnd}, 0) <= FirstOf(Cut(t), {ToolOpen}, 0)
    PROVE  Rest(Cut(t), 0) = Complete(t)
<1> DEFINE u == Cut(t)
           N == Len(u)
           end == FirstOf(u, {ThinkEnd}, 0)
           b == Answer(u)
           open == Open(u, 0)
           answer == Between(u, b, N)
           parsed == IF Tools THEN ToolCalls(answer) ELSE Delta(<<>>, answer, <<>>)
<1>1. u \in Text /\ Reasons(u)
  BY CutIsText
<1>2. Complete(t) = Delta(Before(u, end), parsed.content, parsed.calls)
  <2>1. end # N
    BY DEF Reasons
  <2>2. b = end + Len(ThinkEnd)
    BY MarkersAreWords DEF Answer
  <2> QED BY <2>1, <2>2 DEF Complete
<1>3. end <= FirstOf(u, {ToolOpen}, 0)
  OBVIOUS
<1> HIDE DEF u
<1>4. /\ N \in Nat /\ 0 \in 0..N /\ N \in 0..N /\ end \in 0..N /\ end \in Nat /\ b \in Nat /\ b \in 0..N
      /\ u[end + 1] = "<" /\ u[end + 2] = "/think>" /\ open \in 0..N /\ b = end + 2
  <2>1. N \in Nat /\ 0 \in 0..N /\ N \in 0..N
    BY <1>1 DEF Text
  <2>2. /\ b \in 0..N /\ b \in Nat /\ end \in 0..N /\ end \in Nat
        /\ u[end + 1] = "<" /\ u[end + 2] = "/think>"
    BY <1>1, AnswerBegins
  <2>3. open \in 0..N
    BY <1>1, <2>1, TurnPositions
  <2>4. b = end + 2
    BY DEF Answer
  <2> QED BY <2>1, <2>2, <2>3, <2>4
<1>5. b <= open
  <2>1. CASE open = N
    <3> HIDE DEF b, open, N
    <3> QED BY <1>4, <2>1
  <2>2. CASE open # N
    <3>1. Tools /\ open = FirstOf(u, {ToolOpen}, 0)
      BY <2>2 DEF Open
    <3>2. open \in Occurrences(u, {ToolOpen}, 0) /\ end <= open
      BY <1>1, <1>3, <1>4, <2>2, <3>1, FirstOfIsFirst
    <3> HIDE DEF end, open, N, b
    <3>3. u[open + 1] = "<" /\ u[open + 2] = "tool_call>"
      BY <1>1, <1>4, <3>2, MarkersOccur DEF N
    <3>4. open # end /\ open # end + 1
      BY <1>4, <3>3
    <3> QED BY <1>4, <3>2, <3>4
  <2> QED BY <2>1, <2>2
<1> HIDE DEF end, b, open, N, answer
<1>6. Rest(u, 0) = Join(Split(u, 0, b), Rest(u, b))
  <2>1. b \in 0..Open(u, 0)
    BY <1>4, <1>5 DEF open
  <2> QED BY <1>1, <1>4, <2>1, RestMoves DEF N
<1>7. Split(u, 0, b) = Delta(Before(u, end), <<>>, <<>>)
  <2>1. Split(u, 0, b) = Delta(Between(u, 0, IF b < end THEN b ELSE end), Between(u, Larger(0, end + 2), b), <<>>)
    BY <1>1, <1>4, SplitFields DEF N, end
  <2>2. (IF b < end THEN b ELSE end) = end /\ Larger(0, end + 2) = b
    BY <1>4 DEF Larger
  <2>3. Between(u, b, b) = <<>>
    BY <1>4, EmptyBetween
  <2>4. Between(u, 0, end) = Before(u, end)
    <3>1. CASE end = 0
      <4>1. Before(u, 0) = <<>>
        BY SubSeqEmpty DEF Before
      <4> QED BY <3>1, <4>1 DEF Between
    <3>2. CASE end # 0
      BY <1>4, <3>2 DEF Between, Before
    <3> QED BY <3>1, <3>2
  <2> QED BY <2>1, <2>2, <2>3, <2>4
<1>8. b \in Answer(u)..Len(u) /\ N \in b..N
  BY <1>4 DEF N, b
<1>9. Rest(u, b) = parsed
  <2>1. CASE Tools
    BY <1>1, <2>1, RestIsToolCalls DEF b, answer, N
  <2>2. CASE ~Tools
    <3>1. Close(u, b) = Len(u)
      <4>1. Open(u, b) = N
        BY <2>2 DEF Open, N
      <4>2. Close(u, b) \in N..N
        BY <1>1, <1>4, <4>1, TurnPositions DEF N
      <4> QED BY <1>4, <4>2 DEF N
    <3>2. Rest(u, b) = Split(u, b, N)
      BY <1>1, <1>4, <3>1, RestWithoutCall DEF N
    <3>3. Split(u, b, N) = Delta(<<>>, Between(u, b, N), <<>>)
      BY <1>1, <1>8, SplitOfAnswer DEF N
    <3> QED BY <2>2, <3>2, <3>3 DEF answer
  <2> QED BY <2>1, <2>2
<1> HIDE DEF parsed
<1>10. parsed \in Channels /\ parsed.reasoning = <<>>
  BY <1>1, <1>4, <1>8, <1>9, RestCases, RestHasNoReasoning DEF N
<1>11. Before(u, end) \in Text
  BY <1>1, <1>4, BeforeIsText DEF N
<1>12. Join(Delta(Before(u, end), <<>>, <<>>), parsed) = Delta(Before(u, end), parsed.content, parsed.calls)
  <2>1. parsed.content \in Text /\ parsed.calls \in Seq(Text)
    BY <1>10, DeltaOf
  <2>2. /\ Before(u, end) \o <<>> = Before(u, end)
        /\ <<>> \o parsed.content = parsed.content
        /\ <<>> \o parsed.calls = parsed.calls
    BY <1>11, <2>1, ConcatEmptySeq DEF Text
  <2> DEFINE head == Delta(Before(u, end), <<>>, <<>>)
  <2>3. head.reasoning = Before(u, end) /\ head.content = <<>> /\ head.calls = <<>>
    BY DEF Delta
  <2> HIDE DEF head
  <2>4. Join(head, parsed) = Delta(Before(u, end), parsed.content, parsed.calls)
    BY <1>10, <2>2, <2>3 DEF Join
  <2> QED BY <2>4 DEF head
<1> QED BY <1>2, <1>6, <1>7, <1>9, <1>12 DEF u
-----------------------------------------------------------------------------
(* The answer is streamed.                                                  *)

\* Whatever is still to come, what has been sent and a flush from there on are
\* what a flush of the whole would send.
Streamed ==
    phase = "streaming" =>
      /\ finish = "none"
      /\ \A ids \in Text : Reasons(Cut(text \o ids)) =>
            Join(out, Rest(Cut(text \o ids), emitted)) = Rest(Cut(text \o ids), 0)

\* At the end all of it is sent, but for a call a stop string has left open.
Ended ==
    phase = "over" /\ finish # "none" /\ Reasons(Cut(text)) /\ ~(upstream = "aborted" /\ InsideCall) =>
      /\ out = Rest(Cut(text), 0)
      /\ IF finish = "length" THEN ~HasStop(text) ELSE finish = FinishReason("stop", out.calls)

LEMMA ChunkStreams == StopsEndWithACall /\ IInv /\ Streamed /\ Chunk => Streamed' /\ Ended'
<1> SUFFICES ASSUME StopsEndWithACall, IInv, Streamed, Chunk PROVE Streamed' /\ Ended'
  OBVIOUS
<1>1. PICK ids \in Text :
        LET d == Drain(text \o ids, emitted, FALSE)
        IN /\ text' = text \o ids /\ text' \in Text /\ emitted \in 0..Len(text')
           /\ emitted' = d.at /\ out' = Join(out, d.out)
           /\ phase' = IF HasStop(text') THEN "over" ELSE "streaming"
           /\ HasStop(text') => /\ upstream' = "aborted"
                                /\ finish' = FinishReason("stop", out'.calls)
           /\ ~HasStop(text') => UNCHANGED <<upstream, finish>>
  BY ChunkDoes DEF IInv
<1>2. /\ text \in Text /\ emitted \in 0..Len(text) /\ emitted \in Nat /\ out \in Channels
      /\ ~HasStop(text) /\ Waits(text, emitted) /\ phase = "streaming"
  BY DEF IInv, TypeOK, HeldBack, Chunk, Text
<1>3. IInv'
  BY StepInv DEF Next
<1> DEFINE d == Drain(text', emitted, FALSE)
<1>4. emitted' = d.at /\ out' = Join(out, d.out)
  BY <1>1
<1>5. d.out \in Channels
  BY <1>1, DrainIsTyped
<1>6. Waits(text', emitted) /\ emitted <= FirstOf(text', Stops, 0)
  BY <1>1, <1>2, StillWaits, StopIsAhead
<1> HIDE DEF d
<1>7. ASSUME phase' = "streaming" PROVE Streamed'
  <2>1. ~HasStop(text') /\ finish' = "none"
    BY <1>1, <1>2, <1>7 DEF Streamed
  <2>2. ASSUME NEW more \in Text, Reasons(Cut(text' \o more))
        PROVE  Join(out', Rest(Cut(text' \o more), emitted')) = Rest(Cut(text' \o more), 0)
    <3> DEFINE u == Cut(text' \o more)
    <3>1. u \in Text /\ Len(u) = FirstOf(text' \o more, Stops, 0)
      <4>1. text' \o more \in Text
        BY <1>1, LongerText
      <4> QED BY <4>1, CutIsText
    <3>2. Join(out, Rest(u, emitted)) = Rest(u, 0)
      <4>1. text' \o more = text \o (ids \o more)
        BY <1>1, <1>2, TextAssociates
      <4>2. ids \o more \in Text
        BY LongerText
      <4> QED BY <1>2, <2>2, <4>1, <4>2 DEF Streamed
    <3>3. Join(d.out, Rest(u, d.at)) = Rest(u, emitted)
      BY <1>1, <1>6, <2>1, <2>2, DrainThenRest DEF d
    <3>4. Rest(u, d.at) \in Channels
      <4>1. emitted' \in 0..Len(text') /\ Waits(text', emitted')
        BY <1>3, <1>7 DEF IInv, HeldBack, TypeOK
      <4>2. emitted' <= Len(u)
        BY <1>1, <2>1, <3>1, <4>1, StopIsAhead
      <4> HIDE DEF u
      <4>3. emitted' \in Nat /\ Len(u) \in Nat
        <5>1. Len(text') \in Nat
          BY <1>1 DEF Text
        <5>2. Len(u) \in Nat
          BY <3>1 DEF Text
        <5> QED BY <4>1, <5>1, <5>2
      <4>4. d.at \in 0..Len(u)
        BY <1>4, <4>2, <4>3
      <4> QED BY <3>1, <4>4, RestCases
    <3>5. Join(Join(out, d.out), Rest(u, d.at)) = Join(out, Join(d.out, Rest(u, d.at)))
      <4> HIDE DEF u
      <4> QED BY <1>2, <1>5, <3>4, JoinAssociates
    <3> QED BY <1>4, <3>2, <3>3, <3>5
  <2> QED BY <2>1, <2>2 DEF Streamed
<1>8. ASSUME phase' = "over", Reasons(Cut(text')), ~InsideCall'
      PROVE  /\ out' = Rest(Cut(text'), 0)
             /\ finish' = FinishReason("stop", out'.calls) /\ finish' # "length"
  <2> DEFINE u == Cut(text')
  <2>1. HasStop(text') /\ finish' = FinishReason("stop", out'.calls)
    BY <1>1, <1>8
  <2>2. finish' # "length"
    BY <2>1 DEF FinishReason
  <2>3. u \in Text /\ Len(u) \in Nat /\ emitted <= Len(u) /\ Len(u) \in 0..Len(u)
    <3>1. u \in Text /\ emitted <= Len(u)
      BY <1>1, <1>6, CutIsText
    <3> QED BY <3>1 DEF Text
  <2>4. Join(out, Rest(u, emitted)) = Rest(u, 0)
    BY <1>1, <1>2, <1>8 DEF Streamed
  <2>5. Join(d.out, Rest(u, d.at)) = Rest(u, emitted)
    BY <1>1, <1>2, <1>8, <2>3, LastDrains DEF d
  <2>6. Tools => \A q \in Occurrences(u, {ToolOpen}, 0) : Occurrences(u, {ToolClose}, q) # {}
    BY <1>8 DEF InsideCall
  <2>7. d.at = Len(u)
    BY <1>1, <1>2, <2>1, <2>3, <2>6, LastDrains DEF d
  <2> HIDE DEF u
  <2>8. Rest(u, d.at) = Nothing
    BY <2>3, <2>7, RestCases
  <2>9. d.out = Rest(u, emitted)
    BY <1>5, <2>5, <2>8, NothingJoins
  <2> QED BY <1>4, <2>1, <2>2, <2>4, <2>9 DEF u
<1>9. phase' = "streaming" \/ (phase' = "over" /\ upstream' = "aborted")
  BY <1>1
<1> QED BY <1>7, <1>8, <1>9 DEF Streamed, Ended

LEMMA FinalStreams ==
    ASSUME StopsEndWithACall, IInv, Streamed, NEW reason \in {"stop", "length"}, Final(reason)
    PROVE  Streamed' /\ Ended'
<1>1. PICK ids \in Text :
        LET added == Drain(text \o ids, emitted, FALSE)
            flushed == Drain(text \o ids, added.at, TRUE)
        IN /\ text' = text \o ids /\ text' \in Text /\ emitted \in 0..Len(text')
           /\ emitted' = flushed.at /\ out' = Join(out, Join(added.out, flushed.out))
           /\ phase' = "over" /\ upstream' = "ended"
           /\ finish' = FinishReason(IF HasStop(text') THEN "stop" ELSE reason, out'.calls)
  BY FinalDoes DEF IInv
<1>2. /\ text \in Text /\ emitted \in 0..Len(text) /\ emitted \in Nat /\ out \in Channels
      /\ ~HasStop(text) /\ Waits(text, emitted) /\ phase = "streaming"
  BY DEF IInv, TypeOK, HeldBack, Final, Text
<1>3. emitted <= FirstOf(text', Stops, 0)
  BY <1>1, <1>2, StopIsAhead
<1> DEFINE u == Cut(text')
           added == Drain(text', emitted, FALSE)
           flushed == Drain(text', added.at, TRUE)
<1>4. out' = Join(out, Join(added.out, flushed.out))
  BY <1>1
<1>5. u \in Text /\ Len(u) \in Nat /\ emitted <= Len(u) /\ Len(u) = FirstOf(text', Stops, 0)
  <2>1. u \in Text /\ emitted <= Len(u) /\ Len(u) = FirstOf(text', Stops, 0)
    BY <1>1, <1>3, CutIsText
  <2> QED BY <2>1 DEF Text
<1>6. added.at \in emitted..Len(text') /\ added.at <= Len(u)
  BY <1>1, <1>3, <1>5, DrainIsTyped
<1>7. added.at \in Nat
  <2>1. Len(text') \in Nat
    BY <1>1 DEF Text
  <2> HIDE DEF added
  <2> QED BY <1>2, <1>6, <2>1
<1>8. ASSUME Reasons(u) PROVE out' = Rest(u, 0)
  <2>1. Join(out, Rest(u, emitted)) = Rest(u, 0)
    BY <1>1, <1>2, <1>8 DEF Streamed
  <2>2. Join(added.out, Rest(u, added.at)) = Rest(u, emitted)
    BY <1>1, <1>2, <1>5, <1>8, LastDrains
  <2> HIDE DEF added
  <2>3. flushed.out = Rest(u, added.at)
    BY <1>1, <1>6, <1>7, LastDrains
  <2> QED BY <1>4, <2>1, <2>2, <2>3
<1>9. IF finish' = "length" THEN ~HasStop(text') ELSE finish' = FinishReason("stop", out'.calls)
  BY <1>1 DEF FinishReason
<1> QED BY <1>1, <1>8, <1>9 DEF Streamed, Ended

LEMMA AnswerStep ==
    StopsEndWithACall /\ IInv /\ Streamed /\ Ended /\ [Next]_vars => Streamed' /\ Ended'
<1> SUFFICES ASSUME StopsEndWithACall, IInv, Streamed, Ended, [Next]_vars PROVE Streamed' /\ Ended'
  OBVIOUS
<1>1. CASE Chunk
  BY <1>1, ChunkStreams
<1>2. CASE Final("stop") \/ Final("length")
  BY <1>2, FinalStreams
<1>3. CASE Breaks
  <2>1. finish' = "none" /\ phase' = "over"
    BY <1>3 DEF Breaks, Streamed
  <2> QED BY <2>1 DEF Streamed, Ended
<1>4. CASE Disconnects
  BY <1>4 DEF Disconnects, Streamed, Ended
<1>5. CASE UNCHANGED vars
  BY <1>5 DEF vars, Streamed, Ended, InsideCall
<1> QED BY <1>1, <1>2, <1>3, <1>4, <1>5 DEF Next

\* A client that streams has been sent, when the stream ends with a reason,
\* the answer and the finish reason it would get without streaming, for every
\* text and every way to cut it into chunks, if no stop string goes on after
\* the end of a tool call (_drain, _parse_tool_calls, _split_reasoning).
THEOREM AnswerIsStreamed == ASSUME StopsEndWithACall PROVE Spec => []StreamsTheAnswer
<1>1. Init => IInv /\ Streamed /\ Ended
  <2> SUFFICES ASSUME Init PROVE IInv /\ Streamed /\ Ended
    OBVIOUS
  <2>1. IInv
    BY InitInv
  <2>2. ASSUME NEW ids \in Text PROVE Join(out, Rest(Cut(text \o ids), emitted)) = Rest(Cut(text \o ids), 0)
    <3>1. out = Nothing /\ emitted = 0 /\ text \in Text
      BY EmptySeq DEF Init, Text
    <3>2. text \o ids \in Text
      BY <3>1, LongerText
    <3>3. Cut(text \o ids) \in Text /\ 0 \in 0..Len(Cut(text \o ids))
      <4>1. Cut(text \o ids) \in Text
        BY <3>2, CutIsText
      <4> QED BY <4>1 DEF Text
    <3>4. Rest(Cut(text \o ids), 0) \in Channels
      BY <3>3, RestCases
    <3> QED BY <3>1, <3>4, NothingJoins
  <2> QED BY <2>1, <2>2 DEF Init, Streamed, Ended
<1>2. IInv /\ Streamed /\ Ended /\ [Next]_vars => (IInv /\ Streamed /\ Ended)'
  BY StepInv, AnswerStep
<1>3. IInv /\ Streamed /\ Ended => StreamsTheAnswer
  <2> SUFFICES ASSUME IInv, Ended, phase = "over", finish # "none",
                      FirstOf(Cut(text), {ThinkEnd}, 0) < Len(Cut(text)),
                      FirstOf(Cut(text), {ThinkEnd}, 0) <= FirstOf(Cut(text), {ToolOpen}, 0),
                      ~(upstream = "aborted" /\ InsideCall)
               PROVE  /\ out = Complete(text)
                      /\ IF finish = "length" THEN ~HasStop(text)
                                              ELSE finish = FinishReason("stop", Complete(text).calls)
    BY DEF StreamsTheAnswer
  <2>1. text \in Text
    BY DEF IInv, TypeOK, Text
  <2>2. Reasons(Cut(text))
    <3>1. FirstOf(Cut(text), {ThinkEnd}, 0) \in Nat /\ Len(Cut(text)) \in Nat
      <4>1. Cut(text) \in Text
        BY <2>1, CutIsText
      <4>2. Len(Cut(text)) \in Nat /\ 0 \in 0..Len(Cut(text))
        BY <4>1 DEF Text
      <4>3. FirstOf(Cut(text), {ThinkEnd}, 0) \in 0..Len(Cut(text))
        BY <4>1, <4>2, FirstOfIsFirst
      <4> QED BY <4>2, <4>3
    <3> QED BY <3>1 DEF Reasons
  <2>3. Rest(Cut(text), 0) = Complete(text)
    BY <2>1, <2>2, RestIsComplete
  <2> QED BY <2>2, <2>3 DEF Ended
<1> QED BY <1>1, <1>2, <1>3, PTL DEF Spec
=============================================================================
