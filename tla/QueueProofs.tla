----------------------------- MODULE QueueProofs -----------------------------
(***************************************************************************)
(* Proofs about the operators on a matchmaker's queue: what removal by     *)
(* player takes out, and what one round of tryMatch makes of the queues.   *)
(* They are recursive, so the proofs are by induction; the induction is    *)
(* over sets of numbers, by the well-foundedness of finite sets.           *)
(***************************************************************************)
EXTENDS Matchmaker, FiniteSetTheorems, TLAPS

\* Induction on the numbers of a set.
LEMMA Induction ==
  ASSUME NEW S \in SUBSET Nat, 0 \in S, \A n \in S : n + 1 \in S
  PROVE  \A n \in Nat : n \in S
  <1> SUFFICES ASSUME NEW n \in Nat, n \notin S PROVE FALSE
    OBVIOUS
  <1> DEFINE T == {0 .. m : m \in Nat \ S}
  <1>1. \A m \in Nat : 0 .. m \in FiniteSubsetsOf(Nat)
    BY FS_Interval DEF FiniteSubsetsOf
  <1>2. T \subseteq FiniteSubsetsOf(Nat) /\ T # {}
    BY <1>1
  <1>3. PICK x \in T : \A y \in T : ~(<<y, x>> \in StrictSubsetOrdering(Nat))
    <2> HIDE DEF T
    <2> QED
      BY <1>2, WFMin, FS_StrictSubsetOrderingWellFounded
  <1>4. PICK m \in Nat \ S : x = 0 .. m
    OBVIOUS
  <1>5. m # 0 /\ m - 1 \in Nat /\ m - 1 \notin S
    <2>1. m # 0 /\ m - 1 \in Nat
      BY <1>4
    <2>2. m = (m - 1) + 1
      OBVIOUS
    <2> QED
      BY <2>1, <2>2
  <1>6. 0 .. (m - 1) \in T
    BY <1>5
  <1>7. <<0 .. (m - 1), x>> \in StrictSubsetOrdering(Nat)
    <2>1. /\ 0 .. (m - 1) \in SUBSET Nat /\ 0 .. m \in SUBSET Nat
          /\ 0 .. (m - 1) \subseteq 0 .. m
      OBVIOUS
    <2>2. m \in 0 .. m /\ m \notin 0 .. (m - 1)
      OBVIOUS
    <2>3. 0 .. (m - 1) # 0 .. m
      BY <2>2
    <2> QED
      BY <1>4, <2>1, <2>3 DEF StrictSubsetOrdering
  <1> QED
    BY <1>3, <1>6, <1>7

\* Induction up to a bound.
LEMMA InductionUpTo ==
  ASSUME NEW n \in Nat, NEW S \in SUBSET (0 .. n), 0 \in S,
         \A m \in 0 .. n : m > 0 /\ m - 1 \in S => m \in S
  PROVE  \A m \in 0 .. n : m \in S
  <1> DEFINE T == {m \in Nat : m <= n => m \in S}
  <1>1. 0 \in T
    OBVIOUS
  <1>2. ASSUME NEW m \in T PROVE m + 1 \in T
    <2> SUFFICES ASSUME m + 1 <= n PROVE m + 1 \in S
      OBVIOUS
    <2>1. m \in S /\ (m + 1) - 1 = m /\ m + 1 \in 0 .. n
      OBVIOUS
    <2> QED
      BY <2>1
  <1>3. T \in SUBSET Nat
    OBVIOUS
  <1>4. \A m \in Nat : m \in T
    <2> HIDE DEF T
    <2> QED
      BY <1>1, <1>2, <1>3, Induction
  <1> QED
    BY <1>4

\* A set of numbers has a least element.
LEMMA Least ==
  ASSUME NEW T \in SUBSET Nat, T # {}
  PROVE  \E x \in T : \A y \in T : x <= y
  <1> SUFFICES ASSUME \A x \in T : \E y \in T : y < x PROVE FALSE
    OBVIOUS
  <1> DEFINE S == {n \in Nat : \A m \in 0 .. n : m \notin T}
  <1>1. 0 \in S
    OBVIOUS
  <1>2. ASSUME NEW n \in S PROVE n + 1 \in S
    <2>1. n + 1 \notin T
      OBVIOUS
    <2> QED
      BY <2>1
  <1>3. \A n \in Nat : n \in S
    <2> HIDE DEF S
    <2>1. S \in SUBSET Nat
      BY DEF S
    <2> QED
      BY <1>1, <1>2, <2>1, Induction
  <1>4. PICK x \in T : TRUE
    OBVIOUS
  <1>5. x \in S /\ x \in 0 .. x
    BY <1>3, <1>4
  <1> QED
    BY <1>4, <1>5

\* A function over 0 .. n can be defined by what each value makes of the one
\* before it.
Unfolds(f, n, base, g) ==
  f = [i \in 0 .. n |-> IF i = 0 THEN base ELSE g[<<i, f[i - 1]>>]]

\* A function defined from its value at n - 1 exists, on any 0..n.
LEMMA Recursion ==
  ASSUME NEW V, NEW n \in Nat, NEW base \in V, NEW g \in [(1 .. n) \X V -> V]
  PROVE  \E f \in [0 .. n -> V] : Unfolds(f, n, base, g)
  <1> DEFINE Upto(m) == \E f \in [0 .. m -> V] :
               f = [i \in 0 .. m |-> IF i = 0 THEN base ELSE g[<<i, f[i - 1]>>]]
             S == {m \in 0 .. n : Upto(m)}
  <1>1. 0 \in S
    <2> DEFINE f == [i \in 0 .. 0 |-> base]
    <2>1. f \in [0 .. 0 -> V] /\ \A i \in 0 .. 0 : f[i] = base /\ i = 0
      OBVIOUS
    <2>2. f = [i \in 0 .. 0 |-> IF i = 0 THEN base ELSE g[<<i, f[i - 1]>>]]
      <3> HIDE DEF f
      <3> QED
        BY <2>1
    <2>3. Upto(0)
      <3> HIDE DEF f
      <3> QED
        BY <2>1, <2>2
    <2> QED
      BY <2>3
  <1>2. ASSUME NEW m \in 0 .. n, m > 0, m - 1 \in S PROVE m \in S
    <2>1. PICK f \in [0 .. (m - 1) -> V] :
            f = [i \in 0 .. (m - 1) |-> IF i = 0 THEN base ELSE g[<<i, f[i - 1]>>]]
      BY <1>2
    <2> DEFINE h == [i \in 0 .. m |-> IF i = m THEN g[<<m, f[m - 1]>>] ELSE f[i]]
    <2>2. g[<<m, f[m - 1]>>] \in V
      <3>1. m \in 1 .. n /\ m - 1 \in 0 .. (m - 1)
        BY <1>2
      <3> QED
        BY <3>1
    <2>3. h \in [0 .. m -> V]
      <3>1. \A i \in 0 .. m : i # m => i \in 0 .. (m - 1)
        OBVIOUS
      <3> QED
        BY <2>2, <3>1
    <2>4. ASSUME NEW i \in 0 .. m
          PROVE  h[i] = IF i = 0 THEN base ELSE g[<<i, h[i - 1]>>]
      <3>1. CASE i = m
        <4>1. m - 1 \in 0 .. m /\ m - 1 # m /\ i # 0
          BY <1>2, <3>1
        <4>2. h[m - 1] = f[m - 1]
          BY <4>1
        <4> QED
          BY <3>1, <4>1, <4>2
      <3>2. CASE i # m
        <4>1. i \in 0 .. (m - 1) /\ h[i] = f[i]
          BY <3>2
        <4>2. CASE i = 0
          BY <2>1, <4>1, <4>2
        <4>3. CASE i # 0
          <5>1. i - 1 \in 0 .. m /\ i - 1 # m /\ h[i - 1] = f[i - 1]
            BY <4>1, <4>3
          <5>2. f[i] = g[<<i, f[i - 1]>>]
            BY <2>1, <4>1, <4>3
          <5> QED
            BY <4>1, <4>3, <5>1, <5>2
        <4> QED
          BY <4>2, <4>3
      <3> QED
        BY <3>1, <3>2
    <2>5. h = [i \in 0 .. m |-> IF i = 0 THEN base ELSE g[<<i, h[i - 1]>>]]
      <3> HIDE DEF h
      <3> QED
        BY <2>3, <2>4
    <2>6. Upto(m)
      <3> HIDE DEF h
      <3> QED
        BY <2>3, <2>5
    <2> QED
      BY <2>6
  <1>3. \A m \in 0 .. n : m \in S
    <2> HIDE DEF Upto
    <2>1. S \in SUBSET (0 .. n)
      OBVIOUS
    <2> HIDE DEF S
    <2> QED
      BY <1>1, <1>2, <2>1, InductionUpTo
  <1> QED
    BY <1>3 DEF Unfolds

-----------------------------------------------------------------------------
(* Removal by player. *)

\* The queues as they are: no call is in one twice.
Line == {q \in Seq(Call) : IsInjective(q)}

\* The calls of S that are of player p.
Of(S, p) == {c \in S : Caller[c] = p}

\* Sets of calls are finite.
LEMMA CallsFinite ==
  ASSUME NEW S \in SUBSET Call
  PROVE  IsFiniteSet(S) /\ Cardinality(S) \in Nat
  BY FS_Subset, FS_CardinalityType, MatchmakerAssumption

\* First finds an entry of the player if there is one.
LEMMA FirstFound ==
  ASSUME NEW q \in Seq(Call), NEW p
  PROVE  IF \E i \in DOMAIN q : Caller[q[i]] = p
           THEN First(q, p) \in DOMAIN q /\ Caller[q[First(q, p)]] = p
           ELSE First(q, p) = 0
  <1> DEFINE I == {i \in 1 .. Len(q) : Caller[q[i]] = p}
  <1>1. First(q, p) = IF I # {} THEN Min(I) ELSE 0
    BY DEF First, SelectInSeq
  <1>2. DOMAIN q = 1 .. Len(q) /\ Len(q) \in Nat
    OBVIOUS
  <1>3. CASE I # {}
    <2>1. \E x \in I : \A y \in I : x <= y
      <3>1. I \in SUBSET Nat
        OBVIOUS
      <3> HIDE DEF I
      <3> QED
        BY <1>3, <3>1, Least
    <2>2. Min(I) \in I
      BY <2>1 DEF Min
    <2> QED
      BY <1>1, <1>2, <1>3, <2>2
  <1>4. CASE I = {}
    BY <1>1, <1>2, <1>4
  <1> QED
    BY <1>3, <1>4

\* RemoveAt element by element.
LEMMA RemoveAtElements ==
  ASSUME NEW q \in Seq(Call), NEW k \in DOMAIN q
  PROVE  /\ RemoveAt(q, k) \in Seq(Call)
         /\ DOMAIN RemoveAt(q, k) = 1 .. (Len(q) - 1)
         /\ \A i \in 1 .. (Len(q) - 1) :
              RemoveAt(q, k)[i] = IF i < k THEN q[i] ELSE q[i + 1]
  <1> DEFINE s == SubSeq(q, 1, k - 1)
             t == SubSeq(q, k + 1, Len(q))
  <1>1. k \in 1 .. Len(q) /\ Len(q) \in Nat
    OBVIOUS
  <1>2. s \in Seq(Call) /\ Len(s) = k - 1 /\ \A i \in 1 .. (k - 1) : s[i] = q[i]
    BY <1>1
  <1>3. /\ t \in Seq(Call) /\ Len(t) = Len(q) - k
        /\ \A i \in 1 .. (Len(q) - k) : t[i] = q[k + i]
    BY <1>1
  <1> HIDE DEF s, t
  <1>4. /\ s \o t \in Seq(Call) /\ Len(s \o t) = Len(q) - 1
        /\ \A i \in 1 .. (Len(q) - 1) : (s \o t)[i] = IF i < k THEN s[i] ELSE t[i - (k - 1)]
    BY <1>1, <1>2, <1>3, SMTT(30)
  <1>5. ASSUME NEW i \in 1 .. (Len(q) - 1)
        PROVE  (s \o t)[i] = IF i < k THEN q[i] ELSE q[i + 1]
    <2>1. CASE i < k
      <3>1. i \in 1 .. (k - 1)
        BY <2>1
      <3> QED
        BY <1>2, <1>4, <2>1, <3>1
    <2>2. CASE ~(i < k)
      <3>1. i - (k - 1) \in 1 .. (Len(q) - k) /\ k + (i - (k - 1)) = i + 1
        BY <1>1, <2>2
      <3> QED
        BY <1>3, <1>4, <2>2, <3>1
    <2> QED
      BY <2>1, <2>2
  <1>6. RemoveAt(q, k) = s \o t
    BY DEF RemoveAt, s, t
  <1>7. DOMAIN (s \o t) = 1 .. (Len(q) - 1)
    BY <1>4
  <1> QED
    BY <1>4, <1>5, <1>6, <1>7

\* RemoveAt takes one call out of a queue.
LEMMA RemoveAtSet ==
  ASSUME NEW q \in Line, NEW k \in DOMAIN q
  PROVE  /\ RemoveAt(q, k) \in Line
         /\ ToSet(RemoveAt(q, k)) = ToSet(q) \ {q[k]}
  <1> DEFINE r == RemoveAt(q, k)
             old(i) == IF i < k THEN i ELSE i + 1
  <1>1. /\ q \in Seq(Call) /\ DOMAIN q = 1 .. Len(q) /\ Len(q) \in Nat
        /\ \A i, j \in DOMAIN q : q[i] = q[j] => i = j
        /\ k \in 1 .. Len(q)
    BY DEF Line, IsInjective
  <1>2. /\ r \in Seq(Call) /\ DOMAIN r = 1 .. (Len(q) - 1)
        /\ \A i \in DOMAIN r : r[i] = q[old(i)] /\ old(i) \in DOMAIN q /\ old(i) # k
    BY <1>1, RemoveAtElements
  <1>3. \A i, j \in DOMAIN r : old(i) = old(j) => i = j
    BY <1>2
  <1>4. \A m \in DOMAIN q : m # k => \E i \in DOMAIN r : old(i) = m
    <2> SUFFICES ASSUME NEW m \in DOMAIN q, m # k PROVE \E i \in DOMAIN r : old(i) = m
      OBVIOUS
    <2>1. CASE m < k
      <3>1. m \in DOMAIN r /\ old(m) = m
        BY <1>1, <1>2, <2>1
      <3> QED
        BY <3>1
    <2>2. CASE m > k
      <3>1. m - 1 \in DOMAIN r /\ old(m - 1) = m
        BY <1>1, <1>2, <2>2
      <3> QED
        BY <3>1
    <2> QED
      BY <1>1, <2>1, <2>2
  <1> HIDE DEF r, old
  <1>5. IsInjective(r)
    BY <1>1, <1>2, <1>3 DEF IsInjective
  <1>6. ToSet(r) \subseteq ToSet(q) \ {q[k]}
    BY <1>1, <1>2 DEF ToSet
  <1>7. ToSet(q) \ {q[k]} \subseteq ToSet(r)
    BY <1>1, <1>2, <1>4 DEF ToSet
  <1> QED
    BY <1>2, <1>5, <1>6, <1>7 DEF Line, r

\* removeFromQueue takes out one entry of the player, if there is one.
LEMMA RemovedOne ==
  ASSUME NEW q \in Line, NEW p
  PROVE  /\ RemoveFromQueue(q, p) \in Line
         /\ IF Of(ToSet(q), p) = {} THEN RemoveFromQueue(q, p) = q
            ELSE \E c \in Of(ToSet(q), p) : ToSet(RemoveFromQueue(q, p)) = ToSet(q) \ {c}
  <1>1. q \in Seq(Call)
    BY DEF Line
  <1>2. CASE Of(ToSet(q), p) = {}
    <2>1. ~\E i \in DOMAIN q : Caller[q[i]] = p
      BY <1>2 DEF Of, ToSet
    <2> QED
      BY <1>1, <1>2, <2>1, FirstFound DEF RemoveFromQueue
  <1>3. CASE Of(ToSet(q), p) # {}
    <2>1. \E i \in DOMAIN q : Caller[q[i]] = p
      BY <1>3 DEF Of, ToSet
    <2>2. First(q, p) \in DOMAIN q /\ Caller[q[First(q, p)]] = p /\ First(q, p) # 0
      BY <1>1, <2>1, FirstFound
    <2>3. q[First(q, p)] \in Of(ToSet(q), p)
      BY <2>2 DEF Of, ToSet
    <2>4. RemoveFromQueue(q, p) = RemoveAt(q, First(q, p))
      BY <2>2 DEF RemoveFromQueue
    <2> QED
      BY <1>3, <2>2, <2>3, <2>4, RemoveAtSet
  <1> QED
    BY <1>2, <1>3

\* One call less.
LEMMA CardinalityLess ==
  ASSUME NEW S \in SUBSET Call, NEW c \in S
  PROVE  /\ Cardinality(S \ {c}) = Cardinality(S) - 1
         /\ Cardinality(S) \in Nat /\ Cardinality(S \ {c}) \in Nat
  BY CallsFinite, FS_RemoveElement

\* A queue and the calls in it.
LEMMA LineIsSet ==
  ASSUME NEW q \in Line
  PROVE  /\ q \in Seq(Call) /\ ToSet(q) \in SUBSET Call
         /\ \A p : Of(ToSet(q), p) \in SUBSET Call
  BY DEF Line, ToSet, Of

\* Removing by player takes out exactly one of that player's calls.
LEMMA OneLess ==
  ASSUME NEW q \in Line, NEW d \in Call, Of(ToSet(q), Caller[d]) # {}
  PROVE  /\ Removed(q, d) \in Line /\ ToSet(Removed(q, d)) \subseteq ToSet(q)
         /\ Cardinality(ToSet(Removed(q, d))) = Cardinality(ToSet(q)) - 1
         /\ \A p \in Player : Cardinality(Of(ToSet(Removed(q, d)), p)) =
              Cardinality(Of(ToSet(q), p)) - (IF p = Caller[d] THEN 1 ELSE 0)
  <1> DEFINE r == Removed(q, d)
  <1>1. PICK c \in Of(ToSet(q), Caller[d]) : r \in Line /\ ToSet(r) = ToSet(q) \ {c}
    BY RemovedOne DEF Removed
  <1>2. c \in ToSet(q) /\ Caller[c] = Caller[d]
    BY DEF Of
  <1> HIDE DEF r
  <1>3. Cardinality(ToSet(r)) = Cardinality(ToSet(q)) - 1
    BY <1>1, <1>2, LineIsSet, CardinalityLess
  <1>4. ASSUME NEW p \in Player
        PROVE  Cardinality(Of(ToSet(r), p)) =
                 Cardinality(Of(ToSet(q), p)) - (IF p = Caller[d] THEN 1 ELSE 0)
    <2>1. CASE p = Caller[d]
      <3>1. Of(ToSet(r), p) = Of(ToSet(q), p) \ {c} /\ c \in Of(ToSet(q), p)
        BY <1>1, <1>2, <2>1 DEF Of
      <3> QED
        BY <2>1, <3>1, LineIsSet, CardinalityLess
    <2>2. CASE p # Caller[d]
      <3>1. Of(ToSet(r), p) = Of(ToSet(q), p)
        BY <1>1, <1>2, <2>2 DEF Of
      <3>2. Cardinality(Of(ToSet(q), p)) \in Nat
        BY LineIsSet, CallsFinite
      <3> QED
        BY <2>2, <3>1, <3>2
    <2> QED
      BY <2>1, <2>2
  <1> QED
    BY <1>1, <1>3, <1>4 DEF r

\* A queue stays one, whether or not there was something to remove.
LEMMA RemovedInLine ==
  ASSUME NEW q \in Line, NEW d \in Call
  PROVE  Removed(q, d) \in Line
  BY RemovedOne DEF Removed

\* The steps of RemoveEach.
LEMMA RemoveEachSteps ==
  ASSUME NEW q \in Line, NEW s \in Seq(Call)
  PROVE  \E f \in [0 .. Len(s) -> Line] :
           /\ f[0] = q /\ f[Len(s)] = RemoveEach(q, s)
           /\ \A i \in 1 .. Len(s) : f[i] = Removed(f[i - 1], s[i])
  <1> DEFINE n == Len(s)
             g == [x \in (1 .. n) \X Line |-> Removed(x[2], s[x[1]])]
             Def(f) == f = [i \in 0 .. n |-> IF i = 0 THEN q ELSE Removed(f[i - 1], s[i])]
  <1>1. n \in Nat /\ \A i \in 1 .. n : s[i] \in Call
    OBVIOUS
  <1>2. g \in [(1 .. n) \X Line -> Line]
    BY <1>1, RemovedInLine
  <1>3. \E f \in [0 .. n -> Line] : Unfolds(f, n, q, g)
    <2> HIDE DEF g, n
    <2> QED
      BY <1>1, <1>2, Recursion
  <1>4. PICK f \in [0 .. n -> Line] :
          f = [i \in 0 .. n |-> IF i = 0 THEN q ELSE g[<<i, f[i - 1]>>]]
    BY <1>3 DEF Unfolds
  <1>5. \A i \in 1 .. n : i - 1 \in 0 .. n /\ f[i - 1] \in Line
    BY <1>1
  <1>6. \A i \in 1 .. n : g[<<i, f[i - 1]>>] = Removed(f[i - 1], s[i])
    BY <1>5
  <1>7. Def(f)
    <2>1. \A i \in 0 .. n : i # 0 => i \in 1 .. n
      BY <1>1
    <2>2. [i \in 0 .. n |-> IF i = 0 THEN q ELSE g[<<i, f[i - 1]>>]]
            = [i \in 0 .. n |-> IF i = 0 THEN q ELSE Removed(f[i - 1], s[i])]
      <3> HIDE DEF g, n
      <3> QED
        BY <1>6, <2>1
    <2> QED
      BY <1>4, <2>2
  <1> DEFINE h == CHOOSE h : Def(h)
  <1>8. Def(h)
    <2> HIDE DEF Def
    <2> QED
      BY <1>7
  <1>9. RemoveEach(q, s) = h[n]
    BY DEF RemoveEach
  <1>10. /\ DOMAIN h = 0 .. n /\ h[0] = q
         /\ \A i \in 1 .. n : h[i] = Removed(h[i - 1], s[i])
    <2>1. 0 \in 0 .. n /\ \A i \in 1 .. n : i \in 0 .. n /\ i # 0
      BY <1>1
    <2> HIDE DEF h, n
    <2> QED
      BY <1>8, <2>1
  <1> DEFINE T == {i \in 0 .. n : h[i] \in Line}
  <1> HIDE DEF h, n, Def, g
  <1>11. \A i \in 0 .. n : i \in T
    <2>1. 0 \in T
      BY <1>1, <1>10
    <2>2. ASSUME NEW m \in 0 .. n, m > 0, m - 1 \in T PROVE m \in T
      <3>1. m \in 1 .. n
        BY <1>1, <2>2
      <3> QED
        BY <1>1, <1>10, <2>2, <3>1, RemovedInLine
    <2>3. T \in SUBSET (0 .. n)
      OBVIOUS
    <2> HIDE DEF T
    <2> QED
      BY <1>1, <2>1, <2>2, <2>3, InductionUpTo
  <1>12. h \in [0 .. n -> Line]
    <2>1. h = [i \in 0 .. n |-> h[i]]
      BY <1>8, <1>10 DEF Def
    <2> QED
      BY <1>11, <2>1
  <1> QED
    BY <1>9, <1>10, <1>12 DEF n

\* What the first i elements of s are.
Upto(s, i) == {s[j] : j \in 1 .. i}

\* The calls up to a place, one place further.
LEMMA UptoNext ==
  ASSUME NEW s \in Line, NEW i \in 1 .. Len(s)
  PROVE  /\ Upto(s, i) = Upto(s, i - 1) \cup {s[i]}
         /\ s[i] \notin Upto(s, i - 1) /\ s[i] \in Call
         /\ Upto(s, i) \subseteq ToSet(s) /\ Upto(s, i - 1) \subseteq Call
         /\ Upto(s, Len(s)) = ToSet(s)
  <1>1. /\ s \in Seq(Call) /\ DOMAIN s = 1 .. Len(s) /\ Len(s) \in Nat
        /\ \A j, k \in 1 .. Len(s) : s[j] = s[k] => j = k
    BY DEF Line, IsInjective
  <1>2. \A j : j \in 1 .. i <=> j \in 1 .. (i - 1) \/ j = i
    BY <1>1
  <1>3. \A j \in 1 .. i : j \in 1 .. Len(s)
    BY <1>1
  <1>4. i \notin 1 .. (i - 1)
    BY <1>1
  <1>5. Upto(s, i) = Upto(s, i - 1) \cup {s[i]}
    BY <1>2 DEF Upto
  <1>6. s[i] \notin Upto(s, i - 1)
    BY <1>1, <1>2, <1>3, <1>4 DEF Upto
  <1>7. Upto(s, i) \subseteq ToSet(s) /\ Upto(s, i - 1) \subseteq Call
    BY <1>1, <1>2, <1>3 DEF Upto, ToSet
  <1>8. Upto(s, Len(s)) = ToSet(s)
    BY <1>1 DEF Upto, ToSet
  <1> QED
    BY <1>1, <1>5, <1>6, <1>7, <1>8

\* If what is to be removed is in the queue, each step removes an entry, of the
\* player it is to be removed for.
LEMMA RemoveEachCounts ==
  ASSUME NEW q \in Line, NEW s \in Line, ToSet(s) \subseteq ToSet(q)
  PROVE  /\ RemoveEach(q, s) \in Line /\ ToSet(RemoveEach(q, s)) \subseteq ToSet(q)
         /\ Cardinality(ToSet(RemoveEach(q, s))) + Len(s) = Cardinality(ToSet(q))
         /\ \A p \in Player :
              Cardinality(Of(ToSet(RemoveEach(q, s)), p)) + Cardinality(Of(ToSet(s), p))
                = Cardinality(Of(ToSet(q), p))
  <1>0. s \in Seq(Call) /\ Len(s) \in Nat /\ ToSet(q) \in SUBSET Call
        /\ \A i \in 1 .. Len(s) : s[i] \in Call /\ Caller[s[i]] \in Player
    BY LineIsSet, MatchmakerAssumption DEF Line
  <1>1. PICK f \in [0 .. Len(s) -> Line] :
          /\ f[0] = q /\ f[Len(s)] = RemoveEach(q, s)
          /\ \A i \in 1 .. Len(s) : f[i] = Removed(f[i - 1], s[i])
    BY <1>0, RemoveEachSteps
  <1> DEFINE n == Len(s)
             Good(i) ==
               /\ ToSet(f[i]) \subseteq ToSet(q)
               /\ Cardinality(ToSet(f[i])) + i = Cardinality(ToSet(q))
               /\ \A p \in Player : Cardinality(Of(ToSet(f[i]), p))
                    + Cardinality(Of(Upto(s, i), p)) = Cardinality(Of(ToSet(q), p))
             T == {i \in 0 .. n : Good(i)}
  <1>2. 0 \in T
    <2>1. Upto(s, 0) = {}
      BY DEF Upto
    <2>2. \A p \in Player : Of(Upto(s, 0), p) = {}
      BY <2>1 DEF Of
    <2>3. /\ Cardinality({}) = 0 /\ Cardinality(ToSet(q)) \in Nat
          /\ \A p \in Player : Cardinality(Of(ToSet(q), p)) \in Nat
      BY FS_EmptySet, LineIsSet, CallsFinite
    <2>4. Cardinality(ToSet(f[0])) + 0 = Cardinality(ToSet(q))
      BY <1>1, <2>3
    <2>5. \A p \in Player : Cardinality(Of(ToSet(f[0]), p))
            + Cardinality(Of(Upto(s, 0), p)) = Cardinality(Of(ToSet(q), p))
      <3> SUFFICES ASSUME NEW p \in Player
                   PROVE  Cardinality(Of(ToSet(f[0]), p)) + Cardinality(Of(Upto(s, 0), p))
                            = Cardinality(Of(ToSet(q), p))
        OBVIOUS
      <3>1. Cardinality(Of(Upto(s, 0), p)) = 0
        BY <2>2, <2>3
      <3>2. f[0] = q
        BY <1>1
      <3> QED
        BY <2>3, <3>1, <3>2
    <2>6. Good(0)
      BY <1>1, <2>4, <2>5
    <2> QED
      BY <1>0, <2>6
  <1>3. ASSUME NEW i \in 0 .. n, i > 0, i - 1 \in T PROVE i \in T
    <2>1. i \in 1 .. Len(s) /\ i - 1 \in 0 .. Len(s) /\ Good(i - 1)
      BY <1>0, <1>3
    <2> DEFINE e == f[i - 1]
               d == s[i]
               U == Upto(s, i - 1)
               W == Upto(s, i)
    <2>2. e \in Line /\ f[i] = Removed(e, d) /\ d \in Call /\ Caller[d] \in Player
      BY <1>0, <1>1, <2>1
    <2>3. /\ W = U \cup {d} /\ d \notin U
          /\ U \in SUBSET Call /\ W \in SUBSET Call /\ W \subseteq ToSet(q)
      BY <1>0, <2>1, UptoNext
    <2>4. /\ ToSet(e) \subseteq ToSet(q)
          /\ Cardinality(ToSet(e)) + (i - 1) = Cardinality(ToSet(q))
          /\ \A p \in Player : Cardinality(Of(ToSet(e), p)) + Cardinality(Of(U, p))
                                 = Cardinality(Of(ToSet(q), p))
      BY <2>1
    <2> HIDE DEF e, d, U, W, Good, n
    <2>5. \A p \in Player : Cardinality(Of(W, p)) =
            Cardinality(Of(U, p)) + (IF p = Caller[d] THEN 1 ELSE 0)
      <3> SUFFICES ASSUME NEW p \in Player
                   PROVE  Cardinality(Of(W, p)) =
                            Cardinality(Of(U, p)) + (IF p = Caller[d] THEN 1 ELSE 0)
        OBVIOUS
      <3>1. CASE p = Caller[d]
        <4>1. /\ Of(U, p) = Of(W, p) \ {d} /\ d \in Of(W, p)
              /\ Of(W, p) \in SUBSET Call
          BY <2>2, <2>3, <3>1 DEF Of
        <4> QED
          BY <3>1, <4>1, CardinalityLess
      <3>2. CASE p # Caller[d]
        <4>1. Of(U, p) = Of(W, p) /\ Of(W, p) \in SUBSET Call
          BY <2>2, <2>3, <3>2 DEF Of
        <4>2. Cardinality(Of(W, p)) \in Nat
          BY <4>1, CallsFinite
        <4> QED
          BY <3>2, <4>1, <4>2
      <3> QED
        BY <3>1, <3>2
    <2>6. /\ \A p \in Player : /\ Cardinality(Of(W, p)) <= Cardinality(Of(ToSet(q), p))
                               /\ Cardinality(Of(W, p)) \in Nat
                               /\ Cardinality(Of(U, p)) \in Nat
                               /\ Cardinality(Of(ToSet(e), p)) \in Nat
                               /\ Cardinality(Of(ToSet(q), p)) \in Nat
          /\ Cardinality(ToSet(e)) \in Nat
      <3>1. \A p \in Player : /\ Of(W, p) \subseteq Of(ToSet(q), p)
                              /\ Of(W, p) \in SUBSET Call /\ Of(U, p) \in SUBSET Call
                              /\ Of(ToSet(q), p) \in SUBSET Call
                              /\ Of(ToSet(e), p) \in SUBSET Call
        BY <1>0, <2>3, <2>4 DEF Of
      <3>2. ToSet(e) \in SUBSET Call
        BY <1>0, <2>4
      <3> QED
        BY <3>1, <3>2, CallsFinite, FS_Subset
    <2>7. Cardinality(Of(ToSet(e), Caller[d])) > 0
      BY <2>2, <2>4, <2>5, <2>6
    <2>8. Of(ToSet(e), Caller[d]) # {}
      BY <2>7, FS_EmptySet
    <2>9. /\ ToSet(f[i]) \subseteq ToSet(e)
          /\ Cardinality(ToSet(f[i])) = Cardinality(ToSet(e)) - 1
          /\ \A p \in Player : Cardinality(Of(ToSet(f[i]), p)) =
               Cardinality(Of(ToSet(e), p)) - (IF p = Caller[d] THEN 1 ELSE 0)
      BY <2>2, <2>8, OneLess
    <2>10. Cardinality(ToSet(f[i])) + i = Cardinality(ToSet(q))
      BY <2>1, <2>4, <2>6, <2>9
    <2>11. \A p \in Player : Cardinality(Of(ToSet(f[i]), p)) + Cardinality(Of(W, p))
                               = Cardinality(Of(ToSet(q), p))
      BY <2>4, <2>5, <2>6, <2>9
    <2>12. Good(i)
      BY <2>4, <2>9, <2>10, <2>11 DEF Good, W
    <2> QED
      BY <2>12
  <1>4. \A i \in 0 .. n : i \in T
    <2>1. T \in SUBSET (0 .. n)
      OBVIOUS
    <2> HIDE DEF T, n
    <2> QED
      BY <1>0, <1>2, <1>3, <2>1, InductionUpTo DEF n
  <1>5. Good(n) /\ f[n] \in Line
    BY <1>0, <1>1, <1>4
  <1>6. Upto(s, n) = ToSet(s)
    BY <1>0 DEF Upto, ToSet
  <1> QED
    BY <1>1, <1>5, <1>6

\* A call that is not in a queue joins it at its end.
LEMMA AppendToLine ==
  ASSUME NEW v \in Line, NEW c \in Call \ ToSet(v)
  PROVE  Append(v, c) \in Line /\ ToSet(Append(v, c)) = ToSet(v) \cup {c}
  <1> DEFINE w == Append(v, c)
  <1>1. /\ v \in Seq(Call) /\ DOMAIN v = 1 .. Len(v) /\ Len(v) \in Nat
        /\ \A i, j \in DOMAIN v : v[i] = v[j] => i = j
    BY DEF Line, IsInjective
  <1>2. /\ w \in Seq(Call) /\ DOMAIN w = 1 .. (Len(v) + 1)
        /\ w[Len(v) + 1] = c /\ \A i \in DOMAIN v : w[i] = v[i]
    BY <1>1
  <1>3. \A i : i \in DOMAIN w <=> i \in DOMAIN v \/ i = Len(v) + 1
    BY <1>1, <1>2
  <1>4. \A i \in DOMAIN v : v[i] # c /\ i # Len(v) + 1
    BY <1>1 DEF ToSet
  <1> HIDE DEF w
  <1>5. IsInjective(w)
    BY <1>1, <1>2, <1>3, <1>4 DEF IsInjective
  <1>6. ToSet(w) = ToSet(v) \cup {c}
    BY <1>1, <1>2, <1>3 DEF ToSet
  <1> QED
    BY <1>2, <1>5, <1>6 DEF Line, w

\* Who is given an AI is in the queue, and is listed once.
LEMMA CandidatesQueued ==
  ASSUME NEW q \in Line
  PROVE  Candidates(q) \in Line /\ ToSet(Candidates(q)) \subseteq ToSet(q)
  <1> DEFINE n == Len(q)
             Next1(v, i) == IF NeedsAI(q[i]) THEN Append(v, q[i]) ELSE v
             g == [x \in (1 .. n) \X Seq(Call) |-> Next1(x[2], x[1])]
             Def(f) == f = [i \in 0 .. n |-> IF i = 0 THEN <<>>
                                             ELSE IF NeedsAI(q[i]) THEN Append(f[i - 1], q[i])
                                             ELSE f[i - 1]]
  <1>1. n \in Nat /\ \A i \in 1 .. n : q[i] \in Call
    BY DEF Line
  <1>2. g \in [(1 .. n) \X Seq(Call) -> Seq(Call)]
    <2>1. ASSUME NEW x \in (1 .. n) \X Seq(Call) PROVE Next1(x[2], x[1]) \in Seq(Call)
      <3>1. x[1] \in 1 .. n /\ x[2] \in Seq(Call)
        OBVIOUS
      <3> QED
        BY <1>1, <3>1
    <2> HIDE DEF Next1, n
    <2> QED
      BY <2>1
  <1>3. \E f \in [0 .. n -> Seq(Call)] : Unfolds(f, n, <<>>, g)
    <2>1. <<>> \in Seq(Call)
      OBVIOUS
    <2> HIDE DEF g, n
    <2> QED
      BY <1>1, <1>2, <2>1, Recursion
  <1>4. PICK f \in [0 .. n -> Seq(Call)] : Unfolds(f, n, <<>>, g)
    BY <1>3
  <1>5. Def(f)
    <2>1. ASSUME NEW i \in 1 .. n PROVE g[<<i, f[i - 1]>>] = Next1(f[i - 1], i)
      <3>1. i - 1 \in 0 .. n
        BY <1>1
      <3>2. f[i - 1] \in Seq(Call)
        BY <1>4, <3>1
      <3>3. <<i, f[i - 1]>> \in (1 .. n) \X Seq(Call)
        BY <3>2
      <3> HIDE DEF Next1, n
      <3> QED
        BY <3>3
    <2>2. \A i \in 0 .. n : i # 0 => i \in 1 .. n
      BY <1>1
    <2>3. [i \in 0 .. n |-> IF i = 0 THEN <<>> ELSE g[<<i, f[i - 1]>>]]
            = [i \in 0 .. n |-> IF i = 0 THEN <<>> ELSE Next1(f[i - 1], i)]
      <3> HIDE DEF g, n, Next1
      <3> QED
        BY <2>1, <2>2
    <2> HIDE DEF g
    <2> QED
      BY <1>4, <2>3 DEF Unfolds
  <1> DEFINE h == CHOOSE h : Def(h)
  <1>6. Def(h)
    <2> HIDE DEF Def
    <2> QED
      BY <1>5
  <1>7. Candidates(q) = h[n]
    BY DEF Candidates
  <1>8. /\ h[0] = <<>>
        /\ \A i \in 1 .. n : h[i] = Next1(h[i - 1], i)
    <2>1. 0 \in 0 .. n /\ \A i \in 1 .. n : i \in 0 .. n /\ i # 0
      BY <1>1
    <2> HIDE DEF h, n
    <2> QED
      BY <1>6, <2>1
  <1> DEFINE T == {i \in 0 .. n : h[i] \in Line /\ ToSet(h[i]) \subseteq Upto(q, i)}
  <1> HIDE DEF h, n, Def, g
  <1>9. 0 \in T
    <2>1. <<>> \in Line /\ ToSet(<<>>) = {}
      BY DEF Line, ToSet, IsInjective
    <2> QED
      BY <1>1, <1>8, <2>1
  <1>10. ASSUME NEW i \in 0 .. n, i > 0, i - 1 \in T PROVE i \in T
    <2>1. i \in 1 .. n
      BY <1>1, <1>10
    <2>2. /\ Upto(q, i) = Upto(q, i - 1) \cup {q[i]} /\ q[i] \notin Upto(q, i - 1)
          /\ q[i] \in Call
      BY <2>1, UptoNext DEF n
    <2>3. h[i - 1] \in Line /\ ToSet(h[i - 1]) \subseteq Upto(q, i - 1)
      BY <1>10
    <2>4. h[i] = IF NeedsAI(q[i]) THEN Append(h[i - 1], q[i]) ELSE h[i - 1]
      BY <1>8, <2>1
    <2>5. CASE NeedsAI(q[i])
      <3>1. q[i] \notin ToSet(h[i - 1]) /\ h[i] = Append(h[i - 1], q[i])
        BY <2>2, <2>3, <2>4, <2>5
      <3>2. h[i] \in Line /\ ToSet(h[i]) = ToSet(h[i - 1]) \cup {q[i]}
        BY ONLY <2>2, <2>3, <3>1, AppendToLine
      <3> QED
        BY <2>2, <2>3, <3>2
    <2>6. CASE ~NeedsAI(q[i])
      BY <2>2, <2>3, <2>4, <2>6
    <2> QED
      BY <2>5, <2>6
  <1>11. n \in T
    <2>1. T \in SUBSET (0 .. n)
      OBVIOUS
    <2>2. \A i \in 0 .. n : i \in T
      <3> HIDE DEF T
      <3> QED
        BY <1>1, <1>9, <1>10, <2>1, InductionUpTo
    <2> QED
      BY <1>1, <2>2
  <1>12. Upto(q, n) = ToSet(q)
    BY <1>1 DEF Upto, ToSet, n, Line
  <1> QED
    BY <1>7, <1>11, <1>12

-----------------------------------------------------------------------------
(* One round of tryMatch on one queue. *)

\* The loop finds two different entries.
LEMMA PairFound ==
  ASSUME NEW q \in Line, Len(q) >= 2
  PROVE  \E c, d \in ToSet(q) : c # d /\ FindMatchingPair(q) = <<c, d>>
  <1>1. /\ q \in Seq(Call) /\ DOMAIN q = 1 .. Len(q) /\ Len(q) \in Nat
        /\ \A i, j \in DOMAIN q : q[i] = q[j] => i = j
    BY DEF Line, IsInjective
  <1>2. ASSUME NEW i \in DOMAIN q, NEW j \in DOMAIN q, i < j
        PROVE  q[i] \in ToSet(q) /\ q[j] \in ToSet(q) /\ q[i] # q[j]
    BY <1>1, <1>2 DEF ToSet
  <1>3. CASE Near(q) = {}
    <2>1. FindMatchingPair(q) = <<q[1], q[2]>>
      BY <1>3 DEF FindMatchingPair
    <2> QED
      BY <1>1, <1>2, <2>1
  <1>4. CASE Near(q) # {}
    <2> DEFINE N == Near(q)
               I == {i \in DOMAIN q : \E j \in DOMAIN q : <<i, j>> \in N}
    <2>1. N \subseteq (DOMAIN q) \X (DOMAIN q) /\ \A x \in N : x[1] < x[2]
      BY DEF Near
    <2> HIDE DEF N
    <2>2. PICK a \in I : \A i \in I : a <= i
      <3>1. I \in SUBSET Nat
        BY <1>1
      <3>2. I # {}
        BY <1>4, <2>1 DEF N
      <3> HIDE DEF I
      <3> QED
        BY <3>1, <3>2, Least
    <2> DEFINE J == {j \in DOMAIN q : <<a, j>> \in N}
    <2>3. PICK b \in J : \A j \in J : b <= j
      <3>1. J \in SUBSET Nat
        BY <1>1
      <3>2. J # {}
        BY <2>2
      <3> HIDE DEF J
      <3> QED
        BY <3>1, <3>2, Least
    <2>4. <<a, b>> \in N /\ \A y \in N : Before(<<a, b>>, y)
      <3>1. <<a, b>> \in N
        BY <2>3
      <3>2. ASSUME NEW y \in N PROVE Before(<<a, b>>, y)
        <4>1. y = <<y[1], y[2]>> /\ y[1] \in DOMAIN q /\ y[2] \in DOMAIN q
          BY <2>1
        <4>2. y[1] \in I /\ a <= y[1]
          BY <2>2, <4>1
        <4>3. a = y[1] => b <= y[2]
          BY <2>3, <4>1
        <4> QED
          BY <1>1, <2>2, <4>1, <4>2, <4>3 DEF Before
      <3> QED
        BY <3>1, <3>2
    <2> DEFINE x == CHOOSE x \in N : \A y \in N : Before(x, y)
    <2>5. x \in N
      BY <2>4
    <2>6. FindMatchingPair(q) = <<q[x[1]], q[x[2]]>>
      BY <1>4 DEF FindMatchingPair, N
    <2> HIDE DEF x
    <2> QED
      BY <1>2, <2>1, <2>5, <2>6
  <1> QED
    BY <1>3, <1>4

\* Two calls make a queue.
LEMMA PairInLine ==
  ASSUME NEW c \in Call, NEW d \in Call, c # d
  PROVE  /\ <<c, d>> \in Line /\ ToSet(<<c, d>>) = {c, d}
         /\ Len(<<c, d>>) = 2
  <1> DEFINE s == <<c, d>>
  <1>1. /\ s \in Seq(Call) /\ Len(s) = 2 /\ DOMAIN s = {1, 2}
        /\ s[1] = c /\ s[2] = d
    OBVIOUS
  <1> HIDE DEF s
  <1>2. IsInjective(s)
    BY <1>1 DEF IsInjective
  <1>3. ToSet(s) = {c, d}
    BY <1>1 DEF ToSet
  <1> QED
    BY <1>1, <1>2, <1>3 DEF Line, s

\* The matches a round makes of the entries Q, N, and what it leaves, W: both
\* sides of a match were queued, each match takes an entry out, each match with
\* a call takes out one of its player, and a player's only entry is either left
\* or matched.
Fresh == [one : Call, two : Call \cup {AI}, stage : {"starting"}, told : {0}]
With(N, c) == {i \in DOMAIN N : c \in Sides(N[i])}
Round(Q, N, W) ==
  /\ W \subseteq Q /\ N \in Seq(Fresh)
  /\ \A i \in DOMAIN N : Sides(N[i]) \subseteq Q /\ N[i].one \in Q /\ N[i].one # N[i].two
  /\ Len(N) + Cardinality(W) <= Cardinality(Q)
  /\ \A c \in Q :
       /\ Cardinality(With(N, c)) + Cardinality(Of(W, Caller[c]))
            <= Cardinality(Of(Q, Caller[c]))
       /\ Of(Q, Caller[c]) = {c} => c \in W \/ With(N, c) # {}

\* What a queue with candidates C and a pair P, if any, goes through.
LEMMA RoundCounts ==
  ASSUME NEW q \in Line
  PROVE  LET C == Candidates(q)
             P == Paired(q)
             W == Waiting(q)
         IN  /\ C \in Line /\ P \in Line /\ W \in Line
             /\ ToSet(C) \subseteq ToSet(q) /\ ToSet(P) \subseteq ToSet(q)
             /\ ToSet(W) \subseteq ToSet(q)
             /\ P = <<>> \/ \E c, d \in ToSet(q) : c # d /\ P = <<c, d>>
             /\ Len(C) + Len(P) + Cardinality(ToSet(W)) = Cardinality(ToSet(q))
             /\ \A p \in Player :
                  Cardinality(Of(ToSet(C), p)) + Cardinality(Of(ToSet(P), p))
                    + Cardinality(Of(ToSet(W), p)) = Cardinality(Of(ToSet(q), p))
  <1> DEFINE C == Candidates(q)
             L == WithoutAI(q)
             P == Paired(q)
             W == Waiting(q)
  <1>1. C \in Line /\ ToSet(C) \subseteq ToSet(q)
    BY CandidatesQueued
  <1>2. /\ L \in Line /\ ToSet(L) \subseteq ToSet(q)
        /\ Cardinality(ToSet(L)) + Len(C) = Cardinality(ToSet(q))
        /\ \A p \in Player : Cardinality(Of(ToSet(L), p)) + Cardinality(Of(ToSet(C), p))
                               = Cardinality(Of(ToSet(q), p))
    BY <1>1, RemoveEachCounts DEF WithoutAI
  <1>3. P = <<>> \/ \E c, d \in ToSet(L) : c # d /\ P = <<c, d>>
    <2>1. L \in Seq(Call) /\ Len(L) \in Nat
      BY <1>2 DEF Line
    <2> QED
      BY <1>2, <2>1, PairFound DEF Paired
  <1>4. P \in Line /\ ToSet(P) \subseteq ToSet(L)
    <2>1. CASE P = <<>>
      BY <2>1 DEF Line, ToSet, IsInjective
    <2>2. ASSUME NEW c \in ToSet(L), NEW d \in ToSet(L), c # d, P = <<c, d>>
          PROVE  P \in Line /\ ToSet(P) \subseteq ToSet(L)
      BY <1>2, <2>2, PairInLine, LineIsSet
    <2> QED
      BY <1>3, <2>1, <2>2
  <1>5. /\ W \in Line /\ ToSet(W) \subseteq ToSet(L)
        /\ Cardinality(ToSet(W)) + Len(P) = Cardinality(ToSet(L))
        /\ \A p \in Player : Cardinality(Of(ToSet(W), p)) + Cardinality(Of(ToSet(P), p))
                               = Cardinality(Of(ToSet(L), p))
    BY <1>2, <1>4, RemoveEachCounts DEF Waiting, WithoutPair
  <1>6. \A s \in Line : Len(s) \in Nat /\ Cardinality(ToSet(s)) \in Nat
                        /\ \A p : Cardinality(Of(ToSet(s), p)) \in Nat
    BY LineIsSet, CallsFinite
  <1> HIDE DEF C, L, P, W
  <1>7. Len(C) + Len(P) + Cardinality(ToSet(W)) = Cardinality(ToSet(q))
    BY <1>1, <1>2, <1>4, <1>5, <1>6, SMTT(30)
  <1>8. ASSUME NEW p \in Player
        PROVE  Cardinality(Of(ToSet(C), p)) + Cardinality(Of(ToSet(P), p))
                 + Cardinality(Of(ToSet(W), p)) = Cardinality(Of(ToSet(q), p))
    BY <1>1, <1>2, <1>4, <1>5, <1>6
  <1> QED
    BY <1>1, <1>2, <1>3, <1>4, <1>5, <1>7, <1>8 DEF C, P, W

\* The matches made: one with an AI for each candidate, then the pair's.
LEMMA MatchesMade ==
  ASSUME NEW q \in Line
  PROVE  LET C == Candidates(q)
             P == Paired(q)
             N == NewMatches(q)
         IN  /\ N \in Seq(Fresh)
             /\ Len(N) = Len(C) + (IF P = <<>> THEN 0 ELSE 1)
             /\ \A i \in 1 .. Len(C) : N[i] = Against(C[i], AI)
             /\ P # <<>> => N[Len(C) + 1] = Against(P[1], P[2])
  <1> DEFINE C == Candidates(q)
             P == Paired(q)
             A == [i \in DOMAIN C |-> Against(C[i], AI)]
             B == IF P = <<>> THEN <<>> ELSE <<Against(P[1], P[2])>>
  <1>1. /\ C \in Seq(Call) /\ DOMAIN C = 1 .. Len(C) /\ Len(C) \in Nat
        /\ P = <<>> \/ \E c, d \in Call : P = <<c, d>>
    <2>1. C \in Line /\ ToSet(q) \in SUBSET Call
      BY CandidatesQueued, LineIsSet
    <2> QED
      BY <2>1, RoundCounts DEF Line
  <1> HIDE DEF C, P
  <1>2. A \in Seq(Fresh) /\ Len(A) = Len(C) /\ \A i \in 1 .. Len(C) : A[i] = Against(C[i], AI)
    <2>1. \A i \in 1 .. Len(C) : Against(C[i], AI) \in Fresh
      BY <1>1 DEF Against, Fresh
    <2> QED
      BY <1>1, <2>1
  <1>3. /\ B \in Seq(Fresh) /\ Len(B) = IF P = <<>> THEN 0 ELSE 1
        /\ P # <<>> => B[1] = Against(P[1], P[2])
    <2>1. CASE P = <<>>
      BY <2>1
    <2>2. ASSUME NEW c \in Call, NEW d \in Call, P = <<c, d>>
          PROVE  P # <<>> /\ Against(P[1], P[2]) \in Fresh
      BY <2>2 DEF Against, Fresh
    <2>3. CASE P # <<>>
      <3>1. Against(P[1], P[2]) \in Fresh
        BY <1>1, <2>2, <2>3
      <3> QED
        BY <2>3, <3>1
    <2> QED
      BY <2>1, <2>3
  <1>4. NewMatches(q) = A \o B
    BY DEF NewMatches, C, P
  <1> HIDE DEF A, B
  <1>5. /\ A \o B \in Seq(Fresh) /\ Len(A \o B) = Len(C) + (IF P = <<>> THEN 0 ELSE 1)
        /\ \A i \in 1 .. Len(C) : (A \o B)[i] = A[i]
        /\ P # <<>> => (A \o B)[Len(C) + 1] = B[1]
    BY <1>1, <1>2, <1>3
  <1> QED
    BY <1>2, <1>3, <1>4, <1>5 DEF C, P

\* What one round of tryMatch makes of one queue.
LEMMA RoundMade ==
  ASSUME NEW q \in Line
  PROVE  Waiting(q) \in Line /\ Round(ToSet(q), NewMatches(q), ToSet(Waiting(q)))
  <1> DEFINE C == Candidates(q)
             P == Paired(q)
             N == NewMatches(q)
             W == Waiting(q)
             k == Len(C)
  <1>1. /\ C \in Line /\ P \in Line /\ W \in Line
        /\ ToSet(C) \subseteq ToSet(q) /\ ToSet(P) \subseteq ToSet(q)
        /\ ToSet(W) \subseteq ToSet(q)
        /\ P = <<>> \/ \E c, d \in ToSet(q) : c # d /\ P = <<c, d>>
        /\ Len(C) + Len(P) + Cardinality(ToSet(W)) = Cardinality(ToSet(q))
        /\ \A p \in Player :
             Cardinality(Of(ToSet(C), p)) + Cardinality(Of(ToSet(P), p))
               + Cardinality(Of(ToSet(W), p)) = Cardinality(Of(ToSet(q), p))
    BY RoundCounts
  <1>2. /\ N \in Seq(Fresh)
        /\ Len(N) = Len(C) + (IF P = <<>> THEN 0 ELSE 1)
        /\ \A i \in 1 .. Len(C) : N[i] = Against(C[i], AI)
        /\ P # <<>> => N[Len(C) + 1] = Against(P[1], P[2])
    BY MatchesMade
  <1>3. /\ ToSet(q) \in SUBSET Call /\ Len(C) \in Nat /\ Len(P) \in Nat
        /\ \A i \in 1 .. Len(C) : C[i] \in ToSet(C)
        /\ \A c \in ToSet(C) : \E i \in 1 .. Len(C) : C[i] = c
        /\ \A i, j \in 1 .. Len(C) : C[i] = C[j] => i = j
        /\ AI \notin Call
        /\ \A c \in Call : Caller[c] \in Player
    BY <1>1, LineIsSet, MatchmakerAssumption DEF Line, ToSet, IsInjective
  <1>4. \A s \in Line : /\ Cardinality(ToSet(s)) \in Nat
                        /\ \A p : Cardinality(Of(ToSet(s), p)) \in Nat
    BY LineIsSet, CallsFinite
  <1> HIDE DEF C, P, N, W
  <1>5. /\ P # <<>> => /\ P[1] \in ToSet(q) /\ P[2] \in ToSet(q) /\ P[1] # P[2]
                       /\ Len(P) = 2 /\ ToSet(P) = {P[1], P[2]}
        /\ P = <<>> => Len(P) = 0 /\ ToSet(P) = {}
    <2>1. ASSUME NEW c \in ToSet(q), NEW d \in ToSet(q), c # d, P = <<c, d>>
          PROVE  /\ P[1] \in ToSet(q) /\ P[2] \in ToSet(q) /\ P[1] # P[2]
                 /\ Len(P) = 2 /\ ToSet(P) = {P[1], P[2]}
      BY <1>3, <2>1, PairInLine
    <2>2. P = <<>> => Len(P) = 0 /\ ToSet(P) = {}
      BY DEF ToSet
    <2> QED
      BY <1>1, <2>1, <2>2
  <1>6. /\ \A i \in 1 .. k : /\ N[i].one = C[i] /\ N[i].two = AI /\ Sides(N[i]) = {C[i]}
        /\ P # <<>> => /\ N[k + 1].one = P[1] /\ N[k + 1].two = P[2]
                       /\ Sides(N[k + 1]) = ToSet(P)
    <2>1. ASSUME NEW i \in 1 .. k
          PROVE  /\ N[i].one = C[i] /\ N[i].two = AI /\ Sides(N[i]) = {C[i]}
      <3>1. N[i] = Against(C[i], AI) /\ C[i] \in Call
        BY <1>1, <1>2, <1>3
      <3>2. N[i].one = C[i] /\ N[i].two = AI
        BY <3>1 DEF Against
      <3> QED
        BY <1>3, <3>1, <3>2 DEF Sides
    <2>2. ASSUME P # <<>>
          PROVE  /\ N[k + 1].one = P[1] /\ N[k + 1].two = P[2]
                 /\ Sides(N[k + 1]) = ToSet(P)
      <3>1. N[k + 1] = Against(P[1], P[2]) /\ P[1] \in Call /\ P[2] \in Call
        BY <1>2, <1>3, <1>5, <2>2
      <3>2. N[k + 1].one = P[1] /\ N[k + 1].two = P[2]
        BY <3>1 DEF Against
      <3> QED
        BY <1>5, <2>2, <3>1, <3>2 DEF Sides
    <2> QED
      BY <2>1, <2>2
  <1>7. /\ DOMAIN N = 1 .. Len(N) /\ Len(N) \in Nat
        /\ \A i \in DOMAIN N : i \in 1 .. k \/ (i = k + 1 /\ P # <<>>)
        /\ \A i \in 1 .. k : i \in DOMAIN N
        /\ P # <<>> => k + 1 \in DOMAIN N
    BY <1>2, <1>3
  <1> HIDE DEF k
  <1>8. \A i \in DOMAIN N : /\ Sides(N[i]) \subseteq ToSet(q) /\ N[i].one \in ToSet(q)
                            /\ N[i].one # N[i].two
    <2> SUFFICES ASSUME NEW i \in DOMAIN N
                 PROVE  /\ Sides(N[i]) \subseteq ToSet(q) /\ N[i].one \in ToSet(q)
                        /\ N[i].one # N[i].two
      OBVIOUS
    <2>1. CASE i \in 1 .. k
      <3>1. C[i] \in ToSet(q) /\ C[i] # AI
        BY <1>1, <1>3, <2>1 DEF k
      <3> QED
        BY <1>6, <2>1, <3>1
    <2>2. CASE i = k + 1 /\ P # <<>>
      BY <1>5, <1>6, <2>2
    <2> QED
      BY <1>7, <2>1, <2>2
  <1>9. Len(N) + Cardinality(ToSet(W)) <= Cardinality(ToSet(q))
    BY <1>1, <1>2, <1>3, <1>4, <1>5
  <1>10. ASSUME NEW c \in ToSet(q)
         PROVE  /\ Cardinality(With(N, c)) + Cardinality(Of(ToSet(W), Caller[c]))
                     <= Cardinality(Of(ToSet(q), Caller[c]))
                /\ Of(ToSet(q), Caller[c]) = {c} => c \in ToSet(W) \/ With(N, c) # {}
    <2> DEFINE p == Caller[c]
               M1 == {i \in 1 .. k : C[i] = c}
               M2 == IF P # <<>> /\ c \in ToSet(P) THEN {k + 1} ELSE {}
    <2>1. With(N, c) = M1 \cup M2
      <3>1. With(N, c) \subseteq M1 \cup M2
        BY <1>6, <1>7 DEF With
      <3>2. M1 \subseteq With(N, c)
        <4> SUFFICES ASSUME NEW i \in M1 PROVE i \in With(N, c)
          OBVIOUS
        <4>1. i \in DOMAIN N /\ Sides(N[i]) = {c}
          BY <1>6, <1>7
        <4> QED
          BY <4>1 DEF With
      <3>3. M2 \subseteq With(N, c)
        BY <1>6, <1>7 DEF With
      <3> QED
        BY <3>1, <3>2, <3>3
    <2>2. p \in Player
      BY <1>3
    <2>3. IsFiniteSet(M1) /\ Cardinality(M1) <= Cardinality(Of(ToSet(C), p))
          /\ Cardinality(M1) \in Nat
      <3>1. CASE M1 = {}
        <4>1. Cardinality(Of(ToSet(C), p)) \in Nat
          BY <1>1, <1>4
        <4> HIDE DEF M1
        <4> QED
          BY <3>1, <4>1, FS_EmptySet
      <3>2. CASE M1 # {}
        <4>1. PICK i \in 1 .. k : C[i] = c
          BY <3>2
        <4>2. M1 = {i}
          BY <1>3, <4>1 DEF k
        <4>3. c \in Of(ToSet(C), p)
          BY <1>3, <4>1 DEF Of, k
        <4>4. IsFiniteSet(Of(ToSet(C), p))
          BY <1>1, LineIsSet, CallsFinite
        <4>5. Cardinality(Of(ToSet(C), p)) # 0
          BY <4>3, <4>4, FS_EmptySet
        <4>6. Cardinality(Of(ToSet(C), p)) \in Nat
          BY <1>1, <1>4
        <4> HIDE DEF M1
        <4> QED
          BY <4>2, <4>5, <4>6, FS_Singleton, SMTT(30)
      <3> QED
        BY <3>1, <3>2
    <2>4. IsFiniteSet(M2) /\ Cardinality(M2) <= Cardinality(Of(ToSet(P), p))
          /\ Cardinality(M2) \in Nat
      <3>1. CASE M2 = {}
        <4>1. Cardinality(Of(ToSet(P), p)) \in Nat
          BY <1>1, <1>4
        <4> HIDE DEF M2
        <4> QED
          BY <3>1, <4>1, FS_EmptySet
      <3>2. CASE M2 # {}
        <4>1. c \in Of(ToSet(P), p) /\ M2 = {k + 1}
          BY <3>2 DEF Of
        <4>2. IsFiniteSet(Of(ToSet(P), p))
          BY <1>1, LineIsSet, CallsFinite
        <4>3. Cardinality(Of(ToSet(P), p)) # 0 /\ Cardinality(Of(ToSet(P), p)) \in Nat
          BY <1>1, <1>4, <4>1, <4>2, FS_EmptySet
        <4>4. PICK m : M2 = {m}
          BY <4>1
        <4> HIDE DEF M2
        <4>5. IsFiniteSet(M2) /\ Cardinality(M2) = 1
          BY <4>4, FS_Singleton
        <4> QED
          BY <4>3, <4>5
      <3> QED
        BY <3>1, <3>2
    <2>5. /\ Cardinality(With(N, c)) <= Cardinality(M1) + Cardinality(M2)
          /\ Cardinality(With(N, c)) \in Nat
      <3>1. /\ Cardinality(M1 \cup M2) = Cardinality(M1) + Cardinality(M2)
                                           - Cardinality(M1 \cap M2)
            /\ IsFiniteSet(M1 \cup M2)
        <4> HIDE DEF M1, M2
        <4> QED
          BY <2>3, <2>4, FS_Union
      <3>2. IsFiniteSet(M1 \cap M2)
        <4> HIDE DEF M1, M2
        <4> QED
          BY <2>3, FS_Subset
      <3>3. Cardinality(M1 \cap M2) \in Nat /\ Cardinality(M1 \cup M2) \in Nat
        <4> HIDE DEF M1, M2
        <4> QED
          BY <3>1, <3>2, FS_CardinalityType
      <3> HIDE DEF M1, M2
      <3> QED
        BY <2>1, <2>3, <2>4, <3>1, <3>3
    <2>6. Cardinality(Of(ToSet(C), p)) + Cardinality(Of(ToSet(P), p))
            + Cardinality(Of(ToSet(W), p)) = Cardinality(Of(ToSet(q), p))
      BY <1>1, <2>2
    <2>7. /\ Cardinality(Of(ToSet(C), p)) \in Nat /\ Cardinality(Of(ToSet(P), p)) \in Nat
          /\ Cardinality(Of(ToSet(W), p)) \in Nat /\ Cardinality(Of(ToSet(q), p)) \in Nat
      BY <1>1, <1>4
    <2>8. Cardinality(With(N, c)) + Cardinality(Of(ToSet(W), p))
            <= Cardinality(Of(ToSet(q), p))
      <3> HIDE DEF M1, M2, p
      <3> QED
        BY <2>3, <2>4, <2>5, <2>6, <2>7
    <2>9. ASSUME Of(ToSet(q), p) = {c}, c \notin ToSet(W), With(N, c) = {}
          PROVE  FALSE
      <3>1. c \notin ToSet(C) /\ c \notin ToSet(P)
        <4>1. c \notin ToSet(C)
          <5> SUFFICES ASSUME c \in ToSet(C) PROVE FALSE
            OBVIOUS
          <5>1. PICK i \in 1 .. k : C[i] = c
            BY <1>3 DEF k
          <5>2. i \in With(N, c)
            BY <1>6, <1>7, <5>1 DEF With
          <5> QED
            BY <2>9, <5>2
        <4>2. c \notin ToSet(P)
          <5> SUFFICES ASSUME c \in ToSet(P) PROVE FALSE
            OBVIOUS
          <5>1. k + 1 \in With(N, c)
            BY <1>5, <1>6, <1>7 DEF With
          <5> QED
            BY <2>9, <5>1
        <4> QED
          BY <4>1, <4>2
      <3>2. Of(ToSet(C), p) = {} /\ Of(ToSet(P), p) = {} /\ Of(ToSet(W), p) = {}
        BY <1>1, <2>9, <3>1 DEF Of
      <3>3. Cardinality({}) = 0 /\ Cardinality({c}) = 1
        BY FS_EmptySet, FS_Singleton
      <3> HIDE DEF p
      <3> QED
        BY <2>6, <2>9, <3>2, <3>3
    <2> QED
      BY <2>8, <2>9
  <1> QED
    BY <1>1, <1>2, <1>8, <1>9, <1>10 DEF Round, N, W

-----------------------------------------------------------------------------
(* The queues of all game types. *)

\* The matches a call is in are finitely many.
LEMMA WithFinite ==
  ASSUME NEW V, NEW N \in Seq(V), NEW c
  PROVE  IsFiniteSet(With(N, c)) /\ Cardinality(With(N, c)) \in Nat
  <1>1. With(N, c) \subseteq 1 .. Len(N) /\ Len(N) \in Nat
    BY DEF With
  <1>2. IsFiniteSet(1 .. Len(N))
    BY <1>1, FS_Interval
  <1>3. IsFiniteSet(With(N, c))
    BY <1>1, <1>2, FS_Subset
  <1> QED
    BY <1>3, FS_CardinalityType

\* Two sequences of matches, one after the other.
LEMMA WithConcat ==
  ASSUME NEW V, NEW M \in Seq(V), NEW N \in Seq(V), NEW c
  PROVE  /\ M \o N \in Seq(V) /\ Len(M \o N) = Len(M) + Len(N)
         /\ DOMAIN M \subseteq DOMAIN (M \o N)
         /\ \A i \in DOMAIN (M \o N) :
              \/ i \in DOMAIN M /\ (M \o N)[i] = M[i]
              \/ i \notin DOMAIN M /\ \E j \in DOMAIN N : (M \o N)[i] = N[j]
         /\ With(M, c) \subseteq With(M \o N, c)
         /\ With(N, c) = {} => With(M \o N, c) = With(M, c)
         /\ Cardinality(With(M \o N, c)) <= Cardinality(With(M, c)) + Cardinality(With(N, c))
         /\ With(N, c) # {} => With(M \o N, c) # {}
  <1> DEFINE k == Len(M)
             R == M \o N
  <1>1. /\ k \in Nat /\ Len(N) \in Nat
        /\ DOMAIN M = 1 .. k /\ DOMAIN N = 1 .. Len(N)
    OBVIOUS
  <1>2. /\ R \in Seq(V) /\ Len(R) = k + Len(N)
        /\ DOMAIN R = 1 .. (k + Len(N))
        /\ \A i \in 1 .. k : R[i] = M[i]
        /\ \A i \in 1 .. (k + Len(N)) : i > k => R[i] = N[i - k]
    BY <1>1
  <1> HIDE DEF k, R
  <1>3. /\ \A i \in DOMAIN R :
             \/ i \in DOMAIN M /\ R[i] = M[i]
             \/ i > k /\ i - k \in DOMAIN N /\ R[i] = N[i - k]
        /\ \A i \in DOMAIN M : i \in DOMAIN R
        /\ \A j \in DOMAIN N : k + j \in DOMAIN R /\ R[k + j] = N[j]
    <2>1. ASSUME NEW i \in DOMAIN R
          PROVE  \/ i \in DOMAIN M /\ R[i] = M[i]
                 \/ i > k /\ i - k \in DOMAIN N /\ R[i] = N[i - k]
      BY <1>1, <1>2
    <2>2. ASSUME NEW j \in DOMAIN N PROVE k + j \in DOMAIN R /\ R[k + j] = N[j]
      <3>1. k + j \in 1 .. (k + Len(N)) /\ k + j > k /\ (k + j) - k = j
        BY <1>1
      <3> QED
        BY <1>2, <3>1
    <2>3. \A i \in DOMAIN M : i \in DOMAIN R
      BY <1>1, <1>2
    <2> QED
      BY <2>1, <2>2, <2>3
  <1>4. With(M, c) \subseteq With(R, c)
    BY <1>1, <1>2, <1>3 DEF With
  <1>5. With(N, c) = {} => With(R, c) = With(M, c)
    BY <1>1, <1>2, <1>3, <1>4 DEF With
  <1>6. With(N, c) # {} => With(R, c) # {}
    BY <1>3 DEF With
  <1>7. Cardinality(With(R, c)) <= Cardinality(With(M, c)) + Cardinality(With(N, c))
    <2> DEFINE S == With(R, c) \ With(M, c)
               f == [i \in S |-> i - k]
    <2>1. \A i \in S : i - k \in With(N, c) /\ i \in Nat
      BY <1>2, <1>3 DEF With
    <2>2. f \in [S -> With(N, c)]
      BY <2>1
    <2>3. \A i, j \in S : f[i] = f[j] => i = j
      BY <1>1, <2>1
    <2>4. f \in Injection(S, With(N, c))
      <3> HIDE DEF f, S
      <3> QED
        BY <2>2, <2>3 DEF Injection, IsInjective
    <2>5. /\ IsFiniteSet(With(R, c)) /\ IsFiniteSet(With(M, c)) /\ IsFiniteSet(With(N, c))
          /\ Cardinality(With(M, c)) \in Nat /\ Cardinality(With(N, c)) \in Nat
      BY <1>2, WithFinite
    <2>6. /\ With(R, c) = With(M, c) \cup S /\ With(M, c) \cap S = {} /\ IsFiniteSet(S)
      BY <1>4, <2>5, FS_Subset
    <2> HIDE DEF f, S
    <2>7. Cardinality(S) <= Cardinality(With(N, c)) /\ Cardinality(S) \in Nat
      BY <2>4, <2>5, <2>6, FS_Injection, FS_CardinalityType
    <2>8. Cardinality(With(R, c)) = Cardinality(With(M, c)) + Cardinality(S) - Cardinality({})
      BY <2>5, <2>6, FS_Union
    <2>9. Cardinality({}) = 0
      BY FS_EmptySet
    <2> QED
      BY <2>5, <2>7, <2>8, <2>9
  <1>8. \A i \in DOMAIN M : i <= k
    BY <1>1
  <1>9. \A i \in DOMAIN R :
          \/ i \in DOMAIN M /\ R[i] = M[i]
          \/ i \notin DOMAIN M /\ \E j \in DOMAIN N : R[i] = N[j]
    BY <1>1, <1>2, <1>3, <1>8
  <1>10. DOMAIN M \subseteq DOMAIN R
    BY <1>3
  <1> QED
    BY <1>1, <1>2, <1>4, <1>5, <1>6, <1>7, <1>9, <1>10 DEF R, k

\* At most one element.
LEMMA AtMostOne ==
  ASSUME NEW S, IsFiniteSet(S), Cardinality(S) <= 1, NEW a \in S, NEW b \in S
  PROVE  a = b
  <1> SUFFICES ASSUME a # b PROVE FALSE
    OBVIOUS
  <1>1. /\ IsFiniteSet(S \ {a}) /\ Cardinality(S \ {a}) = Cardinality(S) - 1
        /\ Cardinality(S) \in Nat /\ Cardinality(S \ {a}) \in Nat
    BY FS_RemoveElement, FS_CardinalityType, FS_Subset
  <1>2. Cardinality(S \ {a}) = 0
    BY <1>1
  <1>3. S \ {a} = {}
    BY <1>1, <1>2, FS_EmptySet
  <1> QED
    BY <1>3

\* Cardinalities of disjoint sets of calls add up.
LEMMA CardinalityDisjoint ==
  ASSUME NEW S \in SUBSET Call, NEW T \in SUBSET Call, S \cap T = {}
  PROVE  Cardinality(S \cup T) = Cardinality(S) + Cardinality(T)
  <1>1. /\ IsFiniteSet(S) /\ IsFiniteSet(T)
        /\ Cardinality(S) \in Nat /\ Cardinality(T) \in Nat
    BY CallsFinite
  <1>2. Cardinality(S \cup T) = Cardinality(S) + Cardinality(T) - Cardinality(S \cap T)
    BY <1>1, FS_Union
  <1>3. Cardinality(S \cap T) = 0
    BY FS_EmptySet
  <1> QED
    BY <1>1, <1>2, <1>3

\* So do the calls of one player among them.
LEMMA OfUnion ==
  ASSUME NEW S \in SUBSET Call, NEW T \in SUBSET Call, S \cap T = {}, NEW p
  PROVE  /\ Cardinality(Of(S \cup T, p)) = Cardinality(Of(S, p)) + Cardinality(Of(T, p))
         /\ Cardinality(Of(S, p)) \in Nat /\ Cardinality(Of(T, p)) \in Nat
  <1>1. /\ Of(S \cup T, p) = Of(S, p) \cup Of(T, p) /\ Of(S, p) \cap Of(T, p) = {}
        /\ Of(S, p) \in SUBSET Call /\ Of(T, p) \in SUBSET Call
    BY DEF Of
  <1> QED
    BY <1>1, CardinalityDisjoint, CallsFinite

\* The rounds of two queues with different entries are a round of both.
LEMMA RoundOfBoth ==
  ASSUME NEW Q1 \in SUBSET Call, NEW N1, NEW W1, Round(Q1, N1, W1),
         NEW Q2 \in SUBSET Call, NEW N2, NEW W2, Round(Q2, N2, W2),
         Q1 \cap Q2 = {}
  PROVE  Round(Q1 \cup Q2, N1 \o N2, W1 \cup W2)
  <1>1. /\ N1 \in Seq(Fresh) /\ N2 \in Seq(Fresh)
        /\ W1 \subseteq Q1 /\ W2 \subseteq Q2
        /\ \A i \in DOMAIN N1 : Sides(N1[i]) \subseteq Q1 /\ N1[i].one \in Q1
                                /\ N1[i].one # N1[i].two
        /\ \A i \in DOMAIN N2 : Sides(N2[i]) \subseteq Q2 /\ N2[i].one \in Q2
                                /\ N2[i].one # N2[i].two
    BY DEF Round
  <1>2. /\ N1 \o N2 \in Seq(Fresh) /\ Len(N1 \o N2) = Len(N1) + Len(N2)
        /\ \A i \in DOMAIN (N1 \o N2) :
             \/ i \in DOMAIN N1 /\ (N1 \o N2)[i] = N1[i]
             \/ \E j \in DOMAIN N2 : (N1 \o N2)[i] = N2[j]
    BY <1>1, WithConcat
  <1>3. ASSUME NEW i \in DOMAIN (N1 \o N2)
        PROVE  /\ Sides((N1 \o N2)[i]) \subseteq Q1 \cup Q2
               /\ (N1 \o N2)[i].one \in Q1 \cup Q2
               /\ (N1 \o N2)[i].one # (N1 \o N2)[i].two
    <2>1. CASE i \in DOMAIN N1 /\ (N1 \o N2)[i] = N1[i]
      BY <1>1, <2>1
    <2>2. ASSUME NEW j \in DOMAIN N2, (N1 \o N2)[i] = N2[j]
          PROVE  /\ Sides((N1 \o N2)[i]) \subseteq Q1 \cup Q2
                 /\ (N1 \o N2)[i].one \in Q1 \cup Q2
                 /\ (N1 \o N2)[i].one # (N1 \o N2)[i].two
      BY <1>1, <2>2
    <2> QED
      BY <1>2, <2>1, <2>2
  <1>4. Len(N1 \o N2) + Cardinality(W1 \cup W2) <= Cardinality(Q1 \cup Q2)
    <2>1. W1 \in SUBSET Call /\ W2 \in SUBSET Call /\ W1 \cap W2 = {}
      BY <1>1
    <2>2. /\ Cardinality(W1 \cup W2) = Cardinality(W1) + Cardinality(W2)
          /\ Cardinality(Q1 \cup Q2) = Cardinality(Q1) + Cardinality(Q2)
          /\ Cardinality(W1) \in Nat /\ Cardinality(W2) \in Nat
          /\ Cardinality(Q1) \in Nat /\ Cardinality(Q2) \in Nat
      BY <2>1, CardinalityDisjoint, CallsFinite
    <2>3. /\ Len(N1) + Cardinality(W1) <= Cardinality(Q1)
          /\ Len(N2) + Cardinality(W2) <= Cardinality(Q2)
          /\ Len(N1) \in Nat /\ Len(N2) \in Nat
      BY <1>1 DEF Round
    <2> QED
      BY <1>2, <2>2, <2>3
  <1>5. ASSUME NEW c \in Q1 \cup Q2
        PROVE  /\ Cardinality(With(N1 \o N2, c)) + Cardinality(Of(W1 \cup W2, Caller[c]))
                    <= Cardinality(Of(Q1 \cup Q2, Caller[c]))
               /\ Of(Q1 \cup Q2, Caller[c]) = {c} =>
                    c \in W1 \cup W2 \/ With(N1 \o N2, c) # {}
    <2> DEFINE p == Caller[c]
    <2>1. /\ Cardinality(Of(W1 \cup W2, p)) = Cardinality(Of(W1, p)) + Cardinality(Of(W2, p))
          /\ Cardinality(Of(Q1 \cup Q2, p)) = Cardinality(Of(Q1, p)) + Cardinality(Of(Q2, p))
          /\ Cardinality(Of(W1, p)) \in Nat /\ Cardinality(Of(W2, p)) \in Nat
          /\ Cardinality(Of(Q1, p)) \in Nat /\ Cardinality(Of(Q2, p)) \in Nat
      <3>1. W1 \in SUBSET Call /\ W2 \in SUBSET Call /\ W1 \cap W2 = {}
        BY <1>1
      <3> HIDE DEF p
      <3>2. /\ Cardinality(Of(W1 \cup W2, p)) = Cardinality(Of(W1, p)) + Cardinality(Of(W2, p))
            /\ Cardinality(Of(W1, p)) \in Nat /\ Cardinality(Of(W2, p)) \in Nat
        BY <3>1, OfUnion
      <3>3. /\ Cardinality(Of(Q1 \cup Q2, p)) = Cardinality(Of(Q1, p)) + Cardinality(Of(Q2, p))
            /\ Cardinality(Of(Q1, p)) \in Nat /\ Cardinality(Of(Q2, p)) \in Nat
        BY OfUnion
      <3> QED
        BY <3>2, <3>3
    <2>2. Cardinality(Of(W1, p)) <= Cardinality(Of(Q1, p))
          /\ Cardinality(Of(W2, p)) <= Cardinality(Of(Q2, p))
      <3>1. /\ Of(W1, p) \subseteq Of(Q1, p) /\ Of(W2, p) \subseteq Of(Q2, p)
            /\ Of(Q1, p) \in SUBSET Call /\ Of(Q2, p) \in SUBSET Call
        BY <1>1 DEF Of
      <3> QED
        BY <3>1, CallsFinite, FS_Subset
    <2>3. /\ Cardinality(With(N1, c)) \in Nat /\ Cardinality(With(N2, c)) \in Nat
          /\ Cardinality(With(N1 \o N2, c)) \in Nat
      BY <1>1, <1>2, WithFinite
    <2>4. CASE c \in Q1
      <3>1. With(N2, c) = {}
        BY <1>1, <2>4 DEF With
      <3>2. With(N1 \o N2, c) = With(N1, c)
        BY <1>1, <3>1, WithConcat
      <3>3. /\ Cardinality(With(N1, c)) + Cardinality(Of(W1, p)) <= Cardinality(Of(Q1, p))
            /\ Of(Q1, p) = {c} => c \in W1 \/ With(N1, c) # {}
        BY <2>4 DEF Round
      <3>4. Of(Q1 \cup Q2, p) = {c} => Of(Q1, p) = {c}
        BY <2>4 DEF Of
      <3>5. Cardinality(With(N1 \o N2, c)) + Cardinality(Of(W1 \cup W2, p))
              <= Cardinality(Of(Q1 \cup Q2, p))
        <4> HIDE DEF p
        <4> QED
          BY <2>1, <2>2, <2>3, <3>2, <3>3
      <3> QED
        BY <3>2, <3>3, <3>4, <3>5
    <2>5. CASE c \in Q2
      <3>1. With(N1, c) = {}
        BY <1>1, <2>5 DEF With
      <3>2. /\ Cardinality(With(N1 \o N2, c)) <= Cardinality(With(N2, c))
            /\ With(N2, c) # {} => With(N1 \o N2, c) # {}
        <4>1. /\ Cardinality(With(N1 \o N2, c))
                   <= Cardinality(With(N1, c)) + Cardinality(With(N2, c))
              /\ With(N2, c) # {} => With(N1 \o N2, c) # {}
          BY <1>1, WithConcat
        <4>2. Cardinality(With(N1, c)) = 0
          BY <3>1, FS_EmptySet
        <4> QED
          BY <2>3, <4>1, <4>2
      <3>3. /\ Cardinality(With(N2, c)) + Cardinality(Of(W2, p)) <= Cardinality(Of(Q2, p))
            /\ Of(Q2, p) = {c} => c \in W2 \/ With(N2, c) # {}
        BY <2>5 DEF Round
      <3>4. Of(Q1 \cup Q2, p) = {c} => Of(Q2, p) = {c}
        BY <2>5 DEF Of
      <3>5. Cardinality(With(N1 \o N2, c)) + Cardinality(Of(W1 \cup W2, p))
              <= Cardinality(Of(Q1 \cup Q2, p))
        <4> HIDE DEF p
        <4> QED
          BY <2>1, <2>2, <2>3, <3>2, <3>3
      <3> QED
        BY <3>2, <3>3, <3>4, <3>5
    <2> QED
      BY <2>4, <2>5
  <1> QED
    BY <1>1, <1>2, <1>3, <1>4, <1>5 DEF Round

\* The order in which the game types are taken lists each of them once.
LEMMA TypesListed ==
  /\ Cardinality(GameType) \in Nat
  /\ SetToSeq(GameType) \in [1 .. Cardinality(GameType) -> GameType]
  /\ IsInjective(SetToSeq(GameType))
  /\ \A t \in GameType : \E i \in 1 .. Cardinality(GameType) : SetToSeq(GameType)[i] = t
  <1> DEFINE n == Cardinality(GameType)
             ts == SetToSeq(GameType)
  <1>1. IsFiniteSet(GameType) /\ n \in Nat /\ ExistsBijection(1 .. n, GameType)
    BY MatchmakerAssumption, FS_CardinalityType
  <1>2. \E f \in [1 .. n -> GameType] : IsInjective(f)
    BY <1>1 DEF ExistsBijection, Bijection, Injection
  <1>3. ts \in [1 .. n -> GameType] /\ IsInjective(ts)
    BY <1>2 DEF SetToSeq
  <1>4. IsFiniteSet(1 .. n) /\ Cardinality(1 .. n) = n
    BY <1>1, FS_Interval
  <1> HIDE DEF n, ts
  <1>5. ts \in Injection(1 .. n, GameType)
    BY <1>3 DEF Injection
  <1>6. ts \in Surjection(1 .. n, GameType)
    BY <1>1, <1>4, <1>5, FS_Injection DEF n
  <1>7. \A t \in GameType : \E i \in 1 .. n : ts[i] = t
    BY <1>6 DEF Surjection
  <1> QED
    BY <1>1, <1>3, <1>7 DEF n, ts

\* FlattenSeq, one sequence after the other.
Flattens(f, n, s, r) ==
  /\ f[0] = <<>> /\ f[n] = r
  /\ \A i \in 1 .. n : f[i] = f[i - 1] \o s[i]

\* FlattenSeq concatenates the sequences one after the other.
LEMMA FlattenSteps ==
  ASSUME NEW V, NEW n \in Nat, NEW s \in [1 .. n -> Seq(V)]
  PROVE  \E f : Flattens(f, n, s, FlattenSeq(s))
  <1>1. s \in Seq(Seq(V)) /\ Len(s) = n /\ DOMAIN s = 1 .. n
    OBVIOUS
  <1>2. CASE n = 0
    <2>1. s = <<>> /\ FlattenSeq(s) = s
      BY <1>1, <1>2 DEF FlattenSeq
    <2> DEFINE f == [i \in {0} |-> <<>>]
    <2>2. f[0] = <<>> /\ 1 .. 0 = {}
      OBVIOUS
    <2>3. f[n] = FlattenSeq(s) /\ \A i \in 1 .. n : FALSE
      BY <1>2, <2>1, <2>2
    <2> HIDE DEF f
    <2>4. Flattens(f, n, s, FlattenSeq(s))
      BY <2>2, <2>3 DEF Flattens
    <2> QED
      BY <2>4
  <1>3. CASE n # 0
    <2> DEFINE g == [x \in (1 .. n) \X Seq(V) |-> x[2] \o s[x[1]]]
               Def(f) == f = [i \in 1 .. n |-> IF i = 1 THEN s[i] ELSE f[i - 1] \o s[i]]
    <2>1. g \in [(1 .. n) \X Seq(V) -> Seq(V)]
      <3>1. ASSUME NEW x \in (1 .. n) \X Seq(V) PROVE x[2] \o s[x[1]] \in Seq(V)
        <4>1. x[2] \in Seq(V) /\ s[x[1]] \in Seq(V)
          OBVIOUS
        <4> QED
          BY <4>1
      <3> QED
        BY <3>1
    <2>2. \E f \in [0 .. n -> Seq(V)] : Unfolds(f, n, <<>>, g)
      <3>1. <<>> \in Seq(V)
        OBVIOUS
      <3> HIDE DEF g
      <3> QED
        BY <2>1, <3>1, Recursion
    <2>3. PICK f \in [0 .. n -> Seq(V)] : Unfolds(f, n, <<>>, g)
      BY <2>2
    <2>4. f[0] = <<>> /\ \A i \in 1 .. n : f[i] = g[<<i, f[i - 1]>>]
      <3>1. 0 \in 0 .. n /\ \A i \in 1 .. n : i \in 0 .. n /\ i # 0
        OBVIOUS
      <3> HIDE DEF g
      <3> QED
        BY <2>3, <3>1 DEF Unfolds
    <2>5. ASSUME NEW i \in 1 .. n PROVE f[i] = f[i - 1] \o s[i]
      <3>1. f[i - 1] \in Seq(V)
        BY <2>3
      <3>2. <<i, f[i - 1]>> \in (1 .. n) \X Seq(V)
        BY <3>1
      <3> QED
        BY <2>4, <3>2
    <2> DEFINE e == [i \in 1 .. n |-> f[i]]
    <2>6. Def(e)
      <3>1. ASSUME NEW i \in 1 .. n
            PROVE  f[i] = IF i = 1 THEN s[i] ELSE e[i - 1] \o s[i]
        <4>1. CASE i = 1
          <5>1. f[i - 1] = <<>> /\ s[i] \in Seq(V)
            BY <2>4, <4>1
          <5>2. f[i] = <<>> \o s[i]
            BY <2>5, <5>1
          <5> HIDE DEF e
          <5> QED
            BY <4>1, <5>1, <5>2
        <4>2. CASE i # 1
          <5>1. i - 1 \in 1 .. n
            BY <4>2
          <5>2. e[i - 1] = f[i - 1]
            BY <5>1
          <5> HIDE DEF e
          <5> QED
            BY <2>5, <4>2, <5>2
        <4> QED
          BY <4>1, <4>2
      <3>2. e = [i \in 1 .. n |-> IF i = 1 THEN s[i] ELSE e[i - 1] \o s[i]]
        <4> DEFINE E(i) == e[i - 1]
        <4>1. \A i \in 1 .. n : e[i] = IF i = 1 THEN s[i] ELSE E(i) \o s[i]
          BY <3>1
        <4>2. e = [i \in 1 .. n |-> e[i]]
          OBVIOUS
        <4> HIDE DEF e
        <4> QED
          BY <4>1, <4>2
      <3> QED
        BY <3>2
    <2> DEFINE h == CHOOSE h : Def(h)
    <2>7. Def(h)
      <3> HIDE DEF Def
      <3> QED
        BY <2>6
    <2>8. FlattenSeq(s) = h[n]
      BY <1>1, <1>3 DEF FlattenSeq
    <2> HIDE DEF h, e, g
    <2>9. /\ DOMAIN h = 1 .. n /\ h[1] = s[1]
          /\ \A i \in 1 .. n : i # 1 => h[i] = h[i - 1] \o s[i]
      <3>1. 1 \in 1 .. n
        BY <1>3
      <3>2. h = [i \in 1 .. n |-> IF i = 1 THEN s[i] ELSE h[i - 1] \o s[i]]
        BY <2>7
      <3> HIDE DEF Def
      <3>3. h[1] = s[1] /\ DOMAIN h = 1 .. n
        BY <3>1, <3>2
      <3>4. \A i \in 1 .. n : i # 1 => h[i] = h[i - 1] \o s[i]
        BY <3>2
      <3> QED
        BY <3>3, <3>4
    <2> HIDE DEF Def
    <2> DEFINE r == [i \in 0 .. n |-> IF i = 0 THEN <<>> ELSE h[i]]
    <2>10. r[0] = <<>> /\ \A i \in 1 .. n : r[i] = h[i]
      OBVIOUS
    <2> HIDE DEF r
    <2>11. ASSUME NEW i \in 1 .. n PROVE r[i] = r[i - 1] \o s[i]
      <3>1. CASE i = 1
        <4>1. r[i - 1] = <<>> /\ s[1] \in Seq(V) /\ r[i] = s[1]
          BY <2>9, <2>10, <3>1
        <4> QED
          BY <3>1, <4>1
      <3>2. CASE i # 1
        <4>1. i - 1 \in 1 .. n
          BY <3>2
        <4> QED
          BY <2>9, <2>10, <3>2, <4>1
      <3> QED
        BY <3>1, <3>2
    <2>12. r[n] = FlattenSeq(s)
      BY <1>3, <2>8, <2>10
    <2> QED
      BY <2>10, <2>11, <2>12 DEF Flattens
  <1> QED
    BY <1>2, <1>3

\* A round of tryMatch, over the queues of all types.
LEMMA RoundOfAll ==
  ASSUME queue \in [GameType -> Seq(Call)],
         \A t \in GameType : /\ IsInjective(queue[t])
                             /\ \A c \in ToSet(queue[t]) : Kind[c] = t
  PROVE  Round(Queued, AllNew, UNION {ToSet(Waiting(queue[t])) : t \in GameType})
  <1> DEFINE n == Cardinality(GameType)
             ts == SetToSeq(GameType)
             s == [k \in 1 .. n |-> NewMatches(queue[ts[k]])]
             Q(m) == UNION {ToSet(queue[ts[j]]) : j \in 1 .. m}
             W(m) == UNION {ToSet(Waiting(queue[ts[j]])) : j \in 1 .. m}
  <1>1. /\ n \in Nat /\ ts \in [1 .. n -> GameType]
        /\ \A i, j \in 1 .. n : ts[i] = ts[j] => i = j
        /\ \A t \in GameType : \E i \in 1 .. n : ts[i] = t
    BY TypesListed DEF IsInjective
  <1>2. \A t \in GameType :
          /\ queue[t] \in Line /\ ToSet(queue[t]) \in SUBSET Call
          /\ Round(ToSet(queue[t]), NewMatches(queue[t]), ToSet(Waiting(queue[t])))
    <2>1. ASSUME NEW t \in GameType PROVE queue[t] \in Line
      BY DEF Line
    <2> QED
      BY <2>1, LineIsSet, RoundMade
  <1>3. s \in [1 .. n -> Seq(Fresh)]
    <2>1. \A k \in 1 .. n : NewMatches(queue[ts[k]]) \in Seq(Fresh)
      BY <1>1, <1>2 DEF Round
    <2> QED
      BY <2>1
  <1>4. AllNew = FlattenSeq(s)
    BY DEF AllNew
  <1>5. PICK f : Flattens(f, n, s, AllNew)
    <2> HIDE DEF n, s
    <2>1. \E f : Flattens(f, n, s, FlattenSeq(s))
      BY <1>1, <1>3, FlattenSteps
    <2> QED
      BY <1>4, <2>1
  <1> DEFINE T == {m \in 0 .. n : Round(Q(m), f[m], W(m))}
  <1>6. 0 \in T
    <2>1. 1 .. 0 = {}
      OBVIOUS
    <2>2. Q(0) = {} /\ W(0) = {}
      BY <2>1
    <2>3. Cardinality({}) = 0 /\ <<>> \in Seq(Fresh) /\ Len(<<>>) = 0 /\ DOMAIN <<>> = {}
      BY FS_EmptySet
    <2>4. Round({}, <<>>, {})
      BY <2>3 DEF Round
    <2> HIDE DEF Q, W, n
    <2>5. f[0] = <<>> /\ 0 \in 0 .. n
      BY <1>1, <1>5 DEF Flattens
    <2> HIDE DEF s
    <2>6. Round(Q(0), f[0], W(0))
      BY <2>2, <2>4, <2>5
    <2> QED
      BY <2>5, <2>6
  <1>7. ASSUME NEW m \in 0 .. n, m > 0, m - 1 \in T PROVE m \in T
    <2> DEFINE t == ts[m]
    <2>1. m \in 1 .. n /\ t \in GameType /\ m - 1 \in 0 .. n
      BY <1>1, <1>7
    <2>2. /\ Q(m) = Q(m - 1) \cup ToSet(queue[t])
          /\ W(m) = W(m - 1) \cup ToSet(Waiting(queue[t]))
      <3>1. \A j : j \in 1 .. m <=> j \in 1 .. (m - 1) \/ j = m
        BY <1>1, <2>1
      <3> HIDE DEF n, ts
      <3> QED
        BY <3>1
    <2>3. f[m] = f[m - 1] \o NewMatches(queue[t])
      BY <1>5, <2>1 DEF Flattens
    <2>4. \A j \in 1 .. (m - 1) : ts[j] \in GameType /\ ts[j] # t
      <3>1. \A j \in 1 .. (m - 1) : j \in 1 .. n /\ j # m
        BY <1>1, <2>1
      <3> HIDE DEF n, ts
      <3> QED
        BY <1>1, <2>1, <3>1 DEF t
    <2>5. Q(m - 1) \in SUBSET Call /\ Q(m - 1) \cap ToSet(queue[t]) = {}
      <3>1. ASSUME NEW c \in Q(m - 1) PROVE c \in Call /\ c \notin ToSet(queue[t])
        <4>1. PICK j \in 1 .. (m - 1) : c \in ToSet(queue[ts[j]])
          BY <3>1
        <4>2. ts[j] \in GameType /\ ts[j] # t
          BY <2>4, <4>1
        <4> HIDE DEF ts, t, n
        <4> QED
          BY <1>2, <2>1, <4>1, <4>2
      <3> QED
        BY <3>1
    <2>6. Round(Q(m - 1), f[m - 1], W(m - 1))
      BY <1>7
    <2>7. /\ ToSet(queue[t]) \in SUBSET Call
          /\ Round(ToSet(queue[t]), NewMatches(queue[t]), ToSet(Waiting(queue[t])))
      BY <1>2, <2>1
    <2> HIDE DEF t, Q, W
    <2>8. Round(Q(m), f[m], W(m))
      BY <2>2, <2>3, <2>5, <2>6, <2>7, RoundOfBoth
    <2> QED
      BY <2>8
  <1>8. Round(Q(n), f[n], W(n))
    <2>1. T \in SUBSET (0 .. n)
      OBVIOUS
    <2>2. \A m \in 0 .. n : m \in T
      <3> HIDE DEF T, n
      <3> QED
        BY <1>1, <1>6, <1>7, <2>1, InductionUpTo
    <2>3. n \in 0 .. n
      BY <1>1
    <2> HIDE DEF Q, W, n
    <2> QED
      BY <2>2, <2>3
  <1>9. Q(n) = Queued /\ W(n) = UNION {ToSet(Waiting(queue[t])) : t \in GameType}
    <2> HIDE DEF n, ts
    <2> QED
      BY <1>1 DEF Queued
  <1>10. f[n] = AllNew
    BY <1>5 DEF Flattens
  <1> HIDE DEF Q, W, n, ts, s
  <1> QED
    BY <1>8, <1>9, <1>10
=============================================================================
