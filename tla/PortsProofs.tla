----------------------------- MODULE PortsProofs -----------------------------
(***************************************************************************)
(* What the search for the next port finds, whatever the ports in use are. *)
(* A fold is a recursive function that is defined with CHOOSE: first it    *)
(* exists, then its values for the first m elements, for m from 0 to n,    *)
(* are the intermediate results of the loop.                               *)
(***************************************************************************)
EXTENDS Ports, FiniteSetTheorems, TLAPS

(* Induction, stated for a set of numbers. *)
LEMMA SetInduction ==
    ASSUME NEW S, 0 \in S, \A m \in Nat : m \in S => m + 1 \in S
    PROVE  Nat \subseteq S
<1> SUFFICES ASSUME Nat \ S # {} PROVE FALSE
  OBVIOUS
<1>1. PICK k \in Nat \ S : \A j \in Nat \ S : ~(<<j, k>> \in OpToRel(<, Nat))
  BY WFMin, NatLessThanWellFounded
<1>2. k - 1 \in Nat \ S
  <2>1. k \in Nat /\ k \notin S
    OBVIOUS
  <2>2. k - 1 \in Nat /\ (k - 1) + 1 = k
    BY <2>1
  <2>3. k - 1 \notin S
    BY <2>1, <2>2
  <2> QED BY <2>2, <2>3
<1>3. <<k - 1, k>> \in OpToRel(<, Nat)
  BY <1>1, <1>2 DEF OpToRel
<1> QED BY <1>1, <1>2, <1>3

(* The last of the first k + 1 indices. *)
LEMMA LastIndex ==
    ASSUME NEW k \in Nat, NEW s \in SUBSET (1..k+1), k + 1 \in s
    PROVE  Max(s) = k + 1
<1>1. \A y \in s : k + 1 >= y
  OBVIOUS
<1>2. \A x \in s : (\A y \in s : x >= y) => x = k + 1
  BY <1>1
<1> QED BY <1>1, <1>2 DEF Max

(* A sequence of all elements of a finite set has each of them. *)
LEMMA SequencesOfASet ==
    ASSUME NEW S, IsFiniteSet(S), NEW order \in SetToSeqs(S)
    PROVE  /\ Cardinality(S) \in Nat
           /\ order \in [1..Cardinality(S) -> S]
           /\ \A x \in S : \E i \in 1..Cardinality(S) : order[i] = x
<1> DEFINE D == 1..Cardinality(S)
<1>1. Cardinality(S) \in Nat
  BY FS_CardinalityType
<1>2. IsFiniteSet(D) /\ Cardinality(D) = Cardinality(S)
  BY <1>1, FS_Interval
<1>3. order \in Injection(D, S)
  BY DEF SetToSeqs, Injection, IsInjective
<1>4. order \in Surjection(D, S)
  <2> HIDE DEF D
  <2> QED BY <1>2, <1>3, FS_Injection
<1> QED BY <1>1, <1>3, <1>4 DEF Surjection, Injection

-----------------------------------------------------------------------------
(* Folds                                                                   *)

\* h is the function that a fold of n elements is defined by, when its step is
\* the function F: with one element more it takes the last of them first.
IsFold(n, F, base, seq, h) ==
    h = [s \in SUBSET (1..n) |->
           IF s = {} THEN base ELSE F[<<h[s \ {Max(s)}], seq[Max(s)]>>]]

(* There is such a function, and its values are where those of F are. *)
LEMMA FoldExists ==
    ASSUME NEW n \in Nat, NEW V, NEW W, NEW F \in [V \X W -> V],
           NEW base \in V, NEW seq \in [1..n -> W]
    PROVE  \E h \in [SUBSET (1..n) -> V] : IsFold(n, F, base, seq, h)
<1> DEFINE Fold(k, h) == h \in [SUBSET (1..k) -> V] /\ IsFold(k, F, base, seq, h)
           Folded == {k \in Nat : k <= n => \E h : Fold(k, h)}
<1>1. 0 \in Folded
  <2> DEFINE h == [s \in SUBSET (1..0) |-> base]
  <2>1. SUBSET (1..0) = {{}}
    BY DEF h
  <2>2. h = [s \in SUBSET (1..0) |->
               IF s = {} THEN base ELSE F[<<h[s \ {Max(s)}], seq[Max(s)]>>]]
    BY <2>1
  <2>3. Fold(0, h)
    BY <2>2 DEF IsFold
  <2>4. \E f : Fold(0, f)
    <3> HIDE DEF Fold, h
    <3> QED BY <2>3
  <2> HIDE DEF Fold
  <2> QED BY <2>4
<1>2. ASSUME NEW k \in Nat, k \in Folded
      PROVE  k + 1 \in Folded
  <2> SUFFICES ASSUME k + 1 <= n PROVE \E f : Fold(k + 1, f)
    <3> HIDE DEF Fold
    <3> QED OBVIOUS
  <2>1. PICK h : Fold(k, h)
    <3> HIDE DEF Fold
    <3> QED BY <1>2
  <2> DEFINE g == [s \in SUBSET (1..k+1) |->
                     IF k + 1 \in s THEN F[<<h[s \ {k + 1}], seq[k + 1]>>] ELSE h[s]]
  <2>2. ASSUME NEW s \in SUBSET (1..k+1)
        PROVE  /\ g[s] = IF s = {} THEN base
                         ELSE F[<<g[s \ {Max(s)}], seq[Max(s)]>>]
               /\ g[s] \in V
    <3>1. CASE k + 1 \in s
      <4>1. Max(s) = k + 1
        BY <3>1, LastIndex
      <4>2. s \ {k + 1} \in SUBSET (1..k) /\ s \ {k + 1} \in SUBSET (1..k+1)
        OBVIOUS
      <4>3. g[s \ {k + 1}] = h[s \ {k + 1}]
        BY <4>2
      <4>4. g[s] = F[<<h[s \ {k + 1}], seq[k + 1]>>]
        BY <3>1
      <4>5. h[s \ {k + 1}] \in V /\ seq[k + 1] \in W
        <5>1. k + 1 \in 1..n
          OBVIOUS
        <5> QED BY <2>1, <4>2, <5>1
      <4>6. <<h[s \ {k + 1}], seq[k + 1]>> \in V \X W
        BY <4>5
      <4> HIDE DEF g, Fold
      <4> QED BY <3>1, <4>1, <4>3, <4>4, <4>6
    <3>2. CASE k + 1 \notin s
      <4>1. s \in SUBSET (1..k)
        BY <3>2
      <4>2. /\ h[s] = IF s = {} THEN base ELSE F[<<h[s \ {Max(s)}], seq[Max(s)]>>]
            /\ h[s] \in V
        BY <2>1, <4>1 DEF IsFold
      <4>3. g[s] = h[s]
        BY <3>2
      <4>4. s \ {Max(s)} \in SUBSET (1..k+1) /\ k + 1 \notin s \ {Max(s)}
        BY <3>2
      <4>5. g[s \ {Max(s)}] = h[s \ {Max(s)}]
        BY <4>4
      <4> HIDE DEF g, Fold
      <4> QED BY <4>2, <4>3, <4>5
    <3> QED BY <3>1, <3>2
  <2>3. Fold(k + 1, g)
    <3>1. g = [s \in SUBSET (1..k+1) |-> g[s]]
      OBVIOUS
    <3> HIDE DEF g
    <3> QED BY <2>2, <3>1 DEF IsFold
  <2> HIDE DEF Fold, g
  <2> QED BY <2>3
<1>3. Nat \subseteq Folded
  <2> HIDE DEF Folded
  <2> QED BY <1>1, <1>2, SetInduction
<1>4. \E h : Fold(n, h)
  <2> HIDE DEF Fold
  <2> QED BY <1>3
<1> QED BY <1>4

-----------------------------------------------------------------------------
(* The loop of getNextPort                                                 *)

\* r[m] is the port after the first m of n elements.
IsLoop(n, seq, base, r) ==
    /\ r[0] = base
    /\ \A m \in Nat : m < n => r[m + 1] = Raise(r[m], seq[m + 1])

\* h is the function that the search is defined by.
IsSearch(n, base, seq, h) ==
    h = [s \in SUBSET (1..n) |->
           IF s = {} THEN base ELSE Raise(h[s \ {Max(s)}], seq[Max(s)])]

LEMMA LastIsIndex ==
    ASSUME NEW n \in Nat, NEW s \in SUBSET (1..n), s # {}
    PROVE  Max(s) \in s
<1> DEFINE HasLast(k) == \A t \in SUBSET (1..k) : t # {} => Max(t) \in t
           S == {k \in Nat : HasLast(k)}
<1>1. 0 \in S
  <2>1. 1..0 = {}
    OBVIOUS
  <2> QED BY <2>1
<1>2. ASSUME NEW k \in Nat, k \in S
      PROVE  k + 1 \in S
  <2>1. ASSUME NEW t \in SUBSET (1..k+1), t # {}
        PROVE  Max(t) \in t
    <3>1. CASE k + 1 \in t
      BY <3>1, LastIndex
    <3>2. CASE k + 1 \notin t
      <4>1. t \in SUBSET (1..k)
        BY <3>2
      <4> QED BY <1>2, <2>1, <4>1
    <3> QED BY <3>1, <3>2
  <2> QED BY <2>1
<1>3. Nat \subseteq S
  <2> HIDE DEF S
  <2> QED BY <1>1, <1>2, SetInduction
<1> QED BY <1>3

LEMMA SearchExists ==
    ASSUME NEW n \in Nat, NEW seq \in [1..n -> Int], NEW base \in Int
    PROVE  \E h : IsSearch(n, base, seq, h)
<1> DEFINE F == [x \in Int \X Int |-> Raise(x[1], x[2])]
<1>1. F \in [Int \X Int -> Int]
  BY DEF Raise
<1>2. PICK h \in [SUBSET (1..n) -> Int] : IsFold(n, F, base, seq, h)
  <2> HIDE DEF F
  <2> QED BY <1>1, FoldExists
<1>3. ASSUME NEW s \in SUBSET (1..n)
      PROVE  h[s] = IF s = {} THEN base ELSE Raise(h[s \ {Max(s)}], seq[Max(s)])
  <2>1. CASE s = {}
    BY <1>2, <2>1 DEF IsFold
  <2>2. CASE s # {}
    <3>1. Max(s) \in 1..n
      BY <2>2, LastIsIndex
    <3>2. h[s \ {Max(s)}] \in Int /\ seq[Max(s)] \in Int
      BY <3>1
    <3>3. h[s] = F[<<h[s \ {Max(s)}], seq[Max(s)]>>]
      BY <1>2, <2>2 DEF IsFold
    <3> QED BY <2>2, <3>2, <3>3
  <2> QED BY <2>1, <2>2
<1>4. IsSearch(n, base, seq, h)
  BY <1>2, <1>3 DEF IsSearch
<1> QED BY <1>4

(* The fold is the last of the results of its steps. *)
LEMMA SearchIsLoop ==
    ASSUME NEW n \in Nat, NEW seq \in [1..n -> Int], NEW base \in Int
    PROVE  \E r : IsLoop(n, seq, base, r) /\ NextPort(base, seq) = r[n]
<1> DEFINE iter == CHOOSE h : IsSearch(n, base, seq, h)
<1>1. NextPort(base, seq) = iter[1..n]
  <2>1. DOMAIN seq = 1..n
    OBVIOUS
  <2> QED BY <2>1 DEF NextPort, FoldLeft, MapThenFoldSet, IsSearch
<1>2. IsSearch(n, base, seq, iter)
  BY SearchExists
<1> HIDE DEF iter
<1> DEFINE r == [m \in 0..n |-> iter[1..m]]
<1>3. r[0] = base
  BY <1>2 DEF IsSearch
<1>4. ASSUME NEW m \in Nat, m < n
      PROVE  r[m + 1] = Raise(r[m], seq[m + 1])
  <2>1. 1..m+1 \in SUBSET (1..n) /\ m + 1 \in 1..m+1
    BY <1>4
  <2>2. Max(1..m+1) = m + 1
    BY <2>1, LastIndex
  <2>3. (1..m+1) \ {m + 1} = 1..m
    OBVIOUS
  <2>4. iter[1..m+1] = Raise(iter[1..m], seq[m + 1])
    BY <1>2, <2>1, <2>2, <2>3 DEF IsSearch
  <2> QED BY <1>4, <2>4
<1>5. r[n] = iter[1..n]
  OBVIOUS
<1>6. IsLoop(n, seq, base, r)
  BY <1>3, <1>4 DEF IsLoop
<1> HIDE DEF r
<1> QED BY <1>1, <1>5, <1>6

(* What the loop finds. *)
LEMMA LoopEndsAbove ==
    ASSUME NEW n \in Nat, NEW seq \in [1..n -> Int], NEW base \in Int,
           NEW r, IsLoop(n, seq, base, r)
    PROVE  /\ r[n] \in Int
           /\ r[n] = base \/ (r[n] > base /\ \E i \in 1..n : r[n] - 1 = seq[i])
           /\ \A i \in 1..n : seq[i] <= r[n]
<1> DEFINE Good(m) ==
             /\ r[m] \in Int
             /\ r[m] = base \/ (r[m] > base /\ \E i \in 1..n : r[m] - 1 = seq[i])
             /\ \A i \in 1..m : seq[i] <= r[m]
           Goods == {m \in Nat : m <= n => Good(m)}
<1>1. 0 \in Goods
  BY DEF IsLoop
<1>2. ASSUME NEW m \in Nat, m \in Goods, m + 1 <= n
      PROVE  Good(m + 1)
  <2>1. Good(m)
    BY <1>2
  <2>2. r[m + 1] = IF seq[m + 1] > r[m] THEN seq[m + 1] + 1 ELSE r[m]
    BY <1>2 DEF IsLoop, Raise
  <2>3. m + 1 \in 1..n /\ seq[m + 1] \in Int
    BY <1>2
  <2>4. \A i \in 1..m : seq[i] \in Int
    BY <1>2
  <2>5. r[m + 1] \in Int /\ r[m] <= r[m + 1] /\ seq[m + 1] <= r[m + 1]
    BY <2>1, <2>2, <2>3
  <2>6. \A i \in 1..m+1 : seq[i] <= r[m + 1]
    BY <2>1, <2>4, <2>5
  <2>7. \/ r[m + 1] = base
        \/ r[m + 1] > base /\ \E i \in 1..n : r[m + 1] - 1 = seq[i]
    <3>1. CASE seq[m + 1] > r[m]
      <4>1. r[m + 1] = seq[m + 1] + 1
        BY <2>2, <3>1
      <4>2. r[m] \in Int /\ r[m] >= base
        BY <2>1
      <4>3. r[m + 1] - 1 = seq[m + 1]
        BY <2>3, <4>1
      <4>4. r[m + 1] > base
        BY <2>3, <3>1, <4>1, <4>2
      <4> QED BY <2>3, <4>3, <4>4
    <3>2. CASE ~(seq[m + 1] > r[m])
      BY <2>1, <2>2, <3>2
    <3> QED BY <3>1, <3>2
  <2> QED BY <2>5, <2>6, <2>7
<1>3. \A m \in Nat : m \in Goods => m + 1 \in Goods
  BY <1>2
<1>4. Nat \subseteq Goods
  <2> HIDE DEF Goods
  <2> QED BY <1>1, <1>3, SetInduction
<1> QED BY <1>4

(* The next port is the base port or the one above a port in use, and no port
   in use is above it; a port in use may equal it (driver.go:164-197,
   pod.go:459-470). *)
THEOREM NextPortIsAbove ==
    ASSUME NEW base \in Int, NEW inUse \in SUBSET Int, IsFiniteSet(inUse),
           NEW port \in NextPorts(base, inUse)
    PROVE  /\ port \in Int
           /\ port = base \/ (port > base /\ port - 1 \in inUse)
           /\ \A used \in inUse : used <= port
<1>1. PICK order \in SetToSeqs(inUse) : port = NextPort(base, order)
  BY DEF NextPorts
<1>2. PICK n \in Nat : /\ order \in [1..n -> inUse]
                       /\ \A x \in inUse : \E i \in 1..n : order[i] = x
  BY SequencesOfASet
<1>3. order \in [1..n -> Int]
  BY <1>2
<1>4. PICK r : IsLoop(n, order, base, r) /\ NextPort(base, order) = r[n]
  BY <1>3, SearchIsLoop
<1>5. /\ r[n] \in Int
      /\ r[n] = base \/ (r[n] > base /\ \E i \in 1..n : r[n] - 1 = order[i])
      /\ \A i \in 1..n : order[i] <= r[n]
  BY <1>3, <1>4, LoopEndsAbove
<1>6. port = r[n]
  BY <1>1, <1>4
<1>7. \A i \in 1..n : order[i] \in inUse
  BY <1>2
<1> QED BY <1>2, <1>5, <1>6, <1>7
=============================================================================
