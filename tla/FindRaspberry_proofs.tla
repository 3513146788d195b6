------------------------ MODULE FindRaspberry_proofs ------------------------
(***************************************************************************)
(* Theorems of FindRaspberry for every set of machines and of networks, any *)
(* contents of .env and any number of edits.                               *)
(***************************************************************************)
EXTENDS FindRaspberry, FiniteSetTheorems, SequenceTheorems, TLAPS

-----------------------------------------------------------------------------
(* Least and greatest indices.                                             *)

LEMMA Least ==
    ASSUME NEW T \in SUBSET Nat, T # {}
    PROVE  \E x \in T : \A y \in T : x <= y
<1>1. PICK x \in T : \A y \in T : <<y, x>> \notin OpToRel(<, Nat)
  BY NatLessThanWellFounded, WFMin
<1>2. \A y \in T : ~ (y < x)
  BY <1>1 DEF OpToRel
<1> QED BY <1>2

LEMMA MinIndex ==
    ASSUME NEW T \in SUBSET Nat, T # {}
    PROVE  Min(T) \in T /\ \A y \in T : Min(T) <= y
BY Least DEF Min

LEMMA MaxIndex ==
    ASSUME NEW n \in Nat, NEW T \in SUBSET (1..n), T # {}
    PROVE  Max(T) \in T /\ \A y \in T : y <= Max(T)
<1> DEFINE U == {k \in Nat : \E x \in T : k = n - x}
<1>1. PICK k \in U : \A j \in U : k <= j
  <2>1. PICK x \in T : TRUE
    OBVIOUS
  <2>2. n - x \in U
    OBVIOUS
  <2> QED BY <2>2, Least
<1>2. PICK x \in T : k = n - x
  BY <1>1
<1>3. ASSUME NEW y \in T PROVE x >= y
  <2>1. n - y \in U
    OBVIOUS
  <2> QED BY <2>1, <1>1, <1>2
<1>4. \E z \in T : \A y \in T : z >= y
  BY <1>3
<1> QED BY <1>4 DEF Max

\* Induction up to N, for a set of numbers.
LEMMA UpTo ==
    ASSUME NEW N \in Nat, NEW S, 0 \in S, \A n \in 1..N : n - 1 \in S => n \in S
    PROVE  0..N \subseteq S
<1> SUFFICES ASSUME NEW n \in (0..N) \ S, \A m \in (0..N) \ S : n <= m PROVE FALSE
  <2>1. (0..N) \ S \in SUBSET Nat
    OBVIOUS
  <2> QED BY <2>1, Least
<1>1. n \in 1..N /\ n - 1 \in 0..N
  OBVIOUS
<1>2. n - 1 \in S
  BY <1>1
<1> QED BY <1>1, <1>2

-----------------------------------------------------------------------------
(* A finite set under a strict total order: each element stands at a place  *)
(* of its own, the number of the elements before it.                       *)

StrictOrder(R, X) ==
    /\ \A x \in X : <<x, x>> \notin R
    /\ \A x, y \in X : x # y => <<x, y>> \in R \/ <<y, x>> \in R
    /\ \A x, y, z \in X : <<x, y>> \in R /\ <<y, z>> \in R => <<x, z>> \in R

Place(R, X, x) == Cardinality({y \in X : <<y, x>> \in R})

LEMMA PlaceType ==
    ASSUME NEW X, IsFiniteSet(X), NEW R, StrictOrder(R, X), NEW x \in X
    PROVE  Place(R, X, x) \in 0..(Cardinality(X) - 1)
<1> DEFINE P == {y \in X : <<y, x>> \in R}
<1>1. P \in SUBSET (X \ {x})
  BY DEF StrictOrder
<1>2. IsFiniteSet(X \ {x}) /\ Cardinality(X \ {x}) = Cardinality(X) - 1
  BY FS_RemoveElement
<1>3. IsFiniteSet(P) /\ Cardinality(P) <= Cardinality(X \ {x})
  BY <1>1, <1>2, FS_Subset
<1>4. Cardinality(P) \in Nat /\ Cardinality(X) \in Nat
  BY <1>3, FS_CardinalityType
<1> QED BY <1>2, <1>3, <1>4 DEF Place

LEMMA PlaceOrder ==
    ASSUME NEW X, IsFiniteSet(X), NEW R, StrictOrder(R, X), NEW x \in X, NEW y \in X,
           <<x, y>> \in R
    PROVE  Place(R, X, x) < Place(R, X, y)
<1> DEFINE P == {z \in X : <<z, x>> \in R}
           Q == {z \in X : <<z, y>> \in R}
<1>1. P \in SUBSET (Q \ {x})
  BY DEF StrictOrder
<1>2. x \in Q
  OBVIOUS
<1>3. IsFiniteSet(Q)
  <2>1. Q \in SUBSET X
    OBVIOUS
  <2> QED BY <2>1, FS_Subset
<1>4. IsFiniteSet(Q \ {x}) /\ Cardinality(Q \ {x}) = Cardinality(Q) - 1
  BY <1>2, <1>3, FS_RemoveElement
<1>5. IsFiniteSet(P) /\ Cardinality(P) <= Cardinality(Q \ {x})
  BY <1>1, <1>4, FS_Subset
<1>6. Cardinality(P) \in Nat /\ Cardinality(Q) \in Nat
  BY <1>3, <1>5, FS_CardinalityType
<1> HIDE DEF P, Q
<1>7. Cardinality(P) < Cardinality(Q)
  BY <1>4, <1>5, <1>6
<1> QED BY <1>7 DEF P, Q, Place

\* No two elements stand at the same place, and none is empty.
LEMMA PlaceOnto ==
    ASSUME NEW X, IsFiniteSet(X), NEW R, StrictOrder(R, X)
    PROVE  /\ \A x, y \in X : Place(R, X, x) = Place(R, X, y) => x = y
           /\ \A k \in 0..(Cardinality(X) - 1) : \E x \in X : Place(R, X, x) = k
<1> DEFINE T == 0..(Cardinality(X) - 1)
           f == [x \in X |-> Place(R, X, x)]
<1>1. \A x, y \in X : Place(R, X, x) = Place(R, X, y) => x = y
  <2> SUFFICES ASSUME NEW x \in X, NEW y \in X, x # y
               PROVE  Place(R, X, x) # Place(R, X, y)
    OBVIOUS
  <2>1. <<x, y>> \in R \/ <<y, x>> \in R
    BY DEF StrictOrder
  <2>2. Place(R, X, x) \in Int /\ Place(R, X, y) \in Int
    BY PlaceType
  <2> QED BY <2>1, <2>2, PlaceOrder
<1>2. f \in [X -> T]
  BY PlaceType
<1>3. f \in Injection(X, T)
  BY <1>1, <1>2 DEF Injection, IsInjective
<1>4. Cardinality(X) \in Nat
  BY FS_CardinalityType
<1>5. IsFiniteSet(T) /\ Cardinality(T) = Cardinality(X)
  <2>1. 0 \in Int /\ Cardinality(X) - 1 \in Int
    BY <1>4
  <2> QED BY <1>4, <2>1, FS_Interval
<1>6. f \in Surjection(X, T)
  BY <1>3, <1>5, FS_Injection
<1>7. \A k \in T : \E x \in X : f[x] = k
  BY <1>6 DEF Surjection
<1> QED BY <1>1, <1>7

-----------------------------------------------------------------------------
(* sorted(): an enumeration of X gives the element of each place.          *)

Enumerates(s, X) ==
    /\ s \in [1..Cardinality(X) -> X]
    /\ IsInjective(s)

LEMMA EnumerationOnto ==
    ASSUME NEW X, IsFiniteSet(X), NEW s, Enumerates(s, X)
    PROVE  ToSet(s) = X
<1> DEFINE n == Cardinality(X)
<1>1. n \in Nat
  BY FS_CardinalityType
<1>2. IsFiniteSet(1..n) /\ Cardinality(1..n) = n
  BY <1>1, FS_Interval
<1>3. s \in Injection(1..n, X)
  BY DEF Enumerates, Injection
<1>4. s \in Surjection(1..n, X)
  BY <1>2, <1>3, FS_Injection
<1> QED BY <1>4 DEF Surjection, ToSet, Enumerates

\* The number of positions before which s has a smaller element is its place.
LEMMA PlaceByPosition ==
    ASSUME NEW X, IsFiniteSet(X), NEW R, NEW s, Enumerates(s, X), NEW x \in X
    PROVE  Cardinality({j \in DOMAIN s : <<s[j], x>> \in R}) = Place(R, X, x)
<1> DEFINE J == {j \in DOMAIN s : <<s[j], x>> \in R}
           P == {y \in X : <<y, x>> \in R}
           f == [j \in J |-> s[j]]
<1>1. DOMAIN s = 1..Cardinality(X) /\ Cardinality(X) \in Nat
  BY FS_CardinalityType DEF Enumerates
<1>2. IsFiniteSet(J)
  <2>1. IsFiniteSet(DOMAIN s)
    BY <1>1, FS_Interval
  <2> QED BY <2>1, FS_Subset
<1>3. f \in [J -> P]
  BY DEF Enumerates
<1>4. f \in Injection(J, P)
  BY <1>3 DEF Injection, IsInjective, Enumerates
<1>5. f \in Surjection(J, P)
  <2>1. ASSUME NEW y \in P PROVE \E j \in J : f[j] = y
    <3>1. PICK j \in DOMAIN s : s[j] = y
      BY EnumerationOnto DEF ToSet
    <3> QED BY <3>1
  <2> QED BY <1>3, <2>1 DEF Surjection
<1>6. ExistsBijection(J, P)
  BY <1>4, <1>5 DEF Bijection, ExistsBijection
<1> QED BY <1>2, <1>6, FS_Bijection DEF Place

\* So for each n there is exactly one position with n smaller elements.
LEMMA PositionOfPlace ==
    ASSUME NEW X, IsFiniteSet(X), NEW R, StrictOrder(R, X), NEW s, Enumerates(s, X),
           NEW n \in DOMAIN s
    PROVE  \E i \in DOMAIN s :
               Cardinality({j \in DOMAIN s : <<s[j], s[i]>> \in R}) = n - 1
<1>1. DOMAIN s = 1..Cardinality(X) /\ Cardinality(X) \in Nat
  BY FS_CardinalityType DEF Enumerates
<1>2. PICK x \in X : Place(R, X, x) = n - 1
  BY <1>1, PlaceOnto
<1>3. PICK i \in DOMAIN s : s[i] = x
  BY EnumerationOnto DEF ToSet
<1> QED BY <1>2, <1>3, PlaceByPosition

\* Whatever the enumeration, sorting it puts each element at its place.
LEMMA SortedPlaces ==
    ASSUME NEW X, IsFiniteSet(X), NEW R, StrictOrder(R, X), NEW s, Enumerates(s, X)
    PROVE  /\ Sorted(s, R) \in [1..Cardinality(X) -> X]
           /\ \A n \in 1..Cardinality(X) : Place(R, X, Sorted(s, R)[n]) = n - 1
<1> DEFINE rank(i) == Cardinality({j \in DOMAIN s : <<s[j], s[i]>> \in R})
           at_(n) == CHOOSE i \in DOMAIN s : rank(i) = n - 1
<1>1. Sorted(s, R) = [n \in DOMAIN s |-> s[at_(n)]]
  BY DEF Sorted
<1>2. DOMAIN s = 1..Cardinality(X) /\ \A i \in DOMAIN s : s[i] \in X
  BY DEF Enumerates
<1>3. \A i \in DOMAIN s : rank(i) = Place(R, X, s[i])
  <2>1. \A x \in X : Cardinality({j \in DOMAIN s : <<s[j], x>> \in R}) = Place(R, X, x)
    BY PlaceByPosition
  <2> QED BY <1>2, <2>1, Zenon
<1>4. \A n \in DOMAIN s : \E i \in DOMAIN s : rank(i) = n - 1
  BY PositionOfPlace
<1> HIDE DEF rank
<1>5. \A n \in DOMAIN s : at_(n) \in DOMAIN s /\ rank(at_(n)) = n - 1
  BY <1>4, Zenon
<1> HIDE DEF at_
<1> QED BY <1>1, <1>2, <1>3, <1>5

\* A sequence with every element at its place enumerates the set in order.
LEMMA InOrder ==
    ASSUME NEW X, IsFiniteSet(X), NEW R, StrictOrder(R, X), NEW t,
           t \in [1..Cardinality(X) -> X],
           \A n \in DOMAIN t : Place(R, X, t[n]) = n - 1
    PROVE  /\ Enumerates(t, X)
           /\ \A i, j \in DOMAIN t : i < j => <<t[i], t[j]>> \in R
<1>1. DOMAIN t \subseteq Int
  OBVIOUS
<1>2. \A i, j \in DOMAIN t : t[i] = t[j] => i = j
  BY <1>1
<1>3. ASSUME NEW i \in DOMAIN t, NEW j \in DOMAIN t, i < j PROVE <<t[i], t[j]>> \in R
  <2>1. t[i] # t[j]
    BY <1>2, <1>3, <1>1
  <2>2. CASE <<t[j], t[i]>> \in R
    <3>1. Place(R, X, t[j]) < Place(R, X, t[i])
      BY <2>2, PlaceOrder
    <3> QED BY <3>1, <1>1, <1>3
  <2> QED BY <2>1, <2>2 DEF StrictOrder
<1> QED BY <1>2, <1>3 DEF Enumerates, IsInjective

-----------------------------------------------------------------------------
(* The report: MergeCandidates puts each machine at its place.             *)

LEMMA AheadOrder ==
    ASSUME NEW pis, NEW X \in SUBSET Machines
    PROVE  StrictOrder(ReportOrder(pis, X), X)
<1>1. X \subseteq Nat
  BY FindAssumption
<1> DEFINE rank(k) == (IF k \in pis THEN 0 ELSE 2) + (IF named[k] # NoName THEN 0 ELSE 1)
<1>2. \A k : rank(k) \in Nat
  OBVIOUS
<1>3. \A x, y \in X : <<x, y>> \in ReportOrder(pis, X) <=>
          rank(x) < rank(y) \/ (rank(x) = rank(y) /\ x < y)
  BY DEF ReportOrder, Ahead
<1> HIDE DEF rank
<1> QED BY <1>1, <1>2, <1>3 DEF StrictOrder

LEMMA MergedPlaces ==
    ASSUME NEW pis, NEW X \in SUBSET Machines, IsFiniteSet(X), NEW s, Enumerates(s, X)
    PROVE  /\ MergeCandidates(s, pis) \in [1..Cardinality(X) -> X]
           /\ \A n \in 1..Cardinality(X) :
                 Place(ReportOrder(pis, X), X, MergeCandidates(s, pis)[n]) = n - 1
<1> DEFINE R == ReportOrder(pis, X)
<1>1. MergeCandidates(s, pis) = Sorted(s, R)
  BY EnumerationOnto DEF MergeCandidates
<1>2. StrictOrder(R, X)
  BY AheadOrder
<1> HIDE DEF R
<1>3. /\ Sorted(s, R) \in [1..Cardinality(X) -> X]
      /\ \A n \in 1..Cardinality(X) : Place(R, X, Sorted(s, R)[n]) = n - 1
  BY <1>2, SortedPlaces
<1> QED BY <1>1, <1>3 DEF R

-----------------------------------------------------------------------------
(* The networks in the order in which their addresses are taken.           *)

LEMMA SomeEnumeration ==
    ASSUME NEW X, IsFiniteSet(X) PROVE Enumerates(SetToSeq(X), X)
<1>1. \E s \in [1..Cardinality(X) -> X] : IsInjective(s)
  BY FS_CardinalityType DEF ExistsBijection, Bijection, Injection
<1> QED BY <1>1 DEF SetToSeq, Enumerates

LEMMA BeforeOrder ==
    ASSUME NEW X \in SUBSET Cidrs PROVE StrictOrder(NetOrder(X), X)
<1>1. X \subseteq [first : Nat, size : Nat \ {0}]
  BY FindAssumption
<1>2. \A m, n \in X : m.first = n.first /\ m.size = n.size => m = n
  BY <1>1
<1>3. \A m \in X : m.first \in Nat /\ m.size \in Nat
  BY <1>1
<1>4. \A m, n \in X : <<m, n>> \in NetOrder(X) <=>
          m.first < n.first \/ (m.first = n.first /\ m.size > n.size)
  BY DEF NetOrder, Before
<1> QED BY <1>2, <1>3, <1>4 DEF StrictOrder

LEMMA SortedNets ==
    ASSUME NEW X \in SUBSET Cidrs
    PROVE  LET nw == Sorted(SetToSeq(X), NetOrder(X))
           IN  /\ Cardinality(X) \in Nat
               /\ nw \in [1..Cardinality(X) -> X]
               /\ ToSet(nw) = X
               /\ \A i, j \in DOMAIN nw : i < j => Before(nw[i], nw[j])
<1> DEFINE R == NetOrder(X)
           nw == Sorted(SetToSeq(X), R)
<1>1. IsFiniteSet(X) /\ Cardinality(X) \in Nat
  BY FindAssumption, FS_Subset, FS_CardinalityType
<1>2. Enumerates(SetToSeq(X), X)
  BY <1>1, SomeEnumeration
<1>3. StrictOrder(R, X)
  BY BeforeOrder
<1>4. \A m, n \in X : <<m, n>> \in R => Before(m, n)
  BY DEF NetOrder
<1> HIDE DEF R
<1>5. /\ nw \in [1..Cardinality(X) -> X]
       /\ \A n \in 1..Cardinality(X) : Place(R, X, nw[n]) = n - 1
  BY <1>1, <1>2, <1>3, SortedPlaces
<1> HIDE DEF nw
<1>6. /\ Enumerates(nw, X)
       /\ \A i, j \in DOMAIN nw : i < j => <<nw[i], nw[j]>> \in R
  BY <1>1, <1>3, <1>5, InOrder
<1>7. ToSet(nw) = X
  BY <1>1, <1>6, EnumerationOnto
<1>8. \A i, j \in DOMAIN nw : i < j => Before(nw[i], nw[j])
  BY <1>4, <1>5, <1>6
<1> QED BY <1>1, <1>5, <1>7, <1>8 DEF nw, R

-----------------------------------------------------------------------------
(* The loops of iter_scan_ips: FoldLeft takes one step for each index.      *)

\* The equation of the function by which FoldLeft is defined, and a solution.
FoldOf(g, N, b, step) ==
    \A s \in SUBSET (1..N) :
        g[s] = IF s = {} THEN b ELSE step[<<Max(s), g[s \ {Max(s)}]>>]

LEMMA FoldExists ==
    ASSUME NEW N \in Nat, NEW X, NEW b \in X, NEW step \in [(1..N) \X X -> X]
    PROVE  \E g \in [SUBSET (1..N) -> X] : FoldOf(g, N, b, step)
<1> DEFINE Solves(g, k) == FoldOf(g, k, b, step)
           Good(k) == \E g \in [SUBSET (1..k) -> X] : Solves(g, k)
           Bad == {k \in 0..N : ~ Good(k)}
<1>1. SUFFICES Good(N)
  OBVIOUS
<1> HIDE DEF Good
<1>2. SUFFICES ASSUME NEW k \in Bad, \A j \in Bad : k <= j PROVE FALSE
  <2>1. Bad = {} => Good(N)
    OBVIOUS
  <2>2. Bad \in SUBSET Nat
    OBVIOUS
  <2> QED BY <2>1, <2>2, Least
<1>3. CASE k = 0
  <2> DEFINE g == [s \in SUBSET (1..0) |-> b]
  <2>1. SUBSET (1..0) = {{}}
    OBVIOUS
  <2>2. g \in [SUBSET (1..0) -> X] /\ Solves(g, 0)
    BY <2>1 DEF FoldOf
  <2> QED BY <2>2, <1>3 DEF Good
<1>4. CASE k # 0
  <2>1. k \in 1..N /\ k - 1 \in 0..N
    BY <1>4
  <2>2. k - 1 \notin Bad
    BY <2>1, <1>2
  <2>3. PICK h \in [SUBSET (1..(k - 1)) -> X] : Solves(h, k - 1)
    BY <2>1, <2>2 DEF Good
  <2> DEFINE g == [s \in SUBSET (1..k) |->
                     IF k \in s THEN step[<<k, h[s \ {k}]>>] ELSE h[s]]
  <2>4. \A s \in SUBSET (1..k) : s \ {k} \in SUBSET (1..(k - 1))
    BY <2>1
  <2>5. \A s \in SUBSET (1..k) : k \notin s => s \in SUBSET (1..(k - 1))
    BY <2>1
  <2>6. g \in [SUBSET (1..k) -> X]
    BY <2>1, <2>3, <2>4, <2>5
  <2>7. ASSUME NEW s \in SUBSET (1..k)
        PROVE  g[s] = IF s = {} THEN b ELSE step[<<Max(s), g[s \ {Max(s)}]>>]
    <3>1. CASE s = {}
      BY <3>1, <2>3, <2>5 DEF FoldOf
    <3>2. CASE k \in s
      <4>1. Max(s) \in s /\ \A y \in s : y <= Max(s)
        <5>1. k \in Nat /\ s # {}
          BY <3>2, <2>1
        <5> QED BY <5>1, MaxIndex
      <4>2. Max(s) = k
        <5>1. Max(s) \in 1..k /\ k <= Max(s)
          BY <4>1, <3>2
        <5> QED BY <5>1, <2>1
      <4>3. k \notin s \ {k} /\ s \ {k} \in SUBSET (1..k)
        OBVIOUS
      <4>4. g[s \ {k}] = h[s \ {k}]
        BY <4>3
      <4>5. g[s] = step[<<k, h[s \ {k}]>>]
        BY <3>2
      <4> QED BY <3>2, <4>2, <4>4, <4>5
    <3>3. CASE k \notin s /\ s # {}
      <4>1. Max(s) \in s
        <5>1. k \in Nat /\ s # {}
          BY <3>3, <2>1
        <5> QED BY <5>1, MaxIndex
      <4>2. s \ {Max(s)} \in SUBSET (1..k) /\ k \notin s \ {Max(s)}
        BY <3>3
      <4>3. g[s] = h[s] /\ g[s \ {Max(s)}] = h[s \ {Max(s)}]
        BY <3>3, <4>2
      <4>4. h[s] = step[<<Max(s), h[s \ {Max(s)}]>>]
        BY <3>3, <2>3, <2>5 DEF FoldOf
      <4> QED BY <3>3, <4>3, <4>4
    <3> QED BY <3>1, <3>2, <3>3
  <2>8. Solves(g, k)
    BY <2>7 DEF FoldOf
  <2> QED BY <2>6, <2>8, <1>2 DEF Good
<1> QED BY <1>3, <1>4

\* From a function with that equation: one value for each prefix.
LEMMA FoldPrefix ==
    ASSUME NEW N \in Nat, NEW n \in 1..N
    PROVE  1..n # {} /\ Max(1..n) = n /\ (1..n) \ {n} = 1..(n - 1)
<1>1. 1..n # {} /\ 1..n \in SUBSET (1..n) /\ n \in Nat
  OBVIOUS
<1>2. Max(1..n) \in 1..n /\ \A y \in 1..n : y <= Max(1..n)
  BY <1>1, MaxIndex
<1>3. Max(1..n) = n
  BY <1>2
<1>4. (1..n) \ {n} = 1..(n - 1)
  OBVIOUS
<1> QED BY <1>1, <1>3, <1>4

\* Step by step: what Take does to the addresses so far.
LEMMA TakeSteps ==
    ASSUME NEW T \in Nat, NEW hs \in [1..T -> Nat], NEW ips \in Seq(Nat)
    PROVE  \E F : /\ F[0] = ips
                  /\ \A n \in 1..T : F[n] = Take(F[n - 1], hs[n])
                  /\ FoldLeft(Take, ips, hs) = F[T]
<1> DEFINE Eq(g) == g = [s \in SUBSET (DOMAIN hs) |->
                          IF s = {} THEN ips ELSE Take(g[s \ {Max(s)}], hs[Max(s)])]
           iter == CHOOSE g : Eq(g)
           F == [n \in 0..T |-> iter[1..n]]
<1>1. \E g : Eq(g)
  <2> DEFINE step == [p \in (1..T) \X Seq(Nat) |-> Take(p[2], hs[p[1]])]
  <2>1. \A a \in Nat, t \in Seq(Nat) : Take(t, a) \in Seq(Nat)
    BY DEF Take
  <2>2. step \in [(1..T) \X Seq(Nat) -> Seq(Nat)]
    BY <2>1
  <2>3. \A x \in 1..T, t \in Seq(Nat) : step[<<x, t>>] = Take(t, hs[x])
    OBVIOUS
  <2> DEFINE X == Seq(Nat)
  <2>4. PICK g \in [SUBSET (1..T) -> X] : FoldOf(g, T, ips, step)
    <3>1. ips \in X /\ step \in [(1..T) \X X -> X]
      BY <2>2
    <3> HIDE DEF step, X
    <3> QED BY <3>1, FoldExists
  <2> HIDE DEF step
  <2>5. ASSUME NEW s \in SUBSET (1..T)
        PROVE  g[s] = IF s = {} THEN ips ELSE Take(g[s \ {Max(s)}], hs[Max(s)])
    <3>1. CASE s = {}
      BY <3>1, <2>4 DEF FoldOf
    <3>2. CASE s # {}
      <4>1. Max(s) \in 1..T
        BY <3>2, MaxIndex
      <4>2. s \ {Max(s)} \in SUBSET (1..T)
        OBVIOUS
      <4>3. g[s \ {Max(s)}] \in Seq(Nat)
        BY <4>2
      <4> QED BY <3>2, <4>1, <4>3, <2>3, <2>4 DEF FoldOf
    <3> QED BY <3>1, <3>2
  <2>6. g = [s \in SUBSET (DOMAIN hs) |-> g[s]]
    OBVIOUS
  <2>7. Eq(g)
    BY <2>5, <2>6
  <2> QED BY <2>7
<1>2. Eq(iter)
  BY <1>1, Zenon
<1>3. FoldLeft(Take, ips, hs) = iter[DOMAIN hs]
  BY DEF FoldLeft, MapThenFoldSet
<1> HIDE DEF iter
<1>4. F[0] = ips
  BY <1>2
<1>5. ASSUME NEW n \in 1..T PROVE F[n] = Take(F[n - 1], hs[n])
  <2>1. 1..n \in SUBSET (DOMAIN hs)
    OBVIOUS
  <2>2. iter[1..n] = Take(iter[(1..n) \ {n}], hs[n])
    BY <1>2, <2>1, FoldPrefix
  <2>3. (1..n) \ {n} = 1..(n - 1)
    BY FoldPrefix
  <2>4. F[n] = iter[1..n] /\ F[n - 1] = iter[1..(n - 1)]
    OBVIOUS
  <2> QED BY <2>2, <2>3, <2>4
<1>6. FoldLeft(Take, ips, hs) = F[T]
  BY <1>3
<1> QED BY <1>4, <1>5, <1>6

LEMMA HostsType ==
    ASSUME NEW net \in Cidrs
    PROVE  \E T \in Nat : Hosts(net) \in [1..T -> Nat]
<1>1. net.first \in Nat /\ net.size \in Nat \ {0}
  BY FindAssumption
<1>2. CASE net.size <= 2
  <2>1. Hosts(net) \in [1..net.size -> Nat]
    BY <1>1, <1>2 DEF Hosts
  <2> QED BY <1>1, <2>1
<1>3. CASE ~ (net.size <= 2)
  <2>1. Hosts(net) \in [1..(net.size - 2) -> Nat] /\ net.size - 2 \in Nat
    BY <1>1, <1>3 DEF Hosts
  <2> QED BY <2>1
<1> QED BY <1>2, <1>3

LEMMA TakeType ==
    ASSUME NEW net \in Cidrs, NEW ips \in Seq(Nat)
    PROVE  FoldLeft(Take, ips, Hosts(net)) \in Seq(Nat)
<1> DEFINE hs == Hosts(net)
<1>1. PICK T \in Nat : hs \in [1..T -> Nat]
  BY HostsType
<1> HIDE DEF hs
<1>2. PICK F : /\ F[0] = ips
               /\ \A n \in 1..T : F[n] = Take(F[n - 1], hs[n])
               /\ FoldLeft(Take, ips, hs) = F[T]
  BY <1>1, TakeSteps, Zenon
<1> DEFINE S == {n \in 0..T : F[n] \in Seq(Nat)}
<1>3. \A a \in Nat, t \in Seq(Nat) : Take(t, a) \in Seq(Nat)
  BY DEF Take
<1>4. 0 \in S
  BY <1>2
<1>5. \A n \in 1..T : n - 1 \in S => n \in S
  BY <1>1, <1>2, <1>3
<1>6. 0..T \subseteq S
  BY <1>4, <1>5, UpTo
<1> QED BY <1>2, <1>6 DEF hs

LEMMA ScanSteps ==
    ASSUME NEW X \in SUBSET Cidrs, NEW K \in Nat, NEW nw \in [1..K -> X],
           nw = Sorted(SetToSeq(X), NetOrder(X))
    PROVE  \E F : /\ F[0] = <<>>
                  /\ \A n \in 1..K : F[n] = FoldLeft(Take, F[n - 1], Hosts(nw[n]))
                  /\ IterScanIps(X) = F[K]
<1> DEFINE TakeAll(ips, net) == FoldLeft(Take, ips, Hosts(net))
           Eq(g) == g = [s \in SUBSET (DOMAIN nw) |->
                          IF s = {} THEN <<>> ELSE TakeAll(g[s \ {Max(s)}], nw[Max(s)])]
           iter == CHOOSE g : Eq(g)
           F == [n \in 0..K |-> iter[1..n]]
<1>1. IterScanIps(X) = iter[DOMAIN nw]
  BY DEF IterScanIps, FoldLeft, MapThenFoldSet
<1>2. \A ips \in Seq(Nat), net \in Cidrs : TakeAll(ips, net) \in Seq(Nat)
  BY TakeType
<1> HIDE DEF TakeAll
<1>3. \E g : Eq(g)
  <2> DEFINE Y == Seq(Nat)
             step == [p \in (1..K) \X Y |-> TakeAll(p[2], nw[p[1]])]
  <2>1. <<>> \in Y
    OBVIOUS
  <2>2. step \in [(1..K) \X Y -> Y]
    BY <1>2
  <2>3. \A x \in 1..K, t \in Y : step[<<x, t>>] = TakeAll(t, nw[x])
    OBVIOUS
  <2> HIDE DEF step, Y
  <2>4. PICK g \in [SUBSET (1..K) -> Y] : FoldOf(g, K, <<>>, step)
    BY <2>1, <2>2, FoldExists
  <2>5. ASSUME NEW s \in SUBSET (1..K)
        PROVE  g[s] = IF s = {} THEN <<>> ELSE TakeAll(g[s \ {Max(s)}], nw[Max(s)])
    <3>1. CASE s = {}
      BY <3>1, <2>4 DEF FoldOf
    <3>2. CASE s # {}
      <4>1. Max(s) \in 1..K
        BY <3>2, MaxIndex
      <4>2. s \ {Max(s)} \in SUBSET (1..K)
        OBVIOUS
      <4>3. g[s \ {Max(s)}] \in Y
        BY <4>2
      <4> QED BY <3>2, <4>1, <4>3, <2>3, <2>4 DEF FoldOf
    <3> QED BY <3>1, <3>2
  <2>6. g = [s \in SUBSET (DOMAIN nw) |-> g[s]]
    OBVIOUS
  <2>7. Eq(g)
    BY <2>5, <2>6
  <2> QED BY <2>7
<1>4. Eq(iter)
  BY <1>3, Zenon
<1> HIDE DEF iter
<1>5. F[0] = <<>>
  BY <1>4
<1>6. ASSUME NEW n \in 1..K PROVE F[n] = TakeAll(F[n - 1], nw[n])
  <2>1. 1..n \in SUBSET (DOMAIN nw)
    OBVIOUS
  <2>2. iter[1..n] = TakeAll(iter[(1..n) \ {n}], nw[n])
    BY <1>4, <2>1, FoldPrefix
  <2>3. (1..n) \ {n} = 1..(n - 1)
    BY FoldPrefix
  <2>4. F[n] = iter[1..n] /\ F[n - 1] = iter[1..(n - 1)]
    OBVIOUS
  <2> QED BY <2>2, <2>3, <2>4
<1>7. IterScanIps(X) = F[K]
  BY <1>1
<1> HIDE DEF F
<1> QED BY <1>5, <1>6, <1>7 DEF TakeAll

-----------------------------------------------------------------------------
(* What has been taken is the lowest part of what has been offered.        *)

Cap == Max({1, MaxHosts})

Lowest(ips, E) ==
    /\ ips \in Seq(Nat)
    /\ IsInjective(ips)
    /\ ToSet(ips) \subseteq E
    /\ \A x \in ToSet(ips), y \in E \ ToSet(ips) : x < y
    /\ Len(ips) <= Cap
    /\ ToSet(ips) = E \/ Len(ips) = Cap

LEMMA CapType == Cap \in Nat \ {0} /\ Cap >= MaxHosts /\ (Cap = 1 \/ Cap = MaxHosts)
<1>1. CASE MaxHosts >= 1
  <2>1. \E x \in {1, MaxHosts} : \A y \in {1, MaxHosts} : x >= y
    BY <1>1, FindAssumption
  <2> QED BY <2>1, <1>1, FindAssumption DEF Cap, Max
<1>2. CASE ~ (MaxHosts >= 1)
  <2>1. \E x \in {1, MaxHosts} : \A y \in {1, MaxHosts} : x >= y
    BY <1>2, FindAssumption
  <2> QED BY <2>1, <1>2, FindAssumption DEF Cap, Max
<1> QED BY <1>1, <1>2

LEMMA FullAtCap ==
    ASSUME NEW ips \in Seq(Nat), Len(ips) <= Cap
    PROVE  Full(ips) <=> Len(ips) = Cap
<1>1. Len(ips) \in Nat /\ (ips = <<>> <=> Len(ips) = 0)
  OBVIOUS
<1> QED BY <1>1, CapType, FindAssumption DEF Full

LEMMA CandidateLowest ==
    ASSUME NEW ips, NEW E \in SUBSET Nat, Lowest(ips, E), NEW a \in Scannable \intersect Nat,
           a \in E \/ \A e \in E : e < a
    PROVE  Lowest(Take(ips, a), E \union {a})
<1>1. ips \in Seq(Nat) /\ Len(ips) <= Cap
  BY DEF Lowest
<1>2. Contains(ips, a) <=> a \in ToSet(ips)
  BY <1>1 DEF Contains, ToSet
<1>3. CASE Full(ips)
  <2>1. Take(ips, a) = ips /\ Len(ips) = Cap
    BY <1>1, <1>3, FullAtCap DEF Take
  <2>2. \A x \in ToSet(ips) : x \in E
    BY DEF Lowest
  <2>3. \A x \in ToSet(ips), y \in (E \union {a}) \ ToSet(ips) : x < y
    BY <2>2 DEF Lowest
  <2> QED BY <2>1, <2>2, <2>3 DEF Lowest
<1>4. CASE ~ Full(ips) /\ a \in ToSet(ips)
  <2>1. Take(ips, a) = ips
    BY <1>2, <1>4 DEF Take
  <2>2. E \union {a} = E
    BY <1>4 DEF Lowest
  <2> QED BY <2>1, <2>2
<1>5. CASE ~ Full(ips) /\ a \notin ToSet(ips)
  <2>1. Take(ips, a) = Append(ips, a)
    BY <1>2, <1>5 DEF Take
  <2>2. Len(ips) # Cap /\ ToSet(ips) = E
    BY <1>1, <1>5, FullAtCap DEF Lowest
  <2>3. /\ Append(ips, a) \in Seq(Nat)
        /\ Len(Append(ips, a)) = Len(ips) + 1
        /\ \A i \in 1..(Len(ips) + 1) :
              Append(ips, a)[i] = IF i <= Len(ips) THEN ips[i] ELSE a
    BY <1>1
  <2>4. ToSet(Append(ips, a)) = E \union {a}
    <3>1. DOMAIN ips = 1..Len(ips) /\ DOMAIN Append(ips, a) = 1..(Len(ips) + 1)
      BY <1>1
    <3>2. Len(ips) + 1 \in 1..(Len(ips) + 1) /\ Len(ips) \in Nat
      BY <1>1
    <3>3. ASSUME NEW y \in ToSet(ips) PROVE y \in ToSet(Append(ips, a))
      <4>1. PICK i \in 1..Len(ips) : y = ips[i]
        BY <3>1 DEF ToSet
      <4>2. i \in 1..(Len(ips) + 1) /\ Append(ips, a)[i] = y
        BY <4>1, <3>2, <2>3
      <4> QED BY <4>2, <3>1 DEF ToSet
    <3>4. a \in ToSet(Append(ips, a))
      BY <3>1, <3>2, <2>3 DEF ToSet
    <3>5. ASSUME NEW y \in ToSet(Append(ips, a)) PROVE y \in ToSet(ips) \union {a}
      <4>1. PICK i \in 1..(Len(ips) + 1) : y = Append(ips, a)[i]
        BY <3>1 DEF ToSet
      <4>2. CASE i <= Len(ips)
        <5>1. i \in 1..Len(ips) /\ y = ips[i]
          BY <4>1, <4>2, <3>2, <2>3
        <5> QED BY <5>1, <3>1 DEF ToSet
      <4>3. CASE ~ (i <= Len(ips))
        BY <4>1, <4>3, <2>3
      <4> QED BY <4>2, <4>3
    <3> QED BY <2>2, <3>3, <3>4, <3>5
  <2>5. IsInjective(Append(ips, a))
    <3>1. DOMAIN ips = 1..Len(ips) /\ DOMAIN Append(ips, a) = 1..(Len(ips) + 1) /\ Len(ips) \in Nat
      BY <1>1
    <3>2. \A i, j \in 1..Len(ips) : ips[i] = ips[j] => i = j
      BY <3>1 DEF Lowest, IsInjective
    <3>3. \A i \in 1..Len(ips) : ips[i] # a
      BY <1>5, <3>1 DEF ToSet
    <3>4. ASSUME NEW i \in 1..(Len(ips) + 1), NEW j \in 1..(Len(ips) + 1),
                 Append(ips, a)[i] = Append(ips, a)[j]
          PROVE  i = j
      BY <3>1, <3>2, <3>3, <3>4, <2>3
    <3> QED BY <3>1, <3>4 DEF IsInjective
  <2>6. Len(ips) + 1 <= Cap
    <3>1. Len(ips) \in Nat
      BY <1>1
    <3> QED BY <3>1, <1>1, <2>2, CapType
  <2>7. \A x \in ToSet(Append(ips, a)), y \in (E \union {a}) \ ToSet(Append(ips, a)) : x < y
    BY <2>4
  <2> QED BY <2>1, <2>3, <2>4, <2>5, <2>6, <2>7 DEF Lowest
<1> QED BY <1>3, <1>4, <1>5

\* Of what is offered only the candidates count.
Low(ips, E) == Lowest(ips, E \intersect Scannable)

LEMMA TakeLowest ==
    ASSUME NEW ips, NEW E \in SUBSET Nat, Low(ips, E), NEW a \in Nat,
           a \in E \/ \A e \in E : e < a
    PROVE  Low(Take(ips, a), E \union {a})
<1> DEFINE D == E \intersect Scannable
<1>1. CASE a \in Scannable
  <2>1. (E \union {a}) \intersect Scannable = D \union {a}
    BY <1>1
  <2>2. D \in SUBSET Nat /\ Lowest(ips, D) /\ (a \in D \/ \A e \in D : e < a)
    BY <1>1 DEF Low
  <2> HIDE DEF D
  <2>3. Lowest(Take(ips, a), D \union {a})
    BY <1>1, <2>2, CandidateLowest
  <2> QED BY <2>1, <2>3, Zenon DEF Low
<1>2. CASE a \notin Scannable
  <2>1. Take(ips, a) = ips
    BY <1>2 DEF Take
  <2>2. (E \union {a}) \intersect Scannable = D
    BY <1>2
  <2> QED BY <2>1, <2>2, Zenon DEF Low
<1> QED BY <1>1, <1>2

\* One network.
LEMMA NetLowest ==
    ASSUME NEW net \in Cidrs, NEW ips, NEW E \in SUBSET Nat, Low(ips, E),
           \A a \in ToSet(Hosts(net)) : a \in E \/ \A e \in E : e < a
    PROVE  /\ ToSet(Hosts(net)) \in SUBSET Nat
           /\ Low(FoldLeft(Take, ips, Hosts(net)), E \union ToSet(Hosts(net)))
<1> DEFINE hs == Hosts(net)
<1>1. PICK T \in Nat : hs \in [1..T -> Nat]
  BY HostsType
<1>2. \A i, j \in 1..T : i < j => hs[i] < hs[j]
  <2>1. net.first \in Nat /\ net.size \in Nat
    BY FindAssumption
  <2>2. CASE net.size <= 2
    <3>1. hs = [n \in 1..net.size |-> net.first + n - 1]
      BY <2>2 DEF Hosts
    <3> HIDE DEF hs
    <3>2. \A i \in 1..T : i \in 1..net.size
      BY <1>1, <3>1
    <3> QED BY <2>1, <3>1, <3>2
  <2>3. CASE ~ (net.size <= 2)
    <3>1. hs = [n \in 1..(net.size - 2) |-> net.first + n]
      BY <2>3 DEF Hosts
    <3> HIDE DEF hs
    <3>2. \A i \in 1..T : i \in 1..(net.size - 2)
      BY <1>1, <3>1
    <3> QED BY <2>1, <3>1, <3>2
  <2> QED BY <2>2, <2>3
<1>3. \A i \in 1..T : hs[i] \in Nat /\ (hs[i] \in E \/ \A e \in E : e < hs[i])
  BY <1>1 DEF ToSet
<1> HIDE DEF hs
<1>4. ips \in Seq(Nat)
  BY DEF Low, Lowest
<1>5. PICK F : /\ F[0] = ips
               /\ \A n \in 1..T : F[n] = Take(F[n - 1], hs[n])
               /\ FoldLeft(Take, ips, hs) = F[T]
  BY <1>1, <1>4, TakeSteps, Zenon
<1> DEFINE Offered(n) == E \union {hs[i] : i \in 1..n}
           S == {n \in 0..T : Low(F[n], Offered(n))}
<1>6. 0 \in S
  <2>1. Offered(0) = E
    OBVIOUS
  <2> QED BY <2>1, <1>5
<1>7. ASSUME NEW n \in 1..T, n - 1 \in S PROVE n \in S
  <2>1. Offered(n - 1) \in SUBSET Nat
    <3>1. 1..(n - 1) \subseteq 1..T
      BY <1>1
    <3> QED BY <3>1, <1>3, Zenon
  <2>2. hs[n] \in Offered(n - 1) \/ \A e \in Offered(n - 1) : e < hs[n]
    BY <1>2, <1>3
  <2>3. Offered(n) = Offered(n - 1) \union {hs[n]}
    <3>1. 1..n = (1..(n - 1)) \union {n}
      OBVIOUS
    <3> QED BY <3>1
  <2>4. Low(F[n - 1], Offered(n - 1)) /\ hs[n] \in Nat
    BY <1>3, <1>7
  <2> HIDE DEF Offered
  <2>5. F[n] = Take(F[n - 1], hs[n])
    BY <1>5, Zenon
  <2>6. Low(Take(F[n - 1], hs[n]), Offered(n - 1) \union {hs[n]})
    BY <2>1, <2>2, <2>4, TakeLowest
  <2>7. Low(F[n], Offered(n))
    BY <2>3, <2>5, <2>6, Zenon
  <2> QED BY <2>7
<1>8. 0..T \subseteq S
  BY <1>6, <1>7, UpTo
<1>9. Offered(T) = E \union ToSet(hs)
  BY <1>1 DEF ToSet
<1>10. Low(FoldLeft(Take, ips, hs), E \union ToSet(hs))
  <2> HIDE DEF Offered
  <2>1. Low(F[T], Offered(T))
    BY <1>8
  <2> QED BY <2>1, <1>5, <1>9, Zenon
<1>11. ToSet(hs) \in SUBSET Nat
  BY <1>1, <1>3 DEF ToSet
<1> QED BY <1>10, <1>11 DEF hs

\* A host of a later network that an earlier one does not have is above its hosts.
LEMMA LaterHosts ==
    ASSUME NEW m \in Cidrs, NEW n \in Cidrs, Before(m, n),
           ~ (m.first = n.first /\ m.size > 2 /\ n.size <= 2),
           NEW a \in ToSet(Hosts(n)), NEW e \in ToSet(Hosts(m)), a <= e
    PROVE  a \in ToSet(Hosts(m))
<1>1. /\ m.first \in Nat /\ m.size \in Nat \ {0}
      /\ n.first \in Nat /\ n.size \in Nat \ {0}
  BY FindAssumption
<1>2. ASSUME NEW net \in Cidrs, net.first \in Nat, net.size \in Nat \ {0}
      PROVE  \A b : b \in ToSet(Hosts(net)) <=>
                 /\ b \in Nat
                 /\ IF net.size <= 2 THEN net.first <= b /\ b < net.first + net.size
                                    ELSE net.first < b /\ b < net.first + net.size - 1
  <2> SUFFICES ASSUME NEW b
               PROVE  b \in ToSet(Hosts(net)) <=>
                 /\ b \in Nat
                 /\ IF net.size <= 2 THEN net.first <= b /\ b < net.first + net.size
                                    ELSE net.first < b /\ b < net.first + net.size - 1
    OBVIOUS
  <2>1. CASE net.size <= 2
    <3>1. b \in ToSet(Hosts(net)) <=> \E k \in 1..net.size : b = net.first + k - 1
      BY <2>1, <1>2 DEF Hosts, ToSet
    <3>2. b \in Nat /\ net.first <= b /\ b < net.first + net.size
          => b - net.first + 1 \in 1..net.size /\ b = net.first + (b - net.first + 1) - 1
      BY <1>2
    <3> QED BY <3>1, <3>2, <2>1, <1>2
  <2>2. CASE ~ (net.size <= 2)
    <3>1. b \in ToSet(Hosts(net)) <=> \E k \in 1..(net.size - 2) : b = net.first + k
      BY <2>2, <1>2 DEF Hosts, ToSet
    <3>2. b \in Nat /\ net.first < b /\ b < net.first + net.size - 1
          => b - net.first \in 1..(net.size - 2) /\ b = net.first + (b - net.first)
      BY <1>2
    <3> QED BY <3>1, <3>2, <2>2, <1>2
  <2> QED BY <2>1, <2>2
<1>3. /\ a \in Nat
      /\ IF n.size <= 2 THEN n.first <= a /\ a < n.first + n.size
                       ELSE n.first < a /\ a < n.first + n.size - 1
  BY <1>1, <1>2
<1>4. /\ e \in Nat
      /\ IF m.size <= 2 THEN m.first <= e /\ e < m.first + m.size
                       ELSE m.first < e /\ e < m.first + m.size - 1
  BY <1>1, <1>2
<1>5. IF m.size <= 2 THEN m.first <= a /\ a < m.first + m.size
                     ELSE m.first < a /\ a < m.first + m.size - 1
  BY <1>1, <1>3, <1>4 DEF Before
<1> QED BY <1>1, <1>2, <1>3, <1>5

Offers(X) == UNION {ToSet(Hosts(n)) : n \in X}

\* Networks with the same first address, of which only the narrow one has it as a host.
NoOdd(X) ==
    \A m, n \in X : ~ (m.first = n.first /\ m.size > 2 /\ n.size <= 2)

LEMMA OffersType ==
    ASSUME NEW X \in SUBSET Cidrs
    PROVE  Offers(X) \in SUBSET Nat /\ IsFiniteSet(Offers(X))
<1> DEFINE im == {ToSet(Hosts(n)) : n \in X}
           f == [n \in X |-> ToSet(Hosts(n))]
<1>1. IsFiniteSet(X)
  BY FindAssumption, FS_Subset
<1>2. ASSUME NEW n \in X PROVE ToSet(Hosts(n)) \in SUBSET Nat /\ IsFiniteSet(ToSet(Hosts(n)))
  <2> DEFINE hs == Hosts(n)
  <2>1. PICK T \in Nat : hs \in [1..T -> Nat]
    BY HostsType
  <2> HIDE DEF hs
  <2>2. hs \in Surjection(1..T, ToSet(hs))
    BY <2>1 DEF Surjection, ToSet
  <2>3. IsFiniteSet(1..T)
    BY <2>1, FS_Interval
  <2>4. IsFiniteSet(ToSet(hs))
    BY <2>2, <2>3, FS_Surjection
  <2>5. ToSet(hs) \in SUBSET Nat
    BY <2>1 DEF ToSet
  <2> QED BY <2>4, <2>5 DEF hs
<1>3. f \in Surjection(X, im)
  BY DEF Surjection
<1>4. IsFiniteSet(im)
  BY <1>1, <1>3, FS_Surjection
<1>5. \A T \in im : IsFiniteSet(T)
  BY <1>2
<1>6. IsFiniteSet(UNION im)
  BY <1>4, <1>5, FS_UNION
<1>7. UNION im \in SUBSET Nat
  BY <1>2
<1> QED BY <1>6, <1>7 DEF Offers

LEMMA ScanLowest ==
    ASSUME NEW X \in SUBSET Cidrs, NoOdd(X)
    PROVE  Low(IterScanIps(X), Offers(X))
<1> DEFINE K == Cardinality(X)
           nw == Sorted(SetToSeq(X), NetOrder(X))
<1>1. /\ K \in Nat
      /\ nw \in [1..K -> X]
      /\ ToSet(nw) = X
      /\ \A i, j \in 1..K : i < j => Before(nw[i], nw[j])
  BY SortedNets
<1>2. K \in Nat
  BY <1>1
<1>3. PICK F : /\ F[0] = <<>>
               /\ \A n \in 1..K : F[n] = FoldLeft(Take, F[n - 1], Hosts(nw[n]))
               /\ IterScanIps(X) = F[K]
  BY <1>1, ScanSteps
<1> HIDE DEF nw, K
<1> DEFINE Upto(n) == Offers({nw[i] : i \in 1..n})
           S == {n \in 0..K : Low(F[n], Upto(n))}
<1>4. 0 \in S
  <2>1. Upto(0) = {}
    BY DEF Offers
  <2>2. Low(<<>>, {})
    BY CapType DEF Low, Lowest, ToSet, IsInjective
  <2>3. F[0] = <<>>
    BY <1>3, Zenon
  <2>4. 0 \in 0..K
    BY <1>2
  <2> HIDE DEF Upto
  <2> QED BY <2>1, <2>2, <2>3, <2>4
<1>5. ASSUME NEW n \in 1..K, n - 1 \in S PROVE n \in S
  <2>1. nw[n] \in Cidrs /\ nw[n] \in X
    BY <1>1
  <2>2. Upto(n - 1) \in SUBSET Nat
    <3>1. {nw[i] : i \in 1..(n - 1)} \in SUBSET Cidrs
      BY <1>1
    <3> QED BY <3>1, OffersType
  <2>3. ASSUME NEW a \in ToSet(Hosts(nw[n])), NEW e \in Upto(n - 1), ~ (e < a)
        PROVE  a \in Upto(n - 1)
    <3>1. PICK i \in 1..(n - 1) : e \in ToSet(Hosts(nw[i]))
      BY DEF Offers
    <3>2. nw[i] \in X /\ nw[i] \in Cidrs /\ Before(nw[i], nw[n])
      BY <1>1
    <3>3. a \in Nat /\ e \in Nat
      <4>1. PICK T \in Nat : Hosts(nw[n]) \in [1..T -> Nat]
        BY <2>1, HostsType
      <4>2. a \in Nat
        BY <4>1 DEF ToSet
      <4> QED BY <4>2, <2>2
    <3>4. a \in ToSet(Hosts(nw[i]))
      <4>1. ~ (nw[i].first = nw[n].first /\ nw[i].size > 2 /\ nw[n].size <= 2)
        BY <3>2, <2>1 DEF NoOdd
      <4>2. a <= e
        BY <2>3, <3>3
      <4> QED BY <3>1, <3>2, <2>1, <4>1, <4>2, LaterHosts
    <3> QED BY <3>4 DEF Offers
  <2>4. Upto(n) = Upto(n - 1) \union ToSet(Hosts(nw[n]))
    <3>1. 1..n = (1..(n - 1)) \union {n}
      OBVIOUS
    <3> QED BY <3>1 DEF Offers
  <2>5. Low(F[n - 1], Upto(n - 1))
    BY <1>5
  <2> HIDE DEF Upto
  <2>6. Low(FoldLeft(Take, F[n - 1], Hosts(nw[n])), Upto(n - 1) \union ToSet(Hosts(nw[n])))
    <3> DEFINE ips == F[n - 1]
               E == Upto(n - 1)
               net == nw[n]
    <3>1. net \in Cidrs /\ E \in SUBSET Nat /\ Low(ips, E)
      BY <2>1, <2>2, <2>5
    <3>2. \A a \in ToSet(Hosts(net)) : a \in E \/ \A e \in E : e < a
      BY <2>3
    <3> HIDE DEF ips, E, net
    <3>3. Low(FoldLeft(Take, ips, Hosts(net)), E \union ToSet(Hosts(net)))
      BY <3>1, <3>2, NetLowest
    <3> QED BY <3>3 DEF ips, E, net
  <2>7. F[n] = FoldLeft(Take, F[n - 1], Hosts(nw[n]))
    BY <1>3, Zenon
  <2>8. Low(F[n], Upto(n))
    BY <2>4, <2>6, <2>7, Zenon
  <2> QED BY <2>8
<1>6. 0..K \subseteq S
  BY <1>1, <1>4, <1>5, UpTo
<1>7. Upto(K) = Offers(X)
  <2>1. {nw[i] : i \in 1..K} = X
    BY <1>1 DEF ToSet
  <2> QED BY <2>1
<1>8. Low(F[K], Upto(K))
  BY <1>1, <1>6
<1>9. IterScanIps(X) = F[K]
  BY <1>3, Zenon
<1> HIDE DEF Upto
<1> QED BY <1>7, <1>8, <1>9, Zenon

\* The lowest part, by counting.
LEMMA LowestCounted ==
    ASSUME NEW ips, NEW E \in SUBSET Nat, IsFiniteSet(E), Lowest(ips, E)
    PROVE  ToSet(ips) = {a \in E : Cardinality({b \in E : b < a}) < Cap}
<1>1. ips \in Seq(Nat) /\ Len(ips) \in Nat /\ DOMAIN ips = 1..Len(ips)
  BY DEF Lowest
<1>2. IsFiniteSet(ToSet(ips)) /\ Cardinality(ToSet(ips)) = Len(ips)
  <2>1. ips \in Injection(1..Len(ips), ToSet(ips)) /\ ips \in Surjection(1..Len(ips), ToSet(ips))
    BY <1>1 DEF Injection, Surjection, ToSet, Lowest
  <2>2. ExistsBijection(1..Len(ips), ToSet(ips))
    BY <2>1 DEF Bijection, ExistsBijection
  <2>3. IsFiniteSet(1..Len(ips)) /\ Cardinality(1..Len(ips)) = Len(ips)
    <3> DEFINE n == Len(ips)
    <3>1. n \in Nat
      BY <1>1
    <3> HIDE DEF n
    <3>2. IsFiniteSet(1..n) /\ Cardinality(1..n) = n
      BY <3>1, FS_Interval
    <3> QED BY <3>2 DEF n
  <2> QED BY <2>2, <2>3, FS_Bijection
<1>3. ASSUME NEW a \in ToSet(ips) PROVE a \in E /\ Cardinality({b \in E : b < a}) < Cap
  <2> DEFINE P == {b \in E : b < a}
  <2>7. a \in E /\ \A y \in E \ ToSet(ips) : a < y
    BY DEF Lowest
  <2>1. P \in SUBSET (ToSet(ips) \ {a})
    <3>1. ASSUME NEW b \in P PROVE b \in ToSet(ips) /\ b # a
      <4>1. b \in Nat /\ a \in Nat /\ b \in E /\ b < a
        BY <2>7
      <4> QED BY <4>1, <2>7
    <3> QED BY <3>1
  <2>2. IsFiniteSet(ToSet(ips) \ {a}) /\ Cardinality(ToSet(ips) \ {a}) = Len(ips) - 1
    BY <1>2, FS_RemoveElement
  <2>3. IsFiniteSet(P) /\ Cardinality(P) <= Len(ips) - 1
    BY <2>1, <2>2, FS_Subset
  <2>4. Cardinality(P) \in Nat
    BY <2>3, FS_CardinalityType
  <2>5. Len(ips) <= Cap
    BY DEF Lowest
  <2> HIDE DEF P
  <2>6. Cardinality(P) < Cap
    BY <1>1, <2>3, <2>4, <2>5, CapType
  <2> QED BY <2>7, <2>6 DEF P
<1>4. ASSUME NEW a \in E \ ToSet(ips) PROVE ~ (Cardinality({b \in E : b < a}) < Cap)
  <2> DEFINE P == {b \in E : b < a}
  <2>1. ToSet(ips) \in SUBSET P
    BY DEF Lowest
  <2>2. IsFiniteSet(P)
    <3>1. P \in SUBSET E
      OBVIOUS
    <3> QED BY <3>1, FS_Subset
  <2>3. Cardinality(ToSet(ips)) <= Cardinality(P)
    BY <2>1, <2>2, FS_Subset
  <2>4. Cardinality(P) \in Nat
    BY <2>2, FS_CardinalityType
  <2>5. Len(ips) = Cap
    BY <1>4 DEF Lowest
  <2> HIDE DEF P
  <2>6. ~ (Cardinality(P) < Cap)
    BY <1>1, <1>2, <2>3, <2>4, <2>5
  <2> QED BY <2>6 DEF P
<1> QED BY <1>3, <1>4

-----------------------------------------------------------------------------
(* upsert_env and the two readers.                                         *)

\* What both readers find for the keys that were written, and for the others.
Agreed(f, v) ==
    \A k \in Updated :
        /\ ParseEnv(f, k) = v
        /\ ReadEnvValue(f, k) = v \/ Matches(f, k, {"tab"}) # {}

SameOthers(f, g) ==
    \A k : k \notin Updated =>
        /\ ParseEnv(f, k) = ParseEnv(g, k)
        /\ ReadEnvValue(f, k) = ReadEnvValue(g, k)

\* The lines of a file.  (The provers do not know that a literal is a STRING.)
Text == STRING \union {Absent, Cut}
AnyLines == [key : STRING \union Updated, form : BashForms \union {"comment"}, val : Text]

LEMMA MatchesType ==
    ASSUME NEW f \in Seq(AnyLines), NEW k, NEW forms
    PROVE  /\ Len(f) \in Nat
           /\ DOMAIN f = 1..Len(f)
           /\ Matches(f, k, forms) \in SUBSET (1..Len(f))
           /\ Matches(f, k, forms) \in SUBSET Nat
BY DEF Matches

\* One line of a for each key that no line of f assigns.
Completes(f, v, a) ==
    /\ a \in Seq(AnyLines)
    /\ \A n \in 1..Len(a) : a[n].key \in Missing(f) /\ a[n].form = "plain" /\ a[n].val = v
    /\ \A k \in Missing(f) : \E n \in 1..Len(a) : a[n].key = k

LEMMA AppendedLines ==
    ASSUME NEW f \in Seq(AnyLines), NEW v \in Text
    PROVE  Completes(f, v, Appended(f, v))
<1> DEFINE keys == SetToSeq(Missing(f))
           a == Appended(f, v)
           N == Cardinality(Missing(f))
<1>1. IsFiniteSet(Missing(f)) /\ Missing(f) \subseteq Updated
  <2>1. Missing(f) \in SUBSET Updated
    BY DEF Missing
  <2>2. IsFiniteSet({"RPI_SSH_HOST"})
    BY FS_Singleton
  <2>3. IsFiniteSet({"RPI_SSH_HOST"} \union {"RPI_MCP_HOST"})
    BY <2>2, FS_AddElement
  <2>4. Updated = {"RPI_SSH_HOST"} \union {"RPI_MCP_HOST"}
    BY DEF Updated
  <2>5. IsFiniteSet(Updated)
    BY <2>3, <2>4
  <2>6. IsFiniteSet(Missing(f))
    BY <2>1, <2>5, FS_Subset
  <2> QED BY <2>1, <2>6
<1>2. N \in Nat
  BY <1>1, FS_CardinalityType
<1>3. Enumerates(keys, Missing(f)) /\ ToSet(keys) = Missing(f)
  BY <1>1, SomeEnumeration, EnumerationOnto
<1>4. keys \in [1..N -> Missing(f)]
  BY <1>3 DEF Enumerates
<1>5. a = [n \in DOMAIN keys |-> [key |-> keys[n], form |-> "plain", val |-> v]]
  BY DEF Appended
<1> HIDE DEF keys, a, N
<1>6. a = [n \in 1..N |-> [key |-> keys[n], form |-> "plain", val |-> v]]
  BY <1>4, <1>5
<1>7. ASSUME NEW n \in 1..N
      PROVE  [key |-> keys[n], form |-> "plain", val |-> v] \in AnyLines
  BY <1>1, <1>4 DEF AnyLines, BashForms, PythonForms
<1>8. a \in [1..N -> AnyLines]
  BY <1>6, <1>7
<1>9. a \in Seq(AnyLines) /\ Len(a) = N
  BY <1>2, <1>8
<1>10. \A k \in Missing(f) : \E n \in 1..N : keys[n] = k
  BY <1>3, <1>4 DEF ToSet
<1>11. \A n \in 1..N : a[n].key = keys[n] /\ a[n].form = "plain" /\ a[n].val = v
  BY <1>6
<1>12. \A n \in 1..Len(a) : a[n].key \in Missing(f) /\ a[n].form = "plain" /\ a[n].val = v
  BY <1>4, <1>9, <1>11
<1>13. \A k \in Missing(f) : \E n \in 1..Len(a) : a[n].key = k
  BY <1>9, <1>10, <1>11
<1>14. Completes(f, v, a)
  BY <1>9, <1>12, <1>13 DEF Completes
<1> QED BY <1>14 DEF a

\* u is f with new values where the keys stand, and a line for each that was missing.
Rewrites(f, v, u) ==
    /\ u \in Seq(AnyLines)
    /\ Len(f) \in Nat /\ Len(u) \in Nat /\ Len(f) <= Len(u)
    /\ \A n \in 1..Len(f) :
          /\ u[n].key = f[n].key /\ u[n].form = f[n].form
          /\ u[n].val = IF f[n].key \in Updated /\ f[n].form \in PythonForms
                        THEN v ELSE f[n].val
    /\ \A n \in (Len(f) + 1)..Len(u) :
          u[n].key \in Missing(f) /\ u[n].form = "plain" /\ u[n].val = v
    /\ \A k \in Missing(f) : \E n \in (Len(f) + 1)..Len(u) : u[n].key = k

LEMMA UpsertLines ==
    ASSUME NEW f \in Seq(AnyLines), NEW v \in Text
    PROVE  Rewrites(f, v, Upsert(f, v))
<1> DEFINE line(n) == IF f[n].key \in Updated /\ f[n].form \in PythonForms
                      THEN [f[n] EXCEPT !.val = v] ELSE f[n]
           b == [n \in DOMAIN f |-> line(n)]
           a == Appended(f, v)
           u == Upsert(f, v)
<1>1. u = b \o a
  BY DEF Upsert
<1>2. Completes(f, v, a)
  BY AppendedLines
<1>3. Len(f) \in Nat /\ DOMAIN f = 1..Len(f) /\ \A n \in 1..Len(f) : f[n] \in AnyLines
  OBVIOUS
<1>4. ASSUME NEW n \in 1..Len(f)
      PROVE  /\ line(n) \in AnyLines
             /\ line(n).key = f[n].key /\ line(n).form = f[n].form
             /\ line(n).val = IF f[n].key \in Updated /\ f[n].form \in PythonForms
                              THEN v ELSE f[n].val
  <2>1. f[n] \in AnyLines
    BY <1>3
  <2> QED BY <2>1 DEF AnyLines
<1> HIDE DEF line
<1>5. b \in Seq(AnyLines) /\ Len(b) = Len(f) /\ \A n \in 1..Len(f) : b[n] = line(n)
  <2>1. b \in [1..Len(f) -> AnyLines]
    BY <1>3, <1>4
  <2> QED BY <2>1, <1>3
<1> HIDE DEF a, b, u
<1>6. /\ u \in Seq(AnyLines) /\ Len(u) = Len(f) + Len(a) /\ Len(a) \in Nat
      /\ \A n \in 1..Len(f) : u[n] = b[n]
      /\ \A n \in 1..Len(a) : u[Len(f) + n] = a[n]
  <2> DEFINE c == b \o a
  <2>1. a \in Seq(AnyLines) /\ Len(a) \in Nat
    BY <1>2 DEF Completes
  <2>2. /\ c \in Seq(AnyLines) /\ Len(c) = Len(b) + Len(a)
        /\ \A n \in 1..(Len(b) + Len(a)) :
              c[n] = IF n <= Len(b) THEN b[n] ELSE a[n - Len(b)]
    BY <1>5, <2>1, ConcatProperties
  <2>3. c = u
    BY <1>1
  <2> HIDE DEF c
  <2>4. \A n \in 1..Len(f) : u[n] = b[n]
    BY <1>3, <1>5, <2>1, <2>2, <2>3
  <2>5. ASSUME NEW n \in 1..Len(a) PROVE u[Len(f) + n] = a[n]
    <3>1. Len(f) + n \in 1..(Len(b) + Len(a)) /\ ~ (Len(f) + n <= Len(b))
          /\ (Len(f) + n) - Len(b) = n
      BY <1>3, <1>5, <2>1
    <3>2. c[Len(f) + n] = a[(Len(f) + n) - Len(b)]
      BY <2>2, <3>1
    <3> QED BY <2>3, <3>1, <3>2
  <2> QED BY <1>3, <1>5, <2>1, <2>2, <2>3, <2>4, <2>5
<1>7. ASSUME NEW n \in (Len(f) + 1)..Len(u)
      PROVE  u[n].key \in Missing(f) /\ u[n].form = "plain" /\ u[n].val = v
  <2>1. n - Len(f) \in 1..Len(a) /\ n = Len(f) + (n - Len(f))
    BY <1>3, <1>6
  <2>2. u[n] = a[n - Len(f)]
    BY <2>1, <1>6
  <2> QED BY <2>1, <2>2, <1>2 DEF Completes
<1>8. ASSUME NEW k \in Missing(f) PROVE \E n \in (Len(f) + 1)..Len(u) : u[n].key = k
  <2>1. PICK n \in 1..Len(a) : a[n].key = k
    BY <1>2 DEF Completes
  <2>2. Len(f) + n \in (Len(f) + 1)..Len(u) /\ u[Len(f) + n] = a[n]
    BY <1>3, <1>6
  <2> QED BY <2>1, <2>2
<1>9. \A n \in 1..Len(f) : u[n] = line(n)
  BY <1>5, <1>6
<1>10. Rewrites(f, v, u)
  BY <1>3, <1>4, <1>6, <1>7, <1>8, <1>9 DEF Rewrites
<1> QED BY <1>10 DEF u

\* Upsert writes the keys so that both readers find the value, and leaves the others.
LEMMA UpsertAgreed ==
    ASSUME NEW f \in Seq(AnyLines), NEW v \in Text
    PROVE  Agreed(Upsert(f, v), v)
<1> DEFINE u == Upsert(f, v)
<1>0. Rewrites(f, v, u)
  BY UpsertLines
<1> HIDE DEF u
<1>1. /\ u \in Seq(AnyLines)
      /\ Len(f) \in Nat /\ Len(u) \in Nat /\ Len(f) <= Len(u)
      /\ \A n \in 1..Len(f) :
            /\ u[n].key = f[n].key /\ u[n].form = f[n].form
            /\ u[n].val = IF f[n].key \in Updated /\ f[n].form \in PythonForms
                          THEN v ELSE f[n].val
      /\ \A n \in (Len(f) + 1)..Len(u) :
            u[n].key \in Missing(f) /\ u[n].form = "plain" /\ u[n].val = v
      /\ \A k \in Missing(f) : \E n \in (Len(f) + 1)..Len(u) : u[n].key = k
  BY <1>0 DEF Rewrites
<1> SUFFICES ASSUME NEW k \in Updated
             PROVE  /\ ParseEnv(u, k) = v
                    /\ ReadEnvValue(u, k) = v \/ Matches(u, k, {"tab"}) # {}
  BY DEF Agreed, u
<1>2. DOMAIN u = 1..Len(u) /\ DOMAIN f = 1..Len(f)
  BY <1>1
<1>3. ASSUME NEW n \in 1..Len(u), u[n].key = k, u[n].form \in PythonForms
      PROVE  u[n].val = v
  <2>1. CASE n \in 1..Len(f)
    BY <1>1, <1>3, <2>1
  <2>2. CASE n \in (Len(f) + 1)..Len(u)
    BY <1>1, <2>2
  <2> QED BY <1>1, <2>1, <2>2
<1>4. Matches(u, k, PythonForms) # {}
  <2>1. CASE k \in Missing(f)
    <3>1. PICK n \in (Len(f) + 1)..Len(u) : u[n].key = k
      BY <1>1, <2>1
    <3>2. n \in 1..Len(u) /\ u[n].form = "plain"
      BY <1>1, <3>1
    <3> QED BY <3>1, <3>2, <1>2 DEF Matches, PythonForms
  <2>2. CASE k \notin Missing(f)
    <3>1. PICK n \in 1..Len(f) : f[n].key = k /\ f[n].form \in PythonForms
      BY <2>2, <1>2 DEF Missing, Matches
    <3>2. n \in 1..Len(u) /\ u[n].key = k /\ u[n].form \in PythonForms
      BY <1>1, <3>1
    <3> QED BY <3>2, <1>2 DEF Matches
  <2> QED BY <2>1, <2>2
<1>5. ParseEnv(u, k) = v
  <2> DEFINE hits == Matches(u, k, PythonForms)
  <2>1. Len(u) \in Nat /\ hits \in SUBSET (1..Len(u)) /\ hits # {}
    BY <1>1, <1>4, MatchesType
  <2>2. Max(hits) \in hits
    BY <2>1, MaxIndex
  <2>3. u[Max(hits)].val = v
    BY <2>1, <2>2, <1>3 DEF Matches
  <2> QED BY <2>1, <2>3 DEF ParseEnv
<1>6. ReadEnvValue(u, k) = v \/ Matches(u, k, {"tab"}) # {}
  <2> DEFINE hits == Matches(u, k, BashForms)
  <2>1. hits # {} /\ hits \in SUBSET Nat /\ hits \in SUBSET (1..Len(u))
    <3>1. hits # {}
      BY <1>4 DEF Matches, BashForms
    <3> QED BY <1>1, <3>1, MatchesType
  <2>2. Min(hits) \in hits
    BY <2>1, MinIndex
  <2>3. ReadEnvValue(u, k) = u[Min(hits)].val
    BY <2>1 DEF ReadEnvValue
  <2>4. PICK n \in hits : n = Min(hits)
    BY <2>2
  <2>5. /\ n \in 1..Len(u) /\ u[n].key = k
        /\ u[n].form \in PythonForms \/ u[n].form = "tab"
    BY <2>1 DEF Matches, BashForms
  <2>6. CASE u[n].form = "tab"
    <3>1. n \in Matches(u, k, {"tab"})
      BY <2>5, <2>6, <1>2 DEF Matches
    <3> QED BY <3>1
  <2>7. CASE u[n].form \in PythonForms
    BY <2>3, <2>4, <2>5, <2>7, <1>3
  <2> QED BY <2>5, <2>6, <2>7
<1> QED BY <1>5, <1>6

LEMMA UpsertOthers ==
    ASSUME NEW f \in Seq(AnyLines), NEW v \in Text
    PROVE  SameOthers(Upsert(f, v), f)
<1> DEFINE u == Upsert(f, v)
<1>0. Rewrites(f, v, u)
  BY UpsertLines
<1> HIDE DEF u
<1>1. /\ u \in Seq(AnyLines)
      /\ Len(f) \in Nat /\ Len(u) \in Nat /\ Len(f) <= Len(u)
      /\ \A n \in 1..Len(f) :
            /\ u[n].key = f[n].key /\ u[n].form = f[n].form
            /\ u[n].val = IF f[n].key \in Updated /\ f[n].form \in PythonForms
                          THEN v ELSE f[n].val
      /\ \A n \in (Len(f) + 1)..Len(u) :
            u[n].key \in Missing(f) /\ u[n].form = "plain" /\ u[n].val = v
      /\ \A k \in Missing(f) : \E n \in (Len(f) + 1)..Len(u) : u[n].key = k
  BY <1>0 DEF Rewrites
<1> SUFFICES ASSUME NEW k, k \notin Updated
             PROVE  ParseEnv(u, k) = ParseEnv(f, k) /\ ReadEnvValue(u, k) = ReadEnvValue(f, k)
  BY DEF SameOthers, u
<1>2. DOMAIN u = 1..Len(u) /\ DOMAIN f = 1..Len(f)
  BY <1>1
<1>3. ASSUME NEW n \in 1..Len(u), u[n].key = k
      PROVE  n \in 1..Len(f)
  <2>1. CASE n \in (Len(f) + 1)..Len(u)
    BY <1>1, <1>3, <2>1 DEF Missing
  <2> QED BY <1>1, <2>1
<1>4. ASSUME NEW forms PROVE Matches(u, k, forms) = Matches(f, k, forms)
  <2>1. ASSUME NEW n PROVE n \in Matches(u, k, forms) <=> n \in Matches(f, k, forms)
    <3>1. n \in Matches(u, k, forms) <=>
              n \in 1..Len(f) /\ u[n].key = k /\ u[n].form \in forms
      BY <1>1, <1>2, <1>3 DEF Matches
    <3>2. n \in Matches(f, k, forms) <=>
              n \in 1..Len(f) /\ f[n].key = k /\ f[n].form \in forms
      BY <1>2 DEF Matches
    <3> QED BY <3>1, <3>2, <1>1
  <2> QED BY <2>1
<1>5. ASSUME NEW forms, NEW n \in Matches(f, k, forms) PROVE u[n].val = f[n].val
  BY <1>1, <1>2 DEF Matches
<1>6. ParseEnv(u, k) = ParseEnv(f, k)
  <2> DEFINE hits == Matches(f, k, PythonForms)
  <2>1. Matches(u, k, PythonForms) = hits
    BY <1>4
  <2>2. CASE hits = {}
    BY <2>1, <2>2 DEF ParseEnv
  <2>3. CASE hits # {}
    <3>1. Len(f) \in Nat /\ hits \in SUBSET (1..Len(f))
      BY MatchesType
    <3>2. Max(hits) \in hits
      BY <3>1, <2>3, MaxIndex
    <3>3. u[Max(hits)].val = f[Max(hits)].val
      BY <3>2, <1>5
    <3> QED BY <2>1, <2>3, <3>3 DEF ParseEnv
  <2> QED BY <2>2, <2>3
<1>7. ReadEnvValue(u, k) = ReadEnvValue(f, k)
  <2> DEFINE hits == Matches(f, k, BashForms)
  <2>1. Matches(u, k, BashForms) = hits
    BY <1>4
  <2>2. CASE hits = {}
    BY <2>1, <2>2 DEF ReadEnvValue
  <2>3. CASE hits # {}
    <3>1. hits \in SUBSET Nat
      BY MatchesType
    <3>2. Min(hits) \in hits
      BY <3>1, <2>3, MinIndex
    <3>3. u[Min(hits)].val = f[Min(hits)].val
      BY <3>2, <1>5
    <3> QED BY <2>1, <2>3, <3>3 DEF ReadEnvValue
  <2> QED BY <2>2, <2>3
<1> QED BY <1>6, <1>7

-----------------------------------------------------------------------------
(* What the scan probes.                                                   *)

ScanInv ==
    /\ nets \subseteq Cidrs
    /\ at = "scan" => \/ scanned = ToSet(IterScanIps(nets))
                      \/ nets = {} /\ scanned = {}  \* once a probe has ended

LEMMA InitScan == Init => ScanInv
BY DEF Init, ScanInv

LEMMA StepScan == ASSUME ScanInv, [Next]_vars PROVE ScanInv'
<1> USE DEF ScanInv
<1>1. CASE Begin
  <2>1. nets' \subseteq Cidrs
    BY <1>1 DEF Begin
  <2>2. scanned' = ToSet(IterScanIps(nets'))
    BY <1>1 DEF Begin
  <2> QED BY <2>1, <2>2
<1>2. CASE Merge \/ ReadLines \/ Truncate \/ WriteText
  BY <1>2 DEF Merge, ReadLines, Truncate, WriteText, scan
<1>3. CASE ReportOnly \/ Interrupt
  BY <1>3 DEF ReportOnly, Interrupt, Forget
<1>4. ASSUME NEW m \in Machines, Probe(m) \/ Select(m) PROVE ScanInv'
  <2>1. CASE Probe(m)
    <3>1. nets' = {} /\ scanned' = {}
      BY <2>1 DEF Probe
    <3> QED BY <3>1
  <2>2. CASE Select(m)
    BY <2>2 DEF Select, Forget
  <2> QED BY <1>4, <2>1, <2>2
<1>5. ASSUME NEW f \in Files, Save(f) PROVE ScanInv'
  <2>1. at' = at /\ nets' = nets /\ scanned' = scanned
    BY <1>5 DEF Save, scan
  <2> QED BY <2>1
<1>6. CASE UNCHANGED vars
  <2>1. at' = at /\ nets' = nets /\ scanned' = scanned
    BY <1>6 DEF vars
  <2> QED BY <2>1
<1> QED BY <1>1, <1>2, <1>3, <1>4, <1>5, <1>6 DEF Next

\* iter_scan_ips never leaves out an address below one that it takes, whatever
\* networks overlap and wherever the cap falls.
THEOREM LowestScanned == Spec => []ScansLowest
<1>1. ScanInv => ScansLowest
  <2> DEFINE E == Offers(nets) \intersect Scannable
  <2> SUFFICES ASSUME ScanInv, at = "scan",
                      {n.first : n \in {n \in nets : n.size <= 2}} \intersect
                      {n.first : n \in {n \in nets : n.size > 2}} = {}
               PROVE  scanned = {a \in E : Cardinality({b \in E : b < a}) < Cap}
    BY DEF ScansLowest, Offers, Cap
  <2>1. CASE scanned = ToSet(IterScanIps(nets))
    <3>1. nets \in SUBSET Cidrs /\ NoOdd(nets)
      BY DEF ScanInv, NoOdd
    <3>2. Lowest(IterScanIps(nets), E)
      BY <3>1, ScanLowest DEF Low
    <3>3. E \in SUBSET Nat /\ IsFiniteSet(E)
      BY <3>1, OffersType, FS_Subset
    <3> HIDE DEF E
    <3> QED BY <2>1, <3>2, <3>3, LowestCounted
  <2>2. CASE nets = {} /\ scanned = {}
    <3>1. E = {}
      BY <2>2 DEF Offers
    <3> QED BY <2>2, <3>1
  <2> QED BY <2>1, <2>2 DEF ScanInv
<1> QED BY <1>1, InitScan, StepScan, PTL DEF Spec

-----------------------------------------------------------------------------
(* The report.                                                             *)

ReportInv ==
    /\ found \in Seq(Machines) /\ IsInjective(found)
    /\ todo \subseteq Machines
    /\ \A m \in ToSet(found) : m \notin todo
    /\ at \notin {"scan", "report"} => found = <<>>
    /\ at = "report" => merged = MergeCandidates(found, macs)

LEMMA EmptyFound == <<>> \in Seq(Machines) /\ IsInjective(<<>>) /\ ToSet(<<>>) = {}
BY DEF IsInjective, ToSet

LEMMA InitReport == Init => ReportInv
BY EmptyFound DEF Init, ReportInv

LEMMA ProbeReport ==
    ASSUME ReportInv, NEW m \in Machines, Probe(m) PROVE ReportInv'
<1>1. at = "scan" /\ at' = at /\ todo' = todo \ {m} /\ m \in todo
  BY DEF Probe
<1>2. found' = found \/ found' = Append(found, m)
  BY DEF Probe
<1>3. CASE found' = found
  BY <1>1, <1>3 DEF ReportInv
<1>4. CASE found' = Append(found, m)
  <2>1. /\ found \in Seq(Machines) /\ Len(found) \in Nat /\ DOMAIN found = 1..Len(found)
        /\ m \notin ToSet(found)
    BY <1>1 DEF ReportInv
  <2>2. /\ found' \in Seq(Machines) /\ DOMAIN found' = 1..(Len(found) + 1)
        /\ \A i \in 1..(Len(found) + 1) :
              found'[i] = IF i <= Len(found) THEN found[i] ELSE m
    BY <1>4, <2>1
  <2>3. IsInjective(found')
    <3>1. \A i, j \in 1..Len(found) : found[i] = found[j] => i = j
      BY <2>1 DEF ReportInv, IsInjective
    <3>2. \A i \in 1..Len(found) : found[i] # m
      BY <2>1 DEF ToSet
    <3> QED BY <2>1, <2>2, <3>1, <3>2 DEF IsInjective
  <2>4. ASSUME NEW x \in ToSet(found') PROVE x \notin todo'
    <3>1. PICK i \in 1..(Len(found) + 1) : x = found'[i]
      BY <2>2 DEF ToSet
    <3>2. x = m \/ x \in ToSet(found)
      BY <2>1, <2>2, <3>1 DEF ToSet
    <3> QED BY <1>1, <3>2 DEF ReportInv
  <2> QED BY <1>1, <2>2, <2>3, <2>4 DEF ReportInv
<1> QED BY <1>2, <1>3, <1>4

LEMMA StepReport == ASSUME ReportInv, [Next]_vars PROVE ReportInv'
<1>1. CASE Begin
  <2>1. found = <<>> /\ found' = found /\ todo' \subseteq Machines /\ at' \in {"over", "scan"}
    BY <1>1 DEF Begin, ReportInv
  <2> QED BY <2>1, EmptyFound DEF ReportInv
<1>2. CASE Merge
  <2>1. /\ found' = found /\ todo' = todo /\ at' = "report" /\ named' = named
        /\ merged' = MergeCandidates(found, macs')
    BY <1>2 DEF Merge
  <2>2. merged' = MergeCandidates(found, macs)'
    BY <2>1 DEF MergeCandidates, ReportOrder, Ahead
  <2> QED BY <2>1, <2>2 DEF ReportInv
<1>3. CASE ReadLines \/ Truncate \/ WriteText
  <2>1. found' = found /\ todo' = todo /\ found = <<>> /\ at' \in {"write", "open", "over"}
    BY <1>3 DEF ReadLines, Truncate, WriteText, scan, ReportInv
  <2> QED BY <2>1 DEF ReportInv
<1>4. CASE ReportOnly \/ Interrupt \/ \E m \in Machines : Select(m)
  <2>1. found' = <<>> /\ todo' = {} /\ at' \in {"over", "update"}
    BY <1>4 DEF ReportOnly, Interrupt, Select, Forget
  <2> QED BY <2>1, EmptyFound DEF ReportInv
<1>5. ASSUME NEW m \in Machines, Probe(m) PROVE ReportInv'
  BY <1>5, ProbeReport
<1>6. CASE (\E f \in Files : Save(f)) \/ UNCHANGED vars
  <2>1. /\ found' = found /\ todo' = todo /\ at' = at /\ named' = named
        /\ macs' = macs /\ merged' = merged
    BY <1>6 DEF Save, scan, vars
  <2>2. MergeCandidates(found, macs)' = MergeCandidates(found, macs)
    BY <2>1 DEF MergeCandidates, ReportOrder, Ahead
  <2> QED BY <2>1, <2>2 DEF ReportInv
<1> QED BY <1>1, <1>2, <1>3, <1>4, <1>5, <1>6 DEF Next

\* Whatever the order in which the probes completed, the report is the same one,
\* and what is written without --select is the machine it suggests, if any.
THEOREM OneReport == Spec => []OrderIrrelevant
<1>1. ReportInv => OrderIrrelevant
  <2> SUFFICES ASSUME ReportInv, at = "report"
               PROVE  /\ \A s \in SetToSeqs(ToSet(found)) : MergeCandidates(s, macs) = merged
                      /\ \A m \in ToSet(merged) :
                           Single(m) => Suggested(merged, macs) \in {Ip[m], Absent}
    BY DEF OrderIrrelevant
  <2> DEFINE X == ToSet(found)
             R == ReportOrder(macs, X)
  <2>1. X \in SUBSET Machines
    BY DEF ReportInv, ToSet
  <2>2. IsFiniteSet(X) /\ Enumerates(found, X)
    <3> DEFINE n == Len(found)
    <3>1. n \in Nat /\ DOMAIN found = 1..n
      BY DEF ReportInv
    <3> HIDE DEF n
    <3>2. found \in [1..n -> X] /\ IsInjective(found)
      BY <3>1 DEF ToSet, ReportInv
    <3>3. found \in Injection(1..n, X) /\ found \in Surjection(1..n, X)
      BY <3>1, <3>2 DEF Injection, Surjection, ToSet
    <3>4. ExistsBijection(1..n, X)
      BY <3>3 DEF Bijection, ExistsBijection
    <3>5. IsFiniteSet(1..n) /\ Cardinality(1..n) = n
      BY <3>1, FS_Interval
    <3>6. IsFiniteSet(X) /\ Cardinality(X) = n
      BY <3>4, <3>5, FS_Bijection
    <3> QED BY <3>2, <3>6 DEF Enumerates
  <2>3. merged = MergeCandidates(found, macs)
    BY DEF ReportInv
  <2>4. StrictOrder(R, X)
    BY <2>1, AheadOrder
  <2> HIDE DEF X
  <2>5. ASSUME NEW s, Enumerates(s, X)
        PROVE  /\ MergeCandidates(s, macs) \in [1..Cardinality(X) -> X]
               /\ \A n \in 1..Cardinality(X) : Place(R, X, MergeCandidates(s, macs)[n]) = n - 1
    BY <2>1, <2>2, <2>5, MergedPlaces
  <2> HIDE DEF R
  <2>6. ASSUME NEW s \in SetToSeqs(X) PROVE MergeCandidates(s, macs) = merged
    <3>1. Enumerates(s, X)
      BY DEF SetToSeqs, Enumerates, IsInjective
    <3>2. /\ merged \in [1..Cardinality(X) -> X]
          /\ \A n \in 1..Cardinality(X) : Place(R, X, merged[n]) = n - 1
      BY <2>2, <2>3, <2>5
    <3> DEFINE t == MergeCandidates(s, macs)
    <3>3. /\ t \in [1..Cardinality(X) -> X]
          /\ \A n \in 1..Cardinality(X) : Place(R, X, t[n]) = n - 1
      BY <3>1, <2>5
    <3> HIDE DEF t
    <3>4. \A x, y \in X : Place(R, X, x) = Place(R, X, y) => x = y
      BY <2>2, <2>4, PlaceOnto
    <3>5. ASSUME NEW n \in 1..Cardinality(X) PROVE t[n] = merged[n]
      BY <3>2, <3>3, <3>4
    <3> DEFINE D == 1..Cardinality(X)
    <3>6. t = [n \in D |-> t[n]] /\ merged = [n \in D |-> merged[n]]
      BY <3>2, <3>3
    <3> HIDE DEF D
    <3>7. t = merged
      BY <3>5, <3>6, Zenon DEF D
    <3> QED BY <3>7 DEF t
  <2>7. ASSUME NEW m \in ToSet(merged), Single(m)
        PROVE  Suggested(merged, macs) \in {Ip[m], Absent}
    <3> DEFINE hits == {n \in DOMAIN merged : Confident(merged[n], macs)}
    <3>1. Cardinality(X) \in Nat /\ merged \in [1..Cardinality(X) -> X]
      BY <2>2, <2>3, <2>5, FS_CardinalityType
    <3>2. CASE hits = {}
      BY <3>2 DEF Suggested
    <3>3. CASE hits # {}
      <4>1. Min(hits) \in hits
        <5>1. hits \in SUBSET Nat
          BY <3>1
        <5> QED BY <5>1, <3>3, MinIndex
      <4>2. merged[Min(hits)] = m
        <5> DEFINE x == merged[Min(hits)]
        <5>1. x \in ToSet(merged) /\ Confident(x, macs)
          BY <4>1 DEF ToSet
        <5> HIDE DEF x
        <5>2. x \in {m}
          BY <2>7, <5>1 DEF Single
        <5> QED BY <5>2 DEF x
      <4>3. Suggested(merged, macs) = Ip[m]
        BY <3>3, <4>2 DEF Suggested
      <4> QED BY <4>3
    <3> QED BY <3>2, <3>3
  <2> QED BY <2>6, <2>7 DEF X
<1> QED BY <1>1, InitReport, StepReport, PTL DEF Spec

-----------------------------------------------------------------------------
(* .env through an update, edits and interruptions.                        *)

FileInv ==
    /\ env \in Seq(AnyLines) /\ saved \in Seq(AnyLines) /\ buf \in Seq(AnyLines)
    /\ chosen \in Text /\ spoiled \in BOOLEAN
    /\ at \in {"scan", "report"} => chosen = Absent
    /\ at \in {"update", "write"} => chosen # Absent
    /\ at = "write" \/ (at = "open" /\ chosen # Absent) => Agreed(buf, chosen)
    /\ at = "open" /\ chosen = Absent => spoiled  \* saved while the file was open
    /\ at = "over" /\ chosen # Absent => Agreed(env, chosen)
    /\ at # "open" /\ ~ spoiled => SameOthers(env, saved)
    /\ at \in {"write", "open"} /\ ~ spoiled => SameOthers(buf, saved)

LEMMA FilesType ==
    /\ Files \subseteq Seq(AnyLines)
    /\ <<>> \in Seq(AnyLines)
    /\ \A m \in Machines : Ip[m] \in Text /\ Ip[m] # Absent
    /\ Absent \in Text
<1>1. Lines \subseteq AnyLines
  BY DEF Lines, AnyLines, Text
<1>2. Seq(Lines) \subseteq Seq(AnyLines)
  BY <1>1
<1> QED BY <1>2, FindAssumption DEF Text

\* What an interrupted write leaves is made of lines too.
LEMMA CutLines ==
    ASSUME NEW f \in Seq(AnyLines), NEW n \in 0..(Len(f) - 1)
    PROVE  /\ SubSeq(f, 1, n) \in Seq(AnyLines)
           /\ Append(SubSeq(f, 1, n), [f[n + 1] EXCEPT !.val = Cut]) \in Seq(AnyLines)
<1>1. Len(f) \in Nat /\ n + 1 \in 1..Len(f)
  OBVIOUS
<1>2. SubSeq(f, 1, n) \in Seq(AnyLines)
  BY <1>1
<1>3. f[n + 1] \in AnyLines
  BY <1>1
<1>4. [f[n + 1] EXCEPT !.val = Cut] \in AnyLines
  BY <1>3 DEF AnyLines, Text
<1> QED BY <1>2, <1>4

\* And so is what two writers leave.
LEMMA MixedLines ==
    ASSUME env \in Seq(AnyLines), buf \in Seq(AnyLines), NEW f \in Overwritten(env)
    PROVE  f \in Seq(AnyLines)
<1>1. CASE f = env
  BY <1>1
<1>2. ASSUME NEW n \in 1..Len(env) + 1, f = buf \o SubSeq(env, n, Len(env))
      PROVE  f \in Seq(AnyLines)
  <2>1. SubSeq(env, n, Len(env)) \in Seq(AnyLines)
    OBVIOUS
  <2> QED BY <2>1, <1>2
<1> QED BY <1>1, <1>2 DEF Overwritten

LEMMA InitFile == Init => FileInv
<1> SUFFICES ASSUME Init PROVE FileInv
  OBVIOUS
<1>1. env \in Seq(AnyLines) /\ buf \in Seq(AnyLines) /\ saved = env
  BY FilesType DEF Init
<1>2. at = "over" /\ chosen = Absent /\ spoiled = FALSE
  BY DEF Init
<1>3. SameOthers(env, saved)
  BY <1>1 DEF SameOthers
<1> QED BY <1>1, <1>2, <1>3, FilesType DEF FileInv

LEMMA InterruptFile == ASSUME FileInv, Interrupt PROVE FileInv'
<1>1. at # "over" /\ at' = "over" /\ chosen' = Absent /\ buf' = <<>> /\ saved' = saved
  BY DEF Interrupt
<1>2. CASE at = "open"
  <2>1. spoiled' = TRUE
    BY <1>2 DEF Interrupt
  <2>2. CASE env' = env
    BY <1>1, <2>1, <2>2, FilesType DEF FileInv
  <2>3. CASE env' # env
    <3>1. PICK n \in 0..(Len(buf) - 1) :
            env' \in {SubSeq(buf, 1, n),
                      Append(SubSeq(buf, 1, n), [buf[n + 1] EXCEPT !.val = Cut])}
      BY <1>2, <2>3 DEF Interrupt
    <3>2. env' \in Seq(AnyLines)
      BY <3>1, CutLines DEF FileInv
    <3> QED BY <1>1, <2>1, <3>2, FilesType DEF FileInv
  <2> QED BY <2>2, <2>3
<1>3. CASE at # "open"
  <2>1. env' = env /\ spoiled' = spoiled
    BY <1>3 DEF Interrupt
  <2> QED BY <1>1, <1>3, <2>1, FilesType DEF FileInv
<1> QED BY <1>2, <1>3

LEMMA StepFile == ASSUME FileInv, [Next]_vars PROVE FileInv'
<1>1. CASE Begin
  <2>1. /\ at = "over" /\ at' \in {"over", "scan"} /\ chosen' = Absent
        /\ env' = env /\ buf' = buf /\ saved' = saved /\ spoiled' = spoiled
    BY <1>1 DEF Begin, file
  <2> QED BY <2>1, FilesType DEF FileInv
<1>2. CASE Merge \/ ReportOnly
  <2>1. /\ at \in {"scan", "report"} /\ at' \in {"report", "over"} /\ chosen' = chosen
        /\ env' = env /\ buf' = buf /\ saved' = saved /\ spoiled' = spoiled
    BY <1>2 DEF Merge, ReportOnly, file
  <2> QED BY <2>1 DEF FileInv
<1>3. CASE ReadLines
  <2>1. /\ at = "update" /\ at' = "write" /\ buf' = Upsert(env, chosen) /\ chosen' = chosen
        /\ env' = env /\ saved' = saved /\ spoiled' = spoiled
    BY <1>3 DEF ReadLines
  <2>2. env \in Seq(AnyLines) /\ chosen \in Text
    BY DEF FileInv
  <2>3. buf' \in Seq(AnyLines)
    BY <2>1, <2>2, UpsertLines DEF Rewrites
  <2>4. Agreed(buf', chosen') /\ SameOthers(buf', env)
    BY <2>1, <2>2, UpsertAgreed, UpsertOthers
  <2>5. SameOthers(env, saved) => SameOthers(buf', saved)
    BY <2>4 DEF SameOthers
  <2> QED BY <2>1, <2>3, <2>4, <2>5 DEF FileInv
<1>4. CASE Truncate
  <2>1. /\ at = "write" /\ at' = "open" /\ env' = <<>> /\ chosen' = chosen
        /\ buf' = buf /\ saved' = saved /\ spoiled' = spoiled
    BY <1>4 DEF Truncate
  <2> QED BY <2>1, FilesType DEF FileInv
<1>5. CASE WriteText
  <2>1. /\ at = "open" /\ at' = "over" /\ buf' = <<>> /\ chosen' = chosen
        /\ saved' = saved /\ spoiled' = spoiled
    BY <1>5 DEF WriteText
  <2>2. CASE chosen # Absent
    <3>1. env' = buf
      BY <1>5, <2>2 DEF WriteText
    <3> QED BY <2>1, <2>2, <3>1, FilesType DEF FileInv
  <2>3. CASE chosen = Absent
    <3>1. env' \in Seq(AnyLines)
      BY <1>5, <2>3, MixedLines DEF WriteText, FileInv
    <3> QED BY <2>1, <2>3, <3>1, FilesType DEF FileInv
  <2> QED BY <2>2, <2>3
<1>6. CASE Interrupt
  BY <1>6, InterruptFile
<1>7. ASSUME NEW m \in Machines, Probe(m) \/ Select(m) PROVE FileInv'
  <2>1. CASE Probe(m)
    <3>1. /\ at' = at /\ chosen' = chosen
          /\ env' = env /\ buf' = buf /\ saved' = saved /\ spoiled' = spoiled
      BY <2>1 DEF Probe, file
    <3> QED BY <3>1 DEF FileInv
  <2>2. CASE Select(m)
    <3>1. /\ at = "report" /\ at' = "update" /\ chosen' = Ip[m]
          /\ env' = env /\ buf' = buf /\ saved' = saved /\ spoiled' = spoiled
      BY <2>2 DEF Select, file
    <3> QED BY <3>1, FilesType DEF FileInv
  <2> QED BY <1>7, <2>1, <2>2
<1>8. ASSUME NEW f \in Files, Save(f) PROVE FileInv'
  <2>1. /\ at' = at /\ env' = f /\ saved' = f /\ buf' = buf
        /\ chosen' = IF at \in {"over", "open"} THEN Absent ELSE chosen
    BY <1>8 DEF Save
  <2>2. f \in Seq(AnyLines) /\ SameOthers(f, f)
    BY FilesType DEF SameOthers
  <2>3. spoiled' \in BOOLEAN /\ (at \in {"write", "open"} => spoiled')
    BY <1>8 DEF Save
  <2>4. CASE at \in {"over", "open"}
    BY <2>1, <2>2, <2>3, <2>4, FilesType DEF FileInv
  <2>5. CASE at \notin {"over", "open"}
    BY <2>1, <2>2, <2>3, <2>5 DEF FileInv
  <2> QED BY <2>4, <2>5
<1>9. CASE UNCHANGED vars
  <2>1. /\ at' = at /\ chosen' = chosen
        /\ env' = env /\ buf' = buf /\ saved' = saved /\ spoiled' = spoiled
    BY <1>9 DEF vars
  <2> QED BY <2>1 DEF FileInv
<1> QED BY <1>1, <1>2, <1>3, <1>4, <1>5, <1>6, <1>7, <1>8, <1>9 DEF Next

\* However often a key stands in .env and in whatever form, parse_env and
\* read_env_value find what upsert_env wrote (or a line that only bash reads).
THEOREM ReadersFindIt == Spec => []ReadersAgree
<1>1. FileInv => ReadersAgree
  BY DEF FileInv, ReadersAgree, Agreed
<1> QED BY <1>1, InitFile, StepFile, PTL DEF Spec

\* upsert_env leaves every other key of .env as the operator saved it last, unless
\* the write was interrupted or an edit was saved while it was made.
THEOREM OthersStay == Spec => []OthersKept
<1>1. FileInv => OthersKept
  BY DEF FileInv, OthersKept, SameOthers
<1> QED BY <1>1, InitFile, StepFile, PTL DEF Spec
=============================================================================
