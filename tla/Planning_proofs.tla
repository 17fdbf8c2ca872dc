-------------------------- MODULE Planning_proofs --------------------------
(***************************************************************************)
(* Proofs about what is planned before anything is computed: the candidates *)
(* of a precheck and their networks, the grid and the front of a sweep, and *)
(* the tiles of an unwrapping.  They hold for every search, every axes and  *)
(* every scene that the assumptions of the modules admit.  The three share  *)
(* no variable, but the lemmas on induction and on what recursive functions *)
(* compute.                                                                 *)
(***************************************************************************)
EXTENDS Network, Sweep, UnwrapPlan,
        SequenceTheorems, FiniteSetTheorems, WellFoundedInduction, TLAPS

-----------------------------------------------------------------------------
(* Induction, iteration, folds and orders.                                  *)
(*                                                                          *)
(* A property of the numbers up to n is a set of them; a set that is not all *)
(* of them leaves out a least one (Climbs).  A function that is defined by  *)
(* what it was at the number before exists (IterationExists), and so do the *)
(* folds of the community modules, which are recursive functions on the     *)
(* subsets of 1 .. m, because they do for each m (FoldExists).              *)

\* Some numbers have a least one.
LEMMA LeastOf ==
    ASSUME NEW ages \in SUBSET Nat, ages # {}
    PROVE  \E x \in ages : \A y \in ages : x <= y
<1>1. PICK x \in ages : \A y \in ages : ~ (<<y, x>> \in OpToRel(<, Nat))
    BY NatLessThanWellFounded, WFMin
<1>2. \A y, z \in Nat : (y < z) => <<y, z>> \in OpToRel(<, Nat)
    BY DEF OpToRel
<1>3. \A y \in ages : ~(y < x)
    BY <1>1, <1>2
<1> QED
    BY <1>3

\* The earliest of some dates is one of them.
LEMMA EarliestIs ==
    ASSUME NEW S \in SUBSET Nat, S # {}
    PROVE  Min(S) \in S /\ Min(S) \in Nat /\ \A y \in S : Min(S) <= y
BY LeastOf DEF Min

\* A finite set has an element that none of its elements is before.
LEMMA FirstOfSome ==
    ASSUME NEW S, IsFiniteSet(S), S # {}, NEW R,
           \A x \in S : <<x, x>> \notin R,
           \A x, y, z \in S : <<x, y>> \in R /\ <<y, z>> \in R => <<x, z>> \in R
    PROVE  \E x \in S : \A y \in S : <<y, x>> \notin R
<1> DEFINE before == [x \in S |-> { y \in S : <<y, x>> \in R }]
           family == { before[x] : x \in S }
<1>1. family \subseteq FiniteSubsetsOf(S) /\ family # {}
    <2>1. \A x \in S : before[x] \subseteq S /\ IsFiniteSet(before[x])
        BY FS_Subset
    <2> HIDE DEF before
    <2>2. \A x \in S : before[x] \in FiniteSubsetsOf(S)
        BY <2>1 DEF FiniteSubsetsOf
    <2> QED
        BY <2>2
<1>2. PICK a \in family : \A b \in family : ~(<<b, a>> \in StrictSubsetOrdering(S))
    BY <1>1, FS_StrictSubsetOrderingWellFounded, WFMin
<1>3. PICK x \in S : a = before[x]
    BY <1>2
<1>4. ASSUME NEW y \in S, <<y, x>> \in R
      PROVE  FALSE
    <2>1. before[y] \subseteq before[x] /\ y \notin before[y] /\ y \in before[x]
        BY <1>4
    <2>2. before[y] \in family /\ before[y] # a
        BY <1>3, <2>1
    <2>3. <<before[y], a>> \in StrictSubsetOrdering(S)
        BY <1>3, <2>1, <2>2 DEF StrictSubsetOrdering
    <2> QED
        BY <1>2, <2>2, <2>3
<1> QED
    BY <1>4

\* Induction over 0 .. n, for a set.
LEMMA Climbs ==
    ASSUME NEW n \in Nat, NEW S, 0 \in S, \A k \in 0 .. n - 1 : k \in S => k + 1 \in S
    PROVE  \A k \in 0 .. n : k \in S
<1> SUFFICES ASSUME NEW j \in 0 .. n, j \notin S
             PROVE  FALSE
    OBVIOUS
<1> DEFINE out == (0 .. n) \ S
<1>1. out \in SUBSET Nat /\ out # {}
    OBVIOUS
<1>2. PICK k \in out : \A y \in out : k <= y
    <2> HIDE DEF out
    <2> QED
        BY <1>1, LeastOf
<1>3. k \in 1 .. n
    BY <1>2
<1>4. k - 1 \in S
    BY <1>2, <1>3
<1> QED
    BY <1>2, <1>3, <1>4

\* The largest number of an initial segment, and of a part of one.
LEMMA LastOfSegment ==
    ASSUME NEW k \in Nat \ {0}
    PROVE  Max(1 .. k) = k /\ (1 .. k) \ {k} = 1 .. (k - 1)
BY DEF Max

LEMMA LargestIs ==
    ASSUME NEW n \in Nat, NEW S \in SUBSET (1 .. n), S # {}
    PROVE  Max(S) \in S /\ \A y \in S : y <= Max(S)
<1> DEFINE out == { k \in 0 .. n : \A y \in S : y <= k }
<1>1. out \in SUBSET Nat /\ n \in out
    OBVIOUS
<1>2. PICK k \in out : \A y \in out : k <= y
    <2> HIDE DEF out
    <2> QED
        BY <1>1, LeastOf
<1>3. k \in S
    <2> SUFFICES ASSUME k \notin S
                 PROVE  FALSE
        OBVIOUS
    <2>1. \A y \in S : y <= k - 1 /\ k >= 1
        BY <1>2
    <2>2. k - 1 \in 0 .. n
        <3>1. k \in 0 .. n /\ k >= 1
            BY <1>2, <2>1
        <3> QED
            BY <3>1
    <2>3. k - 1 \in out
        BY <2>1, <2>2
    <2> QED
        BY <1>2, <2>3
<1> QED
    BY <1>2, <1>3 DEF Max

\* The steps of a fold from the left: what each of its parts folds to.
FoldSteps(m, A, b, f, h) ==
    /\ h \in [SUBSET (1 .. m) -> A]
    /\ \A S \in SUBSET (1 .. m) :
         h[S] = IF S = {} THEN b ELSE f[<<Max(S), h[S \ {Max(S)}]>>]

LEMMA FoldExists ==
    ASSUME NEW m \in Nat, NEW A, NEW b \in A, NEW f \in [(1 .. m) \X A -> A]
    PROVE  \E h : FoldSteps(m, A, b, f, h)
<1> DEFINE good == { k \in 0 .. m : \E h : FoldSteps(k, A, b, f, h) }
<1>1. 0 \in good
    <2> DEFINE h == [S \in SUBSET (1 .. 0) |-> b]
    <2>1. FoldSteps(0, A, b, f, h)
        <3>1. \A S \in SUBSET (1 .. 0) : S = {}
            OBVIOUS
        <3> QED
            BY <3>1 DEF FoldSteps
    <2> QED
        BY <2>1
<1>2. ASSUME NEW k \in 0 .. m - 1, k \in good
      PROVE  k + 1 \in good
    <2>1. PICK h : FoldSteps(k, A, b, f, h)
        BY <1>2
    <2> DEFINE t == k + 1
               g == [S \in SUBSET (1 .. t) |->
                       IF t \in S THEN f[<<t, h[S \ {t}]>>] ELSE h[S]]
    <2>2. \A S \in SUBSET (1 .. t) : S \ {t} \in SUBSET (1 .. k) /\ (t \notin S => S \in SUBSET (1 .. k))
        OBVIOUS
    <2>3. g \in [SUBSET (1 .. t) -> A]
        BY <2>1, <2>2 DEF FoldSteps
    <2>4. ASSUME NEW S \in SUBSET (1 .. t)
          PROVE  g[S] = IF S = {} THEN b ELSE f[<<Max(S), g[S \ {Max(S)}]>>]
        <3>1. CASE t \in S
            <4>1. Max(S) = t
                <5>1. S # {} /\ t \in Nat
                    BY <3>1
                <5>2. Max(S) \in S /\ \A y \in S : y <= Max(S)
                    BY <5>1, LargestIs
                <5>3. Max(S) \in 1 .. t /\ t <= Max(S)
                    BY <3>1, <5>2
                <5> QED
                    BY <5>1, <5>3
            <4>2. g[S \ {t}] = h[S \ {t}]
                BY <2>2
            <4> QED
                BY <3>1, <4>1, <4>2
        <3>2. CASE t \notin S /\ S # {}
            <4>1. S \in SUBSET (1 .. k)
                BY <2>2, <3>2
            <4>2. Max(S) \in S
                <5>1. S # {} /\ t \in Nat
                    BY <3>2
                <5> QED
                    BY <5>1, LargestIs
            <4>3. g[S] = h[S] /\ g[S \ {Max(S)}] = h[S \ {Max(S)}]
                BY <3>2
            <4> QED
                BY <2>1, <3>2, <4>1, <4>2, <4>3 DEF FoldSteps
        <3>3. CASE S = {}
            BY <2>1, <3>3 DEF FoldSteps
        <3> QED
            BY <3>1, <3>2, <3>3
    <2>5. FoldSteps(t, A, b, f, g)
        BY <2>3, <2>4 DEF FoldSteps
    <2>6. \E gg : FoldSteps(t, A, b, f, gg)
        BY <2>5
    <2> QED
        BY <2>6
<1>3. m \in good
    <2> HIDE DEF good
    <2> QED
        BY <1>1, <1>2, Climbs
<1> QED
    BY <1>3

LEMMA DivRest ==
    ASSUME NEW a \in Nat, NEW b \in Nat \ {0}
    PROVE  /\ a \div b \in Nat /\ a % b \in 0 .. b - 1
           /\ a = b * (a \div b) + (a % b)
OBVIOUS

\* Products of naturals.
LEMMA Scaled ==
    ASSUME NEW k \in Nat \ {0}, NEW x \in Int, NEW y \in Int
    PROVE  /\ x <= y => k * x <= k * y
           /\ x < y => k * x + k <= k * y
           /\ k * x <= k * y => x <= y
           /\ k * x \in Int /\ k * y \in Int
<1>1. \A z \in Int : z >= 0 => k * z >= 0
    OBVIOUS
<1>2. k * (y - x) = k * y - k * x /\ k * (y - x - 1) = k * y - k * x - k
    OBVIOUS
<1>3. k * (x - y - 1) = k * x - k * y - k
    OBVIOUS
<1>4. x <= y => k * x <= k * y
    BY <1>1, <1>2
<1>5. x < y => k * x + k <= k * y
    BY <1>1, <1>2
<1>6. k * x <= k * y => x <= y
    BY <1>1, <1>3
<1> QED
    BY <1>4, <1>5, <1>6

\* A function that is applied again and again.
Chain(n, b, f, c) == c[0] = b /\ \A k \in 1 .. n : c[k] = f[c[k - 1]]

\* Two such chains agree as far as both go.
LEMMA ChainIsOne ==
    ASSUME NEW n \in Nat, NEW b, NEW f, NEW m \in Nat, m >= n,
           NEW c, Chain(n, b, f, c), NEW e, Chain(m, b, f, e)
    PROVE  c[n] = e[n]
<1> DEFINE same == { k \in 0 .. n : c[k] = e[k] }
<1>1. 0 \in same
    BY DEF Chain
<1>2. ASSUME NEW k \in 0 .. n - 1, k \in same
      PROVE  k + 1 \in same
    <2>1. k + 1 \in 1 .. n /\ k + 1 \in 1 .. m /\ (k + 1) - 1 = k
        OBVIOUS
    <2>2. c[k + 1] = f[c[k]] /\ e[k + 1] = f[e[k]]
        BY <2>1 DEF Chain
    <2> QED
        BY <1>2, <2>1, <2>2
<1>3. n \in same
    <2> HIDE DEF same
    <2>1. \A k \in 0 .. n : k \in same
        BY <1>1, <1>2, Climbs
    <2> QED
        BY <2>1
<1> QED
    BY <1>3

\* There is one of any length.
LEMMA ChainExists ==
    ASSUME NEW A, NEW b \in A, NEW f \in [A -> A], NEW n \in Nat
    PROVE  \E c \in [0 .. n -> A] : Chain(n, b, f, c)
<1> DEFINE good == { k \in 0 .. n : \E c \in [0 .. k -> A] : Chain(k, b, f, c) }
<1>1. 0 \in good
    <2> DEFINE c == [k \in 0 .. 0 |-> b]
    <2>1. c \in [0 .. 0 -> A] /\ Chain(0, b, f, c)
        BY DEF Chain
    <2> QED
        BY <2>1
<1>2. ASSUME NEW k \in 0 .. n - 1, k \in good
      PROVE  k + 1 \in good
    <2>1. PICK c \in [0 .. k -> A] : Chain(k, b, f, c)
        BY <1>2
    <2> DEFINE e == [j \in 0 .. (k + 1) |-> IF j = k + 1 THEN f[c[k]] ELSE c[j]]
    <2>2. k \in Nat /\ c[k] \in A
        BY <2>1
    <2>3. e \in [0 .. (k + 1) -> A]
        BY <2>1, <2>2
    <2>4. e[k + 1] = f[c[k]] /\ \A j \in 0 .. k : e[j] = c[j]
        BY <2>2
    <2>5. Chain(k + 1, b, f, e)
        <3> HIDE DEF e
        <3>1. e[0] = b
            BY <2>1, <2>2, <2>4 DEF Chain
        <3>2. ASSUME NEW j \in 1 .. (k + 1)
              PROVE  e[j] = f[e[j - 1]]
            <4>1. CASE j = k + 1
                <5>1. e[j - 1] = c[k]
                    BY <2>2, <2>4, <4>1
                <5> QED
                    BY <2>4, <4>1, <5>1
            <4>2. CASE j # k + 1
                <5>1. j \in 1 .. k /\ j - 1 \in 0 .. k /\ j \in 0 .. k
                    BY <2>2, <4>2
                <5>2. e[j] = c[j] /\ e[j - 1] = c[j - 1]
                    BY <2>4, <5>1
                <5> QED
                    BY <2>1, <5>1, <5>2 DEF Chain
            <4> QED
                BY <4>1, <4>2
        <3> QED
            BY <3>1, <3>2 DEF Chain
    <2>6. \E x \in [0 .. (k + 1) -> A] : Chain(k + 1, b, f, x)
        BY <2>3, <2>5
    <2> QED
        BY <2>6
<1>3. n \in good
    <2> HIDE DEF good
    <2>1. \A k \in 0 .. n : k \in good
        BY <1>1, <1>2, Climbs
    <2> QED
        BY <2>1
<1> QED
    BY <1>3

\* And so the function that goes on for ever.
LEMMA IterationExists ==
    ASSUME NEW A, NEW b \in A, NEW f \in [A -> A]
    PROVE  \E u \in [Nat -> A] :
             /\ u[0] = b /\ \A n \in Nat \ {0} : u[n] = f[u[n - 1]]
             /\ u = [n \in Nat |-> IF n = 0 THEN b ELSE f[u[n - 1]]]
<1> DEFINE C(n) == CHOOSE c \in [0 .. n -> A] : Chain(n, b, f, c)
           u == [n \in Nat |-> C(n)[n]]
<1>1. \A n \in Nat : C(n) \in [0 .. n -> A] /\ Chain(n, b, f, C(n))
    BY ChainExists
<1> HIDE DEF C
<1>2. u \in [Nat -> A]
    BY <1>1
<1>3. u[0] = b
    BY <1>1 DEF Chain
<1>4. ASSUME NEW n \in Nat \ {0}
      PROVE  u[n] = f[u[n - 1]]
    <2>1. n - 1 \in Nat /\ n \in Nat /\ n >= n - 1 /\ n \in 1 .. n
        OBVIOUS
    <2>2. C(n)[n] = f[C(n)[n - 1]]
        BY <1>1, <2>1 DEF Chain
    <2>3. C(n - 1)[n - 1] = C(n)[n - 1]
        BY <1>1, <2>1, ChainIsOne
    <2> QED
        BY <2>1, <2>2, <2>3
<1> HIDE DEF u
<1>5. u = [n \in Nat |-> IF n = 0 THEN b ELSE f[u[n - 1]]]
    <2>1. u = [n \in Nat |-> u[n]]
        BY <1>2
    <2>2. \A n \in Nat : u[n] = IF n = 0 THEN b ELSE f[u[n - 1]]
        BY <1>3, <1>4
    <2> QED
        BY <2>1, <2>2
<1> QED
    BY <1>2, <1>3, <1>4, <1>5

-----------------------------------------------------------------------------
(* The network: what a candidate says of it is true of its pairs.           *)
(*                                                                          *)
(* A candidate is its rectangle with the network that its dates and the     *)
(* method give, or with what the baselines make of that network (NetInv).   *)
(* Everything else is about the operators.  A set is listed in one order    *)
(* only (InOrderOnly), and a part of a list in the order of the list        *)
(* (ThoseInOrder): dropping pairs gives the list that would have been built *)
(* (DroppedAtOnce).  Union-find keeps a forest whose paths are shorter than *)
(* there are dates, so that the root of a date is found (Forest,            *)
(* RootIsFound); two dates have one root when every set that pairs do not   *)
(* leave has both or neither (ClassesAreFound), and Connected is the least  *)
(* such set (ConnectedIs).  Every path of pairs adds up to the difference of *)
(* the baselines at its ends (WaveAdds).                                    *)

\* A relation that orders a set.
Ordering(S, R) ==
    /\ \A x \in S : <<x, x>> \notin R
    /\ \A x, y, z \in S : <<x, y>> \in R /\ <<y, z>> \in R => <<x, z>> \in R
    /\ \A x, y \in S : x # y => <<x, y>> \in R \/ <<y, x>> \in R

\* An element of a finite set is at one more than how many are before it.
LEMMA PlacesAre ==
    ASSUME NEW S, IsFiniteSet(S), NEW R, Ordering(S, R)
    PROVE  /\ Cardinality(S) \in Nat
           /\ \A x \in S : Cardinality({ y \in S : <<y, x>> \in R }) \in 0 .. Cardinality(S) - 1
           /\ \A x, y \in S : <<x, y>> \in R =>
                Cardinality({ z \in S : <<z, x>> \in R }) < Cardinality({ z \in S : <<z, y>> \in R })
           /\ \A i \in 1 .. Cardinality(S) :
                \E x \in S : Cardinality({ y \in S : <<y, x>> \in R }) = i - 1
<1> DEFINE n == Cardinality(S)
           B(x) == { y \in S : <<y, x>> \in R }
           place == [x \in S |-> Cardinality(B(x)) + 1]
<1>1. n \in Nat
    BY FS_CardinalityType
<1>2. \A x \in S : IsFiniteSet(B(x)) /\ Cardinality(B(x)) \in Nat
    BY FS_Subset, FS_CardinalityType
<1>3. ASSUME NEW x \in S
      PROVE  Cardinality(B(x)) \in 0 .. n - 1
    <2>1. B(x) \subseteq S \ {x}
        BY DEF Ordering
    <2>2. IsFiniteSet(S \ {x}) /\ Cardinality(S \ {x}) = n - 1
        BY FS_RemoveElement
    <2>3. Cardinality(B(x)) <= n - 1
        <3> HIDE DEF B
        <3> QED
            BY <2>1, <2>2, FS_Subset
    <2> QED
        BY <1>1, <1>2, <2>3
<1>4. ASSUME NEW x \in S, NEW y \in S, <<x, y>> \in R
      PROVE  Cardinality(B(x)) < Cardinality(B(y))
    <2>1. B(x) \subseteq B(y) /\ x \in B(y) /\ x \notin B(x)
        BY <1>4 DEF Ordering
    <2>2. Cardinality(B(x)) <= Cardinality(B(y)) /\ Cardinality(B(x)) # Cardinality(B(y))
        BY <1>2, <2>1, FS_Subset
    <2> QED
        BY <1>2, <2>2
<1>5. place \in Injection(S, 1 .. n)
    <2>1. place \in [S -> 1 .. n]
        BY <1>1, <1>3
    <2>2. ASSUME NEW x \in S, NEW y \in S, x # y
          PROVE  place[x] # place[y]
        <3>1. <<x, y>> \in R \/ <<y, x>> \in R
            BY <2>2 DEF Ordering
        <3>2. Cardinality(B(x)) # Cardinality(B(y)) /\ Cardinality(B(x)) \in Nat
              /\ Cardinality(B(y)) \in Nat
            <4> HIDE DEF B
            <4> QED
                BY <1>2, <1>4, <3>1
        <3> HIDE DEF B
        <3> QED
            BY <3>2
    <2> QED
        BY <2>1, <2>2 DEF Injection, IsInjective
<1>6. IsFiniteSet(1 .. n) /\ Cardinality(1 .. n) = n
    BY <1>1, FS_Interval
<1>7. place \in Surjection(S, 1 .. n)
    <2> HIDE DEF place
    <2> QED
        BY <1>5, <1>6, FS_Injection
<1>8. ASSUME NEW i \in 1 .. n
      PROVE  \E x \in S : Cardinality(B(x)) = i - 1
    <2>1. PICK x \in S : place[x] = i
        BY <1>7 DEF Surjection
    <2>2. Cardinality(B(x)) + 1 = i /\ Cardinality(B(x)) \in Nat
        BY <1>2, <2>1
    <2> HIDE DEF B
    <2>3. Cardinality(B(x)) = i - 1
        BY <2>2
    <2> QED
        BY <2>3
<1> QED
    BY <1>1, <1>3, <1>4, <1>8

\* What InOrder lists: all of the set, each before those it is before.
LEMMA InOrderIs ==
    ASSUME NEW S, IsFiniteSet(S), NEW R, Ordering(S, R)
    PROVE  /\ Cardinality(S) \in Nat
           /\ InOrder(S, R) \in [1 .. Cardinality(S) -> S]
           /\ Range(InOrder(S, R)) = S
           /\ \A i, j \in 1 .. Cardinality(S) :
                i < j => <<InOrder(S, R)[i], InOrder(S, R)[j]>> \in R
<1> DEFINE n == Cardinality(S)
           Before(x) == Cardinality({ y \in S : <<y, x>> \in R })
           q == InOrder(S, R)
<1>1. n \in Nat /\ (\A x \in S : Before(x) \in 0 .. n - 1)
      /\ (\A x, y \in S : <<x, y>> \in R => Before(x) < Before(y))
      /\ \A i \in 1 .. n : \E x \in S : Before(x) = i - 1
    <2>1. n \in Nat
        BY PlacesAre
    <2>2. (\A x \in S : Before(x) \in 0 .. n - 1)
        BY PlacesAre
    <2>3. \A x, y \in S : <<x, y>> \in R => Before(x) < Before(y)
        BY PlacesAre
    <2>4. \A i \in 1 .. n : \E x \in S : Before(x) = i - 1
        <3> SUFFICES ASSUME NEW i \in 1 .. n
                     PROVE  \E x \in S : Before(x) = i - 1
            OBVIOUS
        <3>1. \E x \in S : Cardinality({ y \in S : <<y, x>> \in R }) = i - 1
            BY PlacesAre
        <3> QED
            BY <3>1
    <2> QED
        BY <2>1, <2>2, <2>3, <2>4
<1>2. q = [i \in 1 .. n |-> CHOOSE x \in S : Before(x) = i - 1]
    BY DEF InOrder
<1> HIDE DEF Before, q
<1>3. \A i \in 1 .. n : q[i] \in S /\ Before(q[i]) = i - 1
    <2> SUFFICES ASSUME NEW i \in 1 .. n
                 PROVE  q[i] \in S /\ Before(q[i]) = i - 1
        OBVIOUS
    <2>1. q[i] = CHOOSE x \in S : Before(x) = i - 1
        BY <1>2
    <2>2. \E x \in S : Before(x) = i - 1
        BY <1>1
    <2> QED
        BY <2>1, <2>2
<1>4. q \in [1 .. n -> S]
    BY <1>2, <1>3
<1>5. \A x, y \in S : Before(x) < Before(y) => <<x, y>> \in R
    <2> SUFFICES ASSUME NEW x \in S, NEW y \in S, Before(x) < Before(y)
                 PROVE  <<x, y>> \in R
        OBVIOUS
    <2>1. Before(x) \in Nat /\ Before(y) \in Nat
        BY <1>1
    <2>2. x # y /\ ~(Before(y) < Before(x))
        BY <2>1
    <2> QED
        BY <1>1, <2>2 DEF Ordering
<1>6. \A i, j \in 1 .. n : i < j => <<q[i], q[j]>> \in R
    <2> SUFFICES ASSUME NEW i \in 1 .. n, NEW j \in 1 .. n, i < j
                 PROVE  <<q[i], q[j]>> \in R
        OBVIOUS
    <2>1. Before(q[i]) < Before(q[j])
        BY <1>1, <1>3
    <2> QED
        BY <1>3, <1>5, <2>1
<1>7. \A x \in S : \E i \in 1 .. n : q[i] = x
    <2> SUFFICES ASSUME NEW x \in S
                 PROVE  \E i \in 1 .. n : q[i] = x
        OBVIOUS
    <2>1. Before(x) + 1 \in 1 .. n /\ Before(x) \in Nat
        BY <1>1
    <2>2. q[Before(x) + 1] \in S /\ Before(q[Before(x) + 1]) = Before(x)
        BY <1>3, <2>1
    <2>3. q[Before(x) + 1] = x
        <3> SUFFICES ASSUME q[Before(x) + 1] # x
                     PROVE  FALSE
            OBVIOUS
        <3>1. <<q[Before(x) + 1], x>> \in R \/ <<x, q[Before(x) + 1]>> \in R
            BY <2>2 DEF Ordering
        <3>2. Before(x) < Before(x)
            BY <1>1, <2>2, <3>1
        <3> QED
            BY <2>1, <3>2
    <2> QED
        BY <2>1, <2>3
<1>8. Range(q) = S
    BY <1>4, <1>7 DEF Range
<1> QED
    BY <1>1, <1>4, <1>6, <1>8 DEF q

\* There is one such list.
LEMMA InOrderOnly ==
    ASSUME NEW S, IsFiniteSet(S), NEW R, Ordering(S, R),
           NEW n \in Nat, NEW s \in [1 .. n -> S], Range(s) = S,
           \A i, j \in 1 .. n : i < j => <<s[i], s[j]>> \in R
    PROVE  s = InOrder(S, R) /\ n = Cardinality(S)
<1> DEFINE Before(x) == Cardinality({ y \in S : <<y, x>> \in R })
           q == InOrder(S, R)
<1>1. \A i, j \in 1 .. n : s[i] = s[j] => i = j
    <2> SUFFICES ASSUME NEW i \in 1 .. n, NEW j \in 1 .. n, s[i] = s[j], i # j
                 PROVE  FALSE
        OBVIOUS
    <2>1. i < j \/ j < i
        OBVIOUS
    <2>2. <<s[i], s[i]>> \in R
        BY <2>1
    <2> QED
        BY <2>2 DEF Ordering
<1>2. s \in Bijection(1 .. n, S)
    BY <1>1 DEF Bijection, Injection, Surjection, IsInjective, Range
<1>3. n = Cardinality(S)
    <2>1. ExistsBijection(1 .. n, S)
        BY <1>2 DEF ExistsBijection
    <2> QED
        BY <2>1, FS_CountingElements
<1>4. ASSUME NEW i \in 1 .. n
      PROVE  Before(s[i]) = i - 1
    <2> DEFINE b == { y \in S : <<y, s[i]>> \in R }
               h == [j \in 1 .. (i - 1) |-> s[j]]
    <2>1. \A j \in 1 .. n : <<s[j], s[i]>> \in R => j < i
        <3> SUFFICES ASSUME NEW j \in 1 .. n, <<s[j], s[i]>> \in R, ~(j < i)
                     PROVE  FALSE
            OBVIOUS
        <3>1. j = i \/ i < j
            OBVIOUS
        <3>2. <<s[i], s[i]>> \in R
            BY <3>1 DEF Ordering
        <3> QED
            BY <3>2 DEF Ordering
    <2>2. \A x \in S : \E j \in 1 .. n : s[j] = x
        BY DEF Range
    <2>3. h \in Bijection(1 .. (i - 1), b)
        <3>1. \A j \in 1 .. (i - 1) : h[j] \in b /\ h[j] = s[j] /\ j \in 1 .. n
            OBVIOUS
        <3>2. \A x \in b : \E j \in 1 .. (i - 1) : h[j] = x
            BY <2>1, <2>2
        <3>3. h \in [1 .. (i - 1) -> b]
            BY <3>1
        <3>4. \A j, k \in 1 .. (i - 1) : h[j] = h[k] => j = k
            BY <1>1, <3>1
        <3> HIDE DEF h, b
        <3> QED
            BY <3>2, <3>3, <3>4 DEF Bijection, Injection, Surjection, IsInjective
    <2>4. ExistsBijection(1 .. (i - 1), b) /\ i - 1 \in Nat
        <3> HIDE DEF b, h
        <3> QED
            BY <2>3 DEF ExistsBijection
    <2>5. Cardinality(b) = i - 1
        BY <2>4, FS_CountingElements
    <2> QED
        BY <2>5
<1>5. \A x, y \in S : Before(x) = Before(y) => x = y
    <2> SUFFICES ASSUME NEW x \in S, NEW y \in S, Before(x) = Before(y), x # y
                 PROVE  FALSE
        OBVIOUS
    <2>1. Before(x) \in Nat /\ Before(y) \in Nat
        BY PlacesAre
    <2>2. Before(x) < Before(y) \/ Before(y) < Before(x)
        <3>1. <<x, y>> \in R \/ <<y, x>> \in R
            BY DEF Ordering
        <3> QED
            BY <3>1, PlacesAre
    <2> HIDE DEF Before
    <2> QED
        BY <2>1, <2>2
<1>6. q = [i \in 1 .. n |-> CHOOSE x \in S : Before(x) = i - 1]
    BY <1>3 DEF InOrder
<1> HIDE DEF Before, q
<1>7. \A i \in 1 .. n : q[i] = s[i]
    <2> SUFFICES ASSUME NEW i \in 1 .. n
                 PROVE  q[i] = s[i]
        OBVIOUS
    <2>1. q[i] = CHOOSE x \in S : Before(x) = i - 1
        BY <1>6
    <2>2. s[i] \in S /\ Before(s[i]) = i - 1
        BY <1>4
    <2>3. q[i] \in S /\ Before(q[i]) = i - 1
        BY <2>1, <2>2
    <2> QED
        BY <1>5, <2>2, <2>3
<1>8. s = q
    BY <1>6, <1>7
<1> QED
    BY <1>3, <1>8 DEF q

\* Numbers in their order.
LEMMA SortedIs ==
    ASSUME NEW K \in SUBSET Int, IsFiniteSet(K)
    PROVE  /\ Cardinality(K) \in Nat
           /\ Sorted(K) \in [1 .. Cardinality(K) -> K]
           /\ Range(Sorted(K)) = K
           /\ \A i, j \in 1 .. Cardinality(K) : i < j => Sorted(K)[i] < Sorted(K)[j]
<1> DEFINE R == { p \in K \X K : p[1] < p[2] }
<1>1. \A x, y \in K : <<x, y>> \in R <=> x < y
    OBVIOUS
<1>2. Sorted(K) = InOrder(K, R)
    BY DEF Sorted
<1> HIDE DEF R
<1>3. Ordering(K, R)
    BY <1>1 DEF Ordering
<1>4. /\ Cardinality(K) \in Nat
      /\ InOrder(K, R) \in [1 .. Cardinality(K) -> K]
      /\ Range(InOrder(K, R)) = K
      /\ \A i, j \in 1 .. Cardinality(K) :
           i < j => <<InOrder(K, R)[i], InOrder(K, R)[j]>> \in R
    BY <1>3, InOrderIs
<1>5. ASSUME NEW i \in 1 .. Cardinality(K), NEW j \in 1 .. Cardinality(K), i < j
      PROVE  Sorted(K)[i] < Sorted(K)[j]
    BY <1>1, <1>2, <1>4, <1>5
<1> QED
    BY <1>2, <1>4, <1>5

\* What is at some indexes of a list.
LEMMA ThoseAre ==
    ASSUME NEW n \in Nat, NEW s, DOMAIN s = 1 .. n, NEW K \in SUBSET (1 .. n)
    PROVE  /\ Cardinality(K) \in Nat /\ DOMAIN Those(s, K) = 1 .. Cardinality(K)
           /\ Those(s, K) = [i \in 1 .. Cardinality(K) |-> s[Sorted(K)[i]]]
           /\ Sorted(K) \in [1 .. Cardinality(K) -> K]
           /\ Range(Those(s, K)) = { s[k] : k \in K }
<1>1. IsFiniteSet(K) /\ K \in SUBSET Int
    <2>1. IsFiniteSet(1 .. n)
        BY FS_Interval
    <2>2. IsFiniteSet(K)
        BY <2>1, FS_Subset
    <2> QED
        BY <2>2
<1>2. Cardinality(K) \in Nat /\ Sorted(K) \in [1 .. Cardinality(K) -> K] /\ Range(Sorted(K)) = K
    BY <1>1, SortedIs
<1>3. Those(s, K) = [i \in 1 .. Cardinality(K) |-> s[Sorted(K)[i]]]
    BY <1>2 DEF Those
<1>4. \A k \in K : \E i \in 1 .. Cardinality(K) : Sorted(K)[i] = k
    BY <1>2 DEF Range
<1>5. Range(Those(s, K)) = { s[k] : k \in K }
    <2>1. \A i \in 1 .. Cardinality(K) : Those(s, K)[i] = s[Sorted(K)[i]] /\ Sorted(K)[i] \in K
        BY <1>2, <1>3
    <2>2. DOMAIN Those(s, K) = 1 .. Cardinality(K)
        BY <1>3
    <2>3. \A x \in Range(Those(s, K)) : \E k \in K : x = s[k]
        BY <2>1, <2>2 DEF Range
    <2>4. \A k \in K : s[k] \in Range(Those(s, K))
        BY <1>4, <2>1, <2>2 DEF Range
    <2> QED
        BY <2>3, <2>4
<1> QED
    BY <1>2, <1>3, <1>5

\* What is left of a list that is in order, is in order.
LEMMA ThoseInOrder ==
    ASSUME NEW S, IsFiniteSet(S), NEW R, Ordering(S, R),
           NEW K \in SUBSET (1 .. Cardinality(S)),
           NEW T, T = { InOrder(S, R)[k] : k \in K },
           NEW Q, \A x, y \in T : <<x, y>> \in Q <=> <<x, y>> \in R
    PROVE  Those(InOrder(S, R), K) = InOrder(T, Q) /\ Cardinality(K) = Cardinality(T)
<1> DEFINE s == InOrder(S, R)
           n == Cardinality(S)
           m == Cardinality(K)
           t == Those(s, K)
<1>1. /\ n \in Nat /\ s \in [1 .. n -> S]
      /\ \A i, j \in 1 .. n : i < j => <<s[i], s[j]>> \in R
    BY InOrderIs
<1> HIDE DEF s
<1>2. /\ m \in Nat /\ DOMAIN t = 1 .. m
      /\ t = [i \in 1 .. m |-> s[Sorted(K)[i]]]
      /\ Sorted(K) \in [1 .. m -> K]
      /\ Range(t) = { s[k] : k \in K }
    <2> HIDE DEF n
    <2>1. DOMAIN s = 1 .. n
        BY <1>1
    <2> QED
        BY <1>1, <2>1, ThoseAre DEF n
<1>3. \A i, j \in 1 .. m : i < j => Sorted(K)[i] < Sorted(K)[j]
    <2>1. IsFiniteSet(1 .. n)
        <3> HIDE DEF n, m, t
        <3>1. n \in Int
            BY <1>1
        <3> QED
            BY <3>1, FS_Interval
    <2>2. IsFiniteSet(K)
        BY <2>1, FS_Subset
    <2>3. K \in SUBSET Int
        BY <1>1
    <2> QED
        BY <2>2, <2>3, SortedIs
<1> HIDE DEF n, m, t
<1>4. T \subseteq S /\ Range(t) = T
    BY <1>1, <1>2 DEF s, n
<1>5. IsFiniteSet(T)
    BY <1>4, FS_Subset
<1>6. Ordering(T, Q)
    BY <1>4 DEF Ordering
<1>7. t \in [1 .. m -> T]
    BY <1>2, <1>4 DEF Range
<1>8. ASSUME NEW i \in 1 .. m, NEW j \in 1 .. m, i < j
      PROVE  <<t[i], t[j]>> \in Q
    <2>1. Sorted(K)[i] \in 1 .. n /\ Sorted(K)[j] \in 1 .. n /\ Sorted(K)[i] < Sorted(K)[j]
        BY <1>2, <1>3, <1>8 DEF n
    <2>2. <<s[Sorted(K)[i]], s[Sorted(K)[j]]>> \in R
        BY <1>1, <2>1
    <2>3. t[i] = s[Sorted(K)[i]] /\ t[j] = s[Sorted(K)[j]] /\ t[i] \in T /\ t[j] \in T
        BY <1>2, <1>7
    <2> QED
        BY <2>2, <2>3
<1>9. t = InOrder(T, Q) /\ m = Cardinality(T)
    <2>1. m \in Nat /\ Range(t) = T
        BY <1>2, <1>4
    <2>2. \A i, j \in 1 .. m : i < j => <<t[i], t[j]>> \in Q
        BY <1>8
    <2> QED
        BY <1>5, <1>6, <1>7, <2>1, <2>2, InOrderOnly
<1> QED
    BY <1>9 DEF m, t, s

\* The pairs of a network, and what dropping some of them leaves.
Lexicographic(P) == { r \in P \X P : \/ r[1][1] < r[2][1]
                                     \/ r[1][1] = r[2][1] /\ r[1][2] < r[2][2] }

\* Pairs of dates are ordered by the first, then by the second.
LEMMA PairsAreOrdered ==
    ASSUME NEW P \in SUBSET (Int \X Int)
    PROVE  /\ Ordering(P, Lexicographic(P))
           /\ \A T \in SUBSET P : \A x, y \in T :
                <<x, y>> \in Lexicographic(T) <=> <<x, y>> \in Lexicographic(P)
<1>1. \A T : \A x, y \in T :
        <<x, y>> \in Lexicographic(T) <=> x[1] < y[1] \/ (x[1] = y[1] /\ x[2] < y[2])
    <2> SUFFICES ASSUME NEW T, NEW x \in T, NEW y \in T
                 PROVE  <<x, y>> \in Lexicographic(T)
                          <=> x[1] < y[1] \/ (x[1] = y[1] /\ x[2] < y[2])
        OBVIOUS
    <2> DEFINE r == <<x, y>>
    <2>1. r \in T \X T /\ r[1] = x /\ r[2] = y
        OBVIOUS
    <2>2. r \in Lexicographic(T)
            <=> r \in T \X T /\ (r[1][1] < r[2][1] \/ (r[1][1] = r[2][1] /\ r[1][2] < r[2][2]))
        <3> HIDE DEF r
        <3> QED
            BY DEF Lexicographic
    <2> HIDE DEF r
    <2>3. r \in Lexicographic(T) <=> x[1] < y[1] \/ (x[1] = y[1] /\ x[2] < y[2])
        BY <2>1, <2>2
    <2> QED
        BY <2>3 DEF r
<1>2. \A x \in P : x[1] \in Int /\ x[2] \in Int /\ x = <<x[1], x[2]>>
    OBVIOUS
<1>3. Ordering(P, Lexicographic(P))
    <2>1. \A x \in P : <<x, x>> \notin Lexicographic(P)
        BY <1>1, <1>2
    <2>2. ASSUME NEW x \in P, NEW y \in P, NEW z \in P,
                 <<x, y>> \in Lexicographic(P), <<y, z>> \in Lexicographic(P)
          PROVE  <<x, z>> \in Lexicographic(P)
        <3>1. x[1] < y[1] \/ (x[1] = y[1] /\ x[2] < y[2])
            BY <1>1, <2>2
        <3>2. y[1] < z[1] \/ (y[1] = z[1] /\ y[2] < z[2])
            BY <1>1, <2>2
        <3>3. x[1] < z[1] \/ (x[1] = z[1] /\ x[2] < z[2])
            BY <1>2, <3>1, <3>2
        <3> QED
            BY <1>1, <3>3
    <2>3. ASSUME NEW x \in P, NEW y \in P, x # y
          PROVE  <<x, y>> \in Lexicographic(P) \/ <<y, x>> \in Lexicographic(P)
        <3>1. x[1] # y[1] \/ x[2] # y[2]
            BY <1>2, <2>3
        <3>2. \/ x[1] < y[1] \/ (x[1] = y[1] /\ x[2] < y[2])
              \/ y[1] < x[1] \/ (y[1] = x[1] /\ y[2] < x[2])
            BY <1>2, <3>1
        <3> QED
            BY <1>1, <3>2
    <2> QED
        BY <2>1, <2>2, <2>3 DEF Ordering
<1>4. \A T \in SUBSET P : \A x, y \in T :
         <<x, y>> \in Lexicographic(T) <=> <<x, y>> \in Lexicographic(P)
    BY <1>1
<1> QED
    BY <1>3, <1>4

\* A list of pairs of dates, and the lists that parts of it are.
LEMMA ListedAre ==
    ASSUME NEW P \in SUBSET (Int \X Int), IsFiniteSet(P)
    PROVE  /\ Cardinality(P) \in Nat
           /\ Listed(P) \in [1 .. Cardinality(P) -> P] /\ Range(Listed(P)) = P
           /\ \A K \in SUBSET (1 .. Cardinality(P)) :
                Those(Listed(P), K) = Listed({ Listed(P)[k] : k \in K })
<1>1. \A S : Listed(S) = InOrder(S, Lexicographic(S))
    BY DEF Listed, Lexicographic
<1>2. /\ Cardinality(P) \in Nat
      /\ Listed(P) \in [1 .. Cardinality(P) -> P] /\ Range(Listed(P)) = P
    BY <1>1, PairsAreOrdered, InOrderIs
<1>3. ASSUME NEW K \in SUBSET (1 .. Cardinality(P))
      PROVE  Those(Listed(P), K) = Listed({ Listed(P)[k] : k \in K })
    <2> DEFINE T == { Listed(P)[k] : k \in K }
    <2>1. T \in SUBSET P
        BY <1>2
    <2>2. T = { InOrder(P, Lexicographic(P))[k] : k \in K }
        BY <1>1
    <2> HIDE DEF T
    <2>3. \A x, y \in T : <<x, y>> \in Lexicographic(T) <=> <<x, y>> \in Lexicographic(P)
        BY <2>1, PairsAreOrdered
    <2>4. Ordering(P, Lexicographic(P))
        BY PairsAreOrdered
    <2>5. Those(InOrder(P, Lexicographic(P)), K) = InOrder(T, Lexicographic(T))
        BY <2>2, <2>3, <2>4, ThoseInOrder
    <2>6. Those(Listed(P), K) = Listed(T)
        BY <1>1, <2>5
    <2> QED
        BY <2>6 DEF T
<1> QED
    BY <1>2, <1>3

Baselines == [Days -> Int \union {Unknown}]

\* A pair has its dates, the earlier first, and the difference of their baselines
\* when both are known.
LEMMA PairIs ==
    ASSUME NEW d \in Days, NEW e \in Days, d < e, NEW perp \in Baselines
    PROVE  /\ PairOf(d, e, perp).ref = d /\ PairOf(d, e, perp).sec = e
           /\ IF perp[d] = Unknown \/ perp[e] = Unknown
              THEN PairOf(d, e, perp).perp = Unknown
              ELSE /\ perp[d] \in Int /\ perp[e] \in Int
                   /\ PairOf(d, e, perp).perp = perp[e] - perp[d]
                   /\ PairOf(d, e, perp).perp \in Int /\ PairOf(d, e, perp).perp # Unknown
<1>1. PairOf(d, e, perp) = [ref |-> d, sec |-> e,
         perp |-> IF perp[d] = Unknown \/ perp[e] = Unknown THEN Unknown ELSE perp[e] - perp[d]]
    BY DEF PairOf
<1>2. perp[d] \in Int \union {Unknown} /\ perp[e] \in Int \union {Unknown}
    BY DEF Baselines
<1>3. \A x \in Int : x # Unknown
    BY NetworkAssumption
<1> QED
    BY <1>1, <1>2, <1>3

\* No baseline is known before they are applied.
LEMMA UnknownBaselines == NoPerps \in Baselines
BY DEF NoPerps, Baselines

\* The pairs of a network are of its dates, one for each that is paired.
LEMMA PairedAre ==
    ASSUME NEW D \in SUBSET Days, NEW method, NEW perp
    PROVE  /\ PairedDates(D, method, perp) \in SUBSET (Int \X Int)
           /\ IsFiniteSet(PairedDates(D, method, perp))
           /\ \A p \in PairedDates(D, method, perp) :
                p[1] \in D /\ p[2] \in D /\ p[1] < p[2] /\ p = <<p[1], p[2]>>
<1> DEFINE P == PairedDates(D, method, perp)
<1>1. IsFiniteSet(D) /\ D \subseteq Int
    <2>1. IsFiniteSet(Days) /\ Days \subseteq Nat
        BY NetworkAssumption
    <2>2. IsFiniteSet(D)
        BY <2>1, FS_Subset
    <2> QED
        BY <2>1, <2>2
<1>2. P \in SUBSET (D \X D) /\ \A p \in P : p[1] < p[2]
    BY DEF PairedDates
<1> HIDE DEF P
<1>3. IsFiniteSet(P)
    <2>1. IsFiniteSet(D \X D)
        BY <1>1, FS_Product
    <2> QED
        BY <1>2, <2>1, FS_Subset
<1>4. P \in SUBSET (Int \X Int)
    BY <1>1, <1>2
<1>5. \A p \in P : p[1] \in D /\ p[2] \in D /\ p = <<p[1], p[2]>>
    BY <1>2
<1> QED
    BY <1>2, <1>3, <1>4, <1>5 DEF P

\* The network lists a pair for every two dates that are paired, once.
LEMMA NetworkPairs ==
    ASSUME NEW D \in SUBSET Days, NEW method, NEW perp,
           NEW P, P = PairedDates(D, method, perp)
    PROVE  /\ Cardinality(P) \in Nat
           /\ Listed(P) \in [1 .. Cardinality(P) -> P] /\ Range(Listed(P)) = P
           /\ BuildNetwork(D, method, perp) = [k \in 1 .. Cardinality(P) |->
                 PairOf(Listed(P)[k][1], Listed(P)[k][2], perp)]
<1>1. P \in SUBSET (Int \X Int) /\ IsFiniteSet(P)
    BY PairedAre
<1>2. /\ Cardinality(P) \in Nat
      /\ Listed(P) \in [1 .. Cardinality(P) -> P] /\ Range(Listed(P)) = P
    BY <1>1, ListedAre
<1>3. BuildNetwork(D, method, perp)
        = [k \in DOMAIN Listed(P) |-> PairOf(Listed(P)[k][1], Listed(P)[k][2], perp)]
    BY DEF BuildNetwork
<1>4. DOMAIN Listed(P) = 1 .. Cardinality(P)
    BY <1>2
<1> QED
    BY <1>2, <1>3, <1>4

\* Two lists at the same indexes.
LEMMA ThoseOfBoth ==
    ASSUME NEW n \in Nat, NEW s, DOMAIN s = 1 .. n, NEW t, DOMAIN t = 1 .. n,
           NEW K \in SUBSET (1 .. n)
    PROVE  /\ DOMAIN Those(s, K) = 1 .. Cardinality(K)
           /\ Those(t, K) = [i \in 1 .. Cardinality(K) |-> Those(t, K)[i]]
           /\ \A i \in 1 .. Cardinality(K) :
                \E k \in K : Those(s, K)[i] = s[k] /\ Those(t, K)[i] = t[k]
<1>1. /\ DOMAIN Those(s, K) = 1 .. Cardinality(K)
      /\ Those(s, K) = [i \in 1 .. Cardinality(K) |-> s[Sorted(K)[i]]]
      /\ Sorted(K) \in [1 .. Cardinality(K) -> K]
    BY ThoseAre
<1>2. Those(t, K) = [i \in 1 .. Cardinality(K) |-> t[Sorted(K)[i]]]
    BY ThoseAre
<1>3. \A i \in 1 .. Cardinality(K) :
        Sorted(K)[i] \in K /\ Those(s, K)[i] = s[Sorted(K)[i]] /\ Those(t, K)[i] = t[Sorted(K)[i]]
    BY <1>1, <1>2
<1>4. Those(t, K) = [i \in 1 .. Cardinality(K) |-> Those(t, K)[i]]
    BY <1>2
<1> QED
    BY <1>1, <1>3, <1>4

\* The same pairs with the baselines of the acquisitions.
WithBaselines(pairs, perps) ==
    [k \in DOMAIN pairs |-> PairOf(pairs[k].ref, pairs[k].sec, perps)]

\* With baselines, the pairs are the same ones in the same order.
LEMMA BasedPairs ==
    ASSUME NEW D \in SUBSET Days, NEW method, NEW perps \in Baselines,
           NEW P, P = PairedDates(D, method, NoPerps),
           NEW n, n = Cardinality(P),
           NEW pairs, pairs = BuildNetwork(D, method, NoPerps)
    PROVE  /\ DOMAIN pairs = 1 .. n /\ DOMAIN WithBaselines(pairs, perps) = 1 .. n
           /\ \A k \in 1 .. n :
                /\ Listed(P)[k] \in P
                /\ pairs[k].ref = Listed(P)[k][1] /\ pairs[k].sec = Listed(P)[k][2]
                /\ WithBaselines(pairs, perps)[k]
                     = PairOf(Listed(P)[k][1], Listed(P)[k][2], perps)
                /\ WithBaselines(pairs, perps)[k].ref = pairs[k].ref
                /\ WithBaselines(pairs, perps)[k].sec = pairs[k].sec
<1>1. /\ n \in Nat /\ Listed(P) \in [1 .. n -> P]
      /\ \A p \in P : p[1] \in D /\ p[2] \in D /\ p[1] < p[2]
      /\ pairs = [k \in 1 .. n |-> PairOf(Listed(P)[k][1], Listed(P)[k][2], NoPerps)]
    <2>1. n \in Nat /\ Listed(P) \in [1 .. n -> P]
        BY NetworkPairs
    <2>2. \A p \in P : p[1] \in D /\ p[2] \in D /\ p[1] < p[2]
        BY PairedAre
    <2>3. pairs = [k \in 1 .. n |-> PairOf(Listed(P)[k][1], Listed(P)[k][2], NoPerps)]
        BY NetworkPairs
    <2> QED
        BY <2>1, <2>2, <2>3
<1>2. DOMAIN pairs = 1 .. n /\ DOMAIN WithBaselines(pairs, perps) = 1 .. n
    BY <1>1 DEF WithBaselines
<1>3. ASSUME NEW k \in 1 .. n
      PROVE  /\ Listed(P)[k] \in P
             /\ pairs[k].ref = Listed(P)[k][1] /\ pairs[k].sec = Listed(P)[k][2]
             /\ WithBaselines(pairs, perps)[k]
                  = PairOf(Listed(P)[k][1], Listed(P)[k][2], perps)
             /\ WithBaselines(pairs, perps)[k].ref = pairs[k].ref
             /\ WithBaselines(pairs, perps)[k].sec = pairs[k].sec
    <2>1. Listed(P)[k] \in P /\ Listed(P)[k][1] \in Days /\ Listed(P)[k][2] \in Days
          /\ Listed(P)[k][1] < Listed(P)[k][2]
        BY <1>1
    <2>2. pairs[k] = PairOf(Listed(P)[k][1], Listed(P)[k][2], NoPerps)
        BY <1>1
    <2>3. pairs[k].ref = Listed(P)[k][1] /\ pairs[k].sec = Listed(P)[k][2]
        BY <2>1, <2>2, PairIs, UnknownBaselines
    <2>4. WithBaselines(pairs, perps)[k] = PairOf(Listed(P)[k][1], Listed(P)[k][2], perps)
        BY <1>2, <2>3 DEF WithBaselines
    <2> QED
        BY <2>1, <2>3, <2>4, PairIs
<1> QED
    BY <1>2, <1>3

\* Dropping the pairs over the limit leaves the network that is built with the
\* baselines.
LEMMA DroppedAtOnce ==
    ASSUME NEW D \in SUBSET Days, NEW perps \in Baselines,
           NEW pairs, pairs = BuildNetwork(D, "sbas", NoPerps),
           NEW based, based = WithBaselines(pairs, perps),
           NEW K \in SUBSET DOMAIN based,
           \A k \in DOMAIN based : k \in K <=> ~OverPerp(based[k])
    PROVE  Those(based, K) = BuildNetwork(D, "sbas", perps)
<1> DEFINE P == PairedDates(D, "sbas", NoPerps)
           n == Cardinality(P)
           T == PairedDates(D, "sbas", perps)
           s == Listed(P)
<1>1. /\ n \in Nat /\ P \in SUBSET (Int \X Int) /\ IsFiniteSet(P)
      /\ s \in [1 .. n -> P] /\ Range(s) = P
      /\ \A p \in P : p[1] \in D /\ p[2] \in D /\ p[1] < p[2]
    BY NetworkPairs, PairedAre
<1>2. /\ DOMAIN based = 1 .. n
      /\ \A k \in 1 .. n : based[k] = PairOf(s[k][1], s[k][2], perps)
    BY BasedPairs
<1>3. T = { p \in P : ~OverPerp(PairOf(p[1], p[2], perps)) }
    <2>1. \A p \in D \X D : p[1] < p[2] => ~OverPerp(PairOf(p[1], p[2], NoPerps))
        <3> SUFFICES ASSUME NEW p \in D \X D, p[1] < p[2]
                     PROVE  ~OverPerp(PairOf(p[1], p[2], NoPerps))
            OBVIOUS
        <3>1. p[1] \in Days /\ p[2] \in Days /\ NoPerps[p[1]] = Unknown
            BY DEF NoPerps
        <3>2. PairOf(p[1], p[2], NoPerps).perp = Unknown
            BY <3>1, PairIs, UnknownBaselines
        <3> QED
            BY <3>2 DEF OverPerp
    <2>2. P = { p \in D \X D : p[1] < p[2] /\ p[2] - p[1] <= MaxDays }
        BY <2>1 DEF PairedDates
    <2>3. T = { p \in D \X D : /\ p[1] < p[2] /\ p[2] - p[1] <= MaxDays
                               /\ ~OverPerp(PairOf(p[1], p[2], perps)) }
        BY DEF PairedDates
    <2> QED
        BY <2>2, <2>3
<1> HIDE DEF P, n, T, s
<1>4. /\ K \in SUBSET (1 .. n)
      /\ \A k \in 1 .. n : k \in K <=> ~OverPerp(PairOf(s[k][1], s[k][2], perps))
    BY <1>2
<1>5. T = { s[k] : k \in K }
    <2>1. \A p \in T : \E k \in K : p = s[k]
        BY <1>1, <1>3, <1>4 DEF Range
    <2>2. \A k \in K : s[k] \in T
        BY <1>1, <1>3, <1>4
    <2> QED
        BY <2>1, <2>2
<1>6. Those(s, K) = Listed(T)
    <2>1. K \in SUBSET (1 .. n)
        BY <1>4
    <2>2. Those(Listed(P), K) = Listed({ Listed(P)[k] : k \in K })
        BY <1>1, <2>1, ListedAre DEF n
    <2> QED
        BY <1>5, <2>2 DEF s
<1>7. /\ DOMAIN Those(s, K) = 1 .. Cardinality(K)
      /\ Those(based, K) = [i \in 1 .. Cardinality(K) |-> Those(based, K)[i]]
      /\ \A i \in 1 .. Cardinality(K) :
           \E k \in K : Those(s, K)[i] = s[k] /\ Those(based, K)[i] = based[k]
    <2>1. DOMAIN s = 1 .. n /\ n \in Nat /\ DOMAIN based = 1 .. n /\ K \in SUBSET (1 .. n)
        BY <1>1, <1>2, <1>4
    <2> QED
        BY <2>1, ThoseOfBoth
<1>8. \A i \in 1 .. Cardinality(K) :
         Those(based, K)[i] = PairOf(Those(s, K)[i][1], Those(s, K)[i][2], perps)
    BY <1>2, <1>4, <1>7
<1>9. BuildNetwork(D, "sbas", perps)
        = [i \in 1 .. Cardinality(K) |-> PairOf(Those(s, K)[i][1], Those(s, K)[i][2], perps)]
    <2>1. BuildNetwork(D, "sbas", perps)
            = [k \in DOMAIN Listed(T) |-> PairOf(Listed(T)[k][1], Listed(T)[k][2], perps)]
        BY DEF BuildNetwork, T
    <2> QED
        BY <1>6, <1>7, <2>1
<1>10. Those(based, K)
         = [i \in 1 .. Cardinality(K) |-> PairOf(Those(s, K)[i][1], Those(s, K)[i][2], perps)]
    BY <1>7, <1>8
<1> QED
    BY <1>9, <1>10

\* A parent function whose paths end: r is where they do, and a date's depth h is
\* less than the number of dates that are no roots, so that RootOf gets there.
Roots(D, P) == { d \in D : P[d] = d }

Forest(D, P, r, h) ==
    /\ P \in [D -> D] /\ r \in [D -> D] /\ h \in [D -> Nat]
    /\ \A d \in D : /\ P[r[d]] = r[d] /\ r[P[d]] = r[d]
                    /\ P[d] = d => r[d] = d /\ h[d] = 0
                    /\ P[d] # d => h[P[d]] < h[d]
                    /\ h[d] + Cardinality(Roots(D, P)) <= Cardinality(D)

\* RootOf follows the parents as often as there are dates.
LEMMA RootOfIs ==
    ASSUME NEW D, IsFiniteSet(D), NEW P \in [D -> D], NEW d \in D
    PROVE  \E u \in [Nat -> D] :
             /\ u[0] = d /\ \A n \in Nat \ {0} : u[n] = P[u[n - 1]]
             /\ RootOf(P, d) = u[Cardinality(D)]
<1> DEFINE up == CHOOSE v : v = [n \in Nat |-> IF n = 0 THEN d ELSE P[v[n - 1]]]
<1>1. PICK u \in [Nat -> D] :
        /\ u[0] = d /\ \A n \in Nat \ {0} : u[n] = P[u[n - 1]]
        /\ u = [n \in Nat |-> IF n = 0 THEN d ELSE P[u[n - 1]]]
    BY IterationExists
<1>2. RootOf(P, d) = up[Cardinality(D)]
    BY DEF RootOf
<1>3. up = [n \in Nat |-> IF n = 0 THEN d ELSE P[up[n - 1]]]
    BY <1>1
<1> HIDE DEF up
<1> DEFINE same == { n \in 0 .. Cardinality(D) : up[n] = u[n] }
<1>4. Cardinality(D) \in Nat
    BY FS_CardinalityType
<1>5. 0 \in same
    BY <1>1, <1>3, <1>4
<1>6. ASSUME NEW n \in 0 .. Cardinality(D) - 1, n \in same
      PROVE  n + 1 \in same
    <2>1. n + 1 \in Nat \ {0} /\ (n + 1) - 1 = n /\ n + 1 \in 0 .. Cardinality(D)
        BY <1>4
    <2>2. up[n + 1] = P[up[n]]
        BY <1>3, <2>1
    <2>3. u[n + 1] = P[u[n]]
        BY <1>1, <2>1
    <2> QED
        BY <1>6, <2>1, <2>2, <2>3
<1>7. Cardinality(D) \in same
    <2> HIDE DEF same
    <2>1. \A n \in 0 .. Cardinality(D) : n \in same
        BY <1>4, <1>5, <1>6, Climbs
    <2> QED
        BY <1>4, <2>1
<1> QED
    BY <1>1, <1>2, <1>7

\* Which is often enough: the depth of a date is less than that.
LEMMA RootIsFound ==
    ASSUME NEW D, IsFiniteSet(D), NEW P, NEW r, NEW h, Forest(D, P, r, h), NEW d \in D
    PROVE  RootOf(P, d) = r[d]
<1> DEFINE n == Cardinality(D)
           roots == Roots(D, P)
<1>1. PICK u \in [Nat -> D] :
        /\ u[0] = d /\ \A k \in Nat \ {0} : u[k] = P[u[k - 1]]
        /\ RootOf(P, d) = u[n]
    <2>1. P \in [D -> D]
        BY DEF Forest
    <2> QED
        BY <2>1, RootOfIs
<1>2. n \in Nat /\ Cardinality(roots) \in Nat /\ Cardinality(roots) >= 1
    <2>1. IsFiniteSet(roots) /\ r[d] \in roots
        BY FS_Subset DEF Forest, Roots
    <2>2. Cardinality(roots) \in Nat /\ n \in Nat
        BY <2>1, FS_CardinalityType
    <2>3. Cardinality(roots) # 0
        BY <2>1, FS_EmptySet
    <2> QED
        BY <2>2, <2>3
<1>3. /\ r \in [D -> D] /\ h \in [D -> Nat] /\ P \in [D -> D]
      /\ \A x \in D : /\ P[r[x]] = r[x] /\ r[P[x]] = r[x]
                      /\ P[x] = x => r[x] = x /\ h[x] = 0
                      /\ P[x] # x => h[P[x]] < h[x]
                      /\ h[x] + Cardinality(roots) <= n
    BY DEF Forest
<1> HIDE DEF n, roots
<1> DEFINE good == { k \in 0 .. n : r[u[k]] = r[d] /\ (P[u[k]] = u[k] \/ h[u[k]] + k <= h[d]) }
<1>4. 0 \in good
    BY <1>1, <1>2, <1>3
<1>5. ASSUME NEW k \in 0 .. n - 1, k \in good
      PROVE  k + 1 \in good
    <2>1. k + 1 \in Nat \ {0} /\ (k + 1) - 1 = k /\ k + 1 \in 0 .. n /\ k \in Nat
        BY <1>2
    <2>2. u[k + 1] = P[u[k]] /\ u[k] \in D /\ u[k + 1] \in D
        BY <1>1, <2>1
    <2>3. r[u[k + 1]] = r[d]
        BY <1>3, <1>5, <2>2
    <2>4. CASE P[u[k]] = u[k]
        BY <2>1, <2>2, <2>3, <2>4
    <2>5. CASE P[u[k]] # u[k]
        <3>1. h[u[k + 1]] < h[u[k]] /\ h[u[k]] + k <= h[d]
            BY <1>3, <1>5, <2>2, <2>5
        <3>2. h[u[k + 1]] \in Nat /\ h[u[k]] \in Nat /\ h[d] \in Nat
            BY <1>3, <2>2
        <3>3. h[u[k + 1]] + (k + 1) <= h[d]
            BY <2>1, <3>1, <3>2
        <3> QED
            BY <2>1, <2>3, <3>3
    <2> QED
        BY <2>4, <2>5
<1>6. n \in good
    <2> HIDE DEF good
    <2>1. \A k \in 0 .. n : k \in good
        BY <1>2, <1>4, <1>5, Climbs
    <2> QED
        BY <1>2, <2>1
<1>7. P[u[n]] = u[n]
    <2> SUFFICES ASSUME P[u[n]] # u[n]
                 PROVE  FALSE
        OBVIOUS
    <2>1. h[u[n]] + n <= h[d] /\ u[n] \in D
        BY <1>1, <1>2, <1>6
    <2>2. h[d] + Cardinality(roots) <= n /\ h[d] \in Nat /\ h[u[n]] \in Nat
        BY <1>3, <2>1
    <2> QED
        BY <1>2, <2>1, <2>2
<1>8. u[n] \in D /\ r[u[n]] = r[d]
    BY <1>1, <1>2, <1>6
<1> QED
    BY <1>1, <1>3, <1>7, <1>8

\* Joining two trees at their roots: the dates of the one get the root of the other.
LEMMA TreesAreJoined ==
    ASSUME NEW D, IsFiniteSet(D), NEW P, NEW r, NEW h, Forest(D, P, r, h),
           NEW p, p.ref \in D, p.sec \in D,
           NEW s, s = [d \in D |-> IF r[d] = r[p.ref] THEN r[p.sec] ELSE r[d]]
    PROVE  \E g : Forest(D, Joined(P, p), s, g)
<1> DEFINE a == r[p.ref]
           b == r[p.sec]
           Q == Joined(P, p)
           n == Cardinality(D)
<1>1. /\ r \in [D -> D] /\ h \in [D -> Nat] /\ P \in [D -> D]
      /\ \A x \in D : /\ P[r[x]] = r[x] /\ r[P[x]] = r[x]
                      /\ P[x] = x => r[x] = x /\ h[x] = 0
                      /\ P[x] # x => h[P[x]] < h[x]
                      /\ h[x] + Cardinality(Roots(D, P)) <= n
    BY DEF Forest
<1>2. RootOf(P, p.ref) = a /\ RootOf(P, p.sec) = b
    BY RootIsFound
<1>3. a \in D /\ b \in D /\ P[a] = a /\ P[b] = b /\ r[a] = a /\ r[b] = b
    BY <1>1
<1>4. Q = [P EXCEPT ![a] = b]
    BY <1>1, <1>2 DEF Joined
<1>5. n \in Nat /\ IsFiniteSet(Roots(D, P)) /\ Cardinality(Roots(D, P)) \in Nat
    <2>1. IsFiniteSet(Roots(D, P))
        BY FS_Subset DEF Roots
    <2> QED
        BY <2>1, FS_CardinalityType
<1>6. s = [d \in D |-> IF r[d] = a THEN b ELSE r[d]]
    OBVIOUS
<1> HIDE DEF a, b, Q, n
<1>7. CASE a = b
    <2>1. Q = P
        BY <1>1, <1>3, <1>4, <1>7
    <2>2. s = r
        BY <1>1, <1>6, <1>7
    <2>3. Forest(D, Q, s, h)
        BY <2>1, <2>2
    <2> QED
        BY <2>3 DEF Q
<1>8. CASE a # b
    <2> DEFINE g == [d \in D |-> IF r[d] = a THEN h[d] + 1 ELSE h[d]]
    <2>1. Q \in [D -> D] /\ s \in [D -> D] /\ g \in [D -> Nat]
        BY <1>1, <1>3, <1>4, <1>6
    <2>2. Q[a] = b /\ \A x \in D : x # a => Q[x] = P[x]
        BY <1>1, <1>3, <1>4
    <2>3. Roots(D, Q) = Roots(D, P) \ {a}
        BY <1>3, <1>8, <2>2 DEF Roots
    <2>4. Cardinality(Roots(D, Q)) = Cardinality(Roots(D, P)) - 1
        <3>1. a \in Roots(D, P)
            BY <1>3 DEF Roots
        <3> QED
            BY <1>5, <2>3, <3>1, FS_RemoveElement
    <2>5. \A x \in D : /\ s[x] = IF r[x] = a THEN b ELSE r[x]
                       /\ g[x] = IF r[x] = a THEN h[x] + 1 ELSE h[x]
        BY <1>6
    <2> HIDE DEF g
    <2>6. ASSUME NEW x \in D
          PROVE  /\ Q[s[x]] = s[x] /\ s[Q[x]] = s[x]
                 /\ Q[x] = x => s[x] = x /\ g[x] = 0
                 /\ Q[x] # x => g[Q[x]] < g[x]
                 /\ g[x] + Cardinality(Roots(D, Q)) <= n
        <3>1. Q[s[x]] = s[x]
            <4>1. r[x] \in D /\ P[r[x]] = r[x]
                BY <1>1
            <4> QED
                BY <1>3, <1>8, <2>2, <2>5, <4>1
        <3>2. s[Q[x]] = s[x]
            <4>1. CASE x = a
                BY <1>3, <1>8, <2>2, <2>5, <4>1
            <4>2. CASE x # a
                <5>1. Q[x] = P[x] /\ P[x] \in D /\ r[P[x]] = r[x]
                    BY <1>1, <2>2, <4>2
                <5> QED
                    BY <2>5, <5>1
            <4> QED
                BY <4>1, <4>2
        <3>3. ASSUME Q[x] = x
              PROVE  s[x] = x /\ g[x] = 0
            <4>1. x # a
                BY <1>8, <2>2, <3>3
            <4>2. P[x] = x /\ r[x] = x /\ h[x] = 0
                BY <1>1, <2>2, <3>3, <4>1
            <4> QED
                BY <2>5, <4>1, <4>2
        <3>4. ASSUME Q[x] # x
              PROVE  g[Q[x]] < g[x]
            <4>1. CASE x = a
                <5>1. g[Q[x]] = h[b] /\ g[x] = h[a] + 1 /\ h[b] = 0 /\ h[a] = 0
                    BY <1>1, <1>3, <1>8, <2>2, <2>5, <4>1
                <5> QED
                    BY <5>1
            <4>2. CASE x # a
                <5>1. Q[x] = P[x] /\ P[x] \in D /\ r[P[x]] = r[x] /\ h[P[x]] < h[x]
                    BY <1>1, <2>2, <3>4, <4>2
                <5>2. h[P[x]] \in Nat /\ h[x] \in Nat
                    BY <1>1, <5>1
                <5> QED
                    BY <2>5, <5>1, <5>2
            <4> QED
                BY <4>1, <4>2
        <3>5. g[x] + Cardinality(Roots(D, Q)) <= n
            <4>1. h[x] \in Nat /\ h[x] + Cardinality(Roots(D, P)) <= n
                BY <1>1
            <4>2. g[x] = h[x] \/ g[x] = h[x] + 1
                BY <2>5
            <4> QED
                BY <1>5, <2>4, <4>1, <4>2
        <3> QED
            BY <3>1, <3>2, <3>3, <3>4, <3>5
    <2>7. Forest(D, Q, s, g)
        BY <2>1, <2>6 DEF Forest, n
    <2> QED
        BY <2>7 DEF Q
<1> QED
    BY <1>7, <1>8

\* The pairs are joined one after the other.
PairsOf(D, m, pairs) ==
    DOMAIN pairs = 1 .. m /\ \A k \in 1 .. m : pairs[k].ref \in D /\ pairs[k].sec \in D

LinkedDates(D, pairs) == FoldLeft(Joined, [d \in D |-> d], pairs)

\* Whatever the parents are, it ends at a date.
LEMMA RootOfIsOne ==
    ASSUME NEW D, IsFiniteSet(D), NEW P \in [D -> D], NEW d \in D
    PROVE  RootOf(P, d) \in D
<1>1. PICK u \in [Nat -> D] :
        /\ u[0] = d /\ \A n \in Nat \ {0} : u[n] = P[u[n - 1]]
        /\ RootOf(P, d) = u[Cardinality(D)]
    BY RootOfIs
<1>2. Cardinality(D) \in Nat
    BY FS_CardinalityType
<1> QED
    BY <1>1, <1>2

\* And joining leaves every date a parent.
LEMMA JoinedIsParent ==
    ASSUME NEW D, IsFiniteSet(D), NEW P \in [D -> D], NEW p, p.ref \in D, p.sec \in D
    PROVE  Joined(P, p) \in [D -> D]
BY RootOfIsOne DEF Joined

\* The fold over the pairs, one at a time.
LEMMA JoinedOneByOne ==
    ASSUME NEW D, IsFiniteSet(D), NEW m \in Nat, NEW pairs, PairsOf(D, m, pairs)
    PROVE  \E c \in [0 .. m -> [D -> D]] :
             /\ c[0] = [d \in D |-> d] /\ LinkedDates(D, pairs) = c[m]
             /\ \A k \in 1 .. m : c[k] = Joined(c[k - 1], pairs[k])
<1> DEFINE A == [D -> D]
           b == [d \in D |-> d]
           iter == CHOOSE it : it = [S \in SUBSET DOMAIN pairs |->
                       IF S = {} THEN b ELSE Joined(it[S \ {Max(S)}], pairs[Max(S)])]
           f == [p \in (1 .. m) \X A |-> Joined(p[2], pairs[p[1]])]
<1>1. LinkedDates(D, pairs) = iter[DOMAIN pairs]
    BY DEF LinkedDates, FoldLeft, MapThenFoldSet
<1>2. \A P \in A : \A k \in 1 .. m : Joined(P, pairs[k]) \in A
    BY JoinedIsParent DEF PairsOf
<1>3. f \in [(1 .. m) \X A -> A] /\ b \in A
    BY <1>2
<1>4. PICK h : FoldSteps(m, A, b, f, h)
    <2> HIDE DEF f, A, b
    <2> QED
        BY <1>3, FoldExists
<1>5. DOMAIN pairs = 1 .. m
    BY DEF PairsOf
<1>6. h = [S \in SUBSET DOMAIN pairs |->
             IF S = {} THEN b ELSE Joined(h[S \ {Max(S)}], pairs[Max(S)])]
    <2> HIDE DEF A, b
    <2>1. ASSUME NEW S \in SUBSET (1 .. m), S # {}
          PROVE  h[S] = Joined(h[S \ {Max(S)}], pairs[Max(S)])
        <3>1. Max(S) \in 1 .. m
            BY <2>1, LargestIs
        <3>2. h[S \ {Max(S)}] \in A /\ h[S] = f[<<Max(S), h[S \ {Max(S)}]>>]
            BY <1>4, <2>1 DEF FoldSteps
        <3> QED
            BY <3>1, <3>2
    <2> QED
        BY <1>4, <1>5, <2>1 DEF FoldSteps
<1>7. iter = [S \in SUBSET DOMAIN pairs |->
                IF S = {} THEN b ELSE Joined(iter[S \ {Max(S)}], pairs[Max(S)])]
    <2> HIDE DEF b
    <2> QED
        BY <1>6
<1> DEFINE c == [k \in 0 .. m |-> iter[1 .. k]]
<1> HIDE DEF iter, A, b
<1>8. c[0] = b
    <2>1. 1 .. 0 = {} /\ {} \in SUBSET DOMAIN pairs
        OBVIOUS
    <2>2. iter[{}] = b
        BY <1>7, <2>1
    <2> QED
        BY <2>1, <2>2
<1>9. ASSUME NEW k \in 1 .. m
      PROVE  c[k] = Joined(c[k - 1], pairs[k])
    <2>1. Max(1 .. k) = k /\ (1 .. k) \ {k} = 1 .. (k - 1)
        BY LastOfSegment
    <2>2. (1 .. k) \in SUBSET DOMAIN pairs /\ (1 .. k) # {}
        <3>1. k \in 1 .. k /\ (1 .. k) \subseteq (1 .. m)
            OBVIOUS
        <3> QED
            BY <1>5, <3>1
    <2>3. iter[1 .. k] = Joined(iter[(1 .. k) \ {Max(1 .. k)}], pairs[Max(1 .. k)])
        BY <1>7, <2>2
    <2>4. c[k] = iter[1 .. k] /\ c[k - 1] = iter[1 .. (k - 1)]
        OBVIOUS
    <2> QED
        BY <2>1, <2>3, <2>4
<1>10. c \in [0 .. m -> A]
    <2> HIDE DEF c
    <2> DEFINE in == { k \in 0 .. m : c[k] \in A }
    <2>1. 0 \in in
        BY <1>3, <1>8
    <2>2. ASSUME NEW k \in 0 .. m - 1, k \in in
          PROVE  k + 1 \in in
        <3>1. c[k + 1] = Joined(c[k], pairs[k + 1])
            BY <1>9
        <3> QED
            BY <1>2, <2>2, <3>1
    <2>3. \A k \in 0 .. m : k \in in
        <3> HIDE DEF in
        <3> QED
            BY <2>1, <2>2, Climbs
    <2>4. c = [k \in 0 .. m |-> c[k]]
        BY DEF c
    <2> QED
        BY <2>3, <2>4
<1>11. LinkedDates(D, pairs) = c[m]
    BY <1>1, <1>5
<1> HIDE DEF c
<1> QED
    BY <1>8, <1>9, <1>10, <1>11 DEF A, b

\* Dates are in one class just if the pairs say so.
Closed(S, m, pairs) == \A k \in 1 .. m : pairs[k].ref \in S <=> pairs[k].sec \in S

Classes(D, m, pairs, r) ==
    /\ \A k \in 1 .. m : r[pairs[k].ref] = r[pairs[k].sec]
    /\ \A S \in SUBSET D : Closed(S, m, pairs) =>
          \A d, e \in D : r[d] = r[e] => (d \in S <=> e \in S)

\* After the last pair, two dates have one root if and only if no set that pairs
\* do not leave has one of them and not the other.
LEMMA ClassesAreFound ==
    ASSUME NEW D, IsFiniteSet(D), NEW m \in Nat, NEW pairs, PairsOf(D, m, pairs)
    PROVE  \E r \in [D -> D] :
             /\ \A d \in D : RootOf(LinkedDates(D, pairs), d) = r[d]
             /\ \A d \in D : r[r[d]] = r[d]
             /\ Classes(D, m, pairs, r)
<1>1. PICK c \in [0 .. m -> [D -> D]] :
        /\ c[0] = [d \in D |-> d] /\ LinkedDates(D, pairs) = c[m]
        /\ \A k \in 1 .. m : c[k] = Joined(c[k - 1], pairs[k])
    BY JoinedOneByOne
<1> DEFINE good == { k \in 0 .. m :
                       \E r, h : Forest(D, c[k], r, h) /\ Classes(D, k, pairs, r) }
<1>2. 0 \in good
    <2> DEFINE r == [d \in D |-> d]
               h == [d \in D |-> 0]
    <2>1. Forest(D, c[0], r, h)
        <3>1. Roots(D, c[0]) = D
            BY <1>1 DEF Roots
        <3>2. Cardinality(D) \in Nat
            BY FS_CardinalityType
        <3> QED
            BY <1>1, <3>1, <3>2 DEF Forest
    <2>2. Classes(D, 0, pairs, r)
        BY DEF Classes
    <2> QED
        BY <2>1, <2>2
<1>3. ASSUME NEW k \in 0 .. m - 1, k \in good
      PROVE  k + 1 \in good
    <2>1. PICK r, h : Forest(D, c[k], r, h) /\ Classes(D, k, pairs, r)
        BY <1>3
    <2> DEFINE p == pairs[k + 1]
               s == [d \in D |-> IF r[d] = r[p.ref] THEN r[p.sec] ELSE r[d]]
    <2>2. k + 1 \in 1 .. m /\ (k + 1) - 1 = k /\ k + 1 \in 0 .. m
          /\ p.ref \in D /\ p.sec \in D
        BY DEF PairsOf
    <2>3. \E g : Forest(D, c[k + 1], s, g)
        <3>1. c[k + 1] = Joined(c[k], p)
            BY <1>1, <2>2
        <3> HIDE DEF p
        <3>2. \E g : Forest(D, Joined(c[k], p), s, g)
            BY <2>1, <2>2, TreesAreJoined
        <3> QED
            BY <3>1, <3>2
    <2>4. Classes(D, k + 1, pairs, s)
        <3>1. \A d \in D : s[d] = IF r[d] = r[p.ref] THEN r[p.sec] ELSE r[d]
            OBVIOUS
        <3> HIDE DEF s
        <3>2. ASSUME NEW j \in 1 .. (k + 1)
              PROVE  s[pairs[j].ref] = s[pairs[j].sec]
            <4>1. pairs[j].ref \in D /\ pairs[j].sec \in D
                BY DEF PairsOf
            <4>2. CASE j = k + 1
                BY <3>1, <4>1, <4>2
            <4>3. CASE j # k + 1
                <5>1. j \in 1 .. k
                    BY <4>3
                <5>2. r[pairs[j].ref] = r[pairs[j].sec]
                    BY <2>1, <5>1 DEF Classes
                <5> QED
                    BY <3>1, <4>1, <5>2
            <4> QED
                BY <4>2, <4>3
        <3>3. ASSUME NEW S \in SUBSET D, Closed(S, k + 1, pairs),
                     NEW d \in D, NEW e \in D, s[d] = s[e]
              PROVE  d \in S <=> e \in S
            <4>1. Closed(S, k, pairs) /\ (p.ref \in S <=> p.sec \in S)
                BY <3>3 DEF Closed
            <4>2. \A x, y \in D : r[x] = r[y] => (x \in S <=> y \in S)
                BY <2>1, <4>1 DEF Classes
            <4> HIDE DEF p
            <4>3. CASE r[d] = r[e]
                BY <4>2, <4>3
            <4>4. CASE r[d] # r[e]
                <5>1. \/ r[d] = r[p.ref] /\ r[e] = r[p.sec]
                      \/ r[e] = r[p.ref] /\ r[d] = r[p.sec]
                    BY <3>1, <3>3, <4>4
                <5> QED
                    BY <2>2, <4>1, <4>2, <5>1
            <4> QED
                BY <4>3, <4>4
        <3> QED
            BY <3>2, <3>3 DEF Classes
    <2> HIDE DEF s
    <2>5. \E x, y : Forest(D, c[k + 1], x, y) /\ Classes(D, k + 1, pairs, x)
        BY <2>3, <2>4
    <2> QED
        BY <2>2, <2>5
<1>4. m \in good
    <2> HIDE DEF good
    <2>1. \A k \in 0 .. m : k \in good
        BY <1>2, <1>3, Climbs
    <2> QED
        BY <2>1
<1>5. PICK r, h : Forest(D, c[m], r, h) /\ Classes(D, m, pairs, r)
    BY <1>4
<1>6. r \in [D -> D]
    BY <1>5 DEF Forest
<1>7. \A d \in D : RootOf(c[m], d) = r[d]
    BY <1>5, RootIsFound
<1>8. \A d \in D : r[r[d]] = r[d]
    BY <1>5, <1>6 DEF Forest
<1> QED
    BY <1>1, <1>5, <1>6, <1>7, <1>8

\* What Connected reaches: the least set with the date in it that pairs do not
\* leave.  It grows until it is closed, for as many steps as there are dates.
Near(D, pairs, S) ==
    S \union { e \in D : \E p \in Range(pairs) : \/ p.ref = e /\ p.sec \in S
                                                 \/ p.sec = e /\ p.ref \in S }

LEMMA NearIsClosed ==
    ASSUME NEW D, NEW m \in Nat, NEW pairs, PairsOf(D, m, pairs), NEW S \in SUBSET D
    PROVE  /\ Near(D, pairs, S) \in SUBSET D /\ S \subseteq Near(D, pairs, S)
           /\ Near(D, pairs, S) = S => Closed(S, m, pairs)
           /\ \A T \in SUBSET D : Closed(T, m, pairs) /\ S \subseteq T => Near(D, pairs, S) \subseteq T
<1>1. \A p \in Range(pairs) : \E k \in 1 .. m : p = pairs[k]
    BY DEF Range, PairsOf
<1>2. \A k \in 1 .. m : pairs[k] \in Range(pairs) /\ pairs[k].ref \in D /\ pairs[k].sec \in D
    BY DEF Range, PairsOf
<1>3. Near(D, pairs, S) \in SUBSET D /\ S \subseteq Near(D, pairs, S)
    BY DEF Near
<1>4. ASSUME Near(D, pairs, S) = S, NEW k \in 1 .. m
      PROVE  pairs[k].ref \in S <=> pairs[k].sec \in S
    <2>1. /\ pairs[k].sec \in S => pairs[k].ref \in Near(D, pairs, S)
          /\ pairs[k].ref \in S => pairs[k].sec \in Near(D, pairs, S)
        BY <1>2 DEF Near
    <2> QED
        BY <1>4, <2>1
<1>5. ASSUME NEW T \in SUBSET D, Closed(T, m, pairs), S \subseteq T,
             NEW e \in Near(D, pairs, S), e \notin S
      PROVE  e \in T
    <2>1. PICK p \in Range(pairs) : (p.ref = e /\ p.sec \in S) \/ (p.sec = e /\ p.ref \in S)
        BY <1>5 DEF Near
    <2>2. PICK k \in 1 .. m : p = pairs[k]
        BY <1>1
    <2> QED
        BY <1>5, <2>1, <2>2 DEF Closed
<1> QED
    BY <1>3, <1>4, <1>5 DEF Closed

\* It is closed after at most as many steps as there are dates, for each step
\* before adds one.
LEMMA ConnectedIs ==
    ASSUME NEW D, IsFiniteSet(D), NEW m \in Nat, NEW pairs, PairsOf(D, m, pairs), NEW d \in D
    PROVE  /\ Connected(D, pairs, d) \in SUBSET D /\ d \in Connected(D, pairs, d)
           /\ Closed(Connected(D, pairs, d), m, pairs)
           /\ \A S \in SUBSET D : Closed(S, m, pairs) /\ d \in S => Connected(D, pairs, d) \subseteq S
<1> DEFINE n == Cardinality(D)
           reach == CHOOSE v : v = [k \in Nat |-> IF k = 0 THEN {d} ELSE Near(D, pairs, v[k - 1])]
           f == [S \in SUBSET D |-> Near(D, pairs, S)]
<1>1. Connected(D, pairs, d) = reach[n]
    BY DEF Connected, Near
<1>2. f \in [SUBSET D -> SUBSET D] /\ {d} \in SUBSET D
    BY NearIsClosed
<1>3. PICK u \in [Nat -> SUBSET D] :
        /\ u[0] = {d} /\ \A k \in Nat \ {0} : u[k] = f[u[k - 1]]
        /\ u = [k \in Nat |-> IF k = 0 THEN {d} ELSE f[u[k - 1]]]
    <2> DEFINE A == SUBSET D
               b == {d}
    <2>1. f \in [A -> A] /\ b \in A
        BY <1>2
    <2> HIDE DEF f, A, b
    <2>2. \E u \in [Nat -> A] :
             /\ u[0] = b /\ \A k \in Nat \ {0} : u[k] = f[u[k - 1]]
             /\ u = [k \in Nat |-> IF k = 0 THEN b ELSE f[u[k - 1]]]
        BY <2>1, IterationExists
    <2> QED
        BY <2>2 DEF A, b
<1>4. u = [k \in Nat |-> IF k = 0 THEN {d} ELSE Near(D, pairs, u[k - 1])]
    <2>1. ASSUME NEW k \in Nat \ {0}
          PROVE  f[u[k - 1]] = Near(D, pairs, u[k - 1])
        <3>1. k - 1 \in Nat
            OBVIOUS
        <3>2. u[k - 1] \in SUBSET D
            BY <1>3, <3>1
        <3> QED
            BY <3>2
    <2> HIDE DEF f
    <2>2. u = [k \in Nat |-> u[k]]
        BY <1>3
    <2>3. \A k \in Nat : u[k] = IF k = 0 THEN {d} ELSE Near(D, pairs, u[k - 1])
        BY <1>3, <2>1
    <2> QED
        BY <2>2, <2>3
<1>5. reach = [k \in Nat |-> IF k = 0 THEN {d} ELSE Near(D, pairs, reach[k - 1])]
    BY <1>4
<1> HIDE DEF reach, f
<1>6. /\ reach[0] = {d}
      /\ \A k \in Nat : reach[k + 1] = Near(D, pairs, reach[k])
    <2>1. \A k \in Nat : k + 1 \in Nat /\ k + 1 # 0 /\ (k + 1) - 1 = k
        OBVIOUS
    <2> QED
        BY <1>5, <2>1
<1>7. n \in Nat
    BY FS_CardinalityType
<1>8. \A T \in SUBSET D : IsFiniteSet(T) /\ Cardinality(T) \in Nat /\ Cardinality(T) <= n
    BY FS_Subset, FS_CardinalityType
<1> DEFINE good == { k \in 0 .. n :
               /\ reach[k] \in SUBSET D /\ d \in reach[k]
               /\ Closed(reach[k], m, pairs) \/ Cardinality(reach[k]) >= k + 1
               /\ \A S \in SUBSET D : Closed(S, m, pairs) /\ d \in S => reach[k] \subseteq S }
<1> HIDE DEF n
<1>9. 0 \in good
    <2>1. Cardinality({d}) = 1
        BY FS_Singleton
    <2>2. Cardinality(reach[0]) >= 0 + 1
        BY <1>6, <2>1
    <2>3. reach[0] \in SUBSET D /\ d \in reach[0]
        BY <1>6
    <2>4. \A S \in SUBSET D : Closed(S, m, pairs) /\ d \in S => reach[0] \subseteq S
        BY <1>6
    <2>5. 0 \in 0 .. n
        BY <1>7
    <2> QED
        BY <2>2, <2>3, <2>4, <2>5
<1>10. ASSUME NEW k \in 0 .. n - 1, k \in good
       PROVE  k + 1 \in good
    <2> DEFINE S == reach[k]
               N == reach[k + 1]
    <2>1. k \in Nat /\ k + 1 \in 0 .. n /\ N = Near(D, pairs, S)
        BY <1>6, <1>7
    <2>2. S \in SUBSET D /\ d \in S
        BY <1>10
    <2>3. N \in SUBSET D /\ S \subseteq N
        <3> HIDE DEF S, N
        <3> QED
            BY <2>1, <2>2, NearIsClosed
    <2>4. \A T \in SUBSET D : Closed(T, m, pairs) /\ d \in T => N \subseteq T
        BY <1>10, <2>1, <2>2, NearIsClosed
    <2>5. Closed(N, m, pairs) \/ Cardinality(N) >= (k + 1) + 1
        <3>1. CASE Closed(S, m, pairs)
            <4>1. N \subseteq S
                BY <2>1, <2>2, <3>1, NearIsClosed
            <4>2. N = S
                BY <2>3, <4>1
            <4> QED
                BY <3>1, <4>2
        <3>2. CASE ~Closed(S, m, pairs)
            <4>1. Cardinality(S) >= k + 1
                BY <1>10, <3>2
            <4>2. N # S
                BY <2>1, <2>2, <3>2, NearIsClosed
            <4>3. Cardinality(S) <= Cardinality(N) /\ Cardinality(N) # Cardinality(S)
                BY <1>8, <2>3, <4>2, FS_Subset
            <4>4. Cardinality(S) \in Nat /\ Cardinality(N) \in Nat
                BY <1>8, <2>2, <2>3
            <4> HIDE DEF S, N
            <4> QED
                BY <2>1, <4>1, <4>3, <4>4
        <3> QED
            BY <3>1, <3>2
    <2> QED
        BY <2>1, <2>2, <2>3, <2>4, <2>5
<1>11. n \in good
    <2> HIDE DEF good
    <2>1. \A k \in 0 .. n : k \in good
        BY <1>7, <1>9, <1>10, Climbs
    <2> QED
        BY <1>7, <2>1
<1>12. Closed(reach[n], m, pairs)
    <2> SUFFICES ASSUME ~Closed(reach[n], m, pairs)
                 PROVE  FALSE
        OBVIOUS
    <2>1. Cardinality(reach[n]) >= n + 1
        BY <1>11
    <2>2. Cardinality(reach[n]) <= n /\ Cardinality(reach[n]) \in Nat
        BY <1>8, <1>11
    <2> QED
        BY <1>7, <2>1, <2>2
<1>13. /\ reach[n] \in SUBSET D /\ d \in reach[n]
       /\ \A S \in SUBSET D : Closed(S, m, pairs) /\ d \in S => reach[n] \subseteq S
    BY <1>11
<1>14. Connected(D, pairs, d) = reach[n]
    BY <1>1 DEF n
<1> QED
    BY <1>12, <1>13, <1>14

\* A component is what its dates are connected to.
RootsFound(D, m, pairs, r) ==
    /\ IsFiniteSet(D) /\ m \in Nat /\ PairsOf(D, m, pairs)
    /\ r \in [D -> D] /\ Classes(D, m, pairs, r)

IsClass(D, pairs, r, d) == { e \in D : r[e] = r[d] } = Connected(D, pairs, d)

LEMMA ClassIsConnected ==
    ASSUME NEW D, NEW m, NEW pairs, NEW r, RootsFound(D, m, pairs, r), NEW d \in D
    PROVE  IsClass(D, pairs, r, d)
<1> DEFINE class == { e \in D : r[e] = r[d] }
           C == Connected(D, pairs, d)
<1>1. /\ C \in SUBSET D /\ d \in C /\ Closed(C, m, pairs)
      /\ \A S \in SUBSET D : Closed(S, m, pairs) /\ d \in S => C \subseteq S
    BY ConnectedIs DEF RootsFound
<1> HIDE DEF C
<1>2. Closed(class, m, pairs)
    BY DEF RootsFound, Closed, Classes, PairsOf
<1>3. C \subseteq class
    BY <1>1, <1>2
<1>4. class \subseteq C
    BY <1>1 DEF Classes, RootsFound
<1> QED
    BY <1>3, <1>4 DEF C, IsClass

\* The components, as they are built and as they are ordered.
Groups(D, r) == { { d \in D : r[d] = x } : x \in D } \ {{}}

BySize(G) == { r \in G \X G : \/ Cardinality(r[1]) > Cardinality(r[2])
                              \/ Cardinality(r[1]) = Cardinality(r[2]) /\ Min(r[1]) < Min(r[2]) }

\* The components: disjoint, so that their earliest dates differ.
LEMMA GroupsAre ==
    ASSUME NEW D, D \in SUBSET Nat, IsFiniteSet(D), NEW r \in [D -> D],
           \A d \in D : r[r[d]] = r[d]
    PROVE  /\ Groups(D, r) = { { e \in D : r[e] = r[d] } : d \in D }
           /\ IsFiniteSet(Groups(D, r)) /\ Groups(D, r) \in SUBSET SUBSET D
           /\ \A g \in Groups(D, r) :
                /\ IsFiniteSet(g) /\ Cardinality(g) \in Nat
                /\ Min(g) \in g /\ Min(g) \in Nat
           /\ \A g, h \in Groups(D, r) : Min(g) = Min(h) => g = h
<1> DEFINE G == Groups(D, r)
<1>1. G = { { e \in D : r[e] = r[d] } : d \in D }
    <2>1. ASSUME NEW g \in G
          PROVE  \E d \in D : g = { e \in D : r[e] = r[d] }
        <3>1. PICK x \in D : g = { e \in D : r[e] = x }
            BY DEF Groups
        <3>2. PICK d \in D : d \in g
            BY <3>1 DEF Groups
        <3>3. r[d] = x
            BY <3>1, <3>2
        <3> QED
            BY <3>1, <3>3
    <2>2. ASSUME NEW d \in D
          PROVE  { e \in D : r[e] = r[d] } \in G
        <3>1. d \in { e \in D : r[e] = r[d] } /\ r[d] \in D
            OBVIOUS
        <3> QED
            BY <3>1 DEF Groups
    <2> HIDE DEF G
    <2>3. G \subseteq { { e \in D : r[e] = r[d] } : d \in D }
        BY <2>1
    <2>4. { { e \in D : r[e] = r[d] } : d \in D } \subseteq G
        BY <2>2
    <2> QED
        BY <2>3, <2>4
<1>2. G \in SUBSET SUBSET D /\ {} \notin G
    BY DEF Groups
<1>3. IsFiniteSet(G)
    <2> HIDE DEF G
    <2> QED
        BY <1>2, FS_SUBSET, FS_Subset
<1>4. ASSUME NEW g \in G
      PROVE  /\ IsFiniteSet(g) /\ Cardinality(g) \in Nat
             /\ Min(g) \in g /\ Min(g) \in Nat
    <2>1. g \in SUBSET D /\ g \in SUBSET Nat /\ g # {}
        BY <1>2
    <2> HIDE DEF G
    <2>2. IsFiniteSet(g)
        BY <2>1, FS_Subset
    <2> QED
        BY <2>1, <2>2, FS_CardinalityType, EarliestIs
<1>5. ASSUME NEW g \in G, NEW h \in G, Min(g) = Min(h)
      PROVE  g = h
    <2>1. PICK a \in D, b \in D : g = { e \in D : r[e] = r[a] } /\ h = { e \in D : r[e] = r[b] }
        BY <1>1
    <2>2. Min(g) \in g /\ Min(g) \in h
        BY <1>4, <1>5
    <2>3. r[a] = r[b]
        <3> HIDE DEF G
        <3> QED
            BY <2>1, <2>2
    <2> QED
        BY <2>1, <2>3
<1> QED
    BY <1>1, <1>2, <1>3, <1>4, <1>5

\* The larger first, then the earlier: an order, which the sizes follow.
LEMMA SizesOrder ==
    ASSUME NEW G, \A g \in G : Cardinality(g) \in Nat /\ Min(g) \in Nat,
           \A g, h \in G : Min(g) = Min(h) => g = h
    PROVE  /\ Ordering(G, BySize(G))
           /\ \A g, h \in G : <<g, h>> \in BySize(G) => Cardinality(h) <= Cardinality(g)
<1>1. \A g, h \in G : <<g, h>> \in BySize(G)
          <=> \/ Cardinality(g) > Cardinality(h)
              \/ Cardinality(g) = Cardinality(h) /\ Min(g) < Min(h)
    BY DEF BySize
<1> DEFINE size == [g \in G |-> Cardinality(g)]
           first == [g \in G |-> Min(g)]
<1>2. size \in [G -> Nat] /\ first \in [G -> Nat]
    OBVIOUS
<1>3. \A g, h \in G : <<g, h>> \in BySize(G)
          <=> size[g] > size[h] \/ (size[g] = size[h] /\ first[g] < first[h])
    BY <1>1
<1>4. \A g, h \in G : first[g] = first[h] => g = h
    OBVIOUS
<1>5. ASSUME NEW g \in G, NEW h \in G, <<g, h>> \in BySize(G)
      PROVE  Cardinality(h) <= Cardinality(g)
    BY <1>1, <1>5
<1> HIDE DEF size, first
<1>6. \A g \in G : <<g, g>> \notin BySize(G)
    BY <1>2, <1>3
<1>7. ASSUME NEW g \in G, NEW h \in G, NEW k \in G,
             <<g, h>> \in BySize(G), <<h, k>> \in BySize(G)
      PROVE  <<g, k>> \in BySize(G)
    <2>1. /\ size[g] \in Nat /\ size[h] \in Nat /\ size[k] \in Nat
          /\ first[g] \in Nat /\ first[h] \in Nat /\ first[k] \in Nat
        BY <1>2
    <2>2. /\ size[g] > size[h] \/ (size[g] = size[h] /\ first[g] < first[h])
          /\ size[h] > size[k] \/ (size[h] = size[k] /\ first[h] < first[k])
        BY <1>3, <1>7
    <2>3. size[g] > size[k] \/ (size[g] = size[k] /\ first[g] < first[k])
        BY <2>1, <2>2
    <2> QED
        BY <1>3, <2>3
<1>8. ASSUME NEW g \in G, NEW h \in G, g # h
      PROVE  <<g, h>> \in BySize(G) \/ <<h, g>> \in BySize(G)
    <2>1. size[g] \in Nat /\ size[h] \in Nat /\ first[g] \in Nat /\ first[h] \in Nat
        BY <1>2
    <2>2. first[g] # first[h]
        BY <1>4, <1>8
    <2>3. \/ size[g] > size[h] \/ (size[g] = size[h] /\ first[g] < first[h])
          \/ size[h] > size[g] \/ (size[h] = size[g] /\ first[h] < first[g])
        BY <2>1, <2>2
    <2> QED
        BY <1>3, <2>3
<1> QED
    BY <1>5, <1>6, <1>7, <1>8 DEF Ordering

\* The components are what the pairs connect, the largest first.
LEMMA ComponentsAre ==
    ASSUME NEW D, D \in SUBSET Nat, IsFiniteSet(D),
           NEW m \in Nat, NEW pairs, PairsOf(D, m, pairs)
    PROVE  /\ Range(ConnectedComponents(D, pairs)) = { Connected(D, pairs, d) : d \in D }
           /\ \A i \in DOMAIN ConnectedComponents(D, pairs) :
                Cardinality(ConnectedComponents(D, pairs)[i])
                    <= Cardinality(ConnectedComponents(D, pairs)[1])
<1>1. PICK r \in [D -> D] :
        /\ \A d \in D : RootOf(LinkedDates(D, pairs), d) = r[d]
        /\ \A d \in D : r[r[d]] = r[d]
        /\ Classes(D, m, pairs, r)
    BY ClassesAreFound
<1> DEFINE G == Groups(D, r)
           q == ConnectedComponents(D, pairs)
<1>2. q = InOrder(G, BySize(G))
    <2>1. \A x \in D : { d \in D : RootOf(LinkedDates(D, pairs), d) = x } = { d \in D : r[d] = x }
        BY <1>1
    <2>2. { { d \in D : RootOf(LinkedDates(D, pairs), d) = x } : x \in D } \ {{}} = G
        <3> DEFINE A == { { d \in D : RootOf(LinkedDates(D, pairs), d) = x } : x \in D }
                   B == { { d \in D : r[d] = x } : x \in D }
        <3>1. ASSUME NEW x \in D PROVE { d \in D : RootOf(LinkedDates(D, pairs), d) = x } \in B
            BY <2>1
        <3>2. ASSUME NEW x \in D PROVE { d \in D : r[d] = x } \in A
            BY <2>1
        <3>3. A \subseteq B
            BY <3>1
        <3>4. B \subseteq A
            BY <3>2
        <3>5. A = B
            BY <3>3, <3>4
        <3> QED
            BY <3>5 DEF Groups
    <2>3. q = InOrder({ { d \in D : RootOf(LinkedDates(D, pairs), d) = x } : x \in D } \ {{}},
                      BySize({ { d \in D : RootOf(LinkedDates(D, pairs), d) = x } : x \in D } \ {{}}))
        BY DEF ConnectedComponents, LinkedDates, BySize
    <2> QED
        BY <2>2, <2>3
<1>3. /\ G = { { e \in D : r[e] = r[d] } : d \in D }
      /\ IsFiniteSet(G) /\ G \in SUBSET SUBSET D
      /\ \A g \in G : Cardinality(g) \in Nat /\ Min(g) \in Nat
      /\ \A g, h \in G : Min(g) = Min(h) => g = h
    BY <1>1, GroupsAre
<1> HIDE DEF G, q
<1>4. /\ Ordering(G, BySize(G))
      /\ \A g, h \in G : <<g, h>> \in BySize(G) => Cardinality(h) <= Cardinality(g)
    BY <1>3, SizesOrder
<1>5. /\ Cardinality(G) \in Nat
      /\ q \in [1 .. Cardinality(G) -> G] /\ Range(q) = G
      /\ \A i, j \in 1 .. Cardinality(G) : i < j => <<q[i], q[j]>> \in BySize(G)
    BY <1>2, <1>3, <1>4, InOrderIs
<1>6. G = { Connected(D, pairs, d) : d \in D }
    <2>1. ASSUME NEW d \in D
          PROVE  { e \in D : r[e] = r[d] } = Connected(D, pairs, d)
        <3>1. RootsFound(D, m, pairs, r)
            BY <1>1 DEF RootsFound
        <3>2. IsClass(D, pairs, r, d)
            BY <3>1, ClassIsConnected
        <3> QED
            BY <3>2 DEF IsClass
    <2>2. { { e \in D : r[e] = r[d] } : d \in D } = { Connected(D, pairs, d) : d \in D }
        BY <2>1
    <2> QED
        BY <1>3, <2>2
<1>7. ASSUME NEW i \in DOMAIN q
      PROVE  Cardinality(q[i]) <= Cardinality(q[1])
    <2>1. i \in 1 .. Cardinality(G) /\ 1 \in 1 .. Cardinality(G)
        BY <1>5
    <2>2. q[i] \in G /\ q[1] \in G
        BY <1>5, <2>1
    <2>3. Cardinality(q[1]) \in Nat /\ Cardinality(q[i]) \in Nat
        BY <1>3, <2>2
    <2>4. CASE i = 1
        BY <2>3, <2>4
    <2>5. CASE i # 1
        <3>1. 1 < i
            BY <1>5, <2>1, <2>5
        <3>2. <<q[1], q[i]>> \in BySize(G)
            BY <1>5, <2>1, <3>1
        <3> QED
            BY <1>4, <2>2, <3>2
    <2> QED
        BY <2>4, <2>5
<1> QED
    BY <1>5, <1>6, <1>7 DEF q

\* Breadth first: one step, and what every date that is found has by then.
KnownPairs(pairs) == { p \in Range(pairs) : p.perp # Unknown }

PairEnds(pairs) == { p.ref : p \in KnownPairs(pairs) } \union { p.sec : p \in KnownPairs(pairs) }

Via(pairs, found, d) == { p \in KnownPairs(pairs) : \/ p.sec = d /\ found[p.ref] # Unknown
                                                    \/ p.ref = d /\ found[p.sec] # Unknown }

Wave(pairs, found) ==
    [d \in Days |->
        IF found[d] # Unknown \/ Via(pairs, found, d) = {} THEN found[d]
        ELSE LET p == CHOOSE q \in Via(pairs, found, d) : TRUE
             IN  IF p.sec = d THEN found[p.ref] + p.perp ELSE found[p.sec] - p.perp]

PathsFrom(first, perps) ==
    { v \in Baselines : \A d \in Days : v[d] # Unknown =>
                            perps[d] \in Int /\ v[d] = perps[d] - perps[first] }

\* Every known pair has the difference of the baselines of its dates.
Differences(pairs, perps) ==
    \A p \in KnownPairs(pairs) :
        /\ p.ref \in Days /\ p.sec \in Days
        /\ perps[p.ref] \in Int /\ perps[p.sec] \in Int
        /\ p.perp = perps[p.sec] - perps[p.ref]

\* A step keeps what the found dates have.
LEMMA WaveAdds ==
    ASSUME NEW perps \in Baselines, NEW pairs, Differences(pairs, perps),
           NEW first \in Days, perps[first] \in Int,
           NEW v \in PathsFrom(first, perps)
    PROVE  Wave(pairs, v) \in PathsFrom(first, perps)
<1> DEFINE w == Wave(pairs, v)
<1>1. /\ v \in Baselines
      /\ \A d \in Days : v[d] # Unknown => perps[d] \in Int /\ v[d] = perps[d] - perps[first]
    BY DEF PathsFrom
<1>2. Unknown \notin Int
    BY NetworkAssumption
<1>3. ASSUME NEW d \in Days
      PROVE  /\ w[d] \in Int \union {Unknown}
             /\ w[d] # Unknown => perps[d] \in Int /\ w[d] = perps[d] - perps[first]
    <2>1. CASE v[d] # Unknown \/ Via(pairs, v, d) = {}
        <3>1. w[d] = v[d]
            BY <2>1 DEF Wave
        <3>2. v[d] \in Int \union {Unknown}
            BY <1>1 DEF Baselines
        <3> QED
            BY <1>1, <3>1, <3>2
    <2>2. CASE v[d] = Unknown /\ Via(pairs, v, d) # {}
        <3> DEFINE p == CHOOSE q \in Via(pairs, v, d) : TRUE
        <3>1. w[d] = IF p.sec = d THEN v[p.ref] + p.perp ELSE v[p.sec] - p.perp
            BY <2>2 DEF Wave
        <3>2. p \in Via(pairs, v, d)
            BY <2>2
        <3> HIDE DEF p
        <3>3. /\ p.ref \in Days /\ p.sec \in Days
              /\ perps[p.ref] \in Int /\ perps[p.sec] \in Int
              /\ p.perp = perps[p.sec] - perps[p.ref]
              /\ \/ p.sec = d /\ v[p.ref] # Unknown
                 \/ p.ref = d /\ v[p.sec] # Unknown
            BY <3>2 DEF Via, Differences
        <3>4. CASE p.sec = d
            <4>1. v[p.ref] # Unknown
                BY <2>2, <3>3, <3>4
            <4>2. v[p.ref] = perps[p.ref] - perps[first]
                BY <1>1, <3>3, <4>1
            <4>3. w[d] = (perps[p.ref] - perps[first]) + (perps[d] - perps[p.ref])
                BY <3>1, <3>3, <3>4, <4>2
            <4>4. perps[d] \in Int /\ perps[p.ref] \in Int
                BY <3>3, <3>4
            <4> QED
                BY <4>3, <4>4
        <3>5. CASE p.sec # d
            <4>1. p.ref = d /\ v[p.sec] # Unknown
                BY <3>3, <3>5
            <4>2. v[p.sec] = perps[p.sec] - perps[first]
                BY <1>1, <3>3, <4>1
            <4>3. w[d] = (perps[p.sec] - perps[first]) - (perps[p.sec] - perps[d])
                BY <3>1, <3>3, <3>5, <4>1, <4>2
            <4>4. perps[d] \in Int /\ perps[p.sec] \in Int
                BY <3>3, <4>1
            <4> QED
                BY <4>3, <4>4
        <3> QED
            BY <3>4, <3>5
    <2> QED
        BY <2>1, <2>2
<1>4. w \in Baselines
    <2>1. w = [d \in Days |-> w[d]]
        BY DEF Wave
    <2> HIDE DEF w
    <2> QED
        BY <1>3, <2>1 DEF Baselines
<1> QED
    BY <1>3, <1>4 DEF PathsFrom

\* The first date is one of a known pair: its baseline is known.
LEMMA EndsAre ==
    ASSUME NEW perps, NEW pairs, Differences(pairs, perps), KnownPairs(pairs) # {}
    PROVE  /\ Min(PairEnds(pairs)) \in Days /\ perps[Min(PairEnds(pairs))] \in Int
           /\ Cardinality(PairEnds(pairs)) \in Nat
<1>1. \A d \in PairEnds(pairs) : d \in Days /\ perps[d] \in Int
    BY DEF PairEnds, Differences
<1>2. PairEnds(pairs) # {}
    BY DEF PairEnds
<1>3. Days \subseteq Nat /\ IsFiniteSet(Days)
    BY NetworkAssumption
<1>4. PairEnds(pairs) \in SUBSET Nat /\ PairEnds(pairs) \in SUBSET Days
    BY <1>1, <1>3
<1>5. Min(PairEnds(pairs)) \in PairEnds(pairs)
    BY <1>2, <1>4, EarliestIs
<1>6. IsFiniteSet(PairEnds(pairs))
    BY <1>3, <1>4, FS_Subset
<1> QED
    BY <1>1, <1>5, <1>6, FS_CardinalityType

\* What is found reproduces the baselines of the acquisitions.
LEMMA IntegrateAdds ==
    ASSUME NEW perps \in Baselines, NEW pairs, Differences(pairs, perps)
    PROVE  /\ Integrate(pairs) \in Baselines
           /\ \A d, e \in { x \in Days : Integrate(pairs)[x] # Unknown } :
                Integrate(pairs)[e] - Integrate(pairs)[d] = perps[e] - perps[d]
<1>1. CASE KnownPairs(pairs) = {}
    <2>1. Integrate(pairs) = NoPerps
        BY <1>1 DEF Integrate, KnownPairs
    <2>2. \A x \in Days : NoPerps[x] = Unknown
        BY DEF NoPerps
    <2> QED
        BY <2>1, <2>2, UnknownBaselines
<1>2. CASE KnownPairs(pairs) # {}
    <2> DEFINE first == Min(PairEnds(pairs))
               n == Cardinality(PairEnds(pairs))
               A == PathsFrom(first, perps)
               b == [d \in Days |-> IF d = first THEN 0 ELSE Unknown]
               f == [v \in A |-> Wave(pairs, v)]
               wave == CHOOSE w : w = [k \in Nat |-> IF k = 0 THEN b ELSE Wave(pairs, w[k - 1])]
    <2>1. first \in Days /\ perps[first] \in Int /\ n \in Nat
        BY <1>2, EndsAre
    <2>2. Integrate(pairs) = wave[n]
        BY <1>2 DEF Integrate, KnownPairs, PairEnds, Via, Wave
    <2> HIDE DEF first, n
    <2>3. b \in A
        BY <2>1 DEF PathsFrom, Baselines
    <2>4. f \in [A -> A]
        BY <2>1, WaveAdds
    <2>5. PICK u \in [Nat -> A] :
            /\ u[0] = b /\ \A k \in Nat \ {0} : u[k] = f[u[k - 1]]
            /\ u = [k \in Nat |-> IF k = 0 THEN b ELSE f[u[k - 1]]]
        <3> HIDE DEF f, A, b
        <3> QED
            BY <2>3, <2>4, IterationExists
    <2>6. u = [k \in Nat |-> IF k = 0 THEN b ELSE Wave(pairs, u[k - 1])]
        <3>1. ASSUME NEW k \in Nat \ {0}
              PROVE  f[u[k - 1]] = Wave(pairs, u[k - 1])
            <4>1. k - 1 \in Nat
                OBVIOUS
            <4>2. u[k - 1] \in A
                BY <2>5, <4>1
            <4> QED
                BY <4>2
        <3> HIDE DEF f, b, A
        <3>2. u = [k \in Nat |-> u[k]]
            BY <2>5
        <3>3. \A k \in Nat : u[k] = IF k = 0 THEN b ELSE Wave(pairs, u[k - 1])
            BY <2>5, <3>1
        <3> QED
            BY <3>2, <3>3
    <2>7. wave = [k \in Nat |-> IF k = 0 THEN b ELSE Wave(pairs, wave[k - 1])]
        <3> HIDE DEF b
        <3> QED
            BY <2>6
    <2> HIDE DEF wave, b, A, f
    <2>8. wave[0] = b /\ \A k \in Nat : wave[k + 1] = Wave(pairs, wave[k])
        <3>1. \A k \in Nat : k + 1 \in Nat /\ k + 1 # 0 /\ (k + 1) - 1 = k
            OBVIOUS
        <3> QED
            BY <2>7, <3>1
    <2> DEFINE good == { k \in 0 .. n : wave[k] \in A }
    <2>9. 0 \in good
        BY <2>1, <2>3, <2>8
    <2>10. ASSUME NEW k \in 0 .. n - 1, k \in good
           PROVE  k + 1 \in good
        <3>1. k \in Nat /\ k + 1 \in 0 .. n /\ wave[k] \in A
            BY <2>1, <2>10
        <3>2. Wave(pairs, wave[k]) \in A
            BY <2>1, <3>1, WaveAdds DEF A
        <3> QED
            BY <2>8, <3>1, <3>2
    <2>11. wave[n] \in A
        <3> HIDE DEF good
        <3>1. \A k \in 0 .. n : k \in good
            BY <2>1, <2>9, <2>10, Climbs
        <3>2. n \in good
            BY <2>1, <3>1
        <3> QED
            BY <3>2 DEF good
    <2>12. /\ Integrate(pairs) \in Baselines
           /\ \A d \in Days : Integrate(pairs)[d] # Unknown =>
                perps[d] \in Int /\ Integrate(pairs)[d] = perps[d] - perps[first]
        BY <2>2, <2>11 DEF A, PathsFrom
    <2>13. ASSUME NEW d \in { x \in Days : Integrate(pairs)[x] # Unknown },
                  NEW e \in { x \in Days : Integrate(pairs)[x] # Unknown }
           PROVE  Integrate(pairs)[e] - Integrate(pairs)[d] = perps[e] - perps[d]
        <3>1. /\ perps[d] \in Int /\ Integrate(pairs)[d] = perps[d] - perps[first]
              /\ perps[e] \in Int /\ Integrate(pairs)[e] = perps[e] - perps[first]
            BY <2>12
        <3> QED
            BY <2>1, <3>1
    <2> QED
        BY <2>12, <2>13
<1> QED
    BY <1>1, <1>2

\* A sum over a set of bursts: a number, and 0 over none.
OneOf(s) == CHOOSE x \in s : TRUE

Sums(B, n, h) ==
    /\ h \in [{ s \in SUBSET B : Cardinality(s) <= n } -> Nat]
    /\ \A s \in SUBSET B : Cardinality(s) <= n =>
          h[s] = IF s = {} THEN 0 ELSE Share[OneOf(s)] + h[s \ {OneOf(s)}]

\* Without one of them there is one burst less.
LEMMA OneLess ==
    ASSUME NEW B \in SUBSET Bursts, NEW s \in SUBSET B
    PROVE  /\ Cardinality(s) \in Nat /\ Cardinality(s) <= Cardinality(B)
           /\ s # {} => /\ OneOf(s) \in s /\ Share[OneOf(s)] \in Nat
                        /\ s \ {OneOf(s)} \in SUBSET B
                        /\ Cardinality(s \ {OneOf(s)}) = Cardinality(s) - 1
                        /\ Cardinality(s) # 0
           /\ s = {} => Cardinality(s) = 0
<1>1. IsFiniteSet(Bursts) /\ Share \in [Bursts -> Nat]
    BY NetworkAssumption
<1>2. IsFiniteSet(B)
    BY <1>1, FS_Subset
<1>3. IsFiniteSet(s) /\ Cardinality(s) <= Cardinality(B)
    BY <1>2, FS_Subset
<1>4. Cardinality(s) \in Nat /\ (Cardinality(s) = 0 <=> s = {})
    BY <1>3, FS_CardinalityType, FS_EmptySet
<1>5. s # {} => OneOf(s) \in s
    BY DEF OneOf
<1>6. s # {} => Cardinality(s \ {OneOf(s)}) = Cardinality(s) - 1
    BY <1>3, <1>5, FS_RemoveElement
<1> QED
    BY <1>1, <1>3, <1>4, <1>5, <1>6

\* The sums exist for the sets of every size.
LEMMA SumsExist ==
    ASSUME NEW B \in SUBSET Bursts, NEW n \in Nat
    PROVE  \E h : Sums(B, n, h)
<1> DEFINE good == { k \in 0 .. n : \E h : Sums(B, k, h) }
<1>1. 0 \in good
    <2> DEFINE h == [s \in { x \in SUBSET B : Cardinality(x) <= 0 } |-> 0]
    <2>1. ASSUME NEW s \in SUBSET B, Cardinality(s) <= 0
          PROVE  s = {} /\ h[s] = 0
        <3>1. Cardinality(s) \in Nat /\ (s # {} => Cardinality(s) # 0)
            BY OneLess
        <3> QED
            BY <2>1, <3>1
    <2>2. h \in [{ x \in SUBSET B : Cardinality(x) <= 0 } -> Nat]
        OBVIOUS
    <2> HIDE DEF h
    <2>3. Sums(B, 0, h)
        BY <2>1, <2>2 DEF Sums
    <2> QED
        BY <2>3
<1>2. ASSUME NEW k \in 0 .. n - 1, k \in good
      PROVE  k + 1 \in good
    <2>1. PICK h : Sums(B, k, h)
        BY <1>2
    <2> DEFINE S == { s \in SUBSET B : Cardinality(s) <= k + 1 }
               g == [s \in S |-> IF s = {} THEN 0
                                 ELSE Share[OneOf(s)] + h[s \ {OneOf(s)}]]
    <2>2. k \in Nat
        OBVIOUS
    <2>3. /\ \A s \in SUBSET B : Cardinality(s) <= k => h[s] \in Nat
          /\ \A s \in SUBSET B : Cardinality(s) <= k =>
                h[s] = IF s = {} THEN 0 ELSE Share[OneOf(s)] + h[s \ {OneOf(s)}]
        BY <2>1 DEF Sums
    <2>4. ASSUME NEW s \in S, s # {}
          PROVE  /\ s \ {OneOf(s)} \in SUBSET B /\ Cardinality(s \ {OneOf(s)}) <= k
                 /\ Share[OneOf(s)] \in Nat
        <3>1. /\ Cardinality(s) \in Nat /\ s \ {OneOf(s)} \in SUBSET B
              /\ Cardinality(s \ {OneOf(s)}) = Cardinality(s) - 1
              /\ Share[OneOf(s)] \in Nat
            BY <2>4, OneLess
        <3>2. Cardinality(s) <= k + 1
            OBVIOUS
        <3> QED
            BY <2>2, <3>1, <3>2
    <2>5. \A s \in S : g[s] = IF s = {} THEN 0 ELSE Share[OneOf(s)] + h[s \ {OneOf(s)}]
        OBVIOUS
    <2>6. ASSUME NEW s \in S
          PROVE  g[s] \in Nat
        <3>1. CASE s = {}
            BY <2>5, <3>1
        <3>2. CASE s # {}
            <4>1. h[s \ {OneOf(s)}] \in Nat /\ Share[OneOf(s)] \in Nat
                BY <2>3, <2>4, <3>2
            <4>2. g[s] = Share[OneOf(s)] + h[s \ {OneOf(s)}]
                BY <2>5, <3>2
            <4> HIDE DEF g, S
            <4> QED
                BY <4>1, <4>2
        <3> QED
            BY <3>1, <3>2
    <2>7. ASSUME NEW s \in SUBSET B, Cardinality(s) <= k
          PROVE  g[s] = h[s]
        <3>1. s \in S
            <4>1. Cardinality(s) \in Nat
                BY OneLess
            <4> QED
                BY <2>2, <2>7, <4>1
        <3> QED
            BY <2>3, <2>5, <2>7, <3>1
    <2>8. ASSUME NEW s \in SUBSET B, Cardinality(s) <= k + 1
          PROVE  g[s] = IF s = {} THEN 0 ELSE Share[OneOf(s)] + g[s \ {OneOf(s)}]
        <3>1. s \in S
            BY <2>8
        <3>2. s # {} => g[s \ {OneOf(s)}] = h[s \ {OneOf(s)}]
            BY <2>4, <2>7, <3>1
        <3> QED
            BY <2>5, <3>1, <3>2
    <2>9. g \in [S -> Nat]
        <3>1. g = [s \in S |-> g[s]]
            OBVIOUS
        <3> HIDE DEF g, S
        <3> QED
            BY <2>6, <3>1
    <2>10. Sums(B, k + 1, g)
        <3> HIDE DEF g
        <3> QED
            BY <2>8, <2>9 DEF Sums
    <2> QED
        BY <2>2, <2>10
<1>3. n \in good
    <2> HIDE DEF good
    <2>1. \A k \in 0 .. n : k \in good
        BY <1>1, <1>2, Climbs
    <2> QED
        BY <2>1
<1> QED
    BY <1>3

\* What a set of bursts covers is a number, and 0 if it is empty.
LEMMA CoveredIs ==
    ASSUME NEW B \in SUBSET Bursts
    PROVE  Covered(B) \in Nat /\ (B = {} => Covered(B) = 0)
<1> DEFINE n == Cardinality(B)
           iter == CHOOSE v : v = [s \in SUBSET B |->
                      IF s = {} THEN 0 ELSE Share[OneOf(s)] + v[s \ {OneOf(s)}]]
<1>1. Covered(B) = iter[B]
    BY DEF Covered, MapThenSumSet, MapThenFoldSet, OneOf
<1>2. n \in Nat /\ \A s \in SUBSET B : Cardinality(s) <= n /\ Cardinality(s) \in Nat
    BY OneLess
<1> HIDE DEF n
<1>3. PICK h : Sums(B, n, h)
    BY <1>2, SumsExist
<1>4. h = [s \in SUBSET B |-> IF s = {} THEN 0 ELSE Share[OneOf(s)] + h[s \ {OneOf(s)}]]
    <2>1. { s \in SUBSET B : Cardinality(s) <= n } = SUBSET B
        BY <1>2
    <2>2. h \in [SUBSET B -> Nat]
        BY <1>3, <2>1 DEF Sums
    <2>3. h = [s \in SUBSET B |-> h[s]]
        BY <2>2
    <2>4. \A s \in SUBSET B : h[s] = IF s = {} THEN 0 ELSE Share[OneOf(s)] + h[s \ {OneOf(s)}]
        BY <1>2, <1>3 DEF Sums
    <2> QED
        BY <2>3, <2>4
<1>5. iter = [s \in SUBSET B |-> IF s = {} THEN 0 ELSE Share[OneOf(s)] + iter[s \ {OneOf(s)}]]
    BY <1>4
<1> HIDE DEF iter
<1>6. \A s \in SUBSET B : iter[s] = IF s = {} THEN 0 ELSE Share[OneOf(s)] + iter[s \ {OneOf(s)}]
    BY <1>5
<1> DEFINE good == { k \in 0 .. n : \A s \in SUBSET B : Cardinality(s) = k => iter[s] \in Nat }
<1>7. 0 \in good
    <2>1. \A s \in SUBSET B : Cardinality(s) = 0 => s = {}
        BY OneLess
    <2>2. iter[{}] = 0
        BY <1>6
    <2>3. \A s \in SUBSET B : Cardinality(s) = 0 => iter[s] \in Nat
        BY <2>1, <2>2
    <2>4. 0 \in 0 .. n
        BY <1>2
    <2> QED
        BY <2>3, <2>4
<1>8. ASSUME NEW k \in 0 .. n - 1, k \in good
      PROVE  k + 1 \in good
    <2>1. k \in Nat /\ k + 1 \in 0 .. n /\ k + 1 # 0
        BY <1>2
    <2>2. ASSUME NEW s \in SUBSET B, Cardinality(s) = k + 1
          PROVE  iter[s] \in Nat
        <3>1. s # {}
            BY <2>1, <2>2, OneLess
        <3>2. /\ s \ {OneOf(s)} \in SUBSET B /\ Share[OneOf(s)] \in Nat
              /\ Cardinality(s \ {OneOf(s)}) = (k + 1) - 1
            BY <2>2, <3>1, OneLess
        <3>3. iter[s \ {OneOf(s)}] \in Nat
            BY <1>8, <2>1, <3>2
        <3>4. iter[s] = Share[OneOf(s)] + iter[s \ {OneOf(s)}]
            BY <1>6, <3>1
        <3> QED
            BY <3>2, <3>3, <3>4
    <2> QED
        BY <2>1, <2>2
<1>9. iter[B] \in Nat
    <2>1. n \in good
        <3> HIDE DEF good
        <3>1. \A k \in 0 .. n : k \in good
            BY <1>2, <1>7, <1>8, Climbs
        <3> QED
            BY <1>2, <3>1
    <2> QED
        BY <2>1 DEF n
<1> QED
    BY <1>1, <1>6, <1>9

\* A rectangle with bursts has dates.
LEMMA RectangleIs ==
    ASSUME NEW acquired \in [Days -> SUBSET Bursts]
    PROVE  /\ Rectangle(acquired).dates \in SUBSET Days
           /\ Rectangle(acquired).bursts \in SUBSET Bursts
           /\ Rectangle(acquired).bursts # {} => Rectangle(acquired).dates # {}
<1> DEFINE D == { d \in Days : acquired[d] # {} }
           all == UNION { acquired[d] : d \in D }
           common == { b \in all : \A d \in D : b \in acquired[d] }
           complete == { d \in D : all \subseteq acquired[d] }
           a == Covered(common)
           b == IF complete = {} THEN 0 ELSE Covered(all)
           wide == \/ a >= MinCoverage
                   \/ a > b
                   \/ a = b /\ Cardinality(D) >= Cardinality(complete)
<1>1. Rectangle(acquired) = IF wide THEN [dates |-> D, bursts |-> common]
                                    ELSE [dates |-> complete, bursts |-> all]
    BY DEF Rectangle
<1>2. D \in SUBSET Days /\ complete \in SUBSET Days
    OBVIOUS
<1>3. all \in SUBSET Bursts /\ common \in SUBSET Bursts
    OBVIOUS
<1>4. common # {} => D # {}
    OBVIOUS
<1>5. complete = {} => wide
    <2> SUFFICES ASSUME complete = {}
                 PROVE  wide
        OBVIOUS
    <2>1. b = 0
        OBVIOUS
    <2>2. a \in Nat
        BY <1>3, CoveredIs
    <2>3. Cardinality(complete) = 0
        BY FS_EmptySet
    <2>4. Cardinality(D) \in Nat
        BY <1>2, NetworkAssumption, FS_Subset, FS_CardinalityType
    <2> HIDE DEF a, b, D, complete
    <2> QED
        BY <2>1, <2>2, <2>3, <2>4
<1> HIDE DEF D, all, common, complete, wide
<1> QED
    BY <1>1, <1>2, <1>3, <1>4, <1>5

\* Ranks are compared number by number.
Ranks == Int \X Int \X Int \X Int

\* The comparison, written out.
LEMMA EarlierIs ==
    ASSUME NEW r \in Ranks, NEW q \in Ranks
    PROVE  Earlier(r, q) <=> \/ r[1] < q[1]
                             \/ r[1] = q[1] /\ r[2] < q[2]
                             \/ r[1] = q[1] /\ r[2] = q[2] /\ r[3] < q[3]
                             \/ r[1] = q[1] /\ r[2] = q[2] /\ r[3] = q[3] /\ r[4] < q[4]
<1>1. 1 .. 4 = {1, 2, 3, 4} /\ 1 .. (1 - 1) = {} /\ 1 .. (2 - 1) = {1}
      /\ 1 .. (3 - 1) = {1, 2} /\ 1 .. (4 - 1) = {1, 2, 3}
    OBVIOUS
<1>2. Earlier(r, q) <=> \/ r[1] < q[1] /\ \A j \in {} : r[j] = q[j]
                        \/ r[2] < q[2] /\ \A j \in {1} : r[j] = q[j]
                        \/ r[3] < q[3] /\ \A j \in {1, 2} : r[j] = q[j]
                        \/ r[4] < q[4] /\ \A j \in {1, 2, 3} : r[j] = q[j]
    BY <1>1, Zenon DEF Earlier
<1> QED
    BY <1>2

\* It is a strict order.
LEMMA RanksAreOrdered ==
    ASSUME NEW r \in Ranks, NEW q \in Ranks, NEW s \in Ranks
    PROVE  /\ ~Earlier(r, r)
           /\ Earlier(r, q) /\ Earlier(q, s) => Earlier(r, s)
<1>1. /\ r[1] \in Int /\ r[2] \in Int /\ r[3] \in Int /\ r[4] \in Int
      /\ q[1] \in Int /\ q[2] \in Int /\ q[3] \in Int /\ q[4] \in Int
      /\ s[1] \in Int /\ s[2] \in Int /\ s[3] \in Int /\ s[4] \in Int
    BY DEF Ranks
<1>2. ~Earlier(r, r)
    BY <1>1, EarlierIs
<1>3. ASSUME Earlier(r, q), Earlier(q, s)
      PROVE  Earlier(r, s)
    <2>1. \/ r[1] < q[1]
          \/ r[1] = q[1] /\ r[2] < q[2]
          \/ r[1] = q[1] /\ r[2] = q[2] /\ r[3] < q[3]
          \/ r[1] = q[1] /\ r[2] = q[2] /\ r[3] = q[3] /\ r[4] < q[4]
        BY <1>3, EarlierIs
    <2>2. \/ q[1] < s[1]
          \/ q[1] = s[1] /\ q[2] < s[2]
          \/ q[1] = s[1] /\ q[2] = s[2] /\ q[3] < s[3]
          \/ q[1] = s[1] /\ q[2] = s[2] /\ q[3] = s[3] /\ q[4] < s[4]
        BY <1>3, EarlierIs
    <2>3. \/ r[1] < s[1]
          \/ r[1] = s[1] /\ r[2] < s[2]
          \/ r[1] = s[1] /\ r[2] = s[2] /\ r[3] < s[3]
          \/ r[1] = s[1] /\ r[2] = s[2] /\ r[3] = s[3] /\ r[4] < s[4]
        BY <1>1, <2>1, <2>2
    <2> QED
        BY <2>3, EarlierIs
<1> QED
    BY <1>2, <1>3

\* What is ranked: a candidate with bursts of the search and pairs of its
\* dates.
Ranked(c) ==
    /\ c.bursts \in SUBSET Bursts /\ c.dates \in SUBSET Days
    /\ \A p \in Range(c.pairs) : p.ref \in Days /\ p.sec \in Days

\* A rank has four numbers: there are finitely many warnings.
LEMMA RankIs ==
    ASSUME NEW c, Ranked(c)
    PROVE  Rank(c) \in Ranks
<1> DEFINE DD == Days \union {0}
           codes == {"SEL-04", "SEL-06", "SEL-07"}
           T == codes \X (DD \X DD)
           f == [x \in T |-> <<x[1], x[2][1], x[2][2]>>]
           W == { <<x[1], x[2][1], x[2][2]>> : x \in T }
<1>1. IsFiniteSet(T)
    <2>1. IsFiniteSet(Days)
        BY NetworkAssumption
    <2>2. IsFiniteSet(DD)
        BY <2>1, FS_AddElement
    <2>3. IsFiniteSet(codes)
        <3>1. IsFiniteSet({"SEL-04"})
            BY FS_Singleton
        <3>2. IsFiniteSet({"SEL-04"} \union {"SEL-06"})
            BY <3>1, FS_AddElement
        <3>3. IsFiniteSet(({"SEL-04"} \union {"SEL-06"}) \union {"SEL-07"})
            BY <3>2, FS_AddElement
        <3>4. codes = ({"SEL-04"} \union {"SEL-06"}) \union {"SEL-07"}
            OBVIOUS
        <3> QED
            BY <3>3, <3>4
    <2> HIDE DEF DD, codes
    <2>4. IsFiniteSet(DD \X DD)
        BY <2>2, FS_Product
    <2> QED
        BY <2>3, <2>4, FS_Product
<1>2. IsFiniteSet(W)
    <2> HIDE DEF T
    <2>1. f \in Surjection(T, W)
        BY DEF Surjection
    <2> QED
        BY <1>1, <2>1, FS_Surjection
<1>3. \A code \in codes, d \in DD, e \in DD : <<code, d, e>> \in W
    <2>1. ASSUME NEW code \in codes, NEW d \in DD, NEW e \in DD
          PROVE  <<code, d, e>> \in W
        <3> DEFINE x == <<code, <<d, e>>>>
        <3>1. x \in T /\ <<code, d, e>> = <<x[1], x[2][1], x[2][2]>>
            OBVIOUS
        <3> HIDE DEF x, T
        <3> QED
            BY <3>1
    <2> QED
        BY <2>1
<1>4. Warnings(c) \subseteq W
    <2>1. ASSUME NEW w \in Warnings(c)
          PROVE  \E code \in codes, d \in DD, e \in DD : w = <<code, d, e>>
        BY DEF Warnings, Ranked
    <2> HIDE DEF W, codes, DD
    <2> QED
        BY <1>3, <2>1
<1>5. Cardinality(Warnings(c)) \in Nat
    BY <1>2, <1>4, FS_Subset, FS_CardinalityType
<1>6. Covered(c.bursts) \in Nat
    BY CoveredIs DEF Ranked
<1>7. Cardinality(c.dates) \in Nat
    BY NetworkAssumption, FS_Subset, FS_CardinalityType DEF Ranked
<1> DEFINE split == IF Len(c.components) > 1 THEN 1 ELSE 0
<1>8. split \in Int
    OBVIOUS
<1>9. Rank(c) = <<0 - Covered(c.bursts), 0 - Cardinality(c.dates), split, Cardinality(Warnings(c))>>
    BY DEF Rank
<1> HIDE DEF split
<1> QED
    BY <1>5, <1>6, <1>7, <1>8, <1>9 DEF Ranks

\* The candidate of the lowest rank is one of those that are ranked.
LEMMA BestIs ==
    ASSUME NEW able \in SUBSET Orbits, able # {}, NEW cs,
           \A o \in able : Ranked(cs[o])
    PROVE  LET best == { o \in able : \A q \in able : ~Earlier(Rank(cs[q]), Rank(cs[o])) }
           IN  Min(best) \in able
<1> DEFINE best == { o \in able : \A q \in able : ~Earlier(Rank(cs[q]), Rank(cs[o])) }
           R == { p \in able \X able : Earlier(Rank(cs[p[1]]), Rank(cs[p[2]])) }
<1>1. IsFiniteSet(able) /\ able \in SUBSET Nat
    BY NetworkAssumption, FS_Subset
<1>2. \A o \in able : Rank(cs[o]) \in Ranks
    BY RankIs
<1>3. \A o, q \in able : <<o, q>> \in R <=> Earlier(Rank(cs[o]), Rank(cs[q]))
    OBVIOUS
<1> HIDE DEF R
<1>4. \A o \in able : <<o, o>> \notin R
    BY <1>2, <1>3, RanksAreOrdered
<1>5. \A o, q, s \in able : <<o, q>> \in R /\ <<q, s>> \in R => <<o, s>> \in R
    BY <1>2, <1>3, RanksAreOrdered
<1>6. \E o \in able : \A q \in able : <<q, o>> \notin R
    BY <1>1, <1>4, <1>5, FirstOfSome
<1>7. best # {} /\ best \in SUBSET able
    BY <1>3, <1>6
<1>8. best \in SUBSET Nat
    BY <1>1, <1>7
<1> HIDE DEF best
<1>9. Min(best) \in able
    BY <1>7, <1>8, EarliestIs
<1> QED
    BY <1>9 DEF best

\* The pairs of a network, before and after they have their baselines.
PlannedPairs(D, n, pairs, based, perps) ==
    /\ DOMAIN pairs = 1 .. n /\ DOMAIN based = 1 .. n
    /\ \A k \in 1 .. n :
         /\ pairs[k].ref \in D /\ pairs[k].sec \in D
         /\ based[k].ref = pairs[k].ref /\ based[k].sec = pairs[k].sec
         /\ based[k] = PairOf(pairs[k].ref, pairs[k].sec, perps)
         /\ IF perps[pairs[k].ref] = Unknown \/ perps[pairs[k].sec] = Unknown
            THEN based[k].perp = Unknown
            ELSE /\ perps[pairs[k].ref] \in Int /\ perps[pairs[k].sec] \in Int
                 /\ based[k].perp = perps[pairs[k].sec] - perps[pairs[k].ref]

LEMMA PlannedAre ==
    ASSUME NEW D \in SUBSET Days, NEW method, NEW perps \in Baselines,
           NEW pairs, pairs = BuildNetwork(D, method, NoPerps),
           NEW based, based = WithBaselines(pairs, perps)
    PROVE  \E n \in Nat : PlannedPairs(D, n, pairs, based, perps)
<1> DEFINE P == PairedDates(D, method, NoPerps)
           n == Cardinality(P)
<1>1. n \in Nat
    BY NetworkPairs
<1>2. /\ DOMAIN pairs = 1 .. n /\ DOMAIN based = 1 .. n
      /\ \A k \in 1 .. n :
           /\ Listed(P)[k] \in P
           /\ pairs[k].ref = Listed(P)[k][1] /\ pairs[k].sec = Listed(P)[k][2]
           /\ based[k] = PairOf(Listed(P)[k][1], Listed(P)[k][2], perps)
           /\ based[k].ref = pairs[k].ref /\ based[k].sec = pairs[k].sec
    BY BasedPairs
<1>3. \A p \in P : p[1] \in D /\ p[2] \in D /\ p[1] < p[2]
    BY PairedAre
<1>4. ASSUME NEW k \in 1 .. n
      PROVE  /\ pairs[k].ref \in D /\ pairs[k].sec \in D
             /\ based[k].ref = pairs[k].ref /\ based[k].sec = pairs[k].sec
             /\ based[k] = PairOf(pairs[k].ref, pairs[k].sec, perps)
             /\ IF perps[pairs[k].ref] = Unknown \/ perps[pairs[k].sec] = Unknown
                THEN based[k].perp = Unknown
                ELSE /\ perps[pairs[k].ref] \in Int /\ perps[pairs[k].sec] \in Int
                     /\ based[k].perp = perps[pairs[k].sec] - perps[pairs[k].ref]
    <2> DEFINE d == pairs[k].ref
               e == pairs[k].sec
    <2>1. /\ d \in D /\ e \in D /\ d < e
          /\ based[k].ref = d /\ based[k].sec = e
        BY <1>2, <1>3
    <2>2. based[k] = PairOf(d, e, perps)
        BY <1>2
    <2>3. d \in Days /\ e \in Days
        BY <2>1
    <2> HIDE DEF d, e
    <2>4. IF perps[d] = Unknown \/ perps[e] = Unknown
          THEN PairOf(d, e, perps).perp = Unknown
          ELSE /\ perps[d] \in Int /\ perps[e] \in Int
               /\ PairOf(d, e, perps).perp = perps[e] - perps[d]
        BY <2>1, <2>3, PairIs
    <2>5. IF perps[d] = Unknown \/ perps[e] = Unknown
          THEN based[k].perp = Unknown
          ELSE /\ perps[d] \in Int /\ perps[e] \in Int
               /\ based[k].perp = perps[e] - perps[d]
        BY <2>2, <2>4
    <2> QED
        BY <2>1, <2>2, <2>5 DEF d, e
<1> HIDE DEF n
<1>5. PlannedPairs(D, n, pairs, based, perps)
    BY <1>2, <1>4 DEF PlannedPairs
<1> QED
    BY <1>1, <1>5

\* All of them, or those at some indexes, are between dates of the candidate.
LEMMA PlannedJoin ==
    ASSUME NEW D \in SUBSET Days, NEW method, NEW perps \in Baselines,
           NEW pairs, pairs = BuildNetwork(D, method, NoPerps),
           NEW based, based = WithBaselines(pairs, perps),
           NEW K \in SUBSET DOMAIN based
    PROVE  /\ \E m \in Nat : PairsOf(D, m, pairs)
           /\ \E m \in Nat : PairsOf(D, m, Those(based, K))
           /\ Range(Those(based, K)) = { based[k] : k \in K }
           /\ Differences(based, perps)
<1>0. PICK n \in Nat : PlannedPairs(D, n, pairs, based, perps)
    BY PlannedAre
<1>1. /\ DOMAIN pairs = 1 .. n /\ DOMAIN based = 1 .. n
      /\ \A k \in 1 .. n :
           /\ pairs[k].ref \in D /\ pairs[k].sec \in D
           /\ based[k].ref = pairs[k].ref /\ based[k].sec = pairs[k].sec
           /\ IF perps[pairs[k].ref] = Unknown \/ perps[pairs[k].sec] = Unknown
              THEN based[k].perp = Unknown
              ELSE /\ perps[pairs[k].ref] \in Int /\ perps[pairs[k].sec] \in Int
                   /\ based[k].perp = perps[pairs[k].sec] - perps[pairs[k].ref]
    BY <1>0 DEF PlannedPairs
<1>2. /\ Cardinality(K) \in Nat /\ DOMAIN Those(based, K) = 1 .. Cardinality(K)
      /\ Those(based, K) = [i \in 1 .. Cardinality(K) |-> based[Sorted(K)[i]]]
      /\ Sorted(K) \in [1 .. Cardinality(K) -> K]
      /\ Range(Those(based, K)) = { based[k] : k \in K }
    BY <1>1, ThoseAre
<1>3. PairsOf(D, n, pairs)
    BY <1>1 DEF PairsOf
<1>4. PairsOf(D, Cardinality(K), Those(based, K))
    <2>1. ASSUME NEW i \in 1 .. Cardinality(K)
          PROVE  Those(based, K)[i].ref \in D /\ Those(based, K)[i].sec \in D
        <3>1. Sorted(K)[i] \in 1 .. n
            BY <1>1, <1>2
        <3>2. Those(based, K)[i] = based[Sorted(K)[i]]
            BY <1>2
        <3> QED
            BY <1>1, <3>1, <3>2
    <2> QED
        BY <1>2, <2>1 DEF PairsOf
<1>5. Differences(based, perps)
    <2>1. ASSUME NEW p \in KnownPairs(based)
          PROVE  /\ p.ref \in Days /\ p.sec \in Days
                 /\ perps[p.ref] \in Int /\ perps[p.sec] \in Int
                 /\ p.perp = perps[p.sec] - perps[p.ref]
        <3>1. PICK k \in 1 .. n : p = based[k]
            BY <1>1 DEF KnownPairs, Range
        <3>2. based[k].perp # Unknown
            BY <3>1 DEF KnownPairs
        <3> QED
            BY <1>1, <3>1, <3>2
    <2> QED
        BY <2>1 DEF Differences
<1> QED
    BY <1>2, <1>3, <1>4, <1>5

\* The inductive invariant: a candidate is the rectangle with the network that
\* its dates and the method give, or what the baselines make of that network.
OutOf(based, method) == { k \in DOMAIN based : method = "sbas" /\ OverPerp(based[k]) }

MissingOf(based, perps) ==
    { d \in Days : /\ perps[d] = Unknown
                   /\ \E p \in Range(based) : d \in {p.ref, p.sec} }

CandidateFields(c) ==
    c = [f \in {"dates", "bursts", "pairs", "ref", "components", "based", "integrated",
                "drops", "missing"} |-> c[f]]

IsPlanned(c, plan) == c.pairs = plan /\ c.integrated = NoPerps

IsBased(c, based, method, perps) ==
    /\ c.pairs = Those(based, DOMAIN based \ OutOf(based, method))
    /\ c.drops = Those(based, OutOf(based, method))
    /\ c.integrated = Integrate(based)
    /\ c.missing = MissingOf(based, perps)

PlanOf(c, method) == BuildNetwork(c.dates, method, NoPerps)

IsCandidate(c, method, perps) ==
    /\ CandidateFields(c) /\ c.based \in BOOLEAN
    /\ c.dates \in SUBSET Days /\ c.bursts \in SUBSET Bursts
    /\ c.bursts # {} => c.dates # {}
    /\ c.components = ConnectedComponents(c.dates, c.pairs)
    /\ ~c.based => IsPlanned(c, PlanOf(c, method))
    /\ c.based => IsBased(c, WithBaselines(PlanOf(c, method), perps), method, perps)

NetInv ==
    /\ search \in Searches
    /\ candidates = [o \in Orbits |-> candidates[o]]
    /\ \A o \in Orbits : \/ candidates[o] = NoCandidate
                         \/ IsCandidate(candidates[o], search.network, search.perps[o])
    /\ recommended # 0 => /\ recommended \in Orbits
                          /\ candidates[recommended] # NoCandidate
                          /\ ~NoBursts(candidates[recommended])

\* What a search finds of an orbit.
LEMMA SearchIs ==
    ASSUME search \in Searches, NEW o \in Orbits
    PROVE  search.archive[o] \in [Days -> SUBSET Bursts] /\ search.perps[o] \in Baselines
<1>1. search \in Search /\ Offsets \subseteq Int
    BY SearchAssumption, NetworkAssumption
<1>2. search.archive \in [Orbits -> [Days -> SUBSET Bursts]]
      /\ search.perps \in [Orbits -> [Days -> Offsets \union {Unknown}]]
    BY <1>1 DEF Search
<1>3. search.archive[o] \in [Days -> SUBSET Bursts]
    BY <1>2
<1>4. search.perps[o] \in [Days -> Offsets \union {Unknown}]
    BY <1>2
<1> QED
    BY <1>1, <1>3, <1>4 DEF Baselines

\* What the invariant says of one candidate is what the property says of it.
LEMMA NetworkTells ==
    ASSUME NetInv, NEW o \in Orbits, candidates[o] # NoCandidate
    PROVE  LET c == candidates[o]
               perps == search.perps[o]
           IN  /\ \E m \in Nat : PairsOf(c.dates, m, c.pairs)
               /\ \A d, e \in { x \in Days : c.integrated[x] # Unknown } :
                     c.integrated[e] - c.integrated[d] = perps[e] - perps[d]
               /\ c.based /\ search.network = "sbas" =>
                     c.pairs = BuildNetwork(c.dates, "sbas", perps)
               /\ c.based =>
                     \A p \in Range(BuildNetwork(c.dates, search.network, NoPerps)) :
                         LET q == PairOf(p.ref, p.sec, perps)
                         IN  /\ OverPerp(q) => \/ q \in Range(c.drops)
                                               \/ <<"SEL-06", q.ref, q.sec>> \in Warnings(c)
                             /\ q.perp = Unknown => {q.ref, q.sec} \intersect c.missing # {}
<1> DEFINE c == candidates[o]
           perps == search.perps[o]
           method == search.network
           pairs == PlanOf(c, method)
           based == WithBaselines(pairs, perps)
           out == OutOf(based, method)
           stay == DOMAIN based \ out
<1>1. IsCandidate(c, method, perps)
    BY DEF NetInv
<1>2. perps \in Baselines
    BY SearchIs DEF NetInv
<1> HIDE DEF c, perps, method
<1>3. c.dates \in SUBSET Days /\ c.based \in BOOLEAN
    BY <1>1 DEF IsCandidate
<1>4. pairs = BuildNetwork(c.dates, method, NoPerps) /\ based = WithBaselines(pairs, perps)
    BY DEF PlanOf
<1>5. c.based => /\ c.pairs = Those(based, stay) /\ c.drops = Those(based, out)
                 /\ c.integrated = Integrate(based) /\ c.missing = MissingOf(based, perps)
    BY <1>1 DEF IsCandidate, IsBased
<1>6. ~c.based => c.pairs = pairs /\ c.integrated = NoPerps
    BY <1>1 DEF IsCandidate, IsPlanned
<1>7. /\ out \in SUBSET DOMAIN based /\ stay \in SUBSET DOMAIN based
      /\ \A k \in DOMAIN based : k \in out <=> (method = "sbas" /\ OverPerp(based[k]))
      /\ \A k \in DOMAIN based : k \in out \/ k \in stay
      /\ \A k \in DOMAIN based : k \in stay <=> k \notin out
    BY DEF OutOf
<1> HIDE DEF pairs, based, out, stay
<1>8. /\ \E m \in Nat : PairsOf(c.dates, m, pairs)
      /\ \E m \in Nat : PairsOf(c.dates, m, Those(based, stay))
      /\ Range(Those(based, stay)) = { based[k] : k \in stay }
      /\ Range(Those(based, out)) = { based[k] : k \in out }
      /\ Differences(based, perps)
    <2>1. \A K \in SUBSET DOMAIN based :
            /\ \E m \in Nat : PairsOf(c.dates, m, pairs)
            /\ \E m \in Nat : PairsOf(c.dates, m, Those(based, K))
            /\ Range(Those(based, K)) = { based[k] : k \in K }
            /\ Differences(based, perps)
        BY <1>2, <1>3, <1>4, PlannedJoin
    <2> QED
        BY <1>7, <2>1
<1>9. \E m \in Nat : PairsOf(c.dates, m, c.pairs)
    BY <1>3, <1>5, <1>6, <1>8
<1>10. ASSUME NEW d \in { x \in Days : c.integrated[x] # Unknown },
              NEW e \in { x \in Days : c.integrated[x] # Unknown }
       PROVE  c.integrated[e] - c.integrated[d] = perps[e] - perps[d]
    <2>1. CASE ~c.based
        <3>1. c.integrated[d] = Unknown
            BY <1>6, <2>1 DEF NoPerps
        <3> QED
            BY <3>1
    <2>2. CASE c.based
        <3>1. c.integrated = Integrate(based)
            BY <1>5, <2>2
        <3>2. \A x, y \in { z \in Days : Integrate(based)[z] # Unknown } :
                Integrate(based)[y] - Integrate(based)[x] = perps[y] - perps[x]
            BY <1>2, <1>8, IntegrateAdds
        <3> QED
            BY <3>1, <3>2
    <2> QED
        BY <1>3, <2>1, <2>2
<1>11. ASSUME c.based, method = "sbas"
       PROVE  c.pairs = BuildNetwork(c.dates, "sbas", perps)
    <2>1. \A k \in DOMAIN based : k \in stay <=> ~OverPerp(based[k])
        BY <1>7, <1>11
    <2>2. Those(based, stay) = BuildNetwork(c.dates, "sbas", perps)
        BY <1>2, <1>3, <1>4, <1>7, <1>11, <2>1, DroppedAtOnce
    <2> QED
        BY <1>5, <1>11, <2>2
<1>12. ASSUME c.based, NEW p \in Range(pairs), NEW q, q = PairOf(p.ref, p.sec, perps)
       PROVE  /\ OverPerp(q) => \/ q \in Range(c.drops)
                                \/ <<"SEL-06", q.ref, q.sec>> \in Warnings(c)
              /\ q.perp = Unknown => {q.ref, q.sec} \intersect c.missing # {}
    <2>0. PICK n \in Nat : PlannedPairs(c.dates, n, pairs, based, perps)
        BY <1>2, <1>3, <1>4, PlannedAre
    <2>1. /\ DOMAIN pairs = 1 .. n /\ DOMAIN based = 1 .. n
          /\ \A k \in 1 .. n :
               /\ pairs[k].ref \in c.dates /\ pairs[k].sec \in c.dates
               /\ based[k].ref = pairs[k].ref /\ based[k].sec = pairs[k].sec
               /\ based[k] = PairOf(pairs[k].ref, pairs[k].sec, perps)
               /\ IF perps[pairs[k].ref] = Unknown \/ perps[pairs[k].sec] = Unknown
                  THEN based[k].perp = Unknown
                  ELSE /\ perps[pairs[k].ref] \in Int /\ perps[pairs[k].sec] \in Int
                       /\ based[k].perp = perps[pairs[k].sec] - perps[pairs[k].ref]
        BY <2>0 DEF PlannedPairs
    <2>2. PICK k \in 1 .. n : p = pairs[k]
        BY <2>1 DEF Range
    <2>3. q = based[k] /\ k \in DOMAIN based
        BY <1>12, <2>1, <2>2
    <2>4. OverPerp(q) => \/ q \in Range(c.drops)
                         \/ <<"SEL-06", q.ref, q.sec>> \in Warnings(c)
        <3>1. CASE k \in out
            BY <1>5, <1>8, <1>12, <2>3, <3>1
        <3>2. CASE k \in stay
            <4>1. q \in Range(c.pairs)
                BY <1>5, <1>8, <1>12, <2>3, <3>2
            <4> QED
                BY <4>1 DEF Warnings
        <3> QED
            BY <1>7, <2>3, <3>1, <3>2
    <2>5. ASSUME q.perp = Unknown
          PROVE  {q.ref, q.sec} \intersect c.missing # {}
        <3>1. /\ q.ref \in Days /\ q.sec \in Days
              /\ q.ref = pairs[k].ref /\ q.sec = pairs[k].sec
            BY <1>3, <2>1, <2>3
        <3>2. perps[q.ref] = Unknown \/ perps[q.sec] = Unknown
            <4> SUFFICES ASSUME perps[q.ref] # Unknown, perps[q.sec] # Unknown
                         PROVE  FALSE
                OBVIOUS
            <4>1. /\ perps[q.ref] \in Int /\ perps[q.sec] \in Int
                  /\ q.perp = perps[q.sec] - perps[q.ref]
                BY <2>1, <2>3, <3>1
            <4> QED
                BY <2>5, <4>1, NetworkAssumption
        <3>3. q \in Range(based)
            BY <2>3 DEF Range
        <3>4. c.missing = MissingOf(based, perps)
            BY <1>5, <1>12
        <3>5. q.ref \in c.missing \/ q.sec \in c.missing
            BY <3>1, <3>2, <3>3, <3>4 DEF MissingOf
        <3> QED
            BY <3>5
    <2> QED
        BY <2>4, <2>5
<1>13. ASSUME c.based
       PROVE  \A p \in Range(BuildNetwork(c.dates, method, NoPerps)) :
                LET q == PairOf(p.ref, p.sec, perps)
                IN  /\ OverPerp(q) => \/ q \in Range(c.drops)
                                      \/ <<"SEL-06", q.ref, q.sec>> \in Warnings(c)
                    /\ q.perp = Unknown => {q.ref, q.sec} \intersect c.missing # {}
    BY <1>4, <1>12, <1>13
<1> QED
    BY <1>9, <1>10, <1>11, <1>13 DEF c, perps, method

\* And so of all of them, with the components and the recommendation.
LEMMA NetworkTellsAll == NetInv => NetworkAdds
<1> SUFFICES ASSUME NetInv, NEW o \in Orbits
             PROVE  LET c == candidates[o]
                        perps == search.perps[o]
                        groups == c.components
                    IN  /\ Range(groups) = { Connected(c.dates, c.pairs, d) : d \in c.dates }
                        /\ \A i \in DOMAIN groups :
                              Cardinality(groups[i]) <= Cardinality(groups[1])
                        /\ \A d, e \in { x \in Days : c.integrated[x] # Unknown } :
                              c.integrated[e] - c.integrated[d] = perps[e] - perps[d]
                        /\ c.based /\ search.network = "sbas" =>
                              c.pairs = BuildNetwork(c.dates, "sbas", perps)
                        /\ c.based =>
                              \A p \in Range(BuildNetwork(c.dates, search.network, NoPerps)) :
                                  LET q == PairOf(p.ref, p.sec, perps)
                                  IN  /\ OverPerp(q) =>
                                            \/ q \in Range(c.drops)
                                            \/ <<"SEL-06", q.ref, q.sec>> \in Warnings(c)
                                      /\ q.perp = Unknown =>
                                            {q.ref, q.sec} \intersect c.missing # {}
                        /\ recommended = o => c.bursts # {} /\ c.dates # {}
    BY DEF NetworkAdds
<1> DEFINE c == candidates[o]
<1>1. Days \subseteq Nat /\ IsFiniteSet(Days) /\ o # 0
    BY NetworkAssumption
<1>2. CASE c = NoCandidate
    <2>1. /\ c.dates = {} /\ c.pairs = << >> /\ c.components = << >>
          /\ c.integrated = NoPerps /\ c.based = FALSE
        BY <1>2 DEF NoCandidate
    <2>2. \A x \in Days : NoPerps[x] = Unknown
        BY DEF NoPerps
    <2>3. recommended # o
        BY <1>1, <1>2 DEF NetInv
    <2>4. { x \in Days : c.integrated[x] # Unknown } = {}
        BY <2>1, <2>2
    <2>5. Range(c.components) = {} /\ DOMAIN c.components = {}
        BY <2>1 DEF Range
    <2>6. Range(c.components) = { Connected(c.dates, c.pairs, d) : d \in c.dates }
        BY <2>1, <2>5
    <2> HIDE DEF c
    <2> QED
        BY <2>1, <2>3, <2>4, <2>5, <2>6 DEF c
<1>3. CASE c # NoCandidate
    <2>1. IsCandidate(c, search.network, search.perps[o])
        BY <1>3 DEF NetInv
    <2>2. /\ c.dates \in SUBSET Days /\ c.bursts \in SUBSET Bursts
          /\ c.bursts # {} => c.dates # {}
          /\ c.components = ConnectedComponents(c.dates, c.pairs)
        BY <2>1 DEF IsCandidate
    <2>3. c.dates \in SUBSET Nat /\ IsFiniteSet(c.dates)
        BY <1>1, <2>2, FS_Subset
    <2>4. PICK m \in Nat : PairsOf(c.dates, m, c.pairs)
        BY <1>3, NetworkTells
    <2>5. /\ Range(c.components) = { Connected(c.dates, c.pairs, d) : d \in c.dates }
          /\ \A i \in DOMAIN c.components :
                Cardinality(c.components[i]) <= Cardinality(c.components[1])
        BY <2>2, <2>3, <2>4, ComponentsAre
    <2>6. recommended = o => c.bursts # {} /\ c.dates # {}
        <3>1. recommended = o => Covered(c.bursts) # 0
            BY <1>1 DEF NetInv, NoBursts
        <3> QED
            BY <2>2, <3>1, CoveredIs
    <2>7. /\ \A d, e \in { x \in Days : c.integrated[x] # Unknown } :
                c.integrated[e] - c.integrated[d] = search.perps[o][e] - search.perps[o][d]
          /\ c.based /\ search.network = "sbas" =>
                c.pairs = BuildNetwork(c.dates, "sbas", search.perps[o])
          /\ c.based =>
                \A p \in Range(BuildNetwork(c.dates, search.network, NoPerps)) :
                    LET q == PairOf(p.ref, p.sec, search.perps[o])
                    IN  /\ OverPerp(q) => \/ q \in Range(c.drops)
                                          \/ <<"SEL-06", q.ref, q.sec>> \in Warnings(c)
                        /\ q.perp = Unknown => {q.ref, q.sec} \intersect c.missing # {}
        BY <1>3, NetworkTells
    <2> HIDE DEF c
    <2> QED
        BY <2>5, <2>6, <2>7 DEF c
<1> QED
    BY <1>2, <1>3

\* Before the search is grouped there are no candidates.
LEMMA NetworkStarts == NetworkInit => NetInv
BY DEF NetworkInit, NetInv

\* A candidate as it is grouped, and as its baselines make it.
AsBased(c, p, r, g, i, x, m) ==
    [c EXCEPT !.pairs = p, !.ref = r, !.components = g, !.based = TRUE,
              !.integrated = i, !.drops = x, !.missing = m]

AsGrouped(d, b, p, r, g) ==
    [NoCandidate EXCEPT !.dates = d, !.bursts = b, !.pairs = p, !.ref = r, !.components = g]

\* The fields of a candidate that gets its baselines.
LEMMA BasedAre ==
    ASSUME NEW c, CandidateFields(c), NEW p, NEW r, NEW g, NEW i, NEW x, NEW m,
           NEW e, e = AsBased(c, p, r, g, i, x, m)
    PROVE  /\ e.dates = c.dates /\ e.bursts = c.bursts /\ e.pairs = p /\ e.components = g
           /\ e.based \in BOOLEAN /\ e.based /\ e.integrated = i /\ e.drops = x /\ e.missing = m
           /\ CandidateFields(e)
BY DEF CandidateFields, AsBased

\* The fields of no candidate.
LEMMA NoneIs ==
    /\ CandidateFields(NoCandidate) /\ NoCandidate.based = FALSE /\ NoCandidate.integrated = NoPerps
    /\ NoCandidate.pairs = << >>
BY DEF NoCandidate, CandidateFields

\* The fields of a new candidate.
LEMMA GroupedAre ==
    ASSUME NEW d, NEW b, NEW p, NEW r, NEW g, NEW e, e = AsGrouped(d, b, p, r, g)
    PROVE  /\ e.dates = d /\ e.bursts = b /\ e.pairs = p /\ e.components = g
           /\ e.based \in BOOLEAN /\ ~e.based /\ e.integrated = NoPerps /\ CandidateFields(e)
BY NoneIs DEF CandidateFields, AsGrouped

\* A rectangle with its network is a candidate.
LEMMA CandidateOf ==
    ASSUME NEW acquired \in [Days -> SUBSET Bursts], NEW method, NEW perps, NEW ref,
           NEW cut, cut = Rectangle(acquired),
           NEW pairs, pairs = BuildNetwork(cut.dates, method, NoPerps),
           NEW groups, groups = ConnectedComponents(cut.dates, pairs),
           NEW c, c = AsGrouped(cut.dates, cut.bursts, pairs, ref, groups)
    PROVE  IsCandidate(c, method, perps)
<1>1. /\ cut.dates \in SUBSET Days /\ cut.bursts \in SUBSET Bursts
      /\ cut.bursts # {} => cut.dates # {}
    BY RectangleIs
<1>2. /\ c.dates = cut.dates /\ c.bursts = cut.bursts /\ c.pairs = pairs
      /\ c.components = groups /\ c.based \in BOOLEAN /\ ~c.based /\ c.integrated = NoPerps
      /\ CandidateFields(c)
    BY GroupedAre
<1>5. IsPlanned(c, PlanOf(c, method))
    BY <1>2 DEF IsPlanned, PlanOf
<1>6. c.components = ConnectedComponents(c.dates, c.pairs)
    BY <1>2
<1> QED
    BY <1>1, <1>2, <1>5, <1>6 DEF IsCandidate

BasedOf(c, method, perps) ==
    LET based == WithBaselines(c.pairs, perps)
        out == OutOf(based, method)
        stay == Those(based, DOMAIN based \ out)
    IN  AsBased(c, stay, RecommendReference(c.dates, Integrate(based)),
                ConnectedComponents(c.dates, stay), Integrate(based),
                Those(based, out), MissingOf(based, perps))

\* It is one when its pairs have their baselines, and keeps its bursts.
LEMMA CandidateBased ==
    ASSUME NEW c, NEW method, NEW perps, IsCandidate(c, method, perps), ~c.based
    PROVE  /\ IsCandidate(BasedOf(c, method, perps), method, perps)
           /\ BasedOf(c, method, perps) # NoCandidate
           /\ BasedOf(c, method, perps).bursts = c.bursts
<1> DEFINE based == WithBaselines(c.pairs, perps)
           out == OutOf(based, method)
           stay == Those(based, DOMAIN based \ out)
           ref == RecommendReference(c.dates, Integrate(based))
           groups == ConnectedComponents(c.dates, stay)
           e == BasedOf(c, method, perps)
<1>1. /\ CandidateFields(c) /\ c.dates \in SUBSET Days /\ c.bursts \in SUBSET Bursts
      /\ c.bursts # {} => c.dates # {}
      /\ IsPlanned(c, PlanOf(c, method))
    BY DEF IsCandidate
<1>2. e = AsBased(c, stay, ref, groups, Integrate(based), Those(based, out),
                  MissingOf(based, perps))
    BY DEF BasedOf
<1> HIDE DEF ref, groups, e
<1>3. /\ e.dates = c.dates /\ e.bursts = c.bursts /\ e.pairs = stay /\ e.components = groups
      /\ e.based \in BOOLEAN /\ e.based /\ e.integrated = Integrate(based)
      /\ e.drops = Those(based, out) /\ e.missing = MissingOf(based, perps)
      /\ CandidateFields(e)
    BY <1>1, <1>2, BasedAre
<1>5. based = WithBaselines(PlanOf(e, method), perps)
    BY <1>1, <1>3 DEF IsPlanned, PlanOf
<1>6. IsBased(e, based, method, perps)
    BY <1>3 DEF IsBased
<1>7. e.components = ConnectedComponents(e.dates, e.pairs)
    BY <1>3 DEF groups
<1>8. e # NoCandidate
    <2>1. ~NoCandidate.based
        BY DEF NoCandidate
    <2> QED
        BY <1>3, <2>1
<1> QED
    <2>1. IsCandidate(e, method, perps)
        BY <1>1, <1>3, <1>5, <1>6, <1>7 DEF IsCandidate
    <2> QED
        BY <1>3, <1>8, <2>1 DEF e

\* The three actions.
LEMMA GroupKeeps == NetInv /\ Group => NetInv'
<1> SUFFICES ASSUME NetInv, Group
             PROVE  NetInv'
    OBVIOUS
<1> DEFINE made(o) ==
             LET cut == Rectangle(search.archive[o])
                 pairs == BuildNetwork(cut.dates, search.network, NoPerps)
             IN  AsGrouped(cut.dates, cut.bursts, pairs, RecommendReference(cut.dates, NoPerps),
                           ConnectedComponents(cut.dates, pairs))
           given == [o \in Orbits |->
                       IF \A d \in Days : search.archive[o][d] = {} THEN NoCandidate ELSE made(o)]
<1>1. /\ candidates = [o \in Orbits |-> NoCandidate]
      /\ candidates' = given
      /\ search' = search /\ recommended' = recommended
    BY DEF Group, AsGrouped
<1>2. recommended = 0
    <2>1. \A o \in Orbits : candidates[o] = NoCandidate
        BY <1>1
    <2> QED
        BY <2>1 DEF NetInv
<1>3. ASSUME NEW o \in Orbits
      PROVE  IsCandidate(made(o), search.network, search.perps[o])
    <2>1. search.archive[o] \in [Days -> SUBSET Bursts]
        BY SearchIs DEF NetInv
    <2> QED
        BY <2>1, CandidateOf
<1> HIDE DEF made
<1>4. candidates' = [o \in Orbits |-> candidates'[o]]
    BY <1>1
<1>5. \A o \in Orbits : \/ candidates'[o] = NoCandidate
                        \/ IsCandidate(candidates'[o], search.network, search.perps[o])
    BY <1>1, <1>3
<1> HIDE DEF given
<1> QED
    BY <1>1, <1>2, <1>4, <1>5 DEF NetInv

LEMMA ApplyKeeps ==
    ASSUME NetInv, NEW o \in Orbits, ApplyBaselines(o)
    PROVE  NetInv'
<1> DEFINE c == candidates[o]
           perps == search.perps[o]
           method == search.network
           e == BasedOf(c, method, perps)
<1>1. /\ c.pairs # << >> /\ ~c.based
      /\ candidates' = [candidates EXCEPT ![o] = e]
      /\ search' = search /\ recommended' = recommended
    <2>1. c.pairs # << >> /\ ~c.based /\ UNCHANGED <<search, recommended>>
        BY DEF ApplyBaselines
    <2>2. \E based \in {WithBaselines(c.pairs, perps)} :
          \E out \in {OutOf(based, method)}, path \in {Integrate(based)} :
          \E stay \in {Those(based, DOMAIN based \ out)} :
            candidates' = [candidates EXCEPT ![o] =
              [c EXCEPT !.pairs = stay, !.ref = RecommendReference(c.dates, path),
                        !.components = ConnectedComponents(c.dates, stay),
                        !.based = TRUE, !.integrated = path, !.drops = Those(based, out),
                        !.missing = MissingOf(based, perps)]]
        <3>1. \E a \in {c}, b \in {perps} :
              \E based \in {WithBaselines(a.pairs, b)} :
              \E out \in {OutOf(based, method)}, path \in {Integrate(based)} :
              \E stay \in {Those(based, DOMAIN based \ out)} :
                candidates' = [candidates EXCEPT ![o] =
                  [a EXCEPT !.pairs = stay, !.ref = RecommendReference(a.dates, path),
                            !.components = ConnectedComponents(a.dates, stay),
                            !.based = TRUE, !.integrated = path, !.drops = Those(based, out),
                            !.missing = MissingOf(based, b)]]
            BY Zenon DEF ApplyBaselines, WithBaselines, OutOf, MissingOf
        <3> HIDE DEF c, perps, method
        <3>2. PICK a \in {c}, b \in {perps} :
              \E based \in {WithBaselines(a.pairs, b)} :
              \E out \in {OutOf(based, method)}, path \in {Integrate(based)} :
              \E stay \in {Those(based, DOMAIN based \ out)} :
                candidates' = [candidates EXCEPT ![o] =
                  [a EXCEPT !.pairs = stay, !.ref = RecommendReference(a.dates, path),
                            !.components = ConnectedComponents(a.dates, stay),
                            !.based = TRUE, !.integrated = path, !.drops = Those(based, out),
                            !.missing = MissingOf(based, b)]]
            BY <3>1, Zenon
        <3>3. a = c /\ b = perps
            OBVIOUS
        <3> QED
            BY <3>2, <3>3, Zenon
    <2>3. candidates' = [candidates EXCEPT ![o] = e]
        BY <2>2 DEF BasedOf, AsBased
    <2> HIDE DEF e, c
    <2> QED
        BY <2>1, <2>3 DEF c
<1>2. c # NoCandidate
    <2>1. NoCandidate.pairs = << >>
        BY DEF NoCandidate
    <2> QED
        BY <1>1, <2>1
<1>3. IsCandidate(c, method, perps)
    BY <1>2 DEF NetInv
<1>4. IsCandidate(e, method, perps) /\ e # NoCandidate /\ e.bursts = c.bursts
    <2> HIDE DEF c, perps, method
    <2> QED
        BY <1>1, <1>3, CandidateBased
<1> HIDE DEF e
<1>5. candidates'[o] = e /\ \A q \in Orbits : q # o => candidates'[q] = candidates[q]
    BY <1>1 DEF NetInv
<1>6. candidates' = [q \in Orbits |-> candidates'[q]]
    BY <1>1 DEF NetInv
<1>7. ASSUME NEW q \in Orbits
      PROVE  \/ candidates'[q] = NoCandidate
             \/ IsCandidate(candidates'[q], search.network, search.perps[q])
    <2>1. CASE q = o
        BY <1>4, <1>5, <2>1
    <2>2. CASE q # o
        BY <1>5, <2>2 DEF NetInv
    <2> QED
        BY <2>1, <2>2
<1>8. ASSUME recommended # 0
      PROVE  /\ recommended \in Orbits /\ candidates'[recommended] # NoCandidate
             /\ ~NoBursts(candidates'[recommended])
    <2>1. /\ recommended \in Orbits /\ candidates[recommended] # NoCandidate
          /\ Covered(candidates[recommended].bursts) # 0
        BY <1>8 DEF NetInv, NoBursts
    <2>2. CASE recommended = o
        BY <1>4, <1>5, <2>1, <2>2 DEF NoBursts
    <2>3. CASE recommended # o
        BY <1>5, <2>1, <2>3 DEF NoBursts
    <2> QED
        BY <2>2, <2>3
<1> QED
    BY <1>1, <1>6, <1>7, <1>8 DEF NetInv

LEMMA RecommendKeeps == NetInv /\ Recommend => NetInv'
<1> SUFFICES ASSUME NetInv, Recommend
             PROVE  NetInv'
    OBVIOUS
<1> DEFINE able == { o \in Orbits : candidates[o] # NoCandidate /\ ~NoBursts(candidates[o]) }
           best == { o \in able : \A q \in able :
                       ~Earlier(Rank(candidates[q]), Rank(candidates[o])) }
<1>1. /\ able # {} /\ recommended' = Min(best)
      /\ search' = search /\ candidates' = candidates
    BY DEF Recommend
<1>2. ASSUME NEW o \in able
      PROVE  Ranked(candidates[o])
    <2>1. o \in Orbits /\ candidates[o] # NoCandidate
        OBVIOUS
    <2>2. IsCandidate(candidates[o], search.network, search.perps[o])
        BY <2>1 DEF NetInv
    <2>3. candidates[o].bursts \in SUBSET Bursts /\ candidates[o].dates \in SUBSET Days
        BY <2>2 DEF IsCandidate
    <2>4. PICK m \in Nat : PairsOf(candidates[o].dates, m, candidates[o].pairs)
        BY <2>1, NetworkTells
    <2>5. ASSUME NEW p \in Range(candidates[o].pairs)
          PROVE  p.ref \in Days /\ p.sec \in Days
        <3>1. PICK k \in 1 .. m : p = candidates[o].pairs[k]
            BY <2>4 DEF Range, PairsOf
        <3> QED
            BY <2>3, <2>4, <3>1 DEF PairsOf
    <2> QED
        BY <2>3, <2>5 DEF Ranked
<1>3. able \in SUBSET Orbits
    OBVIOUS
<1>4. Min(best) \in able
    <2> HIDE DEF able
    <2> QED
        BY <1>1, <1>2, <1>3, BestIs
<1>5. recommended' \in Orbits /\ candidates[recommended'] # NoCandidate
      /\ ~NoBursts(candidates[recommended'])
    <2> HIDE DEF best
    <2> QED
        BY <1>1, <1>4
<1> HIDE DEF able, best
<1>6. ~NoBursts(candidates'[recommended'])
    BY <1>1, <1>5 DEF NoBursts
<1> QED
    BY <1>1, <1>5, <1>6 DEF NetInv

\* The invariant is inductive.
LEMMA NetworkKeeps == NetInv /\ [NetworkNext]_netvars => NetInv'
<1>1. NetInv /\ UNCHANGED netvars => NetInv'
    BY DEF NetInv, netvars, NoBursts
<1> QED
    BY <1>1, GroupKeeps, ApplyKeeps, RecommendKeeps DEF NetworkNext

\* What every candidate says of its network stays true: of any search, for any
\* limits and method.
THEOREM NetworkAddsHolds == NetworkSpec => []NetworkAdds
<1>1. NetworkSpec => []NetInv
    BY NetworkStarts, NetworkKeeps, PTL DEF NetworkSpec
<1> QED
    BY <1>1, NetworkTellsAll, PTL

-----------------------------------------------------------------------------
(* Sweeps: the grid is covered, and the front is what it promises.          *)
(*                                                                          *)
(* The number of a point has one digit per axis: what is left of it at an   *)
(* axis is the quotient by the number of points behind (Rest, DigitsOf), so *)
(* that different numbers give different points (PointsDiffer) and every    *)
(* choice of values has its number (PointsCover).  Dominance among rows that*)
(* measured every objective is a strict order (DominanceOrders), and there  *)
(* are finitely many rows: above a row that is dominated there is one that  *)
(* is not (Undominated).                                                    *)

\* The points of the first axes of a grid.
LEMMA CountIs ==
    ASSUME NEW s, NEW m \in Nat, DOMAIN s = 1 .. m, \A k \in 1 .. m : Len(s[k].values) \in Nat
    PROVE  \E c \in [0 .. m -> Nat] :
             /\ c[0] = 1 /\ Count(s) = c[m]
             /\ \A k \in 1 .. m : c[k] = c[k - 1] * Len(s[k].values)
<1> DEFINE iter == CHOOSE it : it = [S \in SUBSET DOMAIN s |->
                       IF S = {} THEN 1 ELSE it[S \ {Max(S)}] * Len(s[Max(S)].values)]
           f == [p \in (1 .. m) \X Nat |-> p[2] * Len(s[p[1]].values)]
<1>1. Count(s) = iter[DOMAIN s]
    BY DEF Count, FoldLeft, MapThenFoldSet
<1>2. f \in [(1 .. m) \X Nat -> Nat]
    OBVIOUS
<1>3. PICK h : FoldSteps(m, Nat, 1, f, h)
    <2> HIDE DEF f
    <2> QED
        BY <1>2, FoldExists
<1>4. h = [S \in SUBSET DOMAIN s |->
             IF S = {} THEN 1 ELSE h[S \ {Max(S)}] * Len(s[Max(S)].values)]
    <2>1. ASSUME NEW S \in SUBSET (1 .. m), S # {}
          PROVE  h[S] = h[S \ {Max(S)}] * Len(s[Max(S)].values)
        <3>1. Max(S) \in 1 .. m
            BY <2>1, LargestIs
        <3>2. h[S \ {Max(S)}] \in Nat /\ h[S] = f[<<Max(S), h[S \ {Max(S)}]>>]
            BY <1>3, <2>1 DEF FoldSteps
        <3> QED
            BY <3>1, <3>2
    <2> QED
        BY <1>3, <2>1 DEF FoldSteps
<1>5. iter = [S \in SUBSET DOMAIN s |->
                IF S = {} THEN 1 ELSE iter[S \ {Max(S)}] * Len(s[Max(S)].values)]
    BY <1>4
<1> DEFINE c == [k \in 0 .. m |-> iter[1 .. k]]
<1> HIDE DEF iter
<1>6. c[0] = 1
    <2>1. 1 .. 0 = {} /\ {} \in SUBSET DOMAIN s
        OBVIOUS
    <2>2. iter[{}] = 1
        BY <1>5, <2>1
    <2> QED
        BY <2>1, <2>2
<1>7. ASSUME NEW k \in 1 .. m
      PROVE  c[k] = c[k - 1] * Len(s[k].values)
    <2>1. Max(1 .. k) = k /\ (1 .. k) \ {k} = 1 .. (k - 1)
        BY LastOfSegment
    <2>2. (1 .. k) \in SUBSET DOMAIN s /\ (1 .. k) # {}
        <3>1. k \in 1 .. k /\ (1 .. k) \subseteq (1 .. m)
            OBVIOUS
        <3> QED
            BY <3>1
    <2>3. iter[1 .. k] = iter[(1 .. k) \ {Max(1 .. k)}] * Len(s[Max(1 .. k)].values)
        BY <1>5, <2>2
    <2>4. c[k] = iter[1 .. k] /\ c[k - 1] = iter[1 .. (k - 1)]
        OBVIOUS
    <2> QED
        BY <2>1, <2>3, <2>4
<1>8. c \in [0 .. m -> Nat]
    <2> HIDE DEF c
    <2> DEFINE nat == { k \in 0 .. m : c[k] \in Nat }
    <2>1. 0 \in nat
        BY <1>6
    <2>2. ASSUME NEW k \in 0 .. m - 1, k \in nat
          PROVE  k + 1 \in nat
        <3>1. c[k + 1] = c[k] * Len(s[k + 1].values)
            BY <1>7
        <3> QED
            BY <2>2, <3>1
    <2>3. \A k \in 0 .. m : k \in nat
        <3> HIDE DEF nat
        <3> QED
            BY <2>1, <2>2, Climbs
    <2>4. c = [k \in 0 .. m |-> c[k]]
        BY DEF c
    <2> QED
        BY <2>3, <2>4
<1>9. Count(s) = c[m]
    BY <1>1
<1> HIDE DEF c
<1> QED
    BY <1>6, <1>7, <1>8, <1>9

\* A quotient is the only number that leaves a rest below the divisor.
LEMMA QuotientIs ==
    ASSUME NEW a \in Nat, NEW b \in Nat \ {0}, NEW q \in Nat, NEW r \in 0 .. b - 1,
           a = b * q + r
    PROVE  a \div b = q /\ a % b = r
<1> DEFINE p == a \div b
           t == a % b
<1>1. p \in Nat /\ t \in 0 .. b - 1 /\ a = b * p + t
    BY DivRest
<1> HIDE DEF p, t
<1>2. b * p \in Int /\ b * q \in Int
    BY <1>1
<1>3. ~(p < q)
    BY <1>1, <1>2, Scaled
<1>4. ~(q < p)
    BY <1>1, <1>2, Scaled
<1>5. p = q
    BY <1>1, <1>3, <1>4
<1>6. t = r
    BY <1>1, <1>2, <1>5
<1> QED
    BY <1>5, <1>6 DEF p, t

\* Dividing twice is dividing by the product.
LEMMA DivTwice ==
    ASSUME NEW a \in Nat, NEW b \in Nat \ {0}, NEW c \in Nat \ {0}
    PROVE  a \div (b * c) = (a \div c) \div b
<1> DEFINE q == a \div c
           r == a % c
           p == q \div b
           t == q % b
<1>1. q \in Nat /\ r \in 0 .. c - 1 /\ a = c * q + r
    BY DivRest
<1>2. p \in Nat /\ t \in 0 .. b - 1 /\ q = b * p + t
    BY <1>1, DivRest
<1> HIDE DEF q, r, p, t
<1>3. b * c \in Nat \ {0}
    OBVIOUS
<1>4. c * t \in Nat /\ c * t <= c * b - c
    <2>1. c * t + c <= c * b
        BY <1>2, Scaled
    <2>2. c * t \in Nat /\ c * b \in Nat
        BY <1>2
    <2> QED
        BY <2>1, <2>2
<1>5. c * t + r \in 0 .. (b * c) - 1
    <2>1. c * b = b * c /\ c * b \in Nat
        OBVIOUS
    <2> QED
        BY <1>1, <1>4, <2>1
<1>6. a = (b * c) * p + (c * t + r)
    BY <1>1, <1>2
<1>7. a \div (b * c) = p
    BY <1>2, <1>3, <1>5, <1>6, QuotientIs
<1> QED
    BY <1>7 DEF p, q

\* A grid has so many points behind each of its axes, and a value for each digit
\* of a point.
LEMMA GridSeq ==
    ASSUME NEW g \in Grids
    PROVE  /\ Len(g) \in Nat /\ DOMAIN g = 1 .. Len(g) /\ g \in Seq(Range(g))
           /\ \A k \in 1 .. Len(g) :
                /\ Len(g[k].values) \in Nat
                /\ DOMAIN g[k].values = 1 .. Len(g[k].values)
<1>1. g \in Seq(Range(g)) /\ \A k \in DOMAIN g : g[k].values \in Seq(Range(g[k].values))
    BY GridAssumption
<1>2. Len(g) \in Nat /\ DOMAIN g = 1 .. Len(g)
    BY <1>1
<1>3. ASSUME NEW k \in 1 .. Len(g)
      PROVE  Len(g[k].values) \in Nat /\ DOMAIN g[k].values = 1 .. Len(g[k].values)
    BY <1>1, <1>2
<1> QED
    BY <1>1, <1>2, <1>3

Faster(g, k) == Count(SubSeq(g, k + 1, Len(g)))

\* What is behind an axis, one by one.
LEMMA FasterIs ==
    ASSUME NEW g \in Grids
    PROVE  /\ Faster(g, Len(g)) = 1 /\ Faster(g, 0) = Count(g)
           /\ \A k \in 0 .. Len(g) : Faster(g, k) \in Nat
           /\ \A k \in 1 .. Len(g) :
                Faster(g, k - 1) = Len(g[k].values) * Faster(g, k)
<1> DEFINE n == Len(g)
           T(k) == SubSeq(g, k + 1, n)
           L(k) == Len(g[k].values)
<1>1. n \in Nat /\ g \in Seq(Range(g)) /\ \A k \in 1 .. n : L(k) \in Nat
    BY GridSeq
<1>2. ASSUME NEW k \in 0 .. n
      PROVE  DOMAIN T(k) = 1 .. (n - k) /\ \A j \in 1 .. (n - k) : T(k)[j] = g[k + j]
    <2>1. k + 1 \in 1 .. n + 1 /\ n \in k .. n
        BY <1>1
    <2>2. /\ T(k) \in Seq(Range(g)) /\ Len(T(k)) = n - k
          /\ \A j \in 1 .. (n - k) : T(k)[j] = g[k + j]
        BY <1>1, <2>1, SubSeqProperties
    <2> QED
        BY <2>2
<1>3. ASSUME NEW k \in 0 .. n
      PROVE  \E c \in [0 .. (n - k) -> Nat] :
               /\ c[0] = 1 /\ Faster(g, k) = c[n - k]
               /\ \A j \in 1 .. (n - k) : c[j] = c[j - 1] * L(k + j)
    <2> DEFINE s == T(k)
               m == n - k
    <2>1. m \in Nat
        BY <1>1
    <2>2. DOMAIN s = 1 .. m /\ \A j \in 1 .. m : s[j] = g[k + j] /\ k + j \in 1 .. n
        BY <1>1, <1>2
    <2>3. \A j \in 1 .. m : Len(s[j].values) = L(k + j) /\ L(k + j) \in Nat
        BY <1>1, <2>2
    <2> HIDE DEF s, m, L
    <2>4. \E c \in [0 .. m -> Nat] :
             /\ c[0] = 1 /\ Count(s) = c[m]
             /\ \A j \in 1 .. m : c[j] = c[j - 1] * Len(s[j].values)
        BY <2>1, <2>2, <2>3, CountIs
    <2>5. \E c \in [0 .. m -> Nat] :
             /\ c[0] = 1 /\ Count(s) = c[m]
             /\ \A j \in 1 .. m : c[j] = c[j - 1] * L(k + j)
        BY <2>3, <2>4
    <2> QED
        BY <2>5 DEF m, s, Faster
<1> HIDE DEF L
<1>4. \A k \in 0 .. n : Faster(g, k) \in Nat
    <2> SUFFICES ASSUME NEW k \in 0 .. n
                 PROVE  Faster(g, k) \in Nat
        OBVIOUS
    <2>1. n - k \in 0 .. (n - k)
        BY <1>1
    <2> QED
        BY <1>3, <2>1
<1>5. Faster(g, n) = 1
    BY <1>1, <1>3
<1>6. Faster(g, 0) = Count(g)
    <2>1. SubSeq(g, 1, n) = g
        BY <1>1, SubSeqFull
    <2> QED
        <3>1. Faster(g, 0) = Count(SubSeq(g, 0 + 1, n))
            BY DEF Faster
        <3>2. 0 + 1 = 1
            OBVIOUS
        <3>3. Faster(g, 0) = Count(SubSeq(g, 1, n))
            BY <3>1, <3>2
        <3> QED
            BY <2>1, <3>3
<1>7. ASSUME NEW k \in 1 .. n
      PROVE  Faster(g, k - 1) = L(k) * Faster(g, k)
    <2> DEFINE m == n - k
    <2>1. m \in Nat /\ k - 1 \in 0 .. n /\ n - (k - 1) = m + 1
        BY <1>1
    <2>2. PICK c \in [0 .. (m + 1) -> Nat] :
            /\ c[0] = 1 /\ Faster(g, k - 1) = c[m + 1]
            /\ \A j \in 1 .. (m + 1) : c[j] = c[j - 1] * L(k - 1 + j)
        BY <1>3, <2>1
    <2>3. PICK d \in [0 .. m -> Nat] :
            /\ d[0] = 1 /\ Faster(g, k) = d[m]
            /\ \A j \in 1 .. m : d[j] = d[j - 1] * L(k + j)
        BY <1>3
    <2> HIDE DEF m
    <2> DEFINE good == { j \in 0 .. m : c[j + 1] = L(k) * d[j] }
    <2>4. 0 \in good
        <3>1. c[1] = c[0] * L(k) /\ L(k) \in Nat
            BY <1>1, <2>1, <2>2
        <3> QED
            BY <2>1, <2>2, <2>3, <3>1
    <2>5. ASSUME NEW j \in 0 .. m - 1, j \in good
          PROVE  j + 1 \in good
        <3>1. c[j + 2] = c[j + 1] * L(k + (j + 1))
            BY <2>1, <2>2
        <3>2. d[j + 1] = d[j] * L(k + (j + 1))
            BY <2>1, <2>3
        <3>3. L(k) \in Nat /\ d[j] \in Nat /\ L(k + (j + 1)) \in Nat
            <4>1. k + (j + 1) \in 1 .. n
                BY <1>1, <2>1 DEF m
            <4>2. j \in 0 .. m
                BY <2>1
            <4> QED
                BY <1>1, <2>3, <4>1, <4>2
        <3>4. c[j + 1] = L(k) * d[j]
            BY <2>5
        <3>5. (L(k) * d[j]) * L(k + (j + 1)) = L(k) * (d[j] * L(k + (j + 1)))
            BY <3>3
        <3>6. c[(j + 1) + 1] = L(k) * d[j + 1]
            BY <3>1, <3>2, <3>4, <3>5
        <3> QED
            BY <2>1, <3>6
    <2>6. m \in good
        <3> HIDE DEF good
        <3>1. \A j \in 0 .. m : j \in good
            BY <2>1, <2>4, <2>5, Climbs
        <3> QED
            BY <2>1, <3>1
    <2> QED
        BY <2>2, <2>3, <2>6
<1> QED
    BY <1>4, <1>5, <1>6, <1>7 DEF L

LEMMA CountIsNat == \A g \in Grids : Count(g) \in Nat
<1> SUFFICES ASSUME NEW g \in Grids
             PROVE  Count(g) \in Nat
    OBVIOUS
<1>1. Faster(g, 0) = Count(g) /\ 0 \in 0 .. Len(g)
    BY FasterIs, GridSeq
<1> QED
    BY <1>1, FasterIs

\* When there are points, each list has values and every divisor is positive.
LEMMA FasterPositive ==
    ASSUME NEW g \in Grids, Count(g) > 0
    PROVE  /\ \A k \in 0 .. Len(g) : Faster(g, k) \in Nat \ {0}
           /\ \A k \in 1 .. Len(g) : Len(g[k].values) \in Nat \ {0}
<1> DEFINE n == Len(g)
           W(k) == Faster(g, k)
           L(k) == Len(g[k].values)
           good == { k \in 0 .. n : W(k) > 0 }
<1>1. n \in Nat /\ \A k \in 1 .. n : L(k) \in Nat
    BY GridSeq
<1>2. /\ W(0) = Count(g) /\ \A k \in 0 .. n : W(k) \in Nat
      /\ \A k \in 1 .. n : W(k - 1) = L(k) * W(k)
    BY FasterIs
<1> HIDE DEF W, L
<1>3. \A k \in 1 .. n : W(k - 1) > 0 => W(k) > 0 /\ L(k) > 0
    <2> SUFFICES ASSUME NEW k \in 1 .. n, W(k - 1) > 0
                 PROVE  W(k) > 0 /\ L(k) > 0
        OBVIOUS
    <2>1. W(k) \in Nat /\ L(k) \in Nat /\ L(k) * W(k) > 0
        BY <1>1, <1>2
    <2>2. W(k) # 0 /\ L(k) # 0
        BY <2>1
    <2> QED
        BY <2>1, <2>2
<1>4. 0 \in good
    BY <1>1, <1>2
<1>5. ASSUME NEW k \in 0 .. n - 1, k \in good
      PROVE  k + 1 \in good
    <2>1. k + 1 \in 1 .. n /\ (k + 1) - 1 = k
        BY <1>1
    <2> QED
        BY <1>3, <1>5, <2>1
<1>6. \A k \in 0 .. n : k \in good
    <2> HIDE DEF good
    <2> QED
        BY <1>1, <1>4, <1>5, Climbs
<1>7. \A k \in 0 .. n : W(k) \in Nat \ {0}
    BY <1>2, <1>6
<1>8. ASSUME NEW k \in 1 .. n
      PROVE  L(k) \in Nat \ {0}
    <2>1. k - 1 \in 0 .. n
        BY <1>1
    <2> QED
        BY <1>1, <1>3, <1>6, <2>1
<1> QED
    BY <1>7, <1>8 DEF W, L

\* The digits of a point, from what is left of its number at each axis.
Rest(g, i, k) == (i - 1) \div Faster(g, k)

LEMMA DigitsOf ==
    ASSUME NEW g \in Grids, NEW i \in 1 .. Count(g), Count(g) \in Nat
    PROVE  /\ Rest(g, i, 0) = 0 /\ Rest(g, i, Len(g)) = i - 1
           /\ \A k \in 0 .. Len(g) : Rest(g, i, k) \in Nat
           /\ \A k \in 1 .. Len(g) :
                /\ Rest(g, i, k) % Len(g[k].values) \in 0 .. Len(g[k].values) - 1
                /\ Rest(g, i, k - 1) = Rest(g, i, k) \div Len(g[k].values)
                /\ Rest(g, i, k) = Len(g[k].values) * Rest(g, i, k - 1)
                                     + (Rest(g, i, k) % Len(g[k].values))
<1> DEFINE n == Len(g)
           W(k) == Faster(g, k)
           L(k) == Len(g[k].values)
<1>1. n \in Nat /\ Count(g) > 0 /\ i - 1 \in Nat
    BY GridSeq
<1>2. W(0) = Count(g) /\ W(n) = 1 /\ \A k \in 1 .. n : W(k - 1) = L(k) * W(k)
    BY FasterIs
<1>3. (\A k \in 0 .. n : W(k) \in Nat \ {0}) /\ \A k \in 1 .. n : L(k) \in Nat \ {0}
    BY <1>1, FasterPositive
<1>4. \A k \in 0 .. n : Rest(g, i, k) = (i - 1) \div W(k)
    BY DEF Rest
<1> HIDE DEF W, L
<1>5. Rest(g, i, 0) = 0
    <2>1. i - 1 = W(0) * 0 + (i - 1) /\ i - 1 \in 0 .. W(0) - 1
        BY <1>1, <1>2
    <2>2. (i - 1) \div W(0) = 0
        BY <1>1, <1>3, <2>1, QuotientIs
    <2> QED
        BY <1>1, <1>4, <2>2
<1>6. Rest(g, i, n) = i - 1
    <2>1. (i - 1) \div 1 = i - 1
        BY <1>1, QuotientIs
    <2> QED
        BY <1>1, <1>2, <1>4, <2>1
<1>7. \A k \in 0 .. n : Rest(g, i, k) \in Nat
    BY <1>1, <1>3, <1>4, DivRest
<1>8. ASSUME NEW k \in 1 .. n
      PROVE  /\ Rest(g, i, k) % L(k) \in 0 .. L(k) - 1
             /\ Rest(g, i, k - 1) = Rest(g, i, k) \div L(k)
             /\ Rest(g, i, k) = L(k) * Rest(g, i, k - 1) + (Rest(g, i, k) % L(k))
    <2>1. k - 1 \in 0 .. n /\ k \in 0 .. n
        BY <1>1
    <2>2. Rest(g, i, k - 1) = (i - 1) \div (L(k) * W(k))
        BY <1>2, <1>4, <2>1
    <2>3. Rest(g, i, k - 1) = Rest(g, i, k) \div L(k)
        <3>1. L(k) \in Nat \ {0} /\ W(k) \in Nat \ {0}
            BY <1>3, <2>1
        <3>2. (i - 1) \div (L(k) * W(k)) = ((i - 1) \div W(k)) \div L(k)
            BY <1>1, <3>1, DivTwice
        <3> QED
            BY <1>4, <2>1, <2>2, <3>2
    <2> QED
        BY <1>3, <1>7, <2>1, <2>3, DivRest
<1> QED
    BY <1>5, <1>6, <1>7, <1>8 DEF L

\* A point has, for each key, the value at its digit.
LEMMA PointIs ==
    ASSUME NEW g \in Grids, NEW i \in 1 .. Count(g), Count(g) \in Nat
    PROVE  /\ DOMAIN PointOf(g, i) = { g[k].key : k \in DOMAIN g }
           /\ \A k \in DOMAIN g :
                /\ (Rest(g, i, k) % Len(g[k].values)) + 1 \in DOMAIN g[k].values
                /\ PointOf(g, i)[g[k].key]
                     = g[k].values[(Rest(g, i, k) % Len(g[k].values)) + 1]
           /\ PointOf(g, i) = [key \in { g[k].key : k \in DOMAIN g } |-> PointOf(g, i)[key]]
<1>1. DOMAIN PointOf(g, i) = { g[k].key : k \in DOMAIN g }
      /\ PointOf(g, i) = [key \in { g[k].key : k \in DOMAIN g } |-> PointOf(g, i)[key]]
    BY DEF PointOf
<1>2. ASSUME NEW k \in DOMAIN g
      PROVE  /\ (Rest(g, i, k) % Len(g[k].values)) + 1 \in DOMAIN g[k].values
             /\ PointOf(g, i)[g[k].key]
                  = g[k].values[(Rest(g, i, k) % Len(g[k].values)) + 1]
    <2>1. Len(g) \in Nat /\ DOMAIN g = 1 .. Len(g) /\ Len(g[k].values) \in Nat
          /\ DOMAIN g[k].values = 1 .. Len(g[k].values)
        BY GridSeq
    <2>2. Rest(g, i, k) % Len(g[k].values) \in 0 .. Len(g[k].values) - 1
        BY <2>1, DigitsOf
    <2>3. (CHOOSE x \in DOMAIN g : g[x].key = g[k].key) = k
        BY GridAssumption
    <2>4. PointOf(g, i)[g[k].key]
            = g[k].values[(((i - 1) \div Faster(g, k)) % Len(g[k].values)) + 1]
        BY <2>3 DEF PointOf, Faster
    <2> QED
        BY <2>1, <2>2, <2>4 DEF Rest
<1> QED
    BY <1>1, <1>2

\* Different numbers are different points when no list repeats a value.
LEMMA PointsDiffer ==
    ASSUME NEW g \in Grids, Count(g) \in Nat, \A k \in DOMAIN g : IsInjective(g[k].values),
           NEW i \in 1 .. Count(g), NEW j \in 1 .. Count(g), PointOf(g, i) = PointOf(g, j)
    PROVE  i = j
<1> DEFINE n == Len(g)
           L(k) == Len(g[k].values)
           same == { k \in 0 .. n : Rest(g, i, k) = Rest(g, j, k) }
<1>1. n \in Nat /\ DOMAIN g = 1 .. n
    BY GridSeq
<1>2. 0 \in same
    BY <1>1, DigitsOf
<1>3. ASSUME NEW k \in 0 .. n - 1, k \in same
      PROVE  k + 1 \in same
    <2> DEFINE t == k + 1
    <2>1. t \in 1 .. n /\ t - 1 = k
        BY <1>1
    <2> HIDE DEF t
    <2>2. g[t].values[(Rest(g, i, t) % L(t)) + 1] = g[t].values[(Rest(g, j, t) % L(t)) + 1]
        <3>1. t \in DOMAIN g
            BY <1>1, <2>1
        <3>2. PointOf(g, i)[g[t].key] = g[t].values[(Rest(g, i, t) % L(t)) + 1]
            BY <3>1, PointIs
        <3>3. PointOf(g, j)[g[t].key] = g[t].values[(Rest(g, j, t) % L(t)) + 1]
            BY <3>1, PointIs
        <3> QED
            BY <3>2, <3>3
    <2>3. (Rest(g, i, t) % L(t)) + 1 = (Rest(g, j, t) % L(t)) + 1
        <3>1. t \in DOMAIN g
            BY <1>1, <2>1
        <3>2. (Rest(g, i, t) % L(t)) + 1 \in DOMAIN g[t].values
            BY <3>1, PointIs
        <3>3. (Rest(g, j, t) % L(t)) + 1 \in DOMAIN g[t].values
            BY <3>1, PointIs
        <3> QED
            BY <2>2, <3>1, <3>2, <3>3 DEF IsInjective
    <2>4. /\ Rest(g, i, t) % L(t) \in 0 .. L(t) - 1 /\ Rest(g, j, t) % L(t) \in 0 .. L(t) - 1
          /\ Rest(g, i, t) = L(t) * Rest(g, i, t - 1) + (Rest(g, i, t) % L(t))
          /\ Rest(g, j, t) = L(t) * Rest(g, j, t - 1) + (Rest(g, j, t) % L(t))
          /\ L(t) \in Nat
        BY <2>1, DigitsOf, GridSeq
    <2>5. Rest(g, i, t) % L(t) = Rest(g, j, t) % L(t)
        BY <2>3, <2>4
    <2>6. Rest(g, i, t) = Rest(g, j, t)
        BY <1>3, <2>1, <2>4, <2>5
    <2> QED
        BY <1>1, <2>1, <2>6 DEF t
<1>4. n \in same
    <2> HIDE DEF same
    <2>1. \A k \in 0 .. n : k \in same
        BY <1>1, <1>2, <1>3, Climbs
    <2> QED
        BY <1>1, <2>1
<1>5. i - 1 = j - 1
    BY <1>4, DigitsOf
<1> QED
    BY <1>5

\* Every choice of values is a point.
LEMMA PointsCover ==
    ASSUME NEW g \in Grids, Count(g) \in Nat, NEW p,
           p = [key \in { g[k].key : k \in DOMAIN g } |-> p[key]],
           \A k \in DOMAIN g : p[g[k].key] \in Range(g[k].values)
    PROVE  \E i \in 1 .. Count(g) : p = PointOf(g, i)
<1> DEFINE n == Len(g)
           W(k) == Faster(g, k)
           L(k) == Len(g[k].values)
           e == [k \in 1 .. n |-> CHOOSE d \in 0 .. L(k) - 1 : g[k].values[d + 1] = p[g[k].key]]
<1>1. n \in Nat /\ DOMAIN g = 1 .. n
    BY GridSeq
<1>2. W(0) = Count(g) /\ W(n) = 1 /\ (\A k \in 1 .. n : W(k - 1) = L(k) * W(k))
      /\ \A k \in 0 .. n : W(k) \in Nat
    BY FasterIs
<1>3. ASSUME NEW k \in 1 .. n
      PROVE  /\ e[k] \in 0 .. L(k) - 1 /\ g[k].values[e[k] + 1] = p[g[k].key]
             /\ L(k) \in Nat \ {0}
    <2>1. PICK y \in DOMAIN g[k].values : p[g[k].key] = g[k].values[y]
        BY <1>1 DEF Range
    <2>2. DOMAIN g[k].values = 1 .. L(k) /\ L(k) \in Nat
        BY GridSeq
    <2>3. y - 1 \in 0 .. L(k) - 1 /\ g[k].values[(y - 1) + 1] = p[g[k].key]
        BY <2>1, <2>2
    <2>4. e[k] \in 0 .. L(k) - 1 /\ g[k].values[e[k] + 1] = p[g[k].key]
        BY <2>3
    <2>5. L(k) \in Nat \ {0}
        BY <2>2, <2>3
    <2> HIDE DEF e, L
    <2> QED
        BY <2>4, <2>5
<1> HIDE DEF e, L, W
<1> DEFINE f == [x \in (1 .. n) \X Nat |-> L(x[1]) * x[2] + e[x[1]]]
<1>4. f \in [(1 .. n) \X Nat -> Nat]
    <2>1. \A k \in 1 .. n, y \in Nat : L(k) * y + e[k] \in Nat
        <3> SUFFICES ASSUME NEW k \in 1 .. n, NEW y \in Nat
                     PROVE  L(k) * y + e[k] \in Nat
            OBVIOUS
        <3>1. L(k) \in Nat /\ e[k] \in Nat
            <4>1. L(k) \in Nat \ {0} /\ e[k] \in 0 .. L(k) - 1
                BY <1>3
            <4> QED
                BY <4>1
        <3>2. L(k) * y \in Nat
            BY <3>1
        <3> QED
            BY <3>1, <3>2
    <2> QED
        BY <2>1
<1>5. PICK h : FoldSteps(n, Nat, 0, f, h)
    <2> HIDE DEF f
    <2> QED
        BY <1>1, <1>4, FoldExists
<1> DEFINE v(k) == h[1 .. k]
<1>6. v(0) = 0 /\ \A k \in 0 .. n : v(k) \in Nat
    <2>1. 1 .. 0 = {}
        OBVIOUS
    <2>2. \A k \in 0 .. n : (1 .. k) \in SUBSET (1 .. n)
        BY <1>1
    <2> QED
        BY <1>1, <1>5, <2>1, <2>2 DEF FoldSteps
<1>7. ASSUME NEW k \in 1 .. n
      PROVE  v(k) = L(k) * v(k - 1) + e[k]
    <2>1. Max(1 .. k) = k /\ (1 .. k) \ {k} = 1 .. (k - 1)
        BY LastOfSegment
    <2>2. (1 .. k) \in SUBSET (1 .. n) /\ (1 .. k) # {}
        <3>1. k \in 1 .. k /\ (1 .. k) \subseteq (1 .. n)
            BY <1>1
        <3> QED
            BY <3>1
    <2>3. h[1 .. k] = f[<<k, h[1 .. (k - 1)]>>]
        <3> DEFINE T == 1 .. k
        <3>1. T \in SUBSET (1 .. n) /\ T # {}
            BY <2>2
        <3>2. h[T] = f[<<Max(T), h[T \ {Max(T)}]>>]
            <4> HIDE DEF T, f
            <4> QED
                BY <1>5, <3>1 DEF FoldSteps
        <3>3. Max(T) = k /\ T \ {Max(T)} = 1 .. (k - 1)
            BY <2>1
        <3> HIDE DEF f
        <3> QED
            BY <3>2, <3>3
    <2>4. h[1 .. (k - 1)] \in Nat
        <3>1. k - 1 \in 0 .. n
            BY <1>1
        <3> QED
            BY <1>6, <3>1
    <2> QED
        BY <2>3, <2>4
<1> HIDE DEF v, f
<1> DEFINE a == v(n)
<1>8. a \in Nat
    BY <1>1, <1>6
<1>9. \A k \in 0 .. n : W(k) \in Nat \ {0}
    <2> DEFINE good == { x \in 0 .. n : W(n - x) \in Nat \ {0} }
    <2>1. 0 \in good
        BY <1>1, <1>2
    <2>2. ASSUME NEW x \in 0 .. n - 1, x \in good
          PROVE  x + 1 \in good
        <3>1. n - x \in 1 .. n /\ n - (x + 1) = (n - x) - 1
            BY <1>1
        <3>2. W((n - x) - 1) = L(n - x) * W(n - x)
            BY <1>2, <3>1
        <3>3. L(n - x) \in Nat \ {0} /\ W(n - x) \in Nat \ {0}
            BY <1>3, <2>2, <3>1
        <3>4. L(n - x) * W(n - x) \in Nat \ {0}
            BY <3>3
        <3> QED
            BY <1>1, <3>1, <3>2, <3>4
    <2>3. \A x \in 0 .. n : x \in good
        <3> HIDE DEF good
        <3> QED
            BY <1>1, <2>1, <2>2, Climbs
    <2> SUFFICES ASSUME NEW k \in 0 .. n
                 PROVE  W(k) \in Nat \ {0}
        OBVIOUS
    <2>4. n - k \in 0 .. n /\ n - (n - k) = k
        BY <1>1
    <2> QED
        BY <2>3, <2>4
<1>10. \A k \in 0 .. n : a \div W(k) = v(k)
    <2> DEFINE good == { x \in 0 .. n : a \div W(n - x) = v(n - x) }
    <2>1. 0 \in good
        BY <1>1, <1>2, <1>8
    <2>2. ASSUME NEW x \in 0 .. n - 1, x \in good
          PROVE  x + 1 \in good
        <3> DEFINE k == n - x
        <3>1. k \in 1 .. n /\ n - (x + 1) = k - 1 /\ k - 1 \in 0 .. n
            BY <1>1
        <3>2. a \div W(k) = v(k)
            BY <2>2
        <3> HIDE DEF k
        <3>3. L(k) \in Nat \ {0} /\ W(k) \in Nat \ {0} /\ W(k - 1) = L(k) * W(k)
            BY <1>2, <1>3, <1>9, <3>1
        <3>4. a \div W(k - 1) = v(k) \div L(k)
            BY <1>8, <3>2, <3>3, DivTwice
        <3>5. v(k) \div L(k) = v(k - 1)
            <4>1. v(k) \in Nat /\ v(k - 1) \in Nat /\ e[k] \in 0 .. L(k) - 1
                <5>1. k \in 0 .. n
                    BY <3>1
                <5> QED
                    BY <1>3, <1>6, <3>1, <5>1
            <4>2. v(k) = L(k) * v(k - 1) + e[k]
                BY <1>7, <3>1
            <4> QED
                BY <3>3, <4>1, <4>2, QuotientIs
        <3> QED
            BY <1>1, <3>1, <3>4, <3>5
    <2>3. \A x \in 0 .. n : x \in good
        <3> HIDE DEF good
        <3> QED
            BY <1>1, <2>1, <2>2, Climbs
    <2> SUFFICES ASSUME NEW k \in 0 .. n
                 PROVE  a \div W(k) = v(k)
        OBVIOUS
    <2>4. n - k \in 0 .. n /\ n - (n - k) = k
        BY <1>1
    <2> QED
        BY <2>3, <2>4
<1> DEFINE i == a + 1
<1>11. i \in 1 .. Count(g)
    <2>1. a \div W(0) = 0 /\ W(0) \in Nat \ {0}
        BY <1>1, <1>6, <1>9, <1>10
    <2>2. a = W(0) * 0 + (a % W(0)) /\ a % W(0) \in 0 .. W(0) - 1
        BY <1>8, <2>1, DivRest
    <2>3. a < W(0)
        BY <2>1, <2>2
    <2> QED
        BY <1>2, <1>8, <2>3
<1>12. ASSUME NEW k \in 1 .. n
       PROVE  Rest(g, i, k) % L(k) = e[k]
    <2>1. (a + 1) - 1 = a
        BY <1>8
    <2>2. Rest(g, i, k) = v(k)
        BY <1>10, <2>1 DEF Rest, W
    <2>3. v(k) = L(k) * v(k - 1) + e[k] /\ k - 1 \in 0 .. n
        BY <1>1, <1>7
    <2>4. v(k) \in Nat /\ v(k - 1) \in Nat /\ L(k) \in Nat \ {0} /\ e[k] \in 0 .. L(k) - 1
        BY <1>3, <1>6, <2>3
    <2>5. v(k) % L(k) = e[k]
        BY <2>3, <2>4, QuotientIs
    <2> QED
        BY <2>2, <2>5
<1> HIDE DEF i
<1>13. \A k \in DOMAIN g : PointOf(g, i)[g[k].key] = p[g[k].key]
    <2> SUFFICES ASSUME NEW k \in DOMAIN g
                 PROVE  PointOf(g, i)[g[k].key] = p[g[k].key]
        OBVIOUS
    <2>1. PointOf(g, i)[g[k].key] = g[k].values[(Rest(g, i, k) % L(k)) + 1]
        BY <1>11, PointIs DEF L
    <2>2. Rest(g, i, k) % L(k) = e[k]
        BY <1>1, <1>12
    <2> QED
        BY <1>1, <1>3, <2>1, <2>2
<1>14. PointOf(g, i) = [key \in { g[k].key : k \in DOMAIN g } |-> PointOf(g, i)[key]]
    BY <1>11, PointIs
<1>15. \A key \in { g[k].key : k \in DOMAIN g } : PointOf(g, i)[key] = p[key]
    BY <1>13
<1>16. p = PointOf(g, i)
    BY <1>14, <1>15
<1> QED
    BY <1>11, <1>16

LEMMA PointIsChoice ==
    ASSUME NEW g \in Grids, Count(g) \in Nat, NEW i \in 1 .. Count(g)
    PROVE  /\ PointOf(g, i) \in [{ g[k].key : k \in DOMAIN g } ->
                                   UNION { Range(g[k].values) : k \in DOMAIN g }]
           /\ \A k \in DOMAIN g : PointOf(g, i)[g[k].key] \in Range(g[k].values)
<1>1. \A k \in DOMAIN g : PointOf(g, i)[g[k].key] \in Range(g[k].values)
    <2> SUFFICES ASSUME NEW k \in DOMAIN g
                 PROVE  PointOf(g, i)[g[k].key] \in Range(g[k].values)
        OBVIOUS
    <2>1. \E d \in DOMAIN g[k].values : PointOf(g, i)[g[k].key] = g[k].values[d]
        BY PointIs
    <2> QED
        BY <2>1 DEF Range
<1>2. \A key \in { g[k].key : k \in DOMAIN g } :
         PointOf(g, i)[key] \in UNION { Range(g[k].values) : k \in DOMAIN g }
    BY <1>1
<1>3. PointOf(g, i) = [key \in { g[k].key : k \in DOMAIN g } |-> PointOf(g, i)[key]]
    BY PointIs
<1> QED
    BY <1>1, <1>2, <1>3

LEMMA CoversGrid == grid \in Grids => GridIsCovered
<1> SUFFICES ASSUME grid \in Grids
             PROVE  GridIsCovered
    OBVIOUS
<1> DEFINE keys == { grid[k].key : k \in DOMAIN grid }
           values == UNION { Range(grid[k].values) : k \in DOMAIN grid }
           choices == { p \in [keys -> values] :
                          \A k \in DOMAIN grid : p[grid[k].key] \in Range(grid[k].values) }
<1>1. Count(grid) \in Nat
    BY CountIsNat
<1>2. \A i \in 1 .. Count(grid) : PointOf(grid, i) \in choices
    BY <1>1, PointIsChoice
<1>3. \A p \in choices : \E i \in 1 .. Count(grid) : p = PointOf(grid, i)
    BY <1>1, PointsCover
<1>4. Points = choices
    <2> HIDE DEF choices
    <2> QED
        BY <1>2, <1>3 DEF Points
<1>5. ASSUME \A k \in DOMAIN grid : IsInjective(grid[k].values)
      PROVE  Cardinality(Points) = Count(grid)
    <2> DEFINE b == [i \in 1 .. Count(grid) |-> PointOf(grid, i)]
    <2>1. \A i, j \in 1 .. Count(grid) : PointOf(grid, i) = PointOf(grid, j) => i = j
        BY <1>1, <1>5, PointsDiffer
    <2>2. b \in Bijection(1 .. Count(grid), Points)
        BY <2>1 DEF Points, Bijection, Injection, Surjection, IsInjective
    <2>3. ExistsBijection(1 .. Count(grid), Points)
        BY <2>2 DEF ExistsBijection
    <2> QED
        BY <1>1, <2>3, FS_CountingElements
<1> QED
    BY <1>4, <1>5 DEF GridIsCovered

\* In a sweep, the points are all the ways to choose a value for each key.
THEOREM GridIsCoveredHolds == SweepSpec => []GridIsCovered
<1>1. SweepInit => grid \in Grids
    BY DEF SweepInit
<1>2. grid \in Grids /\ [SweepNext]_sweepvars => (grid \in Grids)'
    BY DEF SweepNext, RunPoint, RefusePoint, RankRows, sweepvars
<1> QED
    BY <1>1, <1>2, CoversGrid, PTL DEF SweepSpec

Metrics == [DOMAIN Senses -> Int \union {Unmeasured}]

AnyRow == [params : { PointOf(grid, i) : i \in Nat }, ok : BOOLEAN, hits : Nat, metrics : Metrics]

RowsTrue ==
    /\ rows \in Seq(AnyRow)
    /\ \A i \in DOMAIN rows :
          /\ rows[i].params = PointOf(grid, i)
          /\ rows[i].ok => rows[i].metrics = quality[Applied(PointOf(grid, i))]

SweepInv ==
    /\ Count(grid) \in Nat
    /\ quality \in [{ Applied(p) : p \in { q \in Points : Valid(q) } } -> Qualities]
    /\ RowsTrue
    /\ front # NotRanked => ~Running /\ front = ParetoFront

LEMMA DominanceOrders ==
    ASSUME NEW names \in SUBSET DOMAIN Senses, RowsTrue,
           NEW i \in Usable(names), NEW j \in Usable(names), NEW k \in Usable(names)
    PROVE  /\ ~Dominates(names, i, i)
           /\ Dominates(names, i, j) /\ Dominates(names, j, k) => Dominates(names, i, k)
<1>1. \A m \in names : Senses[m] \in {"min", "max"}
    BY SweepAssumption
<1>2. \A x \in Usable(names) : \A m \in names : rows[x].metrics[m] \in Int
    <2> SUFFICES ASSUME NEW x \in Usable(names), NEW m \in names
                 PROVE  rows[x].metrics[m] \in Int
        OBVIOUS
    <2>1. x \in DOMAIN rows /\ rows[x].metrics[m] # Unmeasured
        BY DEF Usable, OkRows
    <2>2. rows[x] \in AnyRow
        BY <2>1 DEF RowsTrue
    <2>3. rows[x].metrics \in [DOMAIN Senses -> Int \union {Unmeasured}]
        BY <2>2 DEF AnyRow, Metrics
    <2> QED
        BY <2>1, <2>3
<1>3. \A m \in names : ~Better(m, rows[i].metrics[m], rows[i].metrics[m])
    BY <1>1, <1>2 DEF Better
<1>4. ASSUME Dominates(names, i, j), Dominates(names, j, k)
      PROVE  Dominates(names, i, k)
    <2>1. \A m \in names : ~Better(m, rows[k].metrics[m], rows[i].metrics[m])
        BY <1>1, <1>2, <1>4 DEF Dominates, Better
    <2>2. PICK m \in names : Better(m, rows[i].metrics[m], rows[j].metrics[m])
        BY <1>4 DEF Dominates
    <2>3. Better(m, rows[i].metrics[m], rows[k].metrics[m])
        BY <1>1, <1>2, <1>4, <2>2 DEF Dominates, Better
    <2> QED
        BY <2>1, <2>3 DEF Dominates
<1> QED
    BY <1>3, <1>4 DEF Dominates

\* A dominated row is dominated by one that is not.
LEMMA Undominated ==
    ASSUME NEW names \in SUBSET DOMAIN Senses, RowsTrue,
           NEW j \in Usable(names), NEW d \in Usable(names), Dominates(names, d, j)
    PROVE  \E i \in Usable(names) :
             /\ Dominates(names, i, j)
             /\ \A k \in Usable(names) : ~Dominates(names, k, i)
<1> DEFINE Above(i) == { k \in Usable(names) : Dominates(names, k, i) }
           family == { Above(i) : i \in Above(j) }
<1>1. IsFiniteSet(Usable(names))
    <2>1. IsFiniteSet(1 .. Len(rows))
        BY FS_Interval DEF RowsTrue
    <2>2. Usable(names) \subseteq 1 .. Len(rows)
        BY DEF Usable, OkRows, RowsTrue
    <2> QED
        BY <2>1, <2>2, FS_Subset
<1>2. family \subseteq FiniteSubsetsOf(Usable(names)) /\ family # {}
    <2>1. d \in Above(j)
        OBVIOUS
    <2>2. \A i \in Above(j) : Above(i) \subseteq Usable(names) /\ IsFiniteSet(Above(i))
        BY <1>1, FS_Subset
    <2> QED
        BY <2>1, <2>2 DEF FiniteSubsetsOf
<1>3. PICK a \in family : \A b \in family :
         ~(<<b, a>> \in StrictSubsetOrdering(Usable(names)))
    BY <1>1, <1>2, FS_StrictSubsetOrderingWellFounded, WFMin
<1>4. PICK i \in Above(j) : a = Above(i)
    BY <1>3
<1>5. ASSUME NEW k \in Above(i)
      PROVE  FALSE
    <2>1. k \in Above(j)
        BY <1>4, <1>5, DominanceOrders
    <2>2. Above(k) \subseteq Above(i) /\ k \notin Above(k)
        BY <1>4, <1>5, DominanceOrders
    <2>3. Above(k) \in family /\ Above(k) # a
        BY <1>4, <1>5, <2>1, <2>2
    <2>4. <<Above(k), a>> \in StrictSubsetOrdering(Usable(names))
        BY <1>4, <2>2, <2>3 DEF StrictSubsetOrdering
    <2> QED
        BY <1>3, <2>3, <2>4
<1> QED
    BY <1>4, <1>5

LEMMA SweepStarts == SweepInit => SweepInv
<1>1. SweepInit => Count(grid) \in Nat
    BY CountIsNat DEF SweepInit
<1> QED
    BY <1>1 DEF SweepInit, SweepInv, RowsTrue

LEMMA RowIsAdded ==
    ASSUME SweepInv, Running, NEW row \in AnyRow, rows' = Append(rows, row),
           UNCHANGED <<grid, quality, front>>,
           row.params = Point, row.ok => row.metrics = quality[Applied(Point)]
    PROVE  SweepInv'
<1> USE DEF SweepInv
<1>1. front = NotRanked
    OBVIOUS
<1>2. rows \in Seq(AnyRow)
    BY DEF RowsTrue
<1>3. /\ rows' \in Seq(AnyRow) /\ DOMAIN rows' = 1 .. Len(rows) + 1
      /\ \A i \in DOMAIN rows : rows'[i] = rows[i]
      /\ rows'[Len(rows) + 1] = row
    BY <1>2
<1>4. AnyRow' = AnyRow
    BY DEF AnyRow, PointOf, Metrics
<1>5. RowsTrue'
    <2> SUFFICES ASSUME NEW i \in DOMAIN rows'
                 PROVE  /\ rows'[i].params = PointOf(grid, i)
                        /\ rows'[i].ok =>
                             rows'[i].metrics = quality[Applied(PointOf(grid, i))]
        BY <1>3, <1>4 DEF RowsTrue
    <2>1. CASE i \in DOMAIN rows
        BY <1>3, <2>1 DEF RowsTrue
    <2>2. CASE i = Len(rows) + 1
        BY <1>3, <2>2 DEF Point
    <2> QED
        BY <1>2, <1>3, <2>1, <2>2
<1> QED
    BY <1>1, <1>5 DEF Points

\* A valid point of the grid is measured by numbers.
LEMMA Measurable ==
    ASSUME SweepInv, Running, Valid(Point)
    PROVE  quality[Applied(Point)] \in Metrics
<1>1. Len(rows) + 1 \in 1 .. Count(grid)
    BY DEF SweepInv, RowsTrue, Running
<1>2. Point \in Points
    BY <1>1 DEF Point, Points
<1> QED
    BY <1>2, SweepAssumption DEF SweepInv, Metrics

LEMMA SweepStep == SweepInv /\ [SweepNext]_sweepvars => SweepInv'
<1> SUFFICES ASSUME SweepInv, [SweepNext]_sweepvars
             PROVE  SweepInv'
    OBVIOUS
<1>1. NoMetrics \in Metrics
    BY DEF NoMetrics, Metrics
<1>2. Running => Point \in { PointOf(grid, i) : i \in Nat }
    BY DEF Point, SweepInv, RowsTrue
<1>3. CASE RunPoint
    <2>1. PICK n \in 0 .. 2, raised \in BOOLEAN :
             rows' = Append(rows,
                 [params |-> Point, ok |-> n = 2 /\ ~raised,
                  hits |-> Cardinality({ s \in 1 .. n : ResultKey(Applied(Point), s) \in cached }),
                  metrics |-> IF n = 2 /\ ~raised THEN quality[Applied(Point)] ELSE NoMetrics])
        BY <1>3 DEF RunPoint
    <2> DEFINE found == { s \in 1 .. n : ResultKey(Applied(Point), s) \in cached }
               row == [params |-> Point, ok |-> n = 2 /\ ~raised, hits |-> Cardinality(found),
                       metrics |-> IF n = 2 /\ ~raised THEN quality[Applied(Point)]
                                   ELSE NoMetrics]
    <2>2. Cardinality(found) \in Nat
        <3>1. IsFiniteSet(1 .. n) /\ found \subseteq 1 .. n
            BY FS_Interval
        <3> QED
            BY <3>1, FS_Subset, FS_CardinalityType
    <2> HIDE DEF found
    <2>3. Running /\ quality[Applied(Point)] \in Metrics /\ UNCHANGED <<grid, quality, front>>
        BY <1>3, Measurable DEF RunPoint
    <2>4. (n = 2 /\ ~raised) \in BOOLEAN
        OBVIOUS
    <2>5. (IF n = 2 /\ ~raised THEN quality[Applied(Point)] ELSE NoMetrics) \in Metrics
        BY <1>1, <2>3
    <2>6. row \in AnyRow
        BY <1>2, <2>2, <2>3, <2>4, <2>5 DEF AnyRow
    <2>7. rows' = Append(rows, row)
        BY <2>1 DEF found
    <2>8. row.params = Point /\ (row.ok => row.metrics = quality[Applied(Point)])
        OBVIOUS
    <2> HIDE DEF row
    <2> QED
        BY <2>3, <2>6, <2>7, <2>8, RowIsAdded
<1>4. CASE RefusePoint
    <2> DEFINE row == [params |-> Point, ok |-> FALSE, hits |-> 0, metrics |-> NoMetrics]
    <2>1. Running /\ rows' = Append(rows, row) /\ UNCHANGED <<grid, quality, front>>
        BY <1>4 DEF RefusePoint
    <2>2. row \in AnyRow
        BY <1>1, <1>2, <2>1 DEF AnyRow
    <2>3. row.params = Point /\ ~row.ok
        OBVIOUS
    <2> HIDE DEF row
    <2> QED
        BY <2>1, <2>2, <2>3, RowIsAdded
<1>5. CASE RankRows
    <2>1. ~Running /\ front' = ParetoFront /\ UNCHANGED <<grid, quality, rows>>
        BY <1>5 DEF RankRows
    <2>2. AnyRow' = AnyRow
        BY <2>1 DEF AnyRow
    <2>3. ParetoFront' = ParetoFront
        BY <2>1 DEF ParetoFront, Objectives, Usable, OkRows, Dominates
    <2> QED
        BY <2>1, <2>2, <2>3 DEF SweepInv, RowsTrue, Running, Points
<1>6. CASE UNCHANGED sweepvars
    <2>1. AnyRow' = AnyRow
        BY <1>6 DEF AnyRow, sweepvars
    <2>2. ParetoFront' = ParetoFront
        BY <1>6 DEF ParetoFront, Objectives, Usable, OkRows, Dominates, sweepvars
    <2> QED
        BY <1>6, <2>1, <2>2 DEF SweepInv, RowsTrue, Running, Points, sweepvars
<1> QED
    BY <1>3, <1>4, <1>5, <1>6 DEF SweepNext

LEMMA FrontTells == SweepInv => FrontIsHonest
<1> SUFFICES ASSUME SweepInv
             PROVE  FrontIsHonest
    OBVIOUS
<1> DEFINE measured == { m \in DOMAIN Senses : \E i \in OkRows : rows[i].metrics[m] # Unmeasured }
           whole == { i \in OkRows : measured # {} /\ Measures(i, measured) }
<1>1. ASSUME front # NotRanked
      PROVE  /\ front \subseteq whole
             /\ \A i, j \in front : ~Dominates(measured, i, j)
             /\ \A j \in whole \ front : \E i \in front : Dominates(measured, i, j)
             /\ whole # {} => front # {}
    <2>1. RowsTrue /\ front = ParetoFront
        BY <1>1 DEF SweepInv
    <2>2. CASE OkRows = {}
        <3>1. measured = {} /\ front = {}
            BY <2>1, <2>2 DEF ParetoFront, Usable
        <3> QED
            BY <3>1
    <2>3. CASE OkRows # {} /\ measured = {}
        <3>1. front = {}
            BY <2>1, <2>3 DEF ParetoFront, Objectives
        <3> QED
            BY <2>3, <3>1
    <2>4. CASE OkRows # {} /\ measured # {}
        <3>1. whole = Usable(measured)
            BY <2>4 DEF Usable, Measures
        <3>2. front = { i \in Usable(measured) :
                         ~\E j \in Usable(measured) \ {i} : Dominates(measured, j, i) }
            BY <2>1, <2>4 DEF ParetoFront, Objectives
        <3>3. measured \in SUBSET DOMAIN Senses
            OBVIOUS
        <3> HIDE DEF measured, whole
        <3>4. \A i \in Usable(measured) : ~Dominates(measured, i, i)
            BY <2>1, <3>3, DominanceOrders
        <3>5. front = { i \in Usable(measured) :
                         \A j \in Usable(measured) : ~Dominates(measured, j, i) }
            BY <3>2, <3>4
        <3>6. \A j \in Usable(measured) \ front : \E i \in front : Dominates(measured, i, j)
            BY <2>1, <3>3, <3>5, Undominated
        <3> QED
            BY <3>1, <3>5, <3>6
    <2> QED
        BY <2>2, <2>3, <2>4
<1> QED
    BY <1>1 DEF FrontIsHonest, SweepInv, RowsTrue

\* The front is honest for any grid, senses and outcomes of the points, and any
\* numbers that these measure (validate/sweep.py).
THEOREM FrontIsHonestHolds == SweepSpec => []FrontIsHonest
BY SweepStarts, SweepStep, FrontTells, PTL DEF SweepSpec
-----------------------------------------------------------------------------
(* Tiling: strategies fit, tiles cover.                                     *)
(*                                                                          *)
(* An edge of the grid is at most half a pixel from where it would be       *)
(* without rounding, so that cores are in order and none is more than       *)
(* CeilDiv(n, k) long; from there on it is arithmetic of intervals.  The    *)
(* invariant of the search is that what it holds are tilings of the raster. *)

\* a / b is rounded by half at most.
LEMMA RoundsByHalf ==
    ASSUME NEW a \in Nat, NEW b \in Nat \ {0}
    PROVE  /\ RoundDiv(a, b) \in Nat
           /\ 2 * (b * RoundDiv(a, b)) <= 2 * a + b
           /\ 2 * a <= 2 * (b * RoundDiv(a, b)) + b
<1> DEFINE q == a \div b
           r == a % b
<1>1. q \in Nat /\ r \in 0 .. b - 1 /\ a = b * q + r
    BY DivRest
<1>2. b * (q + 1) = b * q + b /\ b * q \in Nat
    BY <1>1
<1>3. (RoundDiv(a, b) = q /\ 2 * r <= b) \/ (RoundDiv(a, b) = q + 1 /\ 2 * r >= b)
    <2> HIDE DEF q, r
    <2>1. RoundDiv(a, b) = IF 2 * r < b \/ (2 * r = b /\ q % 2 = 0) THEN q ELSE q + 1
        BY DEF RoundDiv, q, r
    <2> QED
        BY <2>1, <1>1
<1> HIDE DEF q, r
<1> QED
    BY <1>1, <1>2, <1>3

\* Rounding up.
LEMMA RoundsUp ==
    ASSUME NEW a \in Nat, NEW b \in Nat \ {0}
    PROVE  /\ CeilDiv(a, b) \in Nat /\ a <= b * CeilDiv(a, b)
           /\ a > 0 => CeilDiv(a, b) > 0
           /\ a % b = 0 => a = b * CeilDiv(a, b)
<1> DEFINE c == CeilDiv(a, b)
<1>1. a + b - 1 \in Nat /\ c = (a + b - 1) \div b
    BY DEF CeilDiv
<1>2. c \in Nat /\ \E r \in 0 .. b - 1 : a + b - 1 = b * c + r
    BY <1>1, DivRest
<1>3. \E r \in 0 .. b - 1 : a + b - 1 = b * c + r /\ b * c \in Nat
    BY <1>2
<1>4. a <= b * c
    BY <1>3
<1>5. ASSUME a > 0 PROVE c > 0
    BY <1>2, <1>4, <1>5
<1>6. ASSUME a % b = 0 PROVE a = b * c
    <2> DEFINE q == a \div b
    <2>1. q \in Nat /\ a = b * q
        BY <1>6, DivRest
    <2> HIDE DEF q
    <2>2. c <= q
        <3>1. SUFFICES ASSUME q < c PROVE FALSE
            BY <1>2, <2>1
        <3>2. b * q + b <= b * c
            BY <3>1, <1>2, <2>1, Scaled
        <3> QED
            BY <3>2, <2>1, <1>3
    <2>3. b * c <= b * q
        BY <2>2, <2>1, <1>2, Scaled
    <2> QED
        BY <2>1, <2>3, <1>4, <1>3
<1> HIDE DEF c
<1> QED
    BY <1>2, <1>4, <1>5, <1>6 DEF c

\* Where the pieces of an axis end: in order, the first at 0, the last at n, and
\* none longer than CeilDiv(n, k), which it is exactly if k divides n.
LEMMA EdgeIs ==
    ASSUME NEW n \in Nat \ {0}, NEW k \in Nat \ {0}, NEW i \in 0 .. k
    PROVE  /\ Edge(n, k, i) \in Nat /\ i * n \in Nat
           /\ 2 * (k * Edge(n, k, i)) <= 2 * (i * n) + k
           /\ 2 * (i * n) <= 2 * (k * Edge(n, k, i)) + k
<1>1. i \in Nat /\ i * n \in Nat
    OBVIOUS
<1> QED
    BY <1>1, RoundsByHalf DEF Edge

LEMMA RoundsExactly ==
    ASSUME NEW m \in Nat, NEW k \in Nat \ {0}, NEW e \in Nat,
           2 * (k * e) <= 2 * (k * m) + k, 2 * (k * m) <= 2 * (k * e) + k
    PROVE  e = m
<1>1. k * e \in Int /\ k * m \in Int
    BY Scaled
<1>2. e < m => k * e + k <= k * m
    BY Scaled
<1>3. m < e => k * m + k <= k * e
    BY Scaled
<1> QED
    BY <1>1, <1>2, <1>3

LEMMA EdgeEnds ==
    ASSUME NEW n \in Nat \ {0}, NEW k \in Nat \ {0}
    PROVE  Edge(n, k, 0) = 0 /\ Edge(n, k, k) = n
<1>1. 0 \in 0 .. k /\ k \in 0 .. k /\ 0 * n = k * 0 /\ 0 \in Nat /\ n \in Nat
    OBVIOUS
<1>2. Edge(n, k, 0) = 0
    <2> DEFINE e == Edge(n, k, 0)
    <2>1. e \in Nat /\ 2 * (k * e) <= 2 * (k * 0) + k /\ 2 * (k * 0) <= 2 * (k * e) + k
        BY <1>1, EdgeIs
    <2> HIDE DEF e
    <2>2. e = 0
        BY <1>1, <2>1, RoundsExactly
    <2> QED
        BY <2>2 DEF e
<1>3. Edge(n, k, k) = n
    <2> DEFINE e == Edge(n, k, k)
    <2>1. e \in Nat /\ 2 * (k * e) <= 2 * (k * n) + k /\ 2 * (k * n) <= 2 * (k * e) + k
        BY <1>1, EdgeIs
    <2> HIDE DEF e
    <2>2. e = n
        BY <1>1, <2>1, RoundsExactly
    <2> QED
        BY <2>2 DEF e
<1> QED
    BY <1>2, <1>3

LEMMA EdgesInOrder ==
    ASSUME NEW n \in Nat \ {0}, NEW k \in Nat \ {0},
           NEW i \in 0 .. k, NEW j \in 0 .. k, i <= j
    PROVE  Edge(n, k, i) <= Edge(n, k, j)
<1> DEFINE d == Edge(n, k, i)
           e == Edge(n, k, j)
<1>1. /\ d \in Nat /\ 2 * (k * d) <= 2 * (i * n) + k
      /\ e \in Nat /\ 2 * (j * n) <= 2 * (k * e) + k
      /\ i * n \in Nat /\ j * n \in Nat
    BY EdgeIs
<1>2. i = j => d = e
    OBVIOUS
<1> HIDE DEF d, e
<1>3. ASSUME i < j PROVE d <= e
    <2>1. n * i + n <= n * j
        BY <1>3, Scaled
    <2>2. i * n + n <= j * n
        BY <2>1
    <2>3. e < d => k * e + k <= k * d
        BY <1>1, Scaled
    <2>4. k * e \in Int /\ k * d \in Int
        BY <1>1, Scaled
    <2> HIDE DEF d, e
    <2> QED
        BY <1>1, <2>2, <2>3, <2>4
<1>4. d \in Nat /\ e \in Nat /\ i \in Int /\ j \in Int
    BY <1>1
<1> QED
    BY <1>2, <1>3, <1>4 DEF d, e

LEMMA CoreIsSmall ==
    ASSUME NEW n \in Nat \ {0}, NEW k \in Nat \ {0}, NEW i \in 1 .. k
    PROVE  /\ Edge(n, k, i) - Edge(n, k, i - 1) <= CeilDiv(n, k)
           /\ n % k = 0 => Edge(n, k, i) - Edge(n, k, i - 1) = CeilDiv(n, k)
<1> DEFINE d == Edge(n, k, i - 1)
           e == Edge(n, k, i)
           c == CeilDiv(n, k)
<1>0. i \in 0 .. k /\ i - 1 \in 0 .. k
    OBVIOUS
<1>1. /\ d \in Nat /\ 2 * (k * d) <= 2 * ((i - 1) * n) + k
      /\ e \in Nat /\ 2 * (k * e) <= 2 * (i * n) + k
      /\ i * n \in Nat /\ (i - 1) * n \in Nat
      /\ 2 * ((i - 1) * n) <= 2 * (k * d) + k /\ 2 * (i * n) <= 2 * (k * e) + k
    BY <1>0, EdgeIs
<1>2. c \in Nat /\ n <= k * c /\ (n % k = 0 => n = k * c)
    BY RoundsUp
<1>3. (i - 1) * n = i * n - n
    OBVIOUS
<1> HIDE DEF d, e, c
<1>4. n = k * c => d = (i - 1) * c /\ e = i * c
    <2> SUFFICES ASSUME n = k * c PROVE d = (i - 1) * c /\ e = i * c
        OBVIOUS
    <2>1. i * c \in Nat /\ (i - 1) * c \in Nat
        BY <1>2
    <2>2. i * n = k * (i * c) /\ (i - 1) * n = k * ((i - 1) * c)
        BY <1>2
    <2> QED
        BY <1>1, <2>1, <2>2, RoundsExactly
<1>5. n = k * c => e - d = c
    BY <1>4, <1>2
<1>6. ASSUME c < e - d PROVE n = k * c
    <2>1. k * c + k <= k * (e - d) /\ k * (e - d) = k * e - k * d
        BY <1>1, <1>2, <1>6, Scaled
    <2>2. k * e \in Int /\ k * d \in Int /\ k * c \in Int
        BY <1>1, <1>2, Scaled
    <2> QED
        BY <1>1, <1>2, <1>3, <2>1, <2>2
<1>7. e - d <= c
    BY <1>1, <1>2, <1>5, <1>6
<1> QED
    BY <1>2, <1>5, <1>7 DEF d, e, c

LEMMA SmallestIs ==
    ASSUME NEW n \in Nat \ {0}, NEW k \in Nat \ {0}
    PROVE  \A c \in Nat :
             c <= SmallestCore(n, k) <=>
                \A i \in 1 .. k : c <= Edge(n, k, i) - Edge(n, k, i - 1)
<1> DEFINE length(i) == Edge(n, k, i) - Edge(n, k, i - 1)
           lengths == { length(i) : i \in 1 .. k }
<1>1. \A i \in 1 .. k : length(i) \in 0 .. n
    <2> SUFFICES ASSUME NEW i \in 1 .. k PROVE length(i) \in 0 .. n
        OBVIOUS
    <2>1. i \in 0 .. k /\ i - 1 \in 0 .. k /\ k \in 0 .. k /\ i - 1 <= i /\ i <= k
        OBVIOUS
    <2>2. Edge(n, k, i) \in Nat /\ Edge(n, k, i - 1) \in Nat
        BY <2>1, EdgeIs
    <2>3. Edge(n, k, i - 1) <= Edge(n, k, i) /\ Edge(n, k, i) <= n
        BY <2>1, EdgesInOrder, EdgeEnds
    <2> QED
        BY <2>2, <2>3
<1>2. lengths \in SUBSET Nat /\ length(1) \in lengths
    <2>1. 1 \in 1 .. k
        OBVIOUS
    <2>2. 0 .. n \subseteq Nat
        OBVIOUS
    <2> HIDE DEF length
    <2> QED
        BY <1>1, <2>1, <2>2
<1>3. \E c \in 0 .. n : (\E i \in 1 .. k : length(i) = c) /\ \A i \in 1 .. k : length(i) >= c
    <2>1. PICK c \in lengths : \A d \in lengths : c <= d
        BY <1>2, LeastOf
    <2>2. PICK i \in 1 .. k : length(i) = c
        BY <2>1
    <2> HIDE DEF length
    <2> QED
        BY <1>1, <1>2, <2>1, <2>2
<1>4. /\ SmallestCore(n, k) \in 0 .. n
      /\ \E i \in 1 .. k : length(i) = SmallestCore(n, k)
      /\ \A i \in 1 .. k : length(i) >= SmallestCore(n, k)
    BY <1>3 DEF SmallestCore
<1> HIDE DEF length
<1>5. \A c \in Nat : c <= SmallestCore(n, k) <=> \A i \in 1 .. k : c <= length(i)
    BY <1>1, <1>4
<1> QED
    BY <1>5 DEF length

LEMMA HalvesOf ==
    ASSUME NEW o \in Nat
    PROVE  o \div 2 \in Nat /\ o - (o \div 2) \in Nat
BY DivRest

\* The extent of a piece: its core and what it shares with its neighbours.
LEMMA PieceIs ==
    ASSUME NEW n \in Nat \ {0}, NEW k \in Nat \ {0}, NEW o \in Nat, NEW i \in 1 .. k
    PROVE  LET p == AxisPartition(n, k, o)[i] IN
             /\ p.coreFrom = Edge(n, k, i - 1) /\ p.coreTo = Edge(n, k, i)
             /\ p.from \in Nat /\ p.to \in Nat /\ p.coreFrom \in Nat /\ p.coreTo \in Nat
             /\ p.from <= p.coreFrom /\ p.coreFrom <= p.coreTo /\ p.coreTo <= p.to /\ p.to <= n
             /\ i # 1 => p.coreFrom - (o \div 2) <= p.from
             /\ i # k => p.to <= p.coreTo + (o - (o \div 2))
             /\ k = 1 => p.from = 0 /\ p.to = n
<1> DEFINE p == AxisPartition(n, k, o)[i]
           d == Edge(n, k, i - 1)
           e == Edge(n, k, i)
           low == o \div 2
           high == o - (o \div 2)
<1>1. /\ p.coreFrom = d /\ p.coreTo = e
      /\ p.from = IF i = 1 THEN 0 ELSE Most(0, d - low)
      /\ p.to = IF i = k THEN n ELSE Least(n, e + high)
    BY DEF AxisPartition
<1>2. i \in 0 .. k /\ i - 1 \in 0 .. k /\ k \in 0 .. k /\ i - 1 <= i /\ i <= k
    OBVIOUS
<1>3. d \in Nat /\ e \in Nat /\ d <= e /\ e <= n
    <2>1. d \in Nat /\ e \in Nat
        BY <1>2, EdgeIs
    <2>2. d <= e /\ e <= n
        BY <1>2, EdgesInOrder, EdgeEnds
    <2> QED
        BY <2>1, <2>2
<1>4. low \in Nat /\ high \in Nat
    BY HalvesOf
<1>5. i = 1 => d = 0
    BY EdgeEnds
<1>6. i = k => e = n
    BY EdgeEnds
<1> HIDE DEF p, d, e, low, high
<1>7. /\ p.from \in Nat /\ p.from <= d /\ (i # 1 => d - low <= p.from)
      /\ i = 1 => p.from = 0
    BY <1>1, <1>3, <1>4, <1>5 DEF Most
<1>8. /\ p.to \in Nat /\ e <= p.to /\ p.to <= n /\ (i # k => p.to <= e + high)
      /\ i = k => p.to = n
    BY <1>1, <1>3, <1>4, <1>6 DEF Least
<1>9. k = 1 => i = 1 /\ i = k
    OBVIOUS
<1>10. /\ p.coreFrom = d /\ p.coreTo = e
       /\ p.from \in Nat /\ p.to \in Nat /\ p.coreFrom \in Nat /\ p.coreTo \in Nat
       /\ p.from <= p.coreFrom /\ p.coreFrom <= p.coreTo /\ p.coreTo <= p.to /\ p.to <= n
       /\ i # 1 => p.coreFrom - low <= p.from
       /\ i # k => p.to <= p.coreTo + high
       /\ k = 1 => p.from = 0 /\ p.to = n
    BY <1>1, <1>3, <1>7, <1>8, <1>9
<1> QED
    BY <1>10 DEF p, d, e, low, high

\* A piece whose overlap is no longer than the smallest core is as long as a core
\* and the overlap, at most.
LEMMA ExtentIsSmall ==
    ASSUME NEW n \in Nat \ {0}, NEW k \in Nat \ {0}, NEW o \in Nat, NEW i \in 1 .. k
    PROVE  LET p == AxisPartition(n, k, o)[i] IN
             /\ p.to - p.from \in Nat
             /\ p.to - p.from <= Least(n, CeilDiv(n, k) + (IF k > 1 THEN o ELSE 0))
<1> DEFINE p == AxisPartition(n, k, o)[i]
           low == o \div 2
           high == o - (o \div 2)
           c == CeilDiv(n, k)
<1>1. /\ p.from \in Nat /\ p.to \in Nat /\ p.coreFrom \in Nat /\ p.coreTo \in Nat
      /\ p.from <= p.coreFrom /\ p.coreFrom <= p.coreTo /\ p.coreTo <= p.to /\ p.to <= n
      /\ i # 1 => p.coreFrom - low <= p.from
      /\ i # k => p.to <= p.coreTo + high
    BY PieceIs
<1>2. p.coreTo - p.coreFrom <= c
    <2>1. p.coreFrom = Edge(n, k, i - 1) /\ p.coreTo = Edge(n, k, i)
        BY DEF AxisPartition
    <2>2. Edge(n, k, i) - Edge(n, k, i - 1) <= c
        BY CoreIsSmall
    <2> QED
        BY <2>1, <2>2
<1>3. c \in Nat /\ low \in Nat /\ high \in Nat /\ low + high = o
    BY RoundsUp, HalvesOf
<1>4. i = 1 => p.coreFrom = 0
    BY PieceIs, EdgeEnds
<1>5. i = k => p.coreTo = n
    BY PieceIs, EdgeEnds
<1> HIDE DEF p, low, high, c
<1>6. p.coreFrom - p.from <= low /\ p.to - p.coreTo <= high
    BY <1>1, <1>3, <1>4, <1>5
<1>7. p.to - p.from <= n /\ p.to - p.from \in Nat /\ p.to - p.from <= c + o
    BY <1>1, <1>2, <1>3, <1>6
<1>8. k = 1 => p.to - p.from <= c
    BY <1>1, <1>2, <1>3, <1>4, <1>5
<1>9. k > 1 \/ k = 1
    OBVIOUS
<1>10. p.to - p.from <= Least(n, c + (IF k > 1 THEN o ELSE 0))
    BY <1>3, <1>7, <1>8, <1>9 DEF Least
<1> QED
    BY <1>7, <1>10 DEF p, c

\* merge_tiles gives weight to what is in an extent.
LEMMA WeightInside ==
    ASSUME NEW p, p.from \in Nat, p.to \in Nat, NEW x \in Nat, p.from <= x, x < p.to
    PROVE  RampWeight(p, x) > 0
BY DEF RampWeight

LEMMA CoversTheAxis ==
    ASSUME NEW n \in Nat \ {0}, NEW k \in Nat \ {0}, NEW o \in Nat, Accepted(n, k, o)
    PROVE  AxisIsCovered(n, k, o)
<1> DEFINE A == AxisPartition(n, k, o)
           E(i) == Edge(n, k, i)
<1>1. \A i \in 1 .. k : A[i].coreFrom = E(i - 1) /\ A[i].coreTo = E(i)
    BY PieceIs
<1>2. \A i, j \in 0 .. k : E(i) \in Nat /\ (i <= j => E(i) <= E(j))
    <2> TAKE i, j \in 0 .. k
    <2>1. E(i) \in Nat
        BY EdgeIs
    <2>2. i <= j => E(i) <= E(j)
        BY EdgesInOrder
    <2> QED
        BY <2>1, <2>2
<1>3. E(0) = 0 /\ E(k) = n
    BY EdgeEnds
<1>4. \A i \in 1 .. k : /\ A[i].from \in Nat /\ A[i].to \in Nat
                        /\ A[i].from <= E(i - 1) /\ E(i) <= A[i].to
    <2> SUFFICES ASSUME NEW i \in 1 .. k
                 PROVE  /\ A[i].from \in Nat /\ A[i].to \in Nat
                        /\ A[i].from <= E(i - 1) /\ E(i) <= A[i].to
        OBVIOUS
    <2>1. /\ A[i].from \in Nat /\ A[i].to \in Nat
          /\ A[i].from <= A[i].coreFrom /\ A[i].coreTo <= A[i].to
        BY PieceIs
    <2> QED
        BY <2>1, <1>1
<1>5. ASSUME NEW x \in 0 .. n - 1
      PROVE  \E i \in 1 .. k : E(i - 1) <= x /\ x < E(i)
    <2> DEFINE above == { i \in 1 .. k : x < E(i) }
    <2>1. above \in SUBSET Nat /\ k \in above
        BY <1>3
    <2>2. PICK i \in above : \A j \in above : i <= j
        BY <2>1, LeastOf
    <2>3. i \in 1 .. k /\ x < E(i) /\ i - 1 \in 0 .. k
        BY <2>2
    <2>4. E(i - 1) <= x
        <3>1. CASE i = 1
            BY <3>1, <1>3
        <3>2. CASE i # 1
            <4>1. i - 1 \in 1 .. k /\ i - 1 \notin above
                BY <2>2, <2>3, <3>2
            <4> QED
                BY <4>1, <2>3, <1>2
        <3> QED
            BY <3>1, <3>2
    <2> QED
        BY <2>3, <2>4
<1>6. ASSUME NEW x \in 0 .. n - 1, NEW i \in 1 .. k, NEW j \in 1 .. k,
             E(i - 1) <= x, x < E(i), E(j - 1) <= x, x < E(j)
      PROVE  i = j
    <2> HIDE DEF E
    <2>1. i \in 0 .. k /\ j \in 0 .. k /\ i - 1 \in 0 .. k /\ j - 1 \in 0 .. k
        OBVIOUS
    <2>2. ~(i <= j - 1) /\ ~(j <= i - 1)
        BY <1>2, <1>6, <2>1
    <2> QED
        BY <2>2
<1>7. ASSUME NEW x \in 0 .. n - 1
      PROVE  /\ Cardinality({i \in 1 .. k : A[i].coreFrom <= x /\ x < A[i].coreTo}) = 1
             /\ \E i \in 1 .. k : RampWeight(A[i], x) > 0
    <2>1. PICK i \in 1 .. k : E(i - 1) <= x /\ x < E(i)
        BY <1>5
    <2>2. {j \in 1 .. k : A[j].coreFrom <= x /\ x < A[j].coreTo} = {i}
        <3> HIDE DEF A, E
        <3> QED
            BY <1>1, <1>6, <2>1
    <2>3. A[i].from \in Nat /\ A[i].to \in Nat /\ A[i].from <= x /\ x < A[i].to
        <3>1. i \in 0 .. k /\ i - 1 \in 0 .. k
            OBVIOUS
        <3> HIDE DEF A, E
        <3> QED
            BY <1>2, <1>4, <2>1, <3>1
    <2>4. RampWeight(A[i], x) > 0
        BY <2>3, WeightInside
    <2>5. Cardinality({i}) = 1
        BY FS_Singleton
    <2> QED
        BY <2>2, <2>4, <2>5
<1>8. ASSUME NEW i \in 1 .. k, NEW j \in i + 2 .. k
      PROVE  A[i].to <= A[j].from
    <2>1. k > 1 /\ j \in 1 .. k /\ i + 1 \in 1 .. k /\ i \in 0 .. k /\ i + 1 \in 0 .. k /\ j - 1 \in 0 .. k
          /\ i # k /\ j # 1 /\ i + 1 <= j - 1 /\ (i + 1) - 1 = i
        OBVIOUS
    <2>2. o <= E(i + 1) - E(i)
        <3>1. o <= SmallestCore(n, k)
            BY <2>1 DEF Accepted
        <3> QED
            BY <3>1, <2>1, SmallestIs
    <2>3. A[i].to <= E(i) + (o - (o \div 2))
        <3>1. A[i].to <= A[i].coreTo + (o - (o \div 2))
            BY <2>1, PieceIs
        <3> HIDE DEF A, E
        <3> QED
            BY <3>1, <1>1
    <2>4. E(j - 1) - (o \div 2) <= A[j].from
        BY <2>1, PieceIs
    <2>5. E(i + 1) <= E(j - 1) /\ E(i) \in Nat /\ E(i + 1) \in Nat /\ E(j - 1) \in Nat
        BY <2>1, <1>2
    <2>6. A[i].to \in Nat /\ A[j].from \in Nat /\ o \div 2 \in Nat
        BY <2>1, <1>4, HalvesOf
    <2> HIDE DEF A, E
    <2> QED
        BY <2>2, <2>3, <2>4, <2>5, <2>6
<1> HIDE DEF A, E
<1>9. \A i \in 1 .. k : A[i].from <= A[i].coreFrom /\ A[i].coreTo <= A[i].to
    BY <1>1, <1>4
<1> QED
    BY <1>7, <1>8, <1>9 DEF AxisIsCovered, A

\* A rounded root exists.
LEMMA RootIs ==
    ASSUME NEW a \in Nat, NEW b \in Nat \ {0}
    PROVE  RoundSqrt(a, b) \in 0 .. (a + 1)
<1> DEFINE low(r) == (2 * r - 1) * (2 * r - 1) * b
           high(r) == (2 * r + 1) * (2 * r + 1) * b
           below(r) == 4 * a < high(r) \/ (high(r) = 4 * a /\ r % 2 = 0)
           above(r) == r > 0 => low(r) < 4 * a \/ (low(r) = 4 * a /\ r % 2 = 0)
           reached == { r \in 0 .. a : below(r) }
<1>1. \A r \in Nat : high(r) \in Nat
    OBVIOUS
<1>2. \A r \in Nat \ {0} : low(r) = high(r - 1) /\ r - 1 \in Nat
    OBVIOUS
<1>3. below(a)
    <2>1. (2 * a + 1) * (2 * a + 1) = 4 * (a * a) + 4 * a + 1 /\ a * a \in Nat
        OBVIOUS
    <2> DEFINE m == (2 * a + 1) * (2 * a + 1)
    <2>2. m \in Nat /\ m > 4 * a
        BY <2>1
    <2> HIDE DEF m
    <2>3. m * b >= m
        BY <2>2
    <2>4. 4 * a < m * b
        BY <2>2, <2>3
    <2> QED
        BY <2>4 DEF m
<1>4. reached \in SUBSET Nat /\ a \in reached
    <2> HIDE DEF below
    <2> QED
        BY <1>3
<1>5. PICK r \in reached : \A y \in reached : r <= y
    BY <1>4, LeastOf
<1>6. r \in 0 .. a /\ below(r)
    BY <1>5
<1>7. above(r)
    <2> SUFFICES ASSUME r > 0
                 PROVE  low(r) < 4 * a \/ (low(r) = 4 * a /\ r % 2 = 0)
        OBVIOUS
    <2>1. r - 1 \in 0 .. a /\ r - 1 \notin reached
        BY <1>5, <1>6
    <2>2. ~below(r - 1)
        BY <2>1
    <2>3. low(r) = high(r - 1) /\ low(r) \in Nat
        BY <1>1, <1>2, <1>6
    <2>4. (r - 1) % 2 # 0 => r % 2 = 0
        BY <1>6
    <2> HIDE DEF low, high
    <2> QED
        BY <2>2, <2>3, <2>4
<1>8. \E x \in 0 .. (a + 1) : above(x) /\ below(x)
    <2> HIDE DEF above, below
    <2> QED
        BY <1>6, <1>7
<1> QED
    BY <1>8 DEF RoundSqrt

LEMMA GridFits ==
    ASSUME NEW n \in Nat \ {0}, NEW ny \in Nat \ {0}, NEW nx \in Nat \ {0}
    PROVE  /\ NearSquareGrid(n, ny, nx)[1] \in 1 .. ny
           /\ NearSquareGrid(n, ny, nx)[2] \in 1 .. nx
<1> DEFINE root == RoundSqrt(n * ny, nx)
           r0 == Least(Most(root, 1), ny)
           c0 == CeilDiv(n, r0)
           nc == Least(Most(c0, 1), nx)
           r1 == CeilDiv(n, nc)
           nr == Most(r0, Least(ny, r1))
<1>1. root \in Int
    <2>1. n * ny \in Nat
        OBVIOUS
    <2> QED
        BY <2>1, RootIs
<1> HIDE DEF root
<1>2. r0 \in 1 .. ny
    BY <1>1 DEF Least, Most
<1> HIDE DEF r0
<1>3. c0 \in Nat
    BY <1>2, RoundsUp
<1> HIDE DEF c0
<1>4. nc \in 1 .. nx
    BY <1>3 DEF Least, Most
<1> HIDE DEF nc
<1>5. r1 \in Nat
    BY <1>4, RoundsUp
<1> HIDE DEF r1
<1>6. nr \in 1 .. ny
    BY <1>2, <1>5 DEF Least, Most
<1> HIDE DEF nr
<1>7. NearSquareGrid(n, ny, nx) = <<nr, nc>>
    BY DEF NearSquareGrid, nr, nc, r1, c0, r0, root
<1> QED
    BY <1>4, <1>6, <1>7

\* A tiling is that of a grid; a strategy is made of one, the one that was asked
\* for or the one that the search tried last.
Cut(s, t) == \E r \in 1 .. s.ny, c \in 1 .. s.nx : t = Tiling(s.ny, s.nx, r, c)

MadeOf(s, t) ==
    /\ Cut(s, t)
    /\ ~Automatic(s) => t = GivenTiles(s)
    /\ strategy = ChooseStrategy(s, t)

StackTypes ==
    [ny : Nat \ {0}, nx : Nat \ {0}, n : Nat \ {0}, cores : Nat \ {0}, budget : Nat,
     nproc : Nat \ {0}, rows : Nat, cols : Nat, method : {"auto"}, fringed : BOOLEAN,
     available : SUBSET {"snaphu", "tophu"}]

UnwrapPlanInv ==
    /\ ntiles \in Nat
    /\ stack = NoStack => ntiles = 0 /\ strategy = NoStrategy /\ last = NoTiling
    /\ stack # NoStack => stack \in StackTypes /\ (stack.rows > 0 => stack.cols > 0)
    /\ ntiles > 0 => Automatic(stack)
    /\ last # NoTiling => Cut(stack, last)
    /\ strategy # NoStrategy => \E t : MadeOf(stack, t)

LEMMA AskedInputsAre ==
    ASSUME NEW s \in StackInputs
    PROVE  s \in StackTypes /\ (s.rows > 0 => s.cols > 0) /\ s # NoStack
<1>1. PICK y \in Sides, x \in Sides, n \in {1, 3}, c \in CoreCounts, b \in MemoryBudgets,
           p \in CoreCounts,
           g \in {<<0, 0>>} \union ((TileCounts \ {0}) \X (TileCounts \ {0})) :
        s = [ny |-> y, nx |-> x, n |-> n, cores |-> c, budget |-> b, nproc |-> p,
             rows |-> g[1], cols |-> g[2], method |-> "auto", fringed |-> n = 3,
             available |-> IF n = 3 THEN {"snaphu", "tophu"} ELSE {}]
    BY DEF StackInputs
<1>2. y \in Nat \ {0} /\ x \in Nat \ {0} /\ n \in Nat \ {0} /\ c \in Nat \ {0} /\ b \in Nat
      /\ p \in Nat \ {0}
    BY SideAssumption, PlanCountAssumption
<1>3. g[1] \in Nat /\ g[2] \in Nat /\ (g[1] > 0 => g[2] > 0)
    <2>1. CASE g = <<0, 0>>
        BY <2>1
    <2>2. CASE g \in (TileCounts \ {0}) \X (TileCounts \ {0})
        <3>1. g[1] \in TileCounts \ {0} /\ g[2] \in TileCounts \ {0}
            BY <2>2
        <3>2. \A v \in TileCounts \ {0} : v \in Nat /\ v > 0
            BY PlanCountAssumption
        <3> QED
            BY <3>1, <3>2
    <2> QED
        BY <2>1, <2>2
<1>4. (n = 3) \in BOOLEAN
      /\ (IF n = 3 THEN {"snaphu", "tophu"} ELSE {}) \in SUBSET {"snaphu", "tophu"}
    OBVIOUS
<1>5. s \in StackTypes /\ (s.rows > 0 => s.cols > 0)
    BY <1>1, <1>2, <1>3, <1>4 DEF StackTypes
<1>6. s # NoStack
    <2>1. s.ny # 0
        BY <1>1, <1>2
    <2> QED
        BY <2>1 DEF NoStack
<1>7. s \in StackTypes
    BY <1>5
<1>8. s.rows > 0 => s.cols > 0
    BY <1>5
<1> QED
    BY <1>6, <1>7, <1>8

LEMMA ProductIs ==
    ASSUME NEW a \in Nat \ {0}, NEW b \in Nat \ {0}
    PROVE  /\ a * b \in Nat \ {0} /\ a <= a * b /\ b <= a * b
           /\ a * b > 1 <=> a > 1 \/ b > 1
<1>1. a * b \in Int /\ b * a = a * b /\ a * 1 = a /\ b * 1 = b
    OBVIOUS
<1>2. 1 <= b => a * 1 <= a * b
    BY Scaled
<1>3. 1 <= a => b * 1 <= b * a
    BY Scaled
<1>4. a = 1 /\ b = 1 => a * b = 1
    OBVIOUS
<1> QED
    BY <1>1, <1>2, <1>3, <1>4

LEMMA OverlapIs ==
    ASSUME NEW c1 \in Nat \ {0}, NEW c2 \in Nat \ {0}
    PROVE  OverlapPixels(<<c1, c2>>) \in Nat
           /\ OverlapPixels(<<c1, c2>>) <= c1 /\ OverlapPixels(<<c1, c2>>) <= c2
<1> DEFINE side == Least(c1, c2)
           quarter == RoundDiv(side, 4)
<1>1. side \in Nat \ {0} /\ side <= c1 /\ side <= c2
    BY DEF Least
<1>2. quarter \in Nat
    BY <1>1, RoundsByHalf
<1>3. OverlapPixels(<<c1, c2>>) = Least(Most(quarter, MinOverlap), side)
    BY DEF OverlapPixels
<1> HIDE DEF side, quarter
<1> QED
    BY <1>1, <1>2, <1>3, PlanCountAssumption DEF Least, Most

\* No tile of a cut raster is larger than the strategy's estimate of it.
ExtentsFit(ny, nx, t) ==
    LET Y == AxisPartition(ny, t.rows, t.overlap)
        X == AxisPartition(nx, t.cols, t.overlap)
    IN  \A i \in DOMAIN Y : \A j \in DOMAIN X :
          (Y[i].to - Y[i].from) * (X[j].to - X[j].from) <= t.tile

\* What the memory and the merge rely on.
LEMMA TilingIs ==
    ASSUME NEW ny \in Nat \ {0}, NEW nx \in Nat \ {0},
           NEW nr \in 1 .. ny, NEW nc \in 1 .. nx,
           NEW t, t = Tiling(ny, nx, nr, nc)
    PROVE  /\ t.rows = nr /\ t.cols = nc /\ t.overlap \in Nat /\ t.tile \in Nat \ {0}
           /\ nr * nc = 1 => t.tile = ny * nx
           /\ ny % nr = 0 => Accepted(ny, nr, t.overlap)
           /\ nx % nc = 0 => Accepted(nx, nc, t.overlap)
           /\ ExtentsFit(ny, nx, t)
<1> DEFINE cy == CeilDiv(ny, nr)
           cx == CeilDiv(nx, nc)
           o == IF nr * nc > 1 THEN OverlapPixels(<<cy, cx>>) ELSE 0
           h == Least(ny, cy + (IF nr > 1 THEN o ELSE 0))
           w == Least(nx, cx + (IF nc > 1 THEN o ELSE 0))
           Y == AxisPartition(ny, nr, o)
           X == AxisPartition(nx, nc, o)
<1>1. t = [rows |-> nr, cols |-> nc, overlap |-> o, shape |-> <<h, w>>, tile |-> h * w]
    BY DEF Tiling, TileShape, CoreShape
<1>2. nr \in Nat \ {0} /\ nc \in Nat \ {0}
    OBVIOUS
<1>3. cy \in Nat \ {0} /\ cx \in Nat \ {0}
    <2>1. ny \in Nat /\ ny > 0 /\ nx \in Nat /\ nx > 0
        OBVIOUS
    <2>2. cy \in Nat /\ cy > 0
        BY <1>2, <2>1, RoundsUp
    <2>3. cx \in Nat /\ cx > 0
        BY <1>2, <2>1, RoundsUp
    <2> QED
        BY <2>2, <2>3
<1> HIDE DEF cy, cx
<1>4. o \in Nat /\ o <= cy /\ o <= cx
    BY <1>3, OverlapIs
<1> HIDE DEF o
<1>5. h \in Nat \ {0} /\ w \in Nat \ {0}
    BY <1>2, <1>3, <1>4 DEF Least
<1>6. h * w \in Nat \ {0}
    BY <1>5, ProductIs
<1>7. nr * nc = 1 => h = ny /\ w = nx
    <2> SUFFICES ASSUME nr * nc = 1 PROVE h = ny /\ w = nx
        OBVIOUS
    <2>1. nr = 1 /\ nc = 1
        BY <1>2, ProductIs
    <2>2. ny <= nr * cy /\ nx <= nc * cx
        BY <1>2, RoundsUp DEF cy, cx
    <2>3. ny <= cy /\ nx <= cx
        BY <2>1, <2>2, <1>3
    <2> QED
        BY <2>1, <2>3, <1>3 DEF Least
<1>8. ny % nr = 0 => Accepted(ny, nr, o)
    <2> SUFFICES ASSUME ny % nr = 0 PROVE o <= SmallestCore(ny, nr)
        BY DEF Accepted
    <2>1. \A i \in 1 .. nr : Edge(ny, nr, i) - Edge(ny, nr, i - 1) = cy
        BY <1>2, CoreIsSmall DEF cy
    <2>2. \A i \in 1 .. nr : o <= Edge(ny, nr, i) - Edge(ny, nr, i - 1)
        BY <2>1, <1>4
    <2> QED
        BY <2>2, <1>2, <1>4, SmallestIs
<1>9. nx % nc = 0 => Accepted(nx, nc, o)
    <2> SUFFICES ASSUME nx % nc = 0 PROVE o <= SmallestCore(nx, nc)
        BY DEF Accepted
    <2>1. \A i \in 1 .. nc : Edge(nx, nc, i) - Edge(nx, nc, i - 1) = cx
        BY <1>2, CoreIsSmall DEF cx
    <2>2. \A i \in 1 .. nc : o <= Edge(nx, nc, i) - Edge(nx, nc, i - 1)
        BY <2>1, <1>4
    <2> QED
        BY <2>2, <1>2, <1>4, SmallestIs
<1>10. ASSUME NEW i \in 1 .. nr, NEW j \in 1 .. nc
       PROVE  (Y[i].to - Y[i].from) * (X[j].to - X[j].from) <= h * w
    <2> DEFINE a == Y[i].to - Y[i].from
               b == X[j].to - X[j].from
    <2>1. a \in Nat /\ a <= h
        BY <1>2, <1>4, ExtentIsSmall DEF cy
    <2>2. b \in Nat /\ b <= w
        BY <1>2, <1>4, ExtentIsSmall DEF cx
    <2> HIDE DEF a, b, h, w
    <2>3. a = 0 \/ a * b <= a * w
        BY <2>1, <2>2, <1>5, Scaled
    <2>4. w * a <= w * h
        BY <2>1, <1>5, Scaled
    <2>5. a * w = w * a /\ h * w = w * h /\ (a = 0 => a * b = 0) /\ a * b \in Int /\ h * w \in Nat
          /\ a * w \in Int
        BY <2>1, <2>2, <1>5
    <2>6. a * b <= h * w
        BY <2>3, <2>4, <2>5
    <2> QED
        BY <2>6 DEF a, b
<1>11. DOMAIN Y = 1 .. nr /\ DOMAIN X = 1 .. nc
    BY DEF AxisPartition
<1> HIDE DEF h, w, X, Y
<1>12. /\ t.rows = nr /\ t.cols = nc /\ t.overlap = o /\ t.tile = h * w
    BY <1>1
<1>13. nr * nc = 1 => t.tile = ny * nx
    BY <1>7, <1>12
<1>14. ExtentsFit(ny, nx, t)
    <2>1. \A i \in DOMAIN Y : \A j \in DOMAIN X :
             (Y[i].to - Y[i].from) * (X[j].to - X[j].from) <= t.tile
        BY <1>10, <1>11, <1>12
    <2>2. Y = AxisPartition(ny, t.rows, t.overlap) /\ X = AxisPartition(nx, t.cols, t.overlap)
        BY <1>12 DEF X, Y
    <2> QED
        BY <2>1, <2>2 DEF ExtentsFit
<1> QED
    BY <1>4, <1>6, <1>8, <1>9, <1>12, <1>13, <1>14

\* The memory of what runs at once, and its processes.
LEMMA BudgetIsKept ==
    ASSUME NEW s \in StackTypes, NEW t, Cut(s, t), ~Automatic(s) => t = GivenTiles(s),
           s.rows > 0 => s.cols > 0
    PROVE  LET u == ChooseStrategy(s, t) IN
             /\ u.nproc \in Nat \ {0} /\ u.parallel \in Nat \ {0}
             /\ s.budget > 0 /\ ~u.insufficient => u.parallel * u.est <= s.budget
             /\ u.parallel * u.nproc <= Most(s.cores, u.nproc)
<1> DEFINE nproc == Nproc(s, t)
           est == IF t.rows * t.cols > 1 THEN t.tile * nproc ELSE s.ny * s.nx
           byCores == Most(1, s.cores \div nproc)
           byMem == IF s.budget > 0 THEN Most(1, s.budget \div est) ELSE byCores
           parallel == Parallel(s, nproc, est)
           u == ChooseStrategy(s, t)
<1>1. /\ s.ny \in Nat \ {0} /\ s.nx \in Nat \ {0} /\ s.n \in Nat \ {0} /\ s.cores \in Nat \ {0}
      /\ s.budget \in Nat /\ s.nproc \in Nat \ {0} /\ s.rows \in Nat /\ s.cols \in Nat
    BY DEF StackTypes
<1>2. PICK r \in 1 .. s.ny, c \in 1 .. s.nx : t = Tiling(s.ny, s.nx, r, c)
    BY DEF Cut
<1>3. /\ t.rows = r /\ t.cols = c /\ t.tile \in Nat \ {0}
      /\ r * c = 1 => t.tile = s.ny * s.nx
    BY <1>1, <1>2, TilingIs
<1>4. r \in Nat \ {0} /\ c \in Nat \ {0} /\ r * c \in Nat \ {0} /\ s.ny * s.nx \in Nat \ {0}
    <2>1. r \in Nat \ {0} /\ c \in Nat \ {0}
        BY <1>1
    <2> QED
        BY <1>1, <2>1, ProductIs
<1>5. ASSUME Automatic(s)
      PROVE  /\ nproc \in Nat \ {0}
             /\ t.tile <= s.budget => t.tile * nproc <= s.budget
    <2> DEFINE fit == s.budget \div t.tile
               fitting == FittingTiles(t, s.budget, Target(s))
    <2>1. fit \in Nat /\ t.tile * fit <= s.budget
        <3>1. fit \in Nat /\ s.budget % t.tile \in 0 .. t.tile - 1
              /\ s.budget = t.tile * fit + (s.budget % t.tile)
            BY <1>1, <1>3, DivRest
        <3>2. t.tile * fit \in Nat /\ s.budget % t.tile \in Nat
            BY <1>3, <3>1
        <3> QED
            BY <3>1, <3>2
    <2>2. Target(s) \in Nat \ {0}
        BY <1>1 DEF Target
    <2>3. fitting = Least(Least(Target(s), fit), r * c)
        BY <1>3 DEF FittingTiles
    <2> HIDE DEF fit
    <2>4. fitting \in Nat /\ fitting <= fit
        BY <1>4, <2>1, <2>2, <2>3 DEF Least
    <2>5. nproc = Most(1, fitting)
        BY <1>5 DEF Nproc
    <2> HIDE DEF nproc, fitting
    <2>6. nproc \in Nat \ {0} /\ (nproc = 1 \/ nproc <= fit)
        BY <2>4, <2>5 DEF Most
    <2>7. nproc <= fit => t.tile * nproc <= t.tile * fit
        BY <1>3, <2>1, <2>6, Scaled
    <2>8. t.tile * nproc \in Int /\ t.tile * fit \in Int /\ t.tile * 1 = t.tile
        BY <1>3, <2>1, <2>6
    <2> QED
        BY <1>1, <1>3, <2>1, <2>6, <2>7, <2>8
<1>6. ~Automatic(s) => nproc = s.nproc
    BY DEF Nproc
<1>7. nproc \in Nat \ {0}
    BY <1>1, <1>5, <1>6
<1> HIDE DEF nproc
<1>8. t.tile * nproc \in Nat \ {0} /\ t.tile <= t.tile * nproc
    BY <1>3, <1>7, ProductIs
<1>9. est \in Nat \ {0}
    BY <1>4, <1>8
<1>10. r * c = 1 => est = t.tile /\ est = s.ny * s.nx
    BY <1>3
<1>11. r * c # 1 => est = t.tile * nproc
    BY <1>3, <1>4
<1>12. ASSUME s.budget > 0, ~Insufficient(s, t, nproc) PROVE est <= s.budget
    <2>1. CASE s.rows > 0
        <3>1. t.tile * nproc <= s.budget
            BY <1>12, <2>1, <1>1, <1>8 DEF Insufficient
        <3> HIDE DEF est
        <3> QED
            BY <3>1, <1>1, <1>3, <1>4, <1>8, <1>9, <1>10, <1>11
    <2>2. CASE ~(s.rows > 0) /\ Automatic(s)
        <3>1. t.tile <= s.budget
            BY <1>12, <2>2, <1>1, <1>3 DEF Insufficient
        <3> HIDE DEF est
        <3> QED
            BY <3>1, <1>5, <2>2, <1>1, <1>3, <1>4, <1>8, <1>9, <1>10, <1>11
    <2>3. CASE ~(s.rows > 0) /\ ~Automatic(s)
        <3>1. s.ny * s.nx <= s.budget
            BY <2>3, <1>12, <1>1, <1>4 DEF Automatic
        <3>2. t = Tiling(s.ny, s.nx, 1, 1)
            BY <2>3 DEF GivenTiles
        <3>3. 1 \in 1 .. s.ny /\ 1 \in 1 .. s.nx
            BY <1>1
        <3>4. t.rows = 1 /\ t.cols = 1
            BY <1>1, <3>2, <3>3, TilingIs
        <3>5. r * c = 1
            BY <3>4, <1>3
        <3> QED
            BY <3>1, <3>5, <1>10
    <2> QED
        BY <2>1, <2>2, <2>3
<1> HIDE DEF est
<1>13. /\ s.cores \div nproc \in Nat /\ nproc * (s.cores \div nproc) <= s.cores
       /\ s.budget \div est \in Nat /\ est * (s.budget \div est) <= s.budget
    <2>1. s.cores \in Nat /\ s.budget \in Nat
        BY <1>1
    <2>2. s.cores \div nproc \in Nat /\ s.cores = nproc * (s.cores \div nproc) + (s.cores % nproc)
          /\ s.cores % nproc \in 0 .. nproc - 1
        BY <2>1, <1>7, DivRest
    <2>3. s.budget \div est \in Nat /\ s.budget = est * (s.budget \div est) + (s.budget % est)
          /\ s.budget % est \in 0 .. est - 1
        BY <2>1, <1>9, DivRest
    <2>4. nproc * (s.cores \div nproc) \in Nat /\ est * (s.budget \div est) \in Nat
        BY <2>2, <2>3, <1>7, <1>9
    <2> QED
        BY <2>2, <2>3, <2>4
<1>14. byCores \in Nat \ {0} /\ byMem \in Nat \ {0}
    BY <1>13 DEF Most
<1>15. parallel \in Nat \ {0} /\ parallel <= byCores /\ parallel <= byMem
    <2>1. parallel = Most(1, Least(Least(byCores, byMem), s.n))
        BY DEF Parallel
    <2> HIDE DEF byCores, byMem
    <2> QED
        BY <2>1, <1>1, <1>14 DEF Most, Least
<1> HIDE DEF parallel
<1>16. ASSUME s.budget > 0, est <= s.budget PROVE parallel * est <= s.budget
    <2> DEFINE m == s.budget \div est
    <2>1. byMem = 1 \/ byMem = m
        BY <1>16 DEF Most
    <2>2. est * parallel <= est * byMem /\ est * 1 = est
        BY <1>9, <1>14, <1>15, Scaled
    <2>3. est * byMem <= s.budget
        BY <2>1, <1>13, <1>16, <2>2
    <2>4. est * parallel = parallel * est /\ parallel * est \in Int /\ est * byMem \in Int
        BY <1>9, <1>14, <1>15
    <2> HIDE DEF byMem
    <2> QED
        BY <2>2, <2>3, <2>4, <1>1
<1>17. parallel * nproc <= Most(s.cores, nproc)
    <2> DEFINE m == s.cores \div nproc
    <2>1. byCores = 1 \/ byCores = m
        BY DEF Most
    <2>2. nproc * parallel <= nproc * byCores /\ nproc * 1 = nproc
        BY <1>7, <1>14, <1>15, Scaled
    <2>3. nproc * byCores <= s.cores \/ nproc * byCores = nproc
        BY <2>1, <1>13, <2>2
    <2>4. nproc * parallel = parallel * nproc /\ parallel * nproc \in Int /\ nproc * byCores \in Int
        BY <1>7, <1>14, <1>15
    <2> HIDE DEF byCores
    <2> QED
        BY <2>2, <2>3, <2>4, <1>1, <1>7 DEF Most
<1>18. u.nproc = nproc /\ u.est = est /\ u.parallel = parallel
       /\ u.insufficient = Insufficient(s, t, nproc)
    BY DEF ChooseStrategy, nproc, est, parallel
<1> HIDE DEF u
<1> QED
    BY <1>7, <1>12, <1>15, <1>16, <1>17, <1>18 DEF u

LEMMA StrategySays == UnwrapPlanInv => StrategyFits
<1> SUFFICES ASSUME UnwrapPlanInv, strategy # NoStrategy
             PROVE  StrategyFits
    BY DEF StrategyFits
<1>1. stack # NoStack /\ stack \in StackTypes /\ (stack.rows > 0 => stack.cols > 0)
    BY DEF UnwrapPlanInv
<1>2. PICK t : MadeOf(stack, t)
    BY DEF UnwrapPlanInv
<1>3. PICK r \in 1 .. stack.ny, c \in 1 .. stack.nx : t = Tiling(stack.ny, stack.nx, r, c)
    BY <1>2 DEF MadeOf, Cut
<1>4. stack.ny \in Nat \ {0} /\ stack.nx \in Nat \ {0}
    BY <1>1 DEF StackTypes
<1>5. r \in Nat \ {0} /\ c \in Nat \ {0}
    BY <1>4
<1>6. /\ t.rows = r /\ t.cols = c /\ t.overlap \in Nat
      /\ stack.ny % r = 0 => Accepted(stack.ny, r, t.overlap)
      /\ stack.nx % c = 0 => Accepted(stack.nx, c, t.overlap)
      /\ ExtentsFit(stack.ny, stack.nx, t)
    BY <1>3, <1>4, TilingIs
<1>7. strategy.rows = r /\ strategy.cols = c /\ strategy.overlap = t.overlap /\ strategy.tile = t.tile
    BY <1>2, <1>6 DEF MadeOf, ChooseStrategy
<1>8. /\ stack.budget > 0 /\ ~strategy.insufficient => strategy.parallel * strategy.est <= stack.budget
      /\ strategy.parallel * strategy.nproc <= Most(stack.cores, strategy.nproc)
    BY <1>1, <1>2, BudgetIsKept DEF MadeOf
<1>9. Accepted(stack.ny, r, t.overlap) => AxisIsCovered(stack.ny, r, t.overlap)
    BY <1>4, <1>5, <1>6, CoversTheAxis
<1>10. Accepted(stack.nx, c, t.overlap) => AxisIsCovered(stack.nx, c, t.overlap)
    BY <1>4, <1>5, <1>6, CoversTheAxis
<1> DEFINE Y == AxisPartition(stack.ny, strategy.rows, strategy.overlap)
           X == AxisPartition(stack.nx, strategy.cols, strategy.overlap)
<1>11. \A i \in DOMAIN Y : \A j \in DOMAIN X :
          (Y[i].to - Y[i].from) * (X[j].to - X[j].from) <= strategy.tile
    BY <1>6, <1>7 DEF ExtentsFit
<1>12. /\ stack.ny % strategy.rows = 0 => Accepted(stack.ny, strategy.rows, strategy.overlap)
       /\ stack.nx % strategy.cols = 0 => Accepted(stack.nx, strategy.cols, strategy.overlap)
    BY <1>6, <1>7
<1>13. /\ Accepted(stack.ny, strategy.rows, strategy.overlap)
             => AxisIsCovered(stack.ny, strategy.rows, strategy.overlap)
       /\ Accepted(stack.nx, strategy.cols, strategy.overlap)
             => AxisIsCovered(stack.nx, strategy.cols, strategy.overlap)
    BY <1>7, <1>9, <1>10
<1> QED
    BY <1>8, <1>11, <1>12, <1>13 DEF StrategyFits

LEMMA UnwrapPlanStarts == UnwrapInit => UnwrapPlanInv
BY DEF UnwrapInit, UnwrapPlanInv

LEMMA AskKeeps ==
    ASSUME UnwrapPlanInv, NEW s \in StackInputs, Ask(s)
    PROVE  UnwrapPlanInv'
<1>1. s \in StackTypes /\ (s.rows > 0 => s.cols > 0) /\ s # NoStack
    BY AskedInputsAre
<1>2. /\ s.ny \in Nat \ {0} /\ s.nx \in Nat \ {0} /\ s.budget \in Nat /\ s.cores \in Nat \ {0}
      /\ s.nproc \in Nat \ {0} /\ s.rows \in Nat /\ s.cols \in Nat
    BY <1>1 DEF StackTypes
<1>3. stack' = s /\ ntiles = 0 /\ last' = NoTiling /\ strategy = NoStrategy
    BY DEF Ask, UnwrapPlanInv
<1>4. CASE Automatic(s)
    <2>1. ntiles' = Most(2, CeilDiv(s.ny * s.nx * Target(s), s.budget)) /\ strategy' = NoStrategy
        BY <1>3, <1>4 DEF Ask
    <2>2. s.budget \in Nat \ {0} /\ s.ny * s.nx * Target(s) \in Nat
        <3>1. Target(s) \in Nat /\ s.ny * s.nx \in Nat
            BY <1>2 DEF Target
        <3>2. s.ny * s.nx * Target(s) \in Nat
            BY <3>1
        <3> QED
            BY <3>2, <1>2, <1>4 DEF Automatic
    <2>3. ntiles' \in Nat
        BY <2>1, <2>2, RoundsUp DEF Most
    <2> QED
        BY <1>1, <1>3, <1>4, <2>1, <2>3 DEF UnwrapPlanInv
<1>5. CASE ~Automatic(s)
    <2> DEFINE t == GivenTiles(s)
    <2>1. ntiles' = 0 /\ strategy' = ChooseStrategy(s, t)
        BY <1>3, <1>5 DEF Ask
    <2>2. Cut(s, t)
        <3>1. 1 \in 1 .. s.ny /\ 1 \in 1 .. s.nx
            BY <1>2
        <3>2. s.rows > 0 => Least(s.rows, s.ny) \in 1 .. s.ny /\ Least(s.cols, s.nx) \in 1 .. s.nx
            BY <1>1, <1>2 DEF Least
        <3> QED
            BY <3>1, <3>2 DEF Cut, GivenTiles
    <2>3. MadeOf(s, t)'
        BY <1>3, <2>1, <2>2 DEF MadeOf, Cut, Automatic, GivenTiles
    <2> QED
        BY <1>1, <1>3, <2>1, <2>3 DEF UnwrapPlanInv
<1> QED
    BY <1>4, <1>5

LEMMA TryKeeps == ASSUME UnwrapPlanInv, TryGrid PROVE UnwrapPlanInv'
<1> DEFINE cut == NearSquareGrid(ntiles, stack.ny, stack.nx)
<1>0. PICK t : /\ t = Tiling(stack.ny, stack.nx, cut[1], cut[2])
               /\ last' = t
               /\ \/ ntiles' = 0 /\ strategy' = ChooseStrategy(stack, t)
                  \/ ntiles' = t.rows * t.cols + 1 /\ strategy' = strategy
    BY DEF TryGrid
<1>1. ntiles \in Nat \ {0} /\ Automatic(stack) /\ stack # NoStack /\ stack \in StackTypes
      /\ (stack.rows > 0 => stack.cols > 0)
    BY DEF TryGrid, UnwrapPlanInv
<1>2. stack.ny \in Nat \ {0} /\ stack.nx \in Nat \ {0}
    BY <1>1 DEF StackTypes
<1>3. cut[1] \in 1 .. stack.ny /\ cut[2] \in 1 .. stack.nx
    BY <1>1, <1>2, GridFits
<1>4. last' = t /\ stack' = stack
    BY <1>0 DEF TryGrid
<1> HIDE DEF cut
<1>5. t.rows * t.cols + 1 \in Nat
    <2>1. PICK r \in 1 .. stack.ny, c \in 1 .. stack.nx : t = Tiling(stack.ny, stack.nx, r, c)
        BY <1>0, <1>3
    <2>2. t.rows = r /\ t.cols = c
        BY <1>2, <2>1, TilingIs
    <2> QED
        BY <1>2, <2>2
<1>6. Cut(stack, t)
    BY <1>0, <1>3 DEF Cut
<1>7. \/ ntiles' = 0 /\ strategy' = ChooseStrategy(stack, t)
      \/ ntiles' = t.rows * t.cols + 1 /\ strategy' = strategy
    BY <1>0
<1>8. ASSUME NEW x, MadeOf(stack, x), strategy' = strategy PROVE MadeOf(stack, x)'
    BY <1>4, <1>8 DEF MadeOf, Cut, Automatic, GivenTiles
<1>9. ASSUME strategy' = ChooseStrategy(stack, t) PROVE \E x : MadeOf(stack, x)'
    <2>1. MadeOf(stack, t)'
        BY <1>1, <1>4, <1>6, <1>9 DEF MadeOf, Cut, Automatic
    <2> QED
        BY <2>1
<1>10. strategy' # NoStrategy => \E x : MadeOf(stack, x)'
    <2>1. CASE strategy' = strategy
        BY <2>1, <1>8 DEF UnwrapPlanInv
    <2> QED
        BY <2>1, <1>7, <1>9
<1>11. ntiles' \in Nat
    BY <1>5, <1>7
<1>12. Cut(stack, last)'
    BY <1>4, <1>6 DEF Cut
<1>13. Automatic(stack)'
    BY <1>1, <1>4 DEF Automatic
<1> QED
    BY <1>1, <1>4, <1>10, <1>11, <1>12, <1>13 DEF UnwrapPlanInv

LEMMA GiveUpKeeps == ASSUME UnwrapPlanInv, GiveUp PROVE UnwrapPlanInv'
<1>1. ntiles > 0 /\ Automatic(stack) /\ stack # NoStack
    BY PlanCountAssumption DEF GiveUp, UnwrapPlanInv
<1>2. ntiles' = 0 /\ stack' = stack /\ last' = last
    BY DEF GiveUp
<1>3. strategy' # NoStrategy => Cut(stack, last) /\ strategy' = ChooseStrategy(stack, last)
    BY DEF GiveUp, UnwrapPlanInv
<1>4. strategy' # NoStrategy => MadeOf(stack, last)'
    BY <1>1, <1>2, <1>3 DEF MadeOf, Cut, Automatic
<1>5. Cut(stack, last) => Cut(stack, last)'
    BY <1>2 DEF Cut
<1> QED
    BY <1>1, <1>2, <1>4, <1>5 DEF UnwrapPlanInv

LEMMA UnwrapPlanStep == UnwrapPlanInv /\ [UnwrapNext]_unwrapvars => UnwrapPlanInv'
<1> SUFFICES ASSUME UnwrapPlanInv, [UnwrapNext]_unwrapvars
             PROVE  UnwrapPlanInv'
    OBVIOUS
<1>1. CASE UNCHANGED unwrapvars
    <2>1. ASSUME NEW t, MadeOf(stack, t) PROVE MadeOf(stack, t)'
        BY <1>1, <2>1 DEF unwrapvars, MadeOf, Cut, Automatic, GivenTiles
    <2>2. strategy' # NoStrategy => \E t : MadeOf(stack, t)'
        BY <1>1, <2>1 DEF unwrapvars, UnwrapPlanInv
    <2> QED
        BY <1>1, <2>2 DEF unwrapvars, UnwrapPlanInv, Cut, Automatic
<1> QED
    BY <1>1, AskKeeps, TryKeeps, GiveUpKeeps DEF UnwrapNext

\* A strategy fits the memory and the cores, and its tiles cover the raster, for
\* rasters of any size, any budgets and machines (unwrap/scheduler.py, tiling.py).
THEOREM StrategyFitsHolds == UnwrapSpec => []StrategyFits
BY UnwrapPlanStarts, UnwrapPlanStep, StrategySays, PTL DEF UnwrapSpec

=============================================================================
