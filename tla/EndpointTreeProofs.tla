------------------------- MODULE EndpointTreeProofs -------------------------
(***************************************************************************)
(* What the operators of EndpointTree compute, for all vectors.            *)
(*                                                                         *)
(* The loops of the code are recursive functions over 0..n.  What they do  *)
(* is proved by induction on n, with the induction principle stated for a  *)
(* set of numbers (CountingUp) and derived from the well-foundedness of <. *)
(***************************************************************************)
EXTENDS EndpointTree, WellFoundedInduction, SequenceTheorems, TLAPS

-----------------------------------------------------------------------------
(* Numbers                                                                 *)

\* A set of naturals that is not empty has a least element.
LEMMA LeastNumber ==
    ASSUME NEW T \in SUBSET Nat, T # {}
    PROVE  \E m \in T : \A n \in T : m <= n
<1> DEFINE R == {p \in Nat \X Nat : p[1] < p[2]}
<1>1. IsWellFoundedOn(R, Nat)
  BY NatLessThanWellFounded DEF OpToRel
<1>2. \A x, y \in Nat : y < x => <<y, x>> \in R
  OBVIOUS
<1> HIDE DEF R
<1>3. \E x \in T : \A y \in T : ~ (<<y, x>> \in R)
  BY <1>1, WFMin
<1>4. PICK m \in T : \A y \in T : ~ (<<y, m>> \in R)
  BY <1>3
<1>5. ASSUME NEW n \in T
      PROVE  m <= n
  <2>1. ~ (n < m)
    <3>1. m \in Nat /\ n \in Nat
      OBVIOUS
    <3> QED BY <1>2, <1>4, <3>1, Zenon
  <2> QED BY <2>1
<1> QED BY <1>5

LEMMA MinIsLeast ==
    ASSUME NEW T \in SUBSET Nat, T # {}
    PROVE  Min(T) \in T /\ \A n \in T : Min(T) <= n
BY LeastNumber DEF Min

\* A set of numbers up to a bound that is not empty has a greatest element.
LEMMA GreatestNumber ==
    ASSUME NEW top \in Nat, NEW T \in SUBSET (0..top), T # {}
    PROVE  \E m \in T : \A n \in T : n <= m
<1> DEFINE Short == {top - n : n \in T}
<1>1. \A n \in T : n \in Nat /\ top - n \in Nat /\ top - n \in Short
  OBVIOUS
<1>2. Short \in SUBSET Nat /\ Short # {}
  BY <1>1
<1>3. PICK d \in Short : \A x \in Short : d <= x
  <2> HIDE DEF Short
  <2> QED BY <1>2, LeastNumber
<1>4. PICK m \in T : d = top - m
  OBVIOUS
<1>5. \A n \in T : top - m <= top - n
  BY <1>1, <1>3, <1>4
<1> QED BY <1>1, <1>5

\* A set that has 0, and each number up to top whose predecessor it has, has all of
\* them.
LEMMA CountingUp ==
    ASSUME NEW top \in Nat, NEW T, 0 \in T,
           \A n \in 1..top : n - 1 \in T => n \in T
    PROVE  0..top \subseteq T
<1> DEFINE Missed == (0..top) \ T
<1> SUFFICES ASSUME Missed # {} PROVE FALSE
  OBVIOUS
<1>1. PICK m \in Missed : \A n \in Missed : m <= n
  <2>1. Missed \in SUBSET Nat
    OBVIOUS
  <2> HIDE DEF Missed
  <2> QED BY <2>1, LeastNumber
<1>2. m \in 1..top /\ m - 1 \in 0..top
  BY <1>1
<1>3. m - 1 \in T
  BY <1>1, <1>2
<1> QED BY <1>1, <1>2, <1>3

\* A loop that starts with a value and makes the next one from the last has a value after
\* every number of rounds.
LoopEnds(top, X, start, round) ==
    \E f \in [0..top -> X] : f[0] = start /\ \A n \in 1..top : f[n] = round[n][f[n - 1]]

LEMMA LoopExists ==
    ASSUME NEW top \in Nat, NEW X, NEW start \in X, NEW round \in [1..top -> [X -> X]]
    PROVE  LoopEnds(top, X, start, round)
<1> DEFINE Begins(f) == f[0] = start
           Goes(f, k) == \A n \in 1..k : f[n] = round[n][f[n - 1]]
           Runs(k) == \E f \in [0..k -> X] : Begins(f) /\ Goes(f, k)
           T == {k \in 0..top : Runs(k)}
<1>1. Runs(0)
  <2> DEFINE f == [n \in 0..0 |-> start]
  <2>1. f \in [0..0 -> X] /\ Begins(f) /\ Goes(f, 0)
    OBVIOUS
  <2> QED BY <2>1
<1>2. ASSUME NEW k \in 1..top, Runs(k - 1)
      PROVE  Runs(k)
  <2>1. PICK f \in [0..(k - 1) -> X] : Begins(f) /\ Goes(f, k - 1)
    BY <1>2
  <2> DEFINE g == [n \in 0..k |-> IF n = k THEN round[k][f[k - 1]] ELSE f[n]]
  <2>2. g \in [0..k -> X]
    OBVIOUS
  <2>3. Begins(g)
    BY <2>1
  <2>4. Goes(g, k)
    BY <2>1
  <2> HIDE DEF g, Begins, Goes
  <2> QED BY <2>2, <2>3, <2>4
<1> HIDE DEF Runs
<1>3. top \in T
  <2>1. 0 \in T /\ \A n \in 1..top : n - 1 \in T => n \in T
    BY <1>1, <1>2
  <2> HIDE DEF T
  <2>2. 0..top \subseteq T
    BY <2>1, CountingUp
  <2> QED BY <2>2
<1>4. PICK f \in [0..top -> X] : Begins(f) /\ Goes(f, top)
  BY <1>3 DEF Runs
<1> QED BY <1>4 DEF LoopEnds

-----------------------------------------------------------------------------
(* Vectors                                                                 *)

LEMMA ContainsIsIn ==
    ASSUME NEW X, NEW s \in Seq(X), NEW x
    PROVE  /\ Contains(s, x) <=> x \in ToSet(s)
           /\ ToSet(s) \subseteq X
BY DEF Contains, ToSet

LEMMA AppendAddsOne ==
    ASSUME NEW X, NEW s \in Seq(X), NEW x \in X
    PROVE  /\ Append(s, x) \in Seq(X)
           /\ ToSet(Append(s, x)) = ToSet(s) \union {x}
           /\ IsInjective(s) /\ x \notin ToSet(s) => IsInjective(Append(s, x))
<1> DEFINE a == Append(s, x)
<1>1. /\ a \in Seq(X) /\ Len(a) = Len(s) + 1
      /\ \A i \in 1..Len(s) : a[i] = s[i]
      /\ a[Len(s) + 1] = x
  OBVIOUS
<1>2. Len(s) \in Nat /\ DOMAIN s = 1..Len(s) /\ DOMAIN a = 1..(Len(s) + 1)
  BY <1>1
<1> HIDE DEF a
<1>3. ToSet(a) = ToSet(s) \union {x}
  <2>1. \A i \in DOMAIN a : a[i] \in ToSet(s) \union {x}
    BY <1>1, <1>2 DEF ToSet
  <2>2. \A i \in DOMAIN s : s[i] \in ToSet(a)
    BY <1>1, <1>2 DEF ToSet
  <2>3. x \in ToSet(a)
    BY <1>1, <1>2 DEF ToSet
  <2> QED BY <2>1, <2>2, <2>3 DEF ToSet
<1>4. ASSUME IsInjective(s), x \notin ToSet(s), NEW i \in DOMAIN a, NEW j \in DOMAIN a, a[i] = a[j]
      PROVE  i = j
  <2>1. \A k \in 1..Len(s) : s[k] # x
    BY <1>2, <1>4 DEF ToSet
  <2>2. \A k, l \in 1..Len(s) : s[k] = s[l] => k = l
    BY <1>2, <1>4 DEF IsInjective
  <2> QED BY <1>1, <1>2, <1>4, <2>1, <2>2
<1> QED BY <1>1, <1>3, <1>4 DEF a, IsInjective

\* FirstIn is in the vector and in the set.
LEMMA FirstInIsThere ==
    ASSUME NEW X, NEW s \in Seq(X), NEW S, ToSet(s) \intersect S # {}
    PROVE  FirstIn(s, S) \in ToSet(s) \intersect S
<1> DEFINE T == {i \in DOMAIN s : s[i] \in S}
<1>1. T \in SUBSET Nat /\ T # {}
  BY DEF ToSet
<1>2. Min(T) \in T
  BY <1>1, MinIsLeast
<1> QED BY <1>2 DEF FirstIn, ToSet

\* The loop of AddAll is well defined.
LEMMA AddingIsLoop ==
    ASSUME NEW X, NEW s \in Seq(X), NEW t \in Seq(X)
    PROVE  /\ Adding(s, t) \in [0..Len(t) -> Seq(X)]
           /\ Adding(s, t)[0] = s
           /\ \A n \in 1..Len(t) :
                Adding(s, t)[n] =
                  IF Contains(Adding(s, t)[n - 1], t[n]) THEN Adding(s, t)[n - 1]
                  ELSE Append(Adding(s, t)[n - 1], t[n])
<1> DEFINE top == Len(t)
           Y == Seq(X)
           One(v, n) == IF Contains(v, t[n]) THEN v ELSE Append(v, t[n])
           round == [n \in 1..top |-> [v \in Y |-> One(v, n)]]
           IsLoop(f) == f = [n \in 0..top |-> IF n = 0 THEN s ELSE One(f[n - 1], n)]
<1>1. top \in Nat /\ s \in Y
  OBVIOUS
<1>2. \A v \in Y, n \in 1..top : One(v, n) \in Y
  <2> SUFFICES ASSUME NEW v \in Y, NEW n \in 1..top PROVE One(v, n) \in Y
    OBVIOUS
  <2>1. t[n] \in X
    BY ElementOfSeq
  <2> QED BY <2>1, AppendAddsOne
<1> HIDE DEF top, One, Y
<1>3. PICK f \in [0..top -> Y] : f[0] = s /\ \A n \in 1..top : f[n] = round[n][f[n - 1]]
  <2>1. round \in [1..top -> [Y -> Y]]
    BY <1>2
  <2> HIDE DEF round
  <2>2. LoopEnds(top, Y, s, round)
    BY <1>1, <2>1, LoopExists
  <2> QED BY <2>2 DEF LoopEnds
<1>4. ASSUME NEW n \in 1..top
      PROVE  f[n] = One(f[n - 1], n)
  <2>1. f[n - 1] \in Y
    BY <1>1
  <2> QED BY <1>3, <2>1
<1>5. IsLoop(f)
  BY <1>1, <1>3, <1>4
<1>6. IsLoop(Adding(s, t))
  BY <1>5, Zenon DEF Adding, One, top
<1> DEFINE a == Adding(s, t)
<1> HIDE DEF a
<1>7. IsLoop(a)
  BY <1>6 DEF a
<1>8. a[0] = s /\ \A n \in 1..top : a[n] = One(a[n - 1], n)
  BY <1>1, <1>7
<1>9. a \in [0..top -> Y]
  <2> DEFINE T == {n \in 0..top : a[n] \in Y}
  <2>1. 0 \in T /\ \A n \in 1..top : n - 1 \in T => n \in T
    BY <1>1, <1>2, <1>8
  <2> HIDE DEF T
  <2>2. 0..top \subseteq T
    BY <1>1, <2>1, CountingUp
  <2>3. \A n \in 0..top : a[n] \in Y
    BY <2>2 DEF T
  <2> QED BY <1>7, <2>3
<1> QED BY <1>8, <1>9 DEF a, One, top, Y

\* AddAll adds what is new, and names nothing twice that was not named twice before.
LEMMA AddAllAdds ==
    ASSUME NEW X, NEW s \in Seq(X), NEW t \in Seq(X)
    PROVE  /\ AddAll(s, t) \in Seq(X)
           /\ ToSet(AddAll(s, t)) = ToSet(s) \union ToSet(t)
           /\ IsInjective(s) => IsInjective(AddAll(s, t))
<1> DEFINE a == Adding(s, t)
           top == Len(t)
<1> HIDE DEF a, top
<1>1. /\ \A n \in 0..top : a[n] \in Seq(X)
      /\ a[0] = s
      /\ \A n \in 1..top :
           a[n] = IF Contains(a[n - 1], t[n]) THEN a[n - 1] ELSE Append(a[n - 1], t[n])
  <2>1. /\ a \in [0..top -> Seq(X)]
        /\ a[0] = s
        /\ \A n \in 1..top :
             a[n] = IF Contains(a[n - 1], t[n]) THEN a[n - 1] ELSE Append(a[n - 1], t[n])
    BY AddingIsLoop DEF a, top
  <2> QED BY <2>1
<1> DEFINE First(n) == {t[i] : i \in 1..n}
           T == {n \in 0..top : /\ ToSet(a[n]) = ToSet(s) \union First(n)
                                /\ IsInjective(s) => IsInjective(a[n])}
<1>2. top \in Nat /\ ToSet(t) = First(top)
  BY DEF ToSet, top
<1>3. \A n \in 1..top : t[n] \in X
  BY ElementOfSeq DEF top
<1>4. First(0) = {} /\ \A n \in 1..top : First(n) = First(n - 1) \union {t[n]}
  BY <1>2
<1> HIDE DEF First
<1>5. 0 \in T
  BY <1>2, <1>1, <1>4
<1>6. ASSUME NEW n \in 1..top, n - 1 \in T
      PROVE  n \in T
  <2> DEFINE b == a[n - 1]
  <2>1. b \in Seq(X) /\ t[n] \in X /\ n \in 0..top
    BY <1>2, <1>1, <1>3
  <2>2. a[n] = IF Contains(b, t[n]) THEN b ELSE Append(b, t[n])
    BY <1>1
  <2>3. ToSet(b) = ToSet(s) \union First(n - 1) /\ (IsInjective(s) => IsInjective(b))
    BY <1>6
  <2>4. First(n) = First(n - 1) \union {t[n]}
    BY <1>4
  <2> HIDE DEF b
  <2>5. CASE Contains(b, t[n])
    <3>1. t[n] \in ToSet(b)
      BY <2>1, <2>5, ContainsIsIn
    <3> QED BY <2>1, <2>2, <2>3, <2>4, <2>5, <3>1
  <2>6. CASE ~Contains(b, t[n])
    <3>1. t[n] \notin ToSet(b)
      BY <2>1, <2>6, ContainsIsIn
    <3>2. /\ ToSet(a[n]) = ToSet(b) \union {t[n]}
          /\ IsInjective(b) => IsInjective(a[n])
      BY <2>1, <2>2, <2>6, <3>1, AppendAddsOne
    <3> QED BY <2>1, <2>3, <2>4, <3>2
  <2> QED BY <2>5, <2>6
<1>7. top \in T
  <2> HIDE DEF T
  <2>1. 0..top \subseteq T
    BY <1>2, <1>5, <1>6, CountingUp
  <2> QED BY <1>2, <2>1
<1>8. AddAll(s, t) = a[top]
  BY DEF AddAll, a, top
<1> QED BY <1>2, <1>1, <1>7, <1>8

\* What is there already is not added.
LEMMA AddAllKeeps ==
    ASSUME NEW X, NEW s \in Seq(X), NEW t \in Seq(X), ToSet(t) \subseteq ToSet(s)
    PROVE  AddAll(s, t) = s
<1> DEFINE a == Adding(s, t)
           top == Len(t)
           T == {n \in 0..top : a[n] = s}
<1>1. top \in Nat
  OBVIOUS
<1>2. /\ a[0] = s
      /\ \A n \in 1..top :
           a[n] = IF Contains(a[n - 1], t[n]) THEN a[n - 1] ELSE Append(a[n - 1], t[n])
  BY AddingIsLoop
<1>3. \A n \in 1..top : Contains(s, t[n])
  <2>1. \A n \in 1..top : t[n] \in ToSet(t)
    BY DEF ToSet
  <2> QED BY <2>1, ContainsIsIn
<1> HIDE DEF a, top
<1>4. 0 \in T /\ \A n \in 1..top : n - 1 \in T => n \in T
  BY <1>1, <1>2, <1>3
<1>5. top \in T
  <2> HIDE DEF T
  <2>1. 0..top \subseteq T
    BY <1>1, <1>4, CountingUp
  <2> QED BY <1>1, <2>1
<1> QED BY <1>5 DEF AddAll, a, top

\* The first report of a list is kept as it is.
LEMMA AddAllToNone ==
    ASSUME NEW X, NEW t \in Seq(X), IsInjective(t)
    PROVE  AddAll(<<>>, t) = t
<1> DEFINE a == Adding(<<>>, t)
           top == Len(t)
           First(n) == [i \in 1..n |-> t[i]]
           T == {n \in 0..top : a[n] = First(n)}
<1>1. top \in Nat /\ t = First(top)
  OBVIOUS
<1>2. /\ a[0] = <<>>
      /\ \A n \in 1..top :
           a[n] = IF Contains(a[n - 1], t[n]) THEN a[n - 1] ELSE Append(a[n - 1], t[n])
  <2> DEFINE none == <<>>
  <2>1. none \in Seq(X)
    OBVIOUS
  <2> HIDE DEF none
  <2>2. /\ Adding(none, t)[0] = none
        /\ \A n \in 1..top :
             Adding(none, t)[n] =
               IF Contains(Adding(none, t)[n - 1], t[n]) THEN Adding(none, t)[n - 1]
               ELSE Append(Adding(none, t)[n - 1], t[n])
    BY <2>1, AddingIsLoop
  <2> QED BY <2>2 DEF none
<1>3. \A n \in 0..top : First(n) \in Seq(X) /\ Len(First(n)) = n
  <2> SUFFICES ASSUME NEW n \in 0..top PROVE First(n) \in Seq(X) /\ Len(First(n)) = n
    OBVIOUS
  <2>1. \A i \in 1..n : t[i] \in X
    BY ElementOfSeq
  <2> QED BY <2>1
<1>4. First(0) = <<>>
  OBVIOUS
<1>5. \A n \in 1..top : ~Contains(First(n - 1), t[n])
  <2> SUFFICES ASSUME NEW n \in 1..top, NEW i \in 1..(n - 1), t[i] = t[n] PROVE FALSE
    BY <1>3 DEF Contains
  <2>1. i \in DOMAIN t /\ n \in DOMAIN t /\ i # n
    OBVIOUS
  <2> QED BY <2>1 DEF IsInjective
<1>6. \A n \in 1..top : Append(First(n - 1), t[n]) = First(n)
  <2> SUFFICES ASSUME NEW n \in 1..top PROVE Append(First(n - 1), t[n]) = First(n)
    OBVIOUS
  <2>1. /\ First(n - 1) \in Seq(X) /\ Len(First(n - 1)) = n - 1 /\ t[n] \in X
        /\ First(n) \in Seq(X) /\ Len(First(n)) = n
    BY <1>3, ElementOfSeq
  <2>2. \A i \in 1..n : Append(First(n - 1), t[n])[i] = First(n)[i]
    BY <2>1
  <2> QED BY <2>1, <2>2, SeqEqual
<1> HIDE DEF a, top, First
<1>7. 0 \in T /\ \A n \in 1..top : n - 1 \in T => n \in T
  <2>1. 0 \in T
    BY <1>1, <1>2, <1>4
  <2>2. ASSUME NEW n \in 1..top, a[n - 1] = First(n - 1)
        PROVE  a[n] = First(n)
    BY <1>2, <1>5, <1>6, <2>2
  <2> QED BY <1>1, <2>1, <2>2
<1>8. top \in T
  <2> HIDE DEF T
  <2>1. 0..top \subseteq T
    BY <1>1, <1>7, CountingUp
  <2> QED BY <1>1, <2>1
<1> QED BY <1>1, <1>8 DEF AddAll, a, top

-----------------------------------------------------------------------------
(* Distances                                                               *)

\* The loop of Reached is well defined.
LEMMA ReachedIsLoop ==
    ASSUME NEW X, NEW order \in Seq(X), NEW parts
    PROVE  /\ DOMAIN Reached(order, parts) = 0..Len(order)
           /\ Reached(order, parts)[0] = {0}
           /\ \A n \in 1..Len(order) :
                Reached(order, parts)[n] =
                  Reached(order, parts)[n - 1] \union
                    UNION {ToSet(parts[e]) : e \in Reached(order, parts)[n - 1] \intersect ToSet(order)}
<1> DEFINE top == Len(order)
           Further(before) == before \union UNION {ToSet(parts[e]) : e \in before \intersect ToSet(order)}
           U == {0} \union UNION {ToSet(parts[e]) : e \in ToSet(order)}
           Y == SUBSET U
           start == {0}
           round == [n \in 1..top |-> [b \in Y |-> Further(b)]]
           IsLoop(f) == f = [n \in 0..top |-> IF n = 0 THEN {0} ELSE Further(f[n - 1])]
<1>1. top \in Nat /\ start \in Y /\ \A b \in Y : Further(b) \in Y
  <2>1. top \in Nat /\ start \in Y
    OBVIOUS
  <2>2. ASSUME NEW b \in Y, NEW x \in Further(b)
        PROVE  x \in U
    BY <2>2
  <2> HIDE DEF Further, U
  <2> QED BY <2>1, <2>2
<1> HIDE DEF top, Further, Y, U
<1>2. PICK f \in [0..top -> Y] : f[0] = start /\ \A n \in 1..top : f[n] = round[n][f[n - 1]]
  <2>1. round \in [1..top -> [Y -> Y]]
    BY <1>1
  <2> HIDE DEF round, start
  <2>2. LoopEnds(top, Y, start, round)
    BY <1>1, <2>1, LoopExists
  <2> QED BY <2>2 DEF LoopEnds
<1>3. ASSUME NEW n \in 1..top
      PROVE  f[n] = Further(f[n - 1])
  <2>1. f[n - 1] \in Y
    BY <1>1
  <2> QED BY <1>2, <2>1
<1>4. IsLoop(f)
  BY <1>1, <1>2, <1>3
<1>5. IsLoop(Reached(order, parts))
  BY <1>4, Zenon DEF Reached, Further, top
<1> DEFINE w == Reached(order, parts)
<1> HIDE DEF w
<1>6. IsLoop(w)
  BY <1>5 DEF w
<1>7. DOMAIN w = 0..top /\ w[0] = {0}
  BY <1>1, <1>6
<1>8. ASSUME NEW n \in 1..top
      PROVE  w[n] = Further(w[n - 1])
  <2>1. n \in 0..top /\ n # 0
    BY <1>1
  <2> QED BY <1>6, <2>1
<1> QED BY <1>7, <1>8 DEF w, Further, top

LEMMA DepthIsBounded ==
    ASSUME NEW X, NEW order \in Seq(X), NEW parts, NEW e
    PROVE  Depth(order, parts, e) \in 0..Len(order)
<1> DEFINE w == Reached(order, parts)
           steps == {n \in DOMAIN w : e \in w[n]}
<1>1. steps \in SUBSET (0..Len(order)) /\ steps \in SUBSET Nat /\ Len(order) \in Nat
  BY ReachedIsLoop
<1>2. CASE Contains(order, 0) /\ steps # {}
  <2>1. Min(steps) \in steps
    BY <1>1, <1>2, MinIsLeast
  <2>2. Depth(order, parts, e) = Min(steps)
    BY <1>2, Zenon DEF Depth
  <2> QED BY <1>1, <2>1, <2>2
<1>3. CASE ~(Contains(order, 0) /\ steps # {})
  <2>1. Depth(order, parts, e) = 0
    BY <1>3, Zenon DEF Depth
  <2> QED BY <1>1, <2>1
<1> QED BY <1>2, <1>3

\* Endpoint 0 is at distance 0, and what it lists, but itself, at distance 1.
LEMMA DepthNearRoot ==
    ASSUME NEW X, NEW order \in Seq(X), NEW parts, 0 \in ToSet(order)
    PROVE  /\ Depth(order, parts, 0) = 0
           /\ \A e \in ToSet(parts[0]) \ {0} : Depth(order, parts, e) = 1
<1> DEFINE w == Reached(order, parts)
           top == Len(order)
<1>1. Contains(order, 0)
  BY ContainsIsIn
<1>2. top \in Nat /\ top >= 1
  BY DEF ToSet
<1>3. DOMAIN w = 0..top /\ w[0] = {0}
  BY ReachedIsLoop
<1>4. w[1] = w[0] \union UNION {ToSet(parts[e]) : e \in w[0] \intersect ToSet(order)}
  <2>1. 1 \in 1..Len(order) /\ 1 - 1 = 0
    BY <1>2
  <2> QED BY <2>1, ReachedIsLoop
<1>5. ToSet(parts[0]) \subseteq w[1]
  BY <1>3, <1>4
<1> HIDE DEF w, top
<1>6. ASSUME NEW e, NEW d \in 0..top, e \in w[d], \A n \in 0..top : e \in w[n] => d <= n
      PROVE  Depth(order, parts, e) = d
  <2> DEFINE steps == {n \in DOMAIN w : e \in w[n]}
  <2>1. d \in steps /\ steps \in SUBSET Nat /\ \A n \in steps : d <= n
    BY <1>2, <1>3, <1>6
  <2>2. Min(steps) \in steps /\ Min(steps) <= d
    <3> HIDE DEF steps
    <3> QED BY <2>1, MinIsLeast
  <2>3. Min(steps) = d
    BY <2>1, <2>2
  <2>4. Depth(order, parts, e) = Min(steps)
    BY <1>1, <2>1, Zenon DEF Depth, w
  <2> QED BY <2>3, <2>4
<1>7. Depth(order, parts, 0) = 0
  BY <1>2, <1>3, <1>6
<1>8. ASSUME NEW e \in ToSet(parts[0]) \ {0}
      PROVE  Depth(order, parts, e) = 1
  <2>1. e \in w[1] /\ e \notin w[0]
    BY <1>3, <1>5
  <2>2. \A n \in 0..top : e \in w[n] => 1 <= n
    BY <1>2, <2>1
  <2> QED BY <1>2, <1>6, <2>1, <2>2
<1> QED BY <1>7, <1>8

-----------------------------------------------------------------------------
(* The parent                                                              *)

\* Nobody lists it: it has no parent.
LEMMA ParentOfUnlisted ==
    ASSUME NEW order, NEW parts, NEW e, Claimants(order, parts, e) = {}
    PROVE  Parent(order, parts, e) = NoParent
BY DEF Parent

\* The parent is an entry of the vector that lists it, if there is one.
LEMMA ParentIsThere ==
    ASSUME NEW X, NEW order \in Seq(X), NEW parts, NEW e
    PROVE  /\ Parent(order, parts, e) \in X \union {NoParent}
           /\ Claimants(order, parts, e) # {} => Parent(order, parts, e) \in Claimants(order, parts, e)
<1> DEFINE claimants == Claimants(order, parts, e)
           depths == {Depth(order, parts, c) : c \in claimants}
           deepest == {c \in claimants : \A d \in claimants :
                          Depth(order, parts, d) <= Depth(order, parts, c)}
<1>1. CASE claimants = {}
  BY <1>1, ParentOfUnlisted
<1>2. CASE claimants # {}
  <2>1. depths \in SUBSET (0..Len(order)) /\ depths # {} /\ Len(order) \in Nat
    BY <1>2, DepthIsBounded
  <2>2. PICK m \in depths : \A n \in depths : n <= m
    <3> HIDE DEF depths
    <3> QED BY <2>1, GreatestNumber
  <2>3. PICK c \in claimants : m = Depth(order, parts, c)
    OBVIOUS
  <2>4. c \in deepest
    BY <2>2, <2>3
  <2>5. ToSet(order) \intersect deepest # {}
    BY <2>4 DEF Claimants
  <2>6. Parent(order, parts, e) = FirstIn(order, deepest)
    BY <1>2, Zenon DEF Parent
  <2>7. deepest \subseteq claimants
    OBVIOUS
  <2> HIDE DEF deepest
  <2>8. FirstIn(order, deepest) \in ToSet(order) \intersect deepest
    BY <2>5, FirstInIsThere
  <2>9. ToSet(order) \subseteq X
    BY ContainsIsIn
  <2> QED BY <2>6, <2>7, <2>8, <2>9
<1> QED BY <1>1, <1>2

\* Only p lists it.
LEMMA ParentOfOne ==
    ASSUME NEW X, NEW order \in Seq(X), NEW parts, NEW e, NEW p,
           Claimants(order, parts, e) = {p}
    PROVE  Parent(order, parts, e) = p
<1> DEFINE deepest == {c \in Claimants(order, parts, e) : \A d \in Claimants(order, parts, e) :
                          Depth(order, parts, d) <= Depth(order, parts, c)}
<1>1. Depth(order, parts, p) <= Depth(order, parts, p)
  BY DepthIsBounded
<1>2. deepest = {p} /\ p \in ToSet(order)
  BY <1>1 DEF Claimants
<1>3. Parent(order, parts, e) = FirstIn(order, deepest)
  BY Zenon DEF Parent
<1> HIDE DEF deepest
<1>4. FirstIn(order, deepest) \in ToSet(order) \intersect deepest
  BY <1>2, FirstInIsThere
<1> QED BY <1>2, <1>3, <1>4

\* Endpoint 0, which lists p too, and p list it: p is its parent.
LEMMA ParentBelowRoot ==
    ASSUME NEW X, NEW order \in Seq(X), NEW parts, NEW e, NEW p \in ToSet(parts[0]) \ {0},
           Claimants(order, parts, e) = {0, p}
    PROVE  Parent(order, parts, e) = p
<1> DEFINE deepest == {c \in Claimants(order, parts, e) : \A d \in Claimants(order, parts, e) :
                          Depth(order, parts, d) <= Depth(order, parts, c)}
<1>1. 0 \in ToSet(order) /\ p \in ToSet(order)
  BY DEF Claimants
<1>2. Depth(order, parts, 0) = 0 /\ Depth(order, parts, p) = 1
  BY <1>1, DepthNearRoot
<1>3. deepest = {p}
  BY <1>2
<1>4. Parent(order, parts, e) = FirstIn(order, deepest)
  BY Zenon DEF Parent
<1> HIDE DEF deepest
<1>5. FirstIn(order, deepest) \in ToSet(order) \intersect deepest
  BY <1>1, <1>3, FirstInIsThere
<1> QED BY <1>3, <1>4, <1>5

-----------------------------------------------------------------------------
(* Types and endpoints                                                     *)

\* The lowest of them, 0 last, is one of them.
LEMMA LowestLast ==
    ASSUME NEW T \in SUBSET Nat, T # {}
    PROVE  (IF T = {0} THEN 0 ELSE Min(T \ {0})) \in T
<1> DEFINE rest == T \ {0}
<1>1. rest \in SUBSET Nat /\ (T # {0} => rest # {}) /\ rest \subseteq T
  OBVIOUS
<1> HIDE DEF rest
<1>2. CASE T = {0}
  BY <1>2
<1>3. CASE T # {0}
  <2>1. Min(rest) \in rest
    BY <1>1, <1>3, MinIsLeast
  <2> QED BY <1>1, <1>3, <2>1 DEF rest
<1> QED BY <1>2, <1>3

\* The device type is one of those that were reported, or none.
LEMMA PrimaryType ==
    ASSUME NEW E \in SUBSET Nat, NEW X, NEW types \in [E -> Seq(X)]
    PROVE  Primary(types) \in X \union {NoType}
<1> DEFINE having == {e \in E : OwnTypes(types, e) # {}}
           chosen == IF having = {0} THEN 0 ELSE Min(having \ {0})
<1>1. Primary(types) = IF having = {} THEN NoType ELSE FirstIn(types[chosen], OwnTypes(types, chosen))
  BY Zenon DEF Primary
<1>2. CASE having = {}
  BY <1>1, <1>2
<1>3. CASE having # {}
  <2>1. chosen \in having
    <3>1. having \in SUBSET Nat
      OBVIOUS
    <3> HIDE DEF having
    <3> QED BY <1>3, <3>1, LowestLast
  <2> HIDE DEF chosen
  <2>2. types[chosen] \in Seq(X) /\ ToSet(types[chosen]) \intersect OwnTypes(types, chosen) # {}
    BY <2>1 DEF OwnTypes
  <2>3. FirstIn(types[chosen], OwnTypes(types, chosen)) \in ToSet(types[chosen])
    BY <2>2, FirstInIsThere
  <2>4. ToSet(types[chosen]) \subseteq X
    BY <2>2, ContainsIsIn
  <2> QED BY <1>1, <1>3, <2>3, <2>4
<1> QED BY <1>2, <1>3

\* Endpoints of which no type was reported do not count.
LEMMA PrimaryOfReported ==
    ASSUME NEW own, NEW types, DOMAIN types \subseteq Nat, DOMAIN own \subseteq DOMAIN types,
           \A e \in DOMAIN own : types[e] = own[e],
           \A e \in DOMAIN types \ DOMAIN own : types[e] = <<>>
    PROVE  Primary(types) = Primary(own)
<1> DEFINE E == DOMAIN own
           F == DOMAIN types
           having(t) == {e \in DOMAIN t : OwnTypes(t, e) # {}}
           chosen(t) == IF having(t) = {0} THEN 0 ELSE Min(having(t) \ {0})
<1>1. \A e \in E : OwnTypes(types, e) = OwnTypes(own, e)
  BY DEF OwnTypes
<1>2. \A e \in F \ E : OwnTypes(types, e) = {}
  BY DEF OwnTypes, ToSet
<1>3. having(types) = having(own)
  BY <1>1, <1>2
<1>4. CASE having(own) = {}
  BY <1>3, <1>4 DEF Primary
<1>5. CASE having(own) # {}
  <2> DEFINE c == chosen(own)
  <2>1. c = chosen(types)
    BY <1>3, Zenon
  <2>2. /\ Primary(types) = FirstIn(types[c], OwnTypes(types, c))
        /\ Primary(own) = FirstIn(own[c], OwnTypes(own, c))
    BY <1>3, <1>5, <2>1, Zenon DEF Primary
  <2>3. c \in having(own)
    <3> DEFINE T == having(own)
    <3>1. T \in SUBSET Nat
      OBVIOUS
    <3>2. c = IF T = {0} THEN 0 ELSE Min(T \ {0})
      BY Zenon
    <3> HIDE DEF T, having, c
    <3>3. T # {}
      BY <1>5 DEF T
    <3>4. (IF T = {0} THEN 0 ELSE Min(T \ {0})) \in T
      BY <3>1, <3>3, LowestLast
    <3>5. c \in T
      BY <3>2, <3>4
    <3> QED BY <3>5 DEF T
  <2>4. c \in E
    BY <2>3, Zenon
  <2> HIDE DEF c, having, chosen
  <2>5. types[c] = own[c] /\ OwnTypes(types, c) = OwnTypes(own, c)
    BY <1>1, <2>4
  <2> QED BY <2>2, <2>5
<1> QED BY <1>4, <1>5

\* A request goes to an entry that has one of the types, if there is one.
LEMMA FirstWithFinds ==
    ASSUME NEW X, NEW order \in Seq(X), NEW types, NEW wanted
    PROVE  LET having == {e \in ToSet(order) : ToSet(types[e]) \intersect wanted # {}}
           IN  IF having = {} THEN FirstWith(order, types, wanted) = NoParent
               ELSE FirstWith(order, types, wanted) \in having
<1> DEFINE having == {e \in ToSet(order) : ToSet(types[e]) \intersect wanted # {}}
<1>1. FirstWith(order, types, wanted) = IF having = {} THEN NoParent ELSE FirstIn(order, having)
  BY Zenon DEF FirstWith
<1>2. having # {} => ToSet(order) \intersect having # {}
  OBVIOUS
<1> HIDE DEF having
<1>3. having # {} => FirstIn(order, having) \in having
  BY <1>2, FirstInIsThere
<1>4. IF having = {} THEN FirstWith(order, types, wanted) = NoParent
      ELSE FirstWith(order, types, wanted) \in having
  BY <1>1, <1>3
<1> QED BY <1>4 DEF having

=============================================================================
