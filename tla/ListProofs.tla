------------------------------ MODULE ListProofs ------------------------------
(***************************************************************************)
(* What the page's conversions of a schedule's list do together, for a     *)
(* field of any size and any ascending list: which lists are read back     *)
(* from their text as they were.  The recursive functions of both          *)
(* conversions are shown to exist first; what they compute is then shown   *)
(* by the lemma Induction, which is about sets of numbers.                 *)
(***************************************************************************)
EXTENDS ScheduleText, SequenceTheorems, WellFoundedInduction, TLAPS

\* Induction over the numbers from 0 to n: a set that holds 0, and with each number the
\* next, holds them all.
LEMMA Induction ==
    ASSUME NEW n \in Nat, NEW T, 0 \in T, \A i \in 0 .. n - 1 : i \in T => i + 1 \in T
    PROVE  \A i \in 0 .. n : i \in T
<1> DEFINE Less == {p \in Nat \X Nat : p[1] < p[2]}
           Out == {i \in 0 .. n : i \notin T}
<1>1. IsWellFoundedOn(Less, Nat)
  BY NatLessThanWellFounded DEF OpToRel
<1>2. SUFFICES ASSUME Out # {} PROVE FALSE
  OBVIOUS
<1>3. PICK x \in Out : \A y \in Out : <<y, x>> \notin Less
  <2> HIDE DEF Less
  <2>1. Out \subseteq Nat
    OBVIOUS
  <2> QED
    BY <1>1, <1>2, <2>1, WFMin
<1>4. x \in 0 .. n /\ x \notin T
  OBVIOUS
<1>5. x - 1 \in 0 .. n - 1 /\ x - 1 \in 0 .. n
  BY <1>4
<1>6. x - 1 \notin Out
  <2>1. x - 1 \in Nat /\ x \in Nat /\ x - 1 < x
    BY <1>4, <1>5
  <2>2. <<x - 1, x>> \in Less
    BY <2>1
  <2> HIDE DEF Less
  <2> QED
    BY <1>3, <2>2
<1>7. x - 1 \in T
  BY <1>5, <1>6
<1>8. (x - 1) + 1 \in T
  BY <1>5, <1>7
<1>9. (x - 1) + 1 = x
  BY <1>4
<1> QED
  BY <1>4, <1>8, <1>9

\* A recursive function over the numbers from 0 to n.
Steps(step, V, n) == step \in [V \X (1 .. n) -> V]
Iterated(f, V, e, step, n) ==
    /\ f \in [0 .. n -> V]
    /\ f[0] = e /\ \A i \in 1 .. n : f[i] = step[<<f[i - 1], i>>]

LEMMA Iterates ==
    ASSUME NEW n \in Nat, NEW V, NEW e \in V, NEW step, Steps(step, V, n)
    PROVE  \E f : Iterated(f, V, e, step, n)
<1> DEFINE P(f, k) == f[0] = e /\ \A i \in 1 .. k : f[i] = step[<<f[i - 1], i>>]
           T == {k \in 0 .. n : \E f \in [0 .. n -> V] : P(f, k)}
<1>1. 0 \in T
  <2>1. [i \in 0 .. n |-> e] \in [0 .. n -> V] /\ P([i \in 0 .. n |-> e], 0)
    OBVIOUS
  <2> HIDE DEF P
  <2> QED
    BY <2>1
<1>2. ASSUME NEW k \in 0 .. n - 1, k \in T PROVE k + 1 \in T
  <2>1. PICK f \in [0 .. n -> V] : P(f, k)
    BY <1>2
  <2> DEFINE v == step[<<f[k], k + 1>>]
             g == [f EXCEPT ![k + 1] = v]
  <2>2. k \in 0 .. n /\ k + 1 \in 1 .. n /\ k + 1 \in 0 .. n /\ (k + 1) - 1 = k /\ f[k] \in V
        /\ \A i \in 1 .. k + 1 : i \in 1 .. k \/ i = k + 1
    OBVIOUS
  <2>3. v \in V
    BY <2>2 DEF Steps
  <2>4. /\ g \in [0 .. n -> V] /\ g[k + 1] = v
        /\ \A i \in 0 .. k : g[i] = f[i]
    <3> HIDE DEF v
    <3> QED
      BY <2>2, <2>3
  <2> HIDE DEF g
  <2>5. \A i \in 1 .. k : i - 1 \in 0 .. k /\ i \in 0 .. k
    OBVIOUS
  <2>6. P(g, k + 1)
    <3>1. g[0] = e
      BY <2>1, <2>4
    <3>2. ASSUME NEW i \in 1 .. k PROVE g[i] = step[<<g[i - 1], i>>]
      BY <2>1, <2>4, <2>5
    <3>3. g[k + 1] = step[<<g[(k + 1) - 1], k + 1>>]
      <4>1. k \in 0 .. k
        BY <2>2
      <4>2. g[k] = f[k]
        BY <2>4, <4>1
      <4> QED
        BY <2>2, <2>4, <4>2
    <3> QED
      BY <2>2, <3>1, <3>2, <3>3
  <2> HIDE DEF P
  <2> QED
    BY <2>2, <2>4, <2>6
<1>3. n \in T
  <2>1. \A i \in 0 .. n - 1 : i \in T => i + 1 \in T
    BY <1>2
  <2> HIDE DEF T
  <2>2. \A i \in 0 .. n : i \in T
    BY <1>1, <2>1, Induction
  <2> QED
    BY <2>2
<1> QED
  BY <1>3 DEF Iterated

LEMMA OneAppended ==
    ASSUME NEW R, NEW c \in Seq(R), NEW e \in R
    PROVE  LET d == Append(c, e)
           IN  /\ d \in Seq(R) /\ Len(c) \in Nat /\ Len(d) = Len(c) + 1
               /\ DOMAIN d = 1 .. Len(c) + 1 /\ d[Len(c) + 1] = e
               /\ \A i \in 1 .. Len(c) : d[i] = c[i] /\ i \in DOMAIN d
               /\ \A i \in DOMAIN d : i \in 1 .. Len(c) \/ i = Len(c) + 1
OBVIOUS

\* The smallest of a set of naturals.
LEMMA Smallest ==
    ASSUME NEW T, T \subseteq Nat, T # {}
    PROVE  Min(T) \in T /\ \A n \in T : Min(T) <= n
<1> DEFINE R == {p \in Nat \X Nat : p[1] < p[2]}
<1>1. IsWellFoundedOn(R, Nat)
  BY NatLessThanWellFounded DEF OpToRel
<1>2. PICK x \in T : \A y \in T : <<y, x>> \notin R
  BY <1>1, WFMin
<1>3. \A y \in T : x \in Nat /\ y \in Nat /\ ~ (y < x)
  BY <1>2
<1>4. \A y \in T : x <= y
  BY <1>3
<1> QED
  BY <1>4 DEF Min

\* The largest of a set of bounded naturals.
LEMMA Largest ==
    ASSUME NEW b \in Nat, NEW T, T \subseteq 0 .. b, T # {}
    PROVE  Max(T) \in T /\ \A n \in T : n <= Max(T)
<1> DEFINE U == {b - x : x \in T}
<1>1. U \subseteq Nat /\ U # {}
  <2>1. PICK x \in T : TRUE
    OBVIOUS
  <2>2. b - x \in U
    BY <2>1
  <2>3. U \subseteq Nat
    OBVIOUS
  <2> QED
    BY <2>2, <2>3
<1>2. Min(U) \in U /\ \A n \in U : Min(U) <= n
  BY <1>1, Smallest
<1>3. PICK x \in T : Min(U) = b - x
  BY <1>2
<1>4. \A y \in T : y <= x
  <2> SUFFICES ASSUME NEW y \in T PROVE y <= x
    OBVIOUS
  <2>1. b - y \in U /\ y \in 0 .. b /\ x \in 0 .. b
    OBVIOUS
  <2> HIDE DEF U
  <2>2. b - x <= b - y
    BY <1>2, <1>3, <2>1
  <2> QED
    BY <2>1, <2>2
<1>5. \A y \in T : x >= y
  BY <1>4
<1>6. Max(T) \in T /\ \A y \in T : Max(T) >= y
  BY <1>5 DEF Max
<1> QED
  BY <1>6

\* The smallest of a set of naturals that is not empty.
LEMMA Least ==
    ASSUME NEW T, T \subseteq Nat, T # {}
    PROVE  \E x \in T : \A y \in T : x <= y
BY Smallest

-----------------------------------------------------------------------------
(* The recursive functions of the text                                      *)

\* The parts that are written after each number.
Writes(f, a) ==
    f = [i \in 0 .. Len(a) |->
            IF i = 0 THEN <<>>
            ELSE IF Follows(a, i) /\ i < Len(a) THEN f[i - 1]
            ELSE Written(f[i - 1], a[i], Follows(a, i) \/ Follows(a, i - 1))]

LEMMA WritesExists ==
    ASSUME NEW a, Len(a) \in Nat
    PROVE  \E f : Writes(f, a)
<1> DEFINE n == Len(a)
           Step(f, i) ==
               IF i = 0 THEN <<>>
               ELSE IF Follows(a, i) /\ i < n THEN f[i - 1]
               ELSE Written(f[i - 1], a[i], Follows(a, i) \/ Follows(a, i - 1))
           T == {k \in 0 .. n : \E f : f = [i \in 0 .. n |-> f[i]]
                                       /\ \A i \in 0 .. k : f[i] = Step(f, i)}
<1>1. 0 \in T
  <2> DEFINE f == [i \in 0 .. n |-> <<>>]
  <2>1. f = [i \in 0 .. n |-> f[i]] /\ \A i \in 0 .. 0 : f[i] = Step(f, i)
    OBVIOUS
  <2> HIDE DEF f, Step
  <2> QED
    BY <2>1
<1>2. ASSUME NEW k \in 0 .. n - 1, k \in T PROVE k + 1 \in T
  <2>1. PICK f : f = [i \in 0 .. n |-> f[i]] /\ \A i \in 0 .. k : f[i] = Step(f, i)
    BY <1>2
  <2> DEFINE g == [i \in 0 .. n |-> IF i = k + 1 THEN Step(f, k + 1) ELSE f[i]]
  <2>2. g = [i \in 0 .. n |-> g[i]]
    OBVIOUS
  <2>3. \A i \in 0 .. k + 1 : g[i] = Step(g, i)
    <3>1. \A i \in 0 .. k : g[i] = f[i]
      OBVIOUS
    <3>2. g[k + 1] = Step(f, k + 1)
      OBVIOUS
    <3> HIDE DEF g
    <3>3. \A i \in 0 .. k + 1 : Step(g, i) = Step(f, i)
      BY <3>1
    <3>4. k \in Int /\ \A i \in 0 .. k + 1 : i \in 0 .. k \/ i = k + 1
      OBVIOUS
    <3> HIDE DEF Step
    <3> QED
      BY <2>1, <3>1, <3>2, <3>3, <3>4
  <2>4. k + 1 \in 0 .. n
    OBVIOUS
  <2> HIDE DEF g, Step
  <2> QED
    BY <2>2, <2>3, <2>4
<1>3. n \in T
  <2> HIDE DEF T
  <2>1. \A i \in 0 .. n - 1 : i \in T => i + 1 \in T
    BY <1>2
  <2>2. \A i \in 0 .. n : i \in T
    BY <1>1, <2>1, Induction
  <2> QED
    BY <2>2
<1>4. PICK f : f = [i \in 0 .. n |-> f[i]] /\ \A i \in 0 .. n : f[i] = Step(f, i)
  BY <1>3 DEF T
<1>5. f = [i \in 0 .. n |-> Step(f, i)]
  BY <1>4
<1> QED
  BY <1>5 DEF Writes

LEMMA TextWritten ==
    ASSUME NEW a, Len(a) \in Nat, NEW max, Len(a) # max
    PROVE  \E f : Writes(f, a) /\ BuildScheduleString(a, max) = Parts(f[Len(a)])
BY WritesExists DEF Writes, BuildScheduleString

\* The lists that are read, one after the other.
Joins(f, s) == f = [i \in 1 .. Len(s) |-> IF i = 1 THEN s[i] ELSE f[i - 1] \o s[i]]

LEMMA JoinsExists ==
    ASSUME NEW s, Len(s) \in Nat
    PROVE  \E f : Joins(f, s)
<1> DEFINE n == Len(s)
           Step(f, i) == IF i = 1 THEN s[i] ELSE f[i - 1] \o s[i]
           T == {k \in 0 .. n : \E f : f = [i \in 1 .. n |-> f[i]]
                                       /\ \A i \in 1 .. k : f[i] = Step(f, i)}
<1>1. 0 \in T
  <2> DEFINE f == [i \in 1 .. n |-> <<>>]
  <2>1. f = [i \in 1 .. n |-> f[i]] /\ \A i \in 1 .. 0 : f[i] = Step(f, i)
    OBVIOUS
  <2> HIDE DEF f, Step
  <2> QED
    BY <2>1
<1>2. ASSUME NEW k \in 0 .. n - 1, k \in T PROVE k + 1 \in T
  <2>1. PICK f : f = [i \in 1 .. n |-> f[i]] /\ \A i \in 1 .. k : f[i] = Step(f, i)
    BY <1>2
  <2> DEFINE g == [i \in 1 .. n |-> IF i = k + 1 THEN Step(f, k + 1) ELSE f[i]]
  <2>2. g = [i \in 1 .. n |-> g[i]]
    OBVIOUS
  <2>3. \A i \in 1 .. k + 1 : g[i] = Step(g, i)
    <3>1. \A i \in 1 .. k : g[i] = f[i]
      OBVIOUS
    <3>2. g[k + 1] = Step(f, k + 1)
      OBVIOUS
    <3> HIDE DEF g
    <3>3. \A i \in 1 .. k + 1 : Step(g, i) = Step(f, i)
      BY <3>1
    <3>4. k \in Int /\ \A i \in 1 .. k + 1 : i \in 1 .. k \/ i = k + 1
      OBVIOUS
    <3> HIDE DEF Step
    <3> QED
      BY <2>1, <3>1, <3>2, <3>3, <3>4
  <2>4. k + 1 \in 0 .. n
    OBVIOUS
  <2> HIDE DEF g, Step
  <2> QED
    BY <2>2, <2>3, <2>4
<1>3. n \in T
  <2> HIDE DEF T
  <2>1. \A i \in 0 .. n - 1 : i \in T => i + 1 \in T
    BY <1>2
  <2>2. \A i \in 0 .. n : i \in T
    BY <1>1, <2>1, Induction
  <2> QED
    BY <2>2
<1>4. PICK f : f = [i \in 1 .. n |-> f[i]] /\ \A i \in 1 .. n : f[i] = Step(f, i)
  BY <1>3 DEF T
<1>5. f = [i \in 1 .. n |-> Step(f, i)]
  BY <1>4
<1> QED
  BY <1>5 DEF Joins

LEMMA Flattened ==
    ASSUME NEW s, Len(s) \in Nat \ {0}
    PROVE  \E f : Joins(f, s) /\ FlattenSeq(s) = f[Len(s)]
BY JoinsExists DEF Joins, FlattenSeq
-----------------------------------------------------------------------------
(* What an ascending list becomes                                           *)

Listing(a, max) ==
    /\ a \in Seq(0 .. max - 1) /\ a # <<>>
    /\ \A i, j \in DOMAIN a : i < j => a[i] < a[j]

LEMMA Ascends ==
    ASSUME NEW max \in Nat, NEW a, Listing(a, max), NEW i \in 1 .. Len(a)
    PROVE  \A j \in i .. Len(a) :
              /\ a[j] - a[i] >= j - i
              /\ (\A k \in i + 1 .. j : Follows(a, k)) => a[j] = a[i] + (j - i)
<1> DEFINE P(d) == /\ a[i + d] - a[i] >= d
                   /\ (\A k \in i + 1 .. i + d : Follows(a, k)) => a[i + d] = a[i] + d
           n == Len(a) - i
           T == {d \in 0 .. n : P(d)}
<1>0. /\ Len(a) \in Nat /\ DOMAIN a = 1 .. Len(a) /\ \A k \in 1 .. Len(a) : a[k] \in Nat
      /\ n \in Nat /\ i \in Int
  BY DEF Listing
<1>1. 0 \in T
  BY <1>0
<1>2. ASSUME NEW d \in 0 .. n - 1, d \in T PROVE d + 1 \in T
  <2>1. P(d) /\ i + d \in 1 .. Len(a) /\ i + d + 1 \in 1 .. Len(a) /\ i + (d + 1) = i + d + 1
        /\ d + 1 \in 0 .. n /\ d \in Int
    BY <1>0, <1>2
  <2>2. a[i + d] < a[i + d + 1]
    <3>1. i + d \in DOMAIN a /\ i + d + 1 \in DOMAIN a /\ i + d < i + d + 1
      BY <1>0, <2>1
    <3> QED
      BY <3>1 DEF Listing
  <2>3. a[i + (d + 1)] - a[i] >= d + 1
    BY <1>0, <2>1, <2>2
  <2>4. ASSUME \A k \in i + 1 .. i + (d + 1) : Follows(a, k)
        PROVE  a[i + (d + 1)] = a[i] + (d + 1)
    <3>1. a[i + d] = a[i] + d
      BY <1>0, <2>1, <2>4
    <3>2. Follows(a, i + d + 1) /\ (i + d + 1) - 1 = i + d
      BY <1>0, <2>1, <2>4
    <3> QED
      BY <1>0, <2>1, <3>1, <3>2 DEF Follows
  <2> QED
    BY <2>1, <2>3, <2>4
<1>3. ASSUME NEW j \in i .. Len(a) PROVE P(j - i) /\ i + (j - i) = j
  <2>1. \A d \in 0 .. n - 1 : d \in T => d + 1 \in T
    BY <1>2
  <2> HIDE DEF T
  <2>2. \A d \in 0 .. n : d \in T
    BY <1>0, <1>1, <2>1, Induction
  <2>3. j - i \in 0 .. n /\ i + (j - i) = j
    BY <1>0
  <2> QED
    BY <2>2, <2>3 DEF T
<1> QED
  BY <1>3

\* A list that names every number of its field.
LEMMA FullList ==
    ASSUME NEW max \in Nat, NEW a, Listing(a, max), Len(a) = max
    PROVE  Resaved(a, max) = a
<1>0. a \in [1 .. max -> Nat] /\ max \in 1 .. max /\ a[1] >= 0 /\ a[max] <= max - 1
      /\ 1 \in 1 .. max
  BY DEF Listing
<1>1. \A i \in 1 .. max : a[i] = i - 1
  <2> SUFFICES ASSUME NEW i \in 1 .. max PROVE a[i] = i - 1
    OBVIOUS
  <2>1. a[i] - a[1] >= i - 1
    BY <1>0, Ascends
  <2>2. a[max] - a[i] >= max - i
    <3>1. max \in i .. Len(a)
      BY <1>0
    <3> QED
      BY <3>1, Ascends
  <2> QED
    BY <1>0, <2>1, <2>2
<1>2. a = [i \in 1 .. max |-> i - 1]
  BY <1>0, <1>1
<1>3. BuildScheduleString(a, max) = Star
  BY DEF BuildScheduleString
<1> QED
  BY <1>2, <1>3 DEF Resaved, BuildTimeArray, Star

\* A number that ends a dash goes to the last part.
LEMMA JoinedTo ==
    ASSUME NEW p \in Seq(Seq(Int)), p # <<>>, NEW e \in Int
    PROVE  /\ Joined(p, e) \in Seq(Seq(Int)) /\ Len(Joined(p, e)) = Len(p)
           /\ \A t \in 1 .. Len(p) - 1 : Joined(p, e)[t] = p[t]
           /\ Joined(p, e)[Len(p)] = Append(p[Len(p)], e)
<1> DEFINE n == Len(p)
           front == SubSeq(p, 1, n - 1)
           part == Append(p[n], e)
<1>1. n \in Nat \ {0} /\ p[n] \in Seq(Int) /\ p \in [1 .. n -> Seq(Int)]
  OBVIOUS
<1>2. front \in Seq(Seq(Int)) /\ Len(front) = n - 1 /\ \A t \in 1 .. n - 1 : front[t] = p[t]
  BY <1>1
<1>3. part \in Seq(Int)
  BY <1>1
<1>4. Joined(p, e) = Append(front, part)
  BY DEF Joined, Front, Last
<1> HIDE DEF front, part, n
<1>5. /\ Append(front, part) \in Seq(Seq(Int)) /\ Len(Append(front, part)) = n
      /\ \A t \in 1 .. n - 1 : Append(front, part)[t] = front[t]
      /\ Append(front, part)[n] = part
  BY <1>1, <1>2, <1>3
<1> QED
  BY <1>2, <1>4, <1>5 DEF n, part

LEMMA NumbersType ==
    ASSUME NEW part \in Seq(Int), part # <<>>
    PROVE  /\ Numbers(part) \in Seq(Int)
           /\ Len(part) # 2 => Numbers(part) = <<part[1]>>
           /\ \A x \in DOMAIN Numbers(part) : Numbers(part)[x] >= part[1]
<1>1. CASE Len(part) # 2
  BY <1>1 DEF Numbers
<1>2. CASE Len(part) = 2
  <2>0. part[1] \in Int /\ part[2] \in Int
    BY <1>2
  <2> DEFINE n == part[2] - part[1] + 1
  <2>1. Numbers(part) = [i \in 1 .. n |-> part[1] + i - 1]
    BY <1>2 DEF Numbers
  <2>2. CASE n < 1
    <3>1. Numbers(part) = <<>>
      BY <2>0, <2>1, <2>2
    <3> QED
      BY <1>2, <3>1
  <2>3. CASE n \in Nat
    <3>1. \A i \in 1 .. n : part[1] + i - 1 \in Int /\ part[1] + i - 1 >= part[1]
      BY <2>0
    <3> HIDE DEF n
    <3>2. [i \in 1 .. n |-> part[1] + i - 1] \in [1 .. n -> Int]
      BY <3>1
    <3>3. [i \in 1 .. n |-> part[1] + i - 1] \in Seq(Int)
      BY <2>3, <3>2
    <3> QED
      BY <1>2, <2>1, <3>1, <3>3
  <2> QED
    BY <2>0, <2>2, <2>3
<1> QED
  BY <1>1, <1>2

\* What is read of parts: each part's numbers, one after the other.
Reads(g, p, n) == /\ g[1] = Numbers(p[1])
                  /\ \A k \in 2 .. n : g[k] = g[k - 1] \o Numbers(p[k])

LEMMA PartsRead ==
    ASSUME NEW p \in Seq(Seq(Int)), p # <<>>, NEW max
    PROVE  \E g : BuildTimeArray(Parts(p), max) = g[Len(p)] /\ Reads(g, p, Len(p))
<1> DEFINE s == [k \in DOMAIN p |-> Numbers(p[k])]
<1>1. Len(p) \in Nat \ {0} /\ DOMAIN p = 1 .. Len(p) /\ Len(s) = Len(p)
  OBVIOUS
<1>2. PICK g : Joins(g, s) /\ FlattenSeq(s) = g[Len(s)]
  <2> HIDE DEF s
  <2> QED
    BY <1>1, Flattened
<1>3. \A k \in 1 .. Len(p) : g[k] = IF k = 1 THEN s[k] ELSE g[k - 1] \o s[k]
  BY <1>1, <1>2 DEF Joins
<1>4. BuildTimeArray(Parts(p), max) = FlattenSeq(s)
  BY DEF BuildTimeArray, Parts
<1>5. \A k \in 1 .. Len(p) : s[k] = Numbers(p[k])
  BY <1>1
<1>6. \A k \in 2 .. Len(p) : k \in 1 .. Len(p) /\ k # 1
  BY <1>1
<1> HIDE DEF s
<1>7. BuildTimeArray(Parts(p), max) = g[Len(p)]
  BY <1>1, <1>2, <1>4
<1>8. g[1] = Numbers(p[1])
  <2>1. 1 \in 1 .. Len(p)
    BY <1>1
  <2> QED
    BY <2>1, <1>3, <1>5
<1>9. \A k \in 2 .. Len(p) : g[k] = g[k - 1] \o Numbers(p[k])
  BY <1>3, <1>5, <1>6
<1> QED
  BY <1>7, <1>8, <1>9 DEF Reads

\* What each step of buildScheduleString writes.
LEMMA StepWrites ==
    ASSUME NEW a, Len(a) \in Nat, NEW f, Writes(f, a)
    PROVE  /\ f[0] = <<>>
           /\ \A i \in 1 .. Len(a) :
                 /\ Follows(a, i) /\ i < Len(a) => f[i] = f[i - 1]
                 /\ ~ Follows(a, i) /\ ~ Follows(a, i - 1) => f[i] = Append(f[i - 1], <<a[i]>>)
                 /\ ~ Follows(a, i) /\ Follows(a, i - 1) => f[i] = Joined(f[i - 1], a[i])
                 /\ Follows(a, i) /\ i = Len(a) => f[i] = Joined(f[i - 1], a[i])
<1>1. \A i \in 0 .. Len(a) :
         f[i] = IF i = 0 THEN <<>>
                ELSE IF Follows(a, i) /\ i < Len(a) THEN f[i - 1]
                ELSE Written(f[i - 1], a[i], Follows(a, i) \/ Follows(a, i - 1))
  BY DEF Writes
<1>2. f[0] = <<>>
  BY <1>1
<1>3. ASSUME NEW i \in 1 .. Len(a)
      PROVE  /\ Follows(a, i) /\ i < Len(a) => f[i] = f[i - 1]
             /\ ~ Follows(a, i) /\ ~ Follows(a, i - 1) => f[i] = Append(f[i - 1], <<a[i]>>)
             /\ ~ Follows(a, i) /\ Follows(a, i - 1) => f[i] = Joined(f[i - 1], a[i])
             /\ Follows(a, i) /\ i = Len(a) => f[i] = Joined(f[i - 1], a[i])
  <2>1. i \in 0 .. Len(a) /\ i # 0 /\ ~ (i < i)
    OBVIOUS
  <2>2. f[i] = IF Follows(a, i) /\ i < Len(a) THEN f[i - 1]
               ELSE Written(f[i - 1], a[i], Follows(a, i) \/ Follows(a, i - 1))
    BY <1>1, <2>1
  <2> QED
    BY <2>1, <2>2, Zenon DEF Written
<1> QED
  BY <1>2, <1>3

\* As long as no number follows the one before it, each is a part of its own.
LEMMA SinglesWritten ==
    ASSUME NEW a \in Seq(Nat), NEW f, Writes(f, a), NEW m \in 0 .. Len(a),
           \A i \in 1 .. m : ~ Follows(a, i)
    PROVE  /\ f[m] \in Seq(Seq(Int)) /\ Len(f[m]) = m
           /\ \A k \in 1 .. m : f[m][k] = <<a[k]>>
<1> DEFINE P(i) == /\ f[i] \in Seq(Seq(Int)) /\ Len(f[i]) = i
                   /\ \A k \in 1 .. i : f[i][k] = <<a[k]>>
           T == {i \in 0 .. m : P(i)}
<1>0. Len(a) \in Nat /\ m \in Nat /\ \A i \in 1 .. m : i \in 1 .. Len(a)
  OBVIOUS
<1>1. 0 \in T
  <2>1. f[0] = <<>> /\ 0 \in 0 .. m
    BY <1>0, StepWrites
  <2>2. P(0)
    BY <2>1
  <2> HIDE DEF P
  <2> QED
    BY <2>1, <2>2
<1>2. ASSUME NEW i \in 0 .. m - 1, i \in T PROVE i + 1 \in T
  <2>1. i + 1 \in 1 .. m /\ (i + 1) - 1 = i /\ i \in Nat /\ i + 1 \in 0 .. m
    BY <1>0
  <2>2. ~ Follows(a, i + 1) /\ ~ Follows(a, i)
    <3>1. CASE i = 0
      BY <3>1, <2>1 DEF Follows
    <3>2. CASE i # 0
      BY <3>2, <2>1
    <3> QED
      BY <3>1, <3>2
  <2>3. f[i + 1] = Append(f[i], <<a[i + 1]>>)
    BY <1>0, <2>1, <2>2, StepWrites
  <2>4. P(i)
    BY <1>2
  <2>5. <<a[i + 1]>> \in Seq(Int)
    BY <1>0, <2>1
  <2>6. P(i + 1)
    BY <2>1, <2>3, <2>4, <2>5, SMTT(30)
  <2> HIDE DEF P
  <2> QED
    BY <2>1, <2>6
<1>3. m \in T
  <2>1. \A i \in 0 .. m - 1 : i \in T => i + 1 \in T
    BY <1>2
  <2> HIDE DEF T
  <2>2. \A i \in 0 .. m : i \in T
    BY <1>0, <1>1, <2>1, Induction
  <2> QED
    BY <1>0, <2>2
<1> QED
  BY <1>3

\* A run of following numbers adds nothing until it ends.
LEMMA RunAddsNothing ==
    ASSUME NEW a \in Seq(Nat), NEW f, Writes(f, a), NEW m \in 0 .. Len(a), NEW l \in m .. Len(a),
           l < Len(a) \/ l = m, \A i \in m + 1 .. l : Follows(a, i)
    PROVE  f[l] = f[m]
<1> DEFINE n == l - m
           T == {d \in 0 .. n : f[m + d] = f[m]}
<1>0. Len(a) \in Nat /\ m \in Nat /\ l \in Nat /\ n \in Nat
  OBVIOUS
<1>1. 0 \in T
  BY <1>0
<1>2. ASSUME NEW d \in 0 .. n - 1, d \in T PROVE d + 1 \in T
  <2>1. m + d + 1 \in m + 1 .. l /\ m + d + 1 \in 1 .. Len(a) /\ (m + d + 1) - 1 = m + d
        /\ m + d + 1 < Len(a) /\ m + (d + 1) = m + d + 1
    BY <1>0
  <2>2. f[m + d + 1] = f[m + d]
    BY <1>0, <2>1, StepWrites
  <2> QED
    BY <1>2, <2>1, <2>2
<1>3. n \in T
  <2>1. \A d \in 0 .. n - 1 : d \in T => d + 1 \in T
    BY <1>2
  <2> HIDE DEF T, n
  <2>2. \A d \in 0 .. n : d \in T
    BY <1>0, <1>1, <2>1, Induction
  <2> QED
    BY <1>0, <2>2
<1>4. m + n = l
  BY <1>0
<1> HIDE DEF n
<1> QED
  BY <1>3, <1>4

\* The list up to its last run, when no number follows one.
LEMMA RunStart ==
    ASSUME NEW n \in Nat \ {0}, NEW a \in Seq(Nat), n = Len(a), ~ RunBeforeOther(a)
    PROVE  \E m \in 1 .. n : /\ \A i \in 1 .. m : ~ Follows(a, i)
                             /\ \A i \in m + 1 .. n : Follows(a, i)
<1> DEFINE R == {i \in 1 .. n : Follows(a, i)}
<1>1. CASE R = {}
  <2>1. n \in 1 .. n /\ \A i \in n + 1 .. n : FALSE
    OBVIOUS
  <2> QED
    BY <1>1, <2>1
<1>2. CASE R # {}
  <2>1. PICK k \in R : \A y \in R : k <= y
    <3>1. R \subseteq Nat
      OBVIOUS
    <3> HIDE DEF R
    <3> QED
      BY <1>2, <3>1, Least
  <2>2. k \in 1 .. n /\ k # 1
    BY DEF Follows
  <2>3. k - 1 \in 1 .. n /\ (k - 1) + 1 = k
    BY <2>2
  <2>4. \A i \in 1 .. k - 1 : ~ Follows(a, i)
    BY <2>1, <2>2
  <2>5. \A i \in k .. n : Follows(a, i)
    <3>1. DOMAIN a = 1 .. n
      OBVIOUS
    <3>2. \A j \in 1 .. n : k < j => Follows(a, j)
      BY <2>1, <2>2, <3>1 DEF RunBeforeOther
    <3> QED
      BY <2>1, <2>2, <3>2
  <2> QED
    BY <2>3, <2>4, <2>5
<1> QED
  BY <1>1, <1>2

LEMMA Appended ==
    ASSUME NEW s \in Seq(Int), NEW e \in Int
    PROVE  /\ Append(s, e) \in Seq(Int) /\ Len(Append(s, e)) = Len(s) + 1
           /\ Append(s, e)[Len(s) + 1] = e
           /\ \A i \in 1 .. Len(s) : Append(s, e)[i] = s[i]
OBVIOUS

\* A part of one number and the end of its dash.
LEMMA DashWritten ==
    ASSUME NEW part \in Seq(Int), Len(part) = 1, NEW e \in Int
    PROVE  Append(part, e) = <<part[1], e>>
<1> DEFINE q == Append(part, e)
           r == <<part[1], e>>
<1>1. q \in Seq(Int) /\ Len(q) = Len(part) + 1 /\ q[Len(part) + 1] = e
      /\ \A i \in 1 .. Len(part) : q[i] = part[i]
  BY Appended
<1>2. r \in Seq(Int) /\ Len(r) = 2 /\ r[1] = part[1] /\ r[2] = e
  <2>1. part[1] \in Int
    OBVIOUS
  <2> QED
    BY <2>1
<1> HIDE DEF q, r
<1>3. Len(part) + 1 = 2 /\ 1 \in 1 .. Len(part)
  OBVIOUS
<1>4. Len(q) = Len(r) /\ q[1] = r[1] /\ q[2] = r[2] /\ \A i \in 1 .. Len(q) : i = 1 \/ i = 2
  BY <1>1, <1>2, <1>3
<1>5. q = r
  BY <1>1, <1>2, <1>4, SeqEqual
<1> QED
  BY <1>5 DEF q, r

\* Then the first m numbers are parts of their own, the last of them with the end of the run.
LEMMA KeptText ==
    ASSUME NEW a \in Seq(Nat), NEW m \in 1 .. Len(a), NEW f, Writes(f, a),
           \A i \in 1 .. m : ~ Follows(a, i), \A i \in m + 1 .. Len(a) : Follows(a, i)
    PROVE  /\ f[Len(a)] \in Seq(Seq(Int)) /\ Len(f[Len(a)]) = m
           /\ \A k \in 1 .. m - 1 : f[Len(a)][k] = <<a[k]>>
           /\ f[Len(a)][m] = IF m = Len(a) THEN <<a[m]>> ELSE <<a[m], a[Len(a)]>>
<1>1. /\ m \in 0 .. Len(a) /\ m \in Nat /\ Len(a) \in Nat /\ a[Len(a)] \in Int /\ a[m] \in Int
      /\ m \in 1 .. m /\ \A k \in 1 .. m - 1 : k \in 1 .. m
  OBVIOUS
<1>2. f[m] \in Seq(Seq(Int)) /\ Len(f[m]) = m /\ \A k \in 1 .. m : f[m][k] = <<a[k]>>
  BY <1>1, SinglesWritten, SMTT(30)
<1>3. CASE m = Len(a)
  BY <1>1, <1>2, <1>3
<1>4. CASE m # Len(a)
  <2>1. /\ Len(a) - 1 \in m .. Len(a) /\ Len(a) - 1 < Len(a) /\ Len(a) \in 1 .. Len(a)
        /\ Len(a) \in m + 1 .. Len(a)
        /\ \A i \in m + 1 .. Len(a) - 1 : i \in m + 1 .. Len(a)
    BY <1>1, <1>4
  <2>2. f[Len(a) - 1] = f[m]
    <3>1. \A i \in m + 1 .. Len(a) - 1 : Follows(a, i)
      BY <2>1
    <3> QED
      BY <1>1, <2>1, <3>1, RunAddsNothing, SMTT(30)
  <2>3. f[Len(a)] = Joined(f[m], a[Len(a)])
    BY <1>1, <2>1, <2>2, StepWrites, SMTT(30)
  <2>4. f[m] # <<>>
    BY <1>1, <1>2
  <2> DEFINE p == f[Len(a)]
             q == f[m]
             e == a[Len(a)]
  <2>5. p = Joined(q, e) /\ q \in Seq(Seq(Int)) /\ q # <<>> /\ e \in Int /\ Len(q) = m
        /\ \A k \in 1 .. m : q[k] = <<a[k]>>
    BY <1>1, <1>2, <2>3, <2>4
  <2> HIDE DEF p, q, e
  <2>6. /\ p \in Seq(Seq(Int)) /\ Len(p) = m
        /\ \A k \in 1 .. m - 1 : p[k] = q[k]
        /\ p[m] = Append(q[m], e)
    BY <2>5, JoinedTo
  <2>7. p[m] = <<a[m], e>>
    <3>1. q[m] = <<a[m]>>
      BY <1>1, <2>5
    <3>2. q[m] \in Seq(Int) /\ Len(q[m]) = 1 /\ q[m][1] = a[m]
      BY <1>1, <3>1
    <3>3. Append(q[m], e) = <<q[m][1], e>>
      BY <2>5, <3>2, DashWritten
    <3> QED
      BY <2>6, <3>2, <3>3
  <2>8. \A k \in 1 .. m - 1 : p[k] = <<a[k]>>
    BY <1>1, <2>5, <2>6
  <2> QED
    BY <1>4, <2>6, <2>7, <2>8 DEF p, e
<1> QED
  BY <1>3, <1>4

LEMMA OneMore ==
    ASSUME NEW s \in Seq(Nat), NEW x \in Nat
    PROVE  /\ s \o <<x>> \in Seq(Nat) /\ Len(s \o <<x>>) = Len(s) + 1
           /\ \A t \in 1 .. Len(s) : (s \o <<x>>)[t] = s[t]
           /\ (s \o <<x>>)[Len(s) + 1] = x
<1> DEFINE r == <<x>>
<1>1. r \in Seq(Nat) /\ Len(r) = 1 /\ r[1] = x
  OBVIOUS
<1> HIDE DEF r
<1>2. /\ s \o r \in Seq(Nat) /\ Len(s \o r) = Len(s) + 1
      /\ \A t \in 1 .. Len(s) + 1 : (s \o r)[t] = IF t <= Len(s) THEN s[t] ELSE r[t - Len(s)]
  <2>1. /\ s \o r \in Seq(Nat) /\ Len(s \o r) = Len(s) + Len(r)
        /\ \A t \in 1 .. Len(s) + Len(r) :
              (s \o r)[t] = IF t <= Len(s) THEN s[t] ELSE r[t - Len(s)]
    BY <1>1, ConcatProperties
  <2> QED
    BY <1>1, <2>1
<1>3. /\ \A t \in 1 .. Len(s) : t \in 1 .. Len(s) + 1 /\ t <= Len(s)
      /\ Len(s) + 1 \in 1 .. Len(s) + 1 /\ ~ (Len(s) + 1 <= Len(s))
      /\ Len(s) + 1 - Len(s) = 1
  OBVIOUS
<1> QED
  BY <1>1, <1>2, <1>3 DEF r

\* Parts of one number each are read as these numbers.
Copies(g, a, h) ==
    \A k \in 1 .. h : g[k] \in Seq(Nat) /\ Len(g[k]) = k /\ \A t \in 1 .. k : g[k][t] = a[t]

LEMMA SinglesRead ==
    ASSUME NEW a \in Seq(Nat), NEW h \in 0 .. Len(a), NEW p, NEW g,
           \A k \in 1 .. h : p[k] = <<a[k]>>, Reads(g, p, h)
    PROVE  Copies(g, a, h)
<1> DEFINE P(k) == g[k] \in Seq(Nat) /\ Len(g[k]) = k /\ \A t \in 1 .. k : g[k][t] = a[t]
           T == {k \in 0 .. h : k > 0 => P(k)}
<1>0. h \in Nat /\ Len(a) \in Nat /\ \A k \in 1 .. h : k \in 1 .. Len(a) /\ a[k] \in Nat
  OBVIOUS
<1>1. 0 \in T
  BY <1>0
<1>2. \A k \in 1 .. h : Numbers(p[k]) = <<a[k]>>
  <2>1. \A x : Numbers(<<x>>) = <<x>>
    BY DEF Numbers
  <2> QED
    BY <2>1
<1>3. ASSUME NEW k \in 0 .. h - 1, k \in T PROVE k + 1 \in T
  <2>1. k + 1 \in 1 .. h /\ k + 1 \in 0 .. h /\ k \in Nat /\ (k + 1) - 1 = k /\ a[k + 1] \in Nat
    BY <1>0
  <2>2. CASE k = 0
    <3>1. g[1] = <<a[1]>> /\ 1 \in 1 .. h /\ a[1] \in Nat
      BY <1>2, <2>1, <2>2 DEF Reads
    <3>2. P(1)
      BY <3>1
    <3> HIDE DEF P
    <3> QED
      BY <2>1, <2>2, <3>2
  <2>3. CASE k # 0
    <3>1. P(k)
      BY <1>3, <2>1, <2>3
    <3>2. k + 1 \in 2 .. h
      BY <1>0, <2>1, <2>3
    <3>3. g[k + 1] = g[k] \o <<a[k + 1]>>
      BY <1>2, <2>1, <3>2 DEF Reads
    <3>4. P(k + 1)
      <4>1. /\ g[k + 1] \in Seq(Nat) /\ Len(g[k + 1]) = k + 1
            /\ \A t \in 1 .. k : g[k + 1][t] = g[k][t]
            /\ g[k + 1][k + 1] = a[k + 1]
        <5> DEFINE s == g[k]
                   x == a[k + 1]
        <5>1. s \in Seq(Nat) /\ Len(s) = k /\ x \in Nat /\ g[k + 1] = s \o <<x>>
          BY <2>1, <3>1, <3>3
        <5> HIDE DEF s, x
        <5>2. /\ s \o <<x>> \in Seq(Nat) /\ Len(s \o <<x>>) = Len(s) + 1
              /\ \A t \in 1 .. Len(s) : (s \o <<x>>)[t] = s[t]
              /\ (s \o <<x>>)[Len(s) + 1] = x
          BY <5>1, OneMore
        <5> QED
          BY <5>1, <5>2 DEF s, x
      <4>2. \A t \in 1 .. k + 1 : t \in 1 .. k \/ t = k + 1
        BY <2>1
      <4> QED
        BY <3>1, <4>1, <4>2
    <3> HIDE DEF P
    <3> QED
      BY <2>1, <3>4
  <2> QED
    BY <2>2, <2>3
<1>4. \A k \in 0 .. h : k \in T
  <2>1. \A k \in 0 .. h - 1 : k \in T => k + 1 \in T
    BY <1>3
  <2> HIDE DEF T
  <2> QED
    BY <1>0, <1>1, <2>1, Induction
<1> QED
  BY <1>4 DEF Copies

\* The part that stands for the run is read as its numbers.
LEMMA RunRead ==
    ASSUME NEW max \in Nat, NEW a, Listing(a, max), NEW m \in 1 .. Len(a),
           \A i \in m + 1 .. Len(a) : Follows(a, i)
    PROVE  LET part == IF m = Len(a) THEN <<a[m]>> ELSE <<a[m], a[Len(a)]>>
           IN  Numbers(part) = [t \in 1 .. Len(a) - m + 1 |-> a[m + t - 1]]
<1>1. Len(a) \in Nat /\ m \in Nat /\ a[m] \in Int /\ a[Len(a)] \in Int
  BY DEF Listing
<1>2. \A j \in m .. Len(a) : a[j] = a[m] + (j - m)
  <2> SUFFICES ASSUME NEW j \in m .. Len(a) PROVE a[j] = a[m] + (j - m)
    OBVIOUS
  <2>1. \A k \in m + 1 .. j : k \in m + 1 .. Len(a)
    BY <1>1
  <2> QED
    BY <2>1, Ascends
<1>3. CASE m = Len(a)
  <2>1. Numbers(<<a[m]>>) = <<a[m]>>
    BY DEF Numbers
  <2>2. [t \in 1 .. Len(a) - m + 1 |-> a[m + t - 1]] = <<a[m]>>
    <3>1. Len(a) - m + 1 = 1 /\ m + 1 - 1 = m
      BY <1>1, <1>3
    <3> QED
      BY <3>1
  <2> QED
    BY <1>3, <2>1, <2>2
<1>4. CASE m # Len(a)
  <2>1. a[Len(a)] - a[m] + 1 = Len(a) - m + 1
    <3>1. Len(a) \in m .. Len(a)
      BY <1>1
    <3>2. a[Len(a)] = a[m] + (Len(a) - m)
      BY <1>2, <3>1
    <3> QED
      BY <1>1, <3>2
  <2>2. Numbers(<<a[m], a[Len(a)]>>) = [i \in 1 .. Len(a) - m + 1 |-> a[m] + i - 1]
    BY <2>1 DEF Numbers
  <2>3. \A t \in 1 .. Len(a) - m + 1 : a[m] + t - 1 = a[m + t - 1]
    <3> SUFFICES ASSUME NEW t \in 1 .. Len(a) - m + 1 PROVE a[m] + t - 1 = a[m + t - 1]
      OBVIOUS
    <3>1. m + t - 1 \in m .. Len(a) /\ (m + t - 1) - m = t - 1 /\ t \in Int
      BY <1>1
    <3>2. a[m + t - 1] = a[m] + (t - 1)
      BY <1>2, <3>1
    <3> QED
      BY <1>1, <3>1, <3>2
  <2> QED
    BY <1>4, <2>2, <2>3
<1> QED
  BY <1>3, <1>4

\* A head that is the beginning of a list and a tail that is the rest of it.
LEMMA HeadAndTail ==
    ASSUME NEW n \in Nat, NEW m \in 1 .. n, NEW a \in Seq(Nat), Len(a) = n,
           NEW h \in Seq(Nat), Len(h) = m - 1, \A t \in 1 .. m - 1 : h[t] = a[t]
    PROVE  h \o [t \in 1 .. n - m + 1 |-> a[m + t - 1]] = a
<1> DEFINE r == [t \in 1 .. n - m + 1 |-> a[m + t - 1]]
<1>1. n - m + 1 \in Nat /\ m \in Nat
  OBVIOUS
<1>2. r \in Seq(Nat) /\ Len(r) = n - m + 1
  <2>1. \A t \in 1 .. n - m + 1 : a[m + t - 1] \in Nat
    OBVIOUS
  <2>2. r \in [1 .. n - m + 1 -> Nat]
    BY <2>1
  <2> QED
    BY <1>1, <2>2
<1>3. \A t \in 1 .. n - m + 1 : r[t] = a[m + t - 1]
  OBVIOUS
<1> HIDE DEF r
<1>4. /\ h \o r \in Seq(Nat) /\ Len(h \o r) = n
      /\ \A t \in 1 .. n : (h \o r)[t] = IF t <= m - 1 THEN h[t] ELSE r[t - (m - 1)]
  <2>1. /\ h \o r \in Seq(Nat) /\ Len(h \o r) = Len(h) + Len(r)
        /\ \A t \in 1 .. Len(h) + Len(r) :
              (h \o r)[t] = IF t <= Len(h) THEN h[t] ELSE r[t - Len(h)]
    BY <1>2, ConcatProperties
  <2>2. Len(h) + Len(r) = n
    BY <1>1, <1>2
  <2> QED
    BY <2>1, <2>2
<1>5. ASSUME NEW t \in 1 .. n PROVE (h \o r)[t] = a[t]
  <2>1. CASE t <= m - 1
    <3>1. t \in 1 .. m - 1
      BY <1>1, <2>1
    <3> QED
      BY <1>4, <2>1, <3>1
  <2>2. CASE t > m - 1
    <3>1. t - (m - 1) \in 1 .. n - m + 1 /\ m + (t - (m - 1)) - 1 = t
      BY <1>1, <2>2
    <3>2. ~ (t <= m - 1)
      BY <1>1, <2>2
    <3>3. (h \o r)[t] = r[t - (m - 1)]
      BY <1>4, <3>2
    <3> QED
      BY <1>3, <3>1, <3>3
  <2>3. t <= m - 1 \/ t > m - 1
    BY <1>1
  <2> QED
    BY <2>1, <2>2, <2>3
<1>6. h \o r = a
  <2> DEFINE q == h \o r
  <2>1. q \in Seq(Nat) /\ Len(q) = Len(a) /\ \A t \in 1 .. Len(q) : q[t] = a[t]
    BY <1>4, <1>5
  <2> HIDE DEF q
  <2>2. q = a
    BY <2>1, SeqEqual
  <2> QED
    BY <2>2 DEF q
<1> QED
  BY <1>6 DEF r

\* Without a run that another number follows the list is written and read back as it is.
LEMMA KeptParts ==
    ASSUME NEW max \in Nat, NEW a, Listing(a, max), ~ RunBeforeOther(a), NEW f, Writes(f, a)
    PROVE  BuildTimeArray(Parts(f[Len(a)]), max) = a
<1>1. a \in Seq(Nat) /\ Len(a) \in Nat \ {0}
  BY DEF Listing
<1>3. PICK m \in 1 .. Len(a) : /\ \A i \in 1 .. m : ~ Follows(a, i)
                               /\ \A i \in m + 1 .. Len(a) : Follows(a, i)
  BY <1>1, RunStart
<1> DEFINE p == f[Len(a)]
<1>4. /\ p \in Seq(Seq(Int)) /\ Len(p) = m
      /\ \A k \in 1 .. m - 1 : p[k] = <<a[k]>>
      /\ p[m] = IF m = Len(a) THEN <<a[m]>> ELSE <<a[m], a[Len(a)]>>
  BY <1>1, <1>3, KeptText
<1> HIDE DEF p
<1>6. PICK g : BuildTimeArray(Parts(p), max) = g[m] /\ Reads(g, p, m)
  <2>1. p \in Seq(Seq(Int)) /\ Len(p) = m /\ p # <<>>
    BY <1>4
  <2> QED
    BY <2>1, PartsRead
<1> DEFINE rest == [t \in 1 .. Len(a) - m + 1 |-> a[m + t - 1]]
<1>7. Numbers(p[m]) = rest
  <2> DEFINE part == IF m = Len(a) THEN <<a[m]>> ELSE <<a[m], a[Len(a)]>>
  <2>1. Numbers(part) = rest
    BY <1>3, RunRead
  <2>2. p[m] = part
    BY <1>4
  <2> HIDE DEF part, rest
  <2> QED
    BY <2>1, <2>2
<1>8. g[m] = a
  <2>1. CASE m = 1
    <3>1. rest = a
      BY <1>1, <2>1
    <3> HIDE DEF rest
    <3> QED
      BY <1>6, <1>7, <2>1, <3>1 DEF Reads
  <2>2. CASE m # 1
    <3> DEFINE h == g[m - 1]
    <3>1. /\ m - 1 \in 1 .. m - 1 /\ m - 1 \in 0 .. Len(a) /\ m \in 2 .. m
          /\ \A k \in 2 .. m - 1 : k \in 2 .. m
      BY <1>1, <2>2
    <3>2. h \in Seq(Nat) /\ Len(h) = m - 1 /\ \A t \in 1 .. m - 1 : h[t] = a[t]
      <4>1. Reads(g, p, m - 1)
        BY <1>6, <3>1 DEF Reads
      <4>2. \A k \in 1 .. m - 1 : p[k] = <<a[k]>>
        BY <1>4
      <4>3. Copies(g, a, m - 1)
        BY <1>1, <3>1, <4>1, <4>2, SinglesRead
      <4> QED
        BY <3>1, <4>3 DEF Copies
    <3>3. g[m] = h \o rest
      BY <1>4, <1>6, <1>7, <3>1 DEF Reads
    <3> HIDE DEF h
    <3>4. h \o rest = a
      BY <1>1, <3>2, HeadAndTail
    <3> HIDE DEF rest
    <3> QED
      BY <3>3, <3>4
  <2> QED
    BY <2>1, <2>2
<1> QED
  BY <1>6, <1>8 DEF p

LEMMA KeptList ==
    ASSUME NEW max \in Nat, NEW a, Listing(a, max), Len(a) # max, ~ RunBeforeOther(a)
    PROVE  Resaved(a, max) = a
<1>1. Len(a) \in Nat
  BY DEF Listing
<1>2. PICK f : Writes(f, a) /\ BuildScheduleString(a, max) = Parts(f[Len(a)])
  BY <1>1, TextWritten
<1> QED
  BY <1>2, KeptParts DEF Resaved
-----------------------------------------------------------------------------
(* A list with a run that another number follows                            *)

\* The first run of the list begins at h and ends before k.
FirstRun(a, h, k) ==
    /\ h \in 1 .. Len(a) /\ k \in h + 2 .. Len(a)
    /\ \A i \in 1 .. h : ~ Follows(a, i)
    /\ \A i \in h + 1 .. k - 1 : Follows(a, i)
    /\ ~ Follows(a, k)

LEMMA FirstRunExists ==
    ASSUME NEW a \in Seq(Nat), RunBeforeOther(a)
    PROVE  \E h, k : FirstRun(a, h, k)
<1> DEFINE R == {i \in 1 .. Len(a) : Follows(a, i)}
<1>1. PICK i \in 1 .. Len(a), j \in 1 .. Len(a) : i < j /\ Follows(a, i) /\ ~ Follows(a, j)
  <2>1. DOMAIN a = 1 .. Len(a)
    OBVIOUS
  <2> QED
    BY <2>1 DEF RunBeforeOther
<1>2. PICK m \in R : \A y \in R : m <= y
  <2>1. R \subseteq Nat /\ R # {}
    BY <1>1
  <2> HIDE DEF R
  <2> QED
    BY <2>1, Least
<1>3. m \in 1 .. Len(a) /\ Follows(a, m) /\ m <= i /\ m # 1
  BY <1>1, <1>2 DEF Follows
<1> DEFINE E == {x \in m + 1 .. Len(a) : ~ Follows(a, x)}
<1>4. PICK k \in E : \A y \in E : k <= y
  <2>1. E \subseteq Nat /\ j \in E
    BY <1>1, <1>3
  <2> HIDE DEF E
  <2> QED
    BY <2>1, Least
<1>5. k \in m + 1 .. Len(a) /\ ~ Follows(a, k)
  BY <1>4
<1>6. \A x \in 1 .. m - 1 : ~ Follows(a, x)
  BY <1>2, <1>3
<1>7. \A x \in m .. k - 1 : Follows(a, x)
  <2> SUFFICES ASSUME NEW x \in m .. k - 1 PROVE Follows(a, x)
    OBVIOUS
  <2>1. x = m \/ (x \in m + 1 .. Len(a) /\ ~ (k <= x))
    BY <1>3, <1>5
  <2> QED
    BY <1>3, <1>4, <2>1
<1>8. PICK h \in 1 .. Len(a) : m = h + 1
  <2>1. m - 1 \in 1 .. Len(a) /\ m = (m - 1) + 1
    BY <1>3
  <2> QED
    BY <2>1
<1>9. k \in h + 2 .. Len(a) /\ \A x \in 1 .. h : x \in 1 .. m - 1
  BY <1>5, <1>8
<1> QED
  BY <1>5, <1>6, <1>7, <1>8, <1>9 DEF FirstRun

\* The run and the number after it become one part, a range that ends with that number.
LEMMA RunText ==
    ASSUME NEW a \in Seq(Nat), NEW h, NEW k, FirstRun(a, h, k), NEW f, Writes(f, a)
    PROVE  /\ f[k] \in Seq(Seq(Int)) /\ Len(f[k]) = h
           /\ \A t \in 1 .. h - 1 : f[k][t] = <<a[t]>>
           /\ f[k][h] = <<a[h], a[k]>>
<1>1. h \in 1 .. Len(a) /\ k \in h + 2 .. Len(a)
  BY DEF FirstRun
<1>2. /\ \A i \in 1 .. h : ~ Follows(a, i)
      /\ \A i \in h + 1 .. k - 1 : Follows(a, i)
      /\ ~ Follows(a, k) /\ Follows(a, k - 1)
  <2>1. k - 1 \in h + 1 .. k - 1
    BY <1>1
  <2> QED
    BY <2>1 DEF FirstRun
<1>3. f[h] \in Seq(Seq(Int)) /\ Len(f[h]) = h /\ \A t \in 1 .. h : f[h][t] = <<a[t]>>
  <2>1. h \in 0 .. Len(a)
    BY <1>1
  <2> QED
    BY <1>2, <2>1, SinglesWritten
<1>4. f[k - 1] = f[h]
  <2>1. h \in 0 .. Len(a) /\ k - 1 \in h .. Len(a) /\ k - 1 < Len(a)
    BY <1>1
  <2> QED
    BY <1>2, <2>1, RunAddsNothing
<1>5. f[k] = Joined(f[h], a[k])
  <2>1. k \in 1 .. Len(a) /\ Len(a) \in Nat
    BY <1>1
  <2> QED
    BY <1>2, <1>4, <2>1, StepWrites
<1>6. a[k] \in Int /\ a[h] \in Int /\ h \in Nat \ {0}
  BY <1>1
<1> DEFINE q == f[h]
           e == a[k]
           p == f[k]
<1>7. p = Joined(q, e) /\ q \in Seq(Seq(Int)) /\ Len(q) = h /\ e \in Int
      /\ \A t \in 1 .. h : q[t] = <<a[t]>>
  BY <1>3, <1>5, <1>6
<1> HIDE DEF p, q, e
<1>8. q # <<>>
  BY <1>6, <1>7
<1>9. /\ p \in Seq(Seq(Int)) /\ Len(p) = Len(q)
      /\ \A t \in 1 .. Len(q) - 1 : p[t] = q[t]
      /\ p[Len(q)] = Append(q[Len(q)], e)
  BY <1>7, <1>8, JoinedTo
<1>10. p[h] = <<a[h], e>>
  <2>1. q[h] = <<a[h]>>
    BY <1>6, <1>7
  <2>2. q[h] \in Seq(Int) /\ Len(q[h]) = 1 /\ q[h][1] = a[h]
    BY <1>6, <2>1
  <2>3. Append(q[h], e) = <<q[h][1], e>>
    BY <1>7, <2>2, DashWritten
  <2> QED
    BY <1>7, <1>9, <2>2, <2>3
<1>11. \A t \in 1 .. h - 1 : p[t] = <<a[t]>>
  BY <1>6, <1>7, <1>9
<1> QED
  BY <1>7, <1>9, <1>10, <1>11 DEF p, e

\* What the text says of such a list from then on.
LostText(q, a, h, k) ==
    /\ q \in Seq(Seq(Int)) /\ Len(q) >= h
    /\ \A t \in 1 .. h - 1 : q[t] = <<a[t]>>
    /\ q[h] = <<a[h], a[k]>> \/ (Len(q[h]) > 2 /\ q[h][1] = a[h])
    /\ \A t \in h + 1 .. Len(q) : q[t] # <<>> /\ q[t][1] >= a[k]

LEMMA LostAppend ==
    ASSUME NEW a, NEW h \in Nat \ {0}, NEW k, NEW q, LostText(q, a, h, k),
           NEW e \in Int, e >= a[k]
    PROVE  LostText(Append(q, <<e>>), a, h, k)
<1> DEFINE part == <<e>>
           r == Append(q, part)
<1>1. q \in Seq(Seq(Int)) /\ Len(q) \in Nat /\ Len(q) >= h
  BY DEF LostText
<1>2. part \in Seq(Int) /\ part # <<>> /\ part[1] = e
  OBVIOUS
<1> HIDE DEF part
<1>3. /\ r \in Seq(Seq(Int)) /\ Len(r) = Len(q) + 1 /\ r[Len(q) + 1] = part
      /\ \A t \in 1 .. Len(q) : r[t] = q[t]
  BY <1>1, <1>2, AppendProperties
<1> HIDE DEF r
<1>4. \A t \in 1 .. h : t \in 1 .. Len(q)
  BY <1>1
<1>5. \A t \in h + 1 .. Len(r) : t = Len(q) + 1 \/ (t \in h + 1 .. Len(q) /\ t \in 1 .. Len(q))
  <2>1. Len(r) = Len(q) + 1 /\ Len(q) \in Nat
    BY <1>1, <1>3
  <2> QED
    BY <2>1
<1>6. \A t \in h + 1 .. Len(r) : r[t] # <<>> /\ r[t][1] >= a[k]
  BY <1>2, <1>3, <1>5 DEF LostText
<1>7. \A t \in 1 .. h - 1 : r[t] = <<a[t]>>
  <2>1. \A t \in 1 .. h - 1 : t \in 1 .. Len(q)
    BY <1>4
  <2> QED
    BY <1>3, <2>1 DEF LostText
<1>8. r[h] = q[h]
  <2>1. h \in 1 .. Len(q)
    BY <1>4
  <2> QED
    BY <1>3, <2>1
<1>9. q[h] = <<a[h], a[k]>> \/ (Len(q[h]) > 2 /\ q[h][1] = a[h])
  BY DEF LostText
<1>10. Len(r) >= h
  BY <1>1, <1>3
<1>11. LostText(r, a, h, k)
  BY <1>3, <1>6, <1>7, <1>8, <1>9, <1>10 DEF LostText
<1> QED
  BY <1>11 DEF r, part

LEMMA LostJoined ==
    ASSUME NEW a, NEW h \in Nat \ {0}, NEW k, NEW q, LostText(q, a, h, k), NEW e \in Int
    PROVE  LostText(Joined(q, e), a, h, k)
<1> DEFINE r == Joined(q, e)
<1>1. q \in Seq(Seq(Int)) /\ Len(q) \in Nat /\ Len(q) >= h /\ q # <<>>
  BY DEF LostText
<1>2. /\ r \in Seq(Seq(Int)) /\ Len(r) = Len(q)
      /\ \A t \in 1 .. Len(q) - 1 : r[t] = q[t]
      /\ r[Len(q)] = Append(q[Len(q)], e)
  BY <1>1, JoinedTo
<1> HIDE DEF r
<1>3. Len(q) \in 1 .. Len(q) /\ q[Len(q)] \in Seq(Int) /\ Len(q[Len(q)]) \in Nat
  BY <1>1
<1> DEFINE last == q[Len(q)]
           new == r[Len(q)]
<1>4. /\ new \in Seq(Int) /\ Len(new) = Len(last) + 1
      /\ \A i \in 1 .. Len(last) : new[i] = last[i]
  BY <1>2, <1>3, Appended
<1>5. /\ q[h] = <<a[h], a[k]>> \/ (Len(q[h]) > 2 /\ q[h][1] = a[h])
      /\ \A t \in h + 1 .. Len(q) : q[t] # <<>> /\ q[t][1] >= a[k]
      /\ \A t \in 1 .. h - 1 : q[t] = <<a[t]>>
  BY DEF LostText
<1>6. Len(q[h]) >= 2 /\ q[h][1] = a[h]
  <2>1. CASE q[h] = <<a[h], a[k]>>
    <3>1. Len(<<a[h], a[k]>>) = 2 /\ <<a[h], a[k]>>[1] = a[h]
      OBVIOUS
    <3> QED
      BY <2>1, <3>1
  <2>2. CASE Len(q[h]) > 2 /\ q[h][1] = a[h]
    <3>1. h \in 1 .. Len(q)
      BY <1>1
    <3>2. Len(q[h]) \in Nat
      BY <1>1, <3>1
    <3> QED
      BY <2>2, <3>2
  <2> QED
    BY <1>5, <2>1, <2>2
<1>7. CASE Len(q) = h
  <2>1. Len(new) > 2 /\ new[1] = a[h]
    <3>1. Len(last) >= 2 /\ last[1] = a[h] /\ Len(last) \in Nat
      BY <1>3, <1>6, <1>7
    <3>2. 1 \in 1 .. Len(last)
      BY <3>1
    <3> HIDE DEF new, last
    <3> QED
      BY <1>4, <3>1, <3>2
  <2>2. \A t \in 1 .. h - 1 : r[t] = <<a[t]>>
    BY <1>2, <1>5, <1>7
  <2>3. \A t \in h + 1 .. Len(r) : FALSE
    BY <1>2, <1>7
  <2>4. Len(r[h]) > 2 /\ r[h][1] = a[h]
    BY <1>7, <2>1
  <2>5. Len(r) >= h
    BY <1>1, <1>2
  <2> QED
    BY <1>2, <2>2, <2>3, <2>4, <2>5 DEF LostText, r
<1>8. CASE Len(q) # h
  <2>1. \A t \in 1 .. h : t \in 1 .. Len(q) - 1
    BY <1>1, <1>8
  <2>2. Len(q) \in h + 1 .. Len(q) /\ \A t \in h + 1 .. Len(q) : t = Len(q) \/ t \in 1 .. Len(q) - 1
    BY <1>1, <1>8
  <2>3. new # <<>> /\ new[1] >= a[k]
    <3>1. last # <<>> /\ last[1] >= a[k]
      BY <1>5, <2>2
    <3>2. 1 \in 1 .. Len(last)
      BY <1>3, <3>1
    <3> HIDE DEF last, new
    <3> QED
      BY <1>4, <3>1, <3>2
  <2>4. \A t \in h + 1 .. Len(r) : r[t] # <<>> /\ r[t][1] >= a[k]
    BY <1>2, <1>5, <2>2, <2>3
  <2>5. \A t \in 1 .. h - 1 : r[t] = <<a[t]>>
    <3>1. \A t \in 1 .. h - 1 : t \in 1 .. h
      OBVIOUS
    <3> QED
      BY <1>2, <1>5, <2>1, <3>1
  <2>6. r[h] = q[h]
    <3>1. h \in 1 .. h
      OBVIOUS
    <3> QED
      BY <1>2, <2>1, <3>1
  <2>7. Len(r) >= h
    BY <1>1, <1>2
  <2> QED
    BY <1>2, <1>5, <2>4, <2>5, <2>6, <2>7 DEF LostText, r
<1> QED
  BY <1>7, <1>8

\* The text of a list with a run that another number follows.
LEMMA LostWritten ==
    ASSUME NEW max \in Nat, NEW a, Listing(a, max), NEW h, NEW k, FirstRun(a, h, k),
           NEW f, Writes(f, a)
    PROVE  LostText(f[Len(a)], a, h, k)
<1>1. /\ a \in Seq(Nat) /\ Len(a) \in Nat /\ h \in Nat \ {0} /\ k \in 1 .. Len(a) /\ k \in Nat
      /\ a[k] \in Int
  BY DEF Listing, FirstRun
<1>2. LostText(f[k], a, h, k)
  <2>1. /\ f[k] \in Seq(Seq(Int)) /\ Len(f[k]) = h
        /\ \A t \in 1 .. h - 1 : f[k][t] = <<a[t]>>
        /\ f[k][h] = <<a[h], a[k]>>
    BY <1>1, RunText, SMTT(30)
  <2>2. Len(f[k]) >= h /\ \A t \in h + 1 .. Len(f[k]) : FALSE
    BY <1>1, <2>1
  <2> QED
    BY <2>1, <2>2 DEF LostText
<1>3. ASSUME NEW i \in k + 1 .. Len(a), LostText(f[i - 1], a, h, k)
      PROVE  LostText(f[i], a, h, k)
  <2>1. i \in 1 .. Len(a) /\ i \in k .. Len(a) /\ i - k >= 0 /\ a[i] \in Int
    BY <1>1
  <2>2. a[i] >= a[k]
    <3>1. a[i] - a[k] >= i - k
      BY <1>1, <2>1, Ascends
    <3> QED
      BY <1>1, <2>1, <3>1
  <2>3. i < Len(a) \/ i = Len(a)
    BY <1>1
  <2>4. \/ f[i] = f[i - 1]
        \/ f[i] = Append(f[i - 1], <<a[i]>>)
        \/ f[i] = Joined(f[i - 1], a[i])
    BY <1>1, <2>1, <2>3, StepWrites, SMTT(30)
  <2> QED
    BY <1>1, <1>3, <2>1, <2>2, <2>4, LostAppend, LostJoined
<1> DEFINE T == {d \in 0 .. Len(a) - k : LostText(f[k + d], a, h, k)}
<1>4. 0 \in T
  BY <1>1, <1>2
<1>5. ASSUME NEW d \in 0 .. (Len(a) - k) - 1, d \in T PROVE d + 1 \in T
  <2>1. k + d + 1 \in k + 1 .. Len(a) /\ (k + d + 1) - 1 = k + d /\ k + (d + 1) = k + d + 1
        /\ d + 1 \in 0 .. Len(a) - k
    BY <1>1
  <2>2. LostText(f[(k + d + 1) - 1], a, h, k)
    BY <1>5, <2>1
  <2>3. LostText(f[k + d + 1], a, h, k)
    BY <1>3, <2>1, <2>2
  <2> QED
    BY <2>1, <2>3
<1>6. Len(a) - k \in T
  <2>1. \A d \in 0 .. (Len(a) - k) - 1 : d \in T => d + 1 \in T
    BY <1>5
  <2>2. Len(a) - k \in Nat /\ Len(a) - k \in 0 .. Len(a) - k
    BY <1>1
  <2> HIDE DEF T
  <2>3. \A d \in 0 .. Len(a) - k : d \in T
    BY <1>4, <2>1, <2>2, Induction
  <2> QED
    BY <2>2, <2>3
<1>7. k + (Len(a) - k) = Len(a)
  BY <1>1
<1> QED
  BY <1>6, <1>7

\* What comes after a first list.
Continues(g, first, low) ==
    /\ g \in Seq(Int) /\ Len(g) >= Len(first)
    /\ \A x \in 1 .. Len(first) : g[x] = first[x]
    /\ \A x \in Len(first) + 1 .. Len(g) : g[x] >= low

LEMMA AllAbove ==
    ASSUME NEW s \in Seq(Int), NEW e \in Int, NEW low \in Int, e >= low,
           \A x \in DOMAIN s : s[x] >= e
    PROVE  \A x \in 1 .. Len(s) : s[x] >= low
<1>1. \A x \in 1 .. Len(s) : x \in DOMAIN s /\ s[x] \in Int
  OBVIOUS
<1> QED
  BY <1>1

\* Parts that begin with at least that number add no smaller one.
LEMMA RestRead ==
    ASSUME NEW p \in Seq(Seq(Int)), NEW h \in 1 .. Len(p), NEW low \in Int,
           NEW g, Reads(g, p, Len(p)), g[h] \in Seq(Int),
           \A t \in h + 1 .. Len(p) : p[t] # <<>> /\ p[t][1] >= low
    PROVE  Continues(g[Len(p)], g[h], low)
<1> DEFINE first == g[h]
<1>1. Len(p) \in Nat /\ h \in Nat \ {0} /\ first \in Seq(Int) /\ Len(first) \in Nat
  OBVIOUS
<1>2. Continues(g[h], first, low)
  BY <1>1 DEF Continues
<1>3. ASSUME NEW t \in h + 1 .. Len(p), Continues(g[t - 1], first, low)
      PROVE  Continues(g[t], first, low)
  <2> DEFINE s == g[t - 1]
             r == Numbers(p[t])
  <2>1. t \in 2 .. Len(p) /\ t \in 1 .. Len(p)
    BY <1>1
  <2>2. g[t] = s \o r
    BY <2>1 DEF Reads
  <2>3. p[t] \in Seq(Int) /\ p[t] # <<>> /\ p[t][1] \in Int
    BY <2>1
  <2>4. r \in Seq(Int) /\ \A x \in DOMAIN r : r[x] >= p[t][1]
    BY <2>3, NumbersType
  <2>5. \A x \in 1 .. Len(r) : r[x] >= low
    <3>1. p[t][1] >= low
      OBVIOUS
    <3> DEFINE e == p[t][1]
    <3>2. e \in Int /\ e >= low /\ \A x \in DOMAIN r : r[x] >= e
      BY <2>3, <2>4, <3>1
    <3> HIDE DEF r, e
    <3> QED
      BY <2>4, <3>2, AllAbove
  <2>6. s \in Seq(Int) /\ Len(s) \in Nat /\ Len(r) \in Nat
    BY <1>3, <2>4, SMTT(30) DEF Continues
  <2> HIDE DEF s, r
  <2>7. /\ s \o r \in Seq(Int) /\ Len(s \o r) = Len(s) + Len(r)
        /\ \A x \in 1 .. Len(s) + Len(r) :
              (s \o r)[x] = IF x <= Len(s) THEN s[x] ELSE r[x - Len(s)]
    BY <2>4, <2>6, ConcatProperties
  <2>8. Continues(s, first, low)
    BY <1>3 DEF s
  <2> DEFINE n == Len(first)
             q == s \o r
  <2>9. n = Len(first) /\ n \in Nat /\ Len(s) >= n
    BY <1>1, <2>8 DEF Continues
  <2> HIDE DEF n, first
  <2>10. Len(q) >= n
    BY <2>6, <2>7, <2>9
  <2> HIDE DEF q
  <2>11. ASSUME NEW x \in 1 .. n PROVE q[x] = first[x]
    <3>1. x \in 1 .. Len(s) + Len(r) /\ x <= Len(s)
      BY <2>6, <2>9, SMTT(30)
    <3>2. x \in 1 .. Len(first)
      BY <2>9
    <3> QED
      BY <2>7, <2>8, <3>1, <3>2 DEF Continues, q
  <2>12. ASSUME NEW x \in n + 1 .. Len(q) PROVE q[x] >= low
    <3>1. x \in 1 .. Len(s) + Len(r) /\ x \in Int
      BY <2>6, <2>7, <2>9 DEF q
    <3>2. CASE x <= Len(s)
      <4>1. x \in Len(first) + 1 .. Len(s)
        BY <2>6, <2>9, <3>1, <3>2
      <4> QED
        BY <2>7, <2>8, <3>1, <3>2, <4>1 DEF Continues, q
    <3>3. CASE ~ (x <= Len(s))
      <4>1. x - Len(s) \in 1 .. Len(r)
        BY <2>6, <3>1, <3>3
      <4>2. q[x] = r[x - Len(s)]
        BY <2>7, <3>1, <3>3 DEF q
      <4> QED
        BY <2>5, <4>1, <4>2
    <3> QED
      BY <3>2, <3>3
  <2>13. Continues(q, first, low)
    BY <2>7, <2>9, <2>10, <2>11, <2>12 DEF Continues, q
  <2> QED
    BY <2>2, <2>13 DEF q
<1> DEFINE T == {d \in 0 .. Len(p) - h : Continues(g[h + d], first, low)}
<1> HIDE DEF first
<1>4. 0 \in T
  BY <1>1, <1>2
<1>5. ASSUME NEW d \in 0 .. (Len(p) - h) - 1, d \in T PROVE d + 1 \in T
  <2>1. h + d + 1 \in h + 1 .. Len(p) /\ (h + d + 1) - 1 = h + d /\ h + (d + 1) = h + d + 1
        /\ d + 1 \in 0 .. Len(p) - h
    BY <1>1
  <2>2. Continues(g[(h + d + 1) - 1], first, low)
    BY <1>5, <2>1
  <2>3. Continues(g[h + d + 1], first, low)
    BY <1>3, <2>1, <2>2
  <2> QED
    BY <2>1, <2>3
<1>6. Len(p) - h \in T
  <2>1. \A d \in 0 .. (Len(p) - h) - 1 : d \in T => d + 1 \in T
    BY <1>5
  <2>2. Len(p) - h \in Nat /\ Len(p) - h \in 0 .. Len(p) - h
    BY <1>1
  <2> HIDE DEF T
  <2>3. \A d \in 0 .. Len(p) - h : d \in T
    BY <1>4, <2>1, <2>2, Induction
  <2> QED
    BY <2>2, <2>3
<1>7. h + (Len(p) - h) = Len(p)
  BY <1>1
<1> QED
  BY <1>6, <1>7 DEF first

\* What is read up to the part of the first run: the numbers before it and its own.
EndsIn(s, h, r) == /\ s \in Seq(Int) /\ Len(s) = (h - 1) + Len(r)
                   /\ \A x \in 1 .. Len(r) : s[(h - 1) + x] = r[x]

LEMMA FirstRead ==
    ASSUME NEW a \in Seq(Nat), NEW h \in 1 .. Len(a), NEW p \in Seq(Seq(Int)), h \in 1 .. Len(p),
           NEW g, Reads(g, p, Len(p)), \A t \in 1 .. h - 1 : p[t] = <<a[t]>>,
           Numbers(p[h]) \in Seq(Int)
    PROVE  EndsIn(g[h], h, Numbers(p[h]))
<1> DEFINE r == Numbers(p[h])
<1>1. h \in Nat \ {0} /\ r \in Seq(Int) /\ Len(r) \in Nat /\ Len(p) \in Nat
  OBVIOUS
<1>2. CASE h = 1
  <2>1. g[h] = r
    BY <1>2 DEF Reads
  <2> HIDE DEF r
  <2>2. h - 1 = 0 /\ \A x \in 1 .. Len(r) : 0 + x = x
    BY <1>1, <1>2
  <2> QED
    BY <1>1, <2>1, <2>2 DEF r, EndsIn
<1>3. CASE h # 1
  <2> DEFINE s == g[h - 1]
  <2>1. /\ h \in 2 .. Len(p) /\ h - 1 \in 0 .. Len(a) /\ h - 1 \in 1 .. h - 1
        /\ \A t \in 2 .. h - 1 : t \in 2 .. Len(p)
    BY <1>1, <1>3
  <2>2. Reads(g, p, h - 1)
    BY <2>1 DEF Reads
  <2>3. \A t \in 1 .. h - 1 : g[t] \in Seq(Nat) /\ Len(g[t]) = t
                             /\ \A x \in 1 .. t : g[t][x] = a[x]
    <3> DEFINE l == h - 1
    <3>1. l \in 0 .. Len(a) /\ Reads(g, p, l) /\ \A t \in 1 .. l : p[t] = <<a[t]>>
      BY <2>1, <2>2
    <3> HIDE DEF l
    <3>2. Copies(g, a, l)
      BY <3>1, SinglesRead
    <3> QED
      BY <3>2 DEF l, Copies
  <2>4. s \in Seq(Nat) /\ Len(s) = h - 1
    BY <2>1, <2>3
  <2>5. s \in Seq(Int)
    BY <2>4
  <2>6. g[h] = s \o r
    BY <2>1 DEF Reads
  <2> HIDE DEF s, r
  <2>7. /\ s \o r \in Seq(Int) /\ Len(s \o r) = Len(s) + Len(r)
        /\ \A x \in 1 .. Len(s) + Len(r) :
              (s \o r)[x] = IF x <= Len(s) THEN s[x] ELSE r[x - Len(s)]
    BY <1>1, <2>5, ConcatProperties
  <2>8. ASSUME NEW x \in 1 .. Len(r) PROVE (s \o r)[(h - 1) + x] = r[x]
    <3>1. /\ (h - 1) + x \in 1 .. Len(s) + Len(r) /\ ~ ((h - 1) + x <= Len(s))
          /\ ((h - 1) + x) - Len(s) = x
      BY <1>1, <2>4
    <3> QED
      BY <2>7, <3>1
  <2> QED
    BY <2>4, <2>6, <2>7, <2>8 DEF r, EndsIn
<1> QED
  BY <1>2, <1>3

\* A list with a run that another number follows is not read back as it is: either the end of
\* the range adds numbers that were not there, or the rest of the run is lost.
LEMMA LostParts ==
    ASSUME NEW max \in Nat, NEW a, Listing(a, max), NEW h, NEW k, FirstRun(a, h, k),
           NEW f, Writes(f, a)
    PROVE  BuildTimeArray(Parts(f[Len(a)]), max) # a
<1> DEFINE p == f[Len(a)]
<1>1. /\ a \in Seq(Nat) /\ Len(a) \in Nat /\ h \in 1 .. Len(a) /\ h \in Nat \ {0}
      /\ k \in h + 2 .. Len(a) /\ k \in Nat /\ k \in 1 .. Len(a)
      /\ a[h] \in Nat /\ a[k] \in Nat
  BY DEF Listing, FirstRun
<1>2. LostText(p, a, h, k)
  BY LostWritten
<1> HIDE DEF p
<1>3. p \in Seq(Seq(Int)) /\ Len(p) \in Nat /\ h \in 1 .. Len(p) /\ p # <<>> /\ p[h] \in Seq(Int)
  BY <1>1, <1>2 DEF LostText
<1>4. PICK g : BuildTimeArray(Parts(p), max) = g[Len(p)] /\ Reads(g, p, Len(p))
  BY <1>3, PartsRead
<1> DEFINE r == Numbers(p[h])
<1>5. p[h] # <<>> /\ p[h][1] = a[h]
  <2>1. CASE p[h] = <<a[h], a[k]>>
    BY <2>1
  <2>2. CASE Len(p[h]) > 2 /\ p[h][1] = a[h]
    BY <1>3, <2>2
  <2> QED
    BY <1>2, <2>1, <2>2 DEF LostText
<1>6. r \in Seq(Int) /\ (Len(p[h]) # 2 => r = <<p[h][1]>>)
  BY <1>3, <1>5, NumbersType
<1>7. EndsIn(g[h], h, r)
  <2>1. \A t \in 1 .. h - 1 : p[t] = <<a[t]>>
    BY <1>2 DEF LostText
  <2> QED
    BY <1>1, <1>3, <1>4, <1>6, <2>1, FirstRead
<1>8. Continues(g[Len(p)], g[h], a[k])
  <2>1. \A t \in h + 1 .. Len(p) : p[t] # <<>> /\ p[t][1] >= a[k]
    BY <1>2 DEF LostText
  <2>2. a[k] \in Int
    BY <1>1
  <2> QED
    BY <1>3, <1>4, <1>7, <2>1, <2>2, RestRead DEF EndsIn
<1> DEFINE q == g[Len(p)]
           first == g[h]
<1>9. Continues(q, first, a[k]) /\ first \in Seq(Int)
  BY <1>7, <1>8 DEF EndsIn
<1>10. CASE p[h] = <<a[h], a[k]>>
  <2> DEFINE y == (k - h) + 1
  <2>1. a[k - 1] = a[h] + ((k - 1) - h) /\ a[k] > a[k - 1] /\ a[k] # a[k - 1] + 1 /\ a[k - 1] \in Nat
    <3>1. k - 1 \in h .. Len(a) /\ k - 1 \in 1 .. Len(a) /\ k > 1 /\ k - 1 < k
      BY <1>1
    <3>2. \A i \in h + 1 .. k - 1 : Follows(a, i)
      BY DEF FirstRun
    <3>3. a[k - 1] = a[h] + ((k - 1) - h)
      BY <1>1, <3>1, <3>2, Ascends
    <3>4. a[k] > a[k - 1] /\ a[k - 1] \in Nat
      <4>1. DOMAIN a = 1 .. Len(a)
        BY <1>1
      <4>2. a[k - 1] < a[k]
        BY <1>1, <3>1, <4>1 DEF Listing
      <4> QED
        BY <1>1, <3>1, <4>2
    <3>5. a[k] # a[k - 1] + 1
      BY <3>1 DEF FirstRun, Follows
    <3> QED
      BY <3>3, <3>4, <3>5
  <2>2. r = [i \in 1 .. a[k] - a[h] + 1 |-> a[h] + i - 1]
    <3>1. Len(<<a[h], a[k]>>) = 2 /\ <<a[h], a[k]>>[1] = a[h] /\ <<a[h], a[k]>>[2] = a[k]
      OBVIOUS
    <3> QED
      BY <1>10, <3>1 DEF Numbers
  <2>3. a[k] - a[h] + 1 \in Nat /\ y \in 1 .. a[k] - a[h] + 1 /\ a[h] + y - 1 = a[k - 1] + 1
    <3> DEFINE from == a[h]
               to == a[k]
               end == a[k - 1]
    <3>1. from \in Nat /\ to \in Nat /\ end \in Nat /\ end = from + ((k - 1) - h) /\ to > end
          /\ to # end + 1
      BY <1>1, <2>1
    <3>2. h \in Nat /\ k \in Nat /\ k >= h + 2
      BY <1>1
    <3> HIDE DEF from, to, end
    <3>3. to - from + 1 \in Nat /\ y \in 1 .. to - from + 1 /\ from + y - 1 = end + 1
      BY <3>1, <3>2
    <3> QED
      BY <3>3 DEF from, to, end
  <2>4. Len(r) = a[k] - a[h] + 1 /\ r[y] = a[k - 1] + 1
    BY <2>2, <2>3
  <2>5. (h - 1) + y = k
    BY <1>1
  <2> HIDE DEF r, y, q, first
  <2>6. y \in 1 .. Len(r) /\ first[(h - 1) + y] = r[y] /\ Len(first) = (h - 1) + Len(r)
    BY <1>7, <2>3, <2>4 DEF first, EndsIn
  <2>7. first[k] = a[k - 1] + 1
    BY <2>4, <2>5, <2>6
  <2>8. k \in 1 .. Len(first)
    BY <1>1, <2>3, <2>4, <2>5, <2>6
  <2>9. q[k] # a[k]
    BY <1>9, <2>1, <2>7, <2>8 DEF Continues
  <2> QED
    BY <1>4, <2>9 DEF p, q
<1>11. CASE Len(p[h]) > 2 /\ p[h][1] = a[h]
  <2>1. r = <<a[h]>>
    <3>1. \A l \in Nat : l > 2 => l # 2
      OBVIOUS
    <3>2. Len(p[h]) \in Nat
      BY <1>3
    <3>3. Len(p[h]) # 2
      BY <1>11, <3>1, <3>2, Zenon
    <3> QED
      BY <1>5, <1>6, <3>3
  <2>2. Len(first) = h
    <3>1. Len(<<a[h]>>) = 1
      OBVIOUS
    <3> QED
      BY <1>1, <1>7, <2>1, <3>1 DEF EndsIn
  <2> HIDE DEF r, q, first
  <2>3. h + 1 \in 1 .. Len(a)
    BY <1>1
  <2>4. a[h + 1] < a[k] /\ a[h + 1] \in Nat
    <3>1. h + 1 < k /\ DOMAIN a = 1 .. Len(a)
      BY <1>1
    <3>2. a[h + 1] < a[k]
      BY <1>1, <2>3, <3>1 DEF Listing
    <3> QED
      BY <1>1, <2>3, <3>2
  <2>5. CASE h + 1 <= Len(q)
    <3>1. h + 1 \in Len(first) + 1 .. Len(q) /\ q[h + 1] \in Int
      <4>1. q \in Seq(Int) /\ Len(q) \in Nat
        BY <1>9 DEF Continues
      <4>2. h + 1 \in 1 .. Len(q)
        BY <1>1, <2>5, <4>1
      <4> QED
        BY <1>1, <2>2, <2>5, <4>1, <4>2
    <3>2. q[h + 1] >= a[k]
      BY <1>9, <3>1 DEF Continues
    <3>3. q[h + 1] # a[h + 1]
      BY <1>1, <2>4, <3>1, <3>2
    <3> QED
      BY <1>4, <3>3 DEF p, q
  <2>6. CASE ~ (h + 1 <= Len(q))
    <3>1. Len(q) # Len(a)
      <4>1. Len(q) \in Nat
        BY <1>9 DEF Continues
      <4> QED
        BY <1>1, <2>3, <2>6, <4>1
    <3> QED
      BY <1>4, <3>1 DEF p, q
  <2> QED
    BY <2>5, <2>6
<1> QED
  BY <1>2, <1>10, <1>11 DEF LostText

------------------------------------------------------------------------------
(* What texts are read as                                                   *)

LEMMA JoinedListing ==
    ASSUME NEW max \in Nat, NEW a, Listing(a, max), NEW b, Listing(b, max), a[Len(a)] < b[1]
    PROVE  Listing(a \o b, max)
<1> DEFINE S == 0 .. max - 1
           c == a \o b
<1>1. /\ a \in Seq(S) /\ b \in Seq(S) /\ Len(a) \in Nat \ {0} /\ Len(b) \in Nat \ {0}
      /\ DOMAIN a = 1 .. Len(a) /\ DOMAIN b = 1 .. Len(b)
      /\ \A k \in 1 .. Len(a) : a[k] \in Nat
      /\ \A k \in 1 .. Len(b) : b[k] \in Nat
  BY DEF Listing
<1>2. PICK m \in Nat \ {0}, n \in Nat \ {0} : m = Len(a) /\ n = Len(b)
  BY <1>1
<1> HIDE DEF S
<1>3. /\ c \in Seq(S) /\ Len(c) = Len(a) + Len(b)
      /\ \A i \in 1 .. Len(a) + Len(b) : c[i] = IF i <= Len(a) THEN a[i] ELSE b[i - Len(a)]
  BY <1>1, ConcatProperties
<1> HIDE DEF c
<1>4. DOMAIN c = 1 .. m + n /\ c # <<>>
  BY <1>2, <1>3
<1>5. /\ \A i \in 1 .. m : i \in DOMAIN a /\ c[i] = a[i]
      /\ \A i \in m + 1 .. m + n : i - m \in DOMAIN b /\ c[i] = b[i - m]
  <2>1. \A i \in 1 .. m : i \in 1 .. m + n /\ i <= m
    BY <1>2
  <2>2. \A i \in m + 1 .. m + n : i \in 1 .. m + n /\ ~ (i <= m) /\ i - m \in 1 .. n
    BY <1>2
  <2> QED
    BY <1>1, <1>2, <1>3, <2>1, <2>2
<1>6. \A i \in 1 .. m : a[i] <= a[m]
  <2>1. \A i \in 1 .. m : i = m \/ i < m
    BY <1>2
  <2>2. \A i \in 1 .. m : i < m => a[i] < a[m]
    <3>1. m \in DOMAIN a
      BY <1>1, <1>2
    <3> QED
      BY <1>1, <1>2, <3>1 DEF Listing
  <2>3. \A i \in 1 .. m : a[i] \in Nat /\ a[m] \in Nat
    BY <1>1, <1>2
  <2> QED
    BY <2>1, <2>2, <2>3
<1>7. \A i \in 1 .. n : b[1] <= b[i]
  <2>1. \A i \in 1 .. n : i = 1 \/ 1 < i
    BY <1>2
  <2>2. \A i \in 1 .. n : 1 < i => b[1] < b[i]
    <3>1. 1 \in DOMAIN b
      BY <1>1, <1>2
    <3> QED
      BY <1>1, <1>2, <3>1 DEF Listing
  <2>3. \A i \in 1 .. n : b[i] \in Nat /\ b[1] \in Nat
    BY <1>1, <1>2
  <2> QED
    BY <2>1, <2>2, <2>3
<1>8. ASSUME NEW i \in 1 .. m + n, NEW j \in 1 .. m + n, i < j PROVE c[i] < c[j]
  <2>1. CASE j <= m
    <3>1. i \in 1 .. m /\ j \in 1 .. m
      BY <1>2, <1>8, <2>1
    <3>2. i \in DOMAIN a /\ j \in DOMAIN a /\ c[i] = a[i] /\ c[j] = a[j]
      BY <1>5, <3>1
    <3> QED
      BY <1>8, <3>2 DEF Listing
  <2>2. CASE i <= m /\ ~ (j <= m)
    <3>1. i \in 1 .. m /\ j \in m + 1 .. m + n /\ m \in 1 .. m /\ 1 \in 1 .. n
      BY <1>2, <2>2
    <3>2. c[i] = a[i] /\ c[j] = b[j - m] /\ j - m \in 1 .. n
      BY <1>1, <1>2, <1>5, <3>1
    <3>3. a[i] <= a[m] /\ b[1] <= b[j - m]
      BY <1>6, <1>7, <3>1, <3>2
    <3>4. a[i] \in Nat /\ a[m] \in Nat /\ b[1] \in Nat /\ b[j - m] \in Nat
      BY <1>1, <1>2, <3>1, <3>2
    <3>5. a[m] < b[1]
      BY <1>2
    <3> QED
      BY <3>2, <3>3, <3>4, <3>5
  <2>3. CASE ~ (i <= m)
    <3>1. i \in m + 1 .. m + n /\ j \in m + 1 .. m + n /\ i - m < j - m
      BY <1>2, <1>8, <2>3
    <3>2. i - m \in DOMAIN b /\ j - m \in DOMAIN b /\ c[i] = b[i - m] /\ c[j] = b[j - m]
      BY <1>5, <3>1
    <3> QED
      BY <3>1, <3>2 DEF Listing
  <2> QED
    BY <2>1, <2>2, <2>3
<1> QED
  BY <1>3, <1>4, <1>8 DEF Listing, c, S

LEMMA RangeListing ==
    ASSUME NEW max \in Nat, NEW y \in 0 .. max - 1, NEW z \in y .. max - 1,
           NEW a, a = Numbers(<<y, z>>)
    PROVE  Listing(a, max) /\ a[1] = y /\ a[Len(a)] = z
<1> DEFINE n == z - y + 1
           b == [i \in 1 .. n |-> y + i - 1]
<1>1. a = b
  BY DEF Numbers
<1>2. n \in Nat \ {0} /\ 1 \in 1 .. n /\ n \in 1 .. n
  OBVIOUS
<1>3. b \in [1 .. n -> 0 .. max - 1] /\ \A i \in 1 .. n : b[i] = y + i - 1
  OBVIOUS
<1>4. b[1] = y /\ b[n] = z
  BY <1>2
<1> HIDE DEF b
<1>5. b \in Seq(0 .. max - 1) /\ Len(b) = n /\ DOMAIN b = 1 .. n
  BY <1>2, <1>3
<1>6. b # <<>>
  BY <1>2, <1>5
<1>7. \A i, j \in 1 .. n : i < j => b[i] < b[j]
  BY <1>3
<1>8. Listing(b, max)
  BY <1>5, <1>6, <1>7 DEF Listing
<1> QED
  BY <1>1, <1>4, <1>5, <1>8

LEMMA SingleListing ==
    ASSUME NEW max \in Nat, NEW x \in 0 .. max - 1
    PROVE  Numbers(<<x>>) = <<x>> /\ Listing(<<x>>, max)
BY DEF Numbers, Listing

\* A text of two parts.
LEMMA TwoParts ==
    ASSUME NEW s \in Seq(Int), NEW t \in Seq(Int), NEW max
    PROVE  BuildTimeArray(Parts(<<s, t>>), max) = Numbers(s) \o Numbers(t)
<1> DEFINE p == <<s, t>>
<1>1. p \in Seq(Seq(Int)) /\ p # <<>> /\ Len(p) = 2 /\ p[1] = s /\ p[2] = t
  OBVIOUS
<1> HIDE DEF p
<1>2. PICK g : BuildTimeArray(Parts(p), max) = g[Len(p)] /\ Reads(g, p, Len(p))
  BY <1>1, PartsRead
<1>3. g[1] = Numbers(s) /\ g[2] = g[1] \o Numbers(t)
  <2>1. 2 \in 2 .. Len(p) /\ 2 - 1 = 1
    BY <1>1
  <2> QED
    BY <1>1, <1>2, <2>1 DEF Reads
<1> QED
  BY <1>1, <1>2, <1>3 DEF p

LEMMA NothingRead == ASSUME NEW max PROVE BuildTimeArray(Parts(<<>>), max) = <<>>
<1>1. [k \in DOMAIN <<>> |-> Numbers(<<>>[k])] = <<>>
  OBVIOUS
<1>2. FlattenSeq(<<>>) = <<>>
  BY DEF FlattenSeq
<1> QED
  BY <1>1, <1>2 DEF BuildTimeArray, Parts

LEMMA StarRead ==
    ASSUME NEW max \in Nat \ {0}
    PROVE  Listing(BuildTimeArray(Star, max), max) /\ Len(BuildTimeArray(Star, max)) = max
<1> DEFINE a == [i \in 1 .. max |-> i - 1]
<1>1. BuildTimeArray(Star, max) = a
  BY DEF BuildTimeArray, Star
<1>2. a \in [1 .. max -> 0 .. max - 1] /\ \A i \in 1 .. max : a[i] = i - 1
  OBVIOUS
<1> HIDE DEF a
<1>3. a \in Seq(0 .. max - 1) /\ Len(a) = max /\ DOMAIN a = 1 .. max /\ a # <<>>
  BY <1>2
<1>4. \A i, j \in 1 .. max : i < j => a[i] < a[j]
  BY <1>2
<1> QED
  BY <1>1, <1>3, <1>4 DEF Listing

\* No numbers are no text.
LEMMA NothingResaved == ASSUME NEW max \in Nat \ {0} PROVE Resaved(<<>>, max) = <<>>
<1>1. BuildScheduleString(<<>>, max) = Parts(<<>>)
  <2>1. <<>> \in Seq(Nat) /\ Len(<<>>) = 0 /\ Len(<<>>) # max
    OBVIOUS
  <2>2. PICK f : Writes(f, <<>>) /\ BuildScheduleString(<<>>, max) = Parts(f[Len(<<>>)])
    BY <2>1, TextWritten
  <2>3. f[0] = <<>>
    BY <2>1, <2>2 DEF Writes
  <2> QED
    BY <2>1, <2>2, <2>3
<1>2. BuildTimeArray(Parts(<<>>), max) = <<>>
  <2>1. [k \in DOMAIN <<>> |-> Numbers(<<>>[k])] = <<>>
    OBVIOUS
  <2>2. FlattenSeq(<<>>) = <<>>
    BY DEF FlattenSeq
  <2> QED
    BY <2>1, <2>2 DEF BuildTimeArray, Parts
<1> QED
  BY <1>1, <1>2 DEF Resaved
------------------------------------------------------------------------------
\* Which lists are saved as they were: those of every number, and those without a run that
\* another number follows.
THEOREM ResavedLists ==
    ASSUME NEW max \in Nat, NEW a, Listing(a, max)
    PROVE  Resaved(a, max) = a <=> Len(a) = max \/ ~ RunBeforeOther(a)
<1>1. CASE Len(a) = max
  BY <1>1, FullList
<1>2. CASE Len(a) # max /\ ~ RunBeforeOther(a)
  BY <1>2, KeptList
<1>3. CASE Len(a) # max /\ RunBeforeOther(a)
  <2>1. a \in Seq(Nat) /\ Len(a) \in Nat
    BY DEF Listing
  <2>2. PICK f : Writes(f, a) /\ BuildScheduleString(a, max) = Parts(f[Len(a)])
    BY <1>3, <2>1, TextWritten
  <2>3. PICK h, k : FirstRun(a, h, k)
    BY <1>3, <2>1, FirstRunExists
  <2>4. BuildTimeArray(Parts(f[Len(a)]), max) # a
    BY <2>2, <2>3, LostParts
  <2> QED
    BY <1>3, <2>2, <2>4 DEF Resaved
<1> QED
  BY <1>1, <1>2, <1>3
=============================================================================
