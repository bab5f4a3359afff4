--------------------------- MODULE ConfFileProofs ---------------------------
(***************************************************************************)
(* Theorems about the configuration file: that the readers undo what the   *)
(* writers do with positions, for lists of any length, and what is in the  *)
(* file while it is written.                                               *)
(***************************************************************************)
EXTENDS ConfFile, SequenceTheorems, WellFoundedInduction, TLAPS

-----------------------------------------------------------------------------
(* The positions.                                                          *)

LEMMA LeastOf ==
  ASSUME NEW T \in SUBSET Nat, T # {}
  PROVE  \E m \in T : \A k \in T : m <= k
<1> DEFINE R == {p \in Nat \X Nat : p[1] < p[2]}
<1>1. IsWellFoundedOn(R, Nat)
  BY NatLessThanWellFounded DEF OpToRel
<1>2. \A x, y \in T : y < x => <<y, x>> \in R
  OBVIOUS
<1>3. \E x \in T : \A y \in T : ~ (<<y, x>> \in R)
  <2> HIDE DEF R
  <2> QED BY WFMin, <1>1
<1>4. PICK m \in T : \A y \in T : ~ (<<y, m>> \in R)
  BY <1>3
<1>5. \A y \in T : ~(y < m)
  BY <1>2, <1>4
<1> QED
  BY <1>5

\* The sums of the numbers a[1], a[2], ...
Sums(a, n) ==
    CHOOSE f : f = [k \in 1 .. n + 1 |-> IF k = 1 THEN 0 ELSE f[k - 1] + a[k - 1]]

LEMMA SumsExist ==
  ASSUME NEW a, NEW n \in Nat
  PROVE  Sums(a, n) =
           [k \in 1 .. n + 1 |-> IF k = 1 THEN 0 ELSE Sums(a, n)[k - 1] + a[k - 1]]
<1> DEFINE Step(f, k) == IF k = 1 THEN 0 ELSE f[k - 1] + a[k - 1]
           Is(f, m) == f = [k \in 1 .. m + 1 |-> Step(f, k)]
           T == {m \in Nat : ~ \E f : Is(f, m)}
<1>1. T = {}
  <2> SUFFICES ASSUME T # {} PROVE FALSE
    OBVIOUS
  <2>1. PICK m \in T : \A k \in T : m <= k
    <3> HIDE DEF T
    <3> SUFFICES T \in SUBSET Nat
      BY LeastOf
    <3> QED BY DEF T
  <2>2. m \in Nat /\ \A f : ~Is(f, m)
    BY <2>1
  <2>3. CASE m = 0
    <3> DEFINE f == [k \in 1 .. 1 |-> 0]
    <3>1. f = [k \in 1 .. 0 + 1 |-> Step(f, k)]
      OBVIOUS
    <3>2. Is(f, 0)
      BY <3>1
    <3> HIDE DEF Is
    <3> QED BY <2>2, <2>3, <3>2
  <2>4. CASE m # 0
    <3>1. m - 1 \in Nat /\ m - 1 \notin T
      <4> HIDE DEF T
      <4> QED BY <2>1, <2>2, <2>4
    <3>2. PICK g : Is(g, m - 1)
      BY <3>1
    <3> DEFINE f == [k \in 1 .. m + 1 |-> IF k < m + 1 THEN g[k] ELSE Step(g, m + 1)]
    <3>3. ASSUME NEW k \in 1 .. m + 1
          PROVE  f[k] = Step(f, k)
      <4>1. CASE k < m + 1
        <5>1. f[k] = g[k] /\ g[k] = Step(g, k)
          BY <4>1, <3>2, <2>2
        <5>2. k # 1 => f[k - 1] = g[k - 1]
          BY <4>1, <2>2
        <5> QED
          BY <5>1, <5>2
      <4>2. CASE k = m + 1
        <5>1. f[k] = Step(g, m + 1)
          BY <4>2, <2>2
        <5>2. f[m] = g[m]
          BY <2>2, <2>4
        <5> QED
          BY <5>1, <5>2, <4>2
      <4> QED
        BY <4>1, <4>2, <2>2
    <3>4. f = [k \in 1 .. m + 1 |-> Step(f, k)]
      <4>1. f = [k \in 1 .. m + 1 |-> f[k]]
        OBVIOUS
      <4> HIDE DEF f, Step
      <4> QED BY <3>3, <4>1
    <3>5. Is(f, m)
      BY <3>4
    <3> HIDE DEF Is, f
    <3> QED BY <2>2, <3>5
  <2> QED
    BY <2>3, <2>4
<1>2. \E f : Is(f, n)
  BY <1>1
<1> QED
  BY <1>2 DEF Sums

LEMMA BeforeIs ==
  ASSUME NEW m \in Seq(Infos)
  PROVE  /\ Before(m, 1) = 0
         /\ \A i \in 1 .. Len(m) : Before(m, i + 1) = Before(m, i) + Len(m[i].libs)
<1> DEFINE f == CHOOSE g : g = [k \in 1 .. Len(m) + 1 |->
                                  IF k = 1 THEN 0 ELSE g[k - 1] + Len(m[k - 1].libs)]
           a == [i \in 1 .. Len(m) |-> Len(m[i].libs)]
           n == Len(m)
<1>1. n \in Nat
  OBVIOUS
<1>2. Sums(a, n) = [k \in 1 .. n + 1 |-> IF k = 1 THEN 0 ELSE Sums(a, n)[k - 1] + Len(m[k - 1].libs)]
  <2>1. Sums(a, n) = [k \in 1 .. n + 1 |-> IF k = 1 THEN 0 ELSE Sums(a, n)[k - 1] + a[k - 1]]
    <3> HIDE DEF a, n
    <3> QED BY <1>1, SumsExist
  <2>2. \A k \in 1 .. n + 1 : k # 1 => a[k - 1] = Len(m[k - 1].libs)
    BY <1>1
  <2> HIDE DEF a, n
  <2> QED BY <2>1, <2>2
<1>3. f = [k \in 1 .. n + 1 |-> IF k = 1 THEN 0 ELSE f[k - 1] + Len(m[k - 1].libs)]
  BY <1>2
<1>4. \A i \in 1 .. n + 1 : f[i] = IF i = 1 THEN 0 ELSE f[i - 1] + Len(m[i - 1].libs)
  <2> HIDE DEF f, n
  <2> QED BY <1>3
<1>5. \A i : Before(m, i) = f[i]
  BY DEF Before
<1> HIDE DEF f
<1> QED
  BY <1>1, <1>4, <1>5

LEMMA LibsAre ==
  ASSUME NEW m \in Seq(Infos), NEW i \in 1 .. Len(m)
  PROVE  /\ m[i] \in Infos /\ m[i].libs \in Seq(Libraries)
         /\ Len(m[i].libs) \in Nat /\ DOMAIN m[i].libs = 1 .. Len(m[i].libs)
         /\ \A j \in 1 .. Len(m[i].libs) : m[i].libs[j] \in Libraries
<1>1. m[i] \in Infos
  OBVIOUS
<1>2. m[i].libs \in Seq(Libraries)
  BY <1>1 DEF Infos
<1> QED
  BY <1>1, <1>2

\* The counts grow from one process to the next.
LEMMA BeforeGrows ==
  ASSUME NEW m \in Seq(Infos)
  PROVE  \A j \in 1 .. Len(m) + 1 :
            Before(m, j) \in Nat /\ \A i \in 1 .. j : Before(m, i) <= Before(m, j)
<1> DEFINE Good(j) == Before(m, j) \in Nat /\ \A i \in 1 .. j : Before(m, i) <= Before(m, j)
           T == {j \in 1 .. Len(m) + 1 : ~Good(j)}
<1>1. Len(m) \in Nat
  OBVIOUS
<1>2. SUFFICES ASSUME T # {} PROVE FALSE
  OBVIOUS
<1>3. PICK t \in T : \A k \in T : t <= k
  <2>1. T \in SUBSET Nat
    <3> HIDE DEF Good
    <3> QED BY <1>1
  <2> HIDE DEF T
  <2> QED BY <1>2, <2>1, LeastOf
<1>4. t \in 1 .. Len(m) + 1 /\ ~Good(t)
  BY <1>3
<1>5. CASE t = 1
  BY <1>4, <1>5, BeforeIs
<1>6. CASE t # 1
  <2>1. t - 1 \in 1 .. Len(m) /\ t - 1 \in 1 .. Len(m) + 1
    BY <1>1, <1>4, <1>6
  <2>2. t - 1 \notin T
    <3> HIDE DEF T
    <3> QED BY <1>1, <1>3, <1>4, <2>1
  <2>3. Good(t - 1)
    <3> HIDE DEF Good
    <3> QED BY <2>1, <2>2
  <2>4. Before(m, t) = Before(m, t - 1) + Len(m[t - 1].libs) /\ Len(m[t - 1].libs) \in Nat
    <3>1. \A i \in 1 .. Len(m) : Before(m, i + 1) = Before(m, i) + Len(m[i].libs)
      BY BeforeIs
    <3>2. Before(m, (t - 1) + 1) = Before(m, t - 1) + Len(m[t - 1].libs)
      BY <2>1, <3>1
    <3> QED
      BY <2>1, <3>2, LibsAre, <1>4
  <2>5. Before(m, t - 1) <= Before(m, t) /\ Before(m, t) \in Nat
    BY <2>3, <2>4
  <2>6. \A i \in 1 .. t : i = t \/ i \in 1 .. t - 1
    BY <1>4
  <2>7. \A i \in 1 .. t - 1 : Before(m, i) \in Nat \/ Before(m, i) <= Before(m, t - 1)
    BY <2>3
  <2>8. \A i \in 1 .. t - 1 : Before(m, i) \in Nat
    <3> SUFFICES ASSUME NEW i \in 1 .. t - 1 PROVE Before(m, i) \in Nat
      OBVIOUS
    <3>1. i \notin T /\ i \in 1 .. Len(m) + 1
      <4> HIDE DEF T
      <4> QED BY <1>1, <1>3, <1>4
    <3> HIDE DEF Good
    <3>2. Good(i)
      BY <3>1
    <3> QED
      BY <3>2 DEF Good
  <2>9. \A i \in 1 .. t : Before(m, i) <= Before(m, t)
    BY <2>3, <2>5, <2>6, <2>8
  <2> QED
    BY <1>4, <2>5, <2>9
<1> QED
  BY <1>5, <1>6

LEMMA CountsAre ==
  ASSUME NEW m \in Seq(Infos)
  PROVE  /\ Len(m) \in Nat /\ LibCount(m) \in Nat
         /\ \A i \in 1 .. Len(m) :
               /\ Before(m, i) \in Nat /\ Before(m, i + 1) \in Nat /\ Len(m[i].libs) \in Nat
               /\ Before(m, i + 1) = Before(m, i) + Len(m[i].libs)
               /\ Before(m, i + 1) <= LibCount(m)
         /\ \A i, j \in 1 .. Len(m) : i < j => Before(m, i + 1) <= Before(m, j)
<1>1. Len(m) \in Nat
  OBVIOUS
<1>2. \A j \in 1 .. Len(m) + 1 :
         Before(m, j) \in Nat /\ \A i \in 1 .. j : Before(m, i) <= Before(m, j)
  BY BeforeGrows
<1>3. \A i \in 1 .. Len(m) :
         Before(m, i + 1) = Before(m, i) + Len(m[i].libs) /\ Len(m[i].libs) \in Nat
  BY BeforeIs, LibsAre
<1>4. LibCount(m) = Before(m, Len(m) + 1)
  BY DEF LibCount
<1>5. LibCount(m) \in Nat
  BY <1>1, <1>2, <1>4
<1>6. ASSUME NEW i \in 1 .. Len(m)
      PROVE  /\ Before(m, i) \in Nat /\ Before(m, i + 1) \in Nat
             /\ Before(m, i + 1) <= LibCount(m)
  <2>1. i \in 1 .. Len(m) + 1 /\ i + 1 \in 1 .. Len(m) + 1 /\ Len(m) + 1 \in 1 .. Len(m) + 1
    BY <1>1
  <2> QED
    BY <1>2, <1>4, <2>1
<1>7. ASSUME NEW i \in 1 .. Len(m), NEW j \in 1 .. Len(m), i < j
      PROVE  Before(m, i + 1) <= Before(m, j)
  <2>1. j \in 1 .. Len(m) + 1 /\ i + 1 \in 1 .. j
    BY <1>1, <1>7
  <2> QED
    BY <1>2, <2>1
<1> QED
  BY <1>1, <1>3, <1>5, <1>6, <1>7

\* A library belongs to one process.
LEMMA OwnerIs ==
  ASSUME NEW m \in Seq(Infos), NEW i \in 1 .. Len(m), NEW j \in 1 .. Len(m[i].libs)
  PROVE  /\ Before(m, i) + j \in 1 .. LibCount(m)
         /\ OwnerOf(m, Before(m, i) + j) = i
         /\ LibAt(m, Before(m, i) + j) = m[i].libs[j]
<1> DEFINE k == Before(m, i) + j
           Owns(o) == Before(m, o) < k /\ k <= Before(m, o + 1)
<1>1. Before(m, i) \in Nat /\ Len(m[i].libs) \in Nat /\ Len(m) \in Nat /\ LibCount(m) \in Nat
      /\ Before(m, i + 1) = Before(m, i) + Len(m[i].libs) /\ Before(m, i + 1) <= LibCount(m)
  BY CountsAre
<1>2. k \in 1 .. LibCount(m) /\ Owns(i)
  BY <1>1
<1>3. ASSUME NEW o \in 1 .. Len(m), Owns(o)
      PROVE  o = i
  <2>1. Before(m, o) \in Nat /\ Before(m, o + 1) \in Nat
    BY CountsAre
  <2>2. (o < i => Before(m, o + 1) <= Before(m, i)) /\ (i < o => Before(m, i + 1) <= Before(m, o))
    BY CountsAre
  <2>3. ~(o < i)
    BY <1>1, <1>2, <1>3, <2>1, <2>2
  <2>4. ~(i < o)
    BY <1>1, <1>2, <1>3, <2>1, <2>2
  <2> QED
    BY <1>1, <2>3, <2>4
<1>4. OwnerOf(m, k) = i
  <2>1. DOMAIN m = 1 .. Len(m)
    OBVIOUS
  <2> HIDE DEF Owns
  <2>2. \A o \in 1 .. Len(m) : Owns(o) <=> o = i
    BY <1>2, <1>3
  <2>3. (CHOOSE o \in 1 .. Len(m) : Owns(o)) = i
    BY <2>2
  <2>4. OwnerOf(m, k) = CHOOSE o \in 1 .. Len(m) : Owns(o)
    BY <2>1 DEF OwnerOf, Owns
  <2> QED
    BY <2>3, <2>4
<1>5. k - Before(m, i) = j
  BY <1>1
<1> QED
  BY <1>2, <1>4, <1>5 DEF LibAt

\* Where one process ends, the next begins.
LEMMA Apart ==
  ASSUME NEW i \in Int, NEW o \in Int, NEW a \in Nat, NEW b \in Nat, NEW p \in Nat,
         i < o, a <= b, o + b <= p, p <= i + a
  PROVE  FALSE
  OBVIOUS

\* So does a name: that of the process is the first of its names.
LEMMA NamerIs ==
  ASSUME NEW m \in Seq(Infos), NEW i \in 1 .. Len(m), NEW j \in 0 .. Len(m[i].libs)
  PROVE  /\ i + Before(m, i) + j \in 1 .. Len(m) + LibCount(m)
         /\ Namer(m, i + Before(m, i) + j) = i
<1> DEFINE p == i + Before(m, i) + j
           Names1(o) == o + Before(m, o) <= p /\ p <= o + Before(m, o + 1)
<1>1. Before(m, i) \in Nat /\ Len(m[i].libs) \in Nat /\ Len(m) \in Nat /\ LibCount(m) \in Nat
      /\ Before(m, i + 1) = Before(m, i) + Len(m[i].libs) /\ Before(m, i + 1) <= LibCount(m)
  BY CountsAre
<1>2. p \in 1 .. Len(m) + LibCount(m) /\ Names1(i)
  BY <1>1
<1>3. ASSUME NEW o \in 1 .. Len(m), Names1(o)
      PROVE  o = i
  <2>1. Before(m, o) \in Nat /\ Before(m, o + 1) \in Nat
    BY CountsAre
  <2>2. (o < i => Before(m, o + 1) <= Before(m, i)) /\ (i < o => Before(m, i + 1) <= Before(m, o))
    BY CountsAre
  <2>3. /\ i + Before(m, i) <= p /\ p <= i + Before(m, i + 1)
        /\ o + Before(m, o) <= p /\ p <= o + Before(m, o + 1) /\ p \in Nat
    BY <1>2, <1>3
  <2> HIDE DEF p
  <2>4. ~(o < i)
    <3> SUFFICES ASSUME o < i PROVE FALSE
      OBVIOUS
    <3>1. Before(m, o + 1) <= Before(m, i)
      BY <2>2
    <3>2. i + Before(m, i) <= p /\ p <= o + Before(m, o + 1) /\ p \in Nat
      BY <2>3
    <3> QED BY <1>1, <2>1, <3>1, <3>2, Apart
  <2>5. ~(i < o)
    <3> SUFFICES ASSUME i < o PROVE FALSE
      OBVIOUS
    <3>1. Before(m, i + 1) <= Before(m, o)
      BY <2>2
    <3>2. Before(m, i + 1) \in Nat
      BY <1>1
    <3>3. o + Before(m, o) <= p /\ p <= i + Before(m, i + 1) /\ p \in Nat
      BY <2>3
    <3> QED BY <2>1, <3>1, <3>2, <3>3, Apart
  <2> QED
    BY <1>1, <2>4, <2>5
<1>4. Namer(m, p) = i
  <2>1. DOMAIN m = 1 .. Len(m)
    OBVIOUS
  <2> HIDE DEF Names1
  <2>2. \A o \in 1 .. Len(m) : Names1(o) <=> o = i
    BY <1>2, <1>3
  <2>3. (CHOOSE o \in 1 .. Len(m) : Names1(o)) = i
    BY <2>2
  <2>4. Namer(m, p) = CHOOSE o \in 1 .. Len(m) : Names1(o)
    BY <2>1 DEF Namer, Names1
  <2> QED
    BY <2>3, <2>4
<1> QED
  BY <1>2, <1>4

LEMMA NoneIsEmpty ==
  ASSUME NEW m \in Seq(Infos), Len(m) = 0
  PROVE  LibCount(m) = 0
<1>1. Before(m, 1) = 0
  BY BeforeIs
<1>2. Len(m) + 1 = 1
  OBVIOUS
<1> QED
  BY <1>1, <1>2 DEF LibCount

\* Every library has an owner: the last process that begins before it.
LEMMA Covered ==
  ASSUME NEW m \in Seq(Infos), NEW k \in 1 .. LibCount(m)
  PROVE  \E i \in 1 .. Len(m) : Before(m, i) < k /\ k <= Before(m, i + 1)
<1> DEFINE T == {i \in 1 .. Len(m) : k <= Before(m, i + 1)}
<1>1. Len(m) \in Nat /\ LibCount(m) \in Nat
  BY CountsAre
<1>2. Len(m) # 0
  <2> SUFFICES ASSUME Len(m) = 0 PROVE FALSE
    OBVIOUS
  <2>1. LibCount(m) = 0
    BY NoneIsEmpty
  <2> QED
    BY <2>1
<1>3. Len(m) \in T
  BY <1>1, <1>2 DEF LibCount
<1>4. PICK t \in T : \A i \in T : t <= i
  <2>1. T \in SUBSET Nat
    BY <1>1
  <2> HIDE DEF T
  <2> QED BY <1>3, <2>1, LeastOf
<1>5. t \in 1 .. Len(m) /\ k <= Before(m, t + 1)
  BY <1>4
<1>6. Before(m, t) < k
  <2>1. CASE t = 1
    BY <2>1, BeforeIs
  <2>2. CASE t # 1
    <3>1. t - 1 \in 1 .. Len(m) /\ t - 1 \notin T
      <4> HIDE DEF T
      <4> QED BY <1>1, <1>4, <1>5, <2>2
    <3>2. ~(k <= Before(m, (t - 1) + 1))
      BY <3>1
    <3>3. (t - 1) + 1 = t /\ Before(m, t) \in Nat
      BY <1>5, CountsAre
    <3> QED
      BY <3>2, <3>3, <1>1
  <2> QED
    BY <2>1, <2>2
<1> QED
  BY <1>5, <1>6

LEMMA CoveredBy ==
  ASSUME NEW m \in Seq(Infos), NEW k \in 1 .. LibCount(m)
  PROVE  OwnerOf(m, k) \in 1 .. Len(m) /\ LibAt(m, k) \in Libraries
<1>1. PICK i \in 1 .. Len(m) : Before(m, i) < k /\ k <= Before(m, i + 1)
  BY Covered
<1>2. Before(m, i) \in Nat /\ Len(m[i].libs) \in Nat /\ LibCount(m) \in Nat
      /\ Before(m, i + 1) = Before(m, i) + Len(m[i].libs)
  BY CountsAre
<1>3. k - Before(m, i) \in 1 .. Len(m[i].libs) /\ Before(m, i) + (k - Before(m, i)) = k
  BY <1>1, <1>2
<1>4. OwnerOf(m, k) = i /\ LibAt(m, k) = m[i].libs[k - Before(m, i)]
  BY <1>3, OwnerIs
<1> QED
  BY <1>3, <1>4, LibsAre

\* Every name belongs to the last process whose names begin before it.
LEMMA NamedBy ==
  ASSUME NEW m \in Seq(Infos), NEW p \in 1 .. Len(m) + LibCount(m)
  PROVE  /\ Namer(m, p) \in 1 .. Len(m)
         /\ p - Namer(m, p) - Before(m, Namer(m, p)) \in 0 .. Len(m[Namer(m, p)].libs)
<1> DEFINE T == {i \in 1 .. Len(m) : p <= i + Before(m, i + 1)}
<1>1. Len(m) \in Nat /\ LibCount(m) \in Nat
  BY CountsAre
<1>2. Len(m) # 0
  <2> SUFFICES ASSUME Len(m) = 0 PROVE FALSE
    OBVIOUS
  <2>1. LibCount(m) = 0
    BY NoneIsEmpty
  <2> QED
    BY <2>1
<1>3. Len(m) \in T
  BY <1>1, <1>2 DEF LibCount
<1>4. PICK t \in T : \A i \in T : t <= i
  <2>1. T \in SUBSET Nat
    BY <1>1
  <2> HIDE DEF T
  <2> QED BY <1>3, <2>1, LeastOf
<1>5. t \in 1 .. Len(m) /\ p <= t + Before(m, t + 1)
  BY <1>4
<1>6. t + Before(m, t) <= p
  <2>1. CASE t = 1
    <3>1. Before(m, 1) = 0
      BY BeforeIs
    <3> QED BY <2>1, <3>1, <1>1
  <2>2. CASE t # 1
    <3>1. t - 1 \in 1 .. Len(m) /\ t - 1 \notin T
      <4> HIDE DEF T
      <4> QED BY <1>1, <1>4, <1>5, <2>2
    <3>2. ~(p <= (t - 1) + Before(m, (t - 1) + 1))
      BY <3>1
    <3>3. (t - 1) + 1 = t /\ Before(m, t) \in Nat
      BY <1>5, CountsAre
    <3> QED
      BY <3>2, <3>3, <1>1
  <2> QED
    BY <2>1, <2>2
<1>7. Before(m, t) \in Nat /\ Len(m[t].libs) \in Nat
      /\ Before(m, t + 1) = Before(m, t) + Len(m[t].libs)
  BY <1>5, CountsAre
<1>8. p - t - Before(m, t) \in 0 .. Len(m[t].libs) /\ t + Before(m, t) + (p - t - Before(m, t)) = p
  <2> HIDE DEF T
  <2>1. p \in Nat /\ t \in Nat
    BY <1>1, <1>5
  <2>2. p - t - Before(m, t) >= 0
    BY <1>6, <1>7, <2>1
  <2>3. p - t - Before(m, t) <= Len(m[t].libs)
    BY <1>5, <1>7, <2>1
  <2>4. p - t - Before(m, t) \in 0 .. Len(m[t].libs)
    BY <1>7, <2>1, <2>2, <2>3
  <2>5. t + Before(m, t) + (p - t - Before(m, t)) = p
    BY <1>7, <2>1
  <2> QED BY <2>4, <2>5
<1>9. Namer(m, p) = t
  <2> HIDE DEF T
  <2> QED BY <1>5, <1>8, NamerIs
<1> QED
  BY <1>5, <1>8, <1>9

-----------------------------------------------------------------------------
(* The units of a list.                                                    *)

Bases(m) == [i \in DOMAIN m |-> Before(m, i)]

LEMMA SectionsAre ==
  ASSUME NEW m \in Seq(Infos)
  PROVE  /\ Header(m) \in AnyUnit
         /\ Procs(m, Bases(m)) \in Seq(AnyUnit) /\ Len(Procs(m, Bases(m))) = 2 * Len(m)
         /\ Digs(m) \in Seq(AnyUnit) /\ Len(Digs(m)) = LibCount(m)
         /\ Strs(m) \in Seq(AnyUnit) /\ Len(Strs(m)) = Len(m) + LibCount(m)
<1> DEFINE n == Len(m)
           L == LibCount(m)
<1>1. n \in Nat /\ L \in Nat /\ DOMAIN m = 1 .. n
  BY CountsAre
<1>2. Header(m) \in AnyUnit
  BY <1>1 DEF Header, AnyUnit
<1>3. ASSUME NEW k \in 1 .. 2 * n
      PROVE  Procs(m, Bases(m))[k] \in AnyUnit
  <2> DEFINE i == (k + 1) \div 2
             h == k % 2
  <2>1. i \in 1 .. n /\ h \in {0, 1}
    BY <1>1
  <2>2. Procs(m, Bases(m))[k] = ProcUnit(m, i, h, Before(m, i))
    BY <1>1, <2>1 DEF Procs, Bases
  <2> HIDE DEF i, h, n
  <2>3. m[i] \in Infos /\ Len(m[i].libs) \in Nat /\ Before(m, i) \in Nat
    BY <2>1, LibsAre, CountsAre DEF n
  <2>4. m[i].digest \in Digests
    BY <2>3 DEF Infos
  <2>5. i + Before(m, i) \in Nat /\ 1 + Before(m, i) \in Nat
    BY <1>1, <2>1, <2>3
  <2>6. ProcUnit(m, i, h, Before(m, i)) \in
          [unit : {"proc"}, half : {0, 1}, digest : Digests, count : Nat, spos : Nat, fpos : Nat]
    BY <2>1, <2>3, <2>4, <2>5 DEF ProcUnit
  <2> QED
    BY <2>2, <2>6 DEF AnyUnit
<1>4. Procs(m, Bases(m)) \in Seq(AnyUnit) /\ Len(Procs(m, Bases(m))) = 2 * n
  <2>1. DOMAIN Procs(m, Bases(m)) = 1 .. 2 * n /\ 2 * n \in Nat
    BY <1>1 DEF Procs
  <2>2. Procs(m, Bases(m)) = [k \in 1 .. 2 * n |-> Procs(m, Bases(m))[k]]
    BY DEF Procs
  <2> HIDE DEF n
  <2>3. Procs(m, Bases(m)) \in [1 .. 2 * n -> AnyUnit]
    BY <1>3, <2>2
  <2> QED
    BY <2>1, <2>3
<1>5. ASSUME NEW k \in 1 .. L
      PROVE  OwnerOf(m, k) \in 1 .. n /\ LibAt(m, k) \in Libraries
  BY CoveredBy
<1>6. ASSUME NEW k \in 1 .. L
      PROVE  Digs(m)[k] \in AnyUnit
  <2>1. OwnerOf(m, k) + k \in Nat /\ LibAt(m, k).digest \in Digests
    BY <1>1, <1>5 DEF Libraries
  <2>2. Digs(m)[k] = [unit |-> "dig", digest |-> LibAt(m, k).digest, spos |-> OwnerOf(m, k) + k]
    BY DEF Digs
  <2> QED
    BY <2>1, <2>2 DEF AnyUnit
<1>7. Digs(m) \in Seq(AnyUnit) /\ Len(Digs(m)) = L
  <2>1. Digs(m) = [k \in 1 .. L |-> Digs(m)[k]]
    BY DEF Digs
  <2>2. DOMAIN Digs(m) = 1 .. L
    BY DEF Digs
  <2> HIDE DEF L
  <2>3. Digs(m) \in [1 .. L -> AnyUnit]
    BY <1>6, <2>1
  <2> QED
    BY <1>1, <2>2, <2>3
<1>8. ASSUME NEW p \in 1 .. n + L
      PROVE  Strs(m)[p] \in AnyUnit
  <2> DEFINE i == Namer(m, p)
             j == p - i - Before(m, i)
             name == IF j = 0 THEN m[i].path ELSE m[i].libs[j].path
  <2>1. Strs(m)[p] = [unit |-> "name", name |-> name]
    BY DEF Strs
  <2>2. i \in 1 .. n /\ j \in 0 .. Len(m[i].libs)
    BY NamedBy
  <2> HIDE DEF i, j, n
  <2>3. m[i].path \in Names
    BY <2>2, LibsAre DEF Infos, n
  <2>4. j # 0 => m[i].libs[j].path \in Names
    BY <2>2, LibsAre DEF Libraries, n
  <2>5. name \in Names
    BY <2>3, <2>4
  <2> HIDE DEF name
  <2> QED
    BY <2>1, <2>5 DEF AnyUnit
<1>9. Strs(m) \in Seq(AnyUnit) /\ Len(Strs(m)) = n + L
  <2>1. Strs(m) = [k \in 1 .. n + L |-> Strs(m)[k]]
    BY DEF Strs
  <2>2. DOMAIN Strs(m) = 1 .. n + L /\ n + L \in Nat
    BY <1>1 DEF Strs
  <2> HIDE DEF L, n
  <2>3. Strs(m) \in [1 .. n + L -> AnyUnit]
    BY <1>8, <2>1
  <2> QED
    BY <2>2, <2>3
<1> QED
  BY <1>2, <1>4, <1>7, <1>9

\* c is a and then b.
IsJoin(c, a, b, S) ==
    /\ c \in Seq(S) /\ Len(c) = Len(a) + Len(b)
    /\ \A k \in 1 .. Len(a) : c[k] = a[k]
    /\ \A k \in 1 .. Len(b) : c[Len(a) + k] = b[k]

LEMMA Joined ==
  ASSUME NEW S, NEW a \in Seq(S), NEW b \in Seq(S)
  PROVE  IsJoin(a \o b, a, b, S)
  BY DEF IsJoin

LEMMA UnitsAre ==
  ASSUME NEW m \in Seq(Infos)
  PROVE  /\ Units(m) \in Seq(AnyUnit)
         /\ Len(Units(m)) = 1 + 2 * Len(m) + LibCount(m) + (Len(m) + LibCount(m))
         /\ Units(m)[1] = Header(m)
         /\ \A k \in 1 .. 2 * Len(m) : Units(m)[1 + k] = Procs(m, Bases(m))[k]
         /\ \A k \in 1 .. LibCount(m) : Units(m)[1 + 2 * Len(m) + k] = Digs(m)[k]
         /\ \A k \in 1 .. Len(m) + LibCount(m) :
               Units(m)[1 + 2 * Len(m) + LibCount(m) + k] = Strs(m)[k]
<1> DEFINE n == Len(m)
           L == LibCount(m)
           s1 == <<Header(m)>>
           s2 == Procs(m, Bases(m))
           s3 == Digs(m)
           s4 == Strs(m)
<1>1. n \in Nat /\ L \in Nat
  BY CountsAre
<1>2. Units(m) = s1 \o s2 \o s3 \o s4
  BY DEF Units, Sections, SectionsBy, Bases
<1>3. /\ s1 \in Seq(AnyUnit) /\ Len(s1) = 1 /\ s1[1] = Header(m)
      /\ s2 \in Seq(AnyUnit) /\ Len(s2) = 2 * n
      /\ s3 \in Seq(AnyUnit) /\ Len(s3) = L
      /\ s4 \in Seq(AnyUnit) /\ Len(s4) = n + L
  <2>1. Header(m) \in AnyUnit
    BY SectionsAre
  <2>2. s1 \in Seq(AnyUnit) /\ Len(s1) = 1 /\ s1[1] = Header(m)
    BY <2>1
  <2> QED BY <2>2, SectionsAre
<1> HIDE DEF n, L, s1, s2, s3, s4
<1>4. /\ s1 \o s2 \in Seq(AnyUnit) /\ Len(s1 \o s2) = 1 + 2 * n
      /\ (s1 \o s2)[1] = Header(m)
      /\ \A k \in 1 .. 2 * n : (s1 \o s2)[1 + k] = s2[k]
  <2>1. /\ s1 \o s2 \in Seq(AnyUnit) /\ Len(s1 \o s2) = Len(s1) + Len(s2)
        /\ \A k \in 1 .. Len(s1) : (s1 \o s2)[k] = s1[k]
        /\ \A k \in 1 .. Len(s2) : (s1 \o s2)[Len(s1) + k] = s2[k]
    <3>1. s1 \in Seq(AnyUnit) /\ s2 \in Seq(AnyUnit)
      BY <1>3
    <3>2. IsJoin(s1 \o s2, s1, s2, AnyUnit)
      BY <3>1, Joined
    <3> QED BY <3>2 DEF IsJoin
  <2> QED BY <1>3, <2>1
<1> DEFINE t == s1 \o s2
           u == t \o s3
           v == u \o s4
<1>5. /\ u \in Seq(AnyUnit) /\ Len(u) = 1 + 2 * n + L
      /\ \A k \in 1 .. 1 + 2 * n : u[k] = t[k]
      /\ \A k \in 1 .. L : u[1 + 2 * n + k] = s3[k]
  <2> HIDE DEF t
  <2>1. /\ u \in Seq(AnyUnit) /\ Len(u) = Len(t) + Len(s3)
        /\ \A k \in 1 .. Len(t) : u[k] = t[k]
        /\ \A k \in 1 .. Len(s3) : u[Len(t) + k] = s3[k]
    <3>1. t \in Seq(AnyUnit) /\ s3 \in Seq(AnyUnit)
      BY <1>3, <1>4 DEF t
    <3>2. IsJoin(t \o s3, t, s3, AnyUnit)
      BY <3>1, Joined
    <3> QED BY <3>2 DEF IsJoin
  <2>2. Len(t) = 1 + 2 * n
    BY <1>4 DEF t
  <2> HIDE DEF u
  <2> QED BY <1>3, <2>1, <2>2
<1>6. /\ v \in Seq(AnyUnit) /\ Len(v) = 1 + 2 * n + L + (n + L)
      /\ \A k \in 1 .. 1 + 2 * n + L : v[k] = u[k]
      /\ \A k \in 1 .. n + L : v[1 + 2 * n + L + k] = s4[k]
  <2> HIDE DEF u
  <2>1. /\ v \in Seq(AnyUnit) /\ Len(v) = Len(u) + Len(s4)
        /\ \A k \in 1 .. Len(u) : v[k] = u[k]
        /\ \A k \in 1 .. Len(s4) : v[Len(u) + k] = s4[k]
    <3>1. u \in Seq(AnyUnit) /\ s4 \in Seq(AnyUnit)
      BY <1>3, <1>5
    <3>2. IsJoin(u \o s4, u, s4, AnyUnit)
      BY <3>1, Joined
    <3> QED BY <3>2 DEF IsJoin
  <2> HIDE DEF v
  <2> QED BY <1>3, <1>5, <2>1
<1>7. Units(m) = v
  BY <1>2
<1> HIDE DEF t, u, v
<1>8. v[1] = Header(m)
  <2>1. 1 \in 1 .. 1 + 2 * n /\ 1 \in 1 .. 1 + 2 * n + L
    BY <1>1
  <2>2. v[1] = u[1] /\ u[1] = t[1]
    BY <2>1, <1>5, <1>6
  <2> QED BY <2>2, <1>4 DEF t
<1>9. ASSUME NEW k \in 1 .. 2 * n
      PROVE  v[1 + k] = s2[k]
  <2>1. 1 + k \in 1 .. 1 + 2 * n /\ 1 + k \in 1 .. 1 + 2 * n + L
    BY <1>1
  <2>2. v[1 + k] = u[1 + k] /\ u[1 + k] = t[1 + k]
    BY <2>1, <1>5, <1>6
  <2> QED BY <2>2, <1>4 DEF t
<1>10. ASSUME NEW k \in 1 .. L
       PROVE  v[1 + 2 * n + k] = s3[k]
  <2>1. 1 + 2 * n + k \in 1 .. 1 + 2 * n + L
    BY <1>1
  <2> QED BY <2>1, <1>5, <1>6
<1> QED
  BY <1>6, <1>7, <1>8, <1>9, <1>10 DEF n, L, s2, s3, s4

-----------------------------------------------------------------------------
(* Reading what was written.                                               *)

\* The first k units of f are those of u.
Agrees(f, u, k) == Len(f) >= k /\ \A j \in 1 .. k : f[j] = u[j]

NameIn(units, h, k) ==
    LET u == At(units, 1 + 2 * h.procs + h.digs + k)
    IN  IF u.unit = "name" THEN u.name ELSE Garbage
LibIn(units, h, k) ==
    LET d == At(units, 1 + 2 * h.procs + k)
    IN  IF d.unit = "dig" THEN [path |-> NameIn(units, h, d.spos), digest |-> d.digest]
        ELSE [path |-> Garbage, digest |-> Garbage]

LEMMA ProcAtIs ==
  ASSUME NEW f, NEW h, NEW i
  PROVE  ProcAt(f, h, i) =
           LET proc == At(f, 2 * i)
           IN  IF proc.unit = "proc" /\ proc.half = 1
                  /\ At(f, 2 * i + 1) = [proc EXCEPT !.half = 0]
               THEN [path |-> NameIn(f, h, proc.spos), digest |-> proc.digest,
                     libs |-> [j \in 1 .. proc.count |-> LibIn(f, h, proc.fpos + j - 1)]]
               ELSE [path |-> Garbage, digest |-> Garbage, libs |-> <<>>]
  BY DEF ProcAt, NameIn, LibIn

LEMMA Reads ==
  ASSUME NEW m \in Seq(Infos), NEW f \in Seq(AnyUnit), Agrees(f, Units(m), Len(Units(m)))
  PROVE  /\ \A k \in 1 .. Len(Units(m)) : At(f, k) = Units(m)[k]
         /\ At(f, 1) = Header(m)
         /\ \A k \in 1 .. 2 * Len(m) : At(f, 1 + k) = Procs(m, Bases(m))[k]
         /\ \A k \in 1 .. LibCount(m) : At(f, 1 + 2 * Len(m) + k) = Digs(m)[k]
         /\ \A k \in 1 .. Len(m) + LibCount(m) :
               At(f, 1 + 2 * Len(m) + LibCount(m) + k) = Strs(m)[k]
<1>1. Len(m) \in Nat /\ LibCount(m) \in Nat
  BY CountsAre
<1>2. Len(Units(m)) = 1 + 2 * Len(m) + LibCount(m) + (Len(m) + LibCount(m))
      /\ Len(Units(m)) \in Nat
  BY <1>1, UnitsAre
<1>3. ASSUME NEW k \in 1 .. Len(Units(m))
      PROVE  At(f, k) = Units(m)[k]
  <2>1. Len(f) \in Nat /\ Len(f) >= Len(Units(m)) /\ f[k] = Units(m)[k]
    BY DEF Agrees
  <2>2. k \in 1 .. Len(f)
    BY <2>1, <1>2
  <2>3. k \in DOMAIN f
    BY <2>2
  <2> QED BY <2>1, <2>3 DEF At
<1>4. At(f, 1) = Header(m)
  BY <1>1, <1>2, <1>3, UnitsAre
<1>5. ASSUME NEW k \in 1 .. 2 * Len(m)
      PROVE  At(f, 1 + k) = Procs(m, Bases(m))[k]
  <2>1. 1 + k \in 1 .. Len(Units(m))
    BY <1>1, <1>2
  <2> QED BY <2>1, <1>3, UnitsAre
<1>6. ASSUME NEW k \in 1 .. LibCount(m)
      PROVE  At(f, 1 + 2 * Len(m) + k) = Digs(m)[k]
  <2>1. 1 + 2 * Len(m) + k \in 1 .. Len(Units(m))
    BY <1>1, <1>2
  <2> QED BY <2>1, <1>3, UnitsAre
<1>7. ASSUME NEW k \in 1 .. Len(m) + LibCount(m)
      PROVE  At(f, 1 + 2 * Len(m) + LibCount(m) + k) = Strs(m)[k]
  <2>1. 1 + 2 * Len(m) + LibCount(m) + k \in 1 .. Len(Units(m))
    BY <1>1, <1>2
  <2> QED BY <2>1, <1>3, UnitsAre
<1> QED
  BY <1>3, <1>4, <1>5, <1>6, <1>7

\* The names that a process and its libraries are read with, and the digests.
LEMMA NamesRead ==
  ASSUME NEW m \in Seq(Infos), NEW f \in Seq(AnyUnit), Agrees(f, Units(m), Len(Units(m))),
         NEW i \in 1 .. Len(m)
  PROVE  /\ NameIn(f, Header(m), i + Before(m, i)) = m[i].path
         /\ \A j \in 1 .. Len(m[i].libs) :
               NameIn(f, Header(m), i + Before(m, i) + j) = m[i].libs[j].path
<1>1. /\ Len(m) \in Nat /\ LibCount(m) \in Nat /\ Before(m, i) \in Nat /\ Len(m[i].libs) \in Nat
  BY CountsAre
<1>2. Header(m).procs = Len(m) /\ Header(m).digs = LibCount(m)
  BY DEF Header
<1>3. ASSUME NEW j \in 0 .. Len(m[i].libs)
      PROVE  NameIn(f, Header(m), i + Before(m, i) + j)
               = IF j = 0 THEN m[i].path ELSE m[i].libs[j].path
  <2> DEFINE p == i + Before(m, i) + j
  <2>1. p \in 1 .. Len(m) + LibCount(m) /\ Namer(m, p) = i
    BY NamerIs
  <2>2. p - i - Before(m, i) = j
    BY <1>1
  <2> HIDE DEF p
  <2>3. Strs(m)[p] = [unit |-> "name", name |-> IF j = 0 THEN m[i].path ELSE m[i].libs[j].path]
    BY <2>1, <2>2 DEF Strs
  <2>4. At(f, 1 + 2 * Len(m) + LibCount(m) + p) = Strs(m)[p]
    BY <2>1, Reads
  <2>5. NameIn(f, Header(m), p) = IF j = 0 THEN m[i].path ELSE m[i].libs[j].path
    BY <1>2, <2>3, <2>4 DEF NameIn
  <2> QED
    BY <2>5 DEF p
<1>4. NameIn(f, Header(m), i + Before(m, i) + 0) = m[i].path
  BY <1>1, <1>3
<1>5. i + Before(m, i) + 0 = i + Before(m, i)
  BY <1>1
<1>6. NameIn(f, Header(m), i + Before(m, i)) = m[i].path
  BY <1>4, <1>5
<1>7. ASSUME NEW j \in 1 .. Len(m[i].libs)
      PROVE  NameIn(f, Header(m), i + Before(m, i) + j) = m[i].libs[j].path
  <2>1. j \in 0 .. Len(m[i].libs) /\ j # 0
    BY <1>1
  <2> QED BY <2>1, <1>3
<1> QED
  BY <1>6, <1>7

LEMMA LibsRead ==
  ASSUME NEW m \in Seq(Infos), NEW f \in Seq(AnyUnit), Agrees(f, Units(m), Len(Units(m))),
         NEW i \in 1 .. Len(m), NEW j \in 1 .. Len(m[i].libs)
  PROVE  LibIn(f, Header(m), 1 + Before(m, i) + j - 1) = m[i].libs[j]
<1> DEFINE k == Before(m, i) + j
<1>1. /\ Len(m) \in Nat /\ LibCount(m) \in Nat /\ Before(m, i) \in Nat /\ Len(m[i].libs) \in Nat
      /\ m[i].libs[j] \in Libraries
  BY CountsAre, LibsAre
<1>2. Header(m).procs = Len(m) /\ Header(m).digs = LibCount(m)
  BY DEF Header
<1>3. 1 + Before(m, i) + j - 1 = k /\ i + k = i + Before(m, i) + j
  BY <1>1
<1>4. k \in 1 .. LibCount(m) /\ OwnerOf(m, k) = i /\ LibAt(m, k) = m[i].libs[j]
  BY OwnerIs
<1> HIDE DEF k
<1>5. Digs(m)[k] = [unit |-> "dig", digest |-> m[i].libs[j].digest, spos |-> i + k]
  BY <1>4 DEF Digs
<1>6. At(f, 1 + 2 * Len(m) + k) = Digs(m)[k]
  BY <1>4, Reads
<1>7. NameIn(f, Header(m), i + k) = m[i].libs[j].path
  <2>1. NameIn(f, Header(m), i + Before(m, i) + j) = m[i].libs[j].path
    BY NamesRead
  <2> QED BY <1>3, <2>1
<1>8. LibIn(f, Header(m), k) = [path |-> m[i].libs[j].path, digest |-> m[i].libs[j].digest]
  BY <1>2, <1>5, <1>6, <1>7 DEF LibIn
<1>9. m[i].libs[j] = [path |-> m[i].libs[j].path, digest |-> m[i].libs[j].digest]
  BY <1>1 DEF Libraries
<1> QED
  BY <1>3, <1>8, <1>9

LEMMA Halves ==
  ASSUME NEW i \in Nat
  PROVE  /\ ((2 * i - 1) + 1) \div 2 = i /\ (2 * i - 1) % 2 = 1
         /\ (2 * i + 1) \div 2 = i /\ (2 * i) % 2 = 0
<1>1. ((2 * i - 1) + 1) \div 2 = i
  BY SMTT(30)
<1>2. (2 * i - 1) % 2 = 1
  BY SMTT(30)
<1>3. (2 * i + 1) \div 2 = i
  BY SMTT(30)
<1>4. (2 * i) % 2 = 0
  BY SMTT(30)
<1> QED
  BY <1>1, <1>2, <1>3, <1>4

LEMMA ProcRead ==
  ASSUME NEW m \in Seq(Infos), NEW f \in Seq(AnyUnit), Agrees(f, Units(m), Len(Units(m))),
         NEW i \in 1 .. Len(m)
  PROVE  ProcAt(f, Header(m), i) = m[i]
<1> DEFINE proc == ProcUnit(m, i, 1, Before(m, i))
<1>1. /\ Len(m) \in Nat /\ Before(m, i) \in Nat /\ Len(m[i].libs) \in Nat
      /\ m[i] \in Infos /\ m[i].libs \in Seq(Libraries) /\ DOMAIN m[i].libs = 1 .. Len(m[i].libs)
  BY CountsAre, LibsAre
<1>2. At(f, 2 * i) = proc
  <2>1. 2 * i - 1 \in 1 .. 2 * Len(m) /\ 1 + (2 * i - 1) = 2 * i
        /\ ((2 * i - 1) + 1) \div 2 = i /\ (2 * i - 1) % 2 = 1 /\ i \in DOMAIN m
    BY <1>1, Halves
  <2>2. Procs(m, Bases(m))[2 * i - 1] = proc
    BY <2>1 DEF Procs, Bases
  <2> QED BY <2>1, <2>2, Reads
<1>3. At(f, 2 * i + 1) = ProcUnit(m, i, 0, Before(m, i))
  <2>1. 2 * i \in 1 .. 2 * Len(m) /\ 1 + 2 * i = 2 * i + 1
        /\ (2 * i + 1) \div 2 = i /\ (2 * i) % 2 = 0 /\ i \in DOMAIN m
    BY <1>1, Halves
  <2>2. Procs(m, Bases(m))[2 * i] = ProcUnit(m, i, 0, Before(m, i))
    BY <2>1 DEF Procs, Bases
  <2>3. 2 * i \in 1 .. 2 * Len(m)
    BY <2>1
  <2>4. At(f, 1 + 2 * i) = Procs(m, Bases(m))[2 * i]
    BY <2>3, Reads
  <2> QED BY <2>1, <2>2, <2>4
<1>4. ProcUnit(m, i, 0, Before(m, i)) = [proc EXCEPT !.half = 0]
  BY DEF ProcUnit
<1>5. /\ proc.unit = "proc" /\ proc.half = 1 /\ proc.spos = i + Before(m, i)
      /\ proc.digest = m[i].digest /\ proc.count = Len(m[i].libs) /\ proc.fpos = 1 + Before(m, i)
  BY DEF ProcUnit
<1> HIDE DEF proc
<1>6. ProcAt(f, Header(m), i)
        = [path |-> NameIn(f, Header(m), i + Before(m, i)), digest |-> m[i].digest,
           libs |-> [j \in 1 .. Len(m[i].libs) |-> LibIn(f, Header(m), 1 + Before(m, i) + j - 1)]]
  BY <1>2, <1>3, <1>4, <1>5, ProcAtIs
<1>7. [j \in 1 .. Len(m[i].libs) |-> LibIn(f, Header(m), 1 + Before(m, i) + j - 1)] = m[i].libs
  <2>1. m[i].libs = [j \in 1 .. Len(m[i].libs) |-> m[i].libs[j]]
    BY <1>1
  <2> QED BY <2>1, LibsRead
<1>8. m[i] = [path |-> m[i].path, digest |-> m[i].digest, libs |-> m[i].libs]
  BY <1>1 DEF Infos
<1> QED
  BY <1>6, <1>7, <1>8, NamesRead

\* What was written for a list is read as that list, whatever follows it.
LEMMA ReadBack ==
  ASSUME NEW m \in Seq(Infos), NEW f \in Seq(AnyUnit), Agrees(f, Units(m), Len(Units(m)))
  PROVE  IsHeader(f) /\ f[1] = Header(m) /\ ReadUnchecked(f) = m
<1>1. Len(m) \in Nat /\ Len(Units(m)) \in Nat /\ Len(Units(m)) >= 1 /\ Len(f) \in Nat
  BY UnitsAre, CountsAre
<1>2. f[1] = Header(m) /\ At(f, 1) = Header(m)
  BY <1>1, UnitsAre, Reads DEF Agrees
<1>3. IsHeader(f) /\ f[1].procs = Len(m)
  BY <1>2 DEF IsHeader, Header
<1>4. m = [i \in 1 .. Len(m) |-> m[i]]
  OBVIOUS
<1>5. [i \in 1 .. Len(m) |-> ProcAt(f, Header(m), i)] = [i \in 1 .. Len(m) |-> m[i]]
  BY ProcRead
<1> QED
  BY <1>2, <1>3, <1>4, <1>5 DEF ReadUnchecked

-----------------------------------------------------------------------------
(* The invariant.                                                          *)

\* What can be read as a process from any units.
GoodLibs == Libraries \cup [path : {Garbage}, digest : Digests \cup {Garbage}]
GoodReadings ==
    [path : Names, digest : Digests, libs : Seq(GoodLibs)] \cup
    [path : {Garbage}, digest : Digests \cup {Garbage}, libs : Seq(GoodLibs)]

Lists == Seq(Infos) \ {<<>>}
Busy(r) == r.at \notin {"none", "end"}

\* picatest is in front of one of its four calls, with what is left of them.
CallOf(r) ==
    LET n == Len(r.infos)
        c == LibCount(r.infos)
    IN  \/ r.cuts = <<1, 2 * n, c, n + c>> /\ r.pos = 1
        \/ r.cuts = <<2 * n, c, n + c>> /\ r.pos = 2
        \/ r.cuts = <<c, n + c>> /\ r.pos = 2 + 2 * n
        \/ r.cuts = <<n + c>> /\ r.pos = 2 + 2 * n + c

ShapeInv(r) ==
    /\ DOMAIN r = {"at", "kind", "infos", "todo", "cuts", "pos", "alone", "sound"}
    /\ r.at \in {"open", "write", "spill", "end"} /\ r.kind \in Kinds
    /\ r.alone \in BOOLEAN /\ r.sound \in BOOLEAN
    /\ r.at = "open" =>
          r.kind = "conftool" /\ r.infos \in Seq(GoodReadings) \ {<<>>} /\ r.pos = 1
    /\ r.at = "write" =>
          /\ r.infos \in Lists
          /\ r.pos \in 1 .. Len(Units(r.infos))
          /\ r.todo = SubSeq(Units(r.infos), r.pos, Len(Units(r.infos)))
    /\ r.at = "spill" =>
          /\ r.kind = "conftool" /\ r.infos = Garbage /\ ~r.sound
          /\ r.todo \in Seq(AnyUnit) \ {<<>>} /\ r.pos \in Nat \ {0}
    /\ r.at = "write" /\ r.kind = "library" =>
          r.cuts = <<Len(Units(r.infos))>> /\ r.pos = 1
    /\ r.at = "write" /\ r.kind = "picatest" => CallOf(r)
    /\ r.kind # "conftool" => r.infos \in Measured

\* What a writer that is alone has written is in the file f; conftool wrote no more.
WrittenInv(r, f) ==
    /\ r.at \in {"write", "spill"} => f \in Seq(AnyUnit)
    /\ r.at = "write" =>
          /\ r.alone => Agrees(f, Units(r.infos), r.pos - 1)
          /\ r.alone /\ r.kind = "conftool" => Len(f) = r.pos - 1

\* conftool means to add one process to what a whole file has, if it has read it.
AddsInv(r, v) ==
    /\ r.kind = "conftool" /\ Busy(r) /\ r.alone /\ r.sound
    /\ r.at = "open" => ~HasGarbage(r.infos)
    => \E c \in Commands : r.infos = Append(v, read_binary(c).info)

\* The file is whole only while conftool does not write to it.
QuietInv(r, whole) == whole /\ r.at \in {"write", "spill"} => r.kind # "conftool"

RunInv(r, f, v, whole) ==
    \/ r = None
    \/ ShapeInv(r) /\ WrittenInv(r, f) /\ AddsInv(r, v) /\ QuietInv(r, whole)

FileInv(f, v, whole) ==
    /\ f = Absent \/ f \in Seq(AnyUnit)
    /\ whole \in BOOLEAN
    /\ v \in Seq(Infos)
    /\ whole /\ f = Absent => v = <<>>
    /\ whole /\ f # Absent => v # <<>> /\ Agrees(f, Units(v), Len(Units(v)))

\* A writer that is alone is the only one under way.
AloneInv(W) ==
    \A w \in Writers, u \in Writers :
        Busy(W[w]) /\ W[w].alone /\ Busy(W[u]) => u = w

\* What is half written is refused.
Begun(W) == {w \in Writers : W[w] # None}
HalfInv(f, v, W) ==
    f # Absent /\ (\A w \in Begun(W) : Whole(W[w])) =>
        build_conf(f) \in {<<>>, v} \cup {W[w].infos : w \in Begun(W)}

Inv ==
    /\ DOMAIN writer = Writers
    /\ \A w \in Writers : RunInv(writer[w], file, version, intact)
    /\ FileInv(file, version, intact)
    /\ AloneInv(writer)
    /\ HalfInv(file, version, writer)

-----------------------------------------------------------------------------
(* What is read.                                                           *)

LEMMA Constants ==
  /\ Garbage \notin Names /\ Garbage \notin Seq(Readings) /\ Absent \notin Seq(AnyUnit)
  /\ \A m \in Measured : m \in Lists
  /\ Kinds \subseteq {"conftool", "picatest", "library"}
  BY ConfAssumption DEF Lists

LEMMA UnitIs ==
  ASSUME NEW f \in Seq(AnyUnit), NEW k
  PROVE  At(f, k) \in AnyUnit
<1>1. CASE k \in DOMAIN f
  <2>1. f[k] \in AnyUnit
    BY <1>1
  <2> QED BY <1>1, <2>1 DEF At
<1>2. CASE k \notin DOMAIN f
  BY <1>2 DEF At, AnyUnit
<1> QED
  BY <1>1, <1>2

LEMMA ReadIn ==
  ASSUME NEW f \in Seq(AnyUnit), NEW h, NEW k
  PROVE  NameIn(f, h, k) \in Names \cup {Garbage} /\ LibIn(f, h, k) \in GoodLibs
<1>1. ASSUME NEW x PROVE NameIn(f, h, x) \in Names \cup {Garbage}
  <2> DEFINE u == At(f, 1 + 2 * h.procs + h.digs + x)
  <2>1. u \in AnyUnit
    BY UnitIs
  <2>2. NameIn(f, h, x) = IF u.unit = "name" THEN u.name ELSE Garbage
    BY DEF NameIn
  <2> HIDE DEF u
  <2>3. u.unit = "name" => u \in [unit : {"name"}, name : Names]
    BY <2>1 DEF AnyUnit
  <2> QED BY <2>2, <2>3
<1>2. LibIn(f, h, k) \in GoodLibs
  <2> DEFINE d == At(f, 1 + 2 * h.procs + k)
             name == NameIn(f, h, d.spos)
  <2>1. d \in AnyUnit
    BY UnitIs
  <2>2. LibIn(f, h, k) = IF d.unit = "dig" THEN [path |-> name, digest |-> d.digest]
                         ELSE [path |-> Garbage, digest |-> Garbage]
    BY DEF LibIn
  <2>3. name \in Names \cup {Garbage}
    BY <1>1
  <2> HIDE DEF d, name
  <2>4. d.unit = "dig" => d.digest \in Digests
    BY <2>1 DEF AnyUnit
  <2> QED BY <2>2, <2>3, <2>4 DEF GoodLibs, Libraries
<1> QED
  BY <1>1, <1>2

LEMMA ProcIn ==
  ASSUME NEW f \in Seq(AnyUnit), NEW h, NEW i
  PROVE  ProcAt(f, h, i) \in GoodReadings
<1> DEFINE proc == At(f, 2 * i)
           libs == [j \in 1 .. proc.count |-> LibIn(f, h, proc.fpos + j - 1)]
           name == NameIn(f, h, proc.spos)
<1>1. proc \in AnyUnit
  BY UnitIs
<1>2. \/ /\ ProcAt(f, h, i) = [path |-> name, digest |-> proc.digest, libs |-> libs]
         /\ proc.unit = "proc"
      \/ ProcAt(f, h, i) = [path |-> Garbage, digest |-> Garbage, libs |-> <<>>]
  BY ProcAtIs
<1>3. name \in Names \cup {Garbage}
  BY ReadIn
<1>4. \A x : LibIn(f, h, x) \in GoodLibs
  BY ReadIn
<1> HIDE DEF proc, name
<1>5. proc.unit = "proc" => proc.digest \in Digests /\ proc.count \in Nat
  BY <1>1 DEF AnyUnit
<1>6. proc.unit = "proc" => libs \in Seq(GoodLibs)
  BY <1>4, <1>5
<1> HIDE DEF libs
<1>7. <<>> \in Seq(GoodLibs)
  OBVIOUS
<1>8. CASE ProcAt(f, h, i) = [path |-> name, digest |-> proc.digest, libs |-> libs]
           /\ proc.unit = "proc"
  <2>1. proc.digest \in Digests /\ libs \in Seq(GoodLibs)
    BY <1>5, <1>6, <1>8
  <2>2. CASE name \in Names
    BY <1>8, <2>1, <2>2 DEF GoodReadings
  <2>3. CASE name = Garbage
    BY <1>8, <2>1, <2>3 DEF GoodReadings
  <2> QED BY <1>3, <2>2, <2>3
<1>9. CASE ProcAt(f, h, i) = [path |-> Garbage, digest |-> Garbage, libs |-> <<>>]
  BY <1>7, <1>9 DEF GoodReadings
<1> QED
  BY <1>2, <1>8, <1>9

\* Readings of a file are lists of what can be read as a process.
LEMMA ReadIs ==
  ASSUME NEW f \in Seq(AnyUnit), IsHeader(f)
  PROVE  ReadUnchecked(f) \in Seq(GoodReadings) /\ f[1] \in AnyUnit
         /\ f[1].procs \in Nat /\ f[1].unit = "head"
<1>1. 1 \in DOMAIN f /\ f[1].unit = "head"
  BY DEF IsHeader, At
<1>2. f[1] \in AnyUnit
  BY <1>1
<1>3. f[1].procs \in Nat
  BY <1>1, <1>2 DEF AnyUnit
<1>4. ReadUnchecked(f) = [i \in 1 .. f[1].procs |-> ProcAt(f, f[1], i)]
  BY DEF ReadUnchecked
<1>5. ReadUnchecked(f) \in Seq(GoodReadings)
  BY <1>3, <1>4, ProcIn
<1> QED
  BY <1>1, <1>2, <1>3, <1>5

LEMMA GoodAreReadings == Seq(GoodReadings) \subseteq Seq(Readings)
<1>1. GoodLibs \subseteq [path : Names \cup {Garbage}, digest : Digests \cup {Garbage}]
  BY DEF GoodLibs, Libraries
<1>2. Seq(GoodLibs) \subseteq Seq([path : Names \cup {Garbage}, digest : Digests \cup {Garbage}])
  <2> DEFINE A == [path : Names \cup {Garbage}, digest : Digests \cup {Garbage}]
  <2> HIDE DEF A
  <2>1. GoodLibs \subseteq A
    BY <1>1 DEF A
  <2>2. Seq(GoodLibs) \subseteq Seq(A)
    BY <2>1
  <2> QED BY <2>2 DEF A
<1>3. GoodReadings \subseteq Readings
  BY <1>2 DEF GoodReadings, Readings
<1> QED
  BY <1>3

LEMMA ReadOrNot ==
  ASSUME NEW f \in Seq(AnyUnit)
  PROVE  /\ ReadUnchecked(f) # Garbage => IsHeader(f) /\ ReadUnchecked(f) \in Seq(GoodReadings)
         /\ IsHeader(f) => ReadUnchecked(f) # Garbage
  BY ReadIs, GoodAreReadings, Constants DEF ReadUnchecked

LEMMA LibsGood == Seq(Libraries) \subseteq Seq(GoodLibs)
<1>1. Libraries \subseteq GoodLibs
  BY DEF GoodLibs
<1> QED BY <1>1

LEMMA InfosGood == Infos \subseteq GoodReadings /\ Seq(Infos) \subseteq Seq(GoodReadings)
<1>1. Infos \subseteq GoodReadings
  BY LibsGood DEF Infos, GoodReadings
<1> QED BY <1>1

\* What has all its names is written as it was read.
LEMMA CleanIs ==
  ASSUME NEW m \in Seq(GoodReadings), ~HasGarbage(m)
  PROVE  m \in Seq(Infos)
<1>1. ASSUME NEW i \in 1 .. Len(m)
      PROVE  m[i] \in Infos
  <2>1. i \in DOMAIN m /\ m[i] \in GoodReadings
    OBVIOUS
  <2>2. m[i].path # Garbage /\ \A j \in DOMAIN m[i].libs : m[i].libs[j].path # Garbage
    BY <2>1 DEF HasGarbage
  <2>3. m[i] \in [path : Names, digest : Digests, libs : Seq(GoodLibs)]
    BY <2>1, <2>2 DEF GoodReadings
  <2> DEFINE s == m[i].libs
  <2>4. s \in Seq(GoodLibs) /\ \A j \in DOMAIN s : s[j].path # Garbage
    BY <2>2, <2>3
  <2> HIDE DEF s
  <2>5. ASSUME NEW j \in 1 .. Len(s)
        PROVE  s[j] \in Libraries
    <3>1. s[j] \in GoodLibs /\ s[j].path # Garbage
      BY <2>4
    <3> QED BY <3>1 DEF GoodLibs
  <2>6. s \in Seq(Libraries)
    <3>1. s = [j \in 1 .. Len(s) |-> s[j]] /\ Len(s) \in Nat
      BY <2>4
    <3> QED BY <3>1, <2>5
  <2> QED BY <2>3, <2>6 DEF Infos, s
<1>2. m = [i \in 1 .. Len(m) |-> m[i]] /\ Len(m) \in Nat
  OBVIOUS
<1> QED BY <1>1, <1>2

\* read_binary fills in what is registered.
LEMMA Binary ==
  ASSUME NEW c \in Commands
  PROVE  read_binary(c).count > 0 => read_binary(c).info \in Infos
<1>1. c \in Programs /\ Zeros \in Digests /\ NoFile \notin Digests
  BY ConfAssumption
<1> DEFINE A == [path : Names, digest : Digests \cup {NoFile}]
           libs == [j \in DOMAIN c.libs |->
                      [c.libs[j] EXCEPT !.digest = IF @ = NoFile THEN Zeros ELSE @]]
<1>2. c.path \in Names /\ c.digest \in Digests \cup {NoFile} /\ c.libs \in Seq(A)
  BY <1>1 DEF Programs
<1>3. libs \in Seq(Libraries)
  <2>1. ASSUME NEW j \in DOMAIN c.libs
        PROVE  [c.libs[j] EXCEPT !.digest = IF @ = NoFile THEN Zeros ELSE @] \in Libraries
    <3>1. c.libs[j] \in A
      <4> HIDE DEF A
      <4> QED BY <1>2
    <3> QED BY <1>1, <3>1 DEF Libraries
  <2>2. DOMAIN c.libs = 1 .. Len(c.libs) /\ Len(c.libs) \in Nat
    <3> HIDE DEF A
    <3> QED BY <1>2
  <2> HIDE DEF A
  <2>3. libs \in [1 .. Len(c.libs) -> Libraries]
    BY <2>1, <2>2
  <2> HIDE DEF libs
  <2> QED BY <2>2, <2>3
<1>4. read_binary(c).info = [path |-> c.path, digest |-> c.digest, libs |-> libs]
  BY DEF read_binary
<1>5. read_binary(c).count > 0 => c.digest # NoFile
  BY DEF read_binary
<1> HIDE DEF libs
<1> QED
  BY <1>2, <1>3, <1>4, <1>5 DEF Infos

-----------------------------------------------------------------------------
(* What is written.                                                        *)

LEMMA PutIs ==
  ASSUME file \in Seq(AnyUnit), NEW u \in Seq(AnyUnit), NEW p \in Nat \ {0}
  PROVE  /\ Put(u, p) \in Seq(AnyUnit)
         /\ u = <<>> => Put(u, p) = file
         /\ u # <<>> =>
              /\ Len(Put(u, p)) = IF Len(file) < p + Len(u) - 1 THEN p + Len(u) - 1 ELSE Len(file)
              /\ \A k \in 1 .. Len(Put(u, p)) :
                    Put(u, p)[k] = IF k \in p .. p + Len(u) - 1 THEN u[k - p + 1] ELSE At(file, k)
<1> DEFINE n == IF Len(file) < p + Len(u) - 1 THEN p + Len(u) - 1 ELSE Len(file)
           e(k) == IF k \in p .. p + Len(u) - 1 THEN u[k - p + 1] ELSE At(file, k)
<1>1. CASE u = <<>>
  BY <1>1 DEF Put
<1>2. CASE u # <<>>
  <2>1. Put(u, p) = [k \in 1 .. n |-> e(k)]
    BY <1>2 DEF Put
  <2>2. n \in Nat
    OBVIOUS
  <2>3. ASSUME NEW k \in 1 .. n PROVE e(k) \in AnyUnit
    <3>1. CASE k \in p .. p + Len(u) - 1
      <4>1. k - p + 1 \in 1 .. Len(u)
        BY <3>1
      <4>2. u[k - p + 1] \in AnyUnit
        BY <4>1
      <4> QED BY <3>1, <4>2
    <3>2. CASE k \notin p .. p + Len(u) - 1
      BY <3>2, UnitIs
    <3> QED BY <3>1, <3>2
  <2> HIDE DEF n, e
  <2>4. [k \in 1 .. n |-> e(k)] \in Seq(AnyUnit) /\ Len([k \in 1 .. n |-> e(k)]) = n
    BY <2>2, <2>3
  <2>5. \A k \in 1 .. n : [j \in 1 .. n |-> e(j)][k] = e(k)
    OBVIOUS
  <2>6. Put(u, p) \in Seq(AnyUnit) /\ Len(Put(u, p)) = n /\ \A k \in 1 .. n : Put(u, p)[k] = e(k)
    BY <2>1, <2>4, <2>5
  <2> QED BY <1>2, <2>6 DEF n, e
<1> QED
  BY <1>1, <1>2

LEMMA Parts ==
  ASSUME NEW U \in Seq(AnyUnit), NEW p \in 1 .. Len(U), NEW n \in 0 .. Len(U) - p + 1
  PROVE  LET t == SubSeq(U, p, Len(U))
             u == SubSeq(t, 1, n)
         IN  /\ t \in Seq(AnyUnit) /\ Len(t) = Len(U) - p + 1
             /\ u \in Seq(AnyUnit) /\ Len(u) = n
             /\ \A k \in 1 .. n : u[k] = U[p + k - 1]
             /\ n < Len(t) => SubSeq(t, n + 1, Len(t)) = SubSeq(U, p + n, Len(U))
<1> DEFINE t == SubSeq(U, p, Len(U))
           u == SubSeq(t, 1, n)
<1>1. /\ t \in Seq(AnyUnit) /\ Len(t) = Len(U) - p + 1
      /\ \A k \in 1 .. Len(U) - p + 1 : t[k] = U[p + k - 1]
  OBVIOUS
<1> HIDE DEF t
<1>2. u \in Seq(AnyUnit) /\ Len(u) = n /\ \A k \in 1 .. n : u[k] = t[k]
  BY <1>1
<1>3. \A k \in 1 .. n : k \in 1 .. Len(U) - p + 1
  OBVIOUS
<1>4. ASSUME n < Len(t)
      PROVE  SubSeq(t, n + 1, Len(t)) = SubSeq(U, p + n, Len(U))
  <2> DEFINE a == SubSeq(t, n + 1, Len(t))
             b == SubSeq(U, p + n, Len(U))
  <2>1. a \in Seq(AnyUnit) /\ Len(a) = Len(t) - n /\ \A k \in 1 .. Len(t) - n : a[k] = t[n + k]
    BY <1>1, <1>4
  <2>2. b \in Seq(AnyUnit) /\ Len(b) = Len(t) - n /\ \A k \in 1 .. Len(t) - n : b[k] = U[p + n + k - 1]
    BY <1>1, <1>4
  <2>3. ASSUME NEW k \in 1 .. Len(t) - n PROVE t[n + k] = U[p + n + k - 1]
    <3>1. n + k \in 1 .. Len(U) - p + 1 /\ p + (n + k) - 1 = p + n + k - 1
      BY <1>1, <1>4
    <3> QED BY <1>1, <3>1
  <2> HIDE DEF a, b
  <2>4. a = b
    <3>1. \A k \in 1 .. Len(a) : a[k] = b[k]
      BY <2>1, <2>2, <2>3
    <3>2. Len(a) = Len(b)
      BY <2>1, <2>2
    <3>3. a \in Seq(AnyUnit) /\ b \in Seq(AnyUnit)
      BY <2>1, <2>2
    <3> QED BY <3>1, <3>2, <3>3, SeqEqual
  <2> QED BY <2>4 DEF a, b
<1>5. \A k \in 1 .. n : u[k] = U[p + k - 1]
  BY <1>1, <1>2, <1>3
<1> HIDE DEF u
<1> QED
  BY <1>1, <1>2, <1>4, <1>5 DEF t, u

\* A part of what is meant, written at its place.
LEMMA PutPart ==
  ASSUME file \in Seq(AnyUnit), NEW U \in Seq(AnyUnit),
         NEW p \in 1 .. Len(U), NEW n \in 0 .. Len(U) - p + 1
  PROVE  LET g == Put(SubSeq(SubSeq(U, p, Len(U)), 1, n), p)
         IN  /\ g \in Seq(AnyUnit)
             /\ Agrees(file, U, p - 1) => Agrees(g, U, p - 1 + n)
             /\ Agrees(file, U, p - 1) /\ Len(file) = p - 1 => Len(g) = p - 1 + n
<1> DEFINE u == SubSeq(SubSeq(U, p, Len(U)), 1, n)
           g == Put(u, p)
<1>1. u \in Seq(AnyUnit) /\ Len(u) = n /\ \A k \in 1 .. n : u[k] = U[p + k - 1]
  BY Parts
<1> HIDE DEF u
<1>2. Len(file) \in Nat /\ Len(U) \in Nat /\ p \in Nat \ {0} /\ n \in Nat
  OBVIOUS
<1>3. CASE n = 0
  <2>1. u = <<>>
    BY <1>1, <1>3
  <2>2. g = file
    BY <1>1, <1>2, <2>1, PutIs
  <2> HIDE DEF g
  <2> QED BY <1>2, <1>3, <2>2 DEF g, u
<1>4. CASE n # 0
  <2>1. u # <<>>
    BY <1>1, <1>4
  <2>2. /\ g \in Seq(AnyUnit)
        /\ Len(g) = IF Len(file) < p + n - 1 THEN p + n - 1 ELSE Len(file)
        /\ \A k \in 1 .. Len(g) : g[k] = IF k \in p .. p + n - 1 THEN u[k - p + 1] ELSE At(file, k)
    BY <1>1, <1>2, <2>1, PutIs
  <2> HIDE DEF g
  <2>3. ASSUME Agrees(file, U, p - 1)
        PROVE  Agrees(g, U, p - 1 + n) /\ (Len(file) = p - 1 => Len(g) = p - 1 + n)
    <3>1. Len(file) >= p - 1 /\ \A j \in 1 .. p - 1 : file[j] = U[j]
      BY <2>3 DEF Agrees
    <3>2. Len(g) >= p - 1 + n /\ (Len(file) = p - 1 => Len(g) = p - 1 + n)
      BY <1>2, <1>4, <2>2, <3>1
    <3>3. ASSUME NEW j \in 1 .. p - 1 + n PROVE g[j] = U[j]
      <4>1. j \in 1 .. Len(g)
        BY <1>2, <2>2, <3>2
      <4>2. CASE j \in p .. p + n - 1
        <5>1. j - p + 1 \in 1 .. n /\ p + (j - p + 1) - 1 = j
          BY <1>2, <4>2
        <5>2. u[j - p + 1] = U[p + (j - p + 1) - 1]
          BY <1>1, <5>1
        <5> QED BY <2>2, <4>1, <4>2, <5>1, <5>2
      <4>3. CASE j \notin p .. p + n - 1
        <5>1. j \in 1 .. p - 1 /\ j \in 1 .. Len(file)
          BY <1>2, <3>1, <4>3
        <5>2. j \in DOMAIN file
          BY <5>1
        <5>3. At(file, j) = U[j]
          BY <3>1, <5>1, <5>2 DEF At
        <5> QED BY <2>2, <4>1, <4>3, <5>3
      <4> QED BY <4>2, <4>3
    <3> QED BY <3>2, <3>3 DEF Agrees
  <2> QED BY <2>2, <2>3 DEF g, u
<1> QED
  BY <1>3, <1>4

\* A file that ends before what the header says is refused.
LEMMA ShortIsRefused ==
  ASSUME NEW m \in Seq(Infos), NEW f \in Seq(AnyUnit),
         Len(f) < Len(Units(m)), Agrees(f, Units(m), Len(f))
  PROVE  build_conf(f) = <<>>
<1>1. /\ Len(m) \in Nat /\ LibCount(m) \in Nat /\ Len(f) \in Nat
      /\ Len(Units(m)) = 1 + 2 * Len(m) + LibCount(m) + (Len(m) + LibCount(m))
      /\ Units(m)[1] = Header(m)
  BY CountsAre, UnitsAre
<1>2. CASE Len(f) = 0
  <2>1. 1 \notin DOMAIN f
    BY <1>2
  <2>2. ~IsHeader(f)
    BY <2>1 DEF IsHeader, At
  <2> QED BY <2>2 DEF build_conf
<1>3. CASE Len(f) # 0
  <2>1. f[1] = Header(m)
    <3>1. 1 \in 1 .. Len(f)
      BY <1>1, <1>3
    <3>2. f[1] = Units(m)[1]
      BY <3>1 DEF Agrees
    <3> QED BY <1>1, <3>2
  <2>2. Expected(f[1]) = Len(Units(m))
    BY <1>1, <2>1 DEF Expected, Header
  <2> QED BY <1>1, <2>2 DEF build_conf
<1> QED
  BY <1>2, <1>3

LEMMA EmptyIsRefused == <<>> \in Seq(AnyUnit) /\ build_conf(<<>>) = <<>>
  BY DEF build_conf, IsHeader, At

\* What is whole is taken for what was written, or refused.
LEMMA WholeIsTaken ==
  ASSUME NEW m \in Seq(Infos), NEW f \in Seq(AnyUnit), Agrees(f, Units(m), Len(Units(m)))
  PROVE  /\ build_conf(f) \in {<<>>, m}
         /\ Len(f) = Len(Units(m)) => build_conf(f) = m
<1>1. IsHeader(f) /\ f[1] = Header(m) /\ ReadUnchecked(f) = m
  BY ReadBack
<1>2. Len(Units(m)) = Expected(Header(m))
  BY CountsAre, UnitsAre DEF Expected, Header
<1> QED
  BY <1>1, <1>2 DEF build_conf

-----------------------------------------------------------------------------
(* The writers that do not move.                                           *)

LEMMA NoneIs == ~Busy(None) /\ None.at = "none"
  BY DEF Busy, None

\* A writer that is not the one under way.
LEMMA OthersStay ==
  ASSUME NEW W, NEW w \in Writers, NEW u \in Writers, u # w, AloneInv(W), Busy(W[w]),
         NEW f, NEW g, NEW v, NEW v2, NEW b, NEW b2,
         RunInv(W[u], f, v, b), g = f \/ g \in Seq(AnyUnit), b2 => b \/ W[w].alone
  PROVE  RunInv(W[u], g, v2, b2)
<1> DEFINE r == W[u]
<1>1. CASE r = None
  BY <1>1 DEF RunInv
<1>2. CASE ShapeInv(r) /\ WrittenInv(r, f) /\ AddsInv(r, v) /\ QuietInv(r, b)
  <2>1. Busy(r) => ~W[w].alone /\ ~r.alone
    <3>1. W[w].alone /\ Busy(r) => FALSE
      BY DEF AloneInv
    <3>2. r.alone /\ Busy(r) => FALSE
      BY DEF AloneInv
    <3>3. r.alone \in BOOLEAN
      BY <1>2 DEF ShapeInv
    <3> QED BY <3>1, <3>2, <3>3
  <2> HIDE DEF r
  <2>2. r.at \in {"write", "spill"} => Busy(r)
    BY DEF Busy
  <2>3. WrittenInv(r, g)
    BY <1>2, <2>1, <2>2 DEF WrittenInv
  <2>4. AddsInv(r, v2)
    BY <2>1 DEF AddsInv
  <2>5. QuietInv(r, b2)
    BY <1>2, <2>1, <2>2 DEF QuietInv
  <2> QED BY <1>2, <2>3, <2>4, <2>5 DEF RunInv, r
<1> QED
  BY <1>1, <1>2 DEF RunInv

\* A writer that another begins beside.
Beside(r) == IF Busy(r) THEN [r EXCEPT !.alone = FALSE] ELSE r

LEMMA BesideShape ==
  ASSUME NEW r, ShapeInv(r), NEW q, q = [r EXCEPT !.alone = FALSE]
  PROVE  ShapeInv(q) /\ q.alone = FALSE /\ q.at = r.at /\ q.kind = r.kind /\ q.infos = r.infos
         /\ q.pos = r.pos /\ q.cuts = r.cuts
<1>1. DOMAIN q = DOMAIN r
  OBVIOUS
<1>2. /\ q.at = r.at /\ q.kind = r.kind /\ q.infos = r.infos /\ q.todo = r.todo
      /\ q.cuts = r.cuts /\ q.pos = r.pos /\ q.alone = FALSE /\ q.sound = r.sound
  BY DEF ShapeInv
<1>3. CallOf(q) <=> CallOf(r)
  BY <1>2 DEF CallOf
<1>4. ShapeInv(q)
  BY <1>1, <1>2, <1>3 DEF ShapeInv
<1> QED
  BY <1>2, <1>4

LEMMA OthersBeside ==
  ASSUME NEW r, NEW f, NEW g, NEW v, NEW b, NEW b2,
         RunInv(r, f, v, b), g = f \/ g \in Seq(AnyUnit), b2 => b
  PROVE  RunInv(Beside(r), g, v, b2)
<1>1. CASE r = None
  BY <1>1, NoneIs DEF RunInv, Beside
<1>2. CASE ShapeInv(r) /\ WrittenInv(r, f) /\ AddsInv(r, v) /\ QuietInv(r, b)
  <2>1. CASE Busy(r)
    <3> DEFINE q == [r EXCEPT !.alone = FALSE]
    <3>1. ShapeInv(q) /\ q.alone = FALSE /\ q.at = r.at /\ q.kind = r.kind /\ q.infos = r.infos
          /\ q.pos = r.pos
      BY <1>2, BesideShape
    <3>2. Beside(r) = q
      BY <2>1 DEF Beside
    <3> HIDE DEF q
    <3>3. WrittenInv(q, g) /\ AddsInv(q, v) /\ QuietInv(q, b2)
      BY <1>2, <3>1 DEF WrittenInv, AddsInv, QuietInv
    <3> QED BY <3>1, <3>2, <3>3 DEF RunInv
  <2>2. CASE ~Busy(r)
    <3>1. Beside(r) = r /\ r.at \notin {"write", "spill"}
      BY <2>2 DEF Beside, Busy
    <3>2. WrittenInv(r, g) /\ AddsInv(r, v) /\ QuietInv(r, b2)
      BY <2>2, <3>1 DEF WrittenInv, AddsInv, QuietInv
    <3> QED BY <1>2, <3>1, <3>2 DEF RunInv
  <2> QED BY <2>1, <2>2
<1> QED
  BY <1>1, <1>2 DEF RunInv

LEMMA StepAlone ==
  ASSUME NEW W, NEW X, NEW w \in Writers, AloneInv(W), Busy(W[w]),
         \A u \in Writers : u # w => X[u] = W[u],
         X[w].alone = W[w].alone
  PROVE  AloneInv(X)
<1> SUFFICES ASSUME NEW a \in Writers, NEW u \in Writers, Busy(X[a]), X[a].alone, Busy(X[u])
             PROVE  u = a
  BY DEF AloneInv
<1>1. Busy(W[a]) /\ W[a].alone /\ Busy(W[u])
  <2>1. CASE a = w
    BY <2>1
  <2>2. CASE a # w
    BY <2>2
  <2> QED BY <2>1, <2>2
<1> QED
  BY <1>1 DEF AloneInv

LEMMA BesideIs ==
  ASSUME NEW r, NEW f, NEW v, NEW b, RunInv(r, f, v, b)
  PROVE  /\ Busy(Beside(r)) <=> Busy(r)
         /\ Busy(Beside(r)) => ~Beside(r).alone /\ ~Whole(Beside(r)) /\ Beside(r) # None
         /\ (~Busy(r)) => Beside(r) = r
<1>1. CASE ~Busy(r)
  BY <1>1 DEF Beside
<1>2. CASE Busy(r)
  <2>1. ShapeInv(r)
    BY <1>2, NoneIs DEF RunInv
  <2>2. Beside(r).alone = FALSE /\ Beside(r).at = r.at
    BY <1>2, <2>1, BesideShape DEF Beside
  <2>3. Busy(Beside(r))
    BY <1>2, <2>2 DEF Busy
  <2> QED BY <1>2, <2>2, <2>3, NoneIs DEF Whole
<1> QED
  BY <1>1, <1>2

-----------------------------------------------------------------------------
(* The steps.                                                              *)

LEMMA Begins ==
  ASSUME Inv, NEW w \in Writers, NEW at, NEW kind, NEW infos, NEW todo, NEW cuts,
         Begin(w, at, kind, infos, todo, cuts)
  PROVE  /\ writer[w] = None /\ DOMAIN writer' = Writers
         /\ writer'[w] = [at |-> at, kind |-> kind, infos |-> infos, todo |-> todo,
                          cuts |-> cuts, pos |-> 1, alone |-> Alone(w), sound |-> intact]
         /\ Alone(w) \in BOOLEAN /\ intact \in BOOLEAN
         /\ \A u \in Writers : u # w => writer'[u] = Beside(writer[u])
<1>1. writer[w] = None /\ DOMAIN writer' = Writers
  BY DEF Begin
<1>2. writer'[w] = [at |-> at, kind |-> kind, infos |-> infos, todo |-> todo,
                    cuts |-> cuts, pos |-> 1, alone |-> Alone(w), sound |-> intact]
  BY DEF Begin
<1>3. Alone(w) \in BOOLEAN /\ intact \in BOOLEAN
  <2>1. Alone(w) \in BOOLEAN
    BY DEF Alone
  <2>2. intact \in BOOLEAN
    BY DEF Inv, FileInv
  <2> QED BY <2>1, <2>2
<1>4. ASSUME NEW u \in Writers, u # w
      PROVE  writer'[u] = Beside(writer[u])
  BY <1>4 DEF Begin, Beside, Active, Busy
<1> QED
  BY <1>1, <1>2, <1>3, <1>4

LEMMA BeginOthers ==
  ASSUME Inv, NEW w \in Writers, NEW at, NEW kind, NEW infos, NEW todo, NEW cuts,
         Begin(w, at, kind, infos, todo, cuts),
         NEW g, NEW b, g = file \/ g \in Seq(AnyUnit), b => intact
  PROVE  \A u \in Writers : u # w => RunInv(writer'[u], g, version, b)
<1> SUFFICES ASSUME NEW u \in Writers, u # w
             PROVE  RunInv(writer'[u], g, version, b)
  OBVIOUS
<1>1. RunInv(writer[u], file, version, intact)
  BY DEF Inv
<1>2. RunInv(Beside(writer[u]), g, version, b)
  BY <1>1, OthersBeside
<1>3. writer'[u] = Beside(writer[u])
  BY Begins
<1> QED
  BY <1>2, <1>3

LEMMA BeginAlone ==
  ASSUME Inv, NEW w \in Writers, NEW at, NEW kind, NEW infos, NEW todo, NEW cuts,
         Begin(w, at, kind, infos, todo, cuts)
  PROVE  AloneInv(writer')
<1> DEFINE X == writer'
<1>1. X[w].alone = Alone(w)
  <2>1. writer'[w] = [at |-> at, kind |-> kind, infos |-> infos, todo |-> todo,
                       cuts |-> cuts, pos |-> 1, alone |-> Alone(w), sound |-> intact]
    BY Begins
  <2> QED BY <2>1
<1>2. ASSUME NEW u \in Writers, u # w
      PROVE  Busy(X[u]) => Busy(writer[u]) /\ ~X[u].alone
  <2>1. X[u] = Beside(writer[u])
    BY <1>2, Begins
  <2>2. RunInv(writer[u], file, version, intact)
    BY DEF Inv
  <2> HIDE DEF X
  <2> QED BY <2>1, <2>2, BesideIs
<1>3. Alone(w) => \A u \in Writers \ {w} : ~Busy(writer[u])
  BY DEF Alone, Active, Busy
<1> HIDE DEF X
<1>4. ASSUME NEW a \in Writers, NEW u \in Writers, Busy(X[a]), X[a].alone, Busy(X[u])
      PROVE  u = a
  <2>1. a = w
    BY <1>2, <1>4
  <2>2. \A x \in Writers \ {w} : ~Busy(writer[x])
    BY <1>1, <1>3, <1>4, <2>1
  <2> QED BY <1>2, <1>4, <2>1, <2>2
<1> QED
  BY <1>4 DEF AloneInv, X

LEMMA BeginHalf ==
  ASSUME Inv, NEW w \in Writers, NEW at, NEW kind, NEW infos, NEW todo, NEW cuts,
         Begin(w, at, kind, infos, todo, cuts)
  PROVE  HalfInv(file, version, writer')
<1> DEFINE X == writer'
           W == writer
<1>1. W[w] = None /\ X[w] # None
  <2>1. W[w] = None
    BY Begins
  <2>2. DOMAIN X[w] = {"at", "kind", "infos", "todo", "cuts", "pos", "alone", "sound"}
    <3>1. writer'[w] = [at |-> at, kind |-> kind, infos |-> infos, todo |-> todo,
                       cuts |-> cuts, pos |-> 1, alone |-> Alone(w), sound |-> intact]
      BY Begins
    <3> QED BY <3>1
  <2>3. DOMAIN None = {"at"}
    BY DEF None
  <2> QED BY <2>1, <2>2, <2>3
<1>2. ASSUME NEW u \in Writers, u # w
      PROVE  /\ Busy(W[u]) => X[u] # None /\ ~Whole(X[u])
             /\ ~Busy(W[u]) => X[u] = W[u]
  <2>1. X[u] = Beside(W[u])
    BY <1>2, Begins
  <2>2. RunInv(W[u], file, version, intact)
    BY DEF Inv
  <2>3. /\ Busy(Beside(W[u])) <=> Busy(W[u])
        /\ Busy(Beside(W[u])) => ~Whole(Beside(W[u])) /\ Beside(W[u]) # None
        /\ (~Busy(W[u])) => Beside(W[u]) = W[u]
    BY <2>2, BesideIs
  <2> HIDE DEF X, W
  <2> QED BY <2>1, <2>3
<1>3. HalfInv(file, version, W)
  BY DEF Inv
<1> HIDE DEF X, W
<1>4. ASSUME \A x \in Begun(X) : Whole(X[x])
      PROVE  \A x \in Begun(W) : x \in Begun(X) /\ X[x] = W[x]
  <2> SUFFICES ASSUME NEW x \in Begun(W) PROVE x \in Begun(X) /\ X[x] = W[x]
    OBVIOUS
  <2>1. x \in Writers /\ x # w /\ W[x] # None
    BY <1>1 DEF Begun
  <2>2. ~Busy(W[x])
    <3> SUFFICES ASSUME Busy(W[x]) PROVE FALSE
      OBVIOUS
    <3>1. X[x] # None /\ ~Whole(X[x])
      BY <1>2, <2>1
    <3>2. x \in Begun(X)
      BY <2>1, <3>1 DEF Begun
    <3> QED BY <1>4, <3>1, <3>2
  <2>3. X[x] = W[x]
    BY <1>2, <2>1, <2>2
  <2> QED BY <2>1, <2>3 DEF Begun
<1>5. HalfInv(file, version, X)
  <2> SUFFICES ASSUME file # Absent, \A x \in Begun(X) : Whole(X[x])
               PROVE  build_conf(file) \in {<<>>, version} \cup {X[x].infos : x \in Begun(X)}
    BY DEF HalfInv
  <2>1. \A x \in Begun(W) : x \in Begun(X) /\ X[x] = W[x]
    BY <1>4
  <2>2. \A x \in Begun(W) : Whole(W[x])
    BY <2>1
  <2>3. build_conf(file) \in {<<>>, version} \cup {W[x].infos : x \in Begun(W)}
    BY <1>3, <2>2 DEF HalfInv
  <2>4. {W[x].infos : x \in Begun(W)} \subseteq {X[x].infos : x \in Begun(X)}
    BY <2>1
  <2> QED BY <2>3, <2>4
<1> QED
  BY <1>5 DEF X

\* A whole file is read as the processes it should have.
LEMMA WholeRead ==
  ASSUME NEW f, NEW v, FileInv(f, v, TRUE), f # Absent
  PROVE  /\ f \in Seq(AnyUnit) /\ v \in Lists /\ Agrees(f, Units(v), Len(Units(v)))
         /\ IsHeader(f) /\ ReadUnchecked(f) = v
<1>1. f \in Seq(AnyUnit) /\ v \in Lists /\ Agrees(f, Units(v), Len(Units(v))) /\ v \in Seq(Infos)
  BY DEF FileInv, Lists
<1> QED
  BY <1>1, ReadBack

\* What conftool is about to write when it has read.
LEMMA ReadConfIs ==
  ASSUME NEW w \in Writers, NEW c \in Commands, ReadConf(w, c)
  PROVE  /\ "conftool" \in Kinds /\ UNCHANGED <<file, version, intact>>
         /\ \/ Begin(w, "end", "conftool", <<>>, <<>>, <<>>)
            \/ /\ read_binary(c).count > 0
               /\ file # Absent /\ ReadUnchecked(file) # Garbage
               /\ Begin(w, "open", "conftool",
                        Append(ReadUnchecked(file), read_binary(c).info), <<>>, <<>>)
            \/ /\ read_binary(c).count > 0
               /\ file = Absent \/ ReadUnchecked(file) = Garbage
               /\ \E at \in {"open", "end"},
                     infos \in {<<read_binary(c).info>>, <<Unset, read_binary(c).info>>} :
                     Begin(w, at, "conftool", infos, <<>>, <<>>)
<1>1. read_binary(c).count \in Int
  <2>1. c.libs \in Seq([path : Names, digest : Digests \cup {NoFile}])
    BY ConfAssumption DEF Programs
  <2>2. Len(c.libs) \in Nat
    BY <2>1
  <2> QED BY <2>2 DEF read_binary
<1> HIDE DEF read_binary, ReadUnchecked, Begin
<1> QED
  BY <1>1 DEF ReadConf, ReadConfFor, InFile

LEMMA NewShape ==
  ASSUME "conftool" \in Kinds, NEW at \in {"open", "end"}, NEW infos, NEW alone \in BOOLEAN,
         NEW sound \in BOOLEAN, at = "open" => infos \in Seq(GoodReadings) \ {<<>>},
         NEW r, r = [at |-> at, kind |-> "conftool", infos |-> infos, todo |-> <<>>,
                     cuts |-> <<>>, pos |-> 1, alone |-> alone, sound |-> sound]
  PROVE  ShapeInv(r)
  BY DEF ShapeInv

LEMMA StepRead ==
  ASSUME Inv, NEW w \in Writers, NEW c \in Commands, ReadConf(w, c)
  PROVE  Inv'
<1> DEFINE info == read_binary(c).info
           read == ReadUnchecked(file)
<1>1. UNCHANGED <<file, version, intact>> /\ "conftool" \in Kinds
  BY ReadConfIs
<1>2. FileInv(file, version, intact) /\ intact \in BOOLEAN
  BY DEF Inv, FileInv
<1>3. ASSUME NEW at \in {"open", "end"}, NEW infos,
             Begin(w, at, "conftool", infos, <<>>, <<>>),
             at = "open" => infos \in Seq(GoodReadings) \ {<<>>},
             at = "open" /\ intact /\ ~HasGarbage(infos) => infos = Append(version, info)
      PROVE  Inv'
  <2> DEFINE r == writer'[w]
  <2>1. r = [at |-> at, kind |-> "conftool", infos |-> infos, todo |-> <<>>,
             cuts |-> <<>>, pos |-> 1, alone |-> Alone(w), sound |-> intact]
        /\ DOMAIN writer' = Writers /\ Alone(w) \in BOOLEAN
    BY <1>3, Begins
  <2> HIDE DEF r
  <2>2. ShapeInv(r)
    BY <1>1, <1>2, <1>3, <2>1, NewShape
  <2>3. WrittenInv(r, file) /\ QuietInv(r, intact)
    BY <1>3, <2>1 DEF WrittenInv, QuietInv
  <2>4. AddsInv(r, version)
    <3> SUFFICES ASSUME Busy(r), r.sound, r.at = "open" => ~HasGarbage(r.infos)
                 PROVE  \E d \in Commands : r.infos = Append(version, read_binary(d).info)
      BY DEF AddsInv
    <3>1. at = "open" /\ intact /\ r.at = at /\ r.infos = infos /\ ~HasGarbage(infos)
      BY <1>3, <2>1 DEF Busy
    <3> QED BY <1>3, <2>1, <3>1
  <2>5. RunInv(r, file, version, intact)
    BY <2>2, <2>3, <2>4 DEF RunInv
  <2>6. \A u \in Writers : u # w => RunInv(writer'[u], file, version, intact)
    BY <1>3, BeginOthers
  <2>7. AloneInv(writer') /\ HalfInv(file, version, writer')
    BY <1>3, BeginAlone, BeginHalf
  <2> QED
    BY <1>1, <1>2, <2>1, <2>5, <2>6, <2>7 DEF Inv, r
<1>4. CASE Begin(w, "end", "conftool", <<>>, <<>>, <<>>)
  BY <1>3, <1>4
<1>5. ASSUME read_binary(c).count > 0
      PROVE  info \in Infos /\ info \in GoodReadings
  BY <1>5, Binary, InfosGood
<1>6. ASSUME file # Absent
      PROVE  /\ file \in Seq(AnyUnit)
             /\ intact => IsHeader(file) /\ read = version
  <2>1. file \in Seq(AnyUnit)
    BY <1>2, <1>6 DEF FileInv
  <2>2. intact => FileInv(file, version, TRUE)
    BY <1>2
  <2> QED BY <1>6, <2>1, <2>2, WholeRead
<1>7. CASE /\ read_binary(c).count > 0
           /\ file # Absent /\ read # Garbage
           /\ Begin(w, "open", "conftool", Append(read, info), <<>>, <<>>)
  <2>1. read \in Seq(GoodReadings)
    BY <1>6, <1>7, ReadOrNot
  <2>2. info \in GoodReadings
    BY <1>5, <1>7
  <2>3. intact => read = version
    BY <1>6, <1>7
  <2> HIDE DEF read, info
  <2>4. Append(read, info) \in Seq(GoodReadings) \ {<<>>}
    <3>1. Append(read, info) \in Seq(GoodReadings) /\ Append(read, info) # <<>>
      BY <2>1, <2>2, AppendProperties
    <3> QED BY <3>1
  <2>5. intact => Append(read, info) = Append(version, info)
    BY <2>3
  <2> QED BY <1>3, <1>7, <2>4, <2>5
<1>8. CASE /\ read_binary(c).count > 0
           /\ file = Absent \/ read = Garbage
           /\ \E at \in {"open", "end"}, infos \in {<<info>>, <<Unset, info>>} :
                 Begin(w, at, "conftool", infos, <<>>, <<>>)
  <2>1. info \in GoodReadings /\ Unset \in GoodReadings
    <3>1. Unset \in GoodReadings
      BY DEF GoodReadings, Unset
    <3> QED BY <1>5, <1>8, <3>1
  <2>2. intact => version = <<>>
    <3> SUFFICES ASSUME intact PROVE version = <<>>
      OBVIOUS
    <3>1. file = Absent
      BY <1>6, <1>8, ReadOrNot
    <3> QED BY <1>2, <3>1 DEF FileInv
  <2> HIDE DEF read, info
  <2>3. /\ <<info>> \in Seq(GoodReadings) \ {<<>>}
        /\ <<Unset, info>> \in Seq(GoodReadings) \ {<<>>}
    BY <2>1
  <2>5. HasGarbage(<<Unset, info>>)
    <3> DEFINE m == <<Unset, info>>
    <3>1. 1 \in DOMAIN m /\ m[1] = Unset /\ Unset.path = Garbage
      BY DEF Unset
    <3> HIDE DEF m
    <3>2. HasGarbage(m)
      BY <3>1 DEF HasGarbage
    <3> QED BY <3>2 DEF m
  <2>4. intact => <<info>> = Append(version, info)
    <3>1. <<info>> = Append(<<>>, info)
      OBVIOUS
    <3> QED BY <2>2, <3>1
  <2> QED BY <1>3, <1>8, <2>3, <2>4, <2>5
<1> QED
  BY <1>4, <1>7, <1>8, ReadConfIs

LEMMA WholeSub ==
  ASSUME NEW U \in Seq(AnyUnit)
  PROVE  SubSeq(U, 1, Len(U)) = U
  OBVIOUS

LEMMA UnitsLen ==
  ASSUME NEW m \in Lists
  PROVE  /\ m \in Seq(Infos) /\ Len(m) \in Nat \ {0} /\ LibCount(m) \in Nat
         /\ Units(m) \in Seq(AnyUnit)
         /\ Len(Units(m)) = 1 + 2 * Len(m) + LibCount(m) + (Len(m) + LibCount(m))
<1>1. m \in Seq(Infos) /\ m # <<>>
  BY DEF Lists
<1>2. Len(m) \in Nat \ {0}
  BY <1>1
<1> QED BY <1>1, <1>2, UnitsAre, CountsAre

\* The four calls of picatest.
LEMMA CutsAre ==
  ASSUME NEW m \in Lists
  PROVE  CutsOf("picatest", m)
           = <<1, 2 * Len(m), LibCount(m), Len(m) + LibCount(m)>>
<1> DEFINE s == Sections(m)
           c == CutsOf("picatest", m)
           d == <<1, 2 * Len(m), LibCount(m), Len(m) + LibCount(m)>>
<1>1. s = <<<<Header(m)>>, Procs(m, Bases(m)), Digs(m), Strs(m)>>
  BY DEF Sections, SectionsBy, Bases
<1>2. Len(s[1]) = 1 /\ Len(s[2]) = 2 * Len(m) /\ Len(s[3]) = LibCount(m)
      /\ Len(s[4]) = Len(m) + LibCount(m)
  BY <1>1, UnitsLen, SectionsAre
<1> HIDE DEF s
<1>3. c = [i \in 1 .. 4 |-> Len(s[i])]
  BY DEF CutsOf, s
<1>4. d = [i \in 1 .. 4 |-> d[i]] /\ d[1] = 1 /\ d[2] = 2 * Len(m) /\ d[3] = LibCount(m)
      /\ d[4] = Len(m) + LibCount(m)
  OBVIOUS
<1>5. \A i \in 1 .. 4 : i = 1 \/ i = 2 \/ i = 3 \/ i = 4
  OBVIOUS
<1> HIDE DEF d
<1>6. \A i \in 1 .. 4 : Len(s[i]) = d[i]
  BY <1>2, <1>4, <1>5
<1> HIDE DEF c
<1>7. c = d
  BY <1>3, <1>4, <1>6
<1> QED BY <1>7 DEF c, d

LEMMA StepOpen ==
  ASSUME Inv, NEW w \in Writers, NEW kind \in Kinds, NEW m \in Measured, Open(w, kind, m)
  PROVE  Inv'
<1> DEFINE r == writer'[w]
<1>1. Begin(w, "write", kind, m, Units(m), CutsOf(kind, m)) /\ kind \in {"picatest", "library"}
      /\ file' = (IF file = Absent THEN <<>> ELSE file)
      /\ intact' = (intact /\ file # Absent) /\ version' = version
  BY DEF Open
<1>2. r = [at |-> "write", kind |-> kind, infos |-> m, todo |-> Units(m),
           cuts |-> CutsOf(kind, m), pos |-> 1, alone |-> Alone(w), sound |-> intact]
      /\ DOMAIN writer' = Writers /\ Alone(w) \in BOOLEAN /\ intact \in BOOLEAN
  BY <1>1, Begins
<1>3. FileInv(file, version, intact)
  BY DEF Inv
<1>4. file' \in Seq(AnyUnit)
  BY <1>1, <1>3, EmptyIsRefused DEF FileInv
<1>5. m \in Lists /\ Units(m) \in Seq(AnyUnit) /\ Len(Units(m)) \in Nat \ {0}
  <2>1. m \in Lists
    BY Constants
  <2> QED BY <2>1, UnitsLen
<1> HIDE DEF r
<1>6. ShapeInv(r)
  <2>1. Units(m) = SubSeq(Units(m), 1, Len(Units(m)))
    BY <1>5, WholeSub
  <2>2. kind = "library" => CutsOf(kind, m) = <<Len(Units(m))>>
    BY DEF CutsOf
  <2>3. kind = "picatest" => CallOf(r)
    BY <1>2, <1>5, CutsAre DEF CallOf
  <2>4. DOMAIN r = {"at", "kind", "infos", "todo", "cuts", "pos", "alone", "sound"}
    BY <1>2
  <2>5. /\ r.at = "write" /\ r.kind = kind /\ r.infos = m /\ r.todo = Units(m)
        /\ r.cuts = CutsOf(kind, m) /\ r.pos = 1 /\ r.alone = Alone(w) /\ r.sound = intact
    BY <1>2
  <2>6. 1 \in 1 .. Len(Units(m))
    BY <1>5
  <2> QED BY <1>1, <1>2, <1>5, <2>1, <2>2, <2>3, <2>4, <2>5, <2>6 DEF ShapeInv
<1>7. WrittenInv(r, file') /\ AddsInv(r, version) /\ QuietInv(r, intact')
  <2>1. r.at = "write" /\ r.kind = kind /\ r.infos = m /\ r.pos = 1
    BY <1>2
  <2>2. Agrees(file', Units(m), 0)
    BY <1>4 DEF Agrees
  <2> QED BY <1>1, <1>4, <2>1, <2>2 DEF WrittenInv, AddsInv, QuietInv
<1>8. RunInv(r, file', version, intact')
  BY <1>6, <1>7 DEF RunInv
<1>9. \A u \in Writers : u # w => RunInv(writer'[u], file', version, intact')
  <2>1. file' = file \/ file' \in Seq(AnyUnit)
    BY <1>4
  <2>2. intact' => intact
    BY <1>1
  <2> QED BY <1>1, <2>1, <2>2, BeginOthers
<1>10. AloneInv(writer')
  BY <1>1, BeginAlone
<1>11. HalfInv(file', version, writer')
  <2>1. CASE file = Absent
    <3>1. build_conf(file') = <<>>
      BY <1>1, <2>1, EmptyIsRefused
    <3> QED BY <3>1 DEF HalfInv
  <2>2. CASE file # Absent
    <3>1. HalfInv(file, version, writer')
      BY <1>1, BeginHalf
    <3> QED BY <1>1, <2>2, <3>1
  <2> QED BY <2>1, <2>2
<1>12. FileInv(file', version, intact')
  BY <1>1, <1>2, <1>3, <1>4, Constants DEF FileInv
<1> QED
  BY <1>1, <1>2, <1>8, <1>9, <1>10, <1>11, <1>12 DEF Inv, r

\* A step of a writer that is under way.
LEMMA Moves ==
  ASSUME Inv, NEW w \in Writers, Busy(writer[w]), NEW s, writer' = [writer EXCEPT ![w] = s],
         s.alone = writer[w].alone, file' = file \/ file' \in Seq(AnyUnit),
         intact' => intact \/ writer[w].alone,
         RunInv(s, file', version', intact'), FileInv(file', version', intact'),
         HalfInv(file', version', writer')
  PROVE  Inv'
<1>1. /\ DOMAIN writer = Writers /\ AloneInv(writer)
      /\ \A u \in Writers : RunInv(writer[u], file, version, intact)
  BY DEF Inv
<1>2. DOMAIN writer' = Writers /\ writer'[w] = s
      /\ \A u \in Writers : u # w => writer'[u] = writer[u]
  BY <1>1
<1>3. ASSUME NEW u \in Writers
      PROVE  RunInv(writer'[u], file', version', intact')
  <2>1. CASE u = w
    BY <1>2, <2>1
  <2>2. CASE u # w
    <3>1. RunInv(writer[u], file', version', intact')
      BY <1>1, <2>2, OthersStay
    <3> QED BY <1>2, <2>2, <3>1
  <2> QED BY <2>1, <2>2
<1>4. AloneInv(writer')
  BY <1>1, <1>2, StepAlone
<1> QED
  BY <1>2, <1>3, <1>4 DEF Inv

LEMMA BusyIs ==
  ASSUME Inv, NEW w \in Writers, Busy(writer[w])
  PROVE  /\ writer[w] # None /\ ShapeInv(writer[w]) /\ WrittenInv(writer[w], file)
         /\ AddsInv(writer[w], version) /\ QuietInv(writer[w], intact)
         /\ FileInv(file, version, intact) /\ DOMAIN writer = Writers
  BY NoneIs DEF Inv, RunInv

LEMMA StepKill ==
  ASSUME Inv, NEW w \in Writers, Kill(w)
  PROVE  Inv'
<1> DEFINE r == writer[w]
           s == [r EXCEPT !.at = "end"]
           X == [writer EXCEPT ![w] = s]
<1>1. Busy(r) /\ writer' = X /\ UNCHANGED <<file, version, intact>>
  BY DEF Kill, Active, Busy
<1>2. r # None /\ ShapeInv(r) /\ DOMAIN writer = Writers /\ FileInv(file, version, intact)
  BY <1>1, BusyIs
<1>3. HalfInv(file, version, writer)
  BY DEF Inv
<1> HIDE DEF r
<1>4. DOMAIN s = DOMAIN r /\ s.at = "end" /\ s.kind = r.kind /\ s.infos = r.infos
      /\ s.cuts = r.cuts /\ s.alone = r.alone /\ s.sound = r.sound
  BY <1>2 DEF ShapeInv
<1> HIDE DEF s
<1>5. ShapeInv(s)
  BY <1>2, <1>4 DEF ShapeInv
<1>6. RunInv(s, file, version, intact)
  BY <1>4, <1>5 DEF RunInv, WrittenInv, AddsInv, QuietInv, Busy
<1>7. X[w] = s /\ \A u \in Writers : u # w => X[u] = writer[u]
  BY <1>2
<1>8. s # None
  BY <1>4, NoneIs
<1> HIDE DEF X
<1>9. \A u \in Writers : /\ u \in Begun(X) <=> u \in Begun(writer)
                         /\ Whole(X[u]) <=> Whole(writer[u])
                         /\ u \in Begun(X) => X[u].infos = writer[u].infos
  <2> SUFFICES ASSUME NEW u \in Writers
               PROVE  /\ u \in Begun(X) <=> u \in Begun(writer)
                      /\ Whole(X[u]) <=> Whole(writer[u])
                      /\ u \in Begun(X) => X[u].infos = writer[u].infos
    OBVIOUS
  <2>1. CASE u = w
    <3>1. X[u] = s /\ writer[u] = r
      BY <1>7, <2>1 DEF r
    <3> QED BY <1>2, <1>4, <1>8, <3>1 DEF Whole, Begun
  <2>2. CASE u # w
    BY <1>7, <2>2 DEF Begun
  <2> QED BY <2>1, <2>2
<1>10. Begun(X) = Begun(writer)
  BY <1>9 DEF Begun
<1>11. HalfInv(file, version, X)
  <2>1. {X[u].infos : u \in Begun(X)} = {writer[u].infos : u \in Begun(writer)}
    BY <1>9, <1>10 DEF Begun
  <2>2. \A u \in Begun(X) : u \in Writers
    BY DEF Begun
  <2> QED BY <1>3, <1>9, <1>10, <2>1, <2>2 DEF HalfInv
<1>12. writer' = [writer EXCEPT ![w] = s]
  BY <1>1 DEF X
<1>13. /\ RunInv(s, file', version', intact') /\ FileInv(file', version', intact')
       /\ HalfInv(file', version', writer')
  BY <1>1, <1>2, <1>6, <1>11
<1>14. Busy(writer[w]) /\ s.alone = writer[w].alone /\ (intact' => intact) /\ file' = file
  BY <1>1, <1>4 DEF r
<1> QED
  BY <1>12, <1>13, <1>14, Moves

LEMMA StepTruncate ==
  ASSUME Inv, NEW w \in Writers, Truncate(w)
  PROVE  Inv'
<1> DEFINE r == writer[w]
           U == Units(r.infos)
<1>1. /\ r.at = "open" /\ r.kind = "conftool" /\ file' = <<>> /\ intact' = FALSE
      /\ version' = version
  BY DEF Truncate
<1>2. Busy(r)
  BY <1>1 DEF Busy
<1>3. /\ r # None /\ ShapeInv(r) /\ DOMAIN writer = Writers /\ FileInv(file, version, intact)
      /\ AddsInv(r, version)
  BY <1>2, BusyIs
<1>4. r.infos \in Seq(GoodReadings) \ {<<>>} /\ r.pos = 1
  BY <1>1, <1>3 DEF ShapeInv
<1>5. ASSUME NEW s, writer' = [writer EXCEPT ![w] = s], s.alone = r.alone,
             RunInv(s, <<>>, version, FALSE)
      PROVE  Inv'
  <2>1. RunInv(s, file', version', intact')
    BY <1>1, <1>5
  <2>2. FileInv(file', version', intact')
    BY <1>1, <1>3, EmptyIsRefused DEF FileInv
  <2>3. HalfInv(file', version', writer')
    BY <1>1, EmptyIsRefused DEF HalfInv
  <2>4. /\ Busy(writer[w]) /\ s.alone = writer[w].alone /\ (intact' => intact)
        /\ file' \in Seq(AnyUnit)
    BY <1>1, <1>2, <1>5, EmptyIsRefused
  <2> HIDE DEF r
  <2> QED BY <1>5, <2>1, <2>2, <2>3, <2>4, Moves
<1>6. CASE ~HasGarbage(r.infos)
  <2> DEFINE s == [r EXCEPT !.at = "write", !.todo = U]
  <2>1. writer' = [writer EXCEPT ![w] = s]
    BY <1>3, <1>6 DEF Truncate
  <2> HIDE DEF r, U
  <2>2. /\ DOMAIN s = DOMAIN r /\ s.kind = r.kind /\ s.infos = r.infos /\ s.pos = r.pos
        /\ s.alone = r.alone /\ s.sound = r.sound /\ s.at = "write" /\ s.todo = U
    BY <1>3 DEF ShapeInv
  <2> HIDE DEF s
  <2>3. r.infos \in Lists
    BY <1>4, <1>6, CleanIs DEF Lists
  <2>4. s.pos \in 1 .. Len(U) /\ s.todo = SubSeq(U, s.pos, Len(U))
    <3>1. U \in Seq(AnyUnit) /\ Len(U) \in Nat \ {0}
      BY <2>3, UnitsLen DEF U
    <3> QED BY <1>4, <2>2, <3>1, WholeSub
  <2>5. ShapeInv(s)
    BY <1>1, <1>3, <2>2, <2>3, <2>4 DEF ShapeInv, U
  <2>6. WrittenInv(s, <<>>)
    <3>1. s.pos - 1 = 0
      BY <1>4, <2>2
    <3>2. Agrees(<<>>, Units(s.infos), 0) /\ Len(<<>>) = 0
      BY DEF Agrees
    <3> QED BY <3>1, <3>2, EmptyIsRefused DEF WrittenInv
  <2>7. AddsInv(s, version) /\ QuietInv(s, FALSE)
    BY <1>2, <1>3, <1>6, <2>2 DEF AddsInv, QuietInv
  <2>8. RunInv(s, <<>>, version, FALSE)
    BY <2>5, <2>6, <2>7 DEF RunInv
  <2> QED BY <1>5, <2>1, <2>2, <2>8
<1>7. CASE HasGarbage(r.infos)
  <2>1. PICK at \in {"end", "spill"}, scrap \in Scraps :
          writer' = [writer EXCEPT ![w].at = at, ![w].todo = scrap,
                                   ![w].infos = Garbage, ![w].sound = FALSE]
    BY <1>7 DEF Truncate
  <2> DEFINE s == [r EXCEPT !.at = at, !.todo = scrap, !.infos = Garbage, !.sound = FALSE]
  <2>2. writer' = [writer EXCEPT ![w] = s]
    BY <1>3, <2>1
  <2>3. scrap \in Seq(AnyUnit) \ {<<>>}
    BY ConfAssumption
  <2> HIDE DEF r
  <2>4. /\ DOMAIN s = DOMAIN r /\ s.kind = r.kind /\ s.infos = Garbage /\ s.pos = r.pos
        /\ s.alone = r.alone /\ s.sound = FALSE /\ s.at = at /\ s.todo = scrap
    BY <1>3 DEF ShapeInv
  <2> HIDE DEF s
  <2>5. ShapeInv(s)
    <3>1. /\ DOMAIN r = {"at", "kind", "infos", "todo", "cuts", "pos", "alone", "sound"}
          /\ r.alone \in BOOLEAN /\ r.kind \in Kinds
      BY <1>3 DEF ShapeInv
    <3>2. /\ DOMAIN s = {"at", "kind", "infos", "todo", "cuts", "pos", "alone", "sound"}
          /\ s.alone \in BOOLEAN /\ s.kind = "conftool" /\ s.kind \in Kinds /\ s.pos = 1
      BY <1>1, <1>4, <2>4, <3>1
    <3>3. s.at \in {"end", "spill"}
      BY <2>1, <2>4
    <3>4. s.infos = Garbage /\ s.todo \in Seq(AnyUnit) \ {<<>>} /\ s.pos \in Nat \ {0}
      BY <2>3, <2>4, <3>2
    <3>5. ~s.sound /\ s.sound \in BOOLEAN
      BY <2>4
    <3>6. s.at \notin {"open", "write"} /\ s.at \in {"open", "write", "spill", "end"}
      BY <3>3
    <3> QED BY <3>2, <3>4, <3>5, <3>6 DEF ShapeInv
  <2>6. WrittenInv(s, <<>>) /\ AddsInv(s, version) /\ QuietInv(s, FALSE)
    BY <2>4, EmptyIsRefused DEF WrittenInv, AddsInv, QuietInv
  <2>7. RunInv(s, <<>>, version, FALSE)
    BY <2>5, <2>6 DEF RunInv
  <2> QED BY <1>5, <2>2, <2>4, <2>7
<1> QED
  BY <1>6, <1>7

\* What a writer has left, and that what it writes next is put at its place.
LEMMA Left ==
  ASSUME Inv, NEW w \in Writers, writer[w].at = "write",
         NEW n \in 0 .. Len(writer[w].todo),
         file' = Put(SubSeq(writer[w].todo, 1, n), writer[w].pos)
  PROVE  LET r == writer[w]
             U == Units(r.infos)
         IN  /\ Busy(r) /\ ShapeInv(r) /\ r.infos \in Lists /\ U \in Seq(AnyUnit)
             /\ r.pos \in 1 .. Len(U) /\ Len(r.todo) = Len(U) - r.pos + 1
             /\ n < Len(r.todo) => SubSeq(r.todo, n + 1, Len(r.todo)) = SubSeq(U, r.pos + n, Len(U))
             /\ file' \in Seq(AnyUnit)
             /\ r.alone => Agrees(file', U, r.pos - 1 + n)
             /\ r.alone /\ r.kind = "conftool" => Len(file') = r.pos - 1 + n
<1> DEFINE r == writer[w]
           U == Units(r.infos)
<1>1. Busy(r)
  BY DEF Busy
<1>2. ShapeInv(r) /\ WrittenInv(r, file)
  BY <1>1, BusyIs
<1>3. r.infos \in Lists /\ r.pos \in 1 .. Len(U) /\ r.todo = SubSeq(U, r.pos, Len(U))
  BY <1>2 DEF ShapeInv
<1>4. U \in Seq(AnyUnit)
  BY <1>3, UnitsLen
<1>5. /\ file \in Seq(AnyUnit)
      /\ r.alone => Agrees(file, U, r.pos - 1)
      /\ r.alone /\ r.kind = "conftool" => Len(file) = r.pos - 1
  BY <1>2 DEF WrittenInv
<1> DEFINE p == r.pos
<1>6. file' = Put(SubSeq(SubSeq(U, p, Len(U)), 1, n), p) /\ n \in 0 .. Len(r.todo)
  BY <1>3
<1> HIDE DEF U, p, r
<1>7. p \in 1 .. Len(U) /\ r.todo = SubSeq(U, p, Len(U)) /\ p = r.pos
  BY <1>3 DEF p
<1>8. Len(r.todo) = Len(U) - p + 1
  BY <1>4, <1>7
<1>9. n \in 0 .. Len(U) - p + 1
  BY <1>6, <1>8
<1>10. n < Len(r.todo) => SubSeq(r.todo, n + 1, Len(r.todo)) = SubSeq(U, p + n, Len(U))
  <2> DEFINE t == SubSeq(U, p, Len(U))
  <2>1. p \in 1 .. Len(U)
    BY <1>7
  <2>2. n < Len(t) => SubSeq(t, n + 1, Len(t)) = SubSeq(U, p + n, Len(U))
    BY <1>4, <1>9, <2>1, Parts
  <2>3. r.todo = t
    BY <1>7
  <2> HIDE DEF t
  <2> QED BY <2>2, <2>3
<1>11. /\ file' \in Seq(AnyUnit)
       /\ Agrees(file, U, p - 1) => Agrees(file', U, p - 1 + n)
       /\ Agrees(file, U, p - 1) /\ Len(file) = p - 1 => Len(file') = p - 1 + n
  <2> DEFINE g == Put(SubSeq(SubSeq(U, p, Len(U)), 1, n), p)
  <2>1. p \in 1 .. Len(U)
    BY <1>7
  <2>2. /\ g \in Seq(AnyUnit)
        /\ Agrees(file, U, p - 1) => Agrees(g, U, p - 1 + n)
        /\ Agrees(file, U, p - 1) /\ Len(file) = p - 1 => Len(g) = p - 1 + n
    BY <1>4, <1>5, <1>9, <2>1, PutPart
  <2> QED BY <1>6, <2>2
<1> QED
  BY <1>1, <1>2, <1>3, <1>4, <1>5, <1>7, <1>8, <1>10, <1>11 DEF U, p, r

LEMMA Finishes ==
  ASSUME Inv, NEW w \in Writers, writer[w].at = "write", Finish(w),
         NEW n \in Nat, n = Len(writer[w].todo),
         file' = Put(SubSeq(writer[w].todo, 1, n), writer[w].pos)
  PROVE  Inv'
<1> DEFINE r == writer[w]
           U == Units(r.infos)
           s == [r EXCEPT !.at = "end", !.todo = <<>>, !.cuts = <<>>]
           X == writer'
<1>1. n \in 0 .. Len(r.todo) /\ n = Len(r.todo)
  OBVIOUS
<1>2. /\ Busy(r) /\ ShapeInv(r) /\ r.infos \in Lists /\ U \in Seq(AnyUnit)
      /\ r.pos \in 1 .. Len(U) /\ Len(r.todo) = Len(U) - r.pos + 1
      /\ file' \in Seq(AnyUnit)
      /\ r.alone => Agrees(file', U, r.pos - 1 + n)
  BY <1>1, Left
<1>3. r.alone => Agrees(file', U, Len(U))
  <2>1. r.pos - 1 + n = Len(U)
    BY <1>1, <1>2
  <2> QED BY <1>2, <2>1
<1>4. /\ AddsInv(r, version) /\ FileInv(file, version, intact) /\ DOMAIN writer = Writers
  BY <1>2, BusyIs
<1>5. intact' = (r.alone /\ (r.kind = "conftool" => r.sound))
  BY DEF Finish
<1>6. writer' = [writer EXCEPT ![w] = s]
  BY <1>4 DEF Finish
<1>18. version' = IF intact' THEN r.infos ELSE version
  <2>1. version' = IF ~intact' THEN version
                   ELSE IF r.kind = "conftool" THEN Append(version, Last(r.infos)) ELSE r.infos
    BY DEF Finish
  <2>2. CASE intact' /\ r.kind = "conftool"
    <3>1. r.at # "open"
      OBVIOUS
    <3>2. PICK c \in Commands : r.infos = Append(version, read_binary(c).info)
      BY <1>2, <1>4, <1>5, <2>2, <3>1 DEF AddsInv
    <3>3. version \in Seq(Infos) /\ r.infos \in Seq(Infos)
      BY <1>2, <1>4 DEF FileInv, Lists
    <3> DEFINE x == read_binary(c).info
    <3>4. r.infos = Append(version, x)
      BY <3>2
    <3> HIDE DEF r, x
    <3>5. Last(r.infos) = x
      BY <3>3, <3>4, AppendProperties DEF Last
    <3> QED BY <2>1, <2>2, <3>4, <3>5 DEF r
  <2> HIDE DEF r
  <2> QED BY <2>1, <2>2
<1> HIDE DEF r, U
<1>7. /\ DOMAIN s = DOMAIN r /\ s.kind = r.kind /\ s.infos = r.infos /\ s.at = "end"
      /\ s.alone = r.alone /\ s.sound = r.sound /\ r.alone \in BOOLEAN /\ r.sound \in BOOLEAN
  BY <1>2 DEF ShapeInv
<1> HIDE DEF s, X
<1>8. ShapeInv(s)
  BY <1>2, <1>7 DEF ShapeInv
<1>9. RunInv(s, file', version', intact')
  BY <1>7, <1>8 DEF RunInv, WrittenInv, AddsInv, QuietInv, Busy
<1>10. r.infos \in Seq(Infos) /\ r.infos # <<>>
  BY <1>2 DEF Lists
<1>11. intact' \in BOOLEAN
  BY <1>5, <1>7
<1>12. intact' => Agrees(file', Units(r.infos), Len(Units(r.infos)))
  BY <1>3, <1>5 DEF U
<1>19. version \in Seq(Infos)
  BY <1>4 DEF FileInv
<1>13. FileInv(file', version', intact')
  BY <1>2, <1>10, <1>11, <1>12, <1>18, <1>19, Constants DEF FileInv
<1>14. X[w] = s /\ X = writer' /\ s # None
  <2>1. s # None
    BY <1>7, NoneIs
  <2> QED BY <1>4, <1>6, <2>1 DEF X
<1>15. HalfInv(file', version', X)
  <2> SUFFICES ASSUME \A u \in Begun(X) : Whole(X[u])
               PROVE  build_conf(file') \in {<<>>} \cup {X[u].infos : u \in Begun(X)}
    BY DEF HalfInv
  <2>1. w \in Begun(X) /\ X[w].infos = r.infos
    BY <1>7, <1>14 DEF Begun
  <2>2. s.alone
    BY <1>14, <2>1 DEF Whole
  <2>3. Agrees(file', Units(r.infos), Len(Units(r.infos)))
    BY <1>3, <1>7, <2>2 DEF U
  <2>4. build_conf(file') \in {<<>>, r.infos}
    BY <1>2, <1>10, <2>3, WholeIsTaken
  <2> QED BY <2>1, <2>4
<1>16. HalfInv(file', version', writer')
  BY <1>14, <1>15
<1>17. Busy(writer[w]) /\ s.alone = writer[w].alone /\ (intact' => writer[w].alone)
  BY <1>2, <1>5, <1>7 DEF r
<1> QED
  BY <1>2, <1>6, <1>9, <1>13, <1>16, <1>17, Moves

\* What memory held is no configuration that anybody meant.
LEMMA StepSpill ==
  ASSUME Inv, NEW w \in Writers, Flush(w), writer[w].at = "spill"
  PROVE  Inv'
<1> DEFINE r == writer[w]
           len == Len(r.todo)
<1>1. Busy(r)
  BY DEF Busy
<1>2. /\ ShapeInv(r) /\ WrittenInv(r, file) /\ QuietInv(r, intact)
      /\ FileInv(file, version, intact) /\ DOMAIN writer = Writers
  BY <1>1, BusyIs
<1>3. /\ r.kind = "conftool" /\ r.infos = Garbage /\ ~r.sound /\ r.sound \in BOOLEAN
      /\ r.todo \in Seq(AnyUnit) \ {<<>>} /\ r.pos \in Nat \ {0} /\ file \in Seq(AnyUnit)
  BY <1>2 DEF ShapeInv, WrittenInv
<1>4. ~intact /\ intact \in BOOLEAN
  BY <1>2, <1>3 DEF QuietInv, FileInv
<1>5. PICK n \in {k \in BufLens : k < len} \cup {len} :
          /\ file' = Put(SubSeq(r.todo, 1, n), r.pos)
          /\ IF n = len
             THEN Finish(w)
             ELSE /\ writer' = [writer EXCEPT ![w].todo = SubSeq(@, n + 1, Len(@)),
                                              ![w].pos = @ + n]
                  /\ UNCHANGED <<version, intact>>
  BY DEF Flush
<1>6. n \in Nat \ {0} /\ n <= len /\ len \in Nat
  <2>1. len \in Nat \ {0}
    BY <1>3
  <2> HIDE DEF len
  <2> QED BY <1>5, <2>1, ConfAssumption
<1>7. file' \in Seq(AnyUnit)
  <2> DEFINE t == r.todo
  <2>1. t \in Seq(AnyUnit) /\ n \in 1 .. Len(t)
    BY <1>3, <1>6
  <2> HIDE DEF t
  <2>2. SubSeq(t, 1, n) \in Seq(AnyUnit)
    BY <2>1
  <2>3. SubSeq(r.todo, 1, n) \in Seq(AnyUnit)
    BY <2>2 DEF t
  <2> QED BY <1>3, <1>5, <2>3, PutIs
<1>8. ASSUME NEW s, writer' = [writer EXCEPT ![w] = s], s.alone = r.alone, s.infos = Garbage,
             ~intact', version' = version, intact' \in BOOLEAN,
             ShapeInv(s), s.at \in {"spill", "end"}, ~s.sound
      PROVE  Inv'
  <2>1. RunInv(s, file', version', intact')
    BY <1>7, <1>8 DEF RunInv, WrittenInv, AddsInv, QuietInv
  <2>2. FileInv(file', version', intact')
    BY <1>2, <1>7, <1>8 DEF FileInv
  <2>3. HalfInv(file', version', writer')
    <3> DEFINE X == writer'
    <3>1. X[w] = s /\ DOMAIN None = {"at"} /\ DOMAIN s # {"at"}
      BY <1>2, <1>8 DEF None, ShapeInv
    <3> HIDE DEF X
    <3>2. w \in Begun(X) /\ ~Whole(X[w])
      BY <1>8, <3>1 DEF Begun, Whole
    <3>3. HalfInv(file', version', X)
      BY <3>2 DEF HalfInv
    <3> QED BY <3>3 DEF X
  <2>4. Busy(writer[w]) /\ s.alone = writer[w].alone /\ (intact' => intact)
    BY <1>1, <1>8
  <2> HIDE DEF r
  <2> QED BY <1>7, <1>8, <2>1, <2>2, <2>3, <2>4, Moves
<1>9. CASE n = len
  <2> DEFINE s == [r EXCEPT !.at = "end", !.todo = <<>>, !.cuts = <<>>]
  <2>1. /\ writer' = [writer EXCEPT ![w] = s] /\ ~intact' /\ intact' \in BOOLEAN
        /\ version' = version
    BY <1>2, <1>3, <1>5, <1>9 DEF Finish
  <2> HIDE DEF r
  <2>2. /\ DOMAIN s = DOMAIN r /\ s.kind = r.kind /\ s.infos = r.infos
        /\ s.alone = r.alone /\ s.sound = r.sound /\ s.at = "end"
    BY <1>2 DEF ShapeInv
  <2> HIDE DEF s
  <2>3. ShapeInv(s)
    BY <1>2, <1>3, <2>2 DEF ShapeInv
  <2> QED BY <1>3, <1>8, <2>1, <2>2, <2>3
<1>10. CASE n # len
  <2> DEFINE rest == SubSeq(r.todo, n + 1, len)
             s == [r EXCEPT !.todo = rest, !.pos = r.pos + n]
  <2>1. writer' = [writer EXCEPT ![w] = s] /\ version' = version /\ intact' = intact
    BY <1>2, <1>5, <1>10
  <2>2. rest \in Seq(AnyUnit) \ {<<>>}
    <3> DEFINE t == r.todo
    <3>1. t \in Seq(AnyUnit) /\ n \in 1 .. Len(t) - 1
      BY <1>3, <1>6, <1>10
    <3> HIDE DEF t
    <3>2. Len(t) \in Nat /\ n + 1 \in 1 .. Len(t)
      BY <3>1
    <3>3. SubSeq(t, n + 1, Len(t)) \in Seq(AnyUnit)
      BY <3>1, <3>2
    <3>4. SubSeq(t, n + 1, Len(t)) # <<>>
      <4>1. Len(SubSeq(t, n + 1, Len(t))) = Len(t) - (n + 1) + 1
        BY <3>1, <3>2, SubSeqProperties
      <4> DEFINE q == SubSeq(t, n + 1, Len(t))
      <4> HIDE DEF q
      <4>2. Len(q) # 0
        BY <3>2, <4>1 DEF q
      <4>3. q # <<>>
        BY <4>2
      <4> QED BY <4>3 DEF q
    <3> QED BY <3>3, <3>4 DEF t
  <2> HIDE DEF r, rest
  <2>3. /\ DOMAIN s = DOMAIN r /\ s.kind = r.kind /\ s.infos = r.infos /\ s.at = r.at
        /\ s.alone = r.alone /\ s.sound = r.sound /\ s.todo = rest /\ s.pos = r.pos + n
    BY <1>2 DEF ShapeInv
  <2> HIDE DEF s
  <2>4. r.at = "spill" /\ r.pos + n \in Nat \ {0}
    BY <1>3, <1>6 DEF r
  <2>5. ShapeInv(s)
    BY <1>2, <1>3, <2>2, <2>3, <2>4 DEF ShapeInv
  <2> QED BY <1>3, <1>4, <1>8, <2>1, <2>3, <2>4, <2>5
<1> QED
  BY <1>9, <1>10

LEMMA StepFlush ==
  ASSUME Inv, NEW w \in Writers, Flush(w)
  PROVE  Inv'
<1> DEFINE r == writer[w]
           U == Units(r.infos)
           X == writer'
<1>10. CASE r.at = "spill"
  BY <1>10, StepSpill
<1> SUFFICES ASSUME r.at # "spill" PROVE Inv'
  BY <1>10
<1>1. r.at = "write" /\ r.kind = "conftool"
  BY DEF Flush
<1>2. Busy(r)
  BY <1>1 DEF Busy
<1>3. ShapeInv(r) /\ AddsInv(r, version) /\ QuietInv(r, intact)
      /\ FileInv(file, version, intact) /\ DOMAIN writer = Writers
  BY <1>2, BusyIs
<1>4. Len(r.todo) \in Nat \ {0} /\ Len(U) \in Nat /\ r.pos \in 1 .. Len(U)
      /\ Len(r.todo) = Len(U) - r.pos + 1
  <2>1. /\ r.infos \in Lists /\ r.pos \in 1 .. Len(U)
        /\ r.todo = SubSeq(U, r.pos, Len(U))
    BY <1>1, <1>3 DEF ShapeInv
  <2>2. U \in Seq(AnyUnit)
    BY <2>1, UnitsLen
  <2> HIDE DEF U, r
  <2> QED BY <2>1, <2>2
<1>5. PICK n \in {k \in BufLens : k < Len(r.todo)} \cup {Len(r.todo)} :
          /\ file' = Put(SubSeq(r.todo, 1, n), r.pos)
          /\ IF n = Len(r.todo)
             THEN Finish(w)
             ELSE /\ writer' = [writer EXCEPT ![w].todo = SubSeq(@, n + 1, Len(@)),
                                              ![w].pos = @ + n]
                  /\ UNCHANGED <<version, intact>>
  BY DEF Flush
<1>6. n \in Nat \ {0} /\ n <= Len(r.todo)
  BY <1>4, <1>5, ConfAssumption
<1>7. CASE n = Len(r.todo)
  BY <1>1, <1>5, <1>6, <1>7, Finishes
<1>8. CASE n # Len(r.todo)
  <2> DEFINE rest == SubSeq(r.todo, n + 1, Len(r.todo))
             s == [r EXCEPT !.todo = rest, !.pos = r.pos + n]
  <2>1. n \in 0 .. Len(r.todo) /\ n < Len(r.todo)
    BY <1>4, <1>6, <1>8
  <2>2. /\ r.infos \in Lists /\ U \in Seq(AnyUnit)
        /\ n < Len(r.todo) => rest = SubSeq(U, r.pos + n, Len(U))
        /\ file' \in Seq(AnyUnit)
        /\ r.alone => Agrees(file', U, r.pos - 1 + n)
        /\ r.alone /\ r.kind = "conftool" => Len(file') = r.pos - 1 + n
    BY <1>1, <1>5, <2>1, Left
  <2>3. writer' = [writer EXCEPT ![w] = s] /\ UNCHANGED <<version, intact>>
    BY <1>3, <1>5, <1>8
  <2>4. rest = SubSeq(U, r.pos + n, Len(U))
    BY <2>1, <2>2
  <2> HIDE DEF r, U, rest
  <2>5. /\ DOMAIN s = DOMAIN r /\ s.kind = r.kind /\ s.infos = r.infos /\ s.at = r.at
        /\ s.alone = r.alone /\ s.sound = r.sound /\ s.todo = rest /\ s.pos = r.pos + n
    BY <1>3 DEF ShapeInv
  <2> HIDE DEF s
  <2>6. r.pos + n \in 1 .. Len(U) /\ (r.pos + n) - 1 = r.pos - 1 + n /\ r.pos - 1 + n < Len(U)
    BY <1>4, <1>6, <2>1
  <2>7. ShapeInv(s)
    BY <1>1, <1>3, <2>2, <2>4, <2>5, <2>6 DEF ShapeInv, U
  <2>8. WrittenInv(s, file')
    BY <1>1, <2>2, <2>5, <2>6 DEF WrittenInv, U
  <2>9. AddsInv(s, version) /\ QuietInv(s, intact)
    BY <1>3, <2>5 DEF AddsInv, QuietInv, Busy
  <2>10. RunInv(s, file', version', intact')
    BY <2>3, <2>7, <2>8, <2>9 DEF RunInv
  <2>11. ~intact
    <3>1. r.at = "write" /\ r.kind = "conftool"
      BY <1>1
    <3> QED BY <1>3, <3>1 DEF QuietInv
  <2>12. FileInv(file', version', intact')
    BY <1>3, <2>2, <2>3, <2>11 DEF FileInv
  <2>13. X[w] = s /\ s # None
    <3>1. s # None
      BY <1>1, <2>5, NoneIs
    <3> QED BY <1>3, <2>3, <3>1
  <2> HIDE DEF X
  <2>14. HalfInv(file', version', X)
    <3> SUFFICES ASSUME \A u \in Begun(X) : Whole(X[u])
                 PROVE  build_conf(file') = <<>>
      BY DEF HalfInv
    <3>1. w \in Begun(X)
      BY <2>13 DEF Begun
    <3>2. s.alone
      BY <2>13, <3>1 DEF Whole
    <3>3. r.alone
      BY <2>5, <3>2
    <3>4. Agrees(file', U, r.pos - 1 + n) /\ Len(file') = r.pos - 1 + n
      BY <1>1, <2>2, <3>3
    <3>5. Agrees(file', Units(r.infos), Len(file')) /\ Len(file') < Len(Units(r.infos))
      BY <2>6, <3>4 DEF U
    <3>6. r.infos \in Seq(Infos)
      BY <2>2 DEF Lists
    <3> QED BY <2>2, <3>5, <3>6, ShortIsRefused
  <2>15. HalfInv(file', version', writer')
    BY <2>14 DEF X
  <2>16. Busy(writer[w]) /\ s.alone = writer[w].alone /\ (intact' => intact)
    BY <1>2, <2>3, <2>5 DEF r
  <2> QED BY <2>2, <2>3, <2>10, <2>12, <2>15, <2>16, Moves
<1> QED
  BY <1>7, <1>8

\* The next call of picatest.
LEMMA NextCall ==
  ASSUME NEW r, r.infos \in Lists, CallOf(r), r.pos \in 1 .. Len(Units(r.infos)),
         NEW left, left = Len(Units(r.infos)) - r.pos + 1
  PROVE  /\ r.cuts[1] \in 0 .. left /\ r.pos + r.cuts[1] \in Nat
         /\ Len(r.cuts) = 1 => r.cuts[1] = left
         /\ Len(r.cuts) # 1 =>
              /\ r.cuts[1] < left /\ Len(Tail(r.cuts)) \in 1 .. 3
              /\ \A s : s.infos = r.infos /\ s.cuts = Tail(r.cuts) /\ s.pos = r.pos + r.cuts[1]
                        => CallOf(s)
<1> DEFINE n == Len(r.infos)
           c == LibCount(r.infos)
           U == Units(r.infos)
<1>1. n \in Nat \ {0} /\ c \in Nat /\ Len(U) = 1 + 2 * n + c + (n + c)
  BY UnitsLen
<1>2. \/ r.cuts = <<1, 2 * n, c, n + c>> /\ r.pos = 1
      \/ r.cuts = <<2 * n, c, n + c>> /\ r.pos = 2
      \/ r.cuts = <<c, n + c>> /\ r.pos = 2 + 2 * n
      \/ r.cuts = <<n + c>> /\ r.pos = 2 + 2 * n + c
  BY DEF CallOf
<1>3. left = Len(U) - r.pos + 1
  OBVIOUS
<1>4. \A s : s.infos = r.infos =>
         (CallOf(s) <=> \/ s.cuts = <<1, 2 * n, c, n + c>> /\ s.pos = 1
                        \/ s.cuts = <<2 * n, c, n + c>> /\ s.pos = 2
                        \/ s.cuts = <<c, n + c>> /\ s.pos = 2 + 2 * n
                        \/ s.cuts = <<n + c>> /\ s.pos = 2 + 2 * n + c)
  BY DEF CallOf
<1> HIDE DEF n, c, U
<1>5. CASE r.cuts = <<1, 2 * n, c, n + c>> /\ r.pos = 1
  <2>1. Len(r.cuts) = 4 /\ r.cuts[1] = 1 /\ Tail(r.cuts) = <<2 * n, c, n + c>>
        /\ Len(Tail(r.cuts)) = 3
    BY <1>5
  <2>2. 1 \in 0 .. left /\ 1 < left /\ r.pos + 1 = 2
    BY <1>1, <1>3, <1>5
  <2>3. ASSUME NEW s, s.infos = r.infos, s.cuts = Tail(r.cuts), s.pos = r.pos + r.cuts[1]
        PROVE  CallOf(s)
    <3>1. s.cuts = <<2 * n, c, n + c>> /\ s.pos = 2
      BY <2>1, <2>2, <2>3
    <3> QED BY <1>4, <2>3, <3>1
  <2>4. r.cuts[1] \in 0 .. left /\ r.cuts[1] < left /\ r.pos + r.cuts[1] \in Nat
        /\ Len(r.cuts) # 1 /\ Len(Tail(r.cuts)) \in 1 .. 3
    BY <2>1, <2>2
  <2> QED BY <2>3, <2>4
<1>6. CASE r.cuts = <<2 * n, c, n + c>> /\ r.pos = 2
  <2>1. Len(r.cuts) = 3 /\ r.cuts[1] = 2 * n /\ Tail(r.cuts) = <<c, n + c>>
        /\ Len(Tail(r.cuts)) = 2
    BY <1>6
  <2>2. 2 * n \in 0 .. left /\ 2 * n < left /\ r.pos + 2 * n = 2 + 2 * n /\ 2 + 2 * n \in Nat
    BY <1>1, <1>3, <1>6
  <2>3. ASSUME NEW s, s.infos = r.infos, s.cuts = Tail(r.cuts), s.pos = r.pos + r.cuts[1]
        PROVE  CallOf(s)
    <3>1. s.cuts = <<c, n + c>> /\ s.pos = 2 + 2 * n
      BY <2>1, <2>2, <2>3
    <3> QED BY <1>4, <2>3, <3>1
  <2>4. r.cuts[1] \in 0 .. left /\ r.cuts[1] < left /\ r.pos + r.cuts[1] \in Nat
        /\ Len(r.cuts) # 1 /\ Len(Tail(r.cuts)) \in 1 .. 3
    BY <2>1, <2>2
  <2> QED BY <2>3, <2>4
<1>7. CASE r.cuts = <<c, n + c>> /\ r.pos = 2 + 2 * n
  <2>1. Len(r.cuts) = 2 /\ r.cuts[1] = c /\ Tail(r.cuts) = <<n + c>>
        /\ Len(Tail(r.cuts)) = 1
    BY <1>7
  <2>2. c \in 0 .. left /\ c < left /\ r.pos + c = 2 + 2 * n + c /\ r.pos + c \in Nat
    BY <1>1, <1>3, <1>7
  <2>3. ASSUME NEW s, s.infos = r.infos, s.cuts = Tail(r.cuts), s.pos = r.pos + r.cuts[1]
        PROVE  CallOf(s)
    <3>1. s.cuts = <<n + c>> /\ s.pos = 2 + 2 * n + c
      BY <2>1, <2>2, <2>3
    <3> QED BY <1>4, <2>3, <3>1
  <2>4. r.cuts[1] \in 0 .. left /\ r.cuts[1] < left /\ r.pos + r.cuts[1] \in Nat
        /\ Len(r.cuts) # 1 /\ Len(Tail(r.cuts)) \in 1 .. 3
    BY <2>1, <2>2
  <2> QED BY <2>3, <2>4
<1>8. CASE r.cuts = <<n + c>> /\ r.pos = 2 + 2 * n + c
  <2>1. Len(r.cuts) = 1 /\ r.cuts[1] = n + c
    BY <1>8
  <2>2. n + c \in 0 .. left /\ n + c = left /\ r.pos + (n + c) \in Nat
    BY <1>1, <1>3, <1>8
  <2> QED BY <2>1, <2>2
<1> QED
  BY <1>2, <1>5, <1>6, <1>7, <1>8

LEMMA StepWrite ==
  ASSUME Inv, NEW w \in Writers, Write(w)
  PROVE  Inv'
<1> DEFINE r == writer[w]
           U == Units(r.infos)
           n == r.cuts[1]
           X == writer'
<1>1. r.at = "write" /\ r.kind # "conftool"
  BY DEF Write, WriteTo
<1>2. Busy(r)
  BY <1>1 DEF Busy
<1>3. ShapeInv(r) /\ FileInv(file, version, intact) /\ DOMAIN writer = Writers
  BY <1>2, BusyIs
<1>4. /\ r.infos \in Lists /\ r.pos \in 1 .. Len(U) /\ U \in Seq(AnyUnit) /\ Len(U) \in Nat
      /\ Len(r.todo) = Len(U) - r.pos + 1 /\ Len(r.todo) \in Nat
  <2>1. /\ r.infos \in Lists /\ r.pos \in 1 .. Len(U)
        /\ r.todo = SubSeq(U, r.pos, Len(U))
    BY <1>1, <1>3 DEF ShapeInv
  <2>2. U \in Seq(AnyUnit)
    BY <2>1, UnitsLen
  <2> HIDE DEF U, r
  <2> QED BY <2>1, <2>2
<1>5. r.kind \in {"picatest", "library"}
  BY <1>1, <1>3, Constants DEF ShapeInv
<1>6. /\ file' = Put(SubSeq(r.todo, 1, n), r.pos)
      /\ IF Len(r.cuts) = 1 THEN Finish(w)
         ELSE /\ writer' = [writer EXCEPT ![w].todo = SubSeq(@, n + 1, Len(@)),
                                          ![w].cuts = Tail(@), ![w].pos = r.pos + n]
              /\ intact' = FALSE /\ UNCHANGED version
  BY DEF Write, WriteTo
<1>7. CASE Len(r.cuts) = 1
  <2>1. n = Len(r.todo)
    <3>1. CASE r.kind = "library"
      <4>1. r.cuts = <<Len(U)>> /\ r.pos = 1
        BY <1>1, <1>3, <3>1 DEF ShapeInv
      <4>2. n = Len(U)
        BY <4>1
      <4> QED BY <1>4, <4>1, <4>2
    <3>2. CASE r.kind = "picatest"
      <4>1. CallOf(r)
        BY <1>1, <1>3, <3>2 DEF ShapeInv
      <4> QED BY <1>4, <1>7, <4>1, NextCall
    <3> QED BY <1>5, <3>1, <3>2
  <2>2. n \in Nat
    BY <1>4, <2>1
  <2> QED BY <1>1, <1>6, <1>7, <2>1, <2>2, Finishes
<1>8. CASE Len(r.cuts) # 1
  <2> DEFINE rest == SubSeq(r.todo, n + 1, Len(r.todo))
             s == [r EXCEPT !.todo = rest, !.cuts = Tail(r.cuts), !.pos = r.pos + n]
  <2>1. r.kind = "picatest" /\ CallOf(r)
    <3>1. r.kind # "library"
      <4> SUFFICES ASSUME r.kind = "library" PROVE FALSE
        OBVIOUS
      <4>1. r.cuts = <<Len(U)>>
        BY <1>1, <1>3 DEF ShapeInv
      <4> QED BY <1>8, <4>1
    <3> QED BY <1>1, <1>3, <1>5, <3>1 DEF ShapeInv
  <2>2. /\ n \in 0 .. Len(r.todo) /\ n < Len(r.todo) /\ Len(Tail(r.cuts)) \in 1 .. 3
        /\ \A q : q.infos = r.infos /\ q.cuts = Tail(r.cuts) /\ q.pos = r.pos + n => CallOf(q)
    BY <1>4, <1>8, <2>1, NextCall
  <2>3. /\ n < Len(r.todo) => rest = SubSeq(U, r.pos + n, Len(U))
        /\ file' \in Seq(AnyUnit)
        /\ r.alone => Agrees(file', U, r.pos - 1 + n)
    BY <1>1, <1>6, <2>2, Left
  <2>4. writer' = [writer EXCEPT ![w] = s] /\ intact' = FALSE /\ version' = version
    BY <1>3, <1>6, <1>8
  <2>5. rest = SubSeq(U, r.pos + n, Len(U))
    BY <2>2, <2>3
  <2> HIDE DEF r, U, rest, n
  <2>6. /\ DOMAIN s = DOMAIN r /\ s.kind = r.kind /\ s.infos = r.infos /\ s.at = r.at
        /\ s.alone = r.alone /\ s.sound = r.sound /\ s.todo = rest /\ s.pos = r.pos + n
        /\ s.cuts = Tail(r.cuts)
    BY <1>3 DEF ShapeInv
  <2> HIDE DEF s
  <2>7. r.pos + n \in 1 .. Len(U) /\ (r.pos + n) - 1 = r.pos - 1 + n
    BY <1>4, <2>2
  <2>8. CallOf(s)
    BY <2>2, <2>6
  <2>9. ShapeInv(s)
    BY <1>1, <1>3, <1>4, <2>1, <2>5, <2>6, <2>7, <2>8 DEF ShapeInv, U
  <2>10. WrittenInv(s, file')
    BY <1>1, <2>3, <2>6, <2>7 DEF WrittenInv, U
  <2>11. AddsInv(s, version') /\ QuietInv(s, intact')
    BY <1>1, <2>4, <2>6 DEF AddsInv, QuietInv
  <2>12. RunInv(s, file', version', intact')
    BY <2>9, <2>10, <2>11 DEF RunInv
  <2>13. FileInv(file', version', intact')
    BY <1>3, <2>3, <2>4 DEF FileInv
  <2>14. X[w] = s /\ s # None
    <3>1. s # None
      BY <1>1, <2>6, NoneIs
    <3>2. DOMAIN writer = Writers /\ writer' = [writer EXCEPT ![w] = s]
      BY <1>3, <2>4
    <3>3. writer'[w] = s
      BY <3>2
    <3> QED BY <3>1, <3>3
  <2>15. ~Whole(s)
    <3>1. Len(s.cuts) \notin {0, 4}
      <4>1. Len(s.cuts) \in 1 .. 3
        BY <2>2, <2>6
      <4> QED BY <4>1
    <3> QED BY <2>1, <2>6, <3>1 DEF Whole
  <2> HIDE DEF X
  <2>16. HalfInv(file', version', X)
    <3>1. w \in Begun(X) /\ ~Whole(X[w])
      BY <2>14, <2>15 DEF Begun
    <3> QED BY <3>1 DEF HalfInv
  <2>17. HalfInv(file', version', writer')
    BY <2>16 DEF X
  <2>18. Busy(writer[w]) /\ s.alone = writer[w].alone /\ (intact' => intact)
    BY <1>2, <2>4, <2>6 DEF r
  <2> QED BY <2>3, <2>4, <2>12, <2>13, <2>17, <2>18, Moves
<1> QED
  BY <1>7, <1>8

-----------------------------------------------------------------------------
(* The theorems.                                                           *)

LEMMA InvInit == Init => Inv
<1> SUFFICES ASSUME Init PROVE Inv
  OBVIOUS
<1>1. /\ file \in {Absent} \cup {Units(m) : m \in Measured}
      /\ version = IF file = Absent THEN <<>> ELSE ReadUnchecked(file)
      /\ writer = [w \in Writers |-> None] /\ intact = TRUE
  BY DEF Init
<1>2. CASE file = Absent
  <2>1. version = <<>> /\ <<>> \in Seq(Infos)
    BY <1>1, <1>2
  <2>2. FileInv(file, version, intact)
    BY <1>1, <1>2, <2>1 DEF FileInv
  <2>3. HalfInv(file, version, writer)
    BY <1>2 DEF HalfInv
  <2> QED BY <1>1, <2>2, <2>3, NoneIs DEF Inv, RunInv, AloneInv
<1>3. CASE file # Absent
  <2>1. PICK m \in Measured : file = Units(m)
    BY <1>1, <1>3
  <2>2. m \in Lists /\ m \in Seq(Infos) /\ m # <<>>
    BY Constants DEF Lists
  <2>3. Units(m) \in Seq(AnyUnit)
    BY <2>2, UnitsLen
  <2>4. Agrees(file, Units(m), Len(Units(m)))
    BY <2>1, <2>3 DEF Agrees
  <2>5. version = m
    BY <1>1, <1>3, <2>1, <2>2, <2>3, <2>4, ReadBack
  <2>6. FileInv(file, version, intact)
    BY <1>1, <2>1, <2>2, <2>3, <2>4, <2>5, Constants DEF FileInv
  <2>7. HalfInv(file, version, writer)
    <3>1. build_conf(file) \in {<<>>, version}
      BY <2>1, <2>2, <2>3, <2>4, <2>5, WholeIsTaken
    <3> QED BY <3>1 DEF HalfInv
  <2> QED BY <1>1, <2>6, <2>7, NoneIs DEF Inv, RunInv, AloneInv
<1> QED
  BY <1>2, <1>3

LEMMA InvStep == Inv /\ [Next]_vars => Inv'
<1> SUFFICES ASSUME Inv, [Next]_vars PROVE Inv'
  OBVIOUS
<1>1. CASE Next
  <2>1. PICK w \in Writers :
          \/ \E c \in Commands : ReadConf(w, c)
          \/ Truncate(w) \/ Flush(w)
          \/ \E kind \in Kinds, m \in Measured : Open(w, kind, m)
          \/ Write(w) \/ Kill(w)
    BY <1>1 DEF Next
  <2> QED
    BY <2>1, StepRead, StepTruncate, StepFlush, StepOpen, StepWrite, StepKill
<1>2. CASE UNCHANGED vars
  BY <1>2 DEF vars, Inv, RunInv, FileInv, AloneInv, HalfInv, Begun, Busy, ShapeInv, WrittenInv, AddsInv, QuietInv, CallOf, Whole
<1> QED
  BY <1>1, <1>2

\* The inductive invariant of conftool, the library's writer and picatest's.
LEMMA InvCorrect == Spec => []Inv
  BY InvInit, InvStep, PTL DEF Spec

LEMMA InvType == Inv => TypeOK
<1> SUFFICES ASSUME Inv PROVE TypeOK
  OBVIOUS
<1>1. FileInv(file, version, intact)
  BY DEF Inv
<1>2. file # Absent => \A k \in DOMAIN file : file[k].unit \in {"head", "proc", "dig", "name", "none"}
  <2> SUFFICES ASSUME file # Absent, NEW k \in DOMAIN file
               PROVE  file[k].unit \in {"head", "proc", "dig", "name", "none"}
    OBVIOUS
  <2>1. file[k] \in AnyUnit
    BY <1>1 DEF FileInv
  <2> QED BY <2>1 DEF AnyUnit
<1>3. ASSUME NEW w \in Writers, writer[w] # None
      PROVE  WriterOK(writer[w])
  <2> DEFINE r == writer[w]
             U == Units(r.infos)
  <2>1. ShapeInv(r)
    BY <1>3 DEF Inv, RunInv
  <2> HIDE DEF r
  <2>2. ASSUME r.at = "write" PROVE r.todo # <<>>
    <3>1. r.infos \in Lists /\ r.pos \in 1 .. Len(U) /\ r.todo = SubSeq(U, r.pos, Len(U))
      BY <2>1, <2>2 DEF ShapeInv
    <3>2. U \in Seq(AnyUnit)
      BY <3>1, UnitsLen
    <3> HIDE DEF U
    <3>3. Len(r.todo) = Len(U) - r.pos + 1 /\ Len(U) \in Nat
      BY <3>1, <3>2
    <3>4. Len(r.todo) # 0
      BY <3>1, <3>3
    <3> QED BY <3>4
  <2>3. WriterOK(r)
    BY <2>1, <2>2 DEF ShapeInv, WriterOK, Lists
  <2> QED BY <2>3 DEF r
<1> QED
  BY <1>1, <1>2, <1>3 DEF TypeOK, FileInv

\* A writer's place always is that of what it writes next, for lists of any
\* length.
THEOREM TypeCorrect == Spec => []TypeOK
  BY InvCorrect, InvType, PTL

\* After a writer that was alone the file is read as the processes it meant.
THEOREM WholeCorrect == Spec => []WholeIsVersion
<1>1. Inv => WholeIsVersion
  <2> SUFFICES ASSUME Inv, intact
               PROVE  IF file = Absent THEN version = <<>>
                      ELSE /\ ReadUnchecked(file) = version
                           /\ Len(file) = Len(Units(version)) => build_conf(file) = version
    BY DEF WholeIsVersion
  <2>1. FileInv(file, version, TRUE)
    BY DEF Inv, FileInv
  <2>2. CASE file = Absent
    BY <2>1, <2>2 DEF FileInv
  <2>3. CASE file # Absent
    <3>1. /\ file \in Seq(AnyUnit) /\ version \in Lists
          /\ Agrees(file, Units(version), Len(Units(version))) /\ ReadUnchecked(file) = version
      BY <2>1, <2>3, WholeRead
    <3>2. version \in Seq(Infos)
      BY <3>1 DEF Lists
    <3> QED BY <2>3, <3>1, <3>2, WholeIsTaken
  <2> QED BY <2>2, <2>3
<1> QED
  BY <1>1, InvCorrect, PTL

\* The size check of build_conf never takes a half-written file for a configuration.
THEOREM HalfCorrect == Spec => []HalfIsRefused
<1>1. Inv => HalfIsRefused
  <2> SUFFICES ASSUME Inv, file # Absent,
                      \A w \in Writers : writer[w] # None => Whole(writer[w])
               PROVE  build_conf(file) \in
                        {<<>>, version} \cup {writer[w].infos : w \in {v \in Writers : writer[v] # None}}
    BY DEF HalfIsRefused
  <2>1. HalfInv(file, version, writer)
    BY DEF Inv
  <2>2. \A w \in Begun(writer) : Whole(writer[w])
    BY DEF Begun
  <2>3. build_conf(file) \in {<<>>, version} \cup {writer[w].infos : w \in Begun(writer)}
    BY <2>1, <2>2 DEF HalfInv
  <2> QED BY <2>3 DEF Begun
<1> QED
  BY <1>1, InvCorrect, PTL
=============================================================================
