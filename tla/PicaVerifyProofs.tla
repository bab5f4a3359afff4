-------------------------- MODULE PicaVerifyProofs --------------------------
(***************************************************************************)
(* Theorems about the runs of the PICA programs: the hash table, and what  *)
(* a success, a bit and a failure mean, for any number of runs, any        *)
(* chains, policies and exchanges of programs.                             *)
(***************************************************************************)
EXTENDS PicaVerify, SequenceTheorems, WellFoundedInduction, TLAPS

-----------------------------------------------------------------------------
(* Lists.                                                                  *)

LEMMA LeastOf ==
  ASSUME NEW T \in SUBSET Nat, T # {}
  PROVE  \E m \in T : \A k \in T : m <= k
<1> DEFINE R == {p \in Nat \X Nat : p[1] < p[2]}
<1>1. IsWellFoundedOn(R, Nat)
  BY NatLessThanWellFounded DEF OpToRel
<1>2. \A x, y \in T : y < x => <<y, x>> \in R
  OBVIOUS
<1>3. \E x \in T : \A y \in T : ~ (<<y, x>> \in R)
  <2> HIDE DEF R
  <2> QED BY WFMin, <1>1
<1>4. PICK m \in T : \A y \in T : ~ (<<y, m>> \in R)
  BY <1>3
<1>5. \A y \in T : ~(y < m)
  BY <1>2, <1>4
<1> QED
  BY <1>5

LEMMA ListIs ==
  ASSUME NEW s, IsList(s)
  PROVE  Len(s) \in Nat /\ DOMAIN s = 1 .. Len(s)
BY DEF IsList

\* What is made of each item of a list is a list.
LEMMA Mapped ==
  ASSUME NEW n \in Nat, NEW S, NEW s, DOMAIN s = 1 .. n, s = [i \in DOMAIN s |-> s[i]],
         \A i \in DOMAIN s : s[i] \in S
  PROVE  s \in Seq(S) /\ Len(s) = n
<1>1. s \in [1 .. n -> S]
  OBVIOUS
<1> QED
  BY <1>1, IsASeq

LEMMA LastIsIn ==
  ASSUME NEW s, IsList(s), s # <<>>
  PROVE  Len(s) \in DOMAIN s /\ Last(s) = s[Len(s)]
BY DEF IsList, Last

-----------------------------------------------------------------------------
(* The hash table.                                                         *)

\* A table whose entries are of a set: an entry is in the bucket of its path, and a
\* type and a path have one entry.
Tables(E) ==
    {t \in [Buckets -> Seq(E)] :
        \A h \in Buckets : \A i, j \in DOMAIN t[h] :
            /\ Hash(t[h][i].path) = h
            /\ IsFor(t[h][i], t[h][j].type, t[h][j].path) => i = j}

Has(t, which, path) ==
    \E i \in DOMAIN t[Hash(path)] : IsFor(t[Hash(path)][i], which, path)

LEMMA EmptyIsTable ==
  ASSUME NEW E
  PROVE  EmptyTable(Buckets) \in Tables(E)
<1>1. <<>> \in Seq(E) /\ DOMAIN <<>> = {}
  BY EmptySeq
<1> QED
  BY <1>1 DEF EmptyTable, Tables

LEMMA TablesGrow ==
  ASSUME NEW E, NEW F, E \subseteq F, NEW t \in Tables(E)
  PROVE  t \in Tables(F)
<1>1. Seq(E) \subseteq Seq(F)
  OBVIOUS
<1> QED
  BY <1>1 DEF Tables

\* Registering keeps the table one, and everything that is in it.
LEMMA Registers ==
  ASSUME NEW E, NEW t \in Tables(E), NEW which, NEW addr, NEW path,
         Entry(which, path, addr) \in E, Hash(path) \in Buckets
  PROVE  LET u == RegHashtable(t, which, addr, path)
         IN  /\ u \in Tables(E) /\ Has(u, which, path)
             /\ \A w, p : Hash(p) \in Buckets /\ Has(t, w, p) => Has(u, w, p)
<1> DEFINE h == Hash(path)
           u == RegHashtable(t, which, addr, path)
           e == Entry(which, path, addr)
<1>1. CASE \E i \in DOMAIN t[h] : IsFor(t[h][i], which, path)
  <2>1. u = t
    BY <1>1 DEF RegHashtable
  <2> QED
    BY <1>1, <2>1 DEF Has
<1>2. CASE ~ \E i \in DOMAIN t[h] : IsFor(t[h][i], which, path)
  <2>1. u = [t EXCEPT ![h] = Append(t[h], e)]
    BY <1>2 DEF RegHashtable
  <2>2. t \in [Buckets -> Seq(E)] /\ t[h] \in Seq(E)
    BY DEF Tables
  <2>3. /\ Append(t[h], e) \in Seq(E)
        /\ DOMAIN Append(t[h], e) = 1 .. Len(t[h]) + 1 /\ DOMAIN t[h] = 1 .. Len(t[h])
        /\ \A i \in DOMAIN t[h] : Append(t[h], e)[i] = t[h][i]
        /\ Append(t[h], e)[Len(t[h]) + 1] = e
        /\ Len(t[h]) \in Nat
    BY <2>2, AppendProperties
  <2>4. u \in [Buckets -> Seq(E)] /\ u[h] = Append(t[h], e)
        /\ \A g \in Buckets \ {h} : u[g] = t[g]
    BY <2>1, <2>2, <2>3
  <2>5. e.type = which /\ e.path = path
    BY DEF Entry
  <2> HIDE DEF u, e
  <2>6. \A i \in DOMAIN u[h] : (i \in DOMAIN t[h] /\ u[h][i] = t[h][i])
                               \/ (i = Len(t[h]) + 1 /\ u[h][i] = e)
    BY <2>3, <2>4
  <2>7. \A g \in Buckets : \A i, j \in DOMAIN u[g] :
            /\ Hash(u[g][i].path) = g
            /\ IsFor(u[g][i], u[g][j].type, u[g][j].path) => i = j
    <3> SUFFICES ASSUME NEW g \in Buckets, NEW i \in DOMAIN u[g], NEW j \in DOMAIN u[g]
                 PROVE  /\ Hash(u[g][i].path) = g
                        /\ IsFor(u[g][i], u[g][j].type, u[g][j].path) => i = j
      OBVIOUS
    <3>1. CASE g # h
      BY <3>1, <2>4 DEF Tables
    <3>2. CASE g = h
      <4>1. Hash(u[g][i].path) = g
        BY <3>2, <2>5, <2>6 DEF Tables
      <4>2. ASSUME IsFor(u[g][i], u[g][j].type, u[g][j].path)
            PROVE  i = j
        <5>1. CASE i \in DOMAIN t[h] /\ u[h][i] = t[h][i]
          <6>1. CASE j \in DOMAIN t[h] /\ u[h][j] = t[h][j]
            BY <3>2, <4>2, <5>1, <6>1 DEF Tables
          <6>2. CASE u[h][j] = e
            <7>1. IsFor(t[h][i], which, path)
              BY <2>5, <3>2, <4>2, <5>1, <6>2 DEF IsFor
            <7> QED
              BY <7>1, <5>1, <1>2
          <6> QED
            BY <2>6, <3>2, <6>1, <6>2
        <5>2. CASE i = Len(t[h]) + 1 /\ u[h][i] = e
          <6>1. CASE j \in DOMAIN t[h] /\ u[h][j] = t[h][j]
            <7>1. IsFor(t[h][j], which, path)
              BY <2>5, <3>2, <4>2, <5>2, <6>1 DEF IsFor
            <7> QED
              BY <7>1, <6>1, <1>2
          <6>2. CASE j = Len(t[h]) + 1
            BY <5>2, <6>2
          <6> QED
            BY <2>6, <3>2, <6>1, <6>2
        <5> QED
          BY <2>6, <3>2, <5>1, <5>2
      <4> QED
        BY <4>1, <4>2
    <3> QED
      BY <3>1, <3>2
  <2>8. u \in Tables(E)
    BY <2>4, <2>7 DEF Tables
  <2>9. Has(u, which, path)
    <3>1. Len(t[h]) + 1 \in DOMAIN u[h] /\ u[h][Len(t[h]) + 1] = e
      BY <2>3, <2>4
    <3> QED
      BY <3>1, <2>5 DEF Has, IsFor
  <2>10. ASSUME NEW w, NEW p, Hash(p) \in Buckets, Has(t, w, p)
         PROVE  Has(u, w, p)
    <3>1. PICK i \in DOMAIN t[Hash(p)] : IsFor(t[Hash(p)][i], w, p)
      BY <2>10 DEF Has
    <3>2. CASE Hash(p) = h
      <4>1. i \in DOMAIN u[h] /\ u[h][i] = t[h][i]
        BY <2>3, <2>4, <3>1, <3>2
      <4> QED
        BY <3>1, <3>2, <4>1 DEF Has
    <3>3. CASE Hash(p) # h
      BY <2>4, <2>10, <3>1, <3>3 DEF Has
    <3> QED
      BY <3>2, <3>3
  <2> QED
    BY <2>8, <2>9, <2>10 DEF u
<1> QED
  BY <1>1, <1>2

\* The table that is found by the recursion over the entries.
After(t, ents, n) ==
    CHOOSE f : f = [k \in 0 .. n |->
                      IF k = 0 THEN t
                      ELSE RegHashtable(f[k - 1], ents[k].type, ents[k].addr, ents[k].path)]

LEMMA AfterExists ==
  ASSUME NEW t, NEW ents, NEW n \in Nat
  PROVE  After(t, ents, n) =
           [k \in 0 .. n |->
              IF k = 0 THEN t
              ELSE RegHashtable(After(t, ents, n)[k - 1], ents[k].type, ents[k].addr, ents[k].path)]
<1> DEFINE Step(f, k) == IF k = 0 THEN t
                         ELSE RegHashtable(f[k - 1], ents[k].type, ents[k].addr, ents[k].path)
           Is(f, m) == f = [k \in 0 .. m |-> Step(f, k)]
           T == {m \in Nat : ~ \E f : Is(f, m)}
<1>1. T = {}
  <2> SUFFICES ASSUME T # {} PROVE FALSE
    OBVIOUS
  <2>1. PICK m \in T : \A k \in T : m <= k
    <3> HIDE DEF T
    <3> SUFFICES T \in SUBSET Nat
      BY LeastOf
    <3> QED BY DEF T
  <2>2. m \in Nat /\ \A f : ~Is(f, m)
    BY <2>1
  <2>3. CASE m = 0
    <3> DEFINE f == [k \in 0 .. 0 |-> t]
    <3>1. f = [k \in 0 .. 0 |-> Step(f, k)]
      OBVIOUS
    <3>2. Is(f, 0)
      BY <3>1
    <3> HIDE DEF Is
    <3> QED BY <2>2, <2>3, <3>2
  <2>4. CASE m # 0
    <3>1. m - 1 \in Nat /\ m - 1 \notin T
      <4> HIDE DEF T
      <4> QED BY <2>1, <2>2, <2>4
    <3>2. PICK g : Is(g, m - 1)
      BY <3>1
    <3> DEFINE f == [k \in 0 .. m |-> IF k < m THEN g[k] ELSE Step(g, m)]
    <3>3. ASSUME NEW k \in 0 .. m
          PROVE  f[k] = Step(f, k)
      <4>1. CASE k < m
        <5>1. f[k] = g[k] /\ g[k] = Step(g, k)
          BY <4>1, <3>2, <2>2
        <5>2. k # 0 => f[k - 1] = g[k - 1]
          BY <4>1, <2>2
        <5> QED
          BY <5>1, <5>2
      <4>2. CASE k = m
        <5>1. f[k] = Step(g, m)
          BY <4>2, <2>2
        <5>2. f[m - 1] = g[m - 1]
          BY <2>2, <2>4
        <5> QED
          BY <5>1, <5>2, <4>2
      <4> QED
        BY <4>1, <4>2, <2>2
    <3>4. f = [k \in 0 .. m |-> Step(f, k)]
      <4>1. f = [k \in 0 .. m |-> f[k]]
        OBVIOUS
      <4> HIDE DEF f, Step
      <4> QED BY <3>3, <4>1
    <3>5. Is(f, m)
      BY <3>4
    <3> HIDE DEF Is, f
    <3> QED BY <2>2, <3>5
  <2> QED
    BY <2>3, <2>4
<1>2. \E f : Is(f, n)
  BY <1>1
<1> QED
  BY <1>2 DEF After
\* Registering a list keeps the table one, finds room for every item, and loses none.
LEMMA RegistersAll ==
  ASSUME NEW E, NEW t \in Tables(E), NEW ents, Len(ents) \in Nat,
         \A k \in 1 .. Len(ents) :
            /\ Entry(ents[k].type, ents[k].path, ents[k].addr) \in E
            /\ Hash(ents[k].path) \in Buckets
  PROVE  /\ RegEntries(t, ents) \in Tables(E)
         /\ \A k \in 1 .. Len(ents) : Has(RegEntries(t, ents), ents[k].type, ents[k].path)
         /\ \A w, p : Hash(p) \in Buckets /\ Has(t, w, p) => Has(RegEntries(t, ents), w, p)
<1> DEFINE n == Len(ents)
           a == After(t, ents, n)
           Good(k) == /\ a[k] \in Tables(E)
                      /\ \A j \in 1 .. k : Has(a[k], ents[j].type, ents[j].path)
                      /\ \A w, p : Hash(p) \in Buckets /\ Has(t, w, p) => Has(a[k], w, p)
           T == {k \in 0 .. n : ~Good(k)}
<1>1. RegEntries(t, ents) = a[n]
  BY DEF RegEntries, After
<1>2. \A k \in 0 .. n :
         a[k] = IF k = 0 THEN t
                ELSE RegHashtable(a[k - 1], ents[k].type, ents[k].addr, ents[k].path)
  <2> HIDE DEF a
  <2>1. a = [k \in 0 .. n |->
               IF k = 0 THEN t
               ELSE RegHashtable(a[k - 1], ents[k].type, ents[k].addr, ents[k].path)]
    BY AfterExists DEF a
  <2> HIDE DEF n
  <2> QED BY <2>1
<1>3. T = {}
  <2> HIDE DEF a
  <2> SUFFICES ASSUME T # {} PROVE FALSE
    OBVIOUS
  <2>1. PICK m \in T : \A k \in T : m <= k
    <3> HIDE DEF Good
    <3>1. T \in SUBSET Nat
      OBVIOUS
    <3> HIDE DEF T
    <3> QED BY <3>1, LeastOf
  <2>2. m \in 0 .. n /\ ~Good(m)
    BY <2>1
  <2>3. CASE m = 0
    BY <2>2, <2>3, <1>2
  <2>4. CASE m # 0
    <3>1. m - 1 \in 0 .. n /\ m \in 1 .. n
      BY <2>2, <2>4
    <3>2. Good(m - 1)
      <4> HIDE DEF Good
      <4>1. m - 1 \notin T
        <5> HIDE DEF T
        <5> QED BY <2>1, <3>1
      <4> QED BY <3>1, <4>1
    <3>3. a[m] = RegHashtable(a[m - 1], ents[m].type, ents[m].addr, ents[m].path)
      BY <1>2, <2>2, <2>4
    <3>4. /\ a[m] \in Tables(E) /\ Has(a[m], ents[m].type, ents[m].path)
          /\ \A w, p : Hash(p) \in Buckets /\ Has(a[m - 1], w, p) => Has(a[m], w, p)
      BY <3>1, <3>2, <3>3, Registers
    <3>5. \A j \in 1 .. m : j = m \/ j \in 1 .. m - 1
      BY <3>1
    <3>6. \A j \in 1 .. m : Has(a[m], ents[j].type, ents[j].path)
      <4> SUFFICES ASSUME NEW j \in 1 .. m
                   PROVE  Has(a[m], ents[j].type, ents[j].path)
        OBVIOUS
      <4>1. CASE j = m
        BY <4>1, <3>4
      <4>2. CASE j \in 1 .. m - 1
        <5>1. Has(a[m - 1], ents[j].type, ents[j].path)
          BY <4>2, <3>2
        <5>2. Hash(ents[j].path) \in Buckets
          BY <4>2, <3>1
        <5> QED
          BY <5>1, <5>2, <3>4
      <4> QED
        BY <4>1, <4>2, <3>5
    <3>7. \A w, p : Hash(p) \in Buckets /\ Has(t, w, p) => Has(a[m], w, p)
      BY <3>2, <3>4
    <3> QED
      BY <2>2, <3>4, <3>6, <3>7
  <2> QED
    BY <2>3, <2>4
<1>4. Good(n)
  <2> HIDE DEF Good, a
  <2> QED BY <1>3
<1> QED
  BY <1>1, <1>4

\* A type and a path that the table has are found, and what is found is the one entry.
LEMMA Finds ==
  ASSUME NEW E, NEW t \in Tables(E), NEW which, NEW path, Hash(path) \in Buckets,
         Null \notin {e.addr : e \in E}
  PROVE  LET found == FindHashtable(t, path, which)
         IN  /\ found # Null => Entry(which, path, found) \in {Entry(e.type, e.path, e.addr) : e \in E}
             /\ Has(t, which, path) => found # Null
             /\ \A i \in DOMAIN t[Hash(path)] :
                   IsFor(t[Hash(path)][i], which, path) => found = t[Hash(path)][i].addr
<1> DEFINE b == t[Hash(path)]
           S == {i \in DOMAIN b : IsFor(b[i], which, path)}
           found == FindHashtable(t, path, which)
<1>1. b \in Seq(E) /\ DOMAIN b \in SUBSET Nat /\ \A i \in DOMAIN b : b[i] \in E
  BY DEF Tables
<1>2. \A i, j \in S : i = j
  BY DEF Tables, IsFor
<1>3. CASE S = {}
  <2>1. found = Null
    BY <1>3 DEF FindHashtable
  <2> QED
    BY <1>3, <2>1 DEF Has
<1>4. CASE S # {}
  <2>1. PICK m \in S : \A k \in S : m <= k
    <3>1. S \in SUBSET Nat
      BY <1>1
    <3> HIDE DEF S
    <3> QED BY <1>4, <3>1, LeastOf
  <2>2. (CHOOSE i \in S : \A j \in S : i <= j) \in S
    <3> HIDE DEF S
    <3> QED BY <2>1
  <2>3. (CHOOSE i \in S : \A j \in S : i <= j) = m
    BY <2>1, <2>2, <1>2
  <2>4. found = b[m].addr
    BY <1>4, <2>3 DEF FindHashtable
  <2>5. b[m] \in E /\ b[m].type = which /\ b[m].path = path
    BY <1>1, <2>1 DEF IsFor
  <2>6. found # Null
    BY <2>4, <2>5
  <2>7. \A i \in DOMAIN b : IsFor(b[i], which, path) => i = m
    BY <1>2, <2>1
  <2> HIDE DEF found, S
  <2>8. Entry(which, path, found) = Entry(b[m].type, b[m].path, b[m].addr)
    BY <2>4, <2>5
  <2>9. \A i \in DOMAIN b : IsFor(b[i], which, path) => found = b[i].addr
    BY <2>4, <2>7
  <2> QED
    BY <2>5, <2>6, <2>8, <2>9 DEF found
<1> QED
  BY <1>3, <1>4
-----------------------------------------------------------------------------
(* The invariant of one run, in terms of the program v, the files f and    *)
(* the processes S that have been registered.                              *)

RunFields ==
    {"at", "mode", "table", "stmts", "reply", "body", "bits", "pstmt", "result"}

VersionBy(v, doc) == IF v = "poc" THEN PolicyVersion(doc) ELSE ppol_ver(doc)

Parsed(v, f, stmts) ==
    /\ f.policy \in Policies /\ f.policy.text = "ok"
    /\ ~PolicyCrashes(VersionBy(v, f.policy), f.policy)
    /\ stmts = ParsePolicy(VersionBy(v, f.policy), f.policy)

Entries(S, stmts) ==
    {Entry("procinfo", p.path, p) : p \in S} \cup
    {Entry("policy", s.exec_path, s) : s \in ToSet(stmts)}

\* The table has what was registered and the statements, and every statement.
TableInv(r, v, f, S) ==
    /\ r.stmts = <<>> \/ Parsed(v, f, r.stmts)
    /\ r.at \in {"config", "policy"} => r.stmts = <<>>
    /\ r.table \in Tables(Entries(S, r.stmts))
    /\ \A i \in DOMAIN r.stmts : Has(r.table, "policy", r.stmts[i].exec_path)

Answers == [quote : Quotes \cup {Null}, body : Chains]

\* A run that has processes has them from a reply with a quote, and in poc from one that
\* was verified.
ReplyInv(r, c, v, f) ==
    /\ r.reply \in {Null, Unset} \cup Answers
    /\ r.at = "quote" => r.reply \in {Unset} \cup Answers
    /\ r.at \in {"config", "policy", "measure", "quote"} => r.body = Unset /\ r.bits = {}
    /\ r.body \in Chains \cup {Unset}
    /\ r.body # Unset =>
          /\ r.reply \in Answers /\ r.reply.quote # Null /\ r.body = r.reply.body
          /\ v = "poc" => f.key = "ours" /\ f.reg = "same"
    /\ r.bits \subseteq Bits
    /\ v = "sgx" /\ "FRESH" \in r.bits => r.reply.quote = [chain |-> r.body, nonce |-> c]

Agrees(r) ==
    /\ "QUOTE" \in r.bits /\ VerifyBinaries(r.table, r.body)
    /\ "yes" \in CheckIchain(r.pstmt.iarray, r.body)
    /\ "yes" \in CheckUids(r.pstmt.uid, r.body)
Differs(r) ==
    \/ "QUOTE" \notin r.bits \/ ~VerifyBinaries(r.table, r.body)
    \/ "no" \in CheckIchain(r.pstmt.iarray, r.body)
    \/ "no" \in CheckUids(r.pstmt.uid, r.body)

\* The bits of the comparisons are not there before them: those of an extraction are
\* left only where there are no processes to judge.
JudgeInv(r) ==
    /\ r.pstmt \in ToSet(r.stmts) \cup {Null}
    /\ r.at \in {"judge", "compare"} /\ r.body # Unset => r.bits \subseteq {"QUOTE", "FRESH"}
    /\ r.at = "compare" \/ r.result \in {"success", "failed"} =>
          /\ r.body # Unset /\ r.pstmt \in ToSet(r.stmts)
          /\ IsAbout(r.pstmt, Last(r.body).path)
    /\ r.result = "success" => Agrees(r)
    /\ r.result = "failed" => Differs(r)
    /\ r.result = "registered" => r.body # Unset

ModeInv(r) ==
    /\ r.at \in {"config", "policy", "measure", "quote", "register", "judge",
                 "compare", "end"}
    /\ r.mode \in {"verify", "register"}
    /\ IF r.at = "end" THEN r.result \in Results ELSE r.result = Null
    /\ r.at \in {"judge", "compare"} \/ r.result \in {"success", "failed"} => r.mode = "verify"
    /\ r.at = "register" \/ r.result = "registered" => r.mode = "register"

RunInv(r, c, v, f, S) ==
    /\ DOMAIN r = RunFields
    /\ TableInv(r, v, f, S) /\ ReplyInv(r, c, v, f) /\ JudgeInv(r) /\ ModeInv(r)

WorldInv ==
    /\ variant \in {"poc", "sgx"} /\ files \in [policy : Policies, key : Keys, reg : RegQuotes, ak : Aks]
    /\ conf \in {Null, <<>>} \/ (conf \in Chains /\ ToSet(conf) \subseteq registered)
    /\ current \in Chains /\ changes \in 0 .. MaxChanges
    /\ lastq \in Quotes \cup {Null}
    /\ registered \subseteq Infos

RunsInv ==
    /\ run = [c \in Clients |-> run[c]]
    /\ \A c \in Clients : run[c] = NotStarted \/ RunInv(run[c], c, variant, files, registered)

Inv == WorldInv /\ RunsInv

LEMMA RunInvGrows ==
  ASSUME NEW r, NEW c, NEW v, NEW f, NEW S, NEW S2, S \subseteq S2, RunInv(r, c, v, f, S)
  PROVE  RunInv(r, c, v, f, S2)
<1>1. Entries(S, r.stmts) \subseteq Entries(S2, r.stmts)
  BY DEF Entries
<1>2. r.table \in Tables(Entries(S2, r.stmts))
  BY <1>1, TablesGrow DEF RunInv, TableInv
<1> QED
  BY <1>2 DEF RunInv, TableInv

LEMMA InitInv == Init => Inv
<1> SUFFICES ASSUME Init PROVE Inv
  OBVIOUS
<1>1. WorldInv
  BY VerifyAssumption DEF Init, WorldInv
<1>2. RunsInv
  BY DEF Init, RunsInv
<1> QED
  BY <1>1, <1>2 DEF Inv

\* What a step does: one run has another state, which is admissible with the processes
\* that are registered after the step.
StepOf(c) ==
    /\ run' = [run EXCEPT ![c] = run'[c]]
    /\ RunInv(run'[c], c, variant, files, registered')

\* A run has no result before its end.
LEMMA NoResult ==
  ASSUME Inv, NEW c \in Clients, run[c].at \notin {"none", "end"}
  PROVE  /\ RunInv(run[c], c, variant, files, registered) /\ run = [d \in Clients |-> run[d]]
         /\ run[c] # NotStarted /\ run[c].result = Null
         /\ Null \notin {"success", "failed", "registered"}
BY VerifyAssumption DEF Inv, RunsInv, RunInv, ModeInv, Results, NotStarted

\* The members of a run that a step leaves.
Keeps(c, names) == \A n \in names : run'[c][n] = run[c][n]

LEMMA StartStep ==
  ASSUME Inv, NEW c \in Clients, NEW mode \in {"verify", "register"}, Start(c, mode)
  PROVE  StepOf(c)
<1> DEFINE r == Started(mode)
<1>1. run' = [run EXCEPT ![c] = r] /\ run'[c] = r /\ registered' = registered
  BY DEF Start, Inv, RunsInv
<1>2. DOMAIN r = RunFields
  BY DEF Started, RunFields
<1>3. /\ r.at = IF mode = "verify" THEN "config" ELSE "policy"
      /\ r.mode = mode /\ r.table = EmptyTable(Buckets) /\ r.stmts = <<>>
      /\ r.reply = Null /\ r.body = Unset /\ r.bits = {} /\ r.pstmt = Null /\ r.result = Null
  BY DEF Started
<1>4. TableInv(r, variant, files, registered)
  BY <1>3, EmptyIsTable, EmptySeq DEF TableInv
<1> HIDE DEF r
<1>5. ReplyInv(r, c, variant, files)
  BY <1>3 DEF ReplyInv
<1>6. ModeInv(r)
  BY <1>3, VerifyAssumption DEF ModeInv, Results
<1>7. JudgeInv(r)
  BY <1>3, VerifyAssumption DEF JudgeInv, Results
<1> QED
  BY <1>1, <1>2, <1>4, <1>5, <1>6, <1>7 DEF StepOf, RunInv

\* The end of a run that did not judge: everything but the result stays.
LEMMA EndStep ==
  ASSUME Inv, NEW c \in Clients, NEW result \in Results \ {"success", "failed"},
         run[c] # NotStarted, EndsWith(c, result), run[c].at # "end",
         registered \subseteq registered',
         result = "registered" => run[c].mode = "register" /\ run[c].body # Unset
  PROVE  StepOf(c)
<1> DEFINE r == run'[c]
<1>1. RunInv(run[c], c, variant, files, registered') /\ run = [d \in Clients |-> run[d]]
  BY RunInvGrows DEF Inv, RunsInv
<1>2. DOMAIN r = RunFields /\ r.at = "end" /\ r.result = result
      /\ Keeps(c, RunFields \ {"at", "result"})
      /\ run' = [run EXCEPT ![c] = r]
  BY <1>1 DEF EndsWith, RunInv, RunFields, Keeps
<1>3. r.mode = run[c].mode /\ r.table = run[c].table /\ r.stmts = run[c].stmts
      /\ r.reply = run[c].reply /\ r.body = run[c].body /\ r.bits = run[c].bits
      /\ r.pstmt = run[c].pstmt
  BY <1>2 DEF Keeps, RunFields
<1> HIDE DEF r
<1>4. TableInv(r, variant, files, registered')
  BY <1>1, <1>2, <1>3 DEF TableInv, RunInv
<1>5. ReplyInv(r, c, variant, files)
  BY <1>1, <1>2, <1>3 DEF ReplyInv, RunInv
<1>6. ModeInv(r)
  BY <1>1, <1>2, <1>3 DEF ModeInv, RunInv
<1>7. JudgeInv(r)
  BY <1>1, <1>2, <1>3 DEF JudgeInv, RunInv
<1> QED
  BY <1>2, <1>4, <1>5, <1>6, <1>7 DEF StepOf, RunInv, r
\* The processes of a configuration, and the statements, go into the table.
LEMMA ProcinfosIn ==
  ASSUME Inv, NEW t \in Tables(Entries(registered, <<>>)), conf \notin {Null, <<>>}
  PROVE  RegProcinfos(t, conf) \in Tables(Entries(registered, <<>>))
<1> DEFINE ents == [i \in DOMAIN conf |-> Entry("procinfo", conf[i].path, conf[i])]
           E == Entries(registered, <<>>)
<1>1. conf \in Chains /\ ToSet(conf) \subseteq registered
  BY DEF Inv, WorldInv
<1>2. Len(conf) \in Nat /\ DOMAIN conf = 1 .. Len(conf)
  BY <1>1, VerifyAssumption, ListIs
<1>3. \A i \in DOMAIN conf : conf[i] \in registered /\ Hash(conf[i].path) \in Buckets
  BY <1>1, VerifyAssumption DEF ToSet
<1>4. \A i \in DOMAIN conf :
         /\ ents[i] = Entry("procinfo", conf[i].path, conf[i]) /\ ents[i] \in E
         /\ ents[i].type = "procinfo" /\ ents[i].path = conf[i].path /\ ents[i].addr = conf[i]
  BY <1>3 DEF Entries, Entry
<1>5. Len(ents) = Len(conf)
  <2>1. DOMAIN ents = 1 .. Len(conf) /\ ents = [i \in DOMAIN ents |-> ents[i]]
    BY <1>2
  <2> HIDE DEF ents, E
  <2> QED BY <2>1, <1>2, <1>4, Mapped
<1> HIDE DEF ents, E
<1>6. \A k \in 1 .. Len(ents) :
            /\ Entry(ents[k].type, ents[k].path, ents[k].addr) \in E
            /\ Hash(ents[k].path) \in Buckets
  BY <1>2, <1>3, <1>4, <1>5
<1>7. RegEntries(t, ents) \in Tables(E)
  BY <1>2, <1>5, <1>6, RegistersAll DEF E
<1> QED
  BY <1>7 DEF RegProcinfos, ents, E

LEMMA StatementsIn ==
  ASSUME NEW v \in {"poc", "sgx"}, NEW f, NEW stmts, Parsed(v, f, stmts), NEW S,
         NEW t \in Tables(Entries(S, <<>>))
  PROVE  /\ RegStatements(t, stmts) \in Tables(Entries(S, stmts))
         /\ \A i \in DOMAIN stmts : Has(RegStatements(t, stmts), "policy", stmts[i].exec_path)
<1> DEFINE ents == [i \in DOMAIN stmts |-> Entry("policy", stmts[i].exec_path, stmts[i])]
           E == Entries(S, stmts)
           doc == f.policy
<1>1. doc \in Policies /\ doc.text = "ok" /\ VersionBy(v, doc) \in {PolicyVersion(doc), ppol_ver(doc)}
      /\ ~PolicyCrashes(VersionBy(v, doc), doc)
  BY DEF Parsed, VersionBy
<1>2. DOMAIN stmts = DOMAIN doc.stmts
      /\ \A i \in DOMAIN stmts : stmts[i] = ParseStatement(VersionBy(v, doc), doc.stmts[i])
  BY DEF Parsed, ParsePolicy
<1>3. Len(doc.stmts) \in Nat /\ DOMAIN doc.stmts = 1 .. Len(doc.stmts)
  BY <1>1, PolicyAssumption, ListIs
<1>4. \A i \in DOMAIN stmts : Hash(stmts[i].exec_path) \in Buckets
  BY <1>1, <1>2, PolicyAssumption
<1>5. \A i \in DOMAIN stmts :
         /\ ents[i] = Entry("policy", stmts[i].exec_path, stmts[i]) /\ ents[i] \in E
         /\ ents[i].type = "policy" /\ ents[i].path = stmts[i].exec_path /\ ents[i].addr = stmts[i]
  BY DEF Entries, Entry, ToSet
<1>6. Len(ents) = Len(doc.stmts)
  <2>1. DOMAIN ents = 1 .. Len(doc.stmts) /\ ents = [i \in DOMAIN ents |-> ents[i]]
    BY <1>2, <1>3
  <2>2. \A i \in DOMAIN ents : ents[i] \in E
    BY <1>5
  <2> HIDE DEF ents, E
  <2> QED BY <2>1, <2>2, <1>3, Mapped
<1>7. t \in Tables(E)
  <2>1. Entries(S, <<>>) \subseteq E
    BY EmptySeq DEF Entries, ToSet
  <2> HIDE DEF E
  <2> QED BY <2>1, TablesGrow
<1> HIDE DEF ents, E, doc
<1>8. \A k \in 1 .. Len(ents) :
            /\ Entry(ents[k].type, ents[k].path, ents[k].addr) \in E
            /\ Hash(ents[k].path) \in Buckets
  BY <1>2, <1>3, <1>4, <1>5, <1>6
<1>9. /\ RegEntries(t, ents) \in Tables(E)
      /\ \A k \in 1 .. Len(ents) : Has(RegEntries(t, ents), ents[k].type, ents[k].path)
  BY <1>3, <1>6, <1>7, <1>8, RegistersAll
<1>10. RegStatements(t, stmts) = RegEntries(t, ents)
  BY DEF RegStatements, ents
<1> QED
  BY <1>2, <1>3, <1>5, <1>6, <1>9, <1>10 DEF E

LEMMA ReadConfigStep ==
  ASSUME Inv, NEW c \in Clients, ReadConfig(c)
  PROVE  StepOf(c)
<1> DEFINE r == run'[c]
<1>1. RunInv(run[c], c, variant, files, registered) /\ run = [d \in Clients |-> run[d]]
      /\ run[c] # NotStarted /\ registered' = registered /\ run[c].at = "config"
      /\ run[c].result = Null /\ Null \notin {"success", "failed", "registered"}
  BY NoResult DEF ReadConfig
<1>2. CASE \E result \in {"noconf", "crash"} : EndsWith(c, result)
  BY <1>1, <1>2, EndStep DEF Results
<1>3. CASE conf \notin {Null, <<>>}
           /\ run' = [run EXCEPT ![c].at = "policy", ![c].table = RegProcinfos(@, conf)]
  <2>1. DOMAIN r = RunFields /\ r.at = "policy" /\ r.table = RegProcinfos(run[c].table, conf)
        /\ r.mode = run[c].mode /\ r.stmts = run[c].stmts
        /\ r.reply = run[c].reply /\ r.body = run[c].body /\ r.bits = run[c].bits
        /\ r.pstmt = run[c].pstmt /\ r.result = run[c].result
        /\ run' = [run EXCEPT ![c] = r]
    BY <1>1, <1>3 DEF RunInv, RunFields
  <2> HIDE DEF r
  <2>2. r.table \in Tables(Entries(registered, r.stmts)) /\ r.stmts = <<>>
    BY <1>1, <1>3, <2>1, ProcinfosIn DEF RunInv, TableInv
  <2>3. TableInv(r, variant, files, registered')
    BY <1>1, <2>2, EmptySeq DEF TableInv
  <2>4. ReplyInv(r, c, variant, files)
    BY <1>1, <2>1 DEF ReplyInv, RunInv
  <2>5. ModeInv(r)
    BY <1>1, <2>1 DEF ModeInv, RunInv
  <2>6. JudgeInv(r)
    BY <1>1, <2>1 DEF JudgeInv, RunInv
  <2> QED
    BY <2>1, <2>3, <2>4, <2>5, <2>6 DEF StepOf, RunInv, r
<1>4. CASE run' = [run EXCEPT ![c].at = "policy"]
  <2>1. DOMAIN r = RunFields /\ r.at = "policy" /\ r.table = run[c].table
        /\ r.mode = run[c].mode /\ r.stmts = run[c].stmts
        /\ r.reply = run[c].reply /\ r.body = run[c].body /\ r.bits = run[c].bits
        /\ r.pstmt = run[c].pstmt /\ r.result = run[c].result
        /\ run' = [run EXCEPT ![c] = r]
    BY <1>1, <1>4 DEF RunInv, RunFields
  <2> HIDE DEF r
  <2>2. TableInv(r, variant, files, registered')
    BY <1>1, <2>1 DEF TableInv, RunInv
  <2>3. ReplyInv(r, c, variant, files)
    BY <1>1, <2>1 DEF ReplyInv, RunInv
  <2>4. ModeInv(r)
    BY <1>1, <2>1 DEF ModeInv, RunInv
  <2>5. JudgeInv(r)
    BY <1>1, <2>1 DEF JudgeInv, RunInv
  <2> QED
    BY <2>1, <2>2, <2>3, <2>4, <2>5 DEF StepOf, RunInv, r
<1> QED
  BY <1>1, <1>2, <1>3, <1>4 DEF ReadConfig
LEMMA ReadPolicyStep ==
  ASSUME Inv, NEW c \in Clients, ReadPolicy(c)
  PROVE  StepOf(c)
<1> DEFINE r == run'[c]
           doc == files.policy
           stmts == ParsePolicy(VersionOf(doc), doc)
<1>1. RunInv(run[c], c, variant, files, registered) /\ run = [d \in Clients |-> run[d]]
      /\ run[c] # NotStarted /\ registered' = registered /\ run[c].at = "policy"
      /\ run[c].result = Null /\ Null \notin {"success", "failed", "registered"}
  BY NoResult DEF ReadPolicy
<1>2. CASE \E result \in {"nopolicy", "crash"} : EndsWith(c, result)
  BY <1>1, <1>2, EndStep DEF Results
<1>3. CASE /\ doc.text = "ok" /\ ~PolicyCrashes(VersionOf(doc), doc)
           /\ run' = [run EXCEPT ![c].at = "measure", ![c].stmts = stmts,
                                 ![c].table = RegStatements(@, stmts)]
  <2>1. DOMAIN r = RunFields /\ r.at = "measure" /\ r.table = RegStatements(run[c].table, stmts)
        /\ r.stmts = stmts
        /\ r.mode = run[c].mode /\ r.reply = run[c].reply /\ r.body = run[c].body
        /\ r.bits = run[c].bits /\ r.pstmt = run[c].pstmt /\ r.result = run[c].result
        /\ run' = [run EXCEPT ![c] = r]
    <3> HIDE DEF stmts
    <3> QED BY <1>1, <1>3 DEF RunInv, RunFields
  <2>2. Parsed(variant, files, stmts) /\ variant \in {"poc", "sgx"}
    BY <1>3 DEF Parsed, VersionBy, VersionOf, Inv, WorldInv
  <2> HIDE DEF r, stmts
  <2>3. run[c].stmts = <<>> /\ run[c].table \in Tables(Entries(registered, <<>>))
    BY <1>1 DEF RunInv, TableInv
  <2>4. TableInv(r, variant, files, registered')
    BY <1>1, <2>1, <2>2, <2>3, StatementsIn DEF TableInv
  <2>5. ReplyInv(r, c, variant, files)
    BY <1>1, <2>1 DEF ReplyInv, RunInv
  <2>6. ModeInv(r)
    BY <1>1, <2>1 DEF ModeInv, RunInv
  <2>7. JudgeInv(r)
    BY <1>1, <2>1, <2>3, EmptySeq DEF JudgeInv, RunInv, ToSet
  <2> QED
    BY <2>1, <2>4, <2>5, <2>6, <2>7 DEF StepOf, RunInv, r
<1>4. doc.text \in {"missing", "bad", "ok"}
      /\ (\/ \E result \in {"nopolicy", "crash"} : EndsWith(c, result)
          \/ /\ doc.text = "ok" /\ ~PolicyCrashes(VersionOf(doc), doc)
             /\ run' = [run EXCEPT ![c].at = "measure", ![c].stmts = stmts,
                                   ![c].table = RegStatements(@, stmts)])
  BY PolicyAssumption DEF ReadPolicy, Inv, WorldInv
<1> QED
  BY <1>2, <1>3, <1>4

\* The daemon answers with processes that may be measured, and with no quote, its own for
\* this call or that of a call before.
LEMMA AnswerIs ==
  ASSUME Inv, NEW c \in Clients, NEW kind \in Replies, kind # "none",
         kind = "stale" => lastq # Null
  PROVE  Answer(c, kind) \in {Unset} \cup Answers
<1>1. Quote(c) \in Quotes /\ current \in Chains /\ lastq \in Quotes \cup {Null}
  BY DEF Inv, WorldInv, Quote, Quotes, hash_extend_sha256
<1>2. CASE kind = "fresh"
  BY <1>1, <1>2 DEF Answer, Answers
<1>3. CASE kind = "stale"
  BY <1>1, <1>3 DEF Answer, Answers
<1>4. CASE kind = "empty"
  BY <1>1, <1>4 DEF Answer, Answers
<1>5. CASE kind = "large"
  BY <1>5 DEF Answer
<1> QED
  BY <1>2, <1>3, <1>4, <1>5, VerifyAssumption

LEMMA MeasureStep ==
  ASSUME Inv, NEW c \in Clients, Measure(c)
  PROVE  StepOf(c) /\ lastq' \in Quotes \cup {Null}
<1> DEFINE r == run'[c]
<1>1. RunInv(run[c], c, variant, files, registered) /\ run = [d \in Clients |-> run[d]]
      /\ run[c] # NotStarted /\ registered' = registered /\ run[c].at = "measure"
      /\ run[c].result = Null /\ Null \notin {"success", "failed", "registered"}
  BY NoResult DEF Measure
<1>2. CASE (\E result \in {"noreply", "crash"} : EndsWith(c, result)) /\ UNCHANGED lastq
  BY <1>1, <1>2, EndStep DEF Results, Inv, WorldInv
<1>3. ASSUME NEW kind \in Replies, kind # "none", kind = "stale" => lastq # Null,
             run' = [run EXCEPT ![c].at = "quote", ![c].reply = Answer(c, kind)],
             lastq' = IF kind = "fresh" THEN Quote(c) ELSE lastq
      PROVE  StepOf(c) /\ lastq' \in Quotes \cup {Null}
  <2>1. DOMAIN r = RunFields /\ r.at = "quote" /\ r.reply = Answer(c, kind)
        /\ r.mode = run[c].mode /\ r.table = run[c].table /\ r.stmts = run[c].stmts
        /\ r.body = run[c].body /\ r.bits = run[c].bits
        /\ r.pstmt = run[c].pstmt /\ r.result = run[c].result
        /\ run' = [run EXCEPT ![c] = r]
    BY <1>1, <1>3 DEF RunInv, RunFields
  <2>2. r.reply \in {Unset} \cup Answers
    BY <1>3, <2>1, AnswerIs
  <2>3. lastq' \in Quotes \cup {Null}
    BY <1>3 DEF Inv, WorldInv, Quote, Quotes, hash_extend_sha256
  <2> HIDE DEF r
  <2>4. TableInv(r, variant, files, registered')
    BY <1>1, <2>1 DEF TableInv, RunInv
  <2>5. ReplyInv(r, c, variant, files)
    BY <1>1, <2>1, <2>2 DEF ReplyInv, RunInv
  <2>6. ModeInv(r)
    BY <1>1, <2>1 DEF ModeInv, RunInv
  <2>7. JudgeInv(r)
    BY <1>1, <2>1 DEF JudgeInv, RunInv
  <2> QED
    BY <2>1, <2>3, <2>4, <2>5, <2>6, <2>7 DEF StepOf, RunInv, r
<1> QED
  BY <1>2, <1>3 DEF Measure, Aborts
\* The early returns of pica_verify_tpm2all give no processes.
LEMMA VerifiedAll ==
  ASSUME NEW reply \in {Unset} \cup Answers
  PROVE  LET v == pica_verify_tpm2all(reply)
         IN  /\ v.bits \subseteq Bits /\ v.body \in Chains \cup {Unset}
             /\ v.body # Unset =>
                   /\ reply \in Answers /\ reply.quote # Null /\ v.body = reply.body
                   /\ files.key = "ours" /\ files.reg = "same"
                   /\ v.bits \subseteq {"QUOTE", "FRESH"}
<1> DEFINE got == extract_tpm2evidence(reply)
           v == pica_verify_tpm2all(reply)
<1>1. got \subseteq {"QUOTE", "FRESH", "BINARIES"}
      /\ (got # {} => reply \in Answers /\ reply.quote # Null)
  BY DEF extract_tpm2evidence
<1>2. CASE got = {} \/ ~(read_pubkey /\ verify_tpm2quote_sig)
  <2>1. v.bits = got /\ v.body = Unset
    BY <1>2 DEF pica_verify_tpm2all, TPM2All
  <2> QED
    BY <1>1, <2>1 DEF Bits
<1>3. CASE got # {} /\ read_pubkey /\ verify_tpm2quote_sig /\ ~SelectionAgrees
  <2>1. v.bits = {"FRESH"} /\ v.body = Unset
    BY <1>3 DEF pica_verify_tpm2all, TPM2All
  <2> QED
    BY <2>1 DEF Bits
<1>4. CASE got # {} /\ read_pubkey /\ verify_tpm2quote_sig /\ SelectionAgrees
  <2>1. v.bits \subseteq {"QUOTE", "FRESH"} /\ v.body = reply.body
    BY <1>4 DEF pica_verify_tpm2all, TPM2All
  <2>2. files.key = "ours" /\ files.reg = "same"
    BY <1>4 DEF verify_tpm2quote_sig, SelectionAgrees
  <2>3. reply.body \in Chains
    BY <1>1, <1>4 DEF Answers
  <2> QED
    BY <1>1, <1>4, <2>1, <2>2, <2>3 DEF Bits
<1> QED
  BY <1>2, <1>3, <1>4

LEMMA VerifyTpm2Step ==
  ASSUME Inv, NEW c \in Clients, VerifyTpm2(c)
  PROVE  StepOf(c)
<1> DEFINE r == run'[c]
           v == pica_verify_tpm2all(run[c].reply)
<1>1. RunInv(run[c], c, variant, files, registered) /\ run = [d \in Clients |-> run[d]]
      /\ run[c] # NotStarted /\ registered' = registered /\ run[c].at = "quote"
      /\ run[c].result = Null /\ Null \notin {"success", "failed", "registered"}
      /\ variant = "poc"
  BY NoResult DEF VerifyTpm2, VerifyTpm2To
<1>2. CASE EndsWith(c, "crash")
  BY <1>1, <1>2, EndStep DEF Results
<1>3. CASE run' = [run EXCEPT ![c].bits = v.bits, ![c].body = v.body, ![c].at = Afterwards(c)]
  <2> HIDE DEF v
  <2>1. DOMAIN r = RunFields /\ r.at = Afterwards(c) /\ r.bits = v.bits /\ r.body = v.body
        /\ r.mode = run[c].mode /\ r.table = run[c].table /\ r.stmts = run[c].stmts
        /\ r.reply = run[c].reply /\ r.pstmt = run[c].pstmt /\ r.result = run[c].result
        /\ run' = [run EXCEPT ![c] = r]
    BY <1>1, <1>3 DEF RunInv, RunFields
  <2> HIDE DEF r
  <2>2. run[c].reply \in {Unset} \cup Answers
    BY <1>1 DEF RunInv, ReplyInv
  <2>3. /\ v.bits \subseteq Bits /\ v.body \in Chains \cup {Unset}
        /\ v.body # Unset =>
              /\ r.reply \in Answers /\ r.reply.quote # Null /\ v.body = r.reply.body
              /\ files.key = "ours" /\ files.reg = "same"
              /\ v.bits \subseteq {"QUOTE", "FRESH"}
    BY <2>1, <2>2, VerifiedAll DEF v
  <2>4. r.at = (IF r.mode = "register" THEN "register" ELSE "judge")
    BY <2>1 DEF Afterwards
  <2>5. TableInv(r, variant, files, registered')
    BY <1>1, <2>1, <2>4 DEF TableInv, RunInv
  <2>6. ReplyInv(r, c, variant, files)
    BY <1>1, <2>1, <2>3, <2>4 DEF ReplyInv, RunInv
  <2>7. ModeInv(r)
    BY <1>1, <2>1, <2>4 DEF ModeInv, RunInv
  <2>8. JudgeInv(r)
    BY <1>1, <2>1, <2>3, <2>4 DEF JudgeInv, RunInv
  <2> QED
    BY <2>1, <2>5, <2>6, <2>7, <2>8 DEF StepOf, RunInv, r
<1> QED
  BY <1>2, <1>3 DEF VerifyTpm2, VerifyTpm2To

LEMMA HandleReplyStep ==
  ASSUME Inv, NEW c \in Clients, HandleReply(c)
  PROVE  StepOf(c)
<1> DEFINE r == run'[c]
           reply == run[c].reply
           bits == {b \in {"QUOTE", "FRESH"} :
                      IF b = "QUOTE" THEN HandleTpm2Quote ELSE FreshHash(c, reply)}
<1>1. RunInv(run[c], c, variant, files, registered) /\ run = [d \in Clients |-> run[d]]
      /\ run[c] # NotStarted /\ registered' = registered /\ run[c].at = "quote"
      /\ run[c].result = Null /\ Null \notin {"success", "failed", "registered"}
      /\ variant = "sgx"
  BY NoResult DEF HandleReply
<1>2. CASE \E result \in {"notmap", "crash"} : EndsWith(c, result)
  BY <1>1, <1>2, EndStep DEF Results
<1>3. CASE /\ reply # Unset /\ reply.quote # Null
           /\ run' = [run EXCEPT ![c].body = reply.body, ![c].bits = bits, ![c].at = Afterwards(c)]
  <2>1. DOMAIN r = RunFields /\ r.at = Afterwards(c) /\ r.bits = bits /\ r.body = reply.body
        /\ r.mode = run[c].mode /\ r.table = run[c].table /\ r.stmts = run[c].stmts
        /\ r.reply = run[c].reply /\ r.pstmt = run[c].pstmt /\ r.result = run[c].result
        /\ run' = [run EXCEPT ![c] = r]
    <3> HIDE DEF bits
    <3> QED BY <1>1, <1>3 DEF RunInv, RunFields
  <2>2. bits \subseteq {"QUOTE", "FRESH"}
        /\ ("FRESH" \in bits => reply.quote = [chain |-> reply.body, nonce |-> c])
    BY DEF FreshHash, hash_extend_sha256
  <2> HIDE DEF r, bits
  <2>3. reply \in Answers /\ reply.body \in Chains
    BY <1>1, <1>3 DEF RunInv, ReplyInv, Answers
  <2>4. r.at = (IF r.mode = "register" THEN "register" ELSE "judge")
    BY <2>1 DEF Afterwards
  <2>5. TableInv(r, variant, files, registered')
    BY <1>1, <2>1, <2>4 DEF TableInv, RunInv
  <2>6. ReplyInv(r, c, variant, files)
    BY <1>1, <1>3, <2>1, <2>2, <2>3, <2>4 DEF ReplyInv, RunInv, Bits
  <2>7. ModeInv(r)
    BY <1>1, <2>1, <2>4 DEF ModeInv, RunInv
  <2>8. JudgeInv(r)
    BY <1>1, <2>1, <2>2, <2>4 DEF JudgeInv, RunInv
  <2> QED
    BY <2>1, <2>5, <2>6, <2>7, <2>8 DEF StepOf, RunInv, r
<1> QED
  BY <1>2, <1>3 DEF HandleReply

LEMMA RegisterStep ==
  ASSUME Inv, NEW c \in Clients, Register(c)
  PROVE  /\ StepOf(c) /\ registered \subseteq registered' /\ registered' \subseteq Infos
         /\ conf' \in {Null, <<>>} \/ (conf' \in Chains /\ ToSet(conf') \subseteq registered')
<1>1. RunInv(run[c], c, variant, files, registered) /\ run[c] # NotStarted
      /\ run[c].at = "register" /\ run[c].mode = "register"
  BY NoResult DEF Register, RunInv, ModeInv
<1>2. CASE /\ run[c].body # Unset /\ conf' = run[c].body
           /\ registered' = registered \cup ToSet(run[c].body) /\ EndsWith(c, "registered")
  <2>1. run[c].body \in Chains
    BY <1>1, <1>2 DEF RunInv, ReplyInv
  <2>2. registered' \subseteq Infos
    BY <1>2, <2>1 DEF Inv, WorldInv, Infos
  <2>3. StepOf(c)
    BY <1>1, <1>2, EndStep DEF Results
  <2> QED
    BY <1>2, <2>1, <2>2, <2>3
<1>3. CASE /\ conf' \in IF conf = Null THEN {Null, <<>>} ELSE {conf}
           /\ EndsWith(c, "crash") /\ UNCHANGED registered
  <2>1. StepOf(c)
    BY <1>1, <1>3, EndStep DEF Results
  <2> QED
    BY <1>3, <2>1 DEF Inv, WorldInv
<1> QED
  BY <1>2, <1>3 DEF Register
-----------------------------------------------------------------------------
(* The comparisons.                                                        *)

\* Statements are those of a policy that was read, a list without NULL.
LEMMA StatementsAre ==
  ASSUME NEW v \in {"poc", "sgx"}, NEW f, NEW stmts, stmts = <<>> \/ Parsed(v, f, stmts)
  PROVE  DOMAIN stmts \in SUBSET Nat /\ Null \notin ToSet(stmts)
<1>1. CASE stmts = <<>>
  BY <1>1, EmptySeq DEF ToSet
<1>2. CASE Parsed(v, f, stmts)
  <2> DEFINE doc == f.policy
  <2>1. doc \in Policies /\ doc.text = "ok" /\ VersionBy(v, doc) \in {PolicyVersion(doc), ppol_ver(doc)}
        /\ ~PolicyCrashes(VersionBy(v, doc), doc)
    BY <1>2 DEF Parsed, VersionBy
  <2>2. DOMAIN stmts = DOMAIN doc.stmts
        /\ \A i \in DOMAIN stmts : stmts[i] = ParseStatement(VersionBy(v, doc), doc.stmts[i])
    BY <1>2 DEF Parsed, ParsePolicy
  <2>3. Len(doc.stmts) \in Nat /\ DOMAIN doc.stmts = 1 .. Len(doc.stmts)
    BY <2>1, PolicyAssumption, ListIs
  <2>4. \A i \in DOMAIN stmts : stmts[i] # Null
    BY <2>1, <2>2, PolicyAssumption
  <2> QED
    BY <2>2, <2>3, <2>4 DEF ToSet
<1> QED
  BY <1>1, <1>2

\* The statement that is found is about the path.
LEMMA PolicyFound ==
  ASSUME NEW stmts, DOMAIN stmts \in SUBSET Nat, NEW path, FindPolicy(stmts, path) # Null
  PROVE  LET s == FindPolicy(stmts, path) IN s \in ToSet(stmts) /\ IsAbout(s, path)
<1> DEFINE about == {i \in DOMAIN stmts : IsAbout(stmts[i], path)}
<1>1. about # {}
  BY DEF FindPolicy
<1>2. PICK m \in about : \A k \in about : m <= k
  <2>1. about \in SUBSET Nat
    OBVIOUS
  <2> HIDE DEF about
  <2> QED BY <1>1, <2>1, LeastOf
<1>3. (CHOOSE i \in about : \A j \in about : i <= j) \in about
  <2> HIDE DEF about
  <2> QED BY <1>2
<1>4. FindPolicy(stmts, path) = stmts[CHOOSE i \in about : \A j \in about : i <= j]
  BY <1>1 DEF FindPolicy
<1> QED
  BY <1>3, <1>4 DEF ToSet

LEMMA FindStatementStep ==
  ASSUME Inv, NEW c \in Clients, FindStatement(c)
  PROVE  StepOf(c)
<1> DEFINE r == run'[c]
           s == FindPolicy(run[c].stmts, Last(run[c].body).path)
<1>1. RunInv(run[c], c, variant, files, registered) /\ run = [d \in Clients |-> run[d]]
      /\ run[c] # NotStarted /\ registered' = registered /\ run[c].at = "judge"
      /\ run[c].result = Null /\ Null \notin {"success", "failed", "registered"}
  BY NoResult DEF FindStatement
<1>2. CASE \E result \in {"nostmt", "crash"} : EndsWith(c, result)
  BY <1>1, <1>2, EndStep DEF Results
<1>3. CASE /\ run[c].body # Unset /\ s # Null
           /\ run' = [run EXCEPT ![c].at = "compare", ![c].pstmt = s]
  <2>1. DOMAIN run[c].stmts \in SUBSET Nat
    BY <1>1, StatementsAre DEF RunInv, TableInv, Inv, WorldInv
  <2>2. s \in ToSet(run[c].stmts) /\ IsAbout(s, Last(run[c].body).path)
    BY <1>3, <2>1, PolicyFound
  <2> HIDE DEF s
  <2>3. DOMAIN r = RunFields /\ r.at = "compare" /\ r.pstmt = s
        /\ r.mode = run[c].mode /\ r.table = run[c].table /\ r.stmts = run[c].stmts
        /\ r.reply = run[c].reply /\ r.body = run[c].body /\ r.bits = run[c].bits
        /\ r.result = run[c].result
        /\ run' = [run EXCEPT ![c] = r]
    BY <1>1, <1>3 DEF RunInv, RunFields
  <2> HIDE DEF r
  <2>4. TableInv(r, variant, files, registered')
    BY <1>1, <2>3 DEF TableInv, RunInv
  <2>5. ReplyInv(r, c, variant, files)
    BY <1>1, <2>3 DEF ReplyInv, RunInv
  <2>6. ModeInv(r)
    BY <1>1, <2>3 DEF ModeInv, RunInv
  <2>7. JudgeInv(r)
    BY <1>1, <1>3, <2>2, <2>3 DEF JudgeInv, RunInv
  <2> QED
    BY <2>3, <2>4, <2>5, <2>6, <2>7 DEF StepOf, RunInv, r
<1> QED
  BY <1>2, <1>3 DEF FindStatement

LEMMA CompareStep ==
  ASSUME Inv, NEW c \in Clients, Compare(c)
  PROVE  StepOf(c)
<1> DEFINE r == run'[c]
           q == run[c]
           binaries == IF VerifyBinaries(q.table, q.body) THEN {"BINARIES"} ELSE {}
<1>1. RunInv(q, c, variant, files, registered) /\ run = [d \in Clients |-> run[d]]
      /\ run[c] # NotStarted /\ registered' = registered /\ q.at = "compare"
      /\ q.result = Null /\ Null \notin {"success", "failed", "registered"}
  BY NoResult DEF Compare
<1>2. CASE EndsWith(c, "crash")
  BY <1>1, <1>2, EndStep DEF Results
<1>3. ASSUME NEW chain \in CheckIchain(q.pstmt.iarray, q.body),
             NEW uids \in CheckUids(q.pstmt.uid, q.body),
             "crash" \notin {chain, uids},
             NEW bits, bits = q.bits \cup binaries
                              \cup (IF chain = "yes" THEN {"CHAIN"} ELSE {})
                              \cup (IF uids = "yes" THEN {"UIDS"} ELSE {}),
             run' = [run EXCEPT ![c].at = "end", ![c].bits = bits,
                        ![c].result = IF VERIFIED_ALL(bits) THEN "success" ELSE "failed"]
      PROVE  StepOf(c)
  <2> DEFINE result == IF VERIFIED_ALL(bits) THEN "success" ELSE "failed"
  <2>1. DOMAIN r = RunFields /\ r.at = "end" /\ r.bits = bits /\ r.result = result
        /\ r.mode = q.mode /\ r.table = q.table /\ r.stmts = q.stmts
        /\ r.reply = q.reply /\ r.body = q.body /\ r.pstmt = q.pstmt
        /\ run' = [run EXCEPT ![c] = r]
    <3> HIDE DEF result
    <3> QED BY <1>1, <1>3 DEF RunInv, RunFields, result
  <2>2. chain \in {"yes", "no", "crash"} /\ uids \in {"yes", "no", "crash"}
    BY DEF CheckIchain, CheckUids, CompareChain
  <2>3. q.bits \subseteq {"QUOTE", "FRESH"}
    BY <1>1 DEF RunInv, JudgeInv
  <2>4. /\ "QUOTE" \in bits <=> "QUOTE" \in q.bits
        /\ "FRESH" \in bits <=> "FRESH" \in q.bits
        /\ "BINARIES" \in bits <=> VerifyBinaries(q.table, q.body)
        /\ "CHAIN" \in bits <=> chain = "yes"
        /\ "UIDS" \in bits <=> uids = "yes"
        /\ bits \subseteq Bits
    BY <1>3, <2>3 DEF Bits
  <2>5. result \in {"success", "failed"}
        /\ (result = "success" <=> {"QUOTE", "BINARIES", "CHAIN", "UIDS"} \subseteq bits)
    BY DEF VERIFIED_ALL
  <2>6. result = "success" => Agrees(r)
    <3> HIDE DEF result, r, binaries
    <3> QED BY <2>1, <2>4, <2>5 DEF Agrees
  <2>7. result = "failed" => Differs(r)
    <3> HIDE DEF result, r, binaries
    <3>1. ASSUME result = "failed"
          PROVE  Differs(r)
      <4>1. \/ "QUOTE" \notin q.bits \/ ~VerifyBinaries(q.table, q.body)
            \/ chain = "no" \/ uids = "no"
        BY <1>3, <2>2, <2>4, <2>5, <3>1
      <4> QED
        BY <2>1, <2>4, <4>1 DEF Differs
    <3> QED
      BY <3>1
  <2> HIDE DEF r, result, binaries
  <2>8. TableInv(r, variant, files, registered')
    BY <1>1, <2>1 DEF TableInv, RunInv
  <2>9. ReplyInv(r, c, variant, files)
    BY <1>1, <2>1, <2>4 DEF ReplyInv, RunInv
  <2>10. ModeInv(r)
    BY <1>1, <2>1, <2>5 DEF ModeInv, RunInv, Results
  <2>11. JudgeInv(r)
    BY <1>1, <2>1, <2>5, <2>6, <2>7 DEF JudgeInv, RunInv
  <2> QED
    BY <2>1, <2>8, <2>9, <2>10, <2>11 DEF StepOf, RunInv, r
<1>4. PICK chain \in CheckIchain(q.pstmt.iarray, q.body), uids \in CheckUids(q.pstmt.uid, q.body) :
         IF "crash" \in {chain, uids} THEN EndsWith(c, "crash")
         ELSE LET bits == q.bits \cup binaries
                          \cup (IF chain = "yes" THEN {"CHAIN"} ELSE {})
                          \cup (IF uids = "yes" THEN {"UIDS"} ELSE {})
              IN  run' = [run EXCEPT ![c].at = "end", ![c].bits = bits,
                            ![c].result = IF VERIFIED_ALL(bits)
                                          THEN "success" ELSE "failed"]
  BY DEF Compare
<1>5. CASE "crash" \in {chain, uids}
  BY <1>2, <1>4, <1>5
<1>6. CASE "crash" \notin {chain, uids}
  <2>1. PICK b : b = q.bits \cup binaries
                     \cup (IF chain = "yes" THEN {"CHAIN"} ELSE {})
                     \cup (IF uids = "yes" THEN {"UIDS"} ELSE {})
    OBVIOUS
  <2>2. run' = [run EXCEPT ![c].at = "end", ![c].bits = b,
                  ![c].result = IF VERIFIED_ALL(b) THEN "success" ELSE "failed"]
    BY <1>4, <1>6, <2>1
  <2> HIDE DEF binaries, q
  <2> QED BY <1>3, <1>6, <2>1, <2>2
<1> QED
  BY <1>5, <1>6
-----------------------------------------------------------------------------
(* The invariant.                                                          *)

LEMMA RunsKept ==
  ASSUME Inv, NEW c \in Clients, StepOf(c), registered \subseteq registered',
         UNCHANGED <<variant, files>>
  PROVE  RunsInv'
<1>1. run' = [run EXCEPT ![c] = run'[c]] /\ run = [d \in Clients |-> run[d]]
  BY DEF StepOf, Inv, RunsInv
<1>2. run' = [d \in Clients |-> run'[d]] /\ \A d \in Clients \ {c} : run'[d] = run[d]
  BY <1>1
<1>3. ASSUME NEW d \in Clients
      PROVE  run'[d] = NotStarted \/ RunInv(run'[d], d, variant, files, registered')
  <2>1. CASE d = c
    BY <2>1 DEF StepOf
  <2>2. CASE d # c
    BY <2>2, <1>2, RunInvGrows DEF Inv, RunsInv
  <2> QED
    BY <2>1, <2>2
<1>4. variant' = variant /\ files' = files
  OBVIOUS
<1> QED
  BY <1>2, <1>3, <1>4 DEF RunsInv

LEMMA InvStep == Inv /\ [Next]_vars => Inv'
<1> SUFFICES ASSUME Inv, [Next]_vars PROVE Inv'
  OBVIOUS
<1>1. CASE UNCHANGED vars
  BY <1>1 DEF Inv, WorldInv, RunsInv, vars
<1>2. CASE Change
  BY <1>2, VerifyAssumption DEF Change, Inv, WorldInv, RunsInv
<1>3. ASSUME NEW c \in Clients, NEW mode \in {"verify", "register"}, Start(c, mode)
      PROVE  Inv'
  <2>1. WorldInv'
    BY <1>3 DEF Start, Inv, WorldInv
  <2>2. RunsInv'
    BY <1>3, StartStep, RunsKept DEF Start
  <2> QED
    BY <2>1, <2>2 DEF Inv
<1>4. ASSUME NEW c \in Clients, ReadConfig(c)
      PROVE  Inv'
  <2>1. WorldInv'
    BY <1>4 DEF ReadConfig, Inv, WorldInv
  <2>2. RunsInv'
    BY <1>4, ReadConfigStep, RunsKept DEF ReadConfig
  <2> QED
    BY <2>1, <2>2 DEF Inv
<1>5. ASSUME NEW c \in Clients, ReadPolicy(c)
      PROVE  Inv'
  <2>1. WorldInv'
    BY <1>5 DEF ReadPolicy, Inv, WorldInv
  <2>2. RunsInv'
    BY <1>5, ReadPolicyStep, RunsKept DEF ReadPolicy
  <2> QED
    BY <2>1, <2>2 DEF Inv
<1>6. ASSUME NEW c \in Clients, Measure(c)
      PROVE  Inv'
  <2>1. WorldInv'
    BY <1>6, MeasureStep DEF Measure, Inv, WorldInv
  <2>2. RunsInv'
    BY <1>6, MeasureStep, RunsKept DEF Measure
  <2> QED
    BY <2>1, <2>2 DEF Inv
<1>7. ASSUME NEW c \in Clients, VerifyTpm2(c)
      PROVE  Inv'
  <2>1. WorldInv'
    BY <1>7 DEF VerifyTpm2, VerifyTpm2To, Inv, WorldInv
  <2>2. RunsInv'
    BY <1>7, VerifyTpm2Step, RunsKept DEF VerifyTpm2, VerifyTpm2To
  <2> QED
    BY <2>1, <2>2 DEF Inv
<1>8. ASSUME NEW c \in Clients, HandleReply(c)
      PROVE  Inv'
  <2>1. WorldInv'
    BY <1>8 DEF HandleReply, Inv, WorldInv
  <2>2. RunsInv'
    BY <1>8, HandleReplyStep, RunsKept DEF HandleReply
  <2> QED
    BY <2>1, <2>2 DEF Inv
<1>9. ASSUME NEW c \in Clients, Register(c)
      PROVE  Inv'
  <2>1. WorldInv'
    BY <1>9, RegisterStep DEF Register, Inv, WorldInv
  <2>2. RunsInv'
    BY <1>9, RegisterStep, RunsKept DEF Register
  <2> QED
    BY <2>1, <2>2 DEF Inv
<1>10. ASSUME NEW c \in Clients, FindStatement(c)
       PROVE  Inv'
  <2>1. WorldInv'
    BY <1>10 DEF FindStatement, Inv, WorldInv
  <2>2. RunsInv'
    BY <1>10, FindStatementStep, RunsKept DEF FindStatement
  <2> QED
    BY <2>1, <2>2 DEF Inv
<1>11. ASSUME NEW c \in Clients, Compare(c)
       PROVE  Inv'
  <2>1. WorldInv'
    BY <1>11 DEF Compare, Inv, WorldInv
  <2>2. RunsInv'
    BY <1>11, CompareStep, RunsKept DEF Compare
  <2> QED
    BY <2>1, <2>2 DEF Inv
<1> QED
  BY <1>1, <1>2, <1>3, <1>4, <1>5, <1>6, <1>7, <1>8, <1>9, <1>10, <1>11 DEF Next

LEMMA InvCorrect == Spec => []Inv
<1> QED
  BY InitInv, InvStep, PTL DEF Spec
-----------------------------------------------------------------------------
(* What the results mean.                                                  *)

LEMMA VersionIs == \A doc : VersionOf(doc) = VersionBy(variant, doc)
BY DEF VersionOf, VersionBy

\* Every variable has the values it may have, and the two modes of main are not mixed.
THEOREM TypeCorrect == Spec => []TypeOK
<1>1. Inv => TypeOK
  <2> SUFFICES ASSUME Inv PROVE TypeOK
    OBVIOUS
  <2>1. ASSUME NEW c \in Clients, run[c] # NotStarted
        PROVE  RunOK(run[c])
    <3>1. RunInv(run[c], c, variant, files, registered)
      BY <2>1 DEF Inv, RunsInv
    <3>2. DOMAIN run[c].table = Buckets
      BY <3>1 DEF RunInv, TableInv, Tables
    <3>3. run[c].stmts = <<>> \/ run[c].stmts = ParsePolicy(VersionOf(files.policy), files.policy)
      BY <3>1, VersionIs DEF RunInv, TableInv, Parsed
    <3>4. /\ run[c].at \in {"config", "policy", "measure", "quote", "register", "judge",
                            "compare", "end"}
          /\ run[c].mode \in {"verify", "register"}
          /\ IF run[c].at = "end" THEN run[c].result \in Results ELSE run[c].result = Null
          /\ run[c].at \in {"judge", "compare"} \/ run[c].result \in {"success", "failed"}
                => run[c].mode = "verify"
          /\ run[c].at = "register" \/ run[c].result = "registered" => run[c].mode = "register"
      BY <3>1 DEF RunInv, ModeInv
    <3>5. /\ run[c].body \in Chains \cup {Unset}
          /\ run[c].reply \in {Null, Unset} \cup [quote : Quotes \cup {Null}, body : Chains]
          /\ run[c].bits \subseteq Bits
      BY <3>1 DEF RunInv, ReplyInv, Answers
    <3>6. run[c].pstmt \in ToSet(run[c].stmts) \cup {Null}
      BY <3>1 DEF RunInv, JudgeInv
    <3> QED
      BY <3>2, <3>3, <3>4, <3>5, <3>6 DEF RunOK
  <2> QED
    BY <2>1 DEF TypeOK, Inv, WorldInv
<1> QED
  BY <1>1, InvCorrect, PTL

LEMMA EndedRun ==
  ASSUME Inv, NEW c \in Clients, NEW result, Ended(c, result)
  PROVE  run[c] # NotStarted /\ RunInv(run[c], c, variant, files, registered)
BY DEF Inv, RunsInv, Ended, NotStarted

\* poc, whatever the early returns of pica_verify_tpm2all leave in the bits: without a
\* good signature and the registered PCR selection no run succeeds, or registers.
THEOREM QuoteCorrect == Spec => []QuoteIsVerified
<1>1. Inv => QuoteIsVerified
  <2> SUFFICES ASSUME Inv, variant = "poc", NEW c \in Clients,
                      Succeeded(c) \/ Ended(c, "registered")
               PROVE  files.key = "ours" /\ files.reg = "same" /\ run[c].reply.quote # Null
    BY DEF QuoteIsVerified
  <2>1. RunInv(run[c], c, variant, files, registered) /\ run[c].result \in {"success", "registered"}
    BY EndedRun DEF Succeeded, Ended
  <2>2. run[c].body # Unset
    BY <2>1 DEF RunInv, JudgeInv
  <2> QED
    BY <2>1, <2>2 DEF RunInv, ReplyInv
<1> QED
  BY <1>1, InvCorrect, PTL

\* sgx: the bit for freshness is never given for a quote of an earlier call, of another
\* client, or of another chain.
THEOREM FreshCorrect == Spec => []FreshIsFresh
<1>1. Inv => FreshIsFresh
  BY DEF Inv, RunsInv, RunInv, ReplyInv, FreshIsFresh
<1> QED
  BY <1>1, InvCorrect, PTL

LEMMA AddrsAreNotNull ==
  ASSUME Inv, NEW c \in Clients, RunInv(run[c], c, variant, files, registered)
  PROVE  Null \notin {e.addr : e \in Entries(registered, run[c].stmts)}
<1>1. Null \notin registered
  BY VerifyAssumption DEF Inv, WorldInv
<1>2. Null \notin ToSet(run[c].stmts)
  BY StatementsAre DEF Inv, WorldInv, RunInv, TableInv
<1> QED
  BY <1>1, <1>2 DEF Entries, Entry

\* What is found under a path is for it, and a process that is found was registered.
LEMMA FoundIs ==
  ASSUME Inv, NEW c \in Clients, RunInv(run[c], c, variant, files, registered),
         NEW path, Hash(path) \in Buckets
  PROVE  /\ LET p == FindHashtable(run[c].table, path, "procinfo")
            IN  p # Null => p \in registered /\ p.path = path
         /\ LET s == FindHashtable(run[c].table, path, "policy")
            IN  s # Null => s \in ToSet(run[c].stmts) /\ s.exec_path = path
<1> DEFINE E == Entries(registered, run[c].stmts)
           t == run[c].table
<1>1. t \in Tables(E) /\ Null \notin {e.addr : e \in E}
  BY AddrsAreNotNull DEF RunInv, TableInv
<1>2. ASSUME NEW which, NEW a, Entry(which, path, a) \in {Entry(e.type, e.path, e.addr) : e \in E}
      PROVE  /\ which = "procinfo" => a \in registered /\ a.path = path
             /\ which = "policy" => a \in ToSet(run[c].stmts) /\ a.exec_path = path
  <2>1. PICK e \in E : Entry(which, path, a) = Entry(e.type, e.path, e.addr)
    BY <1>2
  <2>2. e.type = which /\ e.path = path /\ e.addr = a
    BY <2>1 DEF Entry
  <2>3. CASE \E p \in registered : e = Entry("procinfo", p.path, p)
    BY <2>2, <2>3 DEF Entry
  <2>4. CASE \E s \in ToSet(run[c].stmts) : e = Entry("policy", s.exec_path, s)
    BY <2>2, <2>4 DEF Entry
  <2> QED
    BY <2>3, <2>4 DEF Entries
<1> HIDE DEF E
<1>3. \A which : FindHashtable(t, path, which) # Null =>
         Entry(which, path, FindHashtable(t, path, which)) \in {Entry(e.type, e.path, e.addr) : e \in E}
  BY <1>1, Finds
<1> QED
  BY <1>2, <1>3

\* reg_hashtable and find_hashtable: the table has one entry for a type and a path, also
\* when paths share a bucket, and every statement is found.
THEOREM TableCorrect == Spec => []TableIsMap
<1>1. Inv => TableIsMap
  <2> SUFFICES ASSUME Inv, NEW c \in Clients, run[c].at \notin {"none", "config"}
               PROVE  LET t == run[c].table
                      IN  /\ \A h \in Buckets : \A i, j \in DOMAIN t[h] :
                                IsFor(t[h][i], t[h][j].type, t[h][j].path) => i = j
                          /\ \A i \in DOMAIN run[c].stmts :
                                LET s == run[c].stmts[i]
                                    found == FindHashtable(t, s.exec_path, "policy")
                                IN  found # Null /\ found.exec_path = s.exec_path
    BY DEF TableIsMap
  <2> DEFINE t == run[c].table
             E == Entries(registered, run[c].stmts)
  <2>1. RunInv(run[c], c, variant, files, registered)
    BY DEF Inv, RunsInv, NotStarted
  <2>2. t \in Tables(E) /\ \A i \in DOMAIN run[c].stmts : Has(t, "policy", run[c].stmts[i].exec_path)
    BY <2>1 DEF RunInv, TableInv
  <2>3. \A i \in DOMAIN run[c].stmts : Hash(run[c].stmts[i].exec_path) \in Buckets
    <3>1. CASE run[c].stmts = <<>>
      BY <3>1, EmptySeq
    <3>2. CASE Parsed(variant, files, run[c].stmts)
      BY <3>2, PolicyAssumption DEF Parsed, ParsePolicy, VersionBy, Inv, WorldInv
    <3> QED
      BY <2>1, <3>1, <3>2 DEF RunInv, TableInv
  <2>4. ASSUME NEW i \in DOMAIN run[c].stmts
        PROVE  LET found == FindHashtable(t, run[c].stmts[i].exec_path, "policy")
               IN  found # Null /\ found.exec_path = run[c].stmts[i].exec_path
    <3>1. FindHashtable(t, run[c].stmts[i].exec_path, "policy") # Null
      <4> HIDE DEF E
      <4> QED BY <2>1, <2>2, <2>3, AddrsAreNotNull, Finds DEF E
    <3> QED
      BY <2>1, <2>3, <3>1, FoundIs
  <2>5. \A h \in Buckets : \A i, j \in DOMAIN t[h] :
           IsFor(t[h][i], t[h][j].type, t[h][j].path) => i = j
    BY <2>2 DEF Tables
  <2> QED
    BY <2>4, <2>5
<1> QED
  BY <1>1, InvCorrect, PTL
\* The processes of a run are those of a chain that may be measured.
LEMMA BodyIs ==
  ASSUME Inv, NEW c \in Clients, RunInv(run[c], c, variant, files, registered),
         run[c].body # Unset
  PROVE  /\ Len(run[c].body) \in Nat /\ DOMAIN run[c].body = 1 .. Len(run[c].body)
         /\ \A i \in DOMAIN run[c].body :
               Hash(run[c].body[i].path) \in Buckets /\ run[c].body[i].path # Unset
         /\ Last(run[c].body).path # Unset
<1>1. run[c].body \in Chains
  BY DEF RunInv, ReplyInv
<1>2. IsList(run[c].body) /\ run[c].body # <<>>
      /\ \A i \in DOMAIN run[c].body :
            Hash(run[c].body[i].path) \in Buckets /\ run[c].body[i].path # Unset
  BY <1>1, VerifyAssumption
<1> QED
  BY <1>2, ListIs, LastIsIn

LEMMA SuccessAgrees ==
  ASSUME Inv, NEW c \in Clients, Succeeded(c)
  PROVE  /\ RunInv(run[c], c, variant, files, registered) /\ Agrees(run[c])
         /\ run[c].body # Unset /\ run[c].pstmt \in ToSet(run[c].stmts)
         /\ IsAbout(run[c].pstmt, Last(run[c].body).path)
<1>1. RunInv(run[c], c, variant, files, registered) /\ run[c].result = "success"
  BY EndedRun DEF Succeeded, Ended
<1> QED
  BY <1>1 DEF RunInv, JudgeInv

\* Across the runs: a verification succeeds only if every process of the chain was
\* registered, by a run before, with the executable it has now and no other library
\* under the name of one it has now.
THEOREM RegisteredCorrect == Spec => []SuccessIsRegistered
<1>1. Inv => SuccessIsRegistered
  <2> SUFFICES ASSUME Inv, NEW c \in Clients, Succeeded(c), NEW i \in DOMAIN run[c].body
               PROVE  \E q \in registered : SameBinary(run[c].body[i], q)
    BY DEF SuccessIsRegistered
  <2> DEFINE info == run[c].body[i]
             reg == FindHashtable(run[c].table, info.path, "procinfo")
  <2>1. RunInv(run[c], c, variant, files, registered) /\ VerifyBinaries(run[c].table, run[c].body)
        /\ Hash(info.path) \in Buckets
    BY SuccessAgrees, BodyIs DEF Agrees
  <2>2. reg # Null /\ VerifyDigest(reg, info)
    BY <2>1 DEF VerifyBinaries, VerifyBinary
  <2>3. reg \in registered /\ reg.path = info.path
    BY <2>1, <2>2, FoundIs
  <2> HIDE DEF reg, info
  <2>4. SameBinary(info, reg)
    BY <2>2, <2>3 DEF SameBinary, VerifyDigest, SameDigests
  <2> QED
    BY <2>3, <2>4 DEF info
<1> QED
  BY <1>1, InvCorrect, PTL

\* The statement of a run, in terms of the text.
LEMMA StatementIs ==
  ASSUME Inv, NEW c \in Clients, Succeeded(c)
  PROVE  LET doc == files.policy
         IN  \E i \in DOMAIN doc.stmts :
               /\ doc.stmts[i] \in Attributes(doc, Last(run[c].body).path)
               /\ IsObject(doc.stmts[i])
               /\ run[c].pstmt = ParseStatement(VersionOf(doc), doc.stmts[i])
               /\ doc \in Policies /\ doc.text = "ok" /\ ~PolicyCrashes(VersionOf(doc), doc)
<1> DEFINE doc == files.policy
           v == VersionOf(doc)
           path == Last(run[c].body).path
<1>1. RunInv(run[c], c, variant, files, registered) /\ run[c].body # Unset
      /\ run[c].pstmt \in ToSet(run[c].stmts) /\ run[c].pstmt.exec_path = path
  BY SuccessAgrees DEF IsAbout
<1>2. path # Unset
  BY <1>1, BodyIs
<1>3. Parsed(variant, files, run[c].stmts)
  <2>1. ToSet(<<>>) = {}
    BY EmptySeq DEF ToSet
  <2> QED
    BY <1>1, <2>1 DEF RunInv, TableInv
<1>4. /\ doc \in Policies /\ doc.text = "ok" /\ ~PolicyCrashes(v, doc)
      /\ run[c].stmts = ParsePolicy(v, doc)
  BY <1>3, VersionIs DEF Parsed
<1>5. PICK i \in DOMAIN doc.stmts : run[c].pstmt = ParseStatement(v, doc.stmts[i])
  BY <1>1, <1>4 DEF ToSet, ParsePolicy
<1>6. IsObject(doc.stmts[i])
  BY <1>1, <1>2, <1>5 DEF ParseStatement
<1>7. ParsePrincipal(doc.stmts[i].principal).exec_path = path
  BY <1>1, <1>5, <1>6 DEF ParseStatement
<1>8. doc.stmts[i] \in Attributes(doc, path)
  BY <1>6, <1>7 DEF Attributes
<1> QED
  BY <1>4, <1>5, <1>6, <1>8

\* Every process of a chain that succeeds runs as a user that the statement lists, if
\* the statement has a list.
THEOREM UsersCorrect == Spec => []SuccessHasUsers
<1>1. Inv => SuccessHasUsers
  <2> SUFFICES ASSUME Inv, NEW c \in Clients, Succeeded(c)
               PROVE  \E a \in Attributes(files.policy, Last(run[c].body).path) :
                        IsArray(a.principal.uid) =>
                           \A i \in DOMAIN run[c].body :
                              run[c].body[i].ruid \in ToSet(ParseUid(a.principal.uid))
    BY DEF SuccessHasUsers
  <2> DEFINE doc == files.policy
             uid == run[c].pstmt.uid
  <2>1. PICK k \in DOMAIN doc.stmts :
               /\ doc.stmts[k] \in Attributes(doc, Last(run[c].body).path)
               /\ IsObject(doc.stmts[k])
               /\ run[c].pstmt = ParseStatement(VersionOf(doc), doc.stmts[k])
               /\ doc \in Policies /\ doc.text = "ok" /\ ~PolicyCrashes(VersionOf(doc), doc)
    BY StatementIs
  <2>2. "yes" \in CheckUids(uid, run[c].body)
    BY SuccessAgrees DEF Agrees
  <2> SUFFICES ASSUME IsArray(doc.stmts[k].principal.uid)
               PROVE  \A i \in DOMAIN run[c].body :
                         run[c].body[i].ruid \in ToSet(ParseUid(doc.stmts[k].principal.uid))
    BY <2>1
  <2>3. IsObject(doc.stmts[k].principal)
    <3>1. ParsePrincipal(doc.stmts[k].principal).exec_path # Unset
      BY <2>1, SuccessAgrees, BodyIs DEF Attributes
    <3> QED
      BY <3>1 DEF ParsePrincipal
  <2>4. uid = ParseUid(doc.stmts[k].principal.uid)
    BY <2>1, <2>3 DEF ParseStatement, ParsePrincipal
  <2>5. uid # Unset
    <3>1. VersionOf(doc) \in {PolicyVersion(doc), ppol_ver(doc)}
      BY VersionIs DEF VersionBy
    <3> QED
      BY <2>1, <2>3, <3>1, PolicyAssumption
  <2>6. \A i \in DOMAIN run[c].body : MatchUid(uid, run[c].body[i].ruid)
    BY <2>2, <2>5 DEF CheckUids
  <2> QED
    BY <2>4, <2>6 DEF MatchUid
<1> QED
  BY <1>1, InvCorrect, PTL

\* An alternative that may match agrees with the measured paths as far as both go.
LEMMA ChainAgrees ==
  ASSUME NEW chain, Len(chain) \in Nat, NEW infos, DOMAIN infos \in SUBSET Nat,
         "yes" \in CompareChain(chain, infos)
  PROVE  AgreesWith(chain, infos)
<1> DEFINE differs == {j \in DOMAIN infos : j > Len(chain) \/ chain[j] # infos[j].path}
           first == CHOOSE j \in differs : \A k \in differs : j <= k
<1>1. CASE differs = {}
  BY <1>1 DEF AgreesWith
<1>2. CASE differs # {}
  <2>1. first \in differs /\ \A k \in differs : first <= k
    <3>1. differs \in SUBSET Nat
      OBVIOUS
    <3> HIDE DEF differs
    <3> QED BY <1>2, <3>1, LeastOf
  <2>2. first > Len(chain)
    <3> HIDE DEF first
    <3> QED BY <1>2 DEF CompareChain, first
  <2> HIDE DEF first
  <2> QED
    BY <2>1, <2>2 DEF AgreesWith
<1> QED
  BY <1>1, <1>2

LEMMA TextsLen ==
  ASSUME NEW obj, IsList(obj.items)
  PROVE  Len(Texts(obj)) \in Nat
BY DEF Texts, IsList

\* A verification succeeds only under a statement about the client's binary, and then,
\* if chains were read for that, with one of them as far as both go.
THEOREM ListedCorrect == Spec => []SuccessIsListed
<1>1. Inv => SuccessIsListed
  <2> SUFFICES ASSUME Inv, NEW c \in Clients, Succeeded(c)
               PROVE  \E a \in Attributes(files.policy, Last(run[c].body).path) :
                        LET listed == Listed(VersionOf(files.policy), a.chain)
                        IN  IsArray(a.chain) /\ listed # {} =>
                               \E chain \in listed : AgreesWith(chain, run[c].body)
    BY DEF SuccessIsListed
  <2> DEFINE doc == files.policy
             v == VersionOf(doc)
             body == run[c].body
  <2>1. PICK k \in DOMAIN doc.stmts :
               /\ doc.stmts[k] \in Attributes(doc, Last(run[c].body).path)
               /\ IsObject(doc.stmts[k])
               /\ run[c].pstmt = ParseStatement(v, doc.stmts[k])
               /\ doc \in Policies /\ doc.text = "ok" /\ ~PolicyCrashes(v, doc)
    BY StatementIs
  <2> DEFINE obj == doc.stmts[k].chain
             iarray == run[c].pstmt.iarray
             listed == Listed(v, obj)
  <2> SUFFICES ASSUME IsArray(obj), listed # {}
               PROVE  \E chain \in listed : AgreesWith(chain, body)
    BY <2>1
  <2>2. v \in {"V0", "V1"}
    BY DEF Listed
  <2>3. iarray = ParseInvchain(v, obj)
    BY <2>1 DEF ParseStatement
  <2>4. iarray # Unset
    BY <2>1, <2>2, PolicyAssumption DEF VersionOf
  <2>5. IsList(obj.items) /\ \A j \in DOMAIN obj.items :
                                obj.items[j].type = "array" => IsList(obj.items[j].items)
    BY <2>1, PolicyAssumption
  <2>6. "yes" \in CheckIchain(iarray, body) /\ DOMAIN body \in SUBSET Nat
    BY SuccessAgrees, BodyIs DEF Agrees
  <2>7. CASE v = "V0"
    <3>1. iarray = <<Texts(obj)>> /\ listed = {Texts(obj)}
      BY <2>3, <2>7 DEF ParseInvchain, Listed
    <3>2. iarray # <<>> /\ iarray[1] = Texts(obj)
      BY <3>1
    <3> HIDE DEF iarray, body, listed
    <3>3. "yes" \in CompareChain(iarray[1], body)
      BY <2>4, <2>6, <3>2 DEF CheckIchain
    <3>4. Len(Texts(obj)) \in Nat
      BY <2>5, TextsLen
    <3> QED
      BY <2>6, <3>1, <3>2, <3>3, <3>4, ChainAgrees
  <2>8. CASE v = "V1"
    <3>1. iarray = [i \in DOMAIN obj.items |-> Texts(obj.items[i])]
          /\ listed = {Texts(obj.items[i]) : i \in DOMAIN obj.items}
      BY <2>3, <2>8 DEF ParseInvchain, Listed
    <3>2. DOMAIN obj.items = 1 .. Len(obj.items) /\ Len(obj.items) \in Nat
      BY <2>5, ListIs
    <3>3. 1 \in DOMAIN obj.items
      BY <3>1, <3>2
    <3>4. iarray # <<>> /\ iarray[1] = Texts(obj.items[1])
      <4>1. DOMAIN iarray = DOMAIN obj.items /\ iarray[1] = Texts(obj.items[1])
        <5> HIDE DEF iarray, obj
        <5> QED BY <3>1, <3>3
      <4> HIDE DEF iarray, obj
      <4> QED BY <3>3, <4>1, EmptySeq
    <3>5. obj.items[1].type = "array"
      <4>1. ~ParseAborts(v, obj)
        <5> HIDE DEF v
        <5> QED BY <2>1 DEF PolicyCrashes
      <4> QED
        BY <2>8, <3>3, <4>1 DEF ParseAborts, LengthAborts
    <3>6. Len(Texts(obj.items[1])) \in Nat
      BY <2>5, <3>3, <3>5, TextsLen
    <3> HIDE DEF iarray, body, listed
    <3>7. "yes" \in CompareChain(iarray[1], body)
      BY <2>4, <2>6, <3>4 DEF CheckIchain
    <3> QED
      BY <2>6, <3>1, <3>3, <3>4, <3>6, <3>7, ChainAgrees
  <2> QED
    BY <2>2, <2>7, <2>8
<1> QED
  BY <1>1, InvCorrect, PTL
\* What the run has loaded passes the comparison: it is what is found under its path.
LEMMA LoadedPasses ==
  ASSUME Inv, NEW c \in Clients, RunInv(run[c], c, variant, files, registered),
         NEW info \in Loaded(run[c].table)
  PROVE  VerifyBinary(run[c].table, info)
<1> DEFINE t == run[c].table
           E == Entries(registered, run[c].stmts)
<1>1. t \in Tables(E) /\ Null \notin {e.addr : e \in E}
  BY AddrsAreNotNull DEF RunInv, TableInv
<1>2. PICK h \in Buckets : \E i \in DOMAIN t[h] : t[h][i].type = "procinfo" /\ t[h][i].addr = info
  BY DEF Loaded
<1>3. PICK i \in DOMAIN t[h] : t[h][i].type = "procinfo" /\ t[h][i].addr = info
  BY <1>2
<1>4. t[h][i] \in E /\ Hash(t[h][i].path) = h
  BY <1>1, <1>3 DEF Tables
<1>5. t[h][i].path = info.path /\ info # Null
  <2>1. \A e \in E : e.type = "procinfo" => e.path = e.addr.path
    BY DEF Entries, Entry
  <2> HIDE DEF E, t
  <2> QED BY <2>1, <1>1, <1>3, <1>4
<1> HIDE DEF E
<1>6. FindHashtable(t, info.path, "procinfo") = info
  <2>1. IsFor(t[h][i], "procinfo", info.path) /\ h = Hash(info.path)
    BY <1>3, <1>4, <1>5 DEF IsFor
  <2> QED
    BY <1>1, <1>2, <1>3, <2>1, Finds
<1>7. VerifyDigest(info, info)
  BY DEF VerifyDigest, SameDigests
<1> QED
  BY <1>5, <1>6, <1>7 DEF VerifyBinary

\* An alternative is refused only if it is not the list of the measured paths.
LEMMA ChainRefused ==
  ASSUME NEW infos, IsList(infos), NEW chain, "no" \in CompareChain(chain, infos)
  PROVE  chain # [i \in DOMAIN infos |-> infos[i].path]
<1> SUFFICES ASSUME chain = [i \in DOMAIN infos |-> infos[i].path] PROVE FALSE
  OBVIOUS
<1>1. Len(infos) \in Nat /\ DOMAIN infos = 1 .. Len(infos)
  BY ListIs
<1>2. Len(chain) = Len(infos)
  <2>1. DOMAIN chain = 1 .. Len(infos) /\ chain = [i \in DOMAIN chain |-> chain[i]]
    BY <1>1
  <2>2. \A i \in DOMAIN chain : chain[i] \in {infos[j].path : j \in DOMAIN infos}
    OBVIOUS
  <2> QED
    BY <1>1, <2>1, <2>2, Mapped
<1>3. {j \in DOMAIN infos : j > Len(chain) \/ chain[j] # infos[j].path} = {}
  BY <1>1, <1>2
<1> QED
  BY <1>3 DEF CompareChain

\* A verification that fails has a reason: what was loaded, with the users and the first
\* chain of its statement, is never refused.
THEOREM RefusalCorrect == Spec => []RefusedWithReason
<1>1. Inv => RefusedWithReason
  <2> SUFFICES ASSUME Inv, NEW c \in Clients, Ended(c, "failed")
               PROVE  Reason(c)
    BY DEF RefusedWithReason
  <2> DEFINE r == run[c]
  <2>1. RunInv(run[c], c, variant, files, registered) /\ run[c].result = "failed"
    BY EndedRun DEF Ended
  <2>2. Differs(r) /\ r.body # Unset
    BY <2>1 DEF RunInv, JudgeInv
  <2>3. CASE "QUOTE" \notin r.bits
    BY <2>3 DEF Reason
  <2>4. CASE ~VerifyBinaries(r.table, r.body)
    <3>1. PICK i \in DOMAIN r.body : ~VerifyBinary(r.table, r.body[i])
      BY <2>4 DEF VerifyBinaries
    <3>2. r.body[i] \notin Loaded(r.table)
      BY <2>1, <3>1, LoadedPasses
    <3> QED
      BY <3>1, <3>2 DEF Reason
  <2>5. CASE "no" \in CheckIchain(r.pstmt.iarray, r.body)
    <3>1. CASE r.pstmt.iarray = Unset
      BY <3>1 DEF Reason
    <3>2. CASE r.pstmt.iarray # Unset
      <4>1. r.pstmt.iarray # <<>> /\ "no" \in CompareChain(r.pstmt.iarray[1], r.body)
        BY <2>5, <3>2 DEF CheckIchain
      <4>2. IsList(r.body)
        BY <2>1, <2>2, VerifyAssumption DEF RunInv, ReplyInv
      <4> QED
        BY <4>1, <4>2, ChainRefused DEF Reason
    <3> QED
      BY <3>1, <3>2
  <2>6. CASE "no" \in CheckUids(r.pstmt.uid, r.body)
    BY <2>6 DEF CheckUids, MatchUid, Reason
  <2> QED
    BY <2>2, <2>3, <2>4, <2>5, <2>6 DEF Differs
<1> QED
  BY <1>1, InvCorrect, PTL
=============================================================================
