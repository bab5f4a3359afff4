-------------------------- MODULE ProcChainProofs --------------------------
(***************************************************************************)
(* Theorems about the walk over the ancestors of a process: the types, the *)
(* records it returns, and the order of the list.                          *)
(***************************************************************************)
EXTENDS ProcChain, SequenceTheorems, FiniteSetTheorems, TLAPS

-----------------------------------------------------------------------------
(* Types.                                                                  *)

Fields == {"at", "subject", "line", "pid", "ppid", "exe", "uid", "whole", "chain", "touched"}

TypeInv == TypeOK /\ (walk # Idle => DOMAIN walk = Fields)

LEMMA IdleIsIdle ==
  /\ Idle.at = "idle"
  /\ WalkOK => walk # Idle
BY DEF Idle, WalkOK

\* What the other processes do to the walk is at most a mark.
LEMMA OthersMark ==
  ASSUME Others
  PROVE  walk' = walk \/ \E p \in Pids : walk' = Touch(p)
BY DEF Others, Birth, Exec, Exit

\* What they do to the table is to outdate entries.
LEMMA OthersTable ==
  ASSUME Others
  PROVE  /\ table' = table
         /\ stale' = stale \/ \E p \in Pids : stale' = Outdate(p)
BY DEF Others, Birth, Exec, Exit

\* The table gets digests of executables or empty entries.
LEMMA MeasureType ==
  ASSUME TypeOK, NEW p \in Numbers, NEW left, NEW x, Measure(p, left, x)
  PROVE  /\ table' \in [Numbers -> Exes \cup {Zero, Absent}]
         /\ stale' \subseteq Numbers
         /\ table[p] = Absent => x \in left \/ (Alive(p) /\ x = proc[p].exe)
         /\ table[p] # Absent => x = table[p]
<1>1. /\ table \in [Numbers -> Exes \cup {Zero, Absent}] /\ stale \subseteq Numbers
      /\ Alive(p) => proc[p].exe \in Exes
  BY DEF TypeOK, Alive, Processes
<1> QED
  BY <1>1 DEF Measure

LEMMA MarkKeeps ==
  ASSUME walk # Idle, DOMAIN walk = Fields, NEW p \in Pids, walk' = Touch(p)
  PROVE  /\ DOMAIN walk' = Fields /\ walk'.touched = walk.touched \cup {p}
         /\ walk'.at = walk.at /\ walk'.subject = walk.subject /\ walk'.line = walk.line
         /\ walk'.pid = walk.pid /\ walk'.ppid = walk.ppid /\ walk'.exe = walk.exe
         /\ walk'.uid = walk.uid /\ walk'.whole = walk.whole /\ walk'.chain = walk.chain
BY DEF Touch, Fields

LEMMA ChildType ==
  ASSUME proc \in [Pids -> Processes \cup {None}], NEW x \in Exes, NEW u \in Uids,
         NEW p \in Pids \cup Roots, p \in Roots \/ Alive(p)
  PROVE  Child(p, x, u) \in Processes
<1>1. CASE p \in Roots
  BY <1>1, EmptySeq DEF Child, Processes
<1>2. CASE p \notin Roots
  <2>1. p \in Pids /\ proc[p] \in Processes
    BY <1>2 DEF Alive
  <2>2. <<p>> \in Seq(Pids) /\ proc[p].line \in Seq(Pids)
    BY <2>1 DEF Processes
  <2>3. <<p>> \o proc[p].line \in Seq(Pids)
    BY <2>2, ConcatProperties
  <2> QED
    BY <1>2, <2>3 DEF Child, Processes
<1> QED
  BY <1>1, <1>2

LEMMA OthersProc ==
  ASSUME TypeOK, Others
  PROVE  /\ proc' \in [Pids -> Processes \cup {None}]
         /\ births' \in 0 .. MaxBirths /\ execs' \in 0 .. MaxExecs
         /\ used' \subseteq Pids
         /\ table' \in [Numbers -> Exes \cup {Zero, Absent}]
         /\ stale' \subseteq Numbers
<1> USE DEF TypeOK
<1>0. /\ table' \in [Numbers -> Exes \cup {Zero, Absent}]
      /\ stale' \subseteq Numbers
  BY OthersTable DEF Outdate, Numbers
<1>1. ASSUME NEW p \in Pids \cup Roots, NEW c \in Pids, NEW x \in Exes, NEW u \in Uids,
             p \in Roots \/ Alive(p), Birth(p, c, x, u)
      PROVE  /\ proc' \in [Pids -> Processes \cup {None}]
             /\ births' \in 0 .. MaxBirths /\ execs' \in 0 .. MaxExecs
             /\ used' \subseteq Pids
  <2>1. Child(p, x, u) \in Processes
    BY <1>1, ChildType
  <2> QED
    BY <1>1, <2>1, ChainAssumption DEF Birth
<1>2. ASSUME NEW p \in Pids, NEW x \in Exes, NEW u \in Uids, Exec(p, x, u)
      PROVE  /\ proc' \in [Pids -> Processes \cup {None}]
             /\ births' \in 0 .. MaxBirths /\ execs' \in 0 .. MaxExecs
             /\ used' \subseteq Pids
  <2>1. proc[p] \in Processes
    BY <1>2 DEF Exec, Alive
  <2>2. [proc[p] EXCEPT !.exe = x, !.uid = u] \in Processes
    BY <2>1 DEF Processes
  <2>3. proc' = [proc EXCEPT ![p] = [proc[p] EXCEPT !.exe = x, !.uid = u]]
    BY <1>2 DEF Exec
  <2> QED
    BY <1>2, <2>2, <2>3, ChainAssumption DEF Exec
<1>3. ASSUME NEW p \in Pids, Exit(p)
      PROVE  proc' \in [Pids -> Processes \cup {None}] /\ UNCHANGED <<births, execs, used>>
  <2>1. \A q \in Pids : Alive(q) => [proc[q] EXCEPT !.parent = InitPid] \in Processes
    BY DEF Alive, Processes, Roots
  <2> QED
    BY <1>3, <2>1 DEF Exit, Alive
<1> QED
  BY <1>0, <1>1, <1>2, <1>3 DEF Others

LEMMA TypeInit == Init => TypeInv
BY ChainAssumption DEF Init, TypeInv, TypeOK

\* A mark changes nothing that WalkOK says.
LEMMA MarkType ==
  ASSUME TypeInv, walk # Idle, NEW p \in Pids, walk' = Touch(p)
  PROVE  WalkOK' /\ DOMAIN walk' = Fields
<1>1. DOMAIN walk = Fields /\ WalkOK
  BY DEF TypeInv, TypeOK
<1>2. /\ DOMAIN walk' = Fields /\ walk'.touched = walk.touched \cup {p}
      /\ walk'.at = walk.at /\ walk'.subject = walk.subject /\ walk'.line = walk.line
      /\ walk'.pid = walk.pid /\ walk'.ppid = walk.ppid /\ walk'.exe = walk.exe
      /\ walk'.uid = walk.uid /\ walk'.whole = walk.whole /\ walk'.chain = walk.chain
  BY <1>1, MarkKeeps
<1> QED
  BY <1>1, <1>2 DEF WalkOK

LEMMA OthersType ==
  ASSUME TypeInv, Others
  PROVE  TypeInv'
<1>1. /\ proc' \in [Pids -> Processes \cup {None}]
      /\ births' \in 0 .. MaxBirths /\ execs' \in 0 .. MaxExecs
      /\ used' \subseteq Pids
      /\ table' \in [Numbers -> Exes \cup {Zero, Absent}]
      /\ stale' \subseteq Numbers
  BY OthersProc DEF TypeInv
<1>2. CASE walk' = walk
  BY <1>1, <1>2 DEF TypeInv, TypeOK, WalkOK
<1>3. ASSUME NEW p \in Pids, walk' = Touch(p), walk # Idle
      PROVE  TypeInv'
  BY <1>1, <1>3, MarkType DEF TypeInv, TypeOK
<1>4. ASSUME NEW p \in Pids, walk' = Touch(p), walk = Idle
      PROVE  walk' = walk
  BY <1>4 DEF Touch
<1> QED
  BY <1>2, <1>3, <1>4, OthersMark

\* The step of Push, field by field.
LEMMA PushFields ==
  ASSUME DOMAIN walk = Fields, Push
  PROVE  /\ walk.at = "push" /\ UNCHANGED <<world, table, stale>> /\ DOMAIN walk' = Fields
         /\ walk'.chain = <<Record>> \o walk.chain /\ walk'.pid = walk.ppid
         /\ walk'.exe = Garbage /\ walk'.uid = Garbage /\ walk'.ppid = walk.ppid
         /\ walk'.whole = walk.whole /\ walk'.touched = walk.touched
         /\ walk'.subject = walk.subject /\ walk'.line = walk.line
         /\ walk'.at = IF walk.ppid = InitPid THEN "done"
                       ELSE IF Len(<<Record>> \o walk.chain) = MaxChain THEN "nomem" ELSE "exe"
BY DEF Push, PushTo, Fields

\* What one record in front does to the list.
LEMMA FrontChain ==
  ASSUME NEW S, NEW r \in S, NEW c \in Seq(S)
  PROVE  /\ <<r>> \o c \in Seq(S)
         /\ Len(<<r>> \o c) = Len(c) + 1
         /\ \A i \in DOMAIN (<<r>> \o c) :
               (<<r>> \o c)[i] = r \/ \E j \in DOMAIN c : (<<r>> \o c)[i] = c[j]
<1>1. <<r>> \in Seq(S) /\ Len(<<r>>) = 1 /\ <<r>>[1] = r
  OBVIOUS
<1>2. /\ <<r>> \o c \in Seq(S) /\ Len(<<r>> \o c) = 1 + Len(c)
      /\ \A i \in 1 .. 1 + Len(c) :
            (<<r>> \o c)[i] = IF i <= 1 THEN <<r>>[i] ELSE c[i - 1]
  BY <1>1, ConcatProperties
<1>3. Len(c) \in Nat /\ DOMAIN c = 1 .. Len(c) /\ DOMAIN (<<r>> \o c) = 1 .. 1 + Len(c)
  BY <1>2, LenProperties
<1>4. ASSUME NEW i \in 1 .. 1 + Len(c)
      PROVE  (<<r>> \o c)[i] = r \/ \E j \in 1 .. Len(c) : (<<r>> \o c)[i] = c[j]
  <2>1. CASE i = 1
    BY <2>1, <1>1, <1>2
  <2>2. CASE i # 1
    <3>1. i - 1 \in 1 .. Len(c) /\ ~(i <= 1)
      BY <2>2, <1>3
    <3> QED
      BY <3>1, <1>2
  <2> QED
    BY <2>1, <2>2
<1> QED
  BY <1>2, <1>3, <1>4

LEMMA PushType ==
  ASSUME TypeInv, WalkOK, DOMAIN walk = Fields, Push
  PROVE  WalkOK' /\ DOMAIN walk' = Fields
<1>1. /\ walk.at = "push" /\ DOMAIN walk' = Fields
      /\ walk'.chain = <<Record>> \o walk.chain /\ walk'.pid = walk.ppid
      /\ walk'.exe = Garbage /\ walk'.uid = Garbage /\ walk'.ppid = walk.ppid
      /\ walk'.whole = walk.whole /\ walk'.touched = walk.touched
      /\ walk'.subject = walk.subject /\ walk'.line = walk.line
      /\ walk'.at = IF walk.ppid = InitPid THEN "done"
                    ELSE IF Len(<<Record>> \o walk.chain) = MaxChain THEN "nomem" ELSE "exe"
  BY PushFields
<1>2. walk.ppid \in Numbers /\ Len(walk.chain) \in Nat /\ Len(walk.chain) < MaxChain
  BY <1>1 DEF WalkOK
<1>3. Record \in Records
  BY <1>2 DEF WalkOK, Record, Records
<1>4. <<Record>> \o walk.chain \in Seq(Records)
      /\ Len(<<Record>> \o walk.chain) = Len(walk.chain) + 1
  BY <1>3, FrontChain DEF WalkOK
<1>5. walk'.chain \in Seq(Records) /\ Len(walk'.chain) = Len(walk.chain) + 1
  BY <1>1, <1>4
<1>6. Len(walk'.chain) \in 0 .. MaxChain
      /\ (walk'.at \notin {"done", "nomem"} => Len(walk'.chain) < MaxChain)
  BY <1>1, <1>2, <1>5, ChainAssumption
<1>7. /\ walk'.at \in {"exe", "done", "nomem"}
      /\ walk'.pid \in Numbers /\ walk'.ppid \in Numbers
  BY <1>1, <1>2
<1> QED
  BY <1>1, <1>5, <1>6, <1>7 DEF WalkOK, Digests

\* The other steps of the walk leave what they do not name.
Kept ==
  /\ walk'.subject = walk.subject /\ walk'.line = walk.line /\ walk'.pid = walk.pid
  /\ walk'.chain = walk.chain /\ walk'.touched = walk.touched

LEMMA ReadExeFields ==
  ASSUME DOMAIN walk = Fields, ReadExe
  PROVE  /\ walk.at = "exe" /\ walk'.at = "status" /\ DOMAIN walk' = Fields
         /\ Kept /\ UNCHANGED world
         /\ walk'.ppid = walk.ppid /\ walk'.uid = walk.uid /\ walk'.whole = walk.whole
         /\ walk'.exe \in Digests
         /\ Measure(walk.pid, Left(walk.chain, "exe"), walk'.exe)
<1>1. PICK x \in Digests :
         /\ Measure(walk.pid, Left(walk.chain, "exe"), x)
         /\ walk' = [walk EXCEPT !.at = "status", !.exe = x]
  BY DEF ReadExe
<1>2. walk.at = "exe" /\ UNCHANGED world
  BY DEF ReadExe
<1>3. /\ walk'.at = "status" /\ DOMAIN walk' = Fields /\ Kept /\ walk'.exe = x
      /\ walk'.ppid = walk.ppid /\ walk'.uid = walk.uid /\ walk'.whole = walk.whole
  BY <1>1 DEF Fields, Kept
<1> QED
  BY <1>1, <1>2, <1>3

LEMMA OpenStatusFields ==
  ASSUME DOMAIN walk = Fields, OpenStatus
  PROVE  /\ walk.at = "status" /\ DOMAIN walk' = Fields /\ Kept
         /\ UNCHANGED <<world, table, stale>>
         /\ walk'.exe = walk.exe /\ walk'.whole = walk.whole
         /\ IF Alive(walk.pid)
            THEN walk'.at = "fields" /\ walk'.uid = walk.uid /\ walk'.ppid = walk.ppid
            ELSE /\ walk'.at = "maps" /\ walk'.uid \in Left(walk.chain, "uid")
                 /\ walk'.ppid \in IF walk.chain = <<>> THEN Numbers ELSE {walk.ppid}
<1>1. CASE Alive(walk.pid)
  BY <1>1 DEF OpenStatus, Fields, Kept
<1>2. CASE ~Alive(walk.pid)
  <2>1. PICK u \in Left(walk.chain, "uid"),
             g \in IF walk.chain = <<>> THEN Numbers ELSE {walk.ppid} :
                walk' = [walk EXCEPT !.at = "maps", !.uid = u, !.ppid = g]
    BY <1>2 DEF OpenStatus
  <2>2. walk.at = "status" /\ UNCHANGED <<world, table, stale>>
    BY DEF OpenStatus
  <2> QED
    BY <1>2, <2>1, <2>2 DEF Fields, Kept
<1> QED
  BY <1>1, <1>2

LEMMA ReadFieldsFields ==
  ASSUME DOMAIN walk = Fields, ReadFields
  PROVE  /\ walk.at = "fields" /\ walk'.at = "maps" /\ DOMAIN walk' = Fields
         /\ Kept /\ UNCHANGED <<world, table, stale>>
         /\ walk'.exe = walk.exe /\ walk'.whole = walk.whole
         /\ IF proc[walk.pid] # None
            THEN walk'.ppid = proc[walk.pid].parent /\ walk'.uid = proc[walk.pid].uid
            ELSE walk'.ppid = Minus1 /\ walk'.uid = Minus1
BY DEF ReadFields, Fields, Kept

LEMMA ReadMapsFields ==
  ASSUME DOMAIN walk = Fields, ReadMaps
  PROVE  /\ walk.at = "maps" /\ walk'.at = "push" /\ DOMAIN walk' = Fields
         /\ Kept /\ UNCHANGED <<world, table, stale>>
         /\ walk'.exe = walk.exe /\ walk'.uid = walk.uid /\ walk'.ppid = walk.ppid
         /\ walk'.whole = Alive(walk.pid)
BY DEF ReadMaps, Fields, Kept

LEMMA LeftType ==
  ASSUME NEW c \in Seq(Records)
  PROVE  /\ Left(c, "uid") \subseteq Uids \cup {Garbage, Minus1}
<1>1. CASE c = <<>>
  BY <1>1 DEF Left
<1>2. CASE c # <<>>
  <2>1. c[1] \in Records
    BY <1>2
  <2> QED
    BY <1>2, <2>1 DEF Left, Records
<1> QED
  BY <1>1, <1>2

LEMMA BeginType ==
  ASSUME TypeInv, NEW p \in Pids, Begin(p)
  PROVE  WalkOK' /\ DOMAIN walk' = Fields
<1>1. walk' = [at |-> "exe", subject |-> p, line |-> proc[p].line,
               pid |-> p, ppid |-> Garbage, exe |-> Garbage, uid |-> Garbage,
               whole |-> TRUE, chain |-> <<>>, touched |-> {}]
  BY DEF Begin
<1>2. proc[p].line \in Seq(Pids)
  BY DEF Begin, Alive, TypeInv, TypeOK, Processes
<1>3. walk'.chain \in Seq(Records) /\ Len(walk'.chain) = 0
  BY <1>1, EmptySeq
<1> QED
  BY <1>1, <1>2, <1>3, ChainAssumption DEF WalkOK, Fields, Numbers, Digests

LEMMA WalkType ==
  ASSUME TypeInv, walk # Idle, Walk
  PROVE  walk' = Idle \/ (WalkOK' /\ DOMAIN walk' = Fields)
<1>0. WalkOK /\ DOMAIN walk = Fields
  BY DEF TypeInv, TypeOK
<1>1. CASE ReadExe
  BY <1>0, <1>1, ReadExeFields DEF WalkOK, Kept
<1>2. CASE OpenStatus
  <2>1. CASE Alive(walk.pid)
    BY <1>0, <1>2, <2>1, OpenStatusFields DEF WalkOK, Kept, Alive
  <2>2. CASE ~Alive(walk.pid)
    <3>1. walk'.uid \in Uids \cup {Garbage, Minus1}
      BY <1>0, <1>2, <2>2, OpenStatusFields, LeftType DEF WalkOK
    <3>2. walk'.ppid \in Numbers
      BY <1>0, <1>2, <2>2, OpenStatusFields DEF WalkOK
    <3> QED
      BY <1>0, <1>2, <2>2, <3>1, <3>2, OpenStatusFields DEF WalkOK, Kept
  <2> QED
    BY <2>1, <2>2
<1>3. CASE ReadFields
  <2>1. walk.pid \in Pids
    BY <1>0, <1>3 DEF WalkOK, ReadFields
  <2>2. walk'.ppid \in Numbers /\ walk'.uid \in Uids \cup {Garbage, Minus1}
    BY <1>0, <1>3, <2>1, ReadFieldsFields DEF TypeInv, TypeOK, Processes, Numbers, Roots
  <2> QED
    BY <1>0, <1>3, <2>2, ReadFieldsFields DEF WalkOK, Kept
<1>4. CASE ReadMaps
  <2>1. walk'.whole \in BOOLEAN
    BY <1>0, <1>4, ReadMapsFields DEF Alive
  <2>2. walk'.ppid \in Numbers
    BY <1>0, <1>4, ReadMapsFields DEF WalkOK
  <2> QED
    BY <1>0, <1>4, <2>1, <2>2, ReadMapsFields DEF WalkOK, Kept
<1>5. CASE Push
  BY <1>0, <1>5, PushType
<1>6. CASE Return
  BY <1>6 DEF Return
<1> QED
  BY <1>1, <1>2, <1>3, <1>4, <1>5, <1>6 DEF Walk

LEMMA WalkTable ==
  ASSUME TypeInv, walk # Idle, Walk
  PROVE  /\ table' \in [Numbers -> Exes \cup {Zero, Absent}]
         /\ stale' \subseteq Numbers
<1>1. WalkOK /\ DOMAIN walk = Fields /\ TypeOK
  BY DEF TypeInv, TypeOK
<1>2. CASE ReadExe
  BY <1>1, <1>2, ReadExeFields, MeasureType DEF WalkOK
<1>3. CASE ~ReadExe
  <2>1. UNCHANGED <<table, stale>>
    BY <1>3 DEF Walk, OpenStatus, ReadFields, ReadMaps, Push, PushTo, Return
  <2> QED
    BY <1>1, <2>1 DEF TypeOK
<1> QED
  BY <1>2, <1>3

LEMMA TypeStep == TypeInv /\ [Next]_vars => TypeInv'
<1> SUFFICES ASSUME TypeInv, [Next]_vars PROVE TypeInv'
  OBVIOUS
<1>1. CASE Others
  BY <1>1, OthersType
<1>2. ASSUME NEW p \in Pids, Begin(p) PROVE TypeInv'
  <2>1. UNCHANGED <<world, table, stale>>
    BY <1>2 DEF Begin
  <2> QED
    BY <1>2, <2>1, BeginType DEF TypeInv, TypeOK, world
<1>3. CASE walk # Idle /\ Walk
  <2>1. UNCHANGED world
    BY <1>3 DEF Walk, ReadExe, OpenStatus, ReadFields, ReadMaps, Push, PushTo, Return
  <2>2. walk' = Idle \/ (WalkOK' /\ DOMAIN walk' = Fields)
    BY <1>3, WalkType
  <2>3. /\ table' \in [Numbers -> Exes \cup {Zero, Absent}]
        /\ stale' \subseteq Numbers
    BY <1>3, WalkTable
  <2> QED
    BY <2>1, <2>2, <2>3 DEF TypeInv, TypeOK, world
<1>4. CASE UNCHANGED vars
  BY <1>4 DEF vars, world, TypeInv, TypeOK, WalkOK
<1>5. ASSUME NEW p \in Pids, Accept(p) PROVE TypeInv'
  <2>1. PICK x \in Digests : Measure(p, {Garbage}, x)
    BY <1>5 DEF Accept
  <2>2. /\ table' \in [Numbers -> Exes \cup {Zero, Absent}]
        /\ stale' \subseteq Numbers
    BY <2>1, MeasureType DEF TypeInv, Numbers
  <2>3. UNCHANGED <<world, walk>> /\ walk = Idle
    BY <1>5 DEF Accept
  <2> QED
    BY <2>2, <2>3 DEF TypeInv, TypeOK, world
<1> QED
  BY <1>1, <1>2, <1>3, <1>4, <1>5 DEF Next

LEMMA TypeAlways == Spec => []TypeInv
BY TypeInit, TypeStep, PTL DEF Spec

\* Every variable has its type in every reachable state, and the list has at most
\* MaxChain records: the checks of memory stand where they must.
THEOREM TypeCorrect == Spec => []TypeOK
<1>1. TypeInv => TypeOK
  BY DEF TypeInv
<1> QED
  BY <1>1, TypeAlways, PTL

-----------------------------------------------------------------------------
(* The records.                                                            *)

\* What has been read of p by the walk that is at it, and what is in its records.
TrueOf(p) ==
  /\ walk.pid = p =>
       /\ walk.at \in {"status", "fields", "maps", "push"} =>
            walk.exe = proc[p].exe \/ p \in stale
       /\ walk.at \in {"maps", "push"} => walk.uid = proc[p].uid
       /\ walk.at = "push" => walk.whole
  /\ \A i \in DOMAIN walk.chain : walk.chain[i].pid = p =>
       /\ walk.chain[i].exe = proc[p].exe \/ p \in stale
       /\ walk.chain[i].uid = proc[p].uid
       /\ walk.chain[i].whole

Unmarked(p) == Alive(p) /\ p \notin walk.touched

RecordsInv == walk # Idle => \A p \in Pids : Unmarked(p) => TrueOf(p)

\* An entry that is not outdated is of the program that the process runs.
TableInv ==
  \A p \in Pids : Alive(p) /\ table[p] # Absent =>
     table[p] = proc[p].exe \/ p \in stale

\* A process without a mark after a step of the others is the one it was.
LEMMA OthersSame ==
  ASSUME TypeInv, walk # Idle, Others, NEW p, Unmarked(p)'
  PROVE  Unmarked(p)
         /\ proc'[p].exe = proc[p].exe /\ proc'[p].uid = proc[p].uid
<1>0. /\ DOMAIN walk = Fields /\ p \in Pids
      /\ proc \in [Pids -> Processes \cup {None}]
  BY DEF TypeInv, TypeOK, Unmarked, Alive
<1>1. ASSUME NEW q \in Pids \cup Roots, NEW c \in Pids, NEW x \in Exes, NEW u \in Uids,
             Birth(q, c, x, u)
      PROVE  Unmarked(p) /\ proc'[p] = proc[p]
  <2>1. walk'.touched = walk.touched \cup {c}
    BY <1>0, <1>1, MarkKeeps DEF Birth
  <2>2. p # c /\ p \notin walk.touched
    BY <2>1 DEF Unmarked
  <2> QED
    BY <1>0, <1>1, <2>1, <2>2 DEF Birth, Unmarked, Alive
<1>2. ASSUME NEW q \in Pids, NEW x \in Exes, NEW u \in Uids, Exec(q, x, u)
      PROVE  Unmarked(p) /\ proc'[p] = proc[p]
  <2>1. walk'.touched = walk.touched \cup {q}
    BY <1>0, <1>2, MarkKeeps DEF Exec
  <2>2. p # q /\ p \notin walk.touched
    BY <2>1 DEF Unmarked
  <2>3. proc' = [proc EXCEPT ![q] = [proc[q] EXCEPT !.exe = x, !.uid = u]]
    BY <1>2 DEF Exec
  <2> QED
    BY <1>0, <2>1, <2>2, <2>3 DEF Unmarked, Alive
<1>3. ASSUME NEW q \in Pids, Exit(q)
      PROVE  Unmarked(p)
             /\ proc'[p].exe = proc[p].exe /\ proc'[p].uid = proc[p].uid
  <2>1. walk' = walk
    BY <1>3 DEF Exit
  <2>2. proc'[p] = IF p = q THEN None
                   ELSE IF Alive(p) /\ proc[p].parent = q
                   THEN [proc[p] EXCEPT !.parent = InitPid] ELSE proc[p]
    BY <1>0, <1>3 DEF Exit
  <2>3. proc'[p] # None /\ p \notin walk'.touched
    BY DEF Unmarked, Alive
  <2>4. Alive(p)
    BY <1>0, <2>2, <2>3 DEF Alive
  <2>5. proc[p] \in Processes
    BY <1>0, <2>4 DEF Alive
  <2>6. /\ [proc[p] EXCEPT !.parent = InitPid].exe = proc[p].exe
        /\ [proc[p] EXCEPT !.parent = InitPid].uid = proc[p].uid
    BY <2>5 DEF Processes
  <2> QED
    BY <2>1, <2>2, <2>3, <2>4, <2>6 DEF Unmarked
<1> QED
  BY <1>1, <1>2, <1>3 DEF Others

LEMMA StaleGrows ==
  ASSUME TypeInv, [Next]_vars
  PROVE  stale \subseteq stale'
<1>1. \A p, left, x : Measure(p, left, x) => stale \subseteq stale'
  BY DEF Measure
<1>2. CASE Others
  BY <1>2, OthersTable DEF Outdate
<1>3. CASE ~Others
  BY <1>1, <1>3
  DEF Next, Accept, Begin, Walk, ReadExe, OpenStatus, ReadFields, ReadMaps, Push, PushTo,
      Return, vars
<1> QED
  BY <1>2, <1>3

\* A process whose entry is not outdated by a step of the others runs what it ran.
LEMMA OthersEntry ==
  ASSUME TypeInv, Others, NEW p \in Pids, Alive(p)', table[p] # Absent, p \notin stale'
  PROVE  Alive(p) /\ proc'[p].exe = proc[p].exe /\ table'[p] = table[p]
<1>0. proc \in [Pids -> Processes \cup {None}] /\ proc'[p] # None
  BY DEF TypeInv, TypeOK, Alive
<1>1. ASSUME NEW q \in Pids \cup Roots, NEW c \in Pids, NEW x \in Exes, NEW u \in Uids,
             Birth(q, c, x, u)
      PROVE  proc'[p] = proc[p] /\ table' = table
  <2>1. p # c
    BY <1>1 DEF Birth, Outdate
  <2> QED
    BY <1>0, <1>1, <2>1 DEF Birth
<1>2. ASSUME NEW q \in Pids, NEW x \in Exes, NEW u \in Uids, Exec(q, x, u)
      PROVE  proc'[p] = proc[p] /\ table' = table
  <2>1. p # q
    BY <1>2 DEF Exec, Outdate
  <2>2. proc' = [proc EXCEPT ![q] = [proc[q] EXCEPT !.exe = x, !.uid = u]]
    BY <1>2 DEF Exec
  <2> QED
    BY <1>0, <1>2, <2>1, <2>2 DEF Exec
<1>3. ASSUME NEW q \in Pids, Exit(q)
      PROVE  Alive(p) /\ proc'[p].exe = proc[p].exe /\ table' = table
  <2>1. proc'[p] = IF p = q THEN None
                   ELSE IF Alive(p) /\ proc[p].parent = q
                   THEN [proc[p] EXCEPT !.parent = InitPid] ELSE proc[p]
    BY <1>0, <1>3 DEF Exit
  <2>2. Alive(p) /\ proc[p] \in Processes
    BY <1>0, <2>1 DEF Alive
  <2>3. [proc[p] EXCEPT !.parent = InitPid].exe = proc[p].exe
    BY <2>2 DEF Processes
  <2> QED
    BY <1>0, <1>3, <2>1, <2>2, <2>3 DEF Exit
<1> QED
  BY <1>0, <1>1, <1>2, <1>3 DEF Others, Alive

\* What sha256_pid gives for a process that is there is its program, or its entry
\* is outdated; and so it is for what it leaves in the table.
LEMMA MeasureTrue ==
  ASSUME TypeInv, TableInv, NEW q \in Numbers, NEW left, NEW x, Measure(q, left, x),
         proc' = proc
  PROVE  /\ TableInv'
         /\ Alive(q) => x = proc[q].exe \/ q \in stale'
<1>1. table \in [Numbers -> Exes \cup {Zero, Absent}] /\ Pids \subseteq Numbers
  BY DEF TypeInv, TypeOK, Numbers
<1>2. Alive(q) => x = proc[q].exe \/ q \in stale'
  BY DEF Measure, TableInv, Alive
<1>3. \A p \in Numbers : p # q => table'[p] = table[p]
  BY <1>1 DEF Measure
<1>4. stale \subseteq stale'
  BY DEF Measure
<1>5. Alive(q) => table'[q] = proc[q].exe \/ q \in stale'
  BY <1>1 DEF Measure, TableInv, Alive
<1> QED
  BY <1>1, <1>2, <1>3, <1>4, <1>5 DEF TableInv, Alive

LEMMA TableStep == TypeInv /\ TableInv /\ [Next]_vars => TableInv'
<1> SUFFICES ASSUME TypeInv, TableInv, [Next]_vars PROVE TableInv'
  OBVIOUS
<1>1. CASE Others
  <2> SUFFICES ASSUME NEW p \in Pids, Alive(p)', table'[p] # Absent, p \notin stale'
               PROVE  table'[p] = proc'[p].exe
    BY DEF TableInv
  <2>1. table' = table /\ p \notin stale
    BY <1>1, OthersTable, StaleGrows
  <2> QED
    BY <1>1, <2>1, OthersEntry DEF TableInv
<1>2. ASSUME NEW p \in Pids, Accept(p) PROVE TableInv'
  <2>1. p \in Numbers /\ proc' = proc
    BY <1>2 DEF Accept, world, Numbers
  <2> QED
    BY <1>2, <2>1, MeasureTrue DEF Accept
<1>3. CASE walk # Idle /\ ReadExe
  <2>1. walk.pid \in Numbers /\ proc' = proc
    BY <1>3 DEF ReadExe, world, TypeInv, TypeOK, WalkOK
  <2>2. PICK x \in Digests : Measure(walk.pid, Left(walk.chain, "exe"), x)
    BY <1>3 DEF ReadExe
  <2> QED
    BY <2>1, <2>2, MeasureTrue
<1>4. CASE UNCHANGED <<world, table, stale>>
  BY <1>4 DEF world, TableInv, Alive
<1>5. \/ Others \/ \E p \in Pids : Accept(p)
      \/ walk # Idle /\ ReadExe
      \/ UNCHANGED <<world, table, stale>>
  BY DEF Next, Begin, Walk, OpenStatus, ReadFields, ReadMaps, Push, PushTo, Return, vars
<1> QED
  BY <1>1, <1>2, <1>3, <1>4, <1>5

LEMMA RecordsOthers ==
  ASSUME TypeInv, RecordsInv, Others
  PROVE  RecordsInv'
<1> SUFFICES ASSUME walk' # Idle, NEW p \in Pids, Unmarked(p)' PROVE TrueOf(p)'
  BY DEF RecordsInv
<1>1. walk # Idle
  BY OthersMark DEF Touch
<1>2. DOMAIN walk = Fields
  BY <1>1 DEF TypeInv
<1>3. /\ walk'.at = walk.at /\ walk'.pid = walk.pid /\ walk'.exe = walk.exe
      /\ walk'.uid = walk.uid /\ walk'.whole = walk.whole /\ walk'.chain = walk.chain
  BY <1>1, <1>2, OthersMark, MarkKeeps
<1>4. Unmarked(p) /\ proc'[p].exe = proc[p].exe /\ proc'[p].uid = proc[p].uid
  BY <1>1, OthersSame
<1>5. TrueOf(p) /\ stale \subseteq stale'
  BY <1>1, <1>4, StaleGrows DEF RecordsInv, Next
<1> QED
  BY <1>3, <1>4, <1>5 DEF TrueOf

LEMMA RecordsBegin ==
  ASSUME TypeInv, NEW q \in Pids, Begin(q)
  PROVE  RecordsInv'
<1>1. walk'.at = "exe" /\ walk'.chain = <<>>
  BY DEF Begin
<1> QED
  BY <1>1 DEF RecordsInv, TrueOf

\* Reading leaves the records, and what it reads of a process that is there is true.
LEMMA RecordsRead ==
  ASSUME TypeInv, TableInv, RecordsInv, walk # Idle,
         ReadExe \/ OpenStatus \/ ReadFields \/ ReadMaps
  PROVE  RecordsInv'
<1>0. DOMAIN walk = Fields /\ walk.pid \in Numbers /\ stale \subseteq stale'
  BY StaleGrows DEF TypeInv, TypeOK, WalkOK, Next, Walk
<1>1. Kept /\ proc' = proc
  BY <1>0, ReadExeFields, OpenStatusFields, ReadFieldsFields, ReadMapsFields DEF world
<1> SUFFICES ASSUME NEW p \in Pids, Unmarked(p)' PROVE TrueOf(p)'
  BY DEF RecordsInv
<1>2. Unmarked(p) /\ TrueOf(p)
  BY <1>1 DEF Unmarked, Alive, Kept, RecordsInv
<1>3. ASSUME walk.pid = p
      PROVE  /\ walk'.at \in {"status", "fields", "maps", "push"} =>
                  walk'.exe = proc[p].exe \/ p \in stale'
             /\ walk'.at \in {"maps", "push"} => walk'.uid = proc[p].uid
             /\ walk'.at = "push" => walk'.whole
  <2>1. Alive(walk.pid) /\ proc[walk.pid] # None
    BY <1>2, <1>3 DEF Unmarked, Alive
  <2>2. CASE ReadExe
    <3>1. walk'.exe = proc[p].exe \/ p \in stale'
      BY <1>0, <1>1, <1>3, <2>1, <2>2, ReadExeFields, MeasureTrue
    <3> QED
      BY <1>0, <2>2, <3>1, ReadExeFields
  <2>3. CASE OpenStatus
    BY <1>0, <1>2, <1>3, <2>1, <2>3, OpenStatusFields DEF TrueOf
  <2>4. CASE ReadFields
    BY <1>0, <1>2, <1>3, <2>1, <2>4, ReadFieldsFields DEF TrueOf
  <2>5. CASE ReadMaps
    BY <1>0, <1>2, <1>3, <2>1, <2>5, ReadMapsFields DEF TrueOf
  <2> QED
    BY <2>2, <2>3, <2>4, <2>5
<1> QED
  BY <1>0, <1>1, <1>2, <1>3 DEF TrueOf, Kept

\* The record put in front is what has been read.
LEMMA RecordsPush ==
  ASSUME TypeInv, RecordsInv, walk # Idle, Push
  PROVE  RecordsInv'
<1>0. DOMAIN walk = Fields /\ WalkOK
  BY DEF TypeInv, TypeOK
<1>1. /\ walk.at = "push" /\ proc' = proc /\ walk'.touched = walk.touched
      /\ stale' = stale /\ walk'.chain = <<Record>> \o walk.chain
      /\ walk'.at \in {"exe", "done", "nomem"}
  BY <1>0, PushFields DEF world
<1> SUFFICES ASSUME NEW p \in Pids, Unmarked(p)' PROVE TrueOf(p)'
  BY DEF RecordsInv
<1>2. Unmarked(p) /\ TrueOf(p)
  BY <1>1 DEF Unmarked, Alive, RecordsInv
<1>3. Record \in Records
  BY <1>0, <1>1 DEF WalkOK, Record, Records
<1>4. ASSUME NEW i \in DOMAIN walk'.chain, walk'.chain[i].pid = p
      PROVE  /\ walk'.chain[i].exe = proc[p].exe \/ p \in stale
             /\ walk'.chain[i].uid = proc[p].uid /\ walk'.chain[i].whole
  <2>1. walk'.chain[i] = Record \/ \E j \in DOMAIN walk.chain : walk'.chain[i] = walk.chain[j]
    BY <1>0, <1>1, <1>3, FrontChain DEF WalkOK
  <2>2. CASE walk'.chain[i] = Record
    BY <1>1, <1>2, <1>4, <2>2 DEF Record, TrueOf
  <2>3. CASE \E j \in DOMAIN walk.chain : walk'.chain[i] = walk.chain[j]
    BY <1>2, <1>4, <2>3 DEF TrueOf
  <2> QED
    BY <2>1, <2>2, <2>3
<1> QED
  BY <1>1, <1>4 DEF TrueOf

LEMMA RecordsStep == TypeInv /\ TableInv /\ RecordsInv /\ [Next]_vars => RecordsInv'
<1> SUFFICES ASSUME TypeInv, TableInv, RecordsInv, [Next]_vars PROVE RecordsInv'
  OBVIOUS
<1>1. CASE Others
  BY <1>1, RecordsOthers
<1>2. CASE \E p \in Pids : Begin(p)
  BY <1>2, RecordsBegin
<1>3. CASE walk # Idle /\ Walk
  <2>1. CASE ReadExe \/ OpenStatus \/ ReadFields \/ ReadMaps
    BY <1>3, <2>1, RecordsRead
  <2>2. CASE Push
    BY <1>3, <2>2, RecordsPush
  <2>3. CASE Return
    BY <2>3 DEF Return, RecordsInv
  <2> QED
    BY <1>3, <2>1, <2>2, <2>3 DEF Walk
<1>4. CASE UNCHANGED vars
  BY <1>4 DEF vars, world, RecordsInv, Unmarked, Alive, TrueOf
<1>5. ASSUME NEW p \in Pids, Accept(p) PROVE RecordsInv'
  BY <1>5 DEF Accept, RecordsInv
<1> QED
  BY <1>1, <1>2, <1>3, <1>4, <1>5 DEF Next

LEMMA RecordsMean == TypeInv /\ RecordsInv => RecordsTrue
<1> SUFFICES ASSUME TypeInv, RecordsInv, Done, NEW i \in DOMAIN walk.chain,
                    Alive(Unpack(walk.chain)[i].pid),
                    Unpack(walk.chain)[i].pid \notin walk.touched
             PROVE  /\ Unpack(walk.chain)[i].uid = proc[Unpack(walk.chain)[i].pid].uid
                    /\ \/ Unpack(walk.chain)[i].exe = proc[Unpack(walk.chain)[i].pid].exe
                       \/ Unpack(walk.chain)[i].pid \in stale
  BY DEF RecordsTrue
<1>1. walk # Idle
  BY DEF Done, Idle
<1>2. /\ Unpack(walk.chain)[i].pid = walk.chain[i].pid
      /\ Unpack(walk.chain)[i].uid = walk.chain[i].uid
      /\ Unpack(walk.chain)[i].exe = IF walk.chain[i].whole THEN walk.chain[i].exe ELSE Garbage
  BY DEF Unpack, UnpackDigest
<1>3. walk.chain[i].pid \in Pids /\ Unmarked(walk.chain[i].pid)
  BY <1>2 DEF Unmarked, Alive
<1>4. TrueOf(walk.chain[i].pid)
  BY <1>1, <1>3 DEF RecordsInv
<1> QED
  BY <1>2, <1>4 DEF TrueOf

\* What the verifier unpacks of a process that is there, and ran nothing else since
\* the walk began, is its user and, unless an entry of the table of digests is
\* outdated or empty, its program; for any number of processes and of earlier calls,
\* however they fork, run programs and end while the list is made.
THEOREM RecordsCorrect == Spec => []RecordsTrue
<1>1. Init => TableInv /\ RecordsInv
  BY DEF Init, TableInv, RecordsInv, Numbers
<1>2. TypeInv /\ RecordsInv => RecordsTrue
  BY RecordsMean
<1> QED
  BY <1>1, <1>2, TypeAlways, TableStep, RecordsStep, PTL DEF Spec

-----------------------------------------------------------------------------
(* The order of the list: first, what pids say about processes as long as  *)
(* none was used twice.                                                    *)

NoReuse == births = Cardinality(used)

Counted ==
  /\ IsFiniteSet(used) /\ Cardinality(used) <= births
  /\ \A p \in Pids : Alive(p) => p \in used
  /\ walk # Idle => walk.subject \in used

\* A creator that has not ended is the one that the line begins with.
Family ==
  \A p, q \in Pids : Alive(p) /\ proc[p].parent = q =>
     Alive(q) /\ proc[p].line = <<q>> \o proc[q].line

\* The pids of a line were used, and those that are there have the rest as their line.
Known(S) ==
  \A k \in 1 .. Len(S) :
     /\ S[k] \in used
     /\ Alive(S[k]) => /\ Len(proc[S[k]].line) = Len(S) - k
                       /\ \A j \in 1 .. Len(S) - k : proc[S[k]].line[j] = S[k + j]

Lines == NoReuse => \A p \in Pids : Alive(p) => Known(proc[p].line)

\* What a step does to the line of a process is only to begin it.
LEMMA LineKept ==
  ASSUME TypeInv, [Next]_vars, NEW p \in Pids, Alive(p)', Alive(p)
  PROVE  proc'[p].line = proc[p].line
<1>0. proc \in [Pids -> Processes \cup {None}] /\ proc[p] \in Processes
  BY DEF TypeInv, TypeOK, Alive
<1>1. CASE proc' = proc
  BY <1>1
<1>2. ASSUME NEW q \in Pids \cup Roots, NEW c \in Pids, NEW x \in Exes, NEW u \in Uids,
             Birth(q, c, x, u)
      PROVE  proc'[p] = proc[p]
  BY <1>0, <1>2 DEF Birth, Alive
<1>3. ASSUME NEW q \in Pids, NEW x \in Exes, NEW u \in Uids, Exec(q, x, u)
      PROVE  proc'[p].line = proc[p].line
  <2>1. proc' = [proc EXCEPT ![q] = [proc[q] EXCEPT !.exe = x, !.uid = u]]
    BY <1>3 DEF Exec
  <2>2. p = q => proc'[p] = [proc[p] EXCEPT !.exe = x, !.uid = u]
    BY <1>0, <2>1
  <2>3. [proc[p] EXCEPT !.exe = x, !.uid = u].line = proc[p].line
    BY <1>0 DEF Processes
  <2> QED
    BY <1>0, <2>1, <2>2, <2>3
<1>4. ASSUME NEW q \in Pids, Exit(q)
      PROVE  proc'[p].line = proc[p].line
  <2>1. proc'[p] = IF p = q THEN None
                   ELSE IF Alive(p) /\ proc[p].parent = q
                   THEN [proc[p] EXCEPT !.parent = InitPid] ELSE proc[p]
    BY <1>0, <1>4 DEF Exit
  <2>2. [proc[p] EXCEPT !.parent = InitPid].line = proc[p].line
    BY <1>0 DEF Processes
  <2>3. proc'[p] # None
    BY DEF Alive
  <2> QED
    BY <2>1, <2>2, <2>3
<1>5. CASE Others
  BY <1>2, <1>3, <1>4, <1>5 DEF Others
<1>6. CASE UNCHANGED proc
  BY <1>6
<1>7. Others \/ UNCHANGED world
  BY DEF Next, Accept, Begin, Walk, ReadExe, OpenStatus, ReadFields, ReadMaps, Push, PushTo, Return,
         vars
<1> QED
  BY <1>5, <1>6, <1>7 DEF world

\* A process that is there and was not, was made by this step.
LEMMA WhoIsNew ==
  ASSUME TypeInv, [Next]_vars
  PROVE  \/ /\ used' = used /\ births' = births
            /\ \A p \in Pids : Alive(p)' => Alive(p)
         \/ \E q \in Pids \cup Roots, c \in Pids, x \in Exes, u \in Uids :
               /\ q \in Roots \/ Alive(q)
               /\ Birth(q, c, x, u)
               /\ \A p \in Pids : Alive(p)' => p = c \/ Alive(p)
<1>0. proc \in [Pids -> Processes \cup {None}]
  BY DEF TypeInv, TypeOK
<1>1. ASSUME NEW q \in Pids \cup Roots, NEW c \in Pids, NEW x \in Exes, NEW u \in Uids,
             Birth(q, c, x, u)
      PROVE  \A p \in Pids : Alive(p)' => p = c \/ Alive(p)
  BY <1>0, <1>1 DEF Birth, Alive
<1>2. ASSUME NEW q \in Pids, NEW x \in Exes, NEW u \in Uids, Exec(q, x, u)
      PROVE  used' = used /\ births' = births /\ \A p \in Pids : Alive(p)' => Alive(p)
  BY <1>0, <1>2 DEF Exec, Alive
<1>3. ASSUME NEW q \in Pids, Exit(q)
      PROVE  used' = used /\ births' = births /\ \A p \in Pids : Alive(p)' => Alive(p)
  BY <1>0, <1>3 DEF Exit, Alive
<1>4. CASE Others
  BY <1>1, <1>2, <1>3, <1>4 DEF Others
<1>5. CASE UNCHANGED world
  BY <1>5 DEF world, Alive
<1>6. Others \/ UNCHANGED world
  BY DEF Next, Accept, Begin, Walk, ReadExe, OpenStatus, ReadFields, ReadMaps, Push, PushTo, Return,
         vars
<1> QED
  BY <1>4, <1>5, <1>6

\* The subject of a walk is the process that asked.
LEMMA SubjectStep ==
  ASSUME TypeInv, [Next]_vars, walk' # Idle
  PROVE  \/ walk # Idle /\ walk'.subject = walk.subject /\ walk'.line = walk.line
         \/ \E p \in Pids : Begin(p)
<1>1. CASE Others
  <2>1. walk # Idle
    BY <1>1, OthersMark DEF Touch
  <2> QED
    BY <1>1, <2>1, OthersMark, MarkKeeps DEF TypeInv
<1>2. CASE walk # Idle /\ Walk
  <2>1. DOMAIN walk = Fields /\ ~Return
    BY <1>2 DEF TypeInv, Return
  <2> QED
    BY <1>2, <2>1, ReadExeFields, OpenStatusFields, ReadFieldsFields, ReadMapsFields, PushFields
    DEF Walk, Kept
<1>3. CASE UNCHANGED walk
  BY <1>3
<1> QED
  BY <1>1, <1>2, <1>3 DEF Next, Accept, vars

LEMMA CountedStep ==
  ASSUME TypeInv, Counted, [Next]_vars
  PROVE  Counted'
<1>1. /\ IsFiniteSet(used') /\ Cardinality(used') <= births'
      /\ used \subseteq used'
      /\ \A p \in Pids : Alive(p)' => p \in used'
  <2>1. CASE used' = used /\ births' = births /\ \A p \in Pids : Alive(p)' => Alive(p)
    BY <2>1 DEF Counted
  <2>2. ASSUME NEW q \in Pids \cup Roots, NEW c \in Pids, NEW x \in Exes, NEW u \in Uids,
               Birth(q, c, x, u), \A p \in Pids : Alive(p)' => p = c \/ Alive(p)
        PROVE  /\ IsFiniteSet(used') /\ Cardinality(used') <= births'
               /\ used \subseteq used'
               /\ \A p \in Pids : Alive(p)' => p \in used'
    <3>1. used' = used \cup {c} /\ births' = births + 1
      BY <2>2 DEF Birth
    <3>2. IsFiniteSet(used) /\ Cardinality(used) <= births /\ Cardinality(used) \in Nat
      BY FS_CardinalityType DEF Counted
    <3>3. births \in Nat
      BY ChainAssumption DEF TypeInv, TypeOK
    <3>4. IsFiniteSet(used') /\ Cardinality(used') <= Cardinality(used) + 1
          /\ Cardinality(used') \in Nat
      <4>1. /\ IsFiniteSet(used')
            /\ Cardinality(used') = IF c \in used THEN Cardinality(used) ELSE Cardinality(used) + 1
        BY <3>1, <3>2, FS_AddElement
      <4> QED
        BY <3>2, <4>1
    <3>5. Cardinality(used') <= births'
      BY <3>1, <3>2, <3>3, <3>4
    <3> QED
      BY <2>2, <3>1, <3>4, <3>5 DEF Counted
  <2> QED
    BY <2>1, <2>2, WhoIsNew
<1>2. ASSUME walk' # Idle PROVE walk'.subject \in used'
  <2>1. CASE walk # Idle /\ walk'.subject = walk.subject
    BY <1>1, <2>1 DEF Counted
  <2>2. ASSUME NEW p \in Pids, Begin(p) PROVE walk'.subject \in used'
    <3>1. walk'.subject = p /\ Alive(p)
      BY <2>2 DEF Begin
    <3> QED
      BY <1>1, <3>1 DEF Counted
  <2> QED
    BY <1>2, <2>1, <2>2, SubjectStep
<1> QED
  BY <1>1, <1>2 DEF Counted

\* As long as no pid is used again, a pid that was used has its process or none.
LEMMA WorldKeeps ==
  ASSUME TypeInv, Counted, [Next]_vars, NoReuse'
  PROVE  /\ NoReuse /\ used \subseteq used'
         /\ \A p \in used : Alive(p)' => Alive(p) /\ proc'[p].line = proc[p].line
<1>0. used \subseteq Pids
  BY DEF TypeInv, TypeOK
<1>1. CASE used' = used /\ births' = births /\ \A p \in Pids : Alive(p)' => Alive(p)
  BY <1>0, <1>1, LineKept DEF NoReuse
<1>2. ASSUME NEW q \in Pids \cup Roots, NEW c \in Pids, NEW x \in Exes, NEW u \in Uids,
             Birth(q, c, x, u), \A p \in Pids : Alive(p)' => p = c \/ Alive(p)
      PROVE  NoReuse /\ used \subseteq used'
             /\ \A p \in used : Alive(p)' => Alive(p) /\ proc'[p].line = proc[p].line
  <2>1. used' = used \cup {c} /\ births' = births + 1
    BY <1>2 DEF Birth
  <2>2. IsFiniteSet(used) /\ Cardinality(used) <= births /\ Cardinality(used) \in Nat
    BY FS_CardinalityType DEF Counted
  <2>3. births \in Nat
    BY ChainAssumption DEF TypeInv, TypeOK
  <2>4. Cardinality(used') = IF c \in used THEN Cardinality(used) ELSE Cardinality(used) + 1
    BY <2>1, <2>2, FS_AddElement
  <2>5. c \notin used /\ NoReuse
    BY <2>1, <2>2, <2>3, <2>4 DEF NoReuse
  <2> QED
    BY <1>0, <1>2, <2>1, <2>5, LineKept
<1> QED
  BY <1>1, <1>2, WhoIsNew

LEMMA KnownStep ==
  ASSUME TypeInv, Counted, [Next]_vars, NoReuse', NEW S \in Seq(Pids), Known(S)
  PROVE  Known(S)'
<1> SUFFICES ASSUME NEW k \in 1 .. Len(S)
             PROVE  /\ S[k] \in used'
                    /\ Alive(S[k])' =>
                          /\ Len(proc'[S[k]].line) = Len(S) - k
                          /\ \A j \in 1 .. Len(S) - k : proc'[S[k]].line[j] = S[k + j]
  BY DEF Known
<1>1. S[k] \in used
  BY DEF Known
<1>2. S[k] \in used' /\ (Alive(S[k])' => Alive(S[k]) /\ proc'[S[k]].line = proc[S[k]].line)
  BY <1>1, WorldKeeps
<1> QED
  BY <1>2 DEF Known

LEMMA FamilyStep ==
  ASSUME TypeInv, Family, [Next]_vars
  PROVE  Family'
<1>0. proc \in [Pids -> Processes \cup {None}]
  BY DEF TypeInv, TypeOK
<1> SUFFICES ASSUME NEW p \in Pids, NEW q \in Pids, Alive(p)', proc'[p].parent = q
             PROVE  Alive(q)' /\ proc'[p].line = <<q>> \o proc'[q].line
  BY DEF Family
<1>1. ASSUME Alive(p), proc[p].parent = q, Alive(q)'
      PROVE  proc'[p].line = <<q>> \o proc'[q].line
  <2>1. Alive(q) /\ proc[p].line = <<q>> \o proc[q].line
    BY <1>1 DEF Family
  <2> QED
    BY <1>1, <2>1, LineKept
<1>2. ASSUME NEW r \in Pids \cup Roots, NEW c \in Pids, NEW x \in Exes, NEW u \in Uids,
             r \in Roots \/ Alive(r), Birth(r, c, x, u)
      PROVE  Alive(q)' /\ proc'[p].line = <<q>> \o proc'[q].line
  <2>1. /\ proc[c] = None /\ \A s \in Pids \ {c} : proc'[s] = proc[s]
        /\ proc'[c] = Child(r, x, u)
    BY <1>0, <1>2 DEF Birth
  <2>2. CASE p = c
    <3>1. q = r /\ r \notin Roots /\ Alive(r) /\ r # c
      BY <1>2, <2>1, <2>2, ChainAssumption DEF Child, Alive, Roots
    <3>2. proc'[q] = proc[q] /\ proc'[p].line = <<q>> \o proc[q].line
      BY <2>1, <2>2, <3>1 DEF Child
    <3> QED
      BY <3>1, <3>2 DEF Alive
  <2>3. CASE p # c
    <3>1. Alive(p) /\ proc'[p] = proc[p]
      BY <2>1, <2>3 DEF Alive
    <3>2. Alive(q) /\ q # c
      BY <2>1, <3>1 DEF Family, Alive
    <3>3. Alive(q)'
      BY <2>1, <3>2 DEF Alive
    <3> QED
      BY <1>1, <3>1, <3>3
  <2> QED
    BY <2>2, <2>3
<1>3. ASSUME NEW r \in Pids, NEW x \in Exes, NEW u \in Uids, Exec(r, x, u)
      PROVE  Alive(q)' /\ proc'[p].line = <<q>> \o proc'[q].line
  <2>1. proc' = [proc EXCEPT ![r] = [proc[r] EXCEPT !.exe = x, !.uid = u]] /\ Alive(r)
    BY <1>3 DEF Exec
  <2>2. [proc[r] EXCEPT !.exe = x, !.uid = u].parent = proc[r].parent
        /\ [proc[r] EXCEPT !.exe = x, !.uid = u] \in Processes
    BY <1>0, <2>1 DEF Alive, Processes
  <2>3. Alive(p) /\ proc[p].parent = q
    BY <1>0, <2>1, <2>2 DEF Alive
  <2>4. Alive(q)
    BY <2>3 DEF Family
  <2>5. Alive(q)'
    BY <1>0, <2>1, <2>2, <2>4, ChainAssumption DEF Alive, Processes, Roots
  <2> QED
    BY <1>1, <2>3, <2>5
<1>4. ASSUME NEW r \in Pids, Exit(r)
      PROVE  Alive(q)' /\ proc'[p].line = <<q>> \o proc'[q].line
  <2>1. \A s \in Pids :
           proc'[s] = IF s = r THEN None
                      ELSE IF Alive(s) /\ proc[s].parent = r
                      THEN [proc[s] EXCEPT !.parent = InitPid] ELSE proc[s]
    BY <1>0, <1>4 DEF Exit
  <2>2. \A s \in Pids : Alive(s) => /\ [proc[s] EXCEPT !.parent = InitPid] \in Processes
                                    /\ [proc[s] EXCEPT !.parent = InitPid].parent = InitPid
    BY <1>0 DEF Alive, Processes, Roots
  <2>3. p # r /\ Alive(p)
    BY <2>1 DEF Alive
  <2>4. proc[p].parent = q /\ q # r
    BY <2>1, <2>2, <2>3, ChainAssumption
  <2>5. Alive(q)
    BY <2>3, <2>4 DEF Family
  <2>6. Alive(q)'
    BY <2>1, <2>2, <2>4, <2>5, ChainAssumption DEF Alive, Processes, Roots
  <2> QED
    BY <1>1, <2>3, <2>4, <2>6
<1>5. CASE Others
  BY <1>2, <1>3, <1>4, <1>5 DEF Others
<1>6. CASE UNCHANGED world
  BY <1>1, <1>6 DEF world, Family, Alive
<1>7. Others \/ UNCHANGED world
  BY DEF Next, Accept, Begin, Walk, ReadExe, OpenStatus, ReadFields, ReadMaps, Push, PushTo, Return,
         vars
<1> QED
  BY <1>5, <1>6, <1>7

\* A process in front of its own line.
LEMMA KnownFront ==
  ASSUME TypeInv, Counted, NEW p \in Pids, Alive(p), Known(proc[p].line)
  PROVE  /\ <<p>> \o proc[p].line \in Seq(Pids)
         /\ Known(<<p>> \o proc[p].line)
<1>1. proc[p].line \in Seq(Pids) /\ Len(proc[p].line) \in Nat
  BY DEF Alive, TypeInv, TypeOK, Processes
<1>2. /\ <<p>> \o proc[p].line \in Seq(Pids)
      /\ Len(<<p>> \o proc[p].line) = Len(proc[p].line) + 1
      /\ (<<p>> \o proc[p].line)[1] = p
      /\ \A j \in 1 .. Len(proc[p].line) : (<<p>> \o proc[p].line)[1 + j] = proc[p].line[j]
  <2>1. <<p>> \in Seq(Pids) /\ Len(<<p>>) = 1 /\ <<p>>[1] = p
    OBVIOUS
  <2>2. /\ <<p>> \o proc[p].line \in Seq(Pids)
        /\ Len(<<p>> \o proc[p].line) = 1 + Len(proc[p].line)
        /\ \A i \in 1 .. 1 + Len(proc[p].line) :
              (<<p>> \o proc[p].line)[i] = IF i <= 1 THEN <<p>>[i] ELSE proc[p].line[i - 1]
    BY <1>1, <2>1, ConcatProperties
  <2>3. ASSUME NEW j \in 1 .. Len(proc[p].line)
        PROVE  (<<p>> \o proc[p].line)[1 + j] = proc[p].line[j]
    <3>1. 1 + j \in 1 .. 1 + Len(proc[p].line) /\ ~(1 + j <= 1) /\ (1 + j) - 1 = j
      BY <1>1
    <3>2. (<<p>> \o proc[p].line)[1 + j] = proc[p].line[(1 + j) - 1]
      BY <2>2, <3>1
    <3> QED
      BY <3>1, <3>2
  <2>4. 1 \in 1 .. 1 + Len(proc[p].line)
    BY <1>1
  <2> QED
    BY <1>1, <2>1, <2>2, <2>3, <2>4
<1>3. ASSUME NEW S \in Seq(Pids), S = <<p>> \o proc[p].line
      PROVE  Known(S)
  <2> SUFFICES ASSUME NEW k \in 1 .. Len(S)
               PROVE  /\ S[k] \in used
                      /\ Alive(S[k]) =>
                            /\ Len(proc[S[k]].line) = Len(S) - k
                            /\ \A j \in 1 .. Len(S) - k : proc[S[k]].line[j] = S[k + j]
    BY DEF Known
  <2>1. /\ Len(S) = Len(proc[p].line) + 1 /\ S[1] = p
        /\ \A j \in 1 .. Len(proc[p].line) : S[1 + j] = proc[p].line[j]
    BY <1>2, <1>3
  <2>2. CASE k = 1
    BY <1>1, <2>1, <2>2 DEF Counted
  <2>3. CASE k # 1
    <3>1. PICK i \in 1 .. Len(proc[p].line) : k = 1 + i
      <4>1. k - 1 \in 1 .. Len(proc[p].line) /\ k = 1 + (k - 1)
        BY <1>1, <2>1, <2>3
      <4> QED
        BY <4>1
    <3>2. S[k] = proc[p].line[i]
      BY <2>1, <3>1
    <3>3. /\ S[k] \in used
          /\ Alive(S[k]) =>
                /\ Len(proc[S[k]].line) = Len(proc[p].line) - i
                /\ \A j \in 1 .. Len(proc[p].line) - i :
                      proc[S[k]].line[j] = proc[p].line[i + j]
      BY <3>2 DEF Known
    <3>4. Len(S) - k = Len(proc[p].line) - i
      BY <1>1, <2>1, <3>1
    <3>5. ASSUME NEW j \in 1 .. Len(proc[p].line) - i
          PROVE  S[k + j] = proc[p].line[i + j]
      <4>1. i + j \in 1 .. Len(proc[p].line) /\ k + j = 1 + (i + j)
        BY <1>1, <3>1
      <4> QED
        BY <2>1, <4>1
    <3> QED
      BY <3>3, <3>4, <3>5
  <2> QED
    BY <2>2, <2>3
<1> QED
  BY <1>2, <1>3

LEMMA LinesStep ==
  ASSUME TypeInv, Counted, Lines, [Next]_vars
  PROVE  Lines'
<1> SUFFICES ASSUME NoReuse', NEW p \in Pids, Alive(p)'
             PROVE  Known(proc[p].line)'
  BY DEF Lines
<1>1. NoReuse
  BY WorldKeeps
<1>2. ASSUME NEW S \in Seq(Pids), Known(S), S = proc'[p].line
      PROVE  Known(proc[p].line)'
  BY <1>2, KnownStep DEF Known
<1>3. CASE Alive(p)
  <2>1. Known(proc[p].line) /\ proc[p].line \in Seq(Pids) /\ proc'[p].line = proc[p].line
    BY <1>1, <1>3, LineKept DEF Lines, Alive, TypeInv, TypeOK, Processes
  <2> QED
    BY <1>2, <2>1
<1>4. CASE ~Alive(p)
  <2>1. PICK q \in Pids \cup Roots, x \in Exes, u \in Uids :
           (q \in Roots \/ Alive(q)) /\ Birth(q, p, x, u)
    BY <1>4, WhoIsNew
  <2>2. proc'[p] = Child(q, x, u)
    BY <2>1 DEF Birth, TypeInv, TypeOK
  <2>3. CASE q \in Roots
    <3>1. proc'[p].line = <<>>
      BY <2>2, <2>3 DEF Child
    <3>2. <<>> \in Seq(Pids) /\ Len(<<>>) = 0
      BY EmptySeq
    <3>3. Known(<<>>)
      BY <3>2 DEF Known
    <3> QED
      BY <1>2, <3>1, <3>2, <3>3
  <2>4. CASE q \notin Roots
    <3>1. proc'[p].line = <<q>> \o proc[q].line
      BY <2>2, <2>4 DEF Child
    <3>2. <<q>> \o proc[q].line \in Seq(Pids) /\ Known(<<q>> \o proc[q].line)
      BY <1>1, <2>1, <2>4, KnownFront DEF Lines
    <3> QED
      BY <1>2, <3>1, <3>2
  <2> QED
    BY <2>3, <2>4
<1> QED
  BY <1>3, <1>4

-----------------------------------------------------------------------------
(* The order of the list: then, where the walk is.                         *)

\* The process that asked, its creator, the creator of that, and so on.
Descent == <<walk.subject>> \o walk.line

\* A pid under which nothing is found any more.
Gone(p) == p \in {Minus1, Outside} \/ (p \in used /\ ~Alive(p))

\* The list is the end of the descent read backwards, and the walk stands at the
\* process before it; what has been read as its parent is the process before
\* that, init, or gone.
OnTrack(S) ==
  /\ Len(walk.chain) <= Len(S)
  /\ \A i \in 1 .. Len(walk.chain) : walk.chain[i].pid = S[Len(walk.chain) + 1 - i]
  /\ walk.at # "done" => Len(walk.chain) < Len(S) /\ walk.pid = S[Len(walk.chain) + 1]
  /\ walk.at \in {"exe", "status"} /\ walk.chain # <<>> => walk.ppid = walk.pid
  /\ walk.at \in {"maps", "push"} =>
       \/ walk.ppid = InitPid
       \/ Gone(walk.ppid)
       \/ Len(walk.chain) + 2 <= Len(S) /\ walk.ppid = S[Len(walk.chain) + 2]

\* The walk stands at a process that is gone, which it takes for its own parent.
Lost ==
  /\ walk.at \in {"exe", "status", "maps", "push"}
  /\ Gone(walk.pid) /\ walk.ppid = walk.pid
  /\ walk.chain # <<>>

Place(S) == walk.at = "nomem" \/ OnTrack(S) \/ Lost

TrackInv ==
  walk # Idle /\ NoReuse =>
    /\ Known(Descent)
    /\ Alive(walk.subject) => Place(Descent)

LEMMA DescentType ==
  ASSUME NEW s \in Pids, NEW line \in Seq(Pids)
  PROVE  /\ <<s>> \o line \in Seq(Pids)
         /\ Len(<<s>> \o line) \in Nat /\ Len(<<s>> \o line) >= 1
         /\ (<<s>> \o line)[1] = s
<1>1. <<s>> \in Seq(Pids) /\ Len(line) \in Nat /\ Len(<<s>>) = 1 /\ <<s>>[1] = s
  OBVIOUS
<1>2. /\ <<s>> \o line \in Seq(Pids) /\ Len(<<s>> \o line) = 1 + Len(line)
      /\ \A i \in 1 .. 1 + Len(line) : (<<s>> \o line)[i] = IF i <= 1 THEN <<s>>[i] ELSE line[i - 1]
  BY <1>1, ConcatProperties
<1>3. 1 \in 1 .. 1 + Len(line)
  BY <1>1
<1> QED
  BY <1>1, <1>2, <1>3

\* A pid that is gone stays so, and is not init.
LEMMA GoneStep ==
  ASSUME TypeInv, Counted, [Next]_vars, NoReuse', NEW p, Gone(p)
  PROVE  Gone(p)'
BY WorldKeeps DEF Gone

LEMMA GoneIsNotThere ==
  ASSUME TypeInv, NEW p, Gone(p)
  PROVE  ~Alive(p) /\ p # InitPid
BY ChainAssumption DEF Gone, TypeInv, TypeOK, Alive

LEMMA PlaceOthers ==
  ASSUME TypeInv, Counted, Others, NoReuse', walk # Idle, NEW S, Place(S)
  PROVE  Place(S)'
<1>1. /\ walk'.at = walk.at /\ walk'.pid = walk.pid /\ walk'.ppid = walk.ppid
      /\ walk'.chain = walk.chain
  BY OthersMark, MarkKeeps DEF TypeInv
<1>2. \A p : Gone(p) => Gone(p)'
  BY GoneStep DEF Next
<1>3. OnTrack(S) => OnTrack(S)'
  BY <1>1, <1>2 DEF OnTrack
<1>4. Lost => Lost'
  BY <1>1, <1>2 DEF Lost
<1> QED
  BY <1>1, <1>3, <1>4 DEF Place

\* The parent that is read is the process before, or init.
LEMMA ParentOnLine ==
  ASSUME TypeInv, Counted, Family, NEW S \in Seq(Pids), Known(S), NEW n \in Nat,
         n < Len(S), Alive(S[n + 1])
  PROVE  \/ proc[S[n + 1]].parent \in Roots
         \/ n + 2 <= Len(S) /\ proc[S[n + 1]].parent = S[n + 2]
<1> DEFINE p == S[n + 1]
           q == proc[S[n + 1]].parent
<1>1. n + 1 \in 1 .. Len(S) /\ Len(S) \in Nat
  OBVIOUS
<1>2. p \in Pids /\ proc[p] \in Processes
  BY DEF Alive, TypeInv, TypeOK
<1>3. q \in Pids \cup Roots /\ proc[p].line \in Seq(Pids)
  BY <1>2 DEF Processes
<1>4. /\ Len(proc[p].line) = Len(S) - (n + 1)
      /\ \A j \in 1 .. Len(S) - (n + 1) : proc[p].line[j] = S[(n + 1) + j]
  BY <1>1 DEF Known
<1>5. CASE q \notin Roots
  <2>1. Alive(q) /\ proc[p].line = <<q>> \o proc[q].line
    BY <1>2, <1>3, <1>5 DEF Family
  <2>2. q \in Pids /\ proc[q].line \in Seq(Pids)
    BY <1>3, <1>5, <2>1 DEF Alive, TypeInv, TypeOK, Processes
  <2>3. (<<q>> \o proc[q].line)[1] = q /\ Len(<<q>> \o proc[q].line) >= 1
    BY <2>2, DescentType
  <2>4. proc[p].line[1] = q /\ Len(proc[p].line) >= 1
    BY <2>1, <2>3
  <2>5. n + 2 <= Len(S) /\ 1 \in 1 .. Len(S) - (n + 1) /\ (n + 1) + 1 = n + 2
    <3> HIDE DEF p, q
    <3> QED
      BY <1>1, <1>4, <2>4
  <2>6. proc[p].line[1] = S[(n + 1) + 1]
    BY <1>4, <2>5
  <2> QED
    BY <2>4, <2>5, <2>6
<1> QED
  BY <1>5

LEMMA PlaceRead ==
  ASSUME TypeInv, Counted, Family, walk # Idle, Alive(walk.subject),
         NEW S \in Seq(Pids), Known(S), Len(S) >= 1, S[1] = walk.subject, Place(S),
         ReadExe \/ OpenStatus \/ ReadFields \/ ReadMaps
  PROVE  Place(S)'
<1>0. /\ DOMAIN walk = Fields /\ WalkOK
      /\ walk.chain \in Seq(Records) /\ Len(walk.chain) \in Nat
  BY DEF TypeInv, TypeOK, WalkOK
<1>1. /\ Kept /\ proc' = proc /\ used' = used
      /\ walk.at \in {"exe", "status", "fields", "maps"}
  BY <1>0, ReadExeFields, OpenStatusFields, ReadFieldsFields, ReadMapsFields DEF world
<1>2. \A p : Gone(p)' <=> Gone(p)
  BY <1>1 DEF Gone, Alive
<1>3. CASE OnTrack(S)
  <2>1. /\ Len(walk.chain) < Len(S) /\ walk.pid = S[Len(walk.chain) + 1]
        /\ \A i \in 1 .. Len(walk.chain) : walk.chain[i].pid = S[Len(walk.chain) + 1 - i]
    BY <1>1, <1>3 DEF OnTrack
  <2>2. Len(walk.chain) + 1 \in 1 .. Len(S) /\ Len(S) \in Nat
    BY <1>0, <2>1
  <2>3. walk.pid \in used /\ walk.pid \in Pids
    BY <2>1, <2>2 DEF Known
  <2>4. CASE ReadExe
    <3>1. walk'.at = "status" /\ walk'.ppid = walk.ppid /\ walk.at = "exe"
      BY <1>0, <2>4, ReadExeFields
    <3> QED
      BY <1>1, <1>3, <2>1, <3>1 DEF OnTrack, Kept, Place
  <2>5. CASE OpenStatus
    <3>1. CASE Alive(walk.pid)
      <4>1. walk'.at = "fields"
        BY <1>0, <2>5, <3>1, OpenStatusFields
      <4> QED
        BY <1>1, <1>3, <2>1, <4>1 DEF OnTrack, Kept, Place
    <3>2. CASE ~Alive(walk.pid)
      <4>1. walk.chain # <<>>
        <5>1. walk.chain = <<>> => Len(walk.chain) = 0
          BY EmptySeq
        <5>2. walk.chain = <<>> => walk.pid = walk.subject
          BY <2>1, <5>1
        <5> QED
          BY <3>2, <5>2
      <4>2. walk'.at = "maps" /\ walk'.ppid = walk.ppid /\ walk.at = "status"
        BY <1>0, <2>5, <3>2, <4>1, OpenStatusFields
      <4>3. Gone(walk.ppid)
        BY <1>3, <2>3, <3>2, <4>1, <4>2 DEF OnTrack, Gone
      <4>4. Gone(walk.ppid)'
        BY <1>1, <4>2, <4>3 DEF Gone, Alive
      <4> QED
        BY <1>1, <1>3, <2>1, <4>2, <4>4 DEF OnTrack, Kept, Place
    <3> QED
      BY <3>1, <3>2
  <2>6. CASE ReadFields
    <3>1. walk'.at = "maps"
      BY <1>0, <2>6, ReadFieldsFields
    <3>2. CASE Alive(walk.pid)
      <4>1. walk'.ppid = proc[walk.pid].parent
        BY <1>0, <2>6, <3>2, ReadFieldsFields DEF Alive
      <4>2. \/ proc[walk.pid].parent = InitPid
            \/ Gone(proc[walk.pid].parent)
            \/ Len(walk.chain) + 2 <= Len(S) /\ proc[walk.pid].parent = S[Len(walk.chain) + 2]
        BY <1>0, <2>1, <3>2, ParentOnLine DEF Roots, Gone
      <4>3. Gone(proc[walk.pid].parent) => Gone(proc[walk.pid].parent)'
        BY <1>1 DEF Gone, Alive, Kept
      <4> QED
        BY <1>1, <1>3, <2>1, <3>1, <4>1, <4>2, <4>3 DEF OnTrack, Kept, Place
    <3>3. CASE ~Alive(walk.pid)
      <4>1. walk'.ppid = Minus1
        BY <1>0, <2>3, <2>6, <3>3, ReadFieldsFields DEF Alive
      <4>2. Gone(walk.ppid)'
        BY <4>1 DEF Gone
      <4> QED
        BY <1>1, <1>3, <2>1, <3>1, <4>2 DEF OnTrack, Kept, Place
    <3> QED
      BY <3>2, <3>3
  <2>7. CASE ReadMaps
    <3>1. walk'.at = "push" /\ walk'.ppid = walk.ppid /\ walk.at = "maps"
      BY <1>0, <2>7, ReadMapsFields
    <3>2. \/ walk.ppid = InitPid
          \/ Gone(walk.ppid)
          \/ Len(walk.chain) + 2 <= Len(S) /\ walk.ppid = S[Len(walk.chain) + 2]
      BY <1>3, <3>1 DEF OnTrack
    <3>3. Gone(walk.ppid) => Gone(walk.ppid)'
      BY <1>1, <3>1 DEF Gone, Alive
    <3> QED
      BY <1>1, <1>3, <2>1, <3>1, <3>2, <3>3 DEF OnTrack, Kept, Place
  <2> QED
    BY <2>4, <2>5, <2>6, <2>7
<1>4. CASE Lost
  <2>1. ~Alive(walk.pid) /\ walk.chain # <<>> /\ walk.ppid = walk.pid /\ walk.at # "fields"
    BY <1>4, GoneIsNotThere DEF Lost
  <2>2. ~ReadFields
    BY <2>1 DEF ReadFields
  <2>3. walk'.ppid = walk.ppid /\ walk'.at \in {"status", "maps", "push"}
    BY <1>0, <2>1, <2>2, ReadExeFields, OpenStatusFields, ReadMapsFields
  <2>4. Gone(walk.pid)'
    BY <1>1, <1>4 DEF Gone, Alive, Kept, Lost
  <2> QED
    BY <1>1, <2>1, <2>3, <2>4 DEF Lost, Kept, Place
<1>5. walk.at # "nomem"
  BY <1>1
<1> QED
  BY <1>3, <1>4, <1>5 DEF Place

LEMMA PlacePush ==
  ASSUME TypeInv, walk # Idle, NEW S \in Seq(Pids), Known(S), Place(S), Push
  PROVE  Place(S)'
<1>0. DOMAIN walk = Fields /\ WalkOK
  BY DEF TypeInv, TypeOK
<1>1. /\ walk.at = "push" /\ proc' = proc /\ used' = used
      /\ walk'.chain = <<Record>> \o walk.chain
      /\ walk'.pid = walk.ppid /\ walk'.ppid = walk.ppid
      /\ walk.ppid = InitPid => walk'.at = "done"
      /\ walk.ppid # InitPid => walk'.at \in {"nomem", "exe"}
  BY <1>0, PushFields DEF world
<1>2. Record \in Records /\ Record.pid = walk.pid
  BY <1>0, <1>1 DEF WalkOK, Record, Records
<1>3. walk.chain \in Seq(Records) /\ Len(walk.chain) \in Nat
  BY <1>0 DEF WalkOK
<1>4. /\ Len(walk'.chain) = Len(walk.chain) + 1 /\ walk'.chain # <<>>
      /\ walk'.chain[1] = Record
      /\ \A i \in 1 .. Len(walk.chain) + 1 : i # 1 => walk'.chain[i] = walk.chain[i - 1]
  <2>1. <<Record>> \in Seq(Records) /\ Len(<<Record>>) = 1 /\ <<Record>>[1] = Record
    BY <1>2
  <2>2. /\ walk'.chain \in Seq(Records) /\ Len(walk'.chain) = 1 + Len(walk.chain)
        /\ \A i \in 1 .. 1 + Len(walk.chain) :
              walk'.chain[i] = IF i <= 1 THEN <<Record>>[i] ELSE walk.chain[i - 1]
    BY <1>1, <1>3, <2>1, ConcatProperties
  <2>3. walk'.chain # <<>>
    BY <1>3, <2>2, EmptySeq
  <2> QED
    BY <1>3, <2>1, <2>2, <2>3
<1>5. \A p : Gone(p)' <=> Gone(p)
  BY <1>1 DEF Gone, Alive
<1>6. CASE OnTrack(S)
  <2>1. /\ Len(walk.chain) < Len(S) /\ walk.pid = S[Len(walk.chain) + 1]
        /\ \A i \in 1 .. Len(walk.chain) : walk.chain[i].pid = S[Len(walk.chain) + 1 - i]
        /\ \/ walk.ppid = InitPid
           \/ Gone(walk.ppid)
           \/ Len(walk.chain) + 2 <= Len(S) /\ walk.ppid = S[Len(walk.chain) + 2]
    BY <1>1, <1>6 DEF OnTrack
  <2>2. Len(walk'.chain) <= Len(S)
    BY <1>3, <1>4, <2>1
  <2>3. ASSUME NEW i \in 1 .. Len(walk'.chain)
        PROVE  walk'.chain[i].pid = S[Len(walk'.chain) + 1 - i]
    <3>1. CASE i = 1
      <4>1. Len(walk'.chain) + 1 - i = Len(walk.chain) + 1
        BY <1>3, <1>4, <3>1
      <4> QED
        BY <1>2, <1>4, <2>1, <3>1, <4>1
    <3>2. CASE i # 1
      <4>1. /\ i - 1 \in 1 .. Len(walk.chain)
            /\ Len(walk'.chain) + 1 - i = Len(walk.chain) + 1 - (i - 1)
        BY <1>3, <1>4, <3>2
      <4>2. walk'.chain[i] = walk.chain[i - 1]
        BY <1>4, <3>2
      <4> QED
        BY <2>1, <4>1, <4>2
    <3> QED
      BY <3>1, <3>2
  <2>4. CASE walk.ppid = InitPid
    BY <1>1, <2>2, <2>3, <2>4 DEF OnTrack, Place
  <2>5. CASE Gone(walk.ppid)
    <3>1. walk.ppid # InitPid /\ Gone(walk.pid)'
      BY <1>1, <2>5, GoneIsNotThere DEF Gone, Alive
    <3> QED
      BY <1>1, <1>4, <3>1 DEF Lost, Place
  <2>6. CASE Len(walk.chain) + 2 <= Len(S) /\ walk.ppid = S[Len(walk.chain) + 2]
    <3>1. /\ Len(walk.chain) + 2 \in 1 .. Len(S) /\ Len(S) \in Nat
          /\ Len(walk'.chain) + 1 = Len(walk.chain) + 2
      BY <1>3, <1>4, <2>6
    <3>2. walk.ppid # InitPid
      BY <2>6, <3>1, ChainAssumption
    <3>3. Len(walk'.chain) < Len(S) /\ walk'.pid = S[Len(walk'.chain) + 1]
      BY <1>1, <1>3, <1>4, <2>6, <3>1
    <3> QED
      BY <1>1, <2>2, <2>3, <3>2, <3>3 DEF OnTrack, Place
  <2> QED
    BY <2>1, <2>4, <2>5, <2>6
<1>7. CASE Lost
  <2>1. walk.ppid = walk.pid /\ walk.ppid # InitPid /\ Gone(walk.pid)'
    BY <1>1, <1>7, GoneIsNotThere DEF Lost, Gone, Alive
  <2> QED
    BY <1>1, <1>4, <2>1 DEF Lost, Place
<1> QED
  BY <1>1, <1>6, <1>7 DEF Place

LEMMA PlaceBegin ==
  ASSUME TypeInv, Counted, Lines, NoReuse, NEW p \in Pids, Begin(p)
  PROVE  /\ Known(<<p>> \o proc[p].line)
         /\ walk'.subject = p /\ walk'.line = proc[p].line
         /\ \A S \in Seq(Pids) : Len(S) >= 1 /\ S[1] = p => Place(S)'
<1>1. /\ Alive(p) /\ walk'.subject = p /\ walk'.line = proc[p].line /\ walk'.pid = p
      /\ walk'.at = "exe" /\ walk'.chain = <<>>
  BY DEF Begin
<1>2. Known(<<p>> \o proc[p].line)
  BY <1>1, KnownFront DEF Lines
<1>3. Len(<<>>) = 0
  BY EmptySeq
<1>4. ASSUME NEW S \in Seq(Pids), Len(S) >= 1, S[1] = p
      PROVE  Place(S)'
  <2>1. Len(S) \in Nat /\ Len(walk'.chain) = 0
    BY <1>1, <1>3
  <2>2. Len(walk'.chain) < Len(S) /\ walk'.pid = S[Len(walk'.chain) + 1]
    BY <1>1, <1>4, <2>1
  <2> QED
    BY <1>1, <2>1, <2>2 DEF OnTrack, Place
<1> QED
  BY <1>1, <1>2, <1>4

LEMMA TrackStep ==
  ASSUME TypeInv, Counted, Family, Lines, TrackInv, TypeInv', [Next]_vars
  PROVE  TrackInv'
<1> SUFFICES ASSUME walk' # Idle, NoReuse'
             PROVE  Known(Descent)' /\ (Alive(walk.subject)' => Place(Descent)')
  BY DEF TrackInv
<1>0. NoReuse
  BY WorldKeeps
<1>1. PICK S : S = Descent'
  OBVIOUS
<1>2. S \in Seq(Pids) /\ Len(S) \in Nat /\ Len(S) >= 1 /\ S[1] = walk'.subject
  <2>1. walk'.subject \in Pids /\ walk'.line \in Seq(Pids)
    BY DEF TypeInv, TypeOK, WalkOK
  <2>2. S = <<walk'.subject>> \o walk'.line
    BY <1>1 DEF Descent
  <2> QED
    BY <2>1, <2>2, DescentType
<1>3. SUFFICES Known(S)' /\ (Alive(walk.subject)' => Place(S)')
  BY <1>1 DEF Known, Place, OnTrack
<1>4. CASE walk # Idle /\ walk'.subject = walk.subject /\ walk'.line = walk.line
  <2>1. S = Descent /\ Known(S) /\ (Alive(walk.subject) => Place(S))
    BY <1>0, <1>1, <1>4 DEF Descent, TrackInv
  <2>2. Known(S)'
    BY <1>2, <2>1, KnownStep
  <2>3. ASSUME Alive(walk.subject)' PROVE Place(S)'
    <3>1. Alive(walk.subject)
      <4>1. PICK p : p = walk.subject /\ p = walk'.subject
        BY <1>4
      <4>2. p \in used /\ Alive(p)'
        BY <1>4, <2>3, <4>1 DEF Counted, Alive
      <4> QED
        BY <4>1, <4>2, WorldKeeps
    <3>2. S[1] = walk.subject /\ Place(S)
      BY <1>2, <1>4, <2>1, <3>1
    <3>3. CASE Others
      BY <1>4, <3>2, <3>3, PlaceOthers
    <3>4. CASE ReadExe \/ OpenStatus \/ ReadFields \/ ReadMaps
      BY <1>2, <1>4, <2>1, <3>1, <3>2, <3>4, PlaceRead
    <3>5. CASE Push
      BY <1>2, <1>4, <2>1, <3>2, <3>5, PlacePush
    <3>6. CASE UNCHANGED <<world, walk>>
      BY <3>2, <3>6 DEF world, Place, OnTrack, Lost, Gone, Alive
    <3>7. ~Return /\ \A p \in Pids : ~Begin(p)
      BY <1>4 DEF Return, Begin
    <3> QED
      BY <3>3, <3>4, <3>5, <3>6, <3>7 DEF Next, Walk, Accept, vars
  <2> QED
    BY <2>2, <2>3
<1>5. ASSUME NEW p \in Pids, Begin(p)
      PROVE  Known(S)' /\ (Alive(walk.subject)' => Place(S)')
  <2>1. /\ Known(<<p>> \o proc[p].line)
        /\ walk'.subject = p /\ walk'.line = proc[p].line
        /\ \A T \in Seq(Pids) : Len(T) >= 1 /\ T[1] = p => Place(T)'
    BY <1>0, <1>5, PlaceBegin
  <2>2. S = <<p>> \o proc[p].line
    BY <1>1, <2>1 DEF Descent
  <2>3. Known(S)'
    BY <1>2, <2>1, <2>2, KnownStep
  <2> QED
    BY <1>2, <2>1, <2>3
<1> QED
  BY <1>4, <1>5, SubjectStep

-----------------------------------------------------------------------------
AncestryInv == Counted /\ Family /\ Lines /\ TrackInv

LEMMA AncestryInit == Init => AncestryInv
<1> SUFFICES ASSUME Init PROVE AncestryInv
  OBVIOUS
<1>1. IsFiniteSet(used) /\ Cardinality(used) = 0 /\ births = 0 /\ walk = Idle
  BY FS_EmptySet DEF Init
<1>2. \A p \in Pids : ~Alive(p)
  BY DEF Init, Alive
<1> QED
  BY <1>1, <1>2 DEF AncestryInv, Counted, Family, Lines, TrackInv

LEMMA AncestryStep == TypeInv /\ AncestryInv /\ [Next]_vars => AncestryInv'
BY TypeStep, CountedStep, FamilyStep, LinesStep, TrackStep DEF AncestryInv

LEMMA AncestryMean == TypeInv /\ AncestryInv => Lineage
<1> SUFFICES ASSUME TypeInv, AncestryInv, Done, Alive(walk.subject), NoReuse
             PROVE  LET pids == [i \in DOMAIN walk.chain |-> walk.chain[i].pid]
                    IN  IsPrefix(Reverse(pids), Descent)
  BY DEF Lineage, NoReuse, Descent
<1> DEFINE n == Len(walk.chain)
           pids == [i \in DOMAIN walk.chain |-> walk.chain[i].pid]
<1>1. walk # Idle
  BY DEF Done, Idle
<1>2. OnTrack(Descent)
  BY <1>1 DEF AncestryInv, TrackInv, Place, Lost, Done
<1>3. WalkOK /\ walk.chain \in Seq(Records) /\ n \in Nat /\ DOMAIN walk.chain = 1 .. n
  BY <1>1 DEF TypeInv, TypeOK, WalkOK
<1>4. Descent \in Seq(Pids) /\ Len(Descent) \in Nat
  BY <1>3, DescentType DEF WalkOK, Descent
<1>5. n <= Len(Descent) /\ \A i \in 1 .. n : walk.chain[i].pid = Descent[n + 1 - i]
  BY <1>2 DEF OnTrack
<1>6. Len(pids) = n /\ \A i \in 1 .. n : pids[i] = Descent[n + 1 - i]
  BY <1>3, <1>5
<1>7. Reverse(pids) = [i \in 1 .. n |-> pids[(n - i) + 1]]
  BY <1>6 DEF Reverse
<1>8. \A i \in 1 .. n : pids[(n - i) + 1] = Descent[i]
  <2> TAKE i \in 1 .. n
  <2>1. (n - i) + 1 \in 1 .. n /\ n + 1 - ((n - i) + 1) = i
    BY <1>3
  <2> QED
    BY <1>6, <2>1
<1>9. Reverse(pids) = [i \in 1 .. n |-> Descent[i]]
  BY <1>7, <1>8
<1>10. Len(Reverse(pids)) = n
  BY <1>3, <1>9
<1>11. SubSeq(Reverse(pids), 1, n) = SubSeq(Descent, 1, n)
  <2>1. /\ SubSeq(Reverse(pids), 1, n) = [i \in 1 .. n |-> Reverse(pids)[i]]
        /\ SubSeq(Descent, 1, n) = [i \in 1 .. n |-> Descent[i]]
    <3>1. Reverse(pids) \in Seq(Pids)
      <4>1. \A i \in 1 .. n : Descent[i] \in Pids
        BY <1>3, <1>4, <1>5
      <4> QED
        BY <1>3, <1>9, <4>1
    <3>2. \A T \in Seq(Pids) : n <= Len(T) => SubSeq(T, 1, n) = [i \in 1 .. n |-> T[i]]
      <4> TAKE T \in Seq(Pids)
      <4> HAVE n <= Len(T)
      <4>1. Len(T) \in Nat
        OBVIOUS
      <4>2. /\ SubSeq(T, 1, n) \in Seq(Pids) /\ Len(SubSeq(T, 1, n)) = n
            /\ \A i \in 1 .. n : SubSeq(T, 1, n)[i] = T[i]
        BY <1>3, <4>1, SubSeqProperties
      <4> QED
        BY <4>2
    <3> QED
      BY <1>4, <1>5, <1>10, <3>1, <3>2
  <2> QED
    BY <1>9, <2>1
<1> QED
  BY <1>5, <1>10, <1>11 DEF IsPrefix

\* If the process that asked is still there when its list is complete, and no pid was
\* used again, the list read backwards is the process, its creator, and so on
\* without a gap, for any number of processes: ancestors that end while the list
\* is made shorten it or make the walk fail, and never leave one out.
THEOREM LineageCorrect == Spec => []Lineage
<1>1. TypeInv /\ AncestryInv => Lineage
  BY AncestryMean
<1> QED
  BY <1>1, AncestryInit, TypeAlways, AncestryStep, PTL DEF Spec

-----------------------------------------------------------------------------
(* The way: the walk does not come back to a process that it has left.     *)

\* The process v is not met from the pid q on.
Behind(v, q) ==
  /\ v \in used /\ v # q
  /\ Alive(v) => \/ Gone(q)
                 \/ Alive(q) /\ \A k \in 1 .. Len(proc[q].line) : proc[q].line[k] # v

\* The walk has left the process of record i, and did not stand still at it.
HasLeft(i) == walk.chain[i].ppid # walk.chain[i].pid

AllBehind(q) == \A i \in 1 .. Len(walk.chain) : HasLeft(i) => Behind(walk.chain[i].pid, q)

WayInv ==
  walk # Idle /\ NoReuse =>
    /\ \A i, j \in 1 .. Len(walk.chain) :
          i < j /\ walk.chain[i].pid = walk.chain[j].pid => ~HasLeft(j)
    /\ walk.at \notin {"done", "nomem"} => AllBehind(walk.pid)
    /\ walk.at \in {"exe", "status"} =>
          IF walk.chain = <<>> THEN walk.pid = walk.subject ELSE walk.ppid = walk.pid
    /\ walk.at = "fields" => walk.pid \in used
    /\ walk.at \in {"maps", "push"} /\ walk.ppid \notin {walk.pid, InitPid} =>
          Behind(walk.pid, walk.ppid) /\ AllBehind(walk.ppid)

LEMMA BehindStep ==
  ASSUME TypeInv, Counted, [Next]_vars, NoReuse', NEW v, NEW q, Behind(v, q)
  PROVE  Behind(v, q)'
<1>1. v \in used' /\ v # q /\ (Alive(v)' => Alive(v))
  BY WorldKeeps DEF Behind
<1>2. CASE Gone(q)
  BY <1>1, <1>2, GoneStep DEF Behind
<1>3. CASE Alive(q)
  <2>1. q \in used
    BY <1>3 DEF Counted, Alive
  <2>2. q \in used' /\ (Alive(q)' => proc'[q].line = proc[q].line)
    BY <2>1, WorldKeeps
  <2>3. CASE Alive(q)'
    BY <1>1, <1>3, <2>2, <2>3, GoneIsNotThere DEF Behind
  <2>4. CASE ~Alive(q)'
    BY <1>1, <2>2, <2>4 DEF Behind, Gone
  <2> QED
    BY <2>3, <2>4
<1>4. CASE ~Gone(q) /\ ~Alive(q)
  BY <1>1, <1>4 DEF Behind
<1> QED
  BY <1>2, <1>3, <1>4

\* What is behind a process is behind its parent, and so is the process itself.
LEMMA ParentAhead ==
  ASSUME TypeInv, Counted, Family, Lines, NoReuse, NEW p \in Pids, Alive(p),
         proc[p].parent # InitPid
  PROVE  /\ Behind(p, proc[p].parent)
         /\ \A v : Behind(v, p) => Behind(v, proc[p].parent)
<1>1. PICK q : q = proc[p].parent
  OBVIOUS
<1>2. /\ p \in used /\ used \subseteq Pids /\ proc[p] \in Processes
      /\ q \in Pids \cup Roots /\ q # InitPid
  BY <1>1 DEF Counted, TypeInv, TypeOK, Alive, Processes
<1>3. CASE q = Outside
  <2>1. Gone(q) /\ \A v \in used : v # q
    BY <1>2, <1>3, ChainAssumption DEF Gone
  <2> QED
    BY <1>1, <1>2, <2>1 DEF Behind
<1>4. CASE q \in Pids
  <2>1. Alive(q) /\ proc[p].line = <<q>> \o proc[q].line
    BY <1>1, <1>4 DEF Family
  <2>2. PICK L : L = proc[q].line
    OBVIOUS
  <2>3. PICK M : M = proc[p].line
    OBVIOUS
  <2>4. L \in Seq(Pids) /\ Len(L) \in Nat
    BY <1>4, <2>1, <2>2 DEF Alive, TypeInv, TypeOK, Processes
  <2>5. /\ Len(M) = 1 + Len(L) /\ M[1] = q
        /\ \A k \in 1 .. Len(L) : M[k + 1] = L[k]
    <3>1. <<q>> \in Seq(Pids) /\ Len(<<q>>) = 1 /\ <<q>>[1] = q
      BY <1>4
    <3>2. /\ Len(M) = 1 + Len(L)
          /\ \A i \in 1 .. 1 + Len(L) : M[i] = IF i <= 1 THEN <<q>>[i] ELSE L[i - 1]
      BY <2>1, <2>2, <2>3, <2>4, <3>1, ConcatProperties
    <3>3. 1 \in 1 .. 1 + Len(L)
      BY <2>4
    <3>4. ASSUME NEW k \in 1 .. Len(L) PROVE M[k + 1] = L[k]
      <4>1. k + 1 \in 1 .. 1 + Len(L) /\ ~(k + 1 <= 1) /\ (k + 1) - 1 = k
        BY <2>4
      <4> QED
        BY <3>2, <4>1
    <3> QED
      BY <3>1, <3>2, <3>3, <3>4
  <2>6. \A k \in 1 .. Len(M) : M[k] # p
    <3> SUFFICES ASSUME NEW k \in 1 .. Len(M), M[k] = p PROVE FALSE
      OBVIOUS
    <3>1. Known(M)
      BY <2>3 DEF Lines
    <3>2. Len(M) = Len(M) - k
      BY <2>3, <3>1 DEF Known
    <3> QED
      BY <2>4, <2>5, <3>2
  <2>7. ASSUME NEW v, v \in used, \A k \in 1 .. Len(M) : M[k] # v
        PROVE  Behind(v, q)
    <3>1. 1 \in 1 .. Len(M) /\ \A k \in 1 .. Len(L) : k + 1 \in 1 .. Len(M)
      BY <2>4, <2>5
    <3>2. v # q /\ \A k \in 1 .. Len(L) : L[k] # v
      BY <2>5, <2>7, <3>1
    <3> QED
      BY <2>1, <2>2, <2>7, <3>2 DEF Behind
  <2>8. Behind(p, q)
    BY <1>2, <2>6, <2>7
  <2>9. ASSUME NEW v, Behind(v, p) PROVE Behind(v, q)
    <3>1. ~Gone(p)
      BY GoneIsNotThere
    <3>2. CASE Alive(v)
      BY <2>3, <2>7, <2>9, <3>1, <3>2 DEF Behind
    <3>3. CASE ~Alive(v)
      <4>1. v # q
        BY <2>1, <3>3
      <4> QED
        BY <2>9, <3>3, <4>1 DEF Behind
    <3> QED
      BY <3>2, <3>3
  <2> QED
    BY <1>1, <2>8, <2>9
<1> QED
  BY <1>2, <1>3, <1>4 DEF Roots

LEMMA WayRead ==
  ASSUME TypeInv, Counted, Family, Lines, WayInv, NoReuse, walk # Idle,
         ReadExe \/ OpenStatus \/ ReadFields \/ ReadMaps
  PROVE  WayInv'
<1>0. DOMAIN walk = Fields /\ WalkOK /\ used \subseteq Pids
  BY DEF TypeInv, TypeOK
<1>1. /\ Kept /\ proc' = proc /\ used' = used /\ births' = births
      /\ walk.at \in {"exe", "status", "fields", "maps"}
  BY <1>0, ReadExeFields, OpenStatusFields, ReadFieldsFields, ReadMapsFields DEF world
<1>2. \A v, q : Behind(v, q)' <=> Behind(v, q)
  BY <1>1 DEF Behind, Gone, Alive
<1>3. /\ walk'.chain = walk.chain /\ walk'.pid = walk.pid /\ walk'.subject = walk.subject
      /\ \A i : HasLeft(i)' <=> HasLeft(i)
      /\ AllBehind(walk.pid)
  BY <1>1 DEF WayInv, Kept, HasLeft
<1>4. /\ AllBehind(walk.pid)'
      /\ \A i, j \in 1 .. Len(walk'.chain) :
            i < j /\ walk'.chain[i].pid = walk'.chain[j].pid => ~HasLeft(j)'
  <2>1. AllBehind(walk.pid)'
    BY <1>2, <1>3 DEF AllBehind
  <2>2. \A i, j \in 1 .. Len(walk.chain) :
           i < j /\ walk.chain[i].pid = walk.chain[j].pid => ~HasLeft(j)
    BY DEF WayInv
  <2> QED
    BY <1>3, <2>1, <2>2
<1>5. CASE ReadExe
  <2>1. walk.at = "exe" /\ walk'.at = "status" /\ walk'.ppid = walk.ppid
    BY <1>0, <1>5, ReadExeFields
  <2> QED
    BY <1>1, <1>3, <1>4, <2>1 DEF WayInv, Kept
<1>6. CASE OpenStatus
  <2>1. CASE Alive(walk.pid)
    <3>1. walk'.at = "fields"
      BY <1>0, <1>6, <2>1, OpenStatusFields
    <3>2. walk.pid \in used
      BY <2>1 DEF Counted, Alive
    <3> QED
      BY <1>1, <1>3, <1>4, <3>1, <3>2 DEF WayInv, Kept
  <2>2. CASE ~Alive(walk.pid) /\ walk.chain # <<>>
    <3>1. walk.at = "status" /\ walk'.at = "maps" /\ walk'.ppid = walk.ppid
      BY <1>0, <1>6, <2>2, OpenStatusFields
    <3>2. walk.ppid = walk.pid
      BY <2>2, <3>1 DEF WayInv
    <3> QED
      BY <1>1, <1>3, <1>4, <3>1, <3>2 DEF WayInv, Kept
  <2>3. CASE ~Alive(walk.pid) /\ walk.chain = <<>>
    <3>1. walk.at = "status" /\ walk'.at = "maps" /\ walk'.ppid \in Numbers
      BY <1>0, <1>6, <2>3, OpenStatusFields
    <3>2. walk.pid \in used
      BY <2>3, <3>1 DEF WayInv, Counted
    <3>3. Len(walk'.chain) = 0
      BY <1>1, <2>3, EmptySeq DEF Kept
    <3>4. walk'.ppid # walk.pid => Behind(walk.pid, walk'.ppid)
      BY <2>3, <3>2 DEF Behind
    <3>5. walk'.ppid # walk'.pid => Behind(walk.pid, walk.ppid)' /\ AllBehind(walk.ppid)'
      BY <1>1, <1>2, <3>3, <3>4 DEF AllBehind, Kept
    <3> QED
      BY <1>1, <1>3, <1>4, <3>1, <3>5 DEF WayInv, Kept
  <2> QED
    BY <2>1, <2>2, <2>3
<1>7. CASE ReadFields
  <2>1. walk.at = "fields" /\ walk'.at = "maps" /\ walk.pid \in used /\ walk.pid \in Pids
    BY <1>0, <1>7, ReadFieldsFields DEF WayInv
  <2>2. walk'.ppid # InitPid =>
           Behind(walk.pid, walk'.ppid) /\ \A v : Behind(v, walk.pid) => Behind(v, walk'.ppid)
    <3>1. CASE Alive(walk.pid)
      <4>1. walk'.ppid = proc[walk.pid].parent
        BY <1>0, <1>7, <3>1, ReadFieldsFields DEF Alive
      <4> QED
        BY <2>1, <3>1, <4>1, ParentAhead
    <3>2. CASE ~Alive(walk.pid)
      <4>1. walk'.ppid = Minus1
        BY <1>0, <1>7, <2>1, <3>2, ReadFieldsFields DEF Alive
      <4>2. Gone(Minus1) /\ \A v \in used : v # Minus1
        BY <1>0, ChainAssumption DEF Gone
      <4> QED
        BY <2>1, <4>1, <4>2 DEF Behind
    <3> QED
      BY <3>1, <3>2
  <2>3. walk'.ppid # InitPid => Behind(walk.pid, walk.ppid)' /\ AllBehind(walk.ppid)'
    BY <1>1, <1>2, <1>3, <2>2 DEF AllBehind, HasLeft, Kept
  <2> QED
    BY <1>1, <1>3, <1>4, <2>1, <2>3 DEF WayInv, Kept
<1>8. CASE ReadMaps
  <2>1. walk.at = "maps" /\ walk'.at = "push" /\ walk'.ppid = walk.ppid
    BY <1>0, <1>8, ReadMapsFields
  <2>2. walk.ppid \notin {walk.pid, InitPid} =>
           Behind(walk.pid, walk.ppid)' /\ AllBehind(walk.ppid)'
    BY <1>1, <1>2, <1>3, <2>1 DEF WayInv, AllBehind, HasLeft, Kept
  <2> QED
    BY <1>1, <1>3, <1>4, <2>1, <2>2 DEF WayInv, Kept
<1> QED
  BY <1>5, <1>6, <1>7, <1>8

LEMMA WayPush ==
  ASSUME TypeInv, WayInv, NoReuse, walk # Idle, Push
  PROVE  WayInv'
<1>0. DOMAIN walk = Fields /\ WalkOK
  BY DEF TypeInv, TypeOK
<1>1. /\ walk.at = "push" /\ proc' = proc /\ used' = used
      /\ walk'.chain = <<Record>> \o walk.chain
      /\ walk'.pid = walk.ppid /\ walk'.ppid = walk.ppid
      /\ walk.ppid = InitPid => walk'.at = "done"
      /\ walk.ppid # InitPid => walk'.at \in {"nomem", "exe"}
  BY <1>0, PushFields DEF world
<1>2. Record \in Records /\ Record.pid = walk.pid /\ Record.ppid = walk.ppid
  BY <1>0, <1>1 DEF WalkOK, Record, Records
<1>3. walk.chain \in Seq(Records) /\ Len(walk.chain) \in Nat
  BY <1>0 DEF WalkOK
<1>4. /\ Len(walk'.chain) = Len(walk.chain) + 1 /\ walk'.chain # <<>>
      /\ walk'.chain[1] = Record
      /\ \A i \in 1 .. Len(walk.chain) + 1 : i # 1 => walk'.chain[i] = walk.chain[i - 1]
  <2>1. <<Record>> \in Seq(Records) /\ Len(<<Record>>) = 1 /\ <<Record>>[1] = Record
    BY <1>2
  <2>2. /\ walk'.chain \in Seq(Records) /\ Len(walk'.chain) = 1 + Len(walk.chain)
        /\ \A i \in 1 .. 1 + Len(walk.chain) :
              walk'.chain[i] = IF i <= 1 THEN <<Record>>[i] ELSE walk.chain[i - 1]
    BY <1>1, <1>3, <2>1, ConcatProperties
  <2>3. walk'.chain # <<>>
    BY <1>3, <2>2, EmptySeq
  <2> QED
    BY <1>3, <2>1, <2>2, <2>3
<1>5. \A v, q : Behind(v, q)' <=> Behind(v, q)
  BY <1>1 DEF Behind, Gone, Alive
<1>6. ASSUME NEW i \in 1 .. Len(walk'.chain), NEW j \in 1 .. Len(walk'.chain), i < j,
             walk'.chain[i].pid = walk'.chain[j].pid
      PROVE  ~HasLeft(j)'
  <2>1. j # 1 /\ j - 1 \in 1 .. Len(walk.chain) /\ walk'.chain[j] = walk.chain[j - 1]
    BY <1>3, <1>4, <1>6
  <2>2. CASE i = 1
    <3>1. walk.chain[j - 1].pid = walk.pid /\ AllBehind(walk.pid)
      BY <1>1, <1>2, <1>4, <1>6, <2>1, <2>2 DEF WayInv
    <3>2. ~HasLeft(j - 1)
      BY <2>1, <3>1 DEF AllBehind, Behind
    <3> QED
      BY <2>1, <3>2 DEF HasLeft
  <2>3. CASE i # 1
    <3>1. i - 1 \in 1 .. Len(walk.chain) /\ i - 1 < j - 1 /\ walk'.chain[i] = walk.chain[i - 1]
      BY <1>3, <1>4, <1>6, <2>1, <2>3
    <3>2. ~HasLeft(j - 1)
      BY <1>6, <2>1, <3>1 DEF WayInv
    <3> QED
      BY <2>1, <3>2 DEF HasLeft
  <2> QED
    BY <2>2, <2>3
<1>7. ASSUME walk.ppid # InitPid, NEW i \in 1 .. Len(walk'.chain), HasLeft(i)'
      PROVE  Behind(walk'.chain[i].pid, walk.ppid)
  <2>1. CASE i = 1
    BY <1>1, <1>2, <1>4, <1>7, <2>1 DEF WayInv, HasLeft
  <2>2. CASE i # 1
    <3>1. i - 1 \in 1 .. Len(walk.chain) /\ walk'.chain[i] = walk.chain[i - 1] /\ HasLeft(i - 1)
      BY <1>3, <1>4, <1>7, <2>2 DEF HasLeft
    <3>2. AllBehind(walk.ppid)
      <4>1. CASE walk.ppid = walk.pid
        <5>1. AllBehind(walk.pid)
          BY <1>1 DEF WayInv
        <5> QED
          BY <4>1, <5>1
      <4>2. CASE walk.ppid # walk.pid
        BY <1>1, <1>7, <4>2 DEF WayInv
      <4> QED
        BY <4>1, <4>2
    <3> QED
      BY <3>1, <3>2 DEF AllBehind
  <2> QED
    BY <2>1, <2>2
<1>8. walk.ppid # InitPid => AllBehind(walk.pid)'
  BY <1>1, <1>5, <1>7 DEF AllBehind
<1> QED
  BY <1>1, <1>4, <1>6, <1>8 DEF WayInv

LEMMA WayStep ==
  ASSUME TypeInv, Counted, Family, Lines, WayInv, [Next]_vars
  PROVE  WayInv'
<1> SUFFICES ASSUME walk' # Idle, NoReuse' PROVE WayInv'
  BY DEF WayInv
<1>0. NoReuse
  BY WorldKeeps
<1>1. ASSUME walk # Idle,
             /\ walk'.at = walk.at /\ walk'.pid = walk.pid /\ walk'.ppid = walk.ppid
             /\ walk'.chain = walk.chain /\ walk'.subject = walk.subject
      PROVE  WayInv'
  <2>1. \A v, q : Behind(v, q) => Behind(v, q)'
    BY BehindStep
  <2>2. used \subseteq used'
    BY WorldKeeps
  <2>3. \A i : HasLeft(i)' <=> HasLeft(i)
    BY <1>1 DEF HasLeft
  <2>4. /\ AllBehind(walk.pid) => AllBehind(walk.pid)'
        /\ AllBehind(walk.ppid) => AllBehind(walk.ppid)'
        /\ Behind(walk.pid, walk.ppid) => Behind(walk.pid, walk.ppid)'
    BY <1>1, <2>1, <2>3 DEF AllBehind
  <2> QED
    BY <1>0, <1>1, <2>2, <2>3, <2>4 DEF WayInv
<1>2. CASE Others
  <2>1. walk # Idle
    BY <1>2, OthersMark DEF Touch
  <2> QED
    BY <1>1, <1>2, <2>1, OthersMark, MarkKeeps DEF TypeInv
<1>3. CASE walk # Idle /\ (ReadExe \/ OpenStatus \/ ReadFields \/ ReadMaps)
  BY <1>0, <1>3, WayRead
<1>4. CASE walk # Idle /\ Push
  BY <1>0, <1>4, WayPush
<1>5. ASSUME NEW p \in Pids, Begin(p) PROVE WayInv'
  <2>1. /\ walk'.at = "exe" /\ walk'.chain = <<>> /\ Len(walk'.chain) = 0
        /\ walk'.pid = p /\ walk'.subject = p
    BY <1>5, EmptySeq DEF Begin
  <2> QED
    BY <2>1 DEF WayInv, AllBehind
<1>6. CASE UNCHANGED walk
  BY <1>1, <1>6
<1>7. ~Return
  BY DEF Return
<1> QED
  BY <1>2, <1>3, <1>4, <1>5, <1>6, <1>7 DEF Next, Walk, Accept, vars

\* For any number of processes that fork, end and are given to init while the list is
\* made, and any memory: a pid that comes twice in the list is one that could not be
\* opened when it came first, so that a walk that meets none such ends.
THEOREM OnceCorrect == Spec => []VisitedOnce
<1>1. Init => WayInv
  BY DEF Init, WayInv
<1>2. TypeInv /\ AncestryInv /\ WayInv /\ [Next]_vars => WayInv'
  BY WayStep DEF AncestryInv
<1>3. TypeInv /\ WayInv => VisitedOnce
  <2> SUFFICES ASSUME TypeInv, WayInv, walk # Idle, NoReuse
               PROVE  \A i, j \in DOMAIN walk.chain :
                         i < j /\ walk.chain[i].pid = walk.chain[j].pid => ~HasLeft(j)
    BY DEF VisitedOnce, NoReuse, HasLeft
  <2>1. DOMAIN walk.chain = 1 .. Len(walk.chain)
    BY DEF TypeInv, TypeOK, WalkOK
  <2> QED
    BY <2>1 DEF WayInv
<1> QED
  BY <1>1, <1>2, <1>3, AncestryInit, TypeAlways, AncestryStep, PTL DEF Spec
=============================================================================
