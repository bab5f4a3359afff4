------------------------- MODULE MeasureCacheProofs -------------------------
(***************************************************************************)
(* Proofs about MeasureCache, for all sets of pids, programs, libraries    *)
(* and contents, all bounds and all faults.                                *)
(***************************************************************************)
EXTENDS MeasureCache, FiniteSetTheorems, TLAPS

-----------------------------------------------------------------------------
(* Functions on some of the libraries.                                     *)

Partial(S) == UNION {[L -> S] : L \in SUBSET Libs}

LEMMA PartialIntro ==
  ASSUME NEW S, NEW L \in SUBSET Libs, NEW f \in [L -> S]
  PROVE  f \in Partial(S)
BY DEF Partial

LEMMA PartialElim ==
  ASSUME NEW S, NEW f \in Partial(S)
  PROVE  DOMAIN f \in SUBSET Libs /\ f \in [DOMAIN f -> S]
BY DEF Partial

LEMMA MapSets ==
  /\ Maps = Partial(Contents)
  /\ Digests = Partial(Contents \cup {Zero})
  /\ Marks = Partial(BOOLEAN)
BY DEF Maps, Digests, Marks, Partial

\* A library is taken off the list.
LEMMA WithoutOne ==
  ASSUME NEW f \in Marks, NEW l
  PROVE  /\ Without(f, l) \in Marks
         /\ DOMAIN Without(f, l) = DOMAIN f \ {l}
<1>1. DOMAIN f \in SUBSET Libs /\ f \in [DOMAIN f -> BOOLEAN]
  BY MapSets, PartialElim
<1>2. Without(f, l) \in [DOMAIN f \ {l} -> BOOLEAN]
  BY <1>1 DEF Without
<1>3. DOMAIN f \ {l} \in SUBSET Libs
  BY <1>1
<1>4. Without(f, l) \in Marks
  BY <1>2, <1>3, PartialIntro, MapSets
<1> QED
  BY <1>4 DEF Without

\* A digest is added to the report.
LEMMA WithOne ==
  ASSUME NEW f \in Digests, NEW l \in Libs, NEW d \in Contents \cup {Zero}
  PROVE  /\ With(f, l, d) \in Digests
         /\ DOMAIN With(f, l, d) = DOMAIN f \cup {l}
         /\ With(f, l, d)[l] = d
         /\ \A k \in DOMAIN f \ {l} : With(f, l, d)[k] = f[k]
<1>1. DOMAIN f \in SUBSET Libs /\ f \in [DOMAIN f -> Contents \cup {Zero}]
  BY MapSets, PartialElim
<1>2. With(f, l, d) \in [DOMAIN f \cup {l} -> Contents \cup {Zero}]
  BY <1>1 DEF With
<1>3. DOMAIN f \cup {l} \in SUBSET Libs
  BY <1>1
<1>4. With(f, l, d) \in Digests
  BY <1>2, <1>3, PartialIntro, MapSets
<1> QED
  BY <1>1, <1>4 DEF With

LEMMA EmptyIsPartial == Empty \in Digests /\ Empty \in Marks /\ DOMAIN Empty = {}
<1>1. Empty \in [{} -> Contents \cup {Zero}] /\ Empty \in [{} -> BOOLEAN]
  BY DEF Empty
<1>2. {} \in SUBSET Libs
  OBVIOUS
<1>3. Empty \in Digests /\ Empty \in Marks
  BY <1>1, <1>2, PartialIntro, MapSets
<1> QED
  BY <1>3 DEF Empty

-----------------------------------------------------------------------------
(* Types.                                                                  *)

\* No digest of a library is reported before the list of maps is open, which is
\* why no library can be both on the list and in the report.
NoLibsYet ==
  job # Nothing /\ job.at \in {"exe", "path", "maps"} => DOMAIN job.libs = {}

TypeInv == TypeOK /\ NoLibsYet

\* What a program maps when it starts.
LEMMA ProcessType ==
  ASSUME disk \in [Files -> Contents], NEW x \in Exes
  PROVE  Process(x) \in Processes
<1> USE MeasureAssumption
<1> DEFINE m == [l \in Needs[x] |-> disk[l]]
<1>1. Needs[x] \in SUBSET Libs
  OBVIOUS
<1>2. \A l \in Needs[x] : disk[l] \in Contents
  BY <1>1 DEF Files
<1>3. m \in [Needs[x] -> Contents]
  BY <1>2
<1>4. m \in Maps
  BY <1>1, <1>3, PartialIntro, MapSets
<1>5. disk[x] \in Contents
  BY DEF Files
<1>6. {} \in SUBSET Files
  OBVIOUS
<1> QED
  BY <1>4, <1>5, <1>6 DEF Process, Processes

LEMMA NoneIsNotAProcess == None \notin Processes
BY MeasureAssumption DEF Processes, Maps

LEMMA NothingIsNotAJob == Nothing \notin Jobs
BY DEF Nothing, Jobs

LEMMA InitType == Init => TypeInv
<1> SUFFICES ASSUME Init PROVE TypeInv
  OBVIOUS
<1> USE MeasureAssumption DEF Init
<1>1. disk \in [Files -> Contents] /\ used \subseteq Pids
  OBVIOUS
<1>2. proc \in [Pids -> Processes \cup {None}]
  OBVIOUS
<1>3. starts \in 0 .. MaxStarts /\ upgrades \in 0 .. MaxUpgrades
  OBVIOUS
<1>4. table \in [Keys -> Contents \cup {Absent, Zero}]
  OBVIOUS
<1> QED
  BY <1>1, <1>2, <1>3, <1>4 DEF TypeInv, TypeOK, NoLibsYet

\* A step of the world: the job is as it was, or is no longer clean.
Disturbed(p) ==
  job' = IF job # Nothing /\ job.pid = p THEN [job EXCEPT !.clean = FALSE] ELSE job

LEMMA DisturbedType ==
  ASSUME TypeInv, NEW p, Disturbed(p)
  PROVE  /\ job' = Nothing \/ job' \in Jobs
         /\ job' # Nothing => DOMAIN job'.todo \cap DOMAIN job'.libs = {}
         /\ NoLibsYet'
<1>1. CASE job' = job
  BY <1>1 DEF TypeInv, TypeOK, NoLibsYet, Nothing
<1>2. CASE job # Nothing /\ job' = [job EXCEPT !.clean = FALSE]
  <2>1. job \in Jobs
    BY <1>2 DEF TypeInv, TypeOK
  <2>2. /\ job' \in Jobs /\ job'.todo = job.todo /\ job'.libs = job.libs
        /\ job'.at = job.at
    BY <1>2, <2>1 DEF Jobs
  <2> QED
    BY <1>2, <2>2 DEF TypeInv, TypeOK, NoLibsYet
<1> QED
  BY <1>1, <1>2 DEF Disturbed

LEMMA StartType ==
  ASSUME TypeInv, NEW p \in Pids, NEW x \in Exes, Start(p, x)
  PROVE  TypeInv'
<1>1. Process(x) \in Processes
  BY ProcessType DEF TypeInv, TypeOK
<1>2. proc' \in [Pids -> Processes \cup {None}]
  BY <1>1 DEF TypeInv, TypeOK, Start
<1>3. starts' \in 0 .. MaxStarts /\ used' \subseteq Pids
  BY MeasureAssumption DEF TypeInv, TypeOK, Start
<1>4. UNCHANGED <<disk, upgrades, table, job, report>>
  BY DEF Start
<1> QED
  BY <1>2, <1>3, <1>4 DEF TypeInv, TypeOK, NoLibsYet, Nothing

LEMMA ExitType ==
  ASSUME TypeInv, NEW p \in Pids, Exit(p)
  PROVE  TypeInv'
<1>1. Disturbed(p)
  BY DEF Exit, Disturbed
<1>2. proc' \in [Pids -> Processes \cup {None}]
  BY DEF TypeInv, TypeOK, Exit
<1>3. UNCHANGED <<disk, used, starts, upgrades, table, report>>
  BY DEF Exit
<1> QED
  BY <1>1, <1>2, <1>3, DisturbedType DEF TypeInv, TypeOK

LEMMA ExecType ==
  ASSUME TypeInv, NEW p \in Pids, NEW x \in Exes, Exec(p, x)
  PROVE  TypeInv'
<1>1. Disturbed(p)
  BY DEF Exec, Disturbed
<1>2. Process(x) \in Processes
  BY ProcessType DEF TypeInv, TypeOK
<1>3. proc' \in [Pids -> Processes \cup {None}]
  BY <1>2 DEF TypeInv, TypeOK, Exec
<1>4. starts' \in 0 .. MaxStarts
  BY MeasureAssumption DEF TypeInv, TypeOK, Exec
<1>5. UNCHANGED <<disk, used, upgrades, table, report>>
  BY DEF Exec
<1> QED
  BY <1>1, <1>3, <1>4, <1>5, DisturbedType DEF TypeInv, TypeOK

LEMMA UpgradeType ==
  ASSUME TypeInv, NEW f \in Files, NEW v \in Contents, Upgrade(f, v)
  PROVE  TypeInv'
<1>1. ASSUME NEW p \in Pids
      PROVE  proc'[p] \in Processes \cup {None}
  <2>1. proc[p] \in Processes \cup {None}
    BY DEF TypeInv, TypeOK
  <2>2. CASE proc'[p] = [proc[p] EXCEPT !.replaced = @ \cup {f}] /\ proc[p] # None
    BY <2>1, <2>2 DEF Processes
  <2>3. CASE proc'[p] = proc[p]
    BY <2>1, <2>3
  <2> QED
    BY <2>2, <2>3 DEF Upgrade
<1>2. proc' \in [Pids -> Processes \cup {None}]
  <2>1. proc' = [p \in Pids |-> proc'[p]]
    BY DEF Upgrade
  <2> QED
    BY <1>1, <2>1
<1>3. disk' \in [Files -> Contents] /\ upgrades' \in 0 .. MaxUpgrades
  BY MeasureAssumption DEF TypeInv, TypeOK, Upgrade
<1>4. UNCHANGED <<used, starts, table, job, report>>
  BY DEF Upgrade
<1> QED
  BY <1>2, <1>3, <1>4 DEF TypeInv, TypeOK, NoLibsYet, Nothing

LEMMA BeginType ==
  ASSUME TypeInv, NEW p \in Pids, Begin(p)
  PROVE  TypeInv'
<1>1. PICK left \in {[digest |-> Garbage, path |-> Garbage]} \cup
                    (IF report = None THEN {}
                     ELSE {[digest |-> report.left, path |-> report.path]}) :
        job' = [at |-> "exe", pid |-> p, subject |-> proc[p], clean |-> TRUE, fresh |-> TRUE,
                digest |-> left.digest, path |-> left.path, todo |-> Empty, libs |-> Empty]
  BY DEF Begin
<1>2. left.digest \in Contents \cup {Zero, Garbage} /\ left.path \in Paths
  BY <1>1 DEF TypeInv, TypeOK, Reports, Paths
<1>3. proc[p] \in Processes
  BY DEF Begin, TypeInv, TypeOK
<1>4. job' \in Jobs
  BY <1>1, <1>2, <1>3, EmptyIsPartial DEF Jobs
<1>5. DOMAIN job'.libs = {}
  BY <1>1, EmptyIsPartial
<1>6. UNCHANGED <<disk, proc, used, starts, upgrades, table, report>>
  BY DEF Begin, worldVars
<1> QED
  BY <1>4, <1>5, <1>6 DEF TypeInv, TypeOK, NoLibsYet

\* The table only gets digests of files, or entries that are not filled.
LEMMA FillType ==
  ASSUME TypeInv, NEW k \in Keys, NEW d \in Contents \cup {Zero}, Fill(k, d) \/ Hit(k)
  PROVE  table' \in [Keys -> Contents \cup {Absent, Zero}]
BY DEF TypeInv, TypeOK, Fill, Hit

LEMMA MeasureExeType ==
  ASSUME TypeInv, MeasureExe
  PROVE  TypeInv'
<1> DEFINE p == job.pid
<1>1. job # Nothing /\ job.at = "exe" /\ job \in Jobs
  BY DEF MeasureExe, TypeInv, TypeOK
<1>2. p \in Pids /\ p \in Keys
  BY <1>1 DEF Jobs, Keys
<1>3. \/ Hit(p) /\ job' = [job EXCEPT !.at = "path", !.digest = table[p], !.fresh = FALSE]
      \/ /\ proc[p] # None /\ Fill(p, ImageRead(p))
         /\ job' = [job EXCEPT !.at = "path", !.digest = ImageRead(p)]
      \/ Fill(p, Zero) /\ job' = [job EXCEPT !.at = "maps", !.clean = FALSE]
  BY DEF MeasureExe
<1>4. proc[p] # None => ImageRead(p) \in Contents
  BY <1>2 DEF TypeInv, TypeOK, ImageRead, Processes
<1>5. Hit(p) => table[p] \in Contents \cup {Zero}
  BY <1>2 DEF TypeInv, TypeOK, Hit
<1>6. table' \in [Keys -> Contents \cup {Absent, Zero}]
  BY <1>2, <1>3, <1>4, FillType
<1>7. /\ job' \in Jobs /\ job'.at \in {"path", "maps"}
      /\ job'.libs = job.libs /\ job'.todo = job.todo
  <2>1. CASE Hit(p) /\ job' = [job EXCEPT !.at = "path", !.digest = table[p], !.fresh = FALSE]
    BY <1>1, <1>5, <2>1 DEF Jobs
  <2>2. CASE proc[p] # None /\ job' = [job EXCEPT !.at = "path", !.digest = ImageRead(p)]
    BY <1>1, <1>4, <2>2 DEF Jobs
  <2>3. CASE job' = [job EXCEPT !.at = "maps", !.clean = FALSE]
    BY <1>1, <2>3 DEF Jobs
  <2> QED
    BY <1>3, <2>1, <2>2, <2>3
<1>8. DOMAIN job.libs = {}
  BY <1>1 DEF TypeInv, NoLibsYet
<1>9. UNCHANGED <<disk, proc, used, starts, upgrades, report>>
  BY DEF MeasureExe, worldVars
<1> QED
  BY <1>6, <1>7, <1>8, <1>9 DEF TypeInv, TypeOK, NoLibsYet

LEMMA ReadPathType ==
  ASSUME TypeInv, ReadPath
  PROVE  TypeInv'
<1> DEFINE q == proc[job.pid]
           path == IF q = None THEN job.path ELSE <<q.exe, q.exe \in q.replaced>>
<1>1. job # Nothing /\ job.at = "path" /\ job \in Jobs
  BY DEF ReadPath, TypeInv, TypeOK
<1>2. q \in Processes \cup {None}
  BY <1>1 DEF TypeInv, TypeOK, Jobs
<1>3. path \in Paths
  <2>1. CASE q = None
    BY <1>1, <2>1 DEF Jobs
  <2>2. CASE q # None
    <3>1. q.exe \in Exes /\ (q.exe \in q.replaced) \in BOOLEAN
      BY <1>2, <2>2 DEF Processes
    <3> QED
      BY <2>2, <3>1 DEF Paths
  <2> QED
    BY <2>1, <2>2
<1>4. job' = [job EXCEPT !.at = "maps", !.path = path]
  BY DEF ReadPath
<1>5. job' \in Jobs /\ job'.libs = job.libs /\ job'.todo = job.todo
  BY <1>1, <1>3, <1>4 DEF Jobs
<1>6. DOMAIN job.libs = {}
  BY <1>1 DEF TypeInv, NoLibsYet
<1>7. UNCHANGED <<disk, proc, used, starts, upgrades, table, report>>
  BY DEF ReadPath, worldVars
<1> QED
  BY <1>5, <1>6, <1>7 DEF TypeInv, TypeOK, NoLibsYet

\* The list of the libraries that a process maps.
LEMMA ListType ==
  ASSUME NEW q \in Processes
  PROVE  [l \in DOMAIN q.maps |-> l \in q.replaced] \in Marks
<1>1. DOMAIN q.maps \in SUBSET Libs
  BY PartialElim, MapSets DEF Processes
<1>2. [l \in DOMAIN q.maps |-> l \in q.replaced] \in [DOMAIN q.maps -> BOOLEAN]
  OBVIOUS
<1> QED
  BY <1>1, <1>2, PartialIntro, MapSets

LEMMA OpenMapsType ==
  ASSUME TypeInv, OpenMaps
  PROVE  TypeInv'
<1> DEFINE q == proc[job.pid]
           list == [l \in DOMAIN q.maps |-> l \in q.replaced]
<1>1. job # Nothing /\ job.at = "maps" /\ job \in Jobs
  BY DEF OpenMaps, TypeInv, TypeOK
<1>2. q \in Processes \cup {None}
  BY <1>1 DEF TypeInv, TypeOK, Jobs
<1>3. q # None => list \in Marks
  BY <1>2, ListType
<1>4. \/ job' = [job EXCEPT !.at = "nomaps"]
      \/ q # None /\ job' = [job EXCEPT !.at = "libs", !.todo = list]
  BY DEF OpenMaps
<1>5. job' \in Jobs /\ job'.libs = job.libs /\ job'.at \in {"nomaps", "libs"}
  <2> HIDE DEF list
  <2> QED
    BY <1>1, <1>3, <1>4 DEF Jobs
<1>6. DOMAIN job.libs = {}
  BY <1>1 DEF TypeInv, NoLibsYet
<1>7. UNCHANGED <<disk, proc, used, starts, upgrades, table, report>>
  BY DEF OpenMaps, worldVars
<1> QED
  BY <1>5, <1>6, <1>7 DEF TypeInv, TypeOK, NoLibsYet

\* What a step on library l does to the job.
Measured(l, d, c, f) ==
  job' = [job EXCEPT !.todo = Without(@, l), !.libs = With(@, l, d),
                     !.clean = c, !.fresh = f]
PassedOver(l) == job' = [job EXCEPT !.todo = Without(@, l), !.clean = FALSE]

\* The three outcomes of MeasureLib.
LEMMA MeasureLibCases ==
  ASSUME TypeInv, NEW l, MeasureLib(l)
  PROVE  /\ job # Nothing /\ job \in Jobs /\ job.at = "libs" /\ l \in DOMAIN job.todo
         /\ l \in Libs /\ <<l, job.todo[l]>> \in Keys
         /\ \/ /\ Hit(<<l, job.todo[l]>>)
               /\ table[<<l, job.todo[l]>>] \in Contents \cup {Zero}
               /\ Measured(l, table[<<l, job.todo[l]>>], job.clean, FALSE)
            \/ /\ proc[job.pid] # None /\ l \in DOMAIN proc[job.pid].maps
               /\ LibRead(job.pid, l) \in Contents
               /\ Fill(<<l, job.todo[l]>>, LibRead(job.pid, l))
               /\ Measured(l, LibRead(job.pid, l), job.clean, job.fresh)
            \/ Fill(<<l, job.todo[l]>>, Zero) /\ PassedOver(l)
<1> DEFINE p == job.pid
           k == <<l, job.todo[l]>>
           next == [job EXCEPT !.todo = Without(@, l)]
<1>1. job # Nothing /\ job \in Jobs /\ job.at = "libs" /\ l \in DOMAIN job.todo
  BY DEF MeasureLib, TypeInv, TypeOK
<1>2. job.todo \in Marks
  BY <1>1 DEF Jobs
<1>3. l \in Libs /\ job.todo[l] \in BOOLEAN
  BY <1>1, <1>2, MapSets, PartialElim
<1>4. k \in Keys
  BY <1>3 DEF Keys, Names
<1>5. \/ Hit(k) /\ job' = [next EXCEPT !.libs = With(@, l, table[k]), !.fresh = FALSE]
      \/ /\ proc[p] # None /\ l \in DOMAIN proc[p].maps
         /\ Fill(k, LibRead(p, l)) /\ job' = [next EXCEPT !.libs = With(@, l, LibRead(p, l))]
      \/ Fill(k, Zero) /\ job' = [next EXCEPT !.clean = FALSE]
  BY DEF MeasureLib
<1>6. CASE Hit(k) /\ job' = [next EXCEPT !.libs = With(@, l, table[k]), !.fresh = FALSE]
  <2>1. table[k] \in Contents \cup {Zero}
    BY <1>4, <1>6 DEF Hit, TypeInv, TypeOK
  <2>2. Measured(l, table[k], job.clean, FALSE)
    BY <1>1, <1>6 DEF Measured, Jobs
  <2> QED
    BY <1>1, <1>3, <1>4, <1>6, <2>1, <2>2
<1>7. CASE /\ proc[p] # None /\ l \in DOMAIN proc[p].maps
           /\ Fill(k, LibRead(p, l)) /\ job' = [next EXCEPT !.libs = With(@, l, LibRead(p, l))]
  <2>1. p \in Pids
    BY <1>1 DEF Jobs
  <2>2. proc[p].maps \in Maps
    BY <1>7, <2>1 DEF TypeInv, TypeOK, Processes
  <2>3. LibRead(p, l) \in Contents
    BY <1>7, <2>2, MapSets, PartialElim DEF LibRead
  <2>4. Measured(l, LibRead(p, l), job.clean, job.fresh)
    BY <1>1, <1>7 DEF Measured, Jobs
  <2> QED
    BY <1>1, <1>3, <1>4, <1>7, <2>3, <2>4
<1>8. CASE Fill(k, Zero) /\ job' = [next EXCEPT !.clean = FALSE]
  <2>1. PassedOver(l)
    BY <1>1, <1>8 DEF PassedOver, Jobs
  <2> QED
    BY <1>1, <1>3, <1>4, <1>8, <2>1
<1> QED
  BY <1>5, <1>6, <1>7, <1>8

\* The job after a library has been measured.
LEMMA MeasuredJob ==
  ASSUME job \in Jobs, NEW l \in Libs, NEW d \in Contents \cup {Zero},
         NEW c \in BOOLEAN, NEW f \in BOOLEAN, Measured(l, d, c, f)
  PROVE  /\ job' \in Jobs /\ job'.todo = Without(job.todo, l)
         /\ job'.libs = With(job.libs, l, d) /\ job'.at = job.at
         /\ job'.pid = job.pid /\ job'.subject = job.subject
         /\ job'.clean = c /\ job'.fresh = f
         /\ job'.digest = job.digest /\ job'.path = job.path
<1>1. Without(job.todo, l) \in Marks /\ With(job.libs, l, d) \in Digests
  BY WithoutOne, WithOne DEF Jobs
<1> QED
  BY <1>1 DEF Measured, Jobs

LEMMA PassedOverJob ==
  ASSUME job \in Jobs, NEW l \in Libs, PassedOver(l)
  PROVE  /\ job' \in Jobs /\ job'.todo = Without(job.todo, l)
         /\ job'.libs = job.libs /\ job'.at = job.at /\ job'.clean = FALSE
<1>1. Without(job.todo, l) \in Marks
  BY WithoutOne DEF Jobs
<1> QED
  BY <1>1 DEF PassedOver, Jobs

LEMMA MeasureLibType ==
  ASSUME TypeInv, NEW l \in Libs, MeasureLib(l)
  PROVE  TypeInv'
<1> DEFINE k == <<l, job.todo[l]>>
<1>1. /\ job # Nothing /\ job \in Jobs /\ job.at = "libs" /\ l \in DOMAIN job.todo
      /\ k \in Keys
      /\ job.clean \in BOOLEAN /\ job.fresh \in BOOLEAN
  BY MeasureLibCases DEF Jobs
<1>2. DOMAIN job.todo \cap DOMAIN job.libs = {}
  BY <1>1 DEF TypeInv, TypeOK
<1>3. job.todo \in Marks /\ job.libs \in Digests
  BY <1>1 DEF Jobs
<1>4. /\ table' \in [Keys -> Contents \cup {Absent, Zero}]
      /\ job' \in Jobs /\ job'.at = "libs"
      /\ DOMAIN job'.todo \cap DOMAIN job'.libs = {}
  <2>1. ASSUME NEW d \in Contents \cup {Zero}, NEW f \in BOOLEAN,
               Measured(l, d, job.clean, f), Fill(k, d) \/ Hit(k)
        PROVE  <1>4!1 /\ <1>4!2 /\ <1>4!3
    <3>1. <1>4!1
      BY <1>1, <2>1, FillType
    <3>2. /\ job' \in Jobs /\ job'.at = job.at
          /\ job'.todo = Without(job.todo, l) /\ job'.libs = With(job.libs, l, d)
      BY <1>1, <2>1, MeasuredJob
    <3>3. DOMAIN job'.todo = DOMAIN job.todo \ {l} /\ DOMAIN job'.libs = DOMAIN job.libs \cup {l}
      BY <1>3, <3>2, WithoutOne, WithOne
    <3> QED
      BY <1>1, <1>2, <3>1, <3>2, <3>3
  <2>2. CASE Fill(k, Zero) /\ PassedOver(l)
    <3>1. table' \in [Keys -> Contents \cup {Absent, Zero}]
      BY <1>1, <2>2, FillType
    <3>2. /\ job' \in Jobs /\ job'.at = job.at
          /\ job'.todo = Without(job.todo, l) /\ job'.libs = job.libs
      BY <1>1, <2>2, PassedOverJob
    <3>3. DOMAIN job'.todo = DOMAIN job.todo \ {l}
      BY <1>3, <3>2, WithoutOne
    <3> QED
      BY <1>1, <1>2, <3>1, <3>2, <3>3
  <2> QED
    BY <1>1, <2>1, <2>2, MeasureLibCases
<1>5. UNCHANGED <<disk, proc, used, starts, upgrades, report>>
  BY DEF MeasureLib, worldVars
<1> QED
  BY <1>4, <1>5 DEF TypeInv, TypeOK, NoLibsYet

LEMMA FinishType ==
  ASSUME TypeInv, Finish
  PROVE  TypeInv'
<1>1. job # Nothing /\ job \in Jobs
  BY DEF Finish, TypeInv, TypeOK
<1>2. report' \in Reports
  BY <1>1 DEF Finish, Jobs, Reports
<1>3. job' = Nothing /\ UNCHANGED <<disk, proc, used, starts, upgrades, table>>
  BY DEF Finish, worldVars
<1> QED
  BY <1>2, <1>3 DEF TypeInv, TypeOK, NoLibsYet

LEMMA TypeStep == TypeInv /\ [Next]_vars => TypeInv'
<1> SUFFICES ASSUME TypeInv, [Next]_vars PROVE TypeInv'
  OBVIOUS
<1>1. ASSUME NEW p \in Pids, NEW x \in Exes, Start(p, x) \/ Exec(p, x) PROVE TypeInv'
  BY <1>1, StartType, ExecType
<1>2. ASSUME NEW p \in Pids, Exit(p) \/ Begin(p) PROVE TypeInv'
  BY <1>2, ExitType, BeginType
<1>3. ASSUME NEW f \in Files, NEW v \in Contents, Upgrade(f, v) PROVE TypeInv'
  BY <1>3, UpgradeType
<1>4. CASE MeasureExe \/ ReadPath \/ OpenMaps \/ Finish
  BY <1>4, MeasureExeType, ReadPathType, OpenMapsType, FinishType
<1>5. ASSUME NEW l \in Libs, MeasureLib(l) PROVE TypeInv'
  BY <1>5, MeasureLibType
<1>6. CASE UNCHANGED vars
  BY <1>6 DEF vars, worldVars, TypeInv, TypeOK, NoLibsYet, Nothing
<1> QED
  BY <1>1, <1>2, <1>3, <1>4, <1>5, <1>6 DEF Next

\* Every variable has the values it may have, and no library is measured twice in
\* one call (TypeOK).
THEOREM TypeCorrect == Spec => []TypeOK
<1>1. TypeInv => TypeOK
  BY DEF TypeInv
<1> QED
  BY <1>1, InitType, TypeStep, PTL DEF Spec

-----------------------------------------------------------------------------
(* Reports without an old entry.                                           *)

\* While nothing has happened to the process and nothing has failed, it is the
\* one the call is about; and what the job has is true of it unless it came from
\* the table.
FollowsSubject ==
  job # Nothing /\ job.clean =>
    /\ proc[job.pid] # None
    /\ proc[job.pid].exe = job.subject.exe
    /\ proc[job.pid].image = job.subject.image
    /\ proc[job.pid].maps = job.subject.maps
    /\ job.at # "nomaps"
    /\ job.at \in {"maps", "libs"} => job.path[1] = job.subject.exe
    /\ job.at # "exe" /\ job.fresh => job.digest = job.subject.image

\* The libraries are those still on the list and those in the report.
FollowsLibs ==
  job # Nothing /\ job.clean /\ job.at = "libs" =>
    /\ DOMAIN job.todo \cup DOMAIN job.libs = DOMAIN job.subject.maps
    /\ job.fresh => \A l \in DOMAIN job.libs : job.libs[l] = job.subject.maps[l]

FreshInv == TypeInv /\ FollowsSubject /\ FollowsLibs /\ FreshIsTrue

\* What the world does: the job is the same, or no longer clean, and a process
\* under measurement keeps what it has mapped.
LEMMA FreshWorld ==
  ASSUME FreshInv, UNCHANGED report,
         \/ /\ job' = job
            /\ \A p \in Pids : proc[p] # None =>
                 /\ proc'[p] # None
                 /\ proc'[p].exe = proc[p].exe /\ proc'[p].image = proc[p].image
                 /\ proc'[p].maps = proc[p].maps
         \/ \E p \in Pids : Disturbed(p) /\ \A q \in Pids \ {p} : proc'[q] = proc[q]
  PROVE  FollowsSubject' /\ FollowsLibs' /\ FreshIsTrue'
<1>1. job # Nothing => job \in Jobs /\ job.pid \in Pids
  BY DEF FreshInv, TypeInv, TypeOK, Jobs
<1>2. FreshIsTrue'
  BY DEF FreshInv, FreshIsTrue, Clean, ExeIsTrue, LibsAreTrue
<1>3. CASE /\ job' = job
           /\ \A p \in Pids : proc[p] # None =>
                /\ proc'[p] # None
                /\ proc'[p].exe = proc[p].exe /\ proc'[p].image = proc[p].image
                /\ proc'[p].maps = proc[p].maps
  BY <1>1, <1>2, <1>3 DEF FreshInv, FollowsSubject, FollowsLibs, Nothing
<1>4. ASSUME NEW p \in Pids, Disturbed(p), \A q \in Pids \ {p} : proc'[q] = proc[q]
      PROVE  FollowsSubject' /\ FollowsLibs'
  <2>1. CASE job # Nothing /\ job.pid = p
    <3>1. job' = [job EXCEPT !.clean = FALSE]
      BY <1>4, <2>1 DEF Disturbed
    <3>2. job'.clean = FALSE
      BY <1>1, <2>1, <3>1 DEF Jobs
    <3> QED
      BY <3>2 DEF FollowsSubject, FollowsLibs
  <2>2. CASE ~(job # Nothing /\ job.pid = p)
    <3>1. job' = job
      BY <1>4, <2>2 DEF Disturbed
    <3>2. job # Nothing => proc'[job.pid] = proc[job.pid]
      BY <1>1, <1>4, <2>2
    <3> QED
      BY <3>1, <3>2 DEF FreshInv, FollowsSubject, FollowsLibs, Nothing
  <2> QED
    BY <2>1, <2>2
<1> QED
  BY <1>2, <1>3, <1>4

LEMMA FreshBegin ==
  ASSUME FreshInv, NEW p \in Pids, Begin(p)
  PROVE  FollowsSubject' /\ FollowsLibs' /\ FreshIsTrue'
<1>1. /\ job'.at = "exe" /\ job'.pid = p /\ job'.subject = proc[p]
      /\ proc[p] # None /\ proc' = proc /\ report' = report
  BY DEF Begin, worldVars
<1> QED
  BY <1>1 DEF FreshInv, FollowsSubject, FollowsLibs, FreshIsTrue, Clean, ExeIsTrue, LibsAreTrue

LEMMA FreshMeasureExe ==
  ASSUME FreshInv, MeasureExe
  PROVE  FollowsSubject' /\ FollowsLibs' /\ FreshIsTrue'
<1> DEFINE p == job.pid
<1>1. job # Nothing /\ job.at = "exe" /\ job \in Jobs
  BY DEF MeasureExe, FreshInv, TypeInv, TypeOK
<1>2. proc' = proc /\ report' = report
  BY DEF MeasureExe, worldVars
<1>3. \/ job' = [job EXCEPT !.at = "path", !.digest = table[p], !.fresh = FALSE]
      \/ job' = [job EXCEPT !.at = "path", !.digest = proc[p].image]
      \/ job' = [job EXCEPT !.at = "maps", !.clean = FALSE]
  BY DEF MeasureExe, ImageRead
<1>4. /\ job'.pid = p /\ job'.subject = job.subject
      /\ job'.clean => job.clean /\ job'.at = "path"
      /\ job'.clean /\ job'.fresh => job'.digest = proc[p].image
      /\ job'.at # "libs"
  BY <1>1, <1>3 DEF Jobs
<1>5. FollowsSubject'
  BY <1>1, <1>2, <1>4 DEF FreshInv, FollowsSubject
<1>6. FollowsLibs'
  BY <1>4 DEF FollowsLibs
<1> QED
  BY <1>2, <1>5, <1>6 DEF FreshInv, FreshIsTrue, Clean, ExeIsTrue, LibsAreTrue

LEMMA FreshReadPath ==
  ASSUME FreshInv, ReadPath
  PROVE  FollowsSubject' /\ FollowsLibs' /\ FreshIsTrue'
<1> DEFINE q == proc[job.pid]
           path == IF q = None THEN job.path ELSE <<q.exe, q.exe \in q.replaced>>
<1>1. job # Nothing /\ job.at = "path" /\ job \in Jobs
  BY DEF ReadPath, FreshInv, TypeInv, TypeOK
<1>2. proc' = proc /\ report' = report
  BY DEF ReadPath, worldVars
<1>3. job' = [job EXCEPT !.at = "maps", !.path = path]
  BY DEF ReadPath
<1>4. /\ job'.pid = job.pid /\ job'.subject = job.subject /\ job'.clean = job.clean
      /\ job'.fresh = job.fresh /\ job'.digest = job.digest
      /\ job'.at = "maps" /\ job'.path = path
  <2> HIDE DEF path
  <2> QED
    BY <1>1, <1>3 DEF Jobs
<1>5. q # None => path[1] = q.exe
  OBVIOUS
<1>6. FollowsSubject'
  <2> HIDE DEF path
  <2> QED
    BY <1>1, <1>2, <1>4, <1>5 DEF FreshInv, FollowsSubject
<1>7. FollowsLibs'
  BY <1>4 DEF FollowsLibs
<1> QED
  BY <1>2, <1>6, <1>7 DEF FreshInv, FreshIsTrue, Clean, ExeIsTrue, LibsAreTrue

LEMMA FreshOpenMaps ==
  ASSUME FreshInv, OpenMaps
  PROVE  FollowsSubject' /\ FollowsLibs' /\ FreshIsTrue'
<1> DEFINE q == proc[job.pid]
           list == [l \in DOMAIN q.maps |-> l \in q.replaced]
<1>1. job # Nothing /\ job.at = "maps" /\ job \in Jobs
  BY DEF OpenMaps, FreshInv, TypeInv, TypeOK
<1>2. proc' = proc /\ report' = report
  BY DEF OpenMaps, worldVars
<1>3. IF q = None THEN job' = [job EXCEPT !.at = "nomaps"]
                  ELSE job' = [job EXCEPT !.at = "libs", !.todo = list]
  BY DEF OpenMaps
<1>4. /\ job'.pid = job.pid /\ job'.subject = job.subject /\ job'.clean = job.clean
      /\ job'.fresh = job.fresh /\ job'.digest = job.digest
      /\ job'.path = job.path /\ job'.libs = job.libs
      /\ q = None => job'.at = "nomaps"
      /\ q # None => job'.at = "libs" /\ job'.todo = list
  <2> HIDE DEF list
  <2> QED
    BY <1>1, <1>3 DEF Jobs
<1>5. FollowsSubject'
  <2> HIDE DEF list
  <2> QED
    BY <1>1, <1>2, <1>4 DEF FreshInv, FollowsSubject
<1>6. DOMAIN job.libs = {}
  BY <1>1 DEF FreshInv, TypeInv, NoLibsYet
<1>7. DOMAIN list = DOMAIN q.maps
  OBVIOUS
<1>8. FollowsLibs'
  <2>1. CASE q = None
    BY <1>4, <2>1 DEF FollowsLibs
  <2>2. CASE q # None
    <3>1. job.clean => q.maps = job.subject.maps
      BY <1>1, <2>2 DEF FreshInv, FollowsSubject
    <3> HIDE DEF list
    <3> QED
      BY <1>4, <1>6, <1>7, <2>2, <3>1 DEF FollowsLibs
  <2> QED
    BY <2>1, <2>2
<1> QED
  BY <1>2, <1>5, <1>8 DEF FreshInv, FreshIsTrue, Clean, ExeIsTrue, LibsAreTrue

LEMMA FreshMeasureLib ==
  ASSUME FreshInv, NEW l \in Libs, MeasureLib(l)
  PROVE  FollowsSubject' /\ FollowsLibs' /\ FreshIsTrue'
<1> DEFINE k == <<l, job.todo[l]>>
           p == job.pid
<1>1. TypeInv
  BY DEF FreshInv
<1>2. /\ job # Nothing /\ job \in Jobs /\ job.at = "libs" /\ l \in DOMAIN job.todo
      /\ job.clean \in BOOLEAN /\ job.fresh \in BOOLEAN
      /\ job.todo \in Marks /\ job.libs \in Digests
  BY <1>1, MeasureLibCases DEF Jobs
<1>3. proc' = proc /\ report' = report
  BY DEF MeasureLib, worldVars
<1>4. ASSUME NEW d \in Contents \cup {Zero}, NEW f \in BOOLEAN,
             Measured(l, d, job.clean, f),
             f => job.fresh /\ proc[p] # None /\ d = proc[p].maps[l]
      PROVE  FollowsSubject' /\ FollowsLibs'
  <2>1. /\ job'.todo = Without(job.todo, l) /\ job'.libs = With(job.libs, l, d)
        /\ job'.at = job.at /\ job'.pid = p /\ job'.subject = job.subject
        /\ job'.clean = job.clean /\ job'.fresh = f
        /\ job'.digest = job.digest /\ job'.path = job.path
    BY <1>2, <1>4, MeasuredJob
  <2>2. FollowsSubject'
    BY <1>2, <1>3, <1>4, <2>1 DEF FreshInv, FollowsSubject
  <2>3. /\ DOMAIN job'.todo = DOMAIN job.todo \ {l}
        /\ DOMAIN job'.libs = DOMAIN job.libs \cup {l}
        /\ job'.libs[l] = d
        /\ \A m \in DOMAIN job.libs \ {l} : job'.libs[m] = job.libs[m]
    <3>1. DOMAIN Without(job.todo, l) = DOMAIN job.todo \ {l}
      BY <1>2, WithoutOne
    <3>2. /\ DOMAIN With(job.libs, l, d) = DOMAIN job.libs \cup {l}
          /\ With(job.libs, l, d)[l] = d
          /\ \A m \in DOMAIN job.libs \ {l} : With(job.libs, l, d)[m] = job.libs[m]
      BY DEF With
    <3>3. job'.todo = Without(job.todo, l) /\ job'.libs = With(job.libs, l, d)
      BY <2>1
    <3> HIDE DEF k, p
    <3> QED
      BY <3>1, <3>2, <3>3, Zenon
  <2>4. SUFFICES ASSUME job'.clean
                 PROVE  /\ DOMAIN job'.todo \cup DOMAIN job'.libs = DOMAIN job'.subject.maps
                        /\ job'.fresh => \A m \in DOMAIN job'.libs :
                                            job'.libs[m] = job'.subject.maps[m]
    BY <2>2 DEF FollowsLibs
  <2>5. /\ DOMAIN job.todo \cup DOMAIN job.libs = DOMAIN job.subject.maps
        /\ job.fresh => \A m \in DOMAIN job.libs : job.libs[m] = job.subject.maps[m]
        /\ proc[p].maps = job.subject.maps
    BY <1>2, <2>1, <2>4 DEF FreshInv, FollowsLibs, FollowsSubject
  <2>6. DOMAIN job'.todo \cup DOMAIN job'.libs = DOMAIN job'.subject.maps
    BY <1>2, <2>1, <2>3, <2>5
  <2>7. ASSUME job'.fresh, NEW m \in DOMAIN job'.libs
        PROVE  job'.libs[m] = job'.subject.maps[m]
    <3>1. CASE m = l
      BY <1>4, <2>1, <2>3, <2>5, <2>7, <3>1
    <3>2. CASE m # l
      BY <1>4, <2>1, <2>3, <2>5, <2>7, <3>2
    <3> QED
      BY <3>1, <3>2
  <2> QED
    BY <2>2, <2>6, <2>7
<1>5. CASE PassedOver(l)
  <2>1. job'.clean = FALSE
    BY <1>2, <1>5, PassedOverJob
  <2> QED
    BY <1>3, <2>1 DEF FreshInv, FollowsSubject, FollowsLibs, FreshIsTrue, Clean, ExeIsTrue,
                      LibsAreTrue
<1>6. FollowsSubject' /\ FollowsLibs'
  <2>1. CASE table[k] \in Contents \cup {Zero} /\ Measured(l, table[k], job.clean, FALSE)
    BY <1>4, <2>1
  <2>2. CASE /\ proc[p] # None /\ LibRead(p, l) \in Contents
             /\ Measured(l, LibRead(p, l), job.clean, job.fresh)
    BY <1>2, <1>4, <2>2 DEF LibRead
  <2> QED
    BY <1>1, <1>5, <2>1, <2>2, MeasureLibCases
<1> QED
  BY <1>3, <1>6 DEF FreshInv, FreshIsTrue, Clean, ExeIsTrue, LibsAreTrue

\* A clean job that is finished has come to the end of its list.
LEMMA FinishedJob ==
  ASSUME FreshInv, Finish, job.clean
  PROVE  /\ job # Nothing /\ job \in Jobs /\ job.at = "libs" /\ DOMAIN job.todo = {}
         /\ report'.subject = job.subject /\ report'.digest = job.digest
         /\ report'.path = job.path /\ report'.libs = job.libs
         /\ report'.fresh = job.fresh
<1>1. job # Nothing /\ job \in Jobs
  BY DEF Finish, FreshInv, TypeInv, TypeOK
<1>2. job.at # "nomaps"
  BY <1>1 DEF FreshInv, FollowsSubject
<1> QED
  BY <1>1, <1>2 DEF Finish

LEMMA FreshFinish ==
  ASSUME FreshInv, Finish
  PROVE  FollowsSubject' /\ FollowsLibs' /\ FreshIsTrue'
<1>1. job' = Nothing
  BY DEF Finish
<1>2. ASSUME report'.clean, report'.fresh
      PROVE  ExeIsTrue' /\ LibsAreTrue'
  <2>1. job.clean
    BY <1>2 DEF Finish
  <2>2. /\ job # Nothing /\ job \in Jobs /\ job.at = "libs" /\ DOMAIN job.todo = {}
        /\ report'.subject = job.subject /\ report'.digest = job.digest
        /\ report'.path = job.path /\ report'.libs = job.libs /\ job.fresh
    BY <1>2, <2>1, FinishedJob
  <2>3. ExeIsTrue'
    BY <2>1, <2>2 DEF FreshInv, FollowsSubject, ExeIsTrue
  <2>4. /\ DOMAIN job.libs = DOMAIN job.subject.maps
        /\ \A l \in DOMAIN job.libs : job.libs[l] = job.subject.maps[l]
    BY <2>1, <2>2 DEF FreshInv, FollowsLibs
  <2>5. job.libs \in Digests /\ job.subject.maps \in Maps
    BY <2>2 DEF Jobs, Processes
  <2>6. /\ job.libs \in [DOMAIN job.libs -> Contents \cup {Zero}]
        /\ job.subject.maps \in [DOMAIN job.subject.maps -> Contents]
    BY <2>5, MapSets, PartialElim
  <2>7. job.libs = job.subject.maps
    BY <2>4, <2>6
  <2> QED
    BY <2>2, <2>3, <2>7 DEF LibsAreTrue
<1> QED
  BY <1>1, <1>2 DEF FollowsSubject, FollowsLibs, FreshIsTrue, Clean

LEMMA FreshStep == FreshInv /\ [Next]_vars => FreshInv'
<1> SUFFICES ASSUME FreshInv, [Next]_vars
             PROVE  FollowsSubject' /\ FollowsLibs' /\ FreshIsTrue'
  BY TypeStep DEF FreshInv
<1>1. ASSUME NEW p \in Pids, NEW x \in Exes, Start(p, x)
      PROVE  FollowsSubject' /\ FollowsLibs' /\ FreshIsTrue'
  BY <1>1, FreshWorld DEF Start, FreshInv, TypeInv, TypeOK
<1>2. ASSUME NEW p \in Pids, NEW x \in Exes, Exec(p, x)
      PROVE  FollowsSubject' /\ FollowsLibs' /\ FreshIsTrue'
  BY <1>2, FreshWorld DEF Exec, Disturbed, FreshInv, TypeInv, TypeOK
<1>3. ASSUME NEW p \in Pids, Exit(p)
      PROVE  FollowsSubject' /\ FollowsLibs' /\ FreshIsTrue'
  BY <1>3, FreshWorld DEF Exit, Disturbed, FreshInv, TypeInv, TypeOK
<1>4. ASSUME NEW f \in Files, NEW v \in Contents, Upgrade(f, v)
      PROVE  FollowsSubject' /\ FollowsLibs' /\ FreshIsTrue'
  <2>1. ASSUME NEW p \in Pids, proc[p] # None
        PROVE  /\ proc'[p] # None
               /\ proc'[p].exe = proc[p].exe /\ proc'[p].image = proc[p].image
               /\ proc'[p].maps = proc[p].maps
    <3>1. proc[p] \in Processes
      BY <2>1 DEF FreshInv, TypeInv, TypeOK
    <3>2. \/ proc'[p] = proc[p]
          \/ proc'[p] = [proc[p] EXCEPT !.replaced = @ \cup {f}]
      BY <1>4 DEF Upgrade
    <3>3. proc'[p] \in Processes
      BY <3>1, <3>2, <1>4 DEF Processes
    <3> QED
      BY <3>1, <3>2, <3>3, NoneIsNotAProcess DEF Processes
  <2> QED
    BY <1>4, <2>1, FreshWorld DEF Upgrade
<1>5. ASSUME NEW p \in Pids, Begin(p)
      PROVE  FollowsSubject' /\ FollowsLibs' /\ FreshIsTrue'
  BY <1>5, FreshBegin
<1>6. CASE MeasureExe \/ ReadPath \/ OpenMaps \/ Finish
  BY <1>6, FreshMeasureExe, FreshReadPath, FreshOpenMaps, FreshFinish
<1>7. ASSUME NEW l \in Libs, MeasureLib(l)
      PROVE  FollowsSubject' /\ FollowsLibs' /\ FreshIsTrue'
  BY <1>7, FreshMeasureLib
<1>8. CASE UNCHANGED vars
  BY <1>8, FreshWorld DEF vars, worldVars
<1> QED
  BY <1>1, <1>2, <1>3, <1>4, <1>5, <1>6, <1>7, <1>8 DEF Next

LEMMA FreshInit == Init => FreshInv
<1> SUFFICES ASSUME Init PROVE FreshInv
  OBVIOUS
<1>1. TypeInv
  BY InitType
<1>2. job = Nothing /\ report = None
  BY DEF Init
<1> QED
  BY <1>1, <1>2 DEF FreshInv, FollowsSubject, FollowsLibs, FreshIsTrue, Clean

\* Whatever is wrong in the report of a process that stayed, and was read without
\* failure, came from the table of digests (FreshIsTrue).
THEOREM FreshCorrect == Spec => []FreshIsTrue
<1>1. FreshInv => FreshIsTrue
  BY DEF FreshInv
<1> QED
  BY <1>1, FreshInit, FreshStep, PTL DEF Spec

-----------------------------------------------------------------------------
(* The digest of the executable.                                           *)

\* Every start takes a new pid or uses one again.
PidsCounted ==
  /\ IsFiniteSet(used)
  /\ Cardinality(used) <= starts
  /\ \A p \in Pids : proc[p] # None => p \in used

\* As long as no pid has named two programs, the entry made for a pid is that of
\* the process that has it.
EntriesTrue ==
  PidsUsedOnce =>
    \A p \in Pids : table[p] \notin {Absent, Zero} =>
      p \in used /\ (proc[p] # None => proc[p].image = table[p])

DigestTrue ==
  PidsUsedOnce /\ job # Nothing /\ job.clean /\ job.at # "exe" =>
    job.digest \in {Zero, job.subject.image}

ExeInv == FreshInv /\ PidsCounted /\ EntriesTrue /\ DigestTrue /\ ExeTrue

\* What the world does to the pids: as many are used as programs started, or a
\* pid is given out for the first time, or one has named two programs.
LEMMA ExeStart ==
  ASSUME ExeInv, NEW p \in Pids, NEW x \in Exes, Start(p, x)
  PROVE  PidsCounted' /\ EntriesTrue' /\ DigestTrue' /\ ExeTrue'
<1>1. starts \in Nat /\ starts' = starts + 1 /\ used' = used \cup {p}
  BY MeasureAssumption DEF Start, ExeInv, FreshInv, TypeInv, TypeOK
<1>2. /\ IsFiniteSet(used')
      /\ Cardinality(used') = IF p \in used THEN Cardinality(used) ELSE Cardinality(used) + 1
      /\ Cardinality(used) \in Nat
  BY <1>1, FS_AddElement, FS_CardinalityType DEF ExeInv, PidsCounted
<1>3. /\ table' = table /\ job' = job /\ report' = report
      /\ \A q \in Pids \ {p} : proc'[q] = proc[q]
  BY DEF Start, ExeInv, FreshInv, TypeInv, TypeOK
<1>4. PidsUsedOnce' => PidsUsedOnce /\ p \notin used
  BY <1>1, <1>2 DEF ExeInv, PidsCounted, PidsUsedOnce
<1>5. PidsCounted'
  BY <1>1, <1>2, <1>3 DEF ExeInv, PidsCounted
<1>6. EntriesTrue'
  BY <1>1, <1>3, <1>4 DEF ExeInv, EntriesTrue
<1>7. DigestTrue'
  BY <1>3, <1>4 DEF ExeInv, DigestTrue, Nothing
<1>8. ExeTrue'
  BY <1>3, <1>4 DEF ExeInv, ExeTrue, ExeIsTrue, Clean
<1> QED
  BY <1>5, <1>6, <1>7, <1>8

LEMMA ExeExec ==
  ASSUME ExeInv, NEW p \in Pids, NEW x \in Exes, Exec(p, x)
  PROVE  PidsCounted' /\ EntriesTrue' /\ DigestTrue' /\ ExeTrue'
<1>1. starts \in Nat /\ starts' = starts + 1 /\ used' = used
  BY MeasureAssumption DEF Exec, ExeInv, FreshInv, TypeInv, TypeOK
<1>2. Cardinality(used) \in Nat /\ Cardinality(used) <= starts
  BY FS_CardinalityType DEF ExeInv, PidsCounted
<1>3. ~PidsUsedOnce'
  BY <1>1, <1>2 DEF PidsUsedOnce
<1>4. PidsCounted'
  BY <1>1, <1>2 DEF ExeInv, PidsCounted, Exec, FreshInv, TypeInv, TypeOK
<1> QED
  BY <1>3, <1>4 DEF EntriesTrue, DigestTrue, ExeTrue

\* Any other step of the world takes processes away, or leaves what they run.
LEMMA ExeWorld ==
  ASSUME ExeInv, UNCHANGED <<used, starts, table, report>>,
         \A p \in Pids : proc'[p] # None => proc[p] # None /\ proc'[p].image = proc[p].image,
         job' = job \/ \E p : Disturbed(p)
  PROVE  PidsCounted' /\ EntriesTrue' /\ DigestTrue' /\ ExeTrue'
<1>1. PidsUsedOnce' = PidsUsedOnce
  BY DEF PidsUsedOnce
<1>2. PidsCounted' /\ EntriesTrue'
  BY <1>1 DEF ExeInv, PidsCounted, EntriesTrue
<1>3. ExeTrue'
  BY <1>1 DEF ExeInv, ExeTrue, ExeIsTrue, Clean
<1>4. CASE job' = job
  <2>1. DigestTrue
    BY DEF ExeInv
  <2> QED
    BY <1>1, <1>2, <1>3, <1>4, <2>1 DEF DigestTrue, Nothing
<1>5. CASE job # Nothing /\ job' = [job EXCEPT !.clean = FALSE]
  <2>1. job \in Jobs
    BY <1>5 DEF ExeInv, FreshInv, TypeInv, TypeOK
  <2>2. job'.clean = FALSE
    BY <1>5, <2>1 DEF Jobs
  <2> QED
    BY <1>2, <1>3, <2>2 DEF DigestTrue
<1> QED
  BY <1>4, <1>5 DEF Disturbed

LEMMA ExeMeasureExe ==
  ASSUME ExeInv, MeasureExe
  PROVE  PidsCounted' /\ EntriesTrue' /\ DigestTrue' /\ ExeTrue'
<1> DEFINE p == job.pid
<1>1. job # Nothing /\ job.at = "exe" /\ job \in Jobs /\ p \in Pids /\ p \in Keys
  BY DEF MeasureExe, ExeInv, FreshInv, TypeInv, TypeOK, Jobs, Keys
<1>2. UNCHANGED <<proc, used, starts, report>> /\ PidsUsedOnce' = PidsUsedOnce
  BY DEF MeasureExe, worldVars, PidsUsedOnce
<1>3. PidsCounted' /\ ExeTrue'
  BY <1>2 DEF ExeInv, PidsCounted, ExeTrue, ExeIsTrue, Clean
<1>4. job.clean => proc[p] # None /\ proc[p].image = job.subject.image
  BY <1>1 DEF ExeInv, FreshInv, FollowsSubject
<1>5. CASE Hit(p) /\ job' = [job EXCEPT !.at = "path", !.digest = table[p], !.fresh = FALSE]
  <2>1. /\ job'.digest = table[p] /\ job'.subject = job.subject /\ job'.clean = job.clean
        /\ table' = table /\ table[p] # Absent
    BY <1>1, <1>5 DEF Jobs, Hit
  <2>2. EntriesTrue'
    BY <1>2, <2>1 DEF ExeInv, EntriesTrue
  <2>3. DigestTrue'
    BY <1>1, <1>2, <1>4, <2>1 DEF ExeInv, EntriesTrue, DigestTrue
  <2> QED
    BY <1>3, <2>2, <2>3
<1>6. CASE /\ proc[p] # None /\ Fill(p, ImageRead(p))
           /\ job' = [job EXCEPT !.at = "path", !.digest = ImageRead(p)]
  <2>1. /\ job'.digest = proc[p].image /\ job'.subject = job.subject
        /\ job'.clean = job.clean
    BY <1>1, <1>6 DEF Jobs, ImageRead
  <2>2. table' = [table EXCEPT ![p] = proc[p].image]
    BY <1>6 DEF Fill, ImageRead
  <2>3. EntriesTrue'
    <3>1. \A q \in Pids : q \in Keys /\ table'[q] = IF q = p THEN proc[p].image ELSE table[q]
      BY <2>2 DEF ExeInv, FreshInv, TypeInv, TypeOK, Keys
    <3> QED
      BY <1>1, <1>2, <1>6, <3>1 DEF ExeInv, EntriesTrue, PidsCounted
  <2>4. DigestTrue'
    BY <1>4, <2>1 DEF DigestTrue
  <2> QED
    BY <1>3, <2>3, <2>4
<1>7. CASE Fill(p, Zero) /\ job' = [job EXCEPT !.at = "maps", !.clean = FALSE]
  <2>1. job'.clean = FALSE
    BY <1>1, <1>7 DEF Jobs
  <2>2. EntriesTrue'
    <3>1. \A q \in Pids : table'[q] = IF q = p THEN Zero ELSE table[q]
      BY <1>7 DEF Fill, ExeInv, FreshInv, TypeInv, TypeOK, Keys
    <3> QED
      BY <1>2, <3>1 DEF ExeInv, EntriesTrue
  <2> QED
    BY <1>3, <2>1, <2>2 DEF DigestTrue
<1> QED
  BY <1>5, <1>6, <1>7 DEF MeasureExe

\* The other steps of the measurement leave the entries of the pids alone.
LEMMA ExeQuiet ==
  ASSUME ExeInv, UNCHANGED worldVars, UNCHANGED report,
         \A p \in Pids : table'[p] = table[p],
         job' # Nothing /\ job'.clean /\ job'.at # "exe" =>
           /\ job # Nothing /\ job.clean /\ job.at # "exe"
           /\ job'.digest = job.digest /\ job'.subject = job.subject
  PROVE  PidsCounted' /\ EntriesTrue' /\ DigestTrue' /\ ExeTrue'
<1>1. UNCHANGED <<proc, used, starts>> /\ PidsUsedOnce' = PidsUsedOnce
  BY DEF worldVars, PidsUsedOnce
<1>2. PidsCounted' /\ EntriesTrue'
  BY <1>1 DEF ExeInv, PidsCounted, EntriesTrue
<1>3. DigestTrue' /\ ExeTrue'
  BY <1>1 DEF ExeInv, DigestTrue, ExeTrue, ExeIsTrue, Clean
<1> QED
  BY <1>2, <1>3

LEMMA ExeMeasureLib ==
  ASSUME ExeInv, NEW l \in Libs, MeasureLib(l)
  PROVE  PidsCounted' /\ EntriesTrue' /\ DigestTrue' /\ ExeTrue'
<1> DEFINE k == <<l, job.todo[l]>>
<1>1. TypeInv
  BY DEF ExeInv, FreshInv
<1>2. /\ job # Nothing /\ job \in Jobs /\ job.at = "libs" /\ k \in Names
      /\ job.clean \in BOOLEAN /\ job.fresh \in BOOLEAN
  <2>1. job.todo \in Marks /\ l \in DOMAIN job.todo
    BY <1>1, MeasureLibCases DEF Jobs
  <2>2. job.todo[l] \in BOOLEAN
    BY <2>1, MapSets, PartialElim
  <2>3. job # Nothing /\ job \in Jobs /\ job.at = "libs" /\ l \in Libs
    BY <1>1, MeasureLibCases
  <2>4. k \in Names
    BY <2>2, <2>3 DEF Names
  <2> QED
    BY <2>3, <2>4 DEF Jobs
<1>3. UNCHANGED worldVars /\ UNCHANGED report
  BY DEF MeasureLib
<1>4. \A p \in Pids : p \in Keys /\ p # k
  BY <1>2, MeasureAssumption DEF Keys
<1>5. \A p \in Pids : table'[p] = table[p]
  <2>1. table' = table \/ \E d : table' = [table EXCEPT ![k] = d]
    BY DEF MeasureLib, Hit, Fill
  <2> QED
    BY <1>4, <2>1 DEF ExeInv, FreshInv, TypeInv, TypeOK
<1>6. job'.clean => job.clean /\ job'.digest = job.digest /\ job'.subject = job.subject
  <2>1. ASSUME NEW d \in Contents \cup {Zero}, NEW f \in BOOLEAN,
               Measured(l, d, job.clean, f)
        PROVE  <1>6
    BY <1>2, <2>1, MeasuredJob
  <2>2. CASE PassedOver(l)
    BY <1>2, <2>2, PassedOverJob
  <2> QED
    BY <1>1, <1>2, <2>1, <2>2, MeasureLibCases
<1> QED
  BY <1>2, <1>3, <1>5, <1>6, ExeQuiet

LEMMA ExeFinish ==
  ASSUME ExeInv, Finish
  PROVE  PidsCounted' /\ EntriesTrue' /\ DigestTrue' /\ ExeTrue'
<1>1. /\ job' = Nothing /\ UNCHANGED <<proc, used, starts, table>>
      /\ PidsUsedOnce' = PidsUsedOnce
  BY DEF Finish, worldVars, PidsUsedOnce
<1>2. PidsCounted' /\ EntriesTrue' /\ DigestTrue'
  BY <1>1 DEF ExeInv, PidsCounted, EntriesTrue, DigestTrue
<1>3. ASSUME report'.clean, PidsUsedOnce, report'.digest # Zero
      PROVE  ExeIsTrue'
  <2>1. job.clean
    BY <1>3 DEF Finish
  <2>2. /\ job # Nothing /\ job.at = "libs" /\ report'.subject = job.subject
        /\ report'.digest = job.digest /\ report'.path = job.path
    BY <2>1, FinishedJob DEF ExeInv
  <2> QED
    BY <1>3, <2>1, <2>2 DEF ExeInv, DigestTrue, FreshInv, FollowsSubject, ExeIsTrue
<1> QED
  BY <1>1, <1>2, <1>3 DEF ExeTrue, Clean

LEMMA ExeStep == ExeInv /\ [Next]_vars => ExeInv'
<1> SUFFICES ASSUME ExeInv, [Next]_vars
             PROVE  PidsCounted' /\ EntriesTrue' /\ DigestTrue' /\ ExeTrue'
  BY FreshStep DEF ExeInv
<1>1. ASSUME NEW p \in Pids, NEW x \in Exes, Start(p, x) \/ Exec(p, x)
      PROVE  PidsCounted' /\ EntriesTrue' /\ DigestTrue' /\ ExeTrue'
  BY <1>1, ExeStart, ExeExec
<1>2. ASSUME NEW p \in Pids, Exit(p)
      PROVE  PidsCounted' /\ EntriesTrue' /\ DigestTrue' /\ ExeTrue'
  BY <1>2, ExeWorld DEF Exit, Disturbed, ExeInv, FreshInv, TypeInv, TypeOK
<1>3. ASSUME NEW f \in Files, NEW v \in Contents, Upgrade(f, v)
      PROVE  PidsCounted' /\ EntriesTrue' /\ DigestTrue' /\ ExeTrue'
  <2>1. ASSUME NEW p \in Pids, proc'[p] # None
        PROVE  proc[p] # None /\ proc'[p].image = proc[p].image
    <3>1. \/ proc'[p] = proc[p]
          \/ proc[p] # None /\ proc'[p] = [proc[p] EXCEPT !.replaced = @ \cup {f}]
      BY <1>3 DEF Upgrade
    <3>2. proc[p] # None => proc[p] \in Processes
      BY DEF ExeInv, FreshInv, TypeInv, TypeOK
    <3> QED
      BY <2>1, <3>1, <3>2 DEF Processes
  <2> QED
    BY <1>3, <2>1, ExeWorld DEF Upgrade
<1>4. ASSUME NEW p \in Pids, Begin(p)
      PROVE  PidsCounted' /\ EntriesTrue' /\ DigestTrue' /\ ExeTrue'
  <2>1. job'.at = "exe" /\ table' = table /\ UNCHANGED worldVars /\ UNCHANGED report
    BY <1>4 DEF Begin
  <2> QED
    BY <2>1, ExeQuiet
<1>5. ASSUME ReadPath \/ OpenMaps
      PROVE  PidsCounted' /\ EntriesTrue' /\ DigestTrue' /\ ExeTrue'
  <2>1. job # Nothing /\ job \in Jobs /\ job.at # "exe"
    BY <1>5 DEF ReadPath, OpenMaps, ExeInv, FreshInv, TypeInv, TypeOK
  <2>2. table' = table /\ UNCHANGED worldVars /\ UNCHANGED report
    BY <1>5 DEF ReadPath, OpenMaps
  <2>3. job'.clean = job.clean /\ job'.digest = job.digest /\ job'.subject = job.subject
    BY <1>5, <2>1 DEF ReadPath, OpenMaps, Jobs
  <2> QED
    BY <2>1, <2>2, <2>3, ExeQuiet
<1>6. ASSUME NEW l \in Libs, MeasureLib(l)
      PROVE  PidsCounted' /\ EntriesTrue' /\ DigestTrue' /\ ExeTrue'
  BY <1>6, ExeMeasureLib
<1>7. CASE UNCHANGED vars
  <2>1. UNCHANGED <<used, starts, table, report, proc, job>>
    BY <1>7 DEF vars, worldVars
  <2> QED
    BY <2>1, ExeWorld
<1> QED
  BY <1>1, <1>2, <1>3, <1>4, <1>5, <1>6, <1>7, ExeMeasureExe, ExeFinish DEF Next

LEMMA ExeInit == Init => ExeInv
<1> SUFFICES ASSUME Init PROVE ExeInv
  OBVIOUS
<1>1. FreshInv
  BY FreshInit
<1>2. IsFiniteSet(used) /\ Cardinality(used) = 0
  BY FS_EmptySet DEF Init
<1>3. PidsCounted
  BY <1>2 DEF Init, PidsCounted
<1>4. EntriesTrue
  BY DEF Init, EntriesTrue, Keys
<1>5. DigestTrue /\ ExeTrue
  BY DEF Init, DigestTrue, ExeTrue, Clean
<1> QED
  BY <1>1, <1>3, <1>4, <1>5 DEF ExeInv

\* The digest and the path reported for a process are those of the program it
\* runs, whatever has replaced the file of that name, as long as no pid has been
\* used for two programs (ExeTrue).
THEOREM ExeCorrect == Spec => []ExeTrue
<1>1. ExeInv => ExeTrue
  BY DEF ExeInv
<1> QED
  BY <1>1, ExeInit, ExeStep, PTL DEF Spec
=============================================================================
