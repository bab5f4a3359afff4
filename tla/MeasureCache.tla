---------------------------- MODULE MeasureCache ----------------------------
(***************************************************************************)
(* The measurement of one process (src/libmeasure.c, the same text as      *)
(* tpm2/libmeasurement.c, called by mycbor_sha256_binaries of              *)
(* tpm2/libcbor.c): the digest of its executable, the path of the          *)
(* executable and the digests of its libraries, read step by step from     *)
(* /proc while processes come and go and files are replaced.               *)
(*                                                                         *)
(* sha256_file keeps every digest in a table for as long as the daemon     *)
(* runs.  The key of an executable is its name /proc/<pid>/exe, that is    *)
(* its pid; the key of a library is the path it was mapped from, which the *)
(* kernel marks "(deleted)" once another file has taken that path.  The    *)
(* content of a file stands for its digest.                                *)
(***************************************************************************)
EXTENDS Naturals, FiniteSets

CONSTANTS
    Pids, Exes, Libs,
    Contents,   \* what a file may contain
    Initial,    \* Initial[f]: the content of file f at first
    Needs,      \* Needs[x]: the libraries that executable x maps
    MaxStarts,  \* bound on the programs started
    MaxUpgrades,\* bound on the files replaced
    None,       \* no process, no report
    Absent,     \* no entry in the table; a digest that is not reported
    Zero,       \* the digest of an entry that was made and never filled
    Garbage,    \* an uninitialized buffer
    Faults      \* "exit": processes end; "reuse": a pid is given to another
                \* process or program; "upgrade": files are replaced; "read": open,
                \* fstat, malloc or read fail

Files == Exes \cup Libs
Names == {<<l, b>> : l \in Libs, b \in BOOLEAN}   \* TRUE: with the mark "(deleted)"
Keys == Pids \cup Names

ASSUME MeasureAssumption ==
    /\ Initial \in [Files -> Contents]
    /\ Needs \in [Exes -> SUBSET Libs]
    /\ Pids \cap Names = {} /\ Exes \cap Libs = {}
    /\ {Absent, Zero, Garbage} \cap Contents = {}
    /\ None \notin [exe : Exes, image : Contents, replaced : SUBSET Files,
                    maps : UNION {[L -> Contents] : L \in SUBSET Libs}]
    /\ MaxStarts \in Nat /\ MaxUpgrades \in Nat
    /\ Faults \subseteq {"exit", "reuse", "upgrade", "read"}

VARIABLES
    disk,       \* disk[f]: the content a new process maps from file f
    proc,       \* proc[p]: the process with pid p, or None
    used,       \* pids that have been used
    starts,     \* programs started
    upgrades,   \* files replaced
    table,      \* filepath_htable
    job,        \* the measurement under way
    report      \* the map the last measurement returned, or None

worldVars == <<disk, proc, used, starts, upgrades>>
vars == <<worldVars, table, job, report>>

Nothing == [at |-> "idle"]
Empty == [l \in {} |-> Absent]

\* A process runs the contents its files had when it started, whatever has
\* replaced them on the disk since.
Process(x) == [exe |-> x, image |-> disk[x], replaced |-> {},
               maps |-> [l \in Needs[x] |-> disk[l]]]

Init ==
    /\ disk = Initial
    /\ proc = [p \in Pids |-> None]
    /\ used = {}
    /\ starts = 0 /\ upgrades = 0
    /\ table = [k \in Keys |-> Absent]
    /\ job = Nothing
    /\ report = None

-----------------------------------------------------------------------------
(* The system around the daemon.                                           *)

Start(p, x) ==
    /\ starts < MaxStarts
    /\ proc[p] = None
    /\ p \in used => "reuse" \in Faults
    /\ proc' = [proc EXCEPT ![p] = Process(x)]
    /\ used' = used \cup {p}
    /\ starts' = starts + 1
    /\ UNCHANGED <<disk, upgrades, table, job, report>>

\* The process under measurement may be the one that ends.
Exit(p) ==
    /\ "exit" \in Faults
    /\ proc[p] # None
    /\ proc' = [proc EXCEPT ![p] = None]
    /\ job' = IF job # Nothing /\ job.pid = p
              THEN [job EXCEPT !.clean = FALSE] ELSE job
    /\ UNCHANGED <<disk, used, starts, upgrades, table, report>>

\* The process runs another program under the same pid (execve).
Exec(p, x) ==
    /\ "reuse" \in Faults
    /\ starts < MaxStarts
    /\ proc[p] # None
    /\ proc' = [proc EXCEPT ![p] = Process(x)]
    /\ job' = IF job # Nothing /\ job.pid = p
              THEN [job EXCEPT !.clean = FALSE] ELSE job
    /\ starts' = starts + 1
    /\ UNCHANGED <<disk, used, upgrades, table, report>>

\* rm and cp: the running processes keep the file they have mapped.
Upgrade(f, v) ==
    /\ "upgrade" \in Faults
    /\ upgrades < MaxUpgrades
    /\ disk[f] # v
    /\ disk' = [disk EXCEPT ![f] = v]
    /\ proc' = [p \in Pids |->
                  IF proc[p] # None /\ f \in {proc[p].exe} \cup DOMAIN proc[p].maps
                  THEN [proc[p] EXCEPT !.replaced = @ \cup {f}] ELSE proc[p]]
    /\ upgrades' = upgrades + 1
    /\ UNCHANGED <<used, starts, table, job, report>>

-----------------------------------------------------------------------------
(* The measurement.                                                        *)

\* mycbor_sha256_binaries is called for process p.  Its buffers digest and
\* cmdpath are not initialized: they hold anything, or what the call before
\* left there.
Begin(p) ==
    /\ job = Nothing
    /\ proc[p] # None
    /\ \E left \in {[digest |-> Garbage, path |-> Garbage]} \cup
                   (IF report = None THEN {} ELSE {[digest |-> report.left,
                                                    path |-> report.path]}) :
          job' = [at |-> "exe", pid |-> p, subject |-> proc[p],
                  clean |-> TRUE, fresh |-> TRUE,
                  digest |-> left.digest, path |-> left.path,
                  todo |-> Empty, libs |-> Empty]
    /\ UNCHANGED <<worldVars, table, report>>

\* What open and read of /proc/<pid>/exe, and of the file under
\* /proc/<pid>/map_files that library l was mapped from, give.
\* (FileRead and LibFileRead, mutants: the file that now has the name.)
FileRead(p) == disk[proc[p].exe]
LibFileRead(p, l) == disk[l]
ImageRead(p) == proc[p].image
LibRead(p, l) == proc[p].maps[l]

\* sha256_file with key k: a hit copies the digest of the entry; a miss makes
\* the entry at once, and fills it only when the file has been read.
Hit(k) == table[k] # Absent /\ UNCHANGED table
Fill(k, d) == table[k] = Absent /\ table' = [table EXCEPT ![k] = d]

\* sha256_pid on /proc/<pid>/exe.  When it fails it does not read the path
\* either, and the caller goes on.
MeasureExe ==
    /\ job # Nothing /\ job.at = "exe"
    /\ LET p == job.pid
       IN  \/ /\ Hit(p)
              /\ job' = [job EXCEPT !.at = "path", !.digest = table[p],
                                    !.fresh = FALSE]
           \/ /\ proc[p] # None
              /\ Fill(p, ImageRead(p))
              /\ job' = [job EXCEPT !.at = "path", !.digest = ImageRead(p)]
           \/ /\ proc[p] = None \/ "read" \in Faults
              /\ Fill(p, Zero)
              /\ job' = [job EXCEPT !.at = "maps", !.clean = FALSE]
    /\ UNCHANGED <<worldVars, report>>

\* readlink of /proc/<pid>/exe; its failure leaves the path as it is.
ReadPath ==
    /\ job # Nothing /\ job.at = "path"
    /\ LET q == proc[job.pid]
       IN  job' = [job EXCEPT !.at = "maps",
                     !.path = IF q = None THEN @ ELSE <<q.exe, q.exe \in q.replaced>>]
    /\ UNCHANGED <<worldVars, table, report>>

\* sha256_libs opens /proc/<pid>/maps and reads the names of the libraries.
\* When it cannot it returns -1, and the map is made with one place too few:
\* the last item, sha256, does not get in.
OpenMaps ==
    /\ job # Nothing /\ job.at = "maps"
    /\ LET q == proc[job.pid]
       IN  job' = IF q = None
                  THEN [job EXCEPT !.at = "nomaps"]
                  ELSE [job EXCEPT !.at = "libs",
                          !.todo = [l \in DOMAIN q.maps |-> l \in q.replaced]]
    /\ UNCHANGED <<worldVars, table, report>>

\* f without l, and f with l mapped to d.
Without(f, l) == [k \in DOMAIN f \ {l} |-> f[k]]
With(f, l, d) == [k \in DOMAIN f \cup {l} |-> IF k = l THEN d ELSE f[k]]

\* One library of the list, read through map_files.  One that cannot be read
\* is passed over.
\* (MeasureLibAgain, a mutant: without the test path_exists.)
MeasureLibAgain(l) ==
    /\ job # Nothing /\ job.at = "libs" /\ l \in DOMAIN job.todo
    /\ LET p == job.pid
           k == <<l, job.todo[l]>>
       IN  \/ /\ Hit(k)
              /\ job' = [job EXCEPT !.libs = With(@, l, table[k]), !.fresh = FALSE]
           \/ /\ proc[p] # None /\ l \in DOMAIN proc[p].maps
              /\ Fill(k, LibRead(p, l))
              /\ job' = [job EXCEPT !.libs = With(@, l, LibRead(p, l))]
    /\ UNCHANGED <<worldVars, report>>

MeasureLib(l) ==
    /\ job # Nothing /\ job.at = "libs" /\ l \in DOMAIN job.todo
    /\ LET p == job.pid
           k == <<l, job.todo[l]>>
           next == [job EXCEPT !.todo = Without(@, l)]
       IN  \/ /\ Hit(k)
              /\ job' = [next EXCEPT !.libs = With(@, l, table[k]), !.fresh = FALSE]
           \/ /\ proc[p] # None /\ l \in DOMAIN proc[p].maps
              /\ Fill(k, LibRead(p, l))
              /\ job' = [next EXCEPT !.libs = With(@, l, LibRead(p, l))]
           \/ /\ ~job.clean \/ "read" \in Faults
              /\ Fill(k, Zero)
              /\ job' = [next EXCEPT !.clean = FALSE]
    /\ UNCHANGED <<worldVars, report>>

\* The list of maps ends early when the process does.
Finish ==
    /\ job # Nothing /\ job.at \in {"libs", "nomaps"}
    /\ DOMAIN job.todo = {} \/ ~job.clean
    /\ report' = [subject |-> job.subject,
                  clean |-> job.clean, fresh |-> job.fresh,
                  digest |-> IF job.at = "nomaps" THEN Absent ELSE job.digest,
                  left |-> job.digest, path |-> job.path, libs |-> job.libs]
    /\ job' = Nothing
    /\ UNCHANGED <<worldVars, table>>

Next ==
    \/ \E p \in Pids, x \in Exes : Start(p, x) \/ Exec(p, x)
    \/ \E p \in Pids : Exit(p) \/ Begin(p)
    \/ \E f \in Files, v \in Contents : Upgrade(f, v)
    \/ MeasureExe \/ ReadPath \/ OpenMaps
    \/ \E l \in Libs : MeasureLib(l)
    \/ Finish

Spec == Init /\ [][Next]_vars

-----------------------------------------------------------------------------
Maps == UNION {[L -> Contents] : L \in SUBSET Libs}
Digests == UNION {[L -> Contents \cup {Zero}] : L \in SUBSET Libs}
Marks == UNION {[L -> BOOLEAN] : L \in SUBSET Libs}
Processes == [exe : Exes, image : Contents, replaced : SUBSET Files, maps : Maps]
Paths == (Exes \X BOOLEAN) \cup {Garbage}

Jobs == [at : {"exe", "path", "maps", "libs", "nomaps"}, pid : Pids,
         subject : Processes, clean : BOOLEAN, fresh : BOOLEAN,
         digest : Contents \cup {Zero, Garbage}, path : Paths,
         todo : Marks, libs : Digests]

Reports == [subject : Processes, clean : BOOLEAN, fresh : BOOLEAN,
            digest : Contents \cup {Absent, Zero, Garbage},
            left : Contents \cup {Zero, Garbage}, path : Paths, libs : Digests]

\* Every variable has the values it may have, and a library that has been
\* measured is not measured again in the same call (path_exists).
TypeOK ==
    /\ disk \in [Files -> Contents]
    /\ proc \in [Pids -> Processes \cup {None}]
    /\ used \subseteq Pids
    /\ starts \in 0 .. MaxStarts
    /\ upgrades \in 0 .. MaxUpgrades
    /\ table \in [Keys -> Contents \cup {Absent, Zero}]
    /\ job = Nothing \/ job \in Jobs
    /\ job # Nothing => DOMAIN job.todo \cap DOMAIN job.libs = {}
    /\ report = None \/ report \in Reports

ExeIsTrue == /\ report.digest = report.subject.image
             /\ report.path[1] = report.subject.exe
LibsAreTrue == report.libs = report.subject.maps

\* The process was there, and every read succeeded, from the start of the call
\* to its end.
Clean == report # None /\ report.clean

\* No pid has been used for two programs.
PidsUsedOnce == starts = Cardinality(used)

\* The digest and the path reported for a process are those of the program that
\* it runs, although the file of that name may have been replaced, before the
\* measurement or during it: sha256_pid reads /proc/<pid>/exe.  The digest may
\* be the empty one of an earlier read that failed.
ExeTrue == Clean /\ PidsUsedOnce /\ report.digest # Zero => ExeIsTrue

\* The digest and the path reported belong together: "cmdpath and sha256 of
\* exec file" (tpm2/libcbor.c:116).
DigestOfPath == Clean => ExeIsTrue

\* The digests reported for the libraries of a process are those of the
\* libraries that it has mapped: "already measured" (libmeasure.c:192) means
\* that there is a digest.
LibsTrue == Clean => LibsAreTrue

\* A report for which no digest came from the table is true of the process,
\* whatever happened before: what is wrong in a report is always an old entry.
FreshIsTrue == Clean /\ report.fresh => ExeIsTrue /\ LibsAreTrue
=============================================================================
