------------------------------ MODULE ProcChain ------------------------------
(***************************************************************************)
(* The walk over the ancestors of a process (mycbor_pack_procchain and     *)
(* mycbor_sha256_binaries of tpm2/libcbor.c, cred_pid of                   *)
(* tpm2/libprocchain.c), one access to /proc at a time, while processes    *)
(* fork, run other programs, end, and have their children given to init,   *)
(* over many calls of one daemon: the table of digests is kept between     *)
(* them.  MeasureCache models all that is read for one record; here a      *)
(* record has the program, the user and the parent, and the question is    *)
(* the list.                                                               *)
(***************************************************************************)
EXTENDS Naturals, Sequences, FiniteSets, SequencesExt

CONSTANTS
    Pids,       \* pids other than 1
    Exes, Uids, \* programs and users
    FirstExes, FirstUids,   \* what a process of pid 0 or 1 may begin with
    InitPid,    \* pid 1, at which the walk stops
    Outside,    \* pid 0, the parent of a process whose parent the daemon's
                \* namespace does not have
    MaxBirths, MaxExecs,    \* bounds on forks and execve calls
    MaxChain,   \* records for which there is memory
    None,       \* no process
    Garbage,    \* memory that was not written
    Minus1,     \* what cred_pid stores when a field is not found
    Absent,     \* no entry in the table
    Zero,       \* the digest of an entry that was made and never filled
    Faults      \* "exit": processes end; "reuse": a pid is used again; "read": the
                \* executable cannot be read; "outside": processes of pid 0

ASSUME ChainAssumption ==
    /\ InitPid \notin Pids /\ Outside \notin Pids \cup {InitPid}
    /\ Minus1 \notin Pids \cup {InitPid, Outside}
    /\ Garbage \notin Exes \cup Uids \cup Pids \cup {InitPid, Outside, Minus1}
    /\ Absent \notin Exes \cup {Zero}
    /\ None \notin [parent : Pids \cup {InitPid, Outside}, exe : Exes, uid : Uids,
                    line : Seq(Pids)]
    /\ MaxBirths \in Nat /\ MaxExecs \in Nat /\ MaxChain \in Nat \ {0}
    /\ Faults \subseteq {"exit", "reuse", "read", "outside"}

VARIABLES
    proc,       \* proc[p]: the process with pid p, or None
    births,     \* processes made
    execs,      \* execve calls
    used,       \* pids that have been used
    table,      \* filepath_htable: its entries for executables, by pid
    stale,      \* pids whose entry is not of the process that now has the pid, or of
                \* a program it no longer runs, or was made without a reading
    walk        \* the call of mycbor_pack_procchain

world == <<proc, births, execs, used>>
vars == <<world, table, stale, walk>>

Roots == {InitPid, Outside}
Numbers == Pids \cup Roots \cup {Minus1}

Idle == [at |-> "idle"]
Alive(p) == p \in Pids /\ proc[p] # None

\* line is the creators of a process, from its own up to the first child of init;
\* parent is its creator until that ends, and then init.
Child(p, x, u) ==
    [parent |-> p, exe |-> x, uid |-> u,
     line |-> IF p \in Roots THEN <<>> ELSE <<p>> \o proc[p].line]

Init ==
    /\ proc = [p \in Pids |-> None]
    /\ births = 0 /\ execs = 0
    /\ used = {}
    /\ table = [p \in Numbers |-> Absent]
    /\ stale = {}
    /\ walk = Idle

-----------------------------------------------------------------------------
(* The other processes.                                                    *)

\* A pid that names something else than when the walk began, and than when its
\* executable was measured.
Touch(p) == IF walk = Idle THEN walk ELSE [walk EXCEPT !.touched = @ \cup {p}]
Outdate(p) == IF table[p] = Absent THEN stale ELSE stale \cup {p}

Birth(p, c, x, u) ==
    /\ births < MaxBirths
    /\ proc[c] = None
    /\ c \in used => "reuse" \in Faults
    /\ p = Outside => "outside" \in Faults
    /\ IF p \in Roots THEN x \in FirstExes /\ u \in FirstUids
       ELSE x = proc[p].exe /\ u = proc[p].uid
    /\ proc' = [proc EXCEPT ![c] = Child(p, x, u)]
    /\ births' = births + 1
    /\ used' = used \cup {c}
    /\ walk' = Touch(c)
    /\ stale' = Outdate(c)
    /\ UNCHANGED <<execs, table>>

Exec(p, x, u) ==
    /\ execs < MaxExecs
    /\ Alive(p)
    /\ proc' = [proc EXCEPT ![p].exe = x, ![p].uid = u]
    /\ execs' = execs + 1
    /\ walk' = Touch(p)
    /\ stale' = Outdate(p)
    /\ UNCHANGED <<births, used, table>>

\* The children of a process that ends are given to init.
Exit(p) ==
    /\ "exit" \in Faults
    /\ Alive(p)
    /\ proc' = [q \in Pids |->
                  IF q = p THEN None
                  ELSE IF Alive(q) /\ proc[q].parent = p
                  THEN [proc[q] EXCEPT !.parent = InitPid] ELSE proc[q]]
    /\ UNCHANGED <<births, execs, used, table, stale, walk>>

-----------------------------------------------------------------------------
(* The walk.                                                               *)

\* sha256_pid(p): x is in the buffer afterwards, if one of left was there.
\* The key of the table is the name /proc/<pid>/exe: an entry is used whatever runs
\* under the pid by now.  A new entry is filled if the executable can be read; if
\* not it stays, empty, and the buffer as it was.
Measure(p, left, x) ==
    \/ /\ table[p] # Absent
       /\ x = table[p]
       /\ UNCHANGED <<table, stale>>
    \/ /\ table[p] = Absent /\ Alive(p)
       /\ x = proc[p].exe
       /\ table' = [table EXCEPT ![p] = x]
       /\ UNCHANGED stale
    \/ /\ table[p] = Absent
       /\ Alive(p) => "read" \in Faults
       /\ x \in left
       /\ table' = [table EXCEPT ![p] = Zero]
       /\ stale' = stale \cup {p}

Digests == Exes \cup {Garbage, Zero}

\* A client connects: the daemon measures it, for its attest requests.
Accept(p) ==
    /\ walk = Idle
    /\ Alive(p)
    /\ \E x \in Digests : Measure(p, {Garbage}, x)
    /\ UNCHANGED <<world, walk>>

\* The stack of mycbor_sha256_binaries holds anything, or what the call for
\* the process before left there.
Left(chain, field) ==
    {Garbage} \cup (IF chain = <<>> THEN {} ELSE {chain[1][field]})

\* The call for a client that has connected: ppid of mycbor_pack_procchain is not
\* initialized.
Begin(p) ==
    /\ walk = Idle
    /\ Alive(p) /\ table[p] # Absent
    /\ walk' = [at |-> "exe", subject |-> p, line |-> proc[p].line,
                pid |-> p, ppid |-> Garbage, exe |-> Garbage, uid |-> Garbage,
                whole |-> TRUE, chain |-> <<>>, touched |-> {}]
    /\ UNCHANGED <<world, table, stale>>

\* The result of sha256_pid is not looked at.
ReadExe ==
    /\ walk.at = "exe"
    /\ \E x \in Digests :
          /\ Measure(walk.pid, Left(walk.chain, "exe"), x)
          /\ walk' = [walk EXCEPT !.at = "status", !.exe = x]
    /\ UNCHANGED world

\* cred_pid opens /proc/<pid>/status.  When it cannot it returns at once, and
\* nobody looks at its result: *ppid keeps its value, which is the pid itself
\* from the second process on, and for the first anything.
OpenStatus ==
    /\ walk.at = "status"
    /\ IF Alive(walk.pid)
       THEN walk' = [walk EXCEPT !.at = "fields"]
       ELSE \E u \in Left(walk.chain, "uid"),
               g \in IF walk.chain = <<>> THEN Numbers ELSE {walk.ppid} :
               walk' = [walk EXCEPT !.at = "maps", !.uid = u, !.ppid = g]
    /\ UNCHANGED <<world, table, stale>>

\* cred_pid reads the fields, which are -1 when the process has ended since.
ReadFields ==
    /\ walk.at = "fields"
    /\ LET q == proc[walk.pid]
       IN  walk' = IF q # None
                   THEN [walk EXCEPT !.at = "maps", !.ppid = q.parent, !.uid = q.uid]
                   ELSE [walk EXCEPT !.at = "maps", !.ppid = Minus1, !.uid = Minus1]
    /\ UNCHANGED <<world, table, stale>>

\* sha256_libs, and the map of the record.  If the list of maps cannot be opened
\* the count is -1: the map has one place too few, and sha256 is not in it.
\* (ReadMapsShort, a mutant: PROCINFO_BASE_ENTRIES is one too small.)
ReadMapsShort ==
    /\ walk.at = "maps"
    /\ walk' = [walk EXCEPT !.at = "push", !.whole = FALSE]
    /\ UNCHANGED <<world, table, stale>>

ReadMaps ==
    /\ walk.at = "maps"
    /\ walk' = [walk EXCEPT !.at = "push", !.whole = Alive(walk.pid)]
    /\ UNCHANGED <<world, table, stale>>

\* The record is put in front of the list, and the next process is the parent;
\* the walk ends at init, or when there is no memory for another record.
\* (PushBack, PushSame, PushMore, mutants: the record at the other end; the
\* process again; no regard to memory.)
Record == [pid |-> walk.pid, ppid |-> walk.ppid, exe |-> walk.exe,
           uid |-> walk.uid, whole |-> walk.whole]

PushTo(list, next, limit) ==
    /\ walk.at = "push"
    /\ walk' = [walk EXCEPT !.chain = list, !.pid = next,
                            !.exe = Garbage, !.uid = Garbage,
                            !.at = IF walk.ppid = InitPid THEN "done"
                                   ELSE IF Len(list) = limit THEN "nomem"
                                   ELSE "exe"]
    /\ UNCHANGED <<world, table, stale>>

PushBack == PushTo(walk.chain \o <<Record>>, walk.ppid, MaxChain)
PushSame == PushTo(<<Record>> \o walk.chain, walk.pid, MaxChain)
PushMore == PushTo(<<Record>> \o walk.chain, walk.ppid, MaxChain + 1)
Push == PushTo(<<Record>> \o walk.chain, walk.ppid, MaxChain)

\* mycbor_unpack_procchain, and with the same text extract_procinfo of the client,
\* take the entries of a map by their positions: in a map without sha256 the place after
\* the last entry is read as the digest.
UnpackDigest(record) == IF record.whole THEN record.exe ELSE Garbage
Unpack(chain) ==
    [i \in DOMAIN chain |->
       [pid |-> chain[i].pid, ppid |-> chain[i].ppid, uid |-> chain[i].uid,
        exe |-> UnpackDigest(chain[i])]]

\* The reply has been sent.
Return ==
    /\ walk.at = "done"
    /\ walk' = Idle
    /\ UNCHANGED <<world, table, stale>>

Walk == ReadExe \/ OpenStatus \/ ReadFields \/ ReadMaps \/ Push \/ Return

Others ==
    \/ \E p \in Pids \cup Roots, c \in Pids, x \in Exes, u \in Uids :
          /\ p \in Roots \/ Alive(p)
          /\ Birth(p, c, x, u)
    \/ \E p \in Pids, x \in Exes, u \in Uids : Exec(p, x, u)
    \/ \E p \in Pids : Exit(p)

Next ==
    \/ Others
    \/ \E p \in Pids : Accept(p)
    \/ \E p \in Pids : Begin(p)
    \/ walk # Idle /\ Walk

Spec == Init /\ [][Next]_vars

-----------------------------------------------------------------------------
Records == [pid : Numbers, ppid : Numbers, exe : Digests,
            uid : Uids \cup {Garbage, Minus1}, whole : BOOLEAN]
Processes == [parent : Pids \cup Roots, exe : Exes, uid : Uids, line : Seq(Pids)]

WalkOK ==
    /\ walk.at \in {"exe", "status", "fields", "maps", "push", "done", "nomem"}
    /\ walk.subject \in Pids /\ walk.line \in Seq(Pids)
    /\ walk.pid \in Numbers /\ walk.ppid \in Numbers \cup {Garbage}
    /\ walk.at \notin {"exe", "status", "fields"} \/ walk.chain # <<>> => walk.ppid \in Numbers
    /\ walk.at = "fields" => walk.pid \in Pids
    /\ walk.exe \in Digests /\ walk.uid \in Uids \cup {Garbage, Minus1}
    /\ walk.whole \in BOOLEAN /\ walk.touched \subseteq Pids
    /\ walk.chain \in Seq(Records) /\ Len(walk.chain) \in 0 .. MaxChain
    /\ walk.at \notin {"done", "nomem"} => Len(walk.chain) < MaxChain

\* Every variable has the values it may have, and the list never has more
\* records than there is memory for.
TypeOK ==
    /\ proc \in [Pids -> Processes \cup {None}]
    /\ births \in 0 .. MaxBirths /\ execs \in 0 .. MaxExecs
    /\ used \subseteq Pids
    /\ table \in [Numbers -> Exes \cup {Zero, Absent}]
    /\ stale \subseteq Numbers
    /\ walk = Idle \/ WalkOK

Done == walk.at = "done"

\* The order that pica_check_ichain goes by, from the ancestor to the process
\* that asked (libcbor.c:187): if that process is still there when the list is
\* complete, and no pid was used again, the list read backwards is the process,
\* its creator, the creator of that, and so on, without a gap, although links
\* are read at different times and parents end in between.
Lineage ==
    Done /\ Alive(walk.subject) /\ births = Cardinality(used) =>
        LET pids == [i \in DOMAIN walk.chain |-> walk.chain[i].pid]
        IN  IsPrefix(Reverse(pids), <<walk.subject>> \o walk.line)

\* What the verifier unpacks from a complete list, of a process that still runs and
\* kept its pid, program and user since the walk began (libcbor.c:117): the user is
\* its user, and the digest is that of its program unless an entry of the table hid
\* it (libmeasure.c:190, 334): the pid was measured before it named this program,
\* or one measurement of it failed.  The records in which a failed read left
\* something else are those of processes that are gone, also when a later record
\* was read without failure.
RecordsTrue ==
    Done => \A i \in DOMAIN walk.chain :
              LET r == Unpack(walk.chain)[i]
              IN  Alive(r.pid) /\ r.pid \notin walk.touched =>
                     /\ r.uid = proc[r.pid].uid
                     /\ r.exe = proc[r.pid].exe \/ r.pid \in stale

\* The loop of mycbor_pack_procchain ends at pid 1 only (libcbor.c:190), and nothing
\* in it keeps it from a process that it has already visited.  Although the parents
\* of processes change while it goes from one to the next, it comes to no pid twice,
\* so that it ends after as many steps as there are processes, unless a pid is used
\* again, or it stands still: the status of a process that is gone, or of the pid 0
\* or -1, cannot be opened, and the pid is taken for its own parent.
VisitedOnce ==
    walk # Idle /\ births = Cardinality(used) =>
        \A i, j \in DOMAIN walk.chain :
            i < j /\ walk.chain[i].pid = walk.chain[j].pid
                => walk.chain[j].ppid = walk.chain[j].pid
=============================================================================
