------------------------------- MODULE ConfFile -------------------------------
(***************************************************************************)
(* The configuration file of registered processes.  conftool -a reads it,  *)
(* truncates it and writes it with one process more (src/conftool.c);      *)
(* picatest -r writes the processes it measured over it in four calls      *)
(* (pica_sgx/Enclave/picatest.c), the library in one (libpica_clnt.c).     *)
(* Nothing excludes two of them at a time, and any may be killed.          *)
(*                                                                         *)
(* The file is a sequence of units: a header, two for a process, one for a *)
(* digest of a library and one for a name.                                 *)
(***************************************************************************)
EXTENDS Integers, Sequences, FiniteSets, SequencesExt

CONSTANTS
    Writers,
    Kinds,      \* subset of {"conftool", "picatest", "library"}
    Names,      \* of programs and libraries
    Digests,
    Measured,   \* lists of processes that may be registered
    Commands,   \* programs that conftool may be asked to append
    BufLens,    \* units that the buffer of a stream may hold
    Scraps,     \* what memory that nothing was stored in may give a file
    MaxEntries, \* bound on the processes in the file
    NoFile,     \* the digest of what cannot be read
    Zeros,      \* a digest that nothing was stored in
    Absent,     \* no such file
    Garbage,    \* what is made of other bytes
    Faults      \* subset of {"kill", "overlap"}

Libraries == [path : Names, digest : Digests]
Infos == [path : Names, digest : Digests, libs : Seq(Libraries)]

\* A program may be there or not, and so may its libraries and the command that
\* lists them.
Programs ==
    [path : Names, digest : Digests \cup {NoFile}, listed : BOOLEAN,
     libs : Seq([path : Names, digest : Digests \cup {NoFile}])]

\* What a unit may be, and what may be read as a process from any units.
AnyUnit ==
    [unit : {"head"}, procs : Nat, digs : Nat, strs : Nat] \cup
    [unit : {"proc"}, half : {0, 1}, digest : Digests, count : Nat, spos : Nat, fpos : Nat] \cup
    [unit : {"dig"}, digest : Digests, spos : Nat] \cup
    [unit : {"name"}, name : Names] \cup [unit : {"none"}]
Readings ==
    [path : Names \cup {Garbage}, digest : Digests \cup {Garbage},
     libs : Seq([path : Names \cup {Garbage}, digest : Digests \cup {Garbage}])]

ASSUME ConfAssumption ==
    /\ Kinds \subseteq {"conftool", "picatest", "library"}
    /\ Measured \subseteq Seq(Infos) \ {<<>>}
    /\ Commands \subseteq Programs
    /\ MaxEntries \in Nat /\ BufLens \subseteq Nat \ {0}
    /\ Scraps \subseteq Seq(AnyUnit) \ {<<>>}
    /\ Faults \subseteq {"kill", "overlap"}
    /\ Zeros \in Digests /\ NoFile \notin Digests
    /\ Garbage \notin Names \cup Seq(Readings) /\ Absent \notin Seq(AnyUnit)

VARIABLES
    file,       \* Absent, or the units
    writer,     \* writer[w]: the local state of a writer
    version,    \* history: the processes that were registered
    intact      \* the last change was made by a writer alone, to its end

vars == <<file, writer, version, intact>>

-----------------------------------------------------------------------------
(* The format.                                                             *)

\* The libraries of the processes before the i-th.
Before(infos, i) ==
    LET f[k \in 1 .. Len(infos) + 1] ==
          IF k = 1 THEN 0 ELSE f[k - 1] + Len(infos[k - 1].libs)
    IN  f[i]
LibCount(infos) == Before(infos, Len(infos) + 1)

\* The process that the k-th library belongs to, and that library.
OwnerOf(infos, k) ==
    CHOOSE i \in DOMAIN infos : Before(infos, i) < k /\ k <= Before(infos, i + 1)
LibAt(infos, k) == infos[OwnerOf(infos, k)].libs[k - Before(infos, OwnerOf(infos, k))]

\* A process has the positions of its name and of its first digest; the names are
\* those of each process and then of its libraries.
\* (SectionsFromOne, a mutant: the digests are not counted on from one process to the
\* next.)
ProcUnit(infos, i, half, base) ==
    [unit |-> "proc", half |-> half, digest |-> infos[i].digest,
     count |-> Len(infos[i].libs), spos |-> i + Before(infos, i), fpos |-> 1 + base]

Procs(infos, bases) ==
    [k \in 1 .. 2 * Len(infos) |->
       ProcUnit(infos, (k + 1) \div 2, k % 2, bases[(k + 1) \div 2])]

Digs(infos) ==
    [k \in 1 .. LibCount(infos) |->
       [unit |-> "dig", digest |-> LibAt(infos, k).digest, spos |-> OwnerOf(infos, k) + k]]

\* The process that the p-th name belongs to.
Namer(infos, p) ==
    CHOOSE i \in DOMAIN infos :
        i + Before(infos, i) <= p /\ p <= i + Before(infos, i + 1)
Strs(infos) ==
    [p \in 1 .. Len(infos) + LibCount(infos) |->
       LET i == Namer(infos, p)
           j == p - i - Before(infos, i)
       IN  [unit |-> "name", name |-> IF j = 0 THEN infos[i].path ELSE infos[i].libs[j].path]]

Header(infos) ==
    [unit |-> "head", procs |-> Len(infos), digs |-> LibCount(infos),
     strs |-> Len(infos) + LibCount(infos)]

SectionsBy(infos, bases) ==
    <<<<Header(infos)>>, Procs(infos, bases), Digs(infos), Strs(infos)>>
SectionsFromOne(infos) == SectionsBy(infos, [i \in DOMAIN infos |-> 0])
Sections(infos) == SectionsBy(infos, [i \in DOMAIN infos |-> Before(infos, i)])
Units(infos) ==
    LET s == Sections(infos)
    IN  s[1] \o s[2] \o s[3] \o s[4]

-----------------------------------------------------------------------------
(* Reading.                                                                *)

\* A place that was never written, in a hole or after the end, is none.
At(units, k) == IF k \in DOMAIN units THEN units[k] ELSE [unit |-> "none"]

\* The pointers of build_conf and read_conf: the positions are relative to the
\* sections, whose places follow from the header.
ProcAt(units, h, i) ==
    LET proc == At(units, 2 * i)
        second == At(units, 2 * i + 1)
        digs == 1 + 2 * h.procs
        name(k) == LET u == At(units, digs + h.digs + k)
                   IN  IF u.unit = "name" THEN u.name ELSE Garbage
        lib(k) == LET d == At(units, digs + k)
                  IN  IF d.unit = "dig" THEN [path |-> name(d.spos), digest |-> d.digest]
                      ELSE [path |-> Garbage, digest |-> Garbage]
    IN  IF proc.unit = "proc" /\ proc.half = 1 /\ second = [proc EXCEPT !.half = 0]
        THEN [path |-> name(proc.spos), digest |-> proc.digest,
              libs |-> [j \in 1 .. proc.count |-> lib(proc.fpos + j - 1)]]
        ELSE [path |-> Garbage, digest |-> Garbage, libs |-> <<>>]

IsHeader(units) == At(units, 1).unit = "head"

\* Neither conftool nor picatest compares the header with what was read.
ReadUnchecked(units) ==
    IF IsHeader(units)
    THEN [i \in 1 .. units[1].procs |-> ProcAt(units, units[1], i)]
    ELSE Garbage

\* build_conf of the library does; 0 processes is its error.
\* (BuildAnyLength, a mutant: without the size check.)
Expected(h) == 1 + 2 * h.procs + h.digs + h.strs
BuildAnyLength(units) == IF IsHeader(units) THEN ReadUnchecked(units) ELSE <<>>
build_conf(units) ==
    IF IsHeader(units) /\ Len(units) = Expected(units[1])
    THEN ReadUnchecked(units) ELSE <<>>

-----------------------------------------------------------------------------
(* Writing.                                                                *)

None == [at |-> "none"]
Active(w) == writer[w].at \notin {"none", "end"}
Alone(w) == \A v \in Writers \ {w} : ~Active(v)

Init ==
    /\ file \in {Absent} \cup {Units(m) : m \in Measured}
    /\ version = IF file = Absent THEN <<>> ELSE ReadUnchecked(file)
    /\ writer = [w \in Writers |-> None]
    /\ intact = TRUE

\* A writer begins, and no other that is under way is alone any more.
Begin(w, at, kind, infos, todo, cuts) ==
    /\ writer[w] = None
    /\ Alone(w) \/ "overlap" \in Faults
    /\ writer' = [v \in Writers |->
                    IF v = w
                    THEN [at |-> at, kind |-> kind, infos |-> infos, todo |-> todo,
                          cuts |-> cuts, pos |-> 1, alone |-> Alone(w), sound |-> intact]
                    ELSE IF Active(v) THEN [writer[v] EXCEPT !.alone = FALSE]
                    ELSE writer[v]]

\* read_binary measures the program and its libraries.  It returns how many there are,
\* or that it could not; a library that cannot be read is counted, and its digest
\* is that of memory that was cleared.
read_binary(cmd) ==
    [count |-> CASE cmd.digest = NoFile -> -1
                 [] cmd.digest # NoFile /\ ~cmd.listed -> -2
                 [] OTHER -> Len(cmd.libs),
     info |-> [path |-> cmd.path, digest |-> cmd.digest,
               libs |-> [j \in DOMAIN cmd.libs |->
                           [cmd.libs[j] EXCEPT !.digest = IF @ = NoFile THEN Zeros ELSE @]]]]

\* read_conf: what the file has, or nothing.
InFile == IF file = Absent THEN Garbage ELSE ReadUnchecked(file)

Unset == [path |-> Garbage, digest |-> Garbage, libs |-> <<>>]

\* append_conf ends when there is no library.  That read_conf failed is ignored, and
\* then nothing was stored in the number of processes and in the pointer to them: with
\* 0 a new file is made, copying them may end the run, or what is copied are
\* no processes.  What is no header is taken for one.
\* (ReplaceLast, a mutant: proc_cnt is not counted up.)
ReadConfFor(w, cmd, grown) ==
    /\ "conftool" \in Kinds
    /\ LET new == read_binary(cmd)
       IN  IF new.count <= 0
           THEN Begin(w, "end", "conftool", <<>>, <<>>, <<>>)
           ELSE IF InFile # Garbage
           THEN Len(InFile) < MaxEntries /\ Begin(w, "open", "conftool", grown, <<>>, <<>>)
           ELSE \E at \in {"open", "end"}, infos \in {<<new.info>>, <<Unset, new.info>>} :
                   Begin(w, at, "conftool", infos, <<>>, <<>>)
    /\ UNCHANGED <<file, version, intact>>

ReplaceLast(w, cmd) == ReadConfFor(w, cmd, Append(Front(InFile), read_binary(cmd).info))
ReadConf(w, cmd) == ReadConfFor(w, cmd, Append(InFile, read_binary(cmd).info))

HasGarbage(infos) ==
    \E i \in DOMAIN infos :
        Garbage \in {infos[i].path} \cup {infos[i].libs[j].path : j \in DOMAIN infos[i].libs}

\* fopen(ppath, "w") truncates the file.  After it the lengths of the names are
\* taken; when one is not there that ends the run, or whatever is found is spilled.
Truncate(w) ==
    /\ writer[w].at = "open" /\ writer[w].kind = "conftool"
    /\ file' = <<>>
    /\ intact' = FALSE
    /\ \/ /\ ~HasGarbage(writer[w].infos)
          /\ writer' = [writer EXCEPT ![w].at = "write", ![w].todo = Units(writer[w].infos)]
       \/ /\ HasGarbage(writer[w].infos)
          /\ \E at \in {"end", "spill"}, scrap \in Scraps :
                writer' = [writer EXCEPT ![w].at = at, ![w].todo = scrap,
                                         ![w].infos = Garbage, ![w].sound = FALSE]
    /\ UNCHANGED version

\* Write units at the writer's own position of the file; no units are no write.
Put(units, pos) ==
    IF units = <<>> THEN file ELSE
    [k \in 1 .. IF Len(file) < pos + Len(units) - 1 THEN pos + Len(units) - 1 ELSE Len(file) |->
       IF k \in pos .. pos + Len(units) - 1 THEN units[k - pos + 1] ELSE At(file, k)]

\* The history: the file is whole when a writer that was alone has written all,
\* and if it added to what was there that was whole.  Then conftool has registered
\* one program more, and the others what they measured and nothing else.
Finish(w) ==
    LET r == writer[w]
    IN  /\ writer' = [writer EXCEPT ![w].at = "end", ![w].todo = <<>>, ![w].cuts = <<>>]
        /\ intact' = (r.alone /\ (r.kind = "conftool" => r.sound))
        /\ version' = IF ~intact' THEN version
                      ELSE IF r.kind = "conftool" THEN Append(version, Last(r.infos)) ELSE r.infos

\* fwrite, and fclose with what is left: the stream is flushed when its buffer is
\* full.
Flush(w) ==
    /\ writer[w].at \in {"write", "spill"} /\ writer[w].kind = "conftool"
    /\ \E n \in {k \in BufLens : k < Len(writer[w].todo)} \cup {Len(writer[w].todo)} :
          /\ file' = Put(SubSeq(writer[w].todo, 1, n), writer[w].pos)
          /\ IF n = Len(writer[w].todo)
             THEN Finish(w)
             ELSE /\ writer' = [writer EXCEPT ![w].todo = SubSeq(@, n + 1, Len(@)),
                                              ![w].pos = @ + n]
                  /\ UNCHANGED <<version, intact>>

\* reg_config opens the file without truncating it.  picatest has a call for each
\* section, the library one for all.
CutsOf(kind, infos) ==
    IF kind = "picatest" THEN [i \in 1 .. 4 |-> Len(Sections(infos)[i])]
    ELSE <<Len(Units(infos))>>

Open(w, kind, infos) ==
    /\ kind \in Kinds \cap {"picatest", "library"}
    /\ Begin(w, "write", kind, infos, Units(infos), CutsOf(kind, infos))
    /\ file' = IF file = Absent THEN <<>> ELSE file
    /\ intact' = (intact /\ file # Absent)
    /\ UNCHANGED version

\* ocall_write of the next section, or file_seal_write.
\* (WriteAgain, a mutant: the position of the file does not move.)
WriteTo(w, next) ==
    /\ writer[w].at = "write" /\ writer[w].kind # "conftool"
    /\ LET n == writer[w].cuts[1]
       IN  /\ file' = Put(SubSeq(writer[w].todo, 1, n), writer[w].pos)
           /\ IF Len(writer[w].cuts) = 1
              THEN Finish(w)
              ELSE /\ writer' = [writer EXCEPT ![w].todo = SubSeq(@, n + 1, Len(@)),
                                               ![w].cuts = Tail(@), ![w].pos = next]
                   /\ intact' = FALSE
                   /\ UNCHANGED version

WriteAgain(w) == WriteTo(w, writer[w].pos)
Write(w) == WriteTo(w, writer[w].pos + writer[w].cuts[1])

\* A writer is killed.
Kill(w) ==
    /\ "kill" \in Faults
    /\ Active(w)
    /\ writer' = [writer EXCEPT ![w].at = "end"]
    /\ UNCHANGED <<file, version, intact>>

Next ==
    \E w \in Writers :
        \/ \E c \in Commands : ReadConf(w, c)
        \/ Truncate(w) \/ Flush(w)
        \/ \E kind \in Kinds, m \in Measured : Open(w, kind, m)
        \/ Write(w) \/ Kill(w)

Spec == Init /\ [][Next]_vars

-----------------------------------------------------------------------------
WriterOK(r) ==
    /\ r.at \in {"open", "write", "spill", "end"}
    /\ r.kind \in Kinds
    /\ r.alone \in BOOLEAN /\ r.sound \in BOOLEAN
    \* what is left to write is the end of the file it means, at its place
    /\ r.at = "write" =>
          /\ r.infos \in Seq(Infos) \ {<<>>}
          /\ r.todo # <<>>
          /\ r.todo = SubSeq(Units(r.infos), r.pos, Len(Units(r.infos)))

\* Every variable has the values it may have, and a writer's position always is
\* that of what it writes next.
TypeOK ==
    /\ file # Absent =>
          \A k \in DOMAIN file : file[k].unit \in {"head", "proc", "dig", "name", "none"}
    /\ \A w \in Writers : writer[w] = None \/ WriterOK(writer[w])
    /\ intact \in BOOLEAN

\* conftool -a keeps what is registered (conftool.c:211), and append_conf, reg_config
\* and the readers agree, each with its own arithmetic of positions: after a writer
\* that was alone conftool and picatest read what was registered, also when
\* it was written over a longer file that is not truncated (picatest.c:224) or
\* over what a killed writer left; so does the library, if the file is as long as that.
WholeIsVersion ==
    intact =>
        IF file = Absent THEN version = <<>>
        ELSE /\ ReadUnchecked(file) = version
             /\ Len(file) = Len(Units(version)) => build_conf(file) = version

\* The library reads what it has registered: what build_conf calls a "configuration
\* file size is short" (libpica_clnt.c:73) is not a file that reg_config wrote to its
\* end (libpica_clnt.c:108).  (It may be one: a longer list was there before.)
WholeIsAccepted == intact /\ file # Absent => build_conf(file) = version

\* "create file" (conftool.c:237): when nobody else writes and nothing is killed,
\* conftool -a leaves a whole file, also where there was none.  (It does not: Unset.)
AppendCreates ==
    \A w \in Writers :
        /\ writer[w].at = "end" /\ writer[w].kind = "conftool" /\ writer[w].infos # <<>>
        /\ \A v \in Writers \ {w} : writer[v] = None
        => file # Absent /\ intact

\* The size check of build_conf (libpica_clnt.c:69): a file that is being written,
\* or was left by a writer that was killed, is never taken for a configuration,
\* unless picatest writes it part by part over a file of the same size, two
\* write at once or conftool found none and wrote what its memory held.
Whole(r) ==
    /\ r.alone /\ r.infos # Garbage
    /\ r.kind = "picatest" => Len(r.cuts) \in {0, 4}

HalfIsRefused ==
    file # Absent /\ (\A w \in Writers : writer[w] # None => Whole(writer[w])) =>
        build_conf(file) \in
            {<<>>, version} \cup {writer[w].infos : w \in {v \in Writers : writer[v] # None}}
=============================================================================
