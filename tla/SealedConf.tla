----------------------------- MODULE SealedConf -----------------------------
(***************************************************************************)
(* The configuration file of the enclave build.  What is registered is     *)
(* sealed and written over the file in one call (reg_config,               *)
(* libpica_clnt.c; file_seal_write, libio.c).  The client reads it back in *)
(* the enclave (file_seal_read_close), the tool to show it through an      *)
(* enclave of its own (pica_tools/conftool.c).  sealtest is the trial of   *)
(* the sealing: it truncates its file.                                     *)
(*                                                                         *)
(* A sealed file is a sequence of units, a head that holds its length and  *)
(* one for each unit of data; every sealing has its own key stream, so     *)
(* that units of two sealings do not make one.                             *)
(***************************************************************************)
EXTENDS Naturals, Sequences

CONSTANTS
    Writers, Readers,
    Data,       \* what may be sealed
    Size,       \* Size[d]: its units
    Trials,     \* subset of {"library", "sealtest"}: whose file it is
    Room,       \* units of the buffer of sealtest, outd
    Absent,     \* no such file
    Nothing,    \* the reader has no data, and knows
    Wild,       \* memory that nothing was stored in is used
    Faults      \* subset of {"kill", "short", "overlap"}

\* A piece of a sealing, or a place that nothing was written in.
Unit == [seal : Writers \cup {"before"}, data : Data, part : Nat \ {0}] \cup [part : {0}]

ASSUME SealedAssumption ==
    /\ {Absent, Nothing} \cap Data = {} /\ Absent \notin Seq(Unit)
    /\ Size \in [Data -> Nat \ {0}]
    /\ Trials \subseteq {"library", "sealtest"}
    /\ Room \in Nat
    /\ Faults \subseteq {"kill", "short", "overlap"}

VARIABLES
    use,        \* the trial, or the library
    file,       \* Absent, or the units
    writer,     \* writer[w]: the local state of a writer
    reader,     \* reader[r]: the local state of a reader
    version,    \* history: the data that was sealed last, or Absent
    intact      \* history: by a writer alone, to its end

vars == <<use, file, writer, reader, version, intact>>

-----------------------------------------------------------------------------
(* Sealing.                                                                *)

\* sgx_calc_sealed_data_size, sgx_seal_data.
Sealed(id, d) ==
    [k \in 1 .. Size[d] + 1 |-> [seal |-> id, data |-> d, part |-> k]]

\* The length that the head holds; the rest of a longer file is left alone.
PayloadOf(units) == Size[units[1].data] + 1

IsSealed(units, n) ==
    n <= Len(units) /\ SubSeq(units, 1, n) = Sealed(units[1].seal, units[1].data)

\* sgx_unseal_data: the data, if the tag is theirs.
\* (UnsealWholeFile, a mutant: the length is that of the file.)
Begins(units) == units # <<>> /\ units[1].part = 1
UnsealWholeFile(units) ==
    IF Begins(units) /\ IsSealed(units, Len(units)) THEN units[1].data ELSE Nothing
Unsealed(units) ==
    IF Begins(units) /\ IsSealed(units, PayloadOf(units)) THEN units[1].data ELSE Nothing

-----------------------------------------------------------------------------
None == [at |-> "none"]
Active(w) == writer[w].at \notin {"none", "end"}
Alone(w) == \A v \in Writers \ {w} : ~Active(v)

Init ==
    /\ use \in Trials
    /\ version \in Data \cup {Absent}
    /\ file = IF version = Absent THEN Absent ELSE Sealed("before", version)
    /\ writer = [w \in Writers |-> None]
    /\ reader = [r \in Readers |-> None]
    /\ intact = TRUE

\* Whoever is reading reads a file that is not at rest.
Disturbed ==
    [r \in Readers |-> IF reader[r].at = "read" THEN [reader[r] EXCEPT !.quiet = FALSE]
                       ELSE reader[r]]

\* A writer comes to the file: no other is alone any more.
Begin(w, state) ==
    /\ writer[w] = None
    /\ Alone(w) \/ "overlap" \in Faults
    /\ writer' = [v \in Writers |->
                    IF v = w THEN state
                    ELSE IF Active(v) THEN [writer[v] EXCEPT !.alone = FALSE]
                    ELSE writer[v]]
    /\ reader' = Disturbed
    /\ intact' = FALSE
    /\ UNCHANGED <<use, version>>

Writing(w, d) ==
    [at |-> "write", units |-> Sealed(w, d), pos |-> 1, alone |-> Alone(w)]

\* reg_config: the file is made when there is none, and is not truncated.
Open(w, d) ==
    /\ use = "library"
    /\ Begin(w, Writing(w, d))
    /\ file' = IF file = Absent THEN <<>> ELSE file

\* sealtest -s: the file is truncated before the data is sealed, into a buffer of
\* Room units that its length is not compared with.
Sealtest(w, d) ==
    /\ use = "sealtest"
    /\ Begin(w, IF Size[d] + 1 <= Room THEN Writing(w, d) ELSE [at |-> "end", said |-> Wild])
    /\ file' = <<>>

\* A unit reaches the file.
PutAt(units, k, unit) ==
    [i \in 1 .. IF k > Len(units) THEN k ELSE Len(units) |->
       IF i = k THEN unit ELSE IF i \in DOMAIN units THEN units[i] ELSE [part |-> 0]]

Store(w) ==
    /\ writer[w].at = "write" /\ writer[w].pos <= Len(writer[w].units)
    /\ file' = PutAt(file, writer[w].pos, writer[w].units[writer[w].pos])
    /\ writer' = [writer EXCEPT ![w].pos = @ + 1]
    /\ reader' = Disturbed
    /\ UNCHANGED <<use, version, intact>>

\* write returns what it has written.  That it is less makes 0 of the result of
\* file_seal_write, which reg_config takes for success, as fwrite's is not looked at.
Close(w) ==
    /\ writer[w].at = "write"
    /\ LET wrote == writer[w].pos = Len(writer[w].units) + 1
       IN  /\ wrote \/ "short" \in Faults
           /\ intact' = (wrote /\ writer[w].alone)
    /\ version' = writer[w].units[1].data
    /\ writer' = [writer EXCEPT ![w] = [at |-> "end", said |-> "done"]]
    /\ UNCHANGED <<use, file, reader>>

Kill(w) ==
    /\ "kill" \in Faults
    /\ Active(w)
    /\ writer' = [writer EXCEPT ![w] = [at |-> "end", said |-> "killed"]]
    /\ UNCHANGED <<use, file, reader, version, intact>>

-----------------------------------------------------------------------------
(* Reading.                                                                *)

\* A reader ends.  The history: nothing was written since it took the size, and
\* what the file then held.
Get(r, got) ==
    reader' = [reader EXCEPT
                 ![r] = [at |-> "end", kind |-> @.kind, quiet |-> @.quiet, want |-> @.want,
                         got |-> got]]

\* file_size.  Without a file the client has no entries; the tool says so and shows
\* the variables that read_conf has not set.
SizeOf(r, kind) ==
    /\ reader[r] = None
    /\ kind \in IF use = "library" THEN {"client", "conftool"} ELSE {"sealtest"}
    /\ LET quiet == intact /\ \A w \in Writers : ~Active(w)
       IN  reader' = [reader EXCEPT
                        ![r] = IF file = Absent
                               THEN [at |-> "end", kind |-> kind, quiet |-> quiet,
                                     want |-> version,
                                     got |-> IF kind = "conftool" THEN Wild ELSE Nothing]
                               ELSE [at |-> "read", kind |-> kind, quiet |-> quiet,
                                     want |-> version, size |-> Len(file), buf |-> <<>>]]
    /\ UNCHANGED <<use, file, writer, version, intact>>

\* file_read_close copies what the file has, up to the size; a writer may come in
\* between.
Copy(r) ==
    /\ reader[r].at = "read"
    /\ Len(reader[r].buf) < reader[r].size /\ Len(reader[r].buf) < Len(file)
    /\ reader' = [reader EXCEPT ![r].buf = Append(@, file[Len(@) + 1])]
    /\ UNCHANGED <<use, file, writer, version, intact>>

Ended(r) ==
    /\ reader[r].at = "read"
    /\ Len(reader[r].buf) = reader[r].size \/ Len(reader[r].buf) >= Len(file)

\* file_seal_read_close and build_conf: when it cannot be unsealed the length of the
\* head is returned and no buffer, and when less was read a null one.
ReadByClient(r) ==
    /\ Ended(r) /\ reader[r].kind = "client"
    /\ LET d == Unsealed(reader[r].buf)
       IN  Get(r, IF Len(reader[r].buf) = reader[r].size /\ d # Nothing THEN d ELSE Wild)
    /\ UNCHANGED <<use, file, writer, version, intact>>

\* read_conf and ecall_unseal: nobody looks at what the enclave returns, and the
\* buffer it did not fill is returned with zeros, which are no processes.  A file of
\* no length has no room for a header.
ReadByTool(r) ==
    /\ Ended(r) /\ reader[r].kind = "conftool"
    /\ Get(r, IF reader[r].size = 0 \/ Len(reader[r].buf) # reader[r].size
              THEN Wild ELSE Unsealed(reader[r].buf))
    /\ UNCHANGED <<use, file, writer, version, intact>>

\* sealtest -u: nothing comes out of what cannot be unsealed, and what can be is copied
\* into outd, whose room it is not compared with.
Outd(d) == IF d # Nothing /\ Size[d] > Room THEN Wild ELSE d
ReadBySealtest(r) ==
    /\ Ended(r) /\ reader[r].kind = "sealtest"
    /\ Get(r, IF Len(reader[r].buf) # reader[r].size
              THEN Nothing ELSE Outd(Unsealed(reader[r].buf)))
    /\ UNCHANGED <<use, file, writer, version, intact>>

Next ==
    \/ \E w \in Writers :
          \/ \E d \in Data : Open(w, d) \/ Sealtest(w, d)
          \/ Store(w) \/ Close(w) \/ Kill(w)
    \/ \E r \in Readers :
          \/ \E kind \in {"client", "conftool", "sealtest"} : SizeOf(r, kind)
          \/ Copy(r) \/ ReadByClient(r) \/ ReadByTool(r) \/ ReadBySealtest(r)

Spec == Init /\ [][Next]_vars

-----------------------------------------------------------------------------
\* A reader of a file at rest, whose last writer was alone and came to its end,
\* gets what that writer sealed, whatever the file was before: longer, torn or not
\* there.  The writer does not truncate it, so the two agree on the length in the
\* head only (libio.c:324 and :357).  sealtest does if the data has room in outd.
QuietRead ==
    \A r \in Readers :
        reader[r].at = "end" /\ reader[r].quiet =>
            reader[r].got =
                IF reader[r].want = Absent
                THEN IF reader[r].kind = "conftool" THEN Wild ELSE Nothing
                ELSE IF reader[r].kind = "sealtest" THEN Outd(reader[r].want)
                ELSE reader[r].want

\* reg_config says "Cannot write a file" when its registration is not in the file
\* (libpica_clnt.c:200): one that has ended without that, and with nobody beside it, has
\* left a file that is unsealed as what it registered.  (It may not have: file_seal_write
\* returns 0 after a short write, libio.c:326.)
DoneIsStored ==
    \A w \in Writers :
        /\ use = "library" /\ writer[w].at = "end" /\ writer[w].said = "done"
        /\ \A v \in Writers \ {w} : writer[v] = None
        => Unsealed(file) = version
=============================================================================
