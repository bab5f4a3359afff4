------------------------------ MODULE MCConfFile ------------------------------
\* Small instances of ConfFile for TLC.
EXTENDS ConfFile, TLC

Lib(name, digest) == [path |-> name, digest |-> digest]
Sh == [path |-> "sh", digest |-> "d1", libs |-> <<Lib("libc", "d2")>>]
App == [path |-> "app", digest |-> "d3", libs |-> <<Lib("libc", "d2"), Lib("libm", "d4")>>]
Su == [path |-> "su", digest |-> "d5", libs |-> <<>>]

\* A program that can be appended, although one of its libraries is not there, one that
\* has no libraries, one that is not there, and one whose libraries cannot be listed.
Command(info) == [path |-> info.path, digest |-> info.digest, listed |-> TRUE, libs |-> info.libs]
Half == [Command(App) EXCEPT !.libs[2].digest = NoFile]
MCNames == {"sh", "app", "su", "libc", "libm"}
MCDigests == {"d1", "d2", "d3", "d4", "d5", Zeros}

\* A chain of one, and one of two, which is longer.
MCMeasured == {<<Sh>>, <<Su, Sh>>}
MCCommands ==
    {Half, Command(Su), [Half EXCEPT !.digest = NoFile], [Half EXCEPT !.listed = FALSE]}

\* One that has the size its header says and no name, and one that has not.
Second(unit) == [unit EXCEPT !.half = 0]
Junk ==
    LET proc == [unit |-> "proc", half |-> 1, digest |-> Zeros, count |-> 0, spos |-> 0, fpos |-> 1]
    IN  <<[unit |-> "head", procs |-> 1, digs |-> 0, strs |-> 0], proc, Second(proc)>>
MCScraps == {Junk, Tail(Junk)}

\* The writers are alike.
Alike == Permutations(Writers)
=============================================================================
