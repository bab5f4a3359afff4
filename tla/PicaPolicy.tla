------------------------------ MODULE PicaPolicy ------------------------------
(***************************************************************************)
(* The algorithms of the PICA library on its data: the policy that is made *)
(* of a JSON text, the table of registered processes, and the comparisons  *)
(* of a measured invocation chain with both.  There are two copies,        *)
(* src/libpica_clnt.c and pica_sgx/Enclave/libpica.c, which differ in how  *)
(* they keep the version of the policy; a definition stands for both.      *)
(*                                                                         *)
(* A comparison may read memory that was never written, or past the end of *)
(* an array; the operators that can do so return the set of outcomes.      *)
(***************************************************************************)
EXTENDS Naturals, Sequences, FiniteSets, SequencesExt

CONSTANTS
    Hash(_),    \* the bucket of a path
    Null,       \* a NULL pointer
    Unset       \* a member of a statement that nothing was stored in

-----------------------------------------------------------------------------
(* The policy.  A JSON value is a record with its type; a statement of the *)
(* text has the values of its attributes, or Unset for one it has not.     *)

IsString(obj) == obj # Unset /\ obj.type = "string"
IsArray(obj) == obj # Unset /\ obj.type = "array"
IsObject(obj) == obj # Unset /\ obj.type = "object"

\* strdup of a string; an item of another type leaves NULL.
Text(obj) == IF IsString(obj) THEN obj.val ELSE Null
Texts(obj) == [i \in DOMAIN obj.items |-> Text(obj.items[i])]

\* "Binary": "..."
ParseBinary(obj) == Text(obj)

\* "Uid": [ ... ].  json_object_get_int gives 0 for what is no number.
ParseUid(obj) ==
    IF ~IsArray(obj) THEN Unset
    ELSE [i \in DOMAIN obj.items |->
            IF obj.items[i].type = "int" THEN obj.items[i].val ELSE 0]

\* "Principal": { "Binary": ..., "Uid": ... }.  The memory of the statements is not
\* cleared: what is not there, or of another type, leaves nothing stored.
ParsePrincipal(obj) ==
    IF ~IsObject(obj) THEN [exec_path |-> Unset, uid |-> Unset]
    ELSE [exec_path |-> IF obj.binary = Unset THEN Unset ELSE ParseBinary(obj.binary),
          uid |-> ParseUid(obj.uid)]

\* Nothing asks for the sid, the effect and the resource, but a resource that is no
\* string is compared, as NULL, with "enclave".
ResourceAborts(obj) == obj # Unset /\ ~IsString(obj)

\* "InvocationChain": one chain in V0, an array of chains in V1.  In any other
\* version nothing is stored.
ParseInvchain(version, obj) ==
    CASE ~IsArray(obj) -> Unset
      [] IsArray(obj) /\ version = "V0" -> <<Texts(obj)>>
      [] IsArray(obj) /\ version = "V1" ->
            [i \in DOMAIN obj.items |-> Texts(obj.items[i])]
      [] OTHER -> Unset

\* The length of what is not an array is asked for before its type is tested, or the
\* version is read through NULL.
LengthAborts(version, obj) ==
    version = "V1" /\ \E i \in DOMAIN obj.items : obj.items[i].type # "array"
ParseAborts(version, obj) ==
    IsArray(obj) /\ (version = Null \/ LengthAborts(version, obj))

\* A statement that is no object is passed over, and counts.
ParseStatement(version, item) ==
    IF ~IsObject(item) THEN [exec_path |-> Unset, uid |-> Unset, iarray |-> Unset]
    ELSE LET principal == ParsePrincipal(item.principal)
         IN  [exec_path |-> principal.exec_path, uid |-> principal.uid,
              iarray |-> ParseInvchain(version, item.chain)]

\* The members of the object are parsed in the order of the text: statements that
\* stand before the version are parsed without it.  libpica_clnt.c has the version in
\* the policy, which is zeroed before; in libpica.c it is a global that is 0 at first,
\* and only a version that is known is stored in it.
PolicyVersion(doc) == IF doc.first = "Statement" THEN Null ELSE doc.version
ppol_ver(doc) ==
    IF doc.first = "Statement" \/ doc.version \notin {"V0", "V1"} THEN Unset ELSE doc.version

ParsePolicy(version, doc) ==
    [i \in DOMAIN doc.stmts |-> ParseStatement(version, doc.stmts[i])]

\* A binary that is no string is registered under the path NULL, and one that
\* was not stored under what its pointer happens to be.
PolicyCrashes(version, doc) ==
    \E i \in DOMAIN doc.stmts :
        \/ /\ IsObject(doc.stmts[i])
           /\ \/ ParseAborts(version, doc.stmts[i].chain)
              \/ ResourceAborts(doc.stmts[i].resource)
        \/ ParseStatement(version, doc.stmts[i]).exec_path = Null
PolicyMayCrash(stmts) == \E i \in DOMAIN stmts : stmts[i].exec_path = Unset

-----------------------------------------------------------------------------
(* The hash table: a bucket is its head followed by its list.              *)

Entry(which, path, addr) == [type |-> which, path |-> path, addr |-> addr]
IsFor(ent, which, path) == ent.type = which /\ ent.path = path

EmptyTable(buckets) == [h \in buckets |-> <<>>]

\* What is there already is not replaced.
\* (RegAnyType, a mutant: the type is not compared.)
RegAnyType(table, which, addr, path) ==
    LET bucket == table[Hash(path)]
    IN  IF \E i \in DOMAIN bucket : bucket[i].path = path THEN table
        ELSE [table EXCEPT ![Hash(path)] = Append(@, Entry(which, path, addr))]
RegHashtable(table, which, addr, path) ==
    LET bucket == table[Hash(path)]
    IN  IF \E i \in DOMAIN bucket : IsFor(bucket[i], which, path) THEN table
        ELSE [table EXCEPT ![Hash(path)] = Append(@, Entry(which, path, addr))]

\* The first entry of the bucket with this type and path.
FindHashtable(table, path, which) ==
    LET bucket == table[Hash(path)]
        found == {i \in DOMAIN bucket : IsFor(bucket[i], which, path)}
    IN  IF found = {} THEN Null
        ELSE bucket[CHOOSE i \in found : \A j \in found : i <= j].addr

\* The loops over the entries of the configuration and the statements of the
\* policy: the table after each of them.
RegEntries(table, ents) ==
    LET after[k \in 0 .. Len(ents)] ==
          IF k = 0 THEN table
          ELSE RegHashtable(after[k - 1], ents[k].type, ents[k].addr, ents[k].path)
    IN  after[Len(ents)]

RegProcinfos(table, infos) ==
    RegEntries(table, [i \in DOMAIN infos |-> Entry("procinfo", infos[i].path, infos[i])])
RegStatements(table, stmts) ==
    RegEntries(table, [i \in DOMAIN stmts |-> Entry("policy", stmts[i].exec_path, stmts[i])])

-----------------------------------------------------------------------------
(* The comparisons.  libs of a process is a function from the names of its *)
(* libraries to their digests.                                             *)

SameDigests(reg, fresh) ==
    \A l \in DOMAIN fresh.libs \cap DOMAIN reg.libs : fresh.libs[l] = reg.libs[l]

\* A library of the measured process that is not registered is passed over:
\* only the number of libraries has to be the same.
\* (DigestOfLibs, DigestNoLibs, mutants: the executable is not compared; a process
\* without libraries is refused.)
DigestOfLibs(reg, fresh) ==
    /\ Cardinality(DOMAIN reg.libs) = Cardinality(DOMAIN fresh.libs)
    /\ SameDigests(reg, fresh)
DigestNoLibs(reg, fresh) == reg.digest = fresh.digest /\ DOMAIN fresh.libs # {}
VerifyDigest(reg, fresh) ==
    /\ Cardinality(DOMAIN reg.libs) = Cardinality(DOMAIN fresh.libs)
    /\ reg.digest = fresh.digest
    /\ SameDigests(reg, fresh)

\* pica_verify_binaries: a process that is not found fails as well.
VerifyBinary(table, info) ==
    LET reg == FindHashtable(table, info.path, "procinfo")
    IN  reg # Null /\ VerifyDigest(reg, info)
VerifyBinaries(table, infos) ==
    \A i \in DOMAIN infos : VerifyBinary(table, infos[i])

\* One alternative: the processes are compared in order, over the length of the
\* measured chain.  NULL is no string, and past the end of the alternative there
\* may be anything.
\* (CompareEnds, a mutant: only the last process is compared.)
CompareEnds(chain, infos) ==
    {IF chain # <<>> /\ Last(chain) = Last(infos).path THEN "yes" ELSE "no"}
CompareChain(chain, infos) ==
    LET differs == {j \in DOMAIN infos :
                      j > Len(chain) \/ chain[j] # infos[j].path}
        first == CHOOSE j \in differs : \A k \in differs : j <= k
    IN  IF differs = {} THEN {"yes"}
        ELSE IF first > Len(chain) THEN {"yes", "no", "crash"}
        ELSE IF chain[first] = Null THEN {"crash"}
        ELSE {"no"}

\* pica_check_ichain: rc becomes 0 at the first alternative that does not match
\* and stays 0; the loop ends at one that matches.  With no alternatives the
\* check succeeds, and an array that was never set is any.
CheckIchain(iarray, infos) ==
    LET Of(i) == CompareChain(iarray[i], infos)
    IN  IF iarray = Unset THEN {"yes", "no", "crash"}
        ELSE IF iarray = <<>> THEN {"yes"}
        ELSE (Of(1) \ {"no"}) \cup
             (IF "no" \notin Of(1) THEN {}
              ELSE {"no"} \cup
                   (IF \E i \in 2 .. Len(iarray) : "crash" \in Of(i)
                    THEN {"crash"} ELSE {}))

\* pica_check_uids: the real user of every process is listed.  The memory of a
\* statement is not cleared: a list that was never set is any, and may have the users.
MatchUid(uid, id) == id \in ToSet(uid)
\* (SomeUid, a mutant: of one process.)
SomeUid(uid, infos) ==
    {IF uid # Unset /\ \E i \in DOMAIN infos : infos[i].ruid \in ToSet(uid)
     THEN "yes" ELSE "no"}
CheckUids(uid, infos) ==
    IF uid = Unset THEN {"yes", "no", "crash"}
    ELSE {IF \A i \in DOMAIN infos : MatchUid(uid, infos[i].ruid)
          THEN "yes" ELSE "no"}

\* pica_find_policy: the first statement about the binary, or NULL.
IsAbout(stmt, path) == stmt.exec_path = path
FindPolicy(stmts, path) ==
    LET about == {i \in DOMAIN stmts : IsAbout(stmts[i], path)}
    IN  IF about = {} THEN Null
        ELSE stmts[CHOOSE i \in about : \A j \in about : i <= j]
=============================================================================
