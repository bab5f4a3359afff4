------------------------------ MODULE PicaVerify ------------------------------
(***************************************************************************)
(* The programs that ask the Attester Daemon for a measurement and compare *)
(* it with a configuration and a policy: pica_poc/Enclave/main.c with      *)
(* src/libpica_clnt.c ("poc"), and pica_sgx/Enclave/picatest.c with        *)
(* libpica.c beside it ("sgx").  Several run at a time; each registers     *)
(* what it measures or verifies it.  The programs that are measured are    *)
(* exchanged in between.                                                   *)
(***************************************************************************)
EXTENDS PicaPolicy

CONSTANTS
    Clients,    \* the runs
    Variants,   \* subset of {"poc", "sgx"}
    Chains,     \* what may be measured: lists of processes
    Policies,   \* the texts a policy file may have
    Aks,        \* the key of the TPM: whether it signs, its type, scheme and hash
    Keys,       \* ak_pub.pem: "ours", "other", "notpem", "missing"
    RegQuotes,  \* reg_quote.bin: "same" PCR selection, or "other" or no such file
    Replies,    \* what the daemon answers (Answer)
    Buckets,
    MaxChanges  \* bound on exchanges of programs

Results == {"success", "failed", "registered", "noconf", "nopolicy", "noreply",
            "notmap", "nostmt", "crash"}

Infos == UNION {ToSet(c) : c \in Chains}

IsList(s) == s \in Seq(ToSet(s))

ASSUME VerifyAssumption ==
    /\ Variants \subseteq {"poc", "sgx"}
    /\ <<>> \notin Chains
    /\ \A c \in Chains :
          IsList(c) /\ \A i \in DOMAIN c : Hash(c[i].path) \in Buckets /\ c[i].path # Unset
    /\ Keys \subseteq {"ours", "other", "notpem", "missing"}
    /\ RegQuotes \subseteq {"same", "other"}
    /\ Replies \subseteq {"fresh", "stale", "empty", "large", "none"}
    /\ MaxChanges \in Nat
    /\ Null \notin Results /\ Null \notin Infos

\* JSON arrays are lists, also those in the array of chains.  What is stored is neither
\* NULL nor the memory from before, and every path has a bucket.
ASSUME PolicyAssumption ==
    \A doc \in Policies : doc.text \in {"missing", "bad"} \/
        /\ doc.text = "ok"
        /\ IsList(doc.stmts)
        /\ \A i \in DOMAIN doc.stmts :
              IsObject(doc.stmts[i]) /\ IsArray(doc.stmts[i].chain) =>
                 LET items == doc.stmts[i].chain.items
                 IN  IsList(items) /\ \A j \in DOMAIN items :
                                         items[j].type = "array" => IsList(items[j].items)
        /\ \A version \in {PolicyVersion(doc), ppol_ver(doc)} :
              ~PolicyCrashes(version, doc) => \A i \in DOMAIN doc.stmts :
                 LET stmt == ParseStatement(version, doc.stmts[i])
                 IN  /\ stmt # Null /\ Hash(stmt.exec_path) \in Buckets
                     /\ /\ IsObject(doc.stmts[i]) /\ IsArray(doc.stmts[i].chain)
                        /\ version \in {"V0", "V1"}
                        => stmt.iarray # Unset
                     /\ /\ IsObject(doc.stmts[i]) /\ IsObject(doc.stmts[i].principal)
                        /\ IsArray(doc.stmts[i].principal.uid)
                        => stmt.uid # Unset

VARIABLES
    variant,    \* the program
    files,      \* policy, ak_pub.pem, reg_quote.bin; the key of the TPM
    conf,       \* the configuration file
    current,    \* the chain that is measured now
    changes,    \* number of exchanges
    lastq,      \* the quote on the stack of the daemon
    registered, \* the processes that have ever been registered
    run         \* run[c]: the local state of a run

vars == <<variant, files, conf, current, changes, lastq, registered, run>>

Bits == {"QUOTE", "FRESH", "BINARIES", "CHAIN", "UIDS"}

NotStarted == [at |-> "none"]
Started(mode) ==
    [at |-> IF mode = "verify" THEN "config" ELSE "policy", mode |-> mode,
     table |-> EmptyTable(Buckets), stmts |-> <<>>, reply |-> Null,
     body |-> Unset, bits |-> {}, pstmt |-> Null, result |-> Null]

Init ==
    /\ variant \in Variants
    /\ files \in [policy : Policies, key : Keys, reg : RegQuotes, ak : Aks]
    /\ conf = Null
    /\ current \in Chains
    /\ changes = 0
    /\ lastq = Null
    /\ registered = {}
    /\ run = [c \in Clients |-> NotStarted]

EndsWith(c, result) == run' = [run EXCEPT ![c].at = "end", ![c].result = result]

-----------------------------------------------------------------------------
\* Programs are exchanged, or started in another way.
Change ==
    /\ changes < MaxChanges
    /\ changes' = changes + 1
    /\ current' \in Chains \ {current}
    /\ UNCHANGED <<variant, files, conf, lastq, registered, run>>

\* The options: with -r the run registers.
Start(c, mode) ==
    /\ run[c] = NotStarted
    /\ run' = [run EXCEPT ![c] = Started(mode)]
    /\ UNCHANGED <<variant, files, conf, current, changes, lastq, registered>>

\* pica_read_config: without a file poc gives up, and sgx goes on with memory
\* that nothing was read into.  A file that was opened and never written is empty.
ReadConfig(c) ==
    /\ run[c].at = "config"
    /\ \/ /\ conf \notin {Null, <<>>}
          /\ run' = [run EXCEPT ![c].at = "policy",
                               ![c].table = RegProcinfos(@, conf)]
       \/ /\ conf = Null /\ variant = "poc"
          /\ EndsWith(c, "noconf")
       \/ /\ conf = <<>>
          /\ \E r \in {"noconf", "crash"} : EndsWith(c, r)
       \/ /\ conf = Null /\ variant = "sgx"
          /\ \/ EndsWith(c, "crash")
             \/ run' = [run EXCEPT ![c].at = "policy"]
    /\ UNCHANGED <<variant, files, conf, current, changes, lastq, registered>>

\* pica_read_policy, in both modes.
VersionOf(doc) == IF variant = "poc" THEN PolicyVersion(doc) ELSE ppol_ver(doc)
ReadPolicy(c) ==
    /\ run[c].at = "policy"
    /\ LET doc == files.policy
       IN  CASE doc.text = "missing" -> EndsWith(c, "nopolicy")
             [] doc.text = "bad" ->
                   EndsWith(c, IF variant = "poc" THEN "nopolicy" ELSE "crash")
             [] doc.text = "ok" ->
                   IF PolicyCrashes(VersionOf(doc), doc) THEN EndsWith(c, "crash")
                   ELSE LET stmts == ParsePolicy(VersionOf(doc), doc)
                        IN  \/ run' = [run EXCEPT
                                 ![c].at = "measure", ![c].stmts = stmts,
                                 ![c].table = RegStatements(@, stmts)]
                            \/ PolicyMayCrash(stmts) /\ EndsWith(c, "crash")
    /\ UNCHANGED <<variant, files, conf, current, changes, lastq, registered>>

\* The scheme that the key of the TPM signs with, or none.
make_sig_scheme(ak) ==
    LET own == ak.scheme # "NULL"
        schemes == IF ak.type = "RSA" THEN {"RSASSA", "RSAPSS"} ELSE {"ECDSA"}
    IN  IF \/ ~ak.sign
           \/ own /\ ak.hash \notin {"NULL", "SHA256"}
           \/ ak.type \notin {"RSA", "ECC"}
           \/ own /\ ak.scheme \notin schemes
        THEN "none"
        ELSE CASE own -> ak.scheme
               [] ~own /\ ak.type = "RSA" -> "RSASSA"
               [] ~own /\ ak.type = "ECC" -> "ECDSA"
Signs == make_sig_scheme(files.ak) # "none"

\* The daemon signs the hash of the chain extended with the nonce, which is the
\* client's own, and gives the hash of the chain as app-hash.  When the key cannot be
\* used the quote is empty; when Esys_Quote fails make_tpm2_quote returns 0 and
\* its caller's stack has the quote of the call before.  A reply that does not fit
\* leaves zeros in poc.
hash_extend_sha256(chain, nonce) == [chain |-> chain, nonce |-> nonce]
Quote(c) == hash_extend_sha256(current, c)

Answer(c, kind) ==
    CASE kind = "fresh" -> [quote |-> Quote(c), body |-> current]
      [] kind = "stale" -> [quote |-> lastq, body |-> current]
      [] kind = "empty" -> [quote |-> Null, body |-> current]
      [] kind = "large" -> Unset

\* pica_request_measure.  Without a reply poc ends with -1; the host of sgx aborts, also
\* when the reply does not fit.
Aborts(kind) == kind = "none" \/ (kind = "large" /\ variant = "sgx")
Measure(c) ==
    /\ run[c].at = "measure"
    /\ \E kind \in Replies :
          /\ kind = "fresh" => Signs
          /\ kind = "stale" => Signs /\ lastq # Null
          /\ IF Aborts(kind)
             THEN EndsWith(c, IF variant = "poc" THEN "noreply" ELSE "crash") /\ UNCHANGED lastq
             ELSE /\ run' = [run EXCEPT ![c].at = "quote", ![c].reply = Answer(c, kind)]
                  /\ lastq' = IF kind = "fresh" THEN Quote(c) ELSE lastq
    /\ UNCHANGED <<variant, files, conf, current, changes, registered>>

-----------------------------------------------------------------------------
(* The quote.                                                              *)

\* pica_verify_tpm2all: the bits, and the processes that it gives to its caller,
\* which are Unset when it returns before it has assigned them.  Before the
\* signature is verified the bits are those of the extraction: quote, sign and
\* app-hash have the values of QUOTE, FRESH and BINARIES.  check_apphash returns 0
\* whether the hashes are the same or not.  read_pubkey tests its argument instead of
\* the key it has read, so that a file that is no PEM is found out by the signature.
\* (NoSignature, a mutant: the signature is not verified.)
extract_tpm2evidence(reply) ==
    IF reply = Unset \/ reply.quote = Null THEN {} ELSE {"QUOTE", "FRESH", "BINARIES"}

read_pubkey == files.key # "missing"
verify_tpm2quote_sig == files.key = "ours"
check_apphash(reply) == TRUE
SelectionAgrees == files.reg = "same"

TPM2All(reply, signed) ==
    LET got == extract_tpm2evidence(reply)
    IN  IF got = {} \/ ~signed THEN [bits |-> got, body |-> Unset]
        ELSE IF ~SelectionAgrees THEN [bits |-> {"FRESH"}, body |-> Unset]
        ELSE [bits |-> {"FRESH"} \cup (IF check_apphash(reply) THEN {"QUOTE"} ELSE {}),
              body |-> reply.body]

\* tpm_ecdsa_to_der of all programs frees the numbers that it gave to the signature,
\* and the signature frees them again: a run that converts one may end there.
MayFreeTwice == make_sig_scheme(files.ak) = "ECDSA"
ConvertsSignature(reply) ==
    IF variant = "poc" THEN extract_tpm2evidence(reply) # {} /\ read_pubkey
    ELSE files.key \in {"ours", "other"}

NoSignature(reply) == TPM2All(reply, TRUE)
pica_verify_tpm2all(reply) == TPM2All(reply, read_pubkey /\ verify_tpm2quote_sig)

\* verify_tpm2_quote of sgx: 0 or -1 is the comparison of the PCR selections, which
\* overwrites the result of the signature.
verify_tpm2_quote == SelectionAgrees

\* handle_tpm2_quote: without a key file nothing is verified, and 0 returned.
HandleTpm2Quote ==
    \/ files.key = "missing"
    \/ files.key \in {"ours", "other"} /\ verify_tpm2_quote

\* udata has been copied from the quote.
UdataCopied == files.key \in {"ours", "other"} /\ verify_tpm2_quote

\* The hash over the nonce is that in the quote, and app-hash is that of the chain.
\* (NoNonce, a mutant: the nonce is not in it.)
NoNonce(c, reply) == UdataCopied /\ reply.quote.chain = reply.body
FreshHash(c, reply) ==
    UdataCopied /\ reply.quote = hash_extend_sha256(reply.body, c)

\* main of poc goes on with the processes, or registers them and returns.
\* (JudgeAlways, a mutant: it does not return.)
VerifyTpm2To(c, next) ==
    /\ variant = "poc"
    /\ run[c].at = "quote"
    /\ \/ LET v == pica_verify_tpm2all(run[c].reply)
          IN  run' = [run EXCEPT ![c].bits = v.bits, ![c].body = v.body, ![c].at = next]
       \/ /\ ConvertsSignature(run[c].reply) /\ MayFreeTwice
          /\ EndsWith(c, "crash")
    /\ UNCHANGED <<variant, files, conf, current, changes, lastq, registered>>

Afterwards(c) == IF run[c].mode = "register" THEN "register" ELSE "judge"
JudgeAlways(c) == VerifyTpm2To(c, "judge")
VerifyTpm2(c) == VerifyTpm2To(c, Afterwards(c))

\* The loop of picatest.c over the two keys of the reply, which must be a map.  The
\* items of an empty quote are taken from NULL.
HandleReply(c) ==
    /\ variant = "sgx"
    /\ run[c].at = "quote"
    /\ LET reply == run[c].reply
       IN  IF reply = Unset THEN EndsWith(c, "notmap")
           ELSE IF reply.quote = Null THEN EndsWith(c, "crash")
           ELSE \/ run' = [run EXCEPT
                     ![c].body = reply.body,
                     ![c].bits = {b \in {"QUOTE", "FRESH"} :
                                    IF b = "QUOTE" THEN HandleTpm2Quote ELSE FreshHash(c, reply)},
                     ![c].at = Afterwards(c)]
                \/ ConvertsSignature(reply) /\ MayFreeTwice /\ EndsWith(c, "crash")
    /\ UNCHANGED <<variant, files, conf, current, changes, lastq, registered>>

\* reg_config: whatever the bits are.  poc has no processes when it could not
\* verify the quote; the file has been created when it finds out.
Register(c) ==
    /\ run[c].at = "register"
    /\ IF run[c].body # Unset
       THEN /\ conf' = run[c].body
            /\ registered' = registered \cup ToSet(run[c].body)
            /\ EndsWith(c, "registered")
       ELSE /\ conf' \in IF conf = Null THEN {Null, <<>>} ELSE {conf}
            /\ EndsWith(c, "crash")
            /\ UNCHANGED registered
    /\ UNCHANGED <<variant, files, current, changes, lastq>>

-----------------------------------------------------------------------------
(* The processes.                                                          *)

\* The policy is that of the last process, the client.  poc looks for one also when
\* it has no processes: it compares nothing with no statements, and crashes with some.
FindStatement(c) ==
    /\ run[c].at = "judge"
    /\ IF run[c].body = Unset
       THEN EndsWith(c, IF run[c].stmts = <<>> THEN "nostmt" ELSE "crash")
       ELSE LET s == FindPolicy(run[c].stmts, Last(run[c].body).path)
            IN  IF s = Null THEN EndsWith(c, "nostmt")
                ELSE run' = [run EXCEPT ![c].at = "compare", ![c].pstmt = s]
    /\ UNCHANGED <<variant, files, conf, current, changes, lastq, registered>>

VERIFIED_ALL(bits) == {"QUOTE", "BINARIES", "CHAIN", "UIDS"} \subseteq bits

\* The three comparisons, and the report.  The effect of the statement and the bit
\* FRESH are not asked for.
Compare(c) ==
    /\ run[c].at = "compare"
    /\ LET r == run[c]
           binaries == IF VerifyBinaries(r.table, r.body) THEN {"BINARIES"} ELSE {}
       IN  \E chain \in CheckIchain(r.pstmt.iarray, r.body),
              uids \in CheckUids(r.pstmt.uid, r.body) :
              IF "crash" \in {chain, uids} THEN EndsWith(c, "crash")
              ELSE LET bits == r.bits \cup binaries
                               \cup (IF chain = "yes" THEN {"CHAIN"} ELSE {})
                               \cup (IF uids = "yes" THEN {"UIDS"} ELSE {})
                   IN  run' = [run EXCEPT ![c].at = "end", ![c].bits = bits,
                                 ![c].result = IF VERIFIED_ALL(bits)
                                               THEN "success" ELSE "failed"]
    /\ UNCHANGED <<variant, files, conf, current, changes, lastq, registered>>

Next ==
    \/ Change
    \/ \E c \in Clients :
          \/ \E mode \in {"verify", "register"} : Start(c, mode)
          \/ ReadConfig(c) \/ ReadPolicy(c) \/ Measure(c)
          \/ VerifyTpm2(c) \/ HandleReply(c) \/ Register(c)
          \/ FindStatement(c) \/ Compare(c)

Spec == Init /\ [][Next]_vars


-----------------------------------------------------------------------------
Quotes == [chain : Chains, nonce : Clients]
RunOK(r) ==
    /\ r.at \in {"config", "policy", "measure", "quote", "register", "judge",
                 "compare", "end"}
    /\ r.mode \in {"verify", "register"}
    /\ DOMAIN r.table = Buckets
    /\ r.body \in Chains \cup {Unset}
    /\ r.reply \in {Null, Unset} \cup [quote : Quotes \cup {Null}, body : Chains]
    /\ r.bits \subseteq Bits
    /\ \/ r.stmts = <<>>
       \/ r.stmts = ParsePolicy(VersionOf(files.policy), files.policy)
    /\ r.pstmt \in ToSet(r.stmts) \cup {Null}
    /\ IF r.at = "end" THEN r.result \in Results ELSE r.result = Null
    \* a registration never compares, and a verification never registers
    /\ r.at \in {"judge", "compare"} \/ r.result \in {"success", "failed"} => r.mode = "verify"
    /\ r.at = "register" \/ r.result = "registered" => r.mode = "register"

\* Every variable has the values it may have, and the two modes of the program
\* are never mixed.
TypeOK ==
    /\ conf \in Chains \cup {Null, <<>>}
    /\ current \in Chains /\ changes \in 0 .. MaxChanges
    /\ lastq \in Quotes \cup {Null}
    /\ registered \subseteq Infos
    /\ \A c \in Clients : run[c] = NotStarted \/ RunOK(run[c])

Ended(c, result) == run[c].at = "end" /\ run[c].result = result
Succeeded(c) == Ended(c, "success")

\* A process and what was registered for it: the executable, and no library with
\* the name of a registered one is another.  Libraries may have other names.
SameBinary(p, q) ==
    /\ p.path = q.path /\ p.digest = q.digest
    /\ \A l \in DOMAIN p.libs \cap DOMAIN q.libs : p.libs[l] = q.libs[l]

\* What the table and its type, path and first-come rules are for
\* (libpica_clnt.c:540, :576): a type and a path have one entry in it, also when
\* paths share a bucket, and every statement is found in it, also when a process
\* with its path was registered before it.
TableIsMap ==
    \A c \in Clients : run[c].at \notin {"none", "config"} =>
        LET t == run[c].table
        IN  /\ \A h \in Buckets : \A i, j \in DOMAIN t[h] :
                  IsFor(t[h][i], t[h][j].type, t[h][j].path) => i = j
            /\ run[c].at # "policy" => \A i \in DOMAIN run[c].stmts :
                  LET s == run[c].stmts[i]
                      found == FindHashtable(t, s.exec_path, "policy")
                  IN  found # Null /\ found.exec_path = s.exec_path

\* "Verify the integrity of all binaries, including shared libraries along with
\* the invocation execution path" (libpica_clnt.c:657), over the two runs of the
\* program, as far as pica_verify_digest goes: a verification succeeds only if every
\* process in the chain was registered, by a run before, with the executable it has
\* now, and with no other library under the name of one it has now, whatever programs
\* were exchanged and files rewritten in between.
SuccessIsRegistered ==
    \A c \in Clients : Succeeded(c) =>
        \A i \in DOMAIN run[c].body :
            \E q \in registered : SameBinary(run[c].body[i], q)

\* The same line taken at its word, "including shared libraries": every library of a
\* process that is accepted is one that was registered for it.  (It need not be: a name
\* that is not registered matches nothing, and only the counts are compared, VerifyDigest.)
SuccessHasLibraries ==
    \A c \in Clients : Succeeded(c) =>
        \A i \in DOMAIN run[c].body :
            \E q \in registered : /\ SameBinary(run[c].body[i], q)
                                  /\ DOMAIN run[c].body[i].libs \subseteq DOMAIN q.libs

\* "Checking acceptable binaries listed in the policy statement" (main.c:202), in
\* terms of the text: a verification succeeds only under a statement about the
\* client's binary, and then, if chains were read for that, the measured paths are one
\* of them as far as both go.
Attributes(doc, path) ==
    {doc.stmts[i] : i \in {j \in DOMAIN doc.stmts :
        IsObject(doc.stmts[j]) /\ ParsePrincipal(doc.stmts[j].principal).exec_path = path}}

Listed(version, obj) ==
    CASE version = "V0" -> {Texts(obj)}
      [] version = "V1" -> {Texts(obj.items[i]) : i \in DOMAIN obj.items}
      [] OTHER -> {}

AgreesWith(chain, infos) ==
    \A i \in DOMAIN infos : i <= Len(chain) => chain[i] = infos[i].path

SuccessIsListed ==
    \A c \in Clients : Succeeded(c) =>
        LET body == run[c].body
        IN  \E a \in Attributes(files.policy, Last(body).path) :
              LET listed == Listed(VersionOf(files.policy), a.chain)
              IN  IsArray(a.chain) /\ listed # {} =>
                     \E chain \in listed : AgreesWith(chain, body)

\* "Checking UIDs" (main.c:207): every process of a chain that succeeds, not only the
\* client, runs as a user that the statement about the client lists, if it has a list;
\* without one any user may pass (parse_uid leaves the memory of the statement as it is).
SuccessHasUsers ==
    \A c \in Clients : Succeeded(c) =>
        \E a \in Attributes(files.policy, Last(run[c].body).path) :
            IsArray(a.principal.uid) =>
                \A i \in DOMAIN run[c].body :
                    run[c].body[i].ruid \in ToSet(ParseUid(a.principal.uid))

\* poc: the early returns of pica_verify_tpm2all give bits that say more than was
\* verified (libpica_clnt.c:1390), and still no run succeeds, or registers
\* anything, unless the signature was good and the PCR selection that of
\* reg_quote.bin.
QuoteIsVerified ==
    variant = "poc" =>
        \A c \in Clients : Succeeded(c) \/ Ended(c, "registered") =>
            files.key = "ours" /\ files.reg = "same" /\ run[c].reply.quote # Null

\* "freshness has been verified" (libpica_clnt.c:1403), and the comparison that
\* check_apphash is for: a poc run succeeds only with a quote for its own nonce over the
\* chain that it judged.
SuccessIsFresh ==
    variant = "poc" =>
        \A c \in Clients : Succeeded(c) =>
            run[c].reply.quote = [chain |-> run[c].body, nonce |-> c]

\* sgx: the bit that is reported as freshness (picatest.c:1015) is not there for a
\* quote of an earlier call, of another client, or of another chain.
FreshIsFresh ==
    variant = "sgx" =>
        \A c \in Clients : run[c] # NotStarted /\ "FRESH" \in run[c].bits =>
            run[c].reply.quote = [chain |-> run[c].body, nonce |-> c]

\* A verification that fails has a reason: a client that is what its run had loaded,
\* with a statement that has its users and has its chain first, is never refused,
\* also when it has no libraries, has a program twice, or another run rewrites the
\* configuration meanwhile.
Loaded(t) ==
    UNION {{t[h][i].addr : i \in {j \in DOMAIN t[h] : t[h][j].type = "procinfo"}}
             : h \in Buckets}

Reason(c) ==
    LET r == run[c]
    IN  \/ "QUOTE" \notin r.bits
        \/ \E i \in DOMAIN r.body : r.body[i] \notin Loaded(r.table)
        \/ r.pstmt.uid = Unset
        \/ \E i \in DOMAIN r.body : r.body[i].ruid \notin ToSet(r.pstmt.uid)
        \/ r.pstmt.iarray = Unset
        \/ /\ r.pstmt.iarray # <<>>
           /\ r.pstmt.iarray[1] # [i \in DOMAIN r.body |-> r.body[i].path]

RefusedWithReason ==
    \A c \in Clients : Ended(c, "failed") => Reason(c)
=============================================================================
