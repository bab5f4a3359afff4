---------------------------- MODULE MCPicaVerify ----------------------------
\* Small instances of PicaVerify for TLC.
EXTENDS PicaVerify, TLC

Proc(path, ruid, digest, libs) ==
    [path |-> path, ruid |-> ruid, digest |-> digest, libs |-> libs]

Lib(name, digest) == [l \in {name} |-> digest]

Sh == Proc("sh", 1000, "sh1", Lib("libc", "c1"))
App == Proc("app", 1000, "app1", Lib("libc", "c1"))

\* The registered chain; another executable; another library under the name of the
\* first, or under a name of its own; a shell of root; a chain with a shell in
\* between, which has no libraries.
MCChains ==
    {<<Sh, App>>,
     <<Sh, [App EXCEPT !.digest = "app2"]>>,
     <<Sh, [App EXCEPT !.libs = Lib("libc", "c2")]>>,
     <<[Sh EXCEPT !.libs = Lib("libx", "c2")], App>>,
     <<[Sh EXCEPT !.ruid = 0], App>>,
     <<Sh, [Sh EXCEPT !.path = "su", !.libs = <<>>], App>>}

String(v) == [type |-> "string", val |-> v]
Number(v) == [type |-> "int", val |-> v]
Array(items) == [type |-> "array", items |-> items]
Strings(s) == Array([i \in DOMAIN s |-> String(s[i])])

Users == Array(<<Number(1000)>>)
Object(binary, uid) == [type |-> "object", binary |-> binary, uid |-> uid]
Stmt(chain) ==
    [type |-> "object", resource |-> Unset,
     principal |-> Object(String("app"), Users), chain |-> chain]
Doc(version, stmts) ==
    [text |-> "ok", first |-> "Version", version |-> version, stmts |-> stmts]

Direct == Strings(<<"sh", "app">>)
Via == Strings(<<"sh", "su", "app">>)

\* Policies of both versions, with one chain or several, with a chain of
\* another client, for another binary, without uids or chains, and with items
\* of the wrong type.
MCPolicies ==
    {Doc("V0", <<Stmt(Direct)>>),
     Doc("V1", <<Stmt(Array(<<Direct, Via>>))>>),
     Doc("V1", <<Stmt(Array(<<Via, Direct>>)), Stmt(Array(<<Direct>>))>>),
     Doc("V1", <<Stmt(Array(<<>>))>>),
     Doc("V1", <<Stmt(Direct)>>),
     Doc("V0", <<Stmt(Strings(<<"sh">>))>>),
     Doc("V0", <<Stmt(Array(<<String("sh"), Number(1)>>))>>),
     [Doc("V0", <<Stmt(Direct)>>) EXCEPT !.first = "Statement"],
     Doc("V0", <<[Stmt(Direct) EXCEPT !.resource = Number(1)]>>),
     Doc("V0", <<[Stmt(Direct) EXCEPT !.principal.binary = Number(1)]>>),
     Doc("V0", <<[Stmt(Direct) EXCEPT !.principal = String("app")], Stmt(Direct)>>),
     Doc("V0", <<[Stmt(Direct) EXCEPT !.principal.binary = String("sh"),
                                      !.resource = String("enclave")]>>),
     Doc("V0", <<[Stmt(Direct) EXCEPT !.principal.uid = Array(<<Number(1000), Number(0)>>)]>>),
     Doc("V0", <<[Stmt(Unset) EXCEPT !.principal.uid = Unset], Number(1)>>),
     Doc("V0", <<>>),
     [Doc("V0", <<>>) EXCEPT !.text = "missing"],
     [Doc("V0", <<>>) EXCEPT !.text = "bad"]}

\* A key of one type, and one of the other that is for another hash.  With an RSA key
\* that signs, the runs do what they do with the first when freeing twice is harmless.
Ak(type, scheme, hash) == [sign |-> TRUE, type |-> type, scheme |-> scheme, hash |-> hash]
MCAks == {Ak("ECC", "NULL", "NULL"), Ak("RSA", "RSASSA", "SHA384")}

\* The runs are alike.
Alike == Permutations(Clients)

\* sh and app are in one bucket.
MCHash(path) == IF path = "su" THEN 2 ELSE 1
=============================================================================
