------------------------------- MODULE TlsRa --------------------------------
(***************************************************************************)
(* TLS handshakes with remote attestation: the callbacks of libtlsra as    *)
(* OpenSSL calls them, one action each, in a server and in clients that    *)
(* may make several handshakes one after the other.  The programs of       *)
(* tls_sgx are the case of one handshake per client.                       *)
(*                                                                         *)
(* A handshake is its own pair of nonces: <<"client", h>> and              *)
(* <<"server", h>> are the randoms of its two hello messages.              *)
(***************************************************************************)
EXTENDS RaEvidence

CONSTANTS
    Server,       \* the server's process
    Clients,      \* client processes
    Handshakes,   \* handshakes that may be made, 1, 2, ...
    ClientOf,     \* whose they are, [Handshakes -> Clients]
    BuildOf,      \* sgx, sgx_tpm2 or host, of each process
    PlatformOf,   \* what the verification of its SGX quotes says, of each process
    MachineOf,    \* where each process runs
    AtFlag,       \* the processes started with -D, which ask the daemon of their machine
    Flags,        \* values the server's rflag may have: 0, 1, 2
    FileCerts,    \* what server.crt and server.key may be
    VerifierFiles,\* what the server has of ak_pub.pem and reg_quote.bin
    Plain         \* certificates that clients may have from elsewhere

Procs == {Server} \cup Clients
Nobody == "nobody"

ASSUME ClientAssumption ==
    /\ Server \notin Clients /\ Nobody \notin Procs
    /\ Handshakes \subseteq Nat /\ 0 \notin Handshakes
    /\ ClientOf \in [Handshakes -> Clients]

(* What the verification of a quote may say, as far as it makes a difference. *)
Statuses == {"OK", "OUT_OF_DATE", "INVALID_SIGNATURE", "REVOKED", "UNSPECIFIED"}

ASSUME PlatformAssumption ==
    /\ BuildOf \in [Procs -> {"sgx", "sgx_tpm2", "host"}]
    /\ PlatformOf \in [Procs -> Statuses]

(* "none" is the machine of no AK: there is no ak_pub.pem. *)
ASSUME MachineAssumption == \A p \in Procs : MachineOf[p] # "none"

(***************************************************************************)
(* Certificates from elsewhere have no evidence, but may have either       *)
(* extension, anywhere among the others.                                   *)
(***************************************************************************)
ASSUME PlainAssumption ==
    \A c \in Plain : DOMAIN c = DOMAIN NoCert /\ c.ext \in {NULL, Bytes}

VARIABLES
    rflag,    \* the server's mode
    files,    \* the server's files for TPM quotes
    crt,      \* the server's certificate file, which it reads in mode 0 only
    up,       \* state of each process
    pc,       \* how far each handshake is
    scert,    \* the server's certificate on its way to the client, in each handshake
    ccert,    \* the certificate of the client in each handshake
    asks,     \* the handshake for which a process waits for its daemon, or 0
    holder    \* the process whose connection the daemon of a machine serves

vars == <<rflag, files, crt, up, pc, scert, ccert, asks, holder>>

Machines == {MachineOf[p] : p \in Procs}

(* Ends of a handshake: judged by the server, or broken off. *)
Over == {"accepted", "refused", "failed"}

Init ==
    /\ rflag \in Flags
    /\ files \in VerifierFiles
    /\ crt \in IF rflag = 0 THEN FileCerts ELSE {NoCert}
    /\ up = [p \in Procs |-> "runs"]
    /\ pc = [h \in Handshakes |-> "idle"]
    /\ scert = [h \in Handshakes |-> NoCert]
    /\ ccert = [h \in Handshakes |-> NoCert]
    /\ asks = [p \in Procs |-> 0]
    /\ holder = [m \in Machines |-> Nobody]

Handshake(p) == IF p = Server THEN Handshakes ELSE {h \in Handshakes : ClientOf[h] = p}

(* A process that runs and does not wait inside a callback. *)
Free(p) == up[p] = "runs" /\ asks[p] = 0

(* Where a client's SSL_connect is at work. *)
Connecting(h) == pc[h] \in {"hello", "scert", "trusted"}

(* Mutant: a daemon does not notice that its peer is gone. *)
StillHeld(held, p) == held

(* The connections that daemons serve when process p is gone. *)
Without(held, p) == [m \in Machines |-> IF held[m] = p THEN Nobody ELSE held[m]]

(***************************************************************************)
(* After a failed SSL_connect the client goes to err, frees ssl and ctx    *)
(* and goes to err: it frees them again, and either that ends it or it     *)
(* goes on forever.                                                        *)
(***************************************************************************)
ConnectFails(h, held) ==
    /\ pc' = [pc EXCEPT ![h] = "failed"]
    /\ \E end \in {"loops", "dead"} :
        /\ up' = [up EXCEPT ![ClientOf[h]] = end]
        /\ holder' = IF end = "dead" THEN Without(held, ClientOf[h]) ELSE held

(* Mutant: what the process held is not released. *)
CrashHolding(p, held) ==
    /\ up' = [up EXCEPT ![p] = "dead"]
    /\ holder' = held
    /\ UNCHANGED <<pc, scert, ccert>>

(* A process ends abnormally inside a callback. *)
Crash(p, held) ==
    /\ up' = [up EXCEPT ![p] = "dead"]
    /\ holder' = Without(held, p)
    /\ UNCHANGED <<pc, scert, ccert>>

-----------------------------------------------------------------------------
(* SSL_connect begins: TLSRA_client_init has set the callbacks. *)
ClientHello(h) ==
    /\ pc[h] = "idle"
    /\ Free(ClientOf[h]) /\ up[Server] = "runs"
    /\ \A g \in Handshake(ClientOf[h]) : ~ Connecting(g) /\ (g < h => pc[g] # "idle")
    /\ pc' = [pc EXCEPT ![h] = "hello"]
    /\ UNCHANGED <<rflag, files, crt, up, scert, ccert, asks, holder>>

(***************************************************************************)
(* The end of on_client_hello: SSL_use_certificate accepts a certificate   *)
(* with its key, or the callback returns SSL_CLIENT_HELLO_ERROR.           *)
(***************************************************************************)
UseServerCert(h, c, held) ==
    \/ c = DeadCert /\ Crash(Server, held)
    \/ c = NoCert /\ ConnectFails(h, held) /\ UNCHANGED <<scert, ccert>>
    \/ /\ c \notin {DeadCert, NoCert}
       /\ pc' = [pc EXCEPT ![h] = "scert"]
       /\ scert' = [scert EXCEPT ![h] = c]
       /\ holder' = held
       /\ UNCHANGED <<up, ccert>>

(***************************************************************************)
(* The end of on_client_cert.  OpenSSL sends no certificate when the       *)
(* callback has succeeded without one.  From here on SSL_connect has       *)
(* succeeded, whatever the server says later.                              *)
(***************************************************************************)
UseClientCert(h, c, held) ==
    \/ c = DeadCert /\ Crash(ClientOf[h], held)
    \/ /\ c # DeadCert
       /\ pc' = [pc EXCEPT ![h] = "ccert"]
       /\ ccert' = [ccert EXCEPT ![h] = c]
       /\ holder' = held
       /\ UNCHANGED <<up, scert>>

(***************************************************************************)
(* What the uninitialized evidence pointer of on_client_cert may hold:     *)
(* nothing, anything, or the pointer of an earlier handshake, which is     *)
(* never freed.                                                            *)
(***************************************************************************)
LeftOver(p) ==
    {NULL, Wild} \cup
    {e \in {ccert[g].ext : g \in Handshake(p)} : IsEvidence(e)}

(* The certificates process p may make in handshake h, with TPM quotes from the given source. *)
ServerCerts(h, quotes) ==
    Certificates(BuildOf[Server], Server, h, <<"client", h>>, quotes,
                 PlatformOf[Server], {NULL})

ClientCerts(h, quotes) ==
    LET p == ClientOf[h]
    IN  Certificates(BuildOf[p], p, h, <<"server", h>>, quotes, PlatformOf[p], LeftOver(p))

UsesDaemon(p) == BuildOf[p] = "sgx_tpm2" /\ p \in AtFlag
Direct(p)     == ocall_make_tpm2_quote(MachineOf[p])
ViaDaemon(p)  == ocall_make_tpm2_quote_via_daemon(MachineOf[p])

(* A client of the daemon waits in it until its connection is served. *)
Ask(p, h) ==
    /\ asks' = [asks EXCEPT ![p] = h]
    /\ UNCHANGED <<rflag, files, crt, up, pc, scert, ccert, holder>>

OnClientHello(h) ==
    /\ pc[h] = "hello" /\ Free(Server)
    /\ IF rflag = 1 /\ UsesDaemon(Server)
         THEN Ask(Server, h)
         ELSE /\ \/ rflag = 0 /\ UseServerCert(h, crt, holder)
                 \/ /\ rflag = 1
                    /\ \E c \in ServerCerts(h, Direct(Server)) : UseServerCert(h, c, holder)
                 \/ /\ rflag = 2
                    /\ \E k \in make_keypair(Server, h) :
                         \E c \in make_x509cert(k, Result(FALSE, NULL), NULL) :
                            UseServerCert(h, c, holder)
              /\ UNCHANGED <<rflag, files, crt, asks>>

(* client_verify: the server's certificate is accepted or not. *)
ClientVerify(h) ==
    /\ pc[h] = "scert" /\ Free(ClientOf[h])
    /\ \E ok \in verify(scert[h], <<"client", h>>, "client", files) :
         IF ok
           THEN pc' = [pc EXCEPT ![h] = "trusted"] /\ UNCHANGED <<up, holder>>
           ELSE ConnectFails(h, holder)
    /\ scert' = [scert EXCEPT ![h] = NoCert]
    /\ UNCHANGED <<rflag, files, crt, ccert, asks>>

OnClientCert(h) ==
    /\ pc[h] = "trusted" /\ Free(ClientOf[h])
    /\ IF UsesDaemon(ClientOf[h])
         THEN Ask(ClientOf[h], h)
         ELSE /\ \E c \in ClientCerts(h, Direct(ClientOf[h])) : UseClientCert(h, c, holder)
              /\ UNCHANGED <<rflag, files, crt, asks>>

(***************************************************************************)
(* The daemon serves one connection until its peer ends, and the ocall     *)
(* closes none.  It aborts the program when the daemon fails it.           *)
(***************************************************************************)
FromDaemon(p) ==
    LET h    == asks[p]
        held == [holder EXCEPT ![MachineOf[p]] = p]
    IN  /\ h # 0 /\ up[p] = "runs" /\ holder[MachineOf[p]] = Nobody
        /\ asks' = [asks EXCEPT ![p] = 0]
        /\ \/ p = Server /\ \E c \in ServerCerts(h, ViaDaemon(p)) : UseServerCert(h, c, held)
           \/ p # Server /\ \E c \in ClientCerts(h, ViaDaemon(p)) : UseClientCert(h, c, held)
           \/ "daemon" \in Faults /\ Crash(p, holder)
        /\ UNCHANGED <<rflag, files, crt>>

(***************************************************************************)
(* A client that has been given a certificate does not ask the callback:   *)
(* one it made earlier, possibly a year ago, or one from elsewhere.        *)
(***************************************************************************)
UseKnownCert(h) ==
    /\ pc[h] = "trusted" /\ Free(ClientOf[h])
    /\ \E c \in Plain \cup {ccert[g] : g \in Handshake(ClientOf[h])}, inDate \in BOOLEAN :
        /\ c # NoCert
        /\ UseClientCert(h, [c EXCEPT !.inDate = inDate], holder)
    /\ UNCHANGED <<rflag, files, crt, asks>>

(***************************************************************************)
(* server_verify: the client's certificate, against the server's random.   *)
(* Without a certificate SSL_VERIFY_FAIL_IF_NO_PEER_CERT refuses.          *)
(***************************************************************************)
(* Mutant: the nonce is the client's own random. *)
ServerVerifyOtherRandom(h) ==
    /\ pc[h] = "ccert" /\ Free(Server)
    /\ \E ok \in IF ccert[h] = NoCert
                  THEN {FALSE}
                  ELSE verify(ccert[h], <<"client", h>>, "server", files) :
          pc' = [pc EXCEPT ![h] = IF ok THEN "accepted" ELSE "refused"]
    /\ UNCHANGED <<rflag, files, crt, up, scert, ccert, asks, holder>>

ServerVerify(h) ==
    /\ pc[h] = "ccert" /\ Free(Server)
    /\ \E ok \in IF ccert[h] = NoCert
                  THEN {FALSE}
                  ELSE verify(ccert[h], <<"server", h>>, "server", files) :
          pc' = [pc EXCEPT ![h] = IF ok THEN "accepted" ELSE "refused"]
    /\ UNCHANGED <<rflag, files, crt, up, scert, ccert, asks, holder>>

(* The other side is gone: SSL_accept or SSL_connect fails. *)
BrokenOff(h) ==
    /\ \/ Connecting(h)
       \/ pc[h] = "ccert" /\ up[Server] # "runs"
    /\ \/ /\ up[ClientOf[h]] = "dead" \/ pc[h] = "ccert"
          /\ Free(Server) \/ up[Server] # "runs"
          /\ pc' = [pc EXCEPT ![h] = "failed"]
          /\ UNCHANGED <<up, holder>>
       \/ up[Server] # "runs" /\ Free(ClientOf[h]) /\ pc[h] # "ccert" /\ ConnectFails(h, holder)
    /\ UNCHANGED <<rflag, files, crt, scert, ccert, asks>>

(***************************************************************************)
(* A program ends when it has nothing more to do: a client once it is      *)
(* connected and has written, a server when all its handshakes are over.   *)
(***************************************************************************)
Exit(p) ==
    /\ Free(p)
    /\ \E h \in Handshake(p) : pc[h] # "idle"
    /\ \A h \in Handshake(p) : ~ Connecting(h) /\ (p = Server => pc[h] # "ccert")
    /\ up' = [up EXCEPT ![p] = "done"]
    /\ holder' = Without(holder, p)
    /\ UNCHANGED <<rflag, files, crt, pc, scert, ccert, asks>>

Kill(p) ==
    /\ "kill" \in Faults
    /\ up[p] = "runs"
    /\ asks' = [asks EXCEPT ![p] = 0]
    /\ Crash(p, holder)
    /\ UNCHANGED <<rflag, files, crt>>

Handshaking(h) ==
    \/ OnClientHello(h) \/ ClientVerify(h) \/ OnClientCert(h)
    \/ ServerVerify(h) \/ BrokenOff(h)

Next ==
    \/ \E h \in Handshakes : ClientHello(h) \/ UseKnownCert(h) \/ Handshaking(h)
    \/ \E p \in Procs : FromDaemon(p) \/ Exit(p) \/ Kill(p)

Spec == Init /\ [][Next]_vars

(* Programs run, and so does the daemon; nobody has to begin a handshake. *)
FairSpec ==
    /\ Spec
    /\ \A h \in Handshakes : WF_vars(Handshaking(h))
    /\ \A p \in Procs : WF_vars(FromDaemon(p)) /\ WF_vars(Exit(p))

-----------------------------------------------------------------------------
(***************************************************************************)
(* Properties.                                                             *)
(***************************************************************************)

(***************************************************************************)
(* Types; a daemon's connection belongs to a process that still exists;    *)
(* only a process that runs waits for its daemon.                          *)
(***************************************************************************)
TypeOK ==
    /\ rflag \in Flags /\ files \in VerifierFiles /\ crt \in FileCerts \cup {NoCert}
    /\ up \in [Procs -> {"runs", "loops", "done", "dead"}]
    /\ pc \in [Handshakes -> {"idle", "hello", "scert", "trusted", "ccert"} \cup Over]
    /\ asks \in [Procs -> Handshakes \cup {0}]
    /\ \A m \in Machines : holder[m] = Nobody \/ up[holder[m]] \in {"runs", "loops"}
    /\ \A p \in Procs : asks[p] # 0 => up[p] = "runs"

(***************************************************************************)
(* Evidence that the server has found and accepted: the quote verifies and *)
(* covers the claims, and the claims name the key of the certificate.      *)
(* With a TPM quote the client made both for this handshake, and the       *)
(* claims name the random of this server hello: a certificate kept from    *)
(* another handshake, or evidence left over from one in the uninitialized  *)
(* pointer of on_client_cert, is refused by verify_SGX_evidence.  Claims   *)
(* without a TPM quote name no nonce, and whether they are refused depends *)
(* on the stack (OutNonces).  Of certificates in which verify_contents     *)
(* finds no evidence nothing is said: see AcceptedHasEvidence.             *)
(***************************************************************************)
AcceptedIsOwn ==
    \A h \in Handshakes :
        (pc[h] = "accepted" /\ Found(ccert[h].at.evidence)) =>
            LET e == ccert[h].ext
            IN  /\ IsEvidence(e)
                /\ e.claims.key = ccert[h].key
                /\ e.tag = "TEE_TPM2_QUOTE" =>
                      /\ ccert[h].key = <<ClientOf[h], h>>
                      /\ e.claims.nonce = <<"server", h>>
                /\ e.quote.covers = e.claims
                /\ "qve" \notin Faults => e.quote.status \in {"OK", "OUT_OF_DATE"}

(***************************************************************************)
(* Only a self-signed certificate is accepted, and only while its dates    *)
(* verify.  verify_cert returns -1 for one out of date, which has the bits *)
(* of VERIFIED_QUOTE and VERIFIED_EVIDENCE: it is the second call of       *)
(* verify that refuses it.                                                 *)
(***************************************************************************)
AcceptedInDate ==
    \A h \in Handshakes : pc[h] = "accepted" => ccert[h].inDate /\ ccert[h].issuer = "self"

(***************************************************************************)
(* The server refuses no certificate that libcert has made without a       *)
(* fault for this handshake, when it has the files for the client's TPM.   *)
(***************************************************************************)
GoodCert(h, tpm) ==
    LET p == ClientOf[h]
        c == [key |-> <<p, h>>, nonce |-> <<"server", h>>, tpm |-> tpm]
        q == [covers |-> c, status |-> PlatformOf[p]]
    IN  Cert(<<p, h>>, [tag |-> "TEE_TPM2_QUOTE", quote |-> q, claims |-> c])

OwnNotRefused ==
    \A h \in Handshakes :
        LET p == ClientOf[h]
        IN  /\ PlatformOf[p] \in {"OK", "OUT_OF_DATE"} /\ "qve" \notin Faults
            /\ files = [ak |-> MachineOf[p], pcrs |-> TpmQuote(MachineOf[p]).pcrs]
            /\ ccert[h] = GoodCert(h, TpmQuote(MachineOf[p]))
            => pc[h] # "refused"

(***************************************************************************)
(* "Server verifies the attestation evidence contained in client           *)
(* certifate": it accepts no certificate in which it has found none.  (It   *)
(* does: verify_contents returns the length of a key then.)                *)
(***************************************************************************)
AcceptedHasEvidence ==
    \A h \in Handshakes :
        pc[h] = "accepted" => Found(ccert[h].at.evidence) /\ IsEvidence(ccert[h].ext)

(***************************************************************************)
(* "TPM2 Quote is verified using ak_pub.pem": where there is a TPM quote   *)
(* in accepted evidence, that key signed it, over the registered PCRs.     *)
(* (Not with OtherFiles: tls_sgx/Host/tpm2.c:433 drops the result.)        *)
(***************************************************************************)
TpmQuoteVerified ==
    \A h \in Handshakes :
        pc[h] = "accepted" /\ ccert[h].ext.tag = "TEE_TPM2_QUOTE" =>
            LET q == ccert[h].ext.claims.tpm
            IN  q.ak = files.ak /\ q.pcrs = files.pcrs

(***************************************************************************)
(* A handshake that has begun is judged or broken off, with programs that  *)
(* share the daemons of their machines and keep their connections to them. *)
(***************************************************************************)
Settles == \A h \in Handshakes : pc[h] = "hello" ~> pc[h] \in Over
=============================================================================
