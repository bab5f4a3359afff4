----------------------------- MODULE TlsRaProofs -----------------------------
(***************************************************************************)
(* Proofs about TlsRa, for every number of clients and handshakes, every   *)
(* build and platform, and every set of faults.                            *)
(***************************************************************************)
EXTENDS TlsRa, TLAPS

-----------------------------------------------------------------------------
(* What is made as evidence.                                               *)

\* The claims of an enclave with a TPM name the key and the nonce they were made
\* for, or there are none.
LEMMA Tpm2Claims ==
  ASSUME NEW key, NEW nonce, NEW quote,
         NEW c \in make_cbor_tpm2_claims_from_enclave(key, nonce, quote)
  PROVE  c \in {NoClaims, DeadClaims} \/ (c.key = key /\ c.nonce = nonce)
<1>1. PICK k \in PkHashEntry(key) :
        c = IF quote = NoTpm /\ k # DeadKey THEN NoClaims ELSE Claims(k, nonce, quote)
  BY DEF make_cbor_tpm2_claims_from_enclave
<1>3. k \in {key, NoKey, DeadKey}
  BY DEF PkHashEntry, pem2der_sha256
<1>4. CASE k = key /\ k # NoKey /\ k # DeadKey
  BY <1>1, <1>4 DEF Claims
<1>5. CASE k = NoKey /\ k # DeadKey
  BY <1>1, <1>5 DEF Claims
<1>6. CASE k = DeadKey
  BY <1>1, <1>6 DEF Claims
<1> QED
  BY <1>3, <1>4, <1>5, <1>6

\* Those of an enclave without a TPM have none.
LEMMA SgxClaims ==
  ASSUME NEW key, NEW c \in make_cbor_sgx_claims(key)
  PROVE  c.nonce = NoNonce
BY DEF make_cbor_sgx_claims, NoClaims

\* Evidence with a TPM quote has a nonce among its claims, unless it has no claims.
Nonced(e) == e.tag = "TEE_TPM2_QUOTE" /\ e.claims # NoClaims => e.claims.nonce # NoNonce

\* Evidence, as opposed to what may stand in its place, is one of these.
Origin(e, key, nonce, status) ==
  /\ IsEvidence(e)
  /\ e.claims.nonce = NoNonce \/ (e.claims.key = key /\ e.claims.nonce = nonce)
  /\ Nonced(e)
  /\ e.quote.status \in {status, "INVALID_SIGNATURE"}

\* A quote over claims, tagged together with them, or a failure.
LEMMA QuotedClaims ==
  ASSUME NEW c, NEW status, NEW tag \in {"TEE_QUOTE", "TEE_TPM2_QUOTE"},
         NEW r \in Quoted(c, status, tag)
  PROVE  \/ r.evidence \in {Unset, NULL}
         \/ /\ IsEvidence(r.evidence) /\ r.evidence.claims = c /\ r.evidence.tag = tag
            /\ r.evidence.quote.status \in {status, "INVALID_SIGNATURE"}
<1>1. CASE r \in OcallFails
  BY <1>1 DEF OcallFails, Result
<1>2. CASE r \notin OcallFails
  <2>1. PICK q \in SgxQuotes(c, status) : r \in make_cbor_sgx_evidence(q, c, tag)
    BY <1>2 DEF Quoted
  <2>2. q.status \in {status, "INVALID_SIGNATURE"}
    BY DEF SgxQuotes, JunkQuote
  <2> QED
    BY <2>1, <2>2 DEF make_cbor_sgx_evidence, Result, IsEvidence
<1> QED
  BY <1>1, <1>2

\* What a call of make_certificate_evidence leaves.
LEMMA EvidenceMade ==
  ASSUME NEW build \in {"sgx", "sgx_tpm2", "host"}, NEW key, NEW nonce, NEW quotes,
         NEW status, nonce # NoNonce,
         NEW r \in make_certificate_evidence(build, key, nonce, quotes, status)
  PROVE  r = Dies \/ r.evidence \in {Unset, NULL} \/ Origin(r.evidence, key, nonce, status)
<1>1. CASE build = "sgx"
  <2>1. PICK c \in make_cbor_sgx_claims(key) :
          r \in IF c = NoClaims THEN {Result(FALSE, Unset)} ELSE Quoted(c, status, "TEE_QUOTE")
    BY <1>1 DEF make_certificate_evidence, SgxEvidence
  <2>2. c.nonce = NoNonce
    BY SgxClaims
  <2>3. Result(FALSE, Unset).evidence = Unset
    BY DEF Result
  <2>4. CASE c = NoClaims
    BY <2>1, <2>3, <2>4
  <2>5. CASE c # NoClaims
    <3>1. r \in Quoted(c, status, "TEE_QUOTE")
      BY <2>1, <2>5
    <3> QED
      BY <2>2, <3>1, QuotedClaims DEF Origin, Nonced
  <2> QED
    BY <2>4, <2>5
<1>2. CASE build = "sgx_tpm2"
  <2>1. PICK c \in UNION {make_cbor_tpm2_claims_from_enclave(key, nonce, q) : q \in quotes} :
          r = Dies \/ (c # DeadClaims /\ r \in Quoted(c, status, "TEE_TPM2_QUOTE"))
    <3>1. PICK c \in UNION {make_cbor_tpm2_claims_from_enclave(key, nonce, q) : q \in quotes} :
            r \in CASE c = DeadClaims -> {Dies}
                    [] c = NoClaims   -> {Dies} \cup Quoted(c, status, "TEE_TPM2_QUOTE")
                    [] OTHER          -> Quoted(c, status, "TEE_TPM2_QUOTE")
      BY <1>2 DEF make_certificate_evidence, SgxTpm2Evidence
    <3>2. DeadClaims # NoClaims
      BY DEF DeadClaims, NoClaims, DeadKey, NoKey
    <3> QED
      BY <3>1, <3>2
  <2>2. c \in {NoClaims, DeadClaims} \/ (c.key = key /\ c.nonce = nonce)
    BY Tpm2Claims
  <2>3. CASE r # Dies
    <3>1. c = NoClaims \/ (c.key = key /\ c.nonce = nonce)
      BY <2>1, <2>2, <2>3
    <3>2. NoClaims.nonce = NoNonce
      BY DEF NoClaims
    <3>3. r \in Quoted(c, status, "TEE_TPM2_QUOTE")
      BY <2>1, <2>3
    <3> HIDE DEF NoClaims
    <3> QED
      BY <3>1, <3>2, <3>3, QuotedClaims DEF Origin, Nonced
  <2> QED
    BY <2>3
<1>3. CASE build = "host"
  <2>1. Result(FALSE, Unset).evidence = Unset
    BY DEF Result
  <2> QED
    BY <1>3, <2>1 DEF make_certificate_evidence, HostEvidence, make_cbor_tpm2_evidence
<1> QED
  BY <1>1, <1>2, <1>3

\* The evidence in a certificate is that of the call, or what was left in the
\* variable when the call did not set it.
LEMMA CertMade ==
  ASSUME NEW key, NEW left, NEW r,
         r = Dies \/ r.evidence \in {Unset, NULL} \/ IsEvidence(r.evidence),
         left \in {NULL, Wild} \/ IsEvidence(left),
         NEW c \in make_x509cert(key, r, left)
  PROVE  /\ DOMAIN c = DOMAIN NoCert
         /\ \/ c.ext \in {NULL, Bytes}
            \/ c.ext = left /\ IsEvidence(left)
            \/ c.ext = r.evidence /\ IsEvidence(r.evidence)
<1> DEFINE e == IF r.evidence = Unset THEN left ELSE r.evidence
<1>1. CASE r = Dies
  BY <1>1 DEF make_x509cert, DeadCert, NoCert
<1>2. CASE r # Dies /\ key = NoKey
  BY <1>2 DEF make_x509cert, NoCert
<1>3. CASE r # Dies /\ key # NoKey
  <2>1. ~IsEvidence(Wild) /\ ~IsEvidence(NULL) /\ ~IsEvidence(Unset) /\ Wild # NULL
    BY DEF IsEvidence, Wild, NULL, Unset, Other
  <2>2. IsEvidence(e) \/ e = Wild \/ e = NULL
    BY <1>3
  <2>3. CASE IsEvidence(e)
    <3>1. e # Wild /\ e # NULL
      BY <2>1, <2>3
    <3>2. c = Cert(key, e)
      BY <1>3, <2>3, <3>1 DEF make_x509cert
    <3>3. c.ext = e /\ DOMAIN c = DOMAIN NoCert
      BY <3>2 DEF Cert, NoCert
    <3> QED
      BY <1>3, <2>1, <2>3, <3>1, <3>3
  <2>4. CASE e = Wild
    <3>1. c \in {DeadCert, Cert(key, Bytes)}
      BY <1>3, <2>1, <2>4 DEF make_x509cert
    <3> QED
      BY <3>1 DEF DeadCert, Cert, NoCert
  <2>5. CASE e = NULL
    <3>1. c \in {Cert(key, Bytes), Cert(key, NULL)}
      BY <1>3, <2>1, <2>5 DEF make_x509cert
    <3> QED
      BY <3>1 DEF Cert, NoCert
  <2> QED
    BY <2>2, <2>3, <2>4, <2>5
<1> QED
  BY <1>1, <1>2, <1>3

\* What a certificate that a client makes may have as its extension: what was made
\* for this handshake, or evidence of a certificate that the client has made before.
LEMMA ClientCertMade ==
  ASSUME NEW h \in Handshakes, NEW quotes, NEW c \in ClientCerts(h, quotes)
  PROVE  /\ DOMAIN c = DOMAIN NoCert
         /\ \/ c.ext \in {NULL, Bytes}
            \/ \E g \in Handshakes : c.ext = ccert[g].ext
            \/ /\ c.ext.claims.nonce # NoNonce =>
                    /\ c.ext.claims.key = <<ClientOf[h], h>>
                    /\ c.ext.claims.nonce = <<"server", h>>
               /\ Nonced(c.ext)
               /\ c.ext.quote.status \in Statuses
<1> DEFINE p == ClientOf[h]
           nonce == <<"server", h>>
           made(k) == make_certificate_evidence(BuildOf[p], k, nonce, quotes, PlatformOf[p])
<1>1. /\ p \in Procs /\ BuildOf[p] \in {"sgx", "sgx_tpm2", "host"} /\ PlatformOf[p] \in Statuses
      /\ nonce # NoNonce
  BY ClientAssumption, PlatformAssumption DEF Procs, NoNonce
<1>2. PICK k \in make_keypair(p, h) :
        \E r \in made(k) : \E l \in LeftOver(p) : c \in make_x509cert(k, r, l)
  BY DEF ClientCerts, Certificates
<1>3. PICK r \in made(k), l \in LeftOver(p) : c \in make_x509cert(k, r, l)
  BY <1>2
<1>4. r = Dies \/ r.evidence \in {Unset, NULL} \/ Origin(r.evidence, k, nonce, PlatformOf[p])
  BY <1>1, <1>3, EvidenceMade
<1>5. l \in {NULL, Wild} \/ (IsEvidence(l) /\ \E g \in Handshakes : l = ccert[g].ext)
  BY <1>3 DEF LeftOver, Handshake
<1>6. /\ DOMAIN c = DOMAIN NoCert
      /\ \/ c.ext \in {NULL, Bytes}
         \/ c.ext = l /\ IsEvidence(l)
         \/ c.ext = r.evidence /\ Origin(r.evidence, k, nonce, PlatformOf[p])
  <2>1. l \in {NULL, Wild} \/ IsEvidence(l)
    BY <1>5
  <2>2. r = Dies \/ r.evidence \in {Unset, NULL} \/ IsEvidence(r.evidence)
    BY <1>4 DEF Origin
  <2>3. /\ DOMAIN c = DOMAIN NoCert
        /\ \/ c.ext \in {NULL, Bytes}
           \/ c.ext = l /\ IsEvidence(l)
           \/ c.ext = r.evidence /\ IsEvidence(r.evidence)
    BY <1>3, <2>1, <2>2, CertMade
  <2>4. ~IsEvidence(NULL) /\ ~IsEvidence(Unset)
    BY DEF IsEvidence, NULL, Unset, Other
  <2>5. CASE c.ext = r.evidence /\ IsEvidence(r.evidence)
    <3>1. CASE r = Dies
      <4>1. c = DeadCert
        BY <1>3, <3>1 DEF make_x509cert
      <4> QED
        BY <2>3, <4>1 DEF DeadCert, NoCert
    <3>2. CASE r # Dies
      BY <1>4, <2>3, <2>4, <2>5, <3>2
    <3> QED
      BY <3>1, <3>2
  <2> QED
    BY <2>3, <2>5
<1>7. ~IsEvidence(NULL) /\ ~IsEvidence(Wild)
  BY DEF IsEvidence, NULL, Wild, Other
<1>8. CASE c.ext = l /\ IsEvidence(l)
  BY <1>5, <1>6, <1>7, <1>8
<1>9. CASE c.ext = r.evidence /\ Origin(r.evidence, k, nonce, PlatformOf[p])
  <2>1. k = <<p, h>> \/ (k = NoKey)
    BY <1>2 DEF make_keypair
  <2>2. CASE k = NoKey
    <3>1. c \in {DeadCert, NoCert}
      BY <1>3, <2>2 DEF make_x509cert
    <3> QED
      BY <3>1, <1>6 DEF DeadCert, NoCert
  <2>3. CASE k = <<p, h>>
    BY <1>1, <1>6, <1>9, <2>3 DEF Origin, Statuses
  <2> QED
    BY <2>1, <2>2, <2>3
<1> QED
  BY <1>6, <1>8, <1>9

-----------------------------------------------------------------------------
(* What is judged.                                                         *)

\* A certificate that verify accepts is in date, and if there is evidence where
\* verify_contents looks for it, that is evidence for its key and for the nonce.
LEMMA Accepts ==
  ASSUME NEW cert, NEW nonce, NEW f,
         NEW ok \in verify(cert, nonce, "server", f), ok
  PROVE  /\ cert.issuer = "self"
         /\ cert.inDate
         /\ Found(cert.at.evidence) =>
               /\ Extracted(cert.ext, cert.key)
               /\ nonce \in OutNonces(cert.ext, nonce)
               /\ "qve" \notin Faults =>
                     cert.ext.quote.status \notin {"INVALID_SIGNATURE", "REVOKED", "UNSPECIFIED"}
<1>1. cert.issuer = "self"
  BY DEF verify, OtherErrorCall
<1>2. PICK b \in SelfSignedCall(cert, nonce, "server", f) : b /\ cert.inDate
  BY <1>1 DEF verify, OtherErrorCall
<1>3. PICK rc \in verify_contents(cert, nonce, f) : b = HasBit(rc)
  BY <1>2 DEF SelfSignedCall, verify_cert
<1>4. ASSUME Found(cert.at.evidence)
      PROVE  /\ Extracted(cert.ext, cert.key)
             /\ nonce \in OutNonces(cert.ext, nonce)
             /\ "qve" \notin Faults =>
                   cert.ext.quote.status \notin {"INVALID_SIGNATURE", "REVOKED", "UNSPECIFIED"}
  <2>1. rc # 0
    <3>1. HasBit(rc)
      BY <1>2, <1>3
    <3>2. ~HasBit(0)
      BY DEF HasBit
    <3> QED
      BY <3>1, <3>2
  <2>2. rc \in verify_SGX_evidence(cert.ext, cert.key, nonce, f)
    BY <1>3, <1>4 DEF verify_contents
  <2>3. Extracted(cert.ext, cert.key)
    BY <2>1, <2>2 DEF verify_SGX_evidence
  <2>4. PICK good \in QuoteVerdicts(cert.ext.quote.status), out \in OutNonces(cert.ext, nonce) :
          good /\ out = nonce
    BY <2>1, <2>2, <2>3 DEF verify_SGX_evidence
  <2>5. "qve" \notin Faults =>
          cert.ext.quote.status \notin {"INVALID_SIGNATURE", "REVOKED", "UNSPECIFIED"}
    BY <2>4 DEF QuoteVerdicts
  <2> QED
    BY <2>3, <2>4, <2>5
<1> QED
  BY <1>1, <1>2, <1>4

-----------------------------------------------------------------------------
(* The types, and who waits where.                                         *)

\* The connections of daemons belong to processes that exist.
Held(held) ==
  /\ held \in [Machines -> Procs \cup {Nobody}]
  /\ \A m \in Machines : held[m] = Nobody \/ up[held[m]] \in {"runs", "loops"}

\* A client makes one connection at a time.
OneAtATime ==
  \A g, h \in Handshakes :
    ClientOf[g] = ClientOf[h] /\ Connecting(g) /\ Connecting(h) => g = h

\* A process that waits for its daemon is in the callback of a handshake of its own.
Waits ==
  \A p \in Procs : asks[p] # 0 =>
    IF p = Server THEN pc[asks[p]] = "hello"
                  ELSE pc[asks[p]] = "trusted" /\ ClientOf[asks[p]] = p

TypeInv ==
  /\ TypeOK
  /\ Held(holder)
  /\ DOMAIN ccert = Handshakes
  /\ OneAtATime
  /\ Waits

\* Whoever ends gives its connection back.
LEMMA Released ==
  ASSUME NEW held, Held(held), NEW p \in Procs, NEW end,
         up \in [Procs -> {"runs", "loops", "done", "dead"}],
         up' = [up EXCEPT ![p] = end], holder' = Without(held, p)
  PROVE  Held(holder)'
<1>1. Nobody \notin Procs
  BY ClientAssumption
<1>2. \A m \in Machines : holder'[m] = IF held[m] = p THEN Nobody ELSE held[m]
  BY DEF Without
<1>3. holder' \in [Machines -> Procs \cup {Nobody}]
  BY DEF Without, Held
<1>4. ASSUME NEW m \in Machines, holder'[m] # Nobody
      PROVE  up'[holder'[m]] \in {"runs", "loops"}
  <2>1. holder'[m] = held[m] /\ held[m] # p /\ held[m] \in Procs
    BY <1>2, <1>4 DEF Held
  <2> QED
    BY <1>4, <2>1 DEF Held
<1> QED
  BY <1>3, <1>4 DEF Held

\* A connection that fails ends a client, which has no other under way.
LEMMA FailedType ==
  ASSUME TypeInv, NEW h \in Handshakes, Connecting(h), NEW held, Held(held),
         ConnectFails(h, held), asks[ClientOf[h]] = 0,
         asks' \in [Procs -> Handshakes \cup {0}],
         \A p \in Procs : asks'[p] # 0 => asks'[p] = asks[p] /\ asks[p] # h,
         UNCHANGED <<rflag, files, crt, ccert>>
  PROVE  TypeInv'
<1> DEFINE c == ClientOf[h]
<1>1. c \in Clients /\ c \in Procs /\ c # Server
  BY ClientAssumption DEF Procs
<1>2. PICK end \in {"loops", "dead"} :
        /\ up' = [up EXCEPT ![c] = end]
        /\ holder' = IF end = "dead" THEN Without(held, c) ELSE held
  BY DEF ConnectFails
<1>3. pc' = [pc EXCEPT ![h] = "failed"]
  BY DEF ConnectFails
<1>4. Held(holder)'
  <2>1. CASE end = "dead"
    BY <1>1, <1>2, <2>1, Released DEF TypeInv, TypeOK
  <2>2. CASE end = "loops"
    BY <1>1, <1>2, <2>2 DEF TypeInv, TypeOK, Held
  <2> QED
    BY <2>1, <2>2
<1>5. \A p \in Procs : asks'[p] # 0 => p # c /\ asks[p] # h /\ asks'[p] = asks[p]
  OBVIOUS
<1>6. Waits'
  BY <1>3, <1>5 DEF TypeInv, TypeOK, Waits
<1>7. OneAtATime'
  BY <1>3 DEF TypeInv, TypeOK, OneAtATime, Connecting
<1>8. TypeOK'
  BY <1>1, <1>2, <1>3, <1>4, <1>5 DEF TypeInv, TypeOK, Held, Over
<1> QED
  BY <1>4, <1>6, <1>7, <1>8 DEF TypeInv

\* A process that ends inside a callback, or anywhere.
LEMMA CrashType ==
  ASSUME TypeInv, NEW p \in Procs, NEW held, Held(held), Crash(p, held),
         asks' = [asks EXCEPT ![p] = 0], UNCHANGED <<rflag, files, crt>>
  PROVE  TypeInv'
<1>1. up' = [up EXCEPT ![p] = "dead"] /\ holder' = Without(held, p)
      /\ UNCHANGED <<pc, scert, ccert>>
  BY DEF Crash
<1>2. Held(holder)'
  BY <1>1, Released DEF TypeInv, TypeOK
<1>3. TypeOK'
  BY <1>1, <1>2, ClientAssumption DEF TypeInv, TypeOK, Held
<1> QED
  BY <1>1, <1>2, <1>3 DEF TypeInv, TypeOK, OneAtATime, Waits, Connecting

\* The end of on_client_hello.
LEMMA ServerCertType ==
  ASSUME TypeInv, NEW h \in Handshakes, pc[h] = "hello", up[Server] = "runs",
         NEW c, NEW held, Held(held), UseServerCert(h, c, held),
         asks[Server] \in {0, h}, asks' = [asks EXCEPT ![Server] = 0],
         UNCHANGED <<rflag, files, crt>>
  PROVE  TypeInv'
<1>1. Server \in Procs /\ ClientOf[h] \in Procs /\ ClientOf[h] # Server
  BY ClientAssumption DEF Procs
<1>2. CASE Crash(Server, held)
  BY <1>1, <1>2, CrashType
<1>3. CASE ConnectFails(h, held) /\ UNCHANGED <<scert, ccert>>
  <2>1. Connecting(h)
    BY DEF Connecting
  <2>2. \A p \in Procs : p # Server /\ asks[p] # 0 =>
          /\ asks[p] \in Handshakes /\ pc[asks[p]] = "trusted" /\ ClientOf[asks[p]] = p
    BY DEF TypeInv, TypeOK, Waits
  <2>3. asks[ClientOf[h]] = 0
    BY <1>1, <2>1, <2>2 DEF TypeInv, OneAtATime, Connecting
  <2>4. \A p \in Procs : asks'[p] # 0 => asks'[p] = asks[p] /\ asks[p] # h
    BY <1>1, <2>2 DEF TypeInv, TypeOK
  <2>5. asks' \in [Procs -> Handshakes \cup {0}]
    BY DEF TypeInv, TypeOK
  <2> QED
    BY <1>3, <2>1, <2>3, <2>4, <2>5, FailedType
<1>4. CASE /\ pc' = [pc EXCEPT ![h] = "scert"] /\ holder' = held
           /\ UNCHANGED <<up, ccert>>
  <2>1. Held(holder)'
    BY <1>4 DEF Held
  <2>2. \A p \in Procs : asks'[p] # 0 =>
          p # Server /\ asks'[p] = asks[p] /\ asks[p] # h
    BY <1>1 DEF TypeInv, TypeOK, Waits
  <2>3. Waits'
    BY <1>4, <2>2 DEF TypeInv, TypeOK, Waits
  <2>4. OneAtATime'
    BY <1>4 DEF TypeInv, TypeOK, OneAtATime, Connecting
  <2>5. TypeOK'
    BY <1>1, <1>4, <2>1, <2>2 DEF TypeInv, TypeOK, Held
  <2> QED
    BY <1>4, <2>1, <2>3, <2>4, <2>5 DEF TypeInv
<1> QED
  BY <1>2, <1>3, <1>4 DEF UseServerCert

\* The end of on_client_cert.
LEMMA ClientCertType ==
  ASSUME TypeInv, NEW h \in Handshakes, pc[h] = "trusted", up[ClientOf[h]] = "runs",
         NEW c, NEW held, Held(held), UseClientCert(h, c, held),
         asks[ClientOf[h]] \in {0, h}, asks' = [asks EXCEPT ![ClientOf[h]] = 0],
         UNCHANGED <<rflag, files, crt>>
  PROVE  TypeInv'
<1> DEFINE q == ClientOf[h]
<1>1. q \in Procs /\ q # Server
  BY ClientAssumption DEF Procs
<1>2. CASE Crash(q, held)
  BY <1>1, <1>2, CrashType
<1>3. CASE /\ pc' = [pc EXCEPT ![h] = "ccert"] /\ ccert' = [ccert EXCEPT ![h] = c]
           /\ holder' = held /\ UNCHANGED <<up, scert>>
  <2>1. Held(holder)'
    BY <1>3 DEF Held
  <2>2. \A p \in Procs : asks'[p] # 0 => p # q /\ asks'[p] = asks[p] /\ asks[p] # h
    BY <1>1 DEF TypeInv, TypeOK, Waits
  <2>3. Waits'
    BY <1>3, <2>2 DEF TypeInv, TypeOK, Waits
  <2>4. OneAtATime'
    BY <1>3 DEF TypeInv, TypeOK, OneAtATime, Connecting
  <2>5. TypeOK'
    BY <1>1, <1>3, <2>1, <2>2 DEF TypeInv, TypeOK, Held
  <2> QED
    BY <1>3, <2>1, <2>3, <2>4, <2>5 DEF TypeInv
<1> QED
  BY <1>2, <1>3 DEF UseClientCert

\* Every callback and every other step keeps the types and who waits where.
LEMMA TypeStep == TypeInv /\ [Next]_vars => TypeInv'
<1> SUFFICES ASSUME TypeInv, [Next]_vars PROVE TypeInv'
  OBVIOUS
<1>0. asks \in [Procs -> Handshakes \cup {0}] /\ Held(holder)
  BY DEF TypeInv, TypeOK
<1>1. ASSUME NEW h \in Handshakes, ClientHello(h) PROVE TypeInv'
  <2>1. \A p \in Procs : asks[p] # 0 => asks[p] # h
    BY <1>1 DEF ClientHello, TypeInv, Waits
  <2>2. Waits'
    BY <1>1, <2>1 DEF ClientHello, TypeInv, TypeOK, Waits
  <2>3. OneAtATime'
    BY <1>1 DEF ClientHello, TypeInv, TypeOK, OneAtATime, Connecting, Handshake,
                Procs
  <2> QED
    BY <1>1, <2>2, <2>3 DEF ClientHello, TypeInv, TypeOK, Held
<1>2. ASSUME NEW h \in Handshakes, OnClientHello(h) PROVE TypeInv'
  <2>1. pc[h] = "hello" /\ up[Server] = "runs" /\ asks[Server] = 0 /\ Server \in Procs
    BY <1>2 DEF OnClientHello, Free, Procs
  <2>2. CASE Ask(Server, h)
    <3>1. asks' = [asks EXCEPT ![Server] = h] /\ UNCHANGED <<rflag, files, crt, up, pc, ccert, holder>>
      BY <2>2 DEF Ask
    <3>2. Waits' /\ OneAtATime'
      BY <2>1, <3>1 DEF TypeInv, TypeOK, Waits, OneAtATime, Connecting
    <3> QED
      BY <2>1, <3>1, <3>2 DEF TypeInv, TypeOK, Held
  <2>3. CASE ~Ask(Server, h)
    <3>1. PICK c : UseServerCert(h, c, holder)
      BY <1>2, <2>3 DEF OnClientHello
    <3>2. UNCHANGED <<rflag, files, crt, asks>>
      BY <1>2, <2>3 DEF OnClientHello
    <3>3. asks' = [asks EXCEPT ![Server] = 0]
      BY <1>0, <2>1, <3>2
    <3> QED
      BY <1>0, <2>1, <3>1, <3>2, <3>3, ServerCertType
  <2> QED
    BY <2>2, <2>3
<1>3. ASSUME NEW h \in Handshakes, ClientVerify(h) PROVE TypeInv'
  <2>1. pc[h] = "scert" /\ asks[ClientOf[h]] = 0 /\ UNCHANGED <<rflag, files, crt, ccert, asks>>
    BY <1>3 DEF ClientVerify, Free
  <2>2. \A p \in Procs : asks[p] # 0 => asks[p] # h
    BY <2>1 DEF TypeInv, Waits
  <2>3. CASE ConnectFails(h, holder)
    BY <1>0, <2>1, <2>2, <2>3, FailedType DEF Connecting
  <2>4. CASE pc' = [pc EXCEPT ![h] = "trusted"] /\ UNCHANGED <<up, holder>>
    <3>1. Waits' /\ OneAtATime'
      BY <2>1, <2>2, <2>4 DEF TypeInv, TypeOK, Waits, OneAtATime, Connecting
    <3> QED
      BY <2>1, <2>4, <3>1 DEF TypeInv, TypeOK, Held
  <2> QED
    BY <1>3, <2>3, <2>4 DEF ClientVerify
<1>4. ASSUME NEW h \in Handshakes, OnClientCert(h) \/ UseKnownCert(h) PROVE TypeInv'
  <2> DEFINE q == ClientOf[h]
  <2>1. pc[h] = "trusted" /\ up[q] = "runs" /\ asks[q] = 0
    BY <1>4 DEF OnClientCert, UseKnownCert, Free
  <2>2. q \in Procs /\ q # Server
    BY ClientAssumption DEF Procs
  <2>3. CASE Ask(q, h)
    <3>1. asks' = [asks EXCEPT ![q] = h] /\ UNCHANGED <<rflag, files, crt, up, pc, ccert, holder>>
      BY <2>3 DEF Ask
    <3>2. Waits' /\ OneAtATime'
      BY <2>1, <2>2, <3>1 DEF TypeInv, TypeOK, Waits, OneAtATime, Connecting
    <3> QED
      BY <2>1, <2>2, <3>1, <3>2 DEF TypeInv, TypeOK, Held
  <2>4. CASE ~Ask(q, h)
    <3>1. /\ \E c : UseClientCert(h, c, holder)
          /\ UNCHANGED <<rflag, files, crt, asks>>
      BY <1>4, <2>4 DEF OnClientCert, UseKnownCert
    <3>2. asks' = [asks EXCEPT ![q] = 0]
      BY <1>0, <2>1, <2>2, <3>1
    <3> QED
      BY <1>0, <2>1, <3>1, <3>2, ClientCertType
  <2> QED
    BY <2>3, <2>4
<1>5. ASSUME NEW p \in Procs, FromDaemon(p) PROVE TypeInv'
  <2> DEFINE h == asks[p]
             held == [holder EXCEPT ![MachineOf[p]] = p]
  <2>1. h \in Handshakes /\ up[p] = "runs" /\ asks' = [asks EXCEPT ![p] = 0]
        /\ UNCHANGED <<rflag, files, crt>>
    BY <1>0, <1>5 DEF FromDaemon
  <2>2. Held(held)
    BY <1>0, <2>1 DEF Held
  <2>3. CASE Crash(p, holder)
    BY <1>0, <2>1, <2>3, CrashType
  <2>4. CASE p = Server /\ \E c \in ServerCerts(h, ViaDaemon(p)) : UseServerCert(h, c, held)
    <3>1. pc[h] = "hello"
      <4>1. asks[Server] # 0 /\ Server \in Procs
        BY <2>1, <2>4, ClientAssumption
      <4> QED
        BY <2>4, <4>1 DEF TypeInv, Waits
    <3>2. PICK c : UseServerCert(h, c, held)
      BY <2>4
    <3>3. up[Server] = "runs" /\ asks[Server] \in {0, h} /\ asks' = [asks EXCEPT ![Server] = 0]
      BY <2>1, <2>4
    <3> HIDE DEF h, held
    <3> QED
      BY <2>1, <2>2, <3>1, <3>2, <3>3, ServerCertType
  <2>5. CASE p # Server /\ \E c \in ClientCerts(h, ViaDaemon(p)) : UseClientCert(h, c, held)
    <3>1. pc[h] = "trusted" /\ ClientOf[h] = p
      BY <2>1, <2>5, ClientAssumption DEF TypeInv, Waits
    <3>2. PICK c : UseClientCert(h, c, held)
      BY <2>5
    <3>3. /\ up[ClientOf[h]] = "runs" /\ asks[ClientOf[h]] \in {0, h}
          /\ asks' = [asks EXCEPT ![ClientOf[h]] = 0]
      BY <2>1, <3>1
    <3> HIDE DEF h, held
    <3> QED
      BY <2>1, <2>2, <3>1, <3>2, <3>3, ClientCertType
  <2> QED
    BY <1>5, <2>3, <2>4, <2>5 DEF FromDaemon
<1>6. ASSUME NEW h \in Handshakes, ServerVerify(h) PROVE TypeInv'
  <2>1. /\ pc[h] = "ccert" /\ UNCHANGED <<rflag, files, crt, up, ccert, asks, holder>>
        /\ \E v \in {"accepted", "refused"} : pc' = [pc EXCEPT ![h] = v]
    BY <1>6 DEF ServerVerify
  <2>2. \A p \in Procs : asks[p] # 0 => asks[p] # h
    BY <2>1 DEF TypeInv, Waits
  <2>3. Waits' /\ OneAtATime'
    BY <2>1, <2>2 DEF TypeInv, TypeOK, Waits, OneAtATime, Connecting
  <2> QED
    BY <2>1, <2>3 DEF TypeInv, TypeOK, Held, Over
<1>7. ASSUME NEW h \in Handshakes, BrokenOff(h) PROVE TypeInv'
  <2>0. UNCHANGED <<rflag, files, crt, scert, ccert, asks>>
    BY <1>7 DEF BrokenOff
  <2>1. CASE up[Server] # "runs" /\ Free(ClientOf[h]) /\ pc[h] # "ccert" /\ ConnectFails(h, holder)
    <3>1. asks[ClientOf[h]] = 0 /\ up[Server] # "runs" /\ Connecting(h)
      BY <1>7, <2>1 DEF BrokenOff, Free
    <3>2. \A p \in Procs : asks[p] # 0 => asks[p] # h
      <4>1. SUFFICES ASSUME NEW p \in Procs, asks[p] = h, asks[p] # 0 PROVE FALSE
        OBVIOUS
      <4>2. p # Server /\ ClientOf[h] = p
        BY <3>1, <4>1 DEF TypeInv, TypeOK, Waits
      <4> QED
        BY <3>1, <4>1, <4>2
    <3> QED
      BY <1>0, <2>0, <2>1, <3>1, <3>2, FailedType
  <2>2. CASE /\ up[ClientOf[h]] = "dead" \/ pc[h] = "ccert"
             /\ Free(Server) \/ up[Server] # "runs"
             /\ pc' = [pc EXCEPT ![h] = "failed"] /\ UNCHANGED <<up, holder>>
    <3>1. \A p \in Procs : asks[p] # 0 => up[p] = "runs" /\ asks[p] # h
      <4>1. SUFFICES ASSUME NEW p \in Procs, asks[p] = h, asks[p] # 0 PROVE FALSE
        BY DEF TypeInv, TypeOK
      <4> QED
        BY <2>2, <4>1 DEF TypeInv, TypeOK, Waits, Free
    <3>2. Waits' /\ OneAtATime'
      BY <2>0, <2>2, <3>1 DEF TypeInv, TypeOK, Waits, OneAtATime, Connecting
    <3> QED
      BY <2>0, <2>2, <3>2 DEF TypeInv, TypeOK, Held, Over
  <2> QED
    BY <1>7, <2>1, <2>2 DEF BrokenOff
<1>8. ASSUME NEW p \in Procs, Exit(p) PROVE TypeInv'
  <2>1. /\ up' = [up EXCEPT ![p] = "done"] /\ holder' = Without(holder, p)
        /\ UNCHANGED <<rflag, files, crt, pc, ccert, asks>>
    BY <1>8 DEF Exit
  <2>2. asks[p] = 0
    BY <1>8 DEF Exit, Free
  <2>3. Held(holder)'
    BY <1>0, <2>1, Released DEF TypeInv, TypeOK
  <2> QED
    BY <2>1, <2>2, <2>3 DEF TypeInv, TypeOK, Held, Waits, OneAtATime, Connecting
<1>9. ASSUME NEW p \in Procs, Kill(p) PROVE TypeInv'
  BY <1>0, <1>9, CrashType DEF Kill
<1>10. CASE UNCHANGED vars
  BY <1>10 DEF vars, TypeInv, TypeOK, Held, Waits, OneAtATime, Connecting
<1> QED
  BY <1>1, <1>2, <1>3, <1>4, <1>5, <1>6, <1>7, <1>8, <1>9, <1>10 DEF Next, Handshaking

LEMMA TypeInit == Init => TypeInv
BY ClientAssumption DEF Init, TypeInv, TypeOK, Held, OneAtATime, Waits, Connecting, Over

\* The types of processes, handshakes and connections; a daemon serves only a process
\* that exists, and only a running process waits for it (ocall_make_tpm2_quote_via_daemon).
THEOREM TypeCorrect == Spec => []TypeOK
<1>1. TypeInv => TypeOK
  BY DEF TypeInv
<1> QED
  BY <1>1, TypeInit, TypeStep, PTL DEF Spec

-----------------------------------------------------------------------------
(* Whose evidence it is.                                                   *)

Early == {"idle", "hello", "scert", "trusted"}

\* Before the client sends a certificate there is none.
NoneYet == \A h \in Handshakes : pc[h] \in Early => ccert[h] = NoCert

Shaped ==
  \A h \in Handshakes :
    /\ DOMAIN ccert[h] = DOMAIN NoCert /\ Nonced(ccert[h].ext)
    /\ ccert[h].ext.quote.status \in Statuses

\* Evidence with a handshake's nonce was made in it, for the key made in it.
NonceIsBound ==
  \A g, h \in Handshakes :
    ccert[g].ext.claims.nonce = <<"server", h>> =>
      /\ ccert[h].ext = ccert[g].ext
      /\ ccert[g].ext.claims.key = <<ClientOf[h], h>>

\* What may become the extension of a certificate in handshake h.
NewExt(e, h) ==
  \/ e \in {NULL, Bytes}
  \/ \E g \in Handshakes : e = ccert[g].ext
  \/ /\ e.claims.nonce # NoNonce =>
          e.claims.key = <<ClientOf[h], h>> /\ e.claims.nonce = <<"server", h>>
     /\ Nonced(e)
     /\ e.quote.status \in Statuses

CertSent(h) ==
  /\ pc[h] = "trusted" /\ pc' = [pc EXCEPT ![h] = "ccert"]
  /\ \E c : /\ DOMAIN c = DOMAIN NoCert /\ NewExt(c.ext, h)
            /\ ccert' = [ccert EXCEPT ![h] = c]

\* No certificate is sent or judged.
Quiet ==
  /\ UNCHANGED ccert
  /\ \A h \in Handshakes : pc'[h] = pc[h] \/ pc'[h] \in {"hello", "scert", "trusted", "failed"}
  /\ \A h \in Handshakes : pc'[h] \in Early => pc[h] \in Early

LEMMA UseClientCertSent ==
  ASSUME NEW h \in Handshakes, pc[h] = "trusted", NEW c, NEW held,
         UseClientCert(h, c, held), DOMAIN c = DOMAIN NoCert, NewExt(c.ext, h)
  PROVE  CertSent(h) \/ UNCHANGED <<pc, ccert>>
BY DEF UseClientCert, Crash, CertSent

LEMMA ClientCertNew ==
  ASSUME NEW h \in Handshakes, NEW quotes, NEW c \in ClientCerts(h, quotes)
  PROVE  DOMAIN c = DOMAIN NoCert /\ NewExt(c.ext, h)
BY ClientCertMade DEF NewExt

LEMMA ServerCertQuiet ==
  ASSUME NEW h \in Handshakes, TypeInv, pc[h] = "hello", NEW c, NEW held,
         UseServerCert(h, c, held)
  PROVE  Quiet
BY DEF UseServerCert, ConnectFails, Crash, Quiet, Early, TypeInv, TypeOK

\* Every step sends a certificate, judges one, or does neither.
LEMMA CertSteps ==
  ASSUME TypeInv, Shaped, [Next]_vars
  PROVE  Quiet \/ \E h \in Handshakes : CertSent(h) \/ ServerVerify(h)
<1>1. ASSUME UNCHANGED <<pc, ccert>> PROVE Quiet
  BY <1>1 DEF Quiet
<1>2. ASSUME NEW h \in Handshakes, ClientHello(h) \/ ClientVerify(h) \/ BrokenOff(h) PROVE Quiet
  BY <1>2 DEF ClientHello, ClientVerify, BrokenOff, ConnectFails, Quiet, Early, TypeInv,
              TypeOK, Connecting
<1>3. ASSUME NEW h \in Handshakes, OnClientHello(h) PROVE Quiet
  <2>1. CASE Ask(Server, h)
    BY <1>1, <2>1 DEF Ask
  <2>2. CASE ~Ask(Server, h)
    <3>1. PICK c : UseServerCert(h, c, holder)
      BY <1>3, <2>2 DEF OnClientHello
    <3> QED
      BY <1>3, <3>1, ServerCertQuiet DEF OnClientHello
  <2> QED
    BY <2>1, <2>2
<1>4. ASSUME NEW h \in Handshakes, OnClientCert(h) PROVE Quiet \/ CertSent(h)
  <2>1. CASE Ask(ClientOf[h], h)
    BY <1>1, <2>1 DEF Ask
  <2>2. CASE ~Ask(ClientOf[h], h)
    <3>1. PICK c \in ClientCerts(h, Direct(ClientOf[h])) : UseClientCert(h, c, holder)
      BY <1>4, <2>2 DEF OnClientCert
    <3>2. pc[h] = "trusted"
      BY <1>4 DEF OnClientCert
    <3> QED
      BY <1>1, <3>1, <3>2, ClientCertNew, UseClientCertSent
  <2> QED
    BY <2>1, <2>2
<1>5. ASSUME NEW h \in Handshakes, UseKnownCert(h) PROVE Quiet \/ CertSent(h)
  <2>1. PICK c \in Plain \cup {ccert[g] : g \in Handshake(ClientOf[h])}, inDate \in BOOLEAN :
          UseClientCert(h, [c EXCEPT !.inDate = inDate], holder)
    BY <1>5 DEF UseKnownCert
  <2>2. /\ DOMAIN c = DOMAIN NoCert
        /\ c.ext \in {NULL, Bytes} \/ \E g \in Handshakes : c.ext = ccert[g].ext
    BY PlainAssumption DEF Shaped, Handshake
  <2>3. DOMAIN NoCert = {"key", "issuer", "ext", "inDate", "at"}
    BY DEF NoCert
  <2>4. /\ DOMAIN [c EXCEPT !.inDate = inDate] = DOMAIN NoCert
        /\ [c EXCEPT !.inDate = inDate].ext = c.ext
    BY <2>2, <2>3
  <2>5. NewExt([c EXCEPT !.inDate = inDate].ext, h)
    BY <2>2, <2>4 DEF NewExt
  <2>6. pc[h] = "trusted"
    BY <1>5 DEF UseKnownCert
  <2> QED
    BY <1>1, <2>1, <2>4, <2>5, <2>6, UseClientCertSent
<1>6. ASSUME NEW p \in Procs, FromDaemon(p) PROVE Quiet \/ \E h \in Handshakes : CertSent(h)
  <2> DEFINE h == asks[p]
             held == [holder EXCEPT ![MachineOf[p]] = p]
  <2>1. h \in Handshakes /\ h # 0
    BY <1>6 DEF FromDaemon, TypeInv, TypeOK
  <2>2. CASE Crash(p, holder)
    BY <1>1, <2>2 DEF Crash
  <2>3. CASE p = Server /\ \E c \in ServerCerts(h, ViaDaemon(p)) : UseServerCert(h, c, held)
    <3>1. pc[h] = "hello"
      <4>1. asks[Server] # 0 /\ Server \in Procs
        BY <2>1, <2>3
      <4> QED
        BY <2>3, <4>1 DEF TypeInv, Waits
    <3>2. PICK c : UseServerCert(h, c, held)
      BY <2>3
    <3> HIDE DEF h, held
    <3> QED
      BY <2>1, <3>1, <3>2, ServerCertQuiet
  <2>4. CASE p # Server /\ \E c \in ClientCerts(h, ViaDaemon(p)) : UseClientCert(h, c, held)
    <3>1. pc[h] = "trusted"
      BY <2>1, <2>4 DEF TypeInv, Waits
    <3>2. PICK c \in ClientCerts(h, ViaDaemon(p)) : UseClientCert(h, c, held)
      BY <2>4
    <3> HIDE DEF h, held
    <3>3. DOMAIN c = DOMAIN NoCert /\ NewExt(c.ext, h)
      BY <2>1, <3>2, ClientCertNew
    <3> QED
      BY <1>1, <2>1, <3>1, <3>2, <3>3, UseClientCertSent
  <2> QED
    BY <1>6, <2>2, <2>3, <2>4 DEF FromDaemon
<1>7. ASSUME NEW p \in Procs, Exit(p) \/ Kill(p) PROVE Quiet
  BY <1>1, <1>7 DEF Exit, Kill, Crash
<1>8. CASE UNCHANGED vars
  BY <1>1, <1>8 DEF vars
<1> QED
  BY <1>2, <1>3, <1>4, <1>5, <1>6, <1>7, <1>8 DEF Next, Handshaking

LEMMA NoNoncesOfNobody ==
  /\ NULL.claims.nonce = NoNonce /\ Bytes.claims.nonce = NoNonce
  /\ NULL.quote.status \in Statuses /\ Bytes.quote.status \in Statuses
  /\ Nonced(NULL) /\ Nonced(Bytes)
  /\ NoCert.ext = NULL
  /\ \A h \in Handshakes : <<"server", h>> # NoNonce
BY ClientAssumption DEF NULL, Bytes, Other, Nonced, NoClaims, NoNonce, JunkQuote, Statuses, NoCert

Certs == NoneYet /\ Shaped /\ NonceIsBound /\ AcceptedIsOwn /\ AcceptedInDate

\* A step without a certificate changes nothing that an accepted one depends on.
LEMMA QuietKeeps ==
  ASSUME TypeInv, Certs, Quiet
  PROVE  Certs'
<1>1. \A h \in Handshakes : pc'[h] = "accepted" => pc[h] = "accepted"
  BY DEF Quiet
<1>2. NoneYet'
  BY DEF Certs, Quiet, NoneYet
<1>3. Shaped' /\ NonceIsBound'
  BY DEF Certs, Quiet, Shaped, NonceIsBound
<1>4. AcceptedIsOwn'
  BY <1>1 DEF Certs, Quiet, AcceptedIsOwn
<1>5. AcceptedInDate'
  BY <1>1 DEF Certs, Quiet, AcceptedInDate
<1> QED
  BY <1>2, <1>3, <1>4, <1>5 DEF Certs

\* A certificate that is sent has evidence of its own handshake, or evidence that
\* stays bound to the handshake it was made in.
LEMMA SentKeeps ==
  ASSUME TypeInv, Certs, NEW k \in Handshakes, CertSent(k)
  PROVE  Certs'
<1>1. PICK c : /\ DOMAIN c = DOMAIN NoCert /\ NewExt(c.ext, k)
               /\ ccert' = [ccert EXCEPT ![k] = c]
  BY DEF CertSent
<1>2. /\ ccert'[k] = c /\ \A h \in Handshakes \ {k} : ccert'[h] = ccert[h]
      /\ pc'[k] = "ccert" /\ \A h \in Handshakes \ {k} : pc'[h] = pc[h]
  BY <1>1 DEF CertSent, TypeInv, TypeOK
<1>3. ccert[k].ext = NULL
  BY NoNoncesOfNobody DEF Certs, NoneYet, CertSent, Early
<1>4. \A g \in Handshakes : ccert[g].ext.claims.nonce # <<"server", k>>
  BY <1>3, NoNoncesOfNobody DEF Certs, NonceIsBound
<1>5. NoneYet'
  BY <1>2 DEF Certs, NoneYet, Early
<1>6. c.ext.quote.status \in Statuses /\ Nonced(c.ext)
  BY <1>1, NoNoncesOfNobody DEF NewExt, Certs, Shaped
<1>7. Shaped'
  BY <1>1, <1>2, <1>6 DEF Certs, Shaped
<1>8. ASSUME NEW h \in Handshakes, c.ext.claims.nonce = <<"server", h>>
      PROVE  /\ c.ext.claims.key = <<ClientOf[h], h>>
             /\ h = k \/ c.ext = ccert[h].ext
  <2>1. CASE c.ext \in {NULL, Bytes}
    BY <1>8, <2>1, NoNoncesOfNobody
  <2>2. CASE \E g \in Handshakes : c.ext = ccert[g].ext
    BY <1>8, <2>2 DEF Certs, NonceIsBound
  <2>3. CASE c.ext.claims.key = <<ClientOf[k], k>> /\ c.ext.claims.nonce = <<"server", k>>
    BY <1>8, <2>3
  <2> QED
    BY <1>1, <1>8, <2>1, <2>2, <2>3, NoNoncesOfNobody DEF NewExt
<1>9. NonceIsBound'
  <2>1. SUFFICES ASSUME NEW g \in Handshakes, NEW h \in Handshakes,
                        ccert'[g].ext.claims.nonce = <<"server", h>>
                 PROVE  /\ ccert'[h].ext = ccert'[g].ext
                        /\ ccert'[g].ext.claims.key = <<ClientOf[h], h>>
    BY DEF NonceIsBound
  <2>2. CASE g = k
    BY <1>2, <1>8, <2>1, <2>2
  <2>3. CASE g # k
    <3>1. h # k
      BY <1>2, <1>4, <2>1, <2>3
    <3> QED
      BY <1>2, <2>1, <2>3, <3>1 DEF Certs, NonceIsBound
  <2> QED
    BY <2>2, <2>3
<1>10. AcceptedIsOwn'
  BY <1>2 DEF Certs, AcceptedIsOwn
<1>11. AcceptedInDate'
  BY <1>2 DEF Certs, AcceptedInDate
<1> QED
  BY <1>5, <1>7, <1>9, <1>10, <1>11 DEF Certs

\* Evidence that has a nonce is accepted only with that of its own handshake, which
\* is in no certificate but those with the evidence made in it.
LEMMA JudgeKeeps ==
  ASSUME TypeInv, Certs, NEW k \in Handshakes, ServerVerify(k)
  PROVE  Certs'
<1>1. /\ pc[k] = "ccert" /\ UNCHANGED ccert
      /\ \A h \in Handshakes \ {k} : pc'[h] = pc[h]
      /\ pc'[k] \in {"accepted", "refused"}
  BY DEF ServerVerify, TypeInv, TypeOK
<1>2. NoneYet' /\ Shaped' /\ NonceIsBound'
  BY <1>1 DEF Certs, NoneYet, Early, Shaped, NonceIsBound
<1>3. CASE pc'[k] = "refused"
  BY <1>1, <1>2, <1>3 DEF Certs, AcceptedIsOwn, AcceptedInDate
<1>4. CASE pc'[k] = "accepted"
  <2> DEFINE e == ccert[k].ext
             nonce == <<"server", k>>
  <2>1. PICK ok \in verify(ccert[k], nonce, "server", files) : ok
    BY <1>4 DEF ServerVerify, TypeInv, TypeOK
  <2>2. /\ ccert[k].issuer = "self" /\ ccert[k].inDate
        /\ Found(ccert[k].at.evidence) =>
              /\ Extracted(e, ccert[k].key)
              /\ nonce \in OutNonces(e, nonce)
              /\ "qve" \notin Faults =>
                    e.quote.status \notin {"INVALID_SIGNATURE", "REVOKED", "UNSPECIFIED"}
    BY <2>1, Accepts
  <2>3. ASSUME Found(ccert[k].at.evidence), e.tag = "TEE_TPM2_QUOTE"
        PROVE  e.claims.nonce = nonce
    <3>1. e.claims # NoClaims
      BY <2>2, <2>3 DEF Extracted
    <3>2. e.claims.nonce # NoNonce
      BY <2>3, <3>1 DEF Certs, Shaped, Nonced
    <3> QED
      BY <2>2, <2>3, <3>2 DEF OutNonces
  <2>4. Found(ccert[k].at.evidence) /\ e.tag = "TEE_TPM2_QUOTE" =>
          e.claims.key = <<ClientOf[k], k>>
    BY <2>3 DEF Certs, NonceIsBound
  <2>5. e.quote.status \in Statuses
    BY DEF Certs, Shaped
  <2>6. Found(ccert[k].at.evidence) =>
          /\ IsEvidence(e) /\ e.claims.key = ccert[k].key
          /\ e.quote.covers = e.claims
          /\ "qve" \notin Faults => e.quote.status \in {"OK", "OUT_OF_DATE"}
    BY <2>2, <2>5 DEF Extracted, sgx_tls_compare_quote_hash, Statuses,
                      compare_cert_pubkey_against_cbor_claim_hash
  <2>7. AcceptedIsOwn'
    BY <1>1, <2>3, <2>4, <2>6 DEF Certs, AcceptedIsOwn
  <2>8. AcceptedInDate'
    BY <1>1, <2>2 DEF Certs, AcceptedInDate
  <2> QED
    BY <1>2, <2>7, <2>8 DEF Certs
<1> QED
  BY <1>1, <1>3, <1>4

CertsAlways == TypeInv /\ Certs

LEMMA CertsInductive ==
  /\ Init => CertsAlways
  /\ CertsAlways /\ [Next]_vars => CertsAlways'
<1>1. Init => Certs
  BY NoNoncesOfNobody DEF Init, Certs, NoneYet, Shaped, NonceIsBound, AcceptedIsOwn, AcceptedInDate
<1>2. CertsAlways /\ [Next]_vars => CertsAlways'
  <2>1. SUFFICES ASSUME TypeInv, Certs, [Next]_vars PROVE TypeInv' /\ Certs'
    BY DEF CertsAlways
  <2>2. Quiet \/ \E h \in Handshakes : CertSent(h) \/ ServerVerify(h)
    BY <2>1, CertSteps DEF Certs
  <2> QED
    BY <2>1, <2>2, TypeStep, QuietKeeps, SentKeeps, JudgeKeeps
<1> QED
  BY <1>1, <1>2, TypeInit DEF CertsAlways

\* When verify_contents finds evidence, what verify_SGX_evidence accepts is a quote that
\* verifies over claims that name the key of the certificate; evidence with a TPM quote
\* was made for this handshake, for any number of sessions, certificates kept and
\* pointers left over from others.
THEOREM OwnEvidenceCorrect == Spec => []AcceptedIsOwn
<1>1. CertsAlways => AcceptedIsOwn
  BY DEF CertsAlways, Certs
<1> QED
  BY <1>1, CertsInductive, PTL DEF Spec

\* The -1 of verify_cert, which has both bits, lets no certificate pass whose dates do
\* not verify.
THEOREM InDateCorrect == Spec => []AcceptedInDate
<1>1. CertsAlways => AcceptedInDate
  BY DEF CertsAlways, Certs
<1> QED
  BY <1>1, CertsInductive, PTL DEF Spec

-----------------------------------------------------------------------------
(* What the server may not refuse.                                         *)

\* The certificate of a handshake without a fault, and the files for its machine.
GoodFiles(p) ==
  /\ PlatformOf[p] \in {"OK", "OUT_OF_DATE"} /\ "qve" \notin Faults
  /\ files = [ak |-> MachineOf[p], pcrs |-> TpmQuote(MachineOf[p]).pcrs]

Good(h) ==
  GoodFiles(ClientOf[h]) /\ ccert[h] = GoodCert(h, TpmQuote(MachineOf[ClientOf[h]]))

\* Evidence is judged good when the quote covers claims that name the key and the
\* nonce, and the TPM's key and PCRs are those of the files.
LEMMA GoodEvidence ==
  ASSUME "qve" \notin Faults, NEW c, NEW nonce, NEW f, NEW m, NEW q,
         m # "none", nonce # NoNonce, f = [ak |-> m, pcrs |-> TpmQuote(m).pcrs],
         c.ext.tag = "TEE_TPM2_QUOTE", c.ext.quote = q, q.covers = c.ext.claims,
         q.status \in {"OK", "OUT_OF_DATE"},
         c.ext.claims.key = c.key, c.ext.claims.nonce = nonce, c.ext.claims.tpm = TpmQuote(m)
  PROVE  verify_SGX_evidence(c.ext, c.key, nonce, f) = {VERIFIED_EVIDENCE}
<1>1. c.ext.claims # NoClaims
  BY DEF NoClaims
<1>2. q # JunkQuote
  BY DEF JunkQuote
<1>3. Extracted(c.ext, c.key)
  BY <1>1, <1>2 DEF Extracted, IsEvidence, sgx_tls_compare_quote_hash,
                    compare_cert_pubkey_against_cbor_claim_hash
<1>4. QuoteVerdicts(c.ext.quote.status) = {TRUE}
  BY DEF QuoteVerdicts
<1>5. OutNonces(c.ext, nonce) = {nonce}
  BY DEF OutNonces
<1>6. ocall_verify_tpm2_quote(c.ext.claims.tpm, f)
  <2>1. /\ TpmQuote(m).form = "map" /\ TpmQuote(m).pcrs = pcr_select
        /\ f.ak = m /\ f.pcrs = TpmQuote(m).pcrs
    BY DEF TpmQuote
  <2>2. pcr_select # "none"
    BY DEF pcr_select
  <2> QED
    BY <2>1, <2>2 DEF ocall_verify_tpm2_quote, comp_pcr_selection
<1> DEFINE verdict(good, out) ==
             IF /\ good
                /\ out = nonce
                /\ c.ext.tag = "TEE_TPM2_QUOTE" => ocall_verify_tpm2_quote(c.ext.claims.tpm, f)
               THEN VERIFIED_EVIDENCE
               ELSE 0
<1>7. verify_SGX_evidence(c.ext, c.key, nonce, f) =
        {verdict(good, out) : good \in {TRUE}, out \in {nonce}}
  BY <1>3, <1>4, <1>5 DEF verify_SGX_evidence
<1>8. verdict(TRUE, nonce) = VERIFIED_EVIDENCE
  BY <1>6
<1> QED
  BY <1>7, <1>8

LEMMA GoodAccepted ==
  ASSUME NEW h \in Handshakes, Good(h)
  PROVE  /\ ccert[h] # NoCert
         /\ FALSE \notin verify(ccert[h], <<"server", h>>, "server", files)
<1> DEFINE p == ClientOf[h]
           m == MachineOf[p]
           nonce == <<"server", h>>
           c == ccert[h]
<1>0. p \in Procs /\ m # "none" /\ nonce # NoNonce
  BY ClientAssumption, MachineAssumption, NoNoncesOfNobody DEF Procs
<1>1. /\ "qve" \notin Faults /\ files = [ak |-> m, pcrs |-> TpmQuote(m).pcrs]
      /\ PlatformOf[p] \in {"OK", "OUT_OF_DATE"} /\ c = GoodCert(h, TpmQuote(m))
  BY DEF Good, GoodFiles
<1>2. /\ c.issuer = "self" /\ c.inDate = TRUE /\ c.key = <<p, h>>
      /\ c.ext.tag = "TEE_TPM2_QUOTE" /\ c.ext.quote.covers = c.ext.claims
      /\ c.ext.quote.status = PlatformOf[p]
      /\ c.ext.claims.key = <<p, h>> /\ c.ext.claims.nonce = nonce
      /\ c.ext.claims.tpm = TpmQuote(m)
  BY <1>1 DEF GoodCert, Cert
<1>8. Found(c.at.evidence)
  <2>1. c.at = IF c.ext = NULL THEN Nowhere ELSE AfterRest
    BY <1>1 DEF GoodCert, Cert
  <2>2. c.ext # NULL
    BY <1>2 DEF NULL, Other
  <2> QED
    BY <2>1, <2>2 DEF AfterRest, Found
<1> HIDE DEF c, m, p, nonce
<1>3. verify_SGX_evidence(c.ext, c.key, nonce, files) = {VERIFIED_EVIDENCE}
  BY <1>0, <1>1, <1>2, GoodEvidence
<1>4. c # NoCert
  BY <1>2 DEF NoCert
<1>5. SelfSignedCall(c, nonce, "server", files) = {HasBit(VERIFIED_EVIDENCE)}
  BY <1>2, <1>3, <1>8 DEF SelfSignedCall, verify_cert, verify_contents
<1>6. HasBit(VERIFIED_EVIDENCE)
  BY DEF HasBit, VERIFIED_EVIDENCE
<1>7. FALSE \notin verify(c, nonce, "server", files)
  BY <1>2, <1>5, <1>6 DEF verify
<1> QED
  BY <1>4, <1>7 DEF c, nonce

\* The server's files do not change, and a handshake is refused by server_verify only.
LEMMA FilesKept ==
  ASSUME [Next]_vars
  PROVE  files' = files
BY DEF Next, vars, Handshaking, ClientHello, OnClientHello, ClientVerify, OnClientCert,
       UseKnownCert, ServerVerify, BrokenOff, FromDaemon, Exit, Kill, Ask

LEMMA NotRefusedStep ==
  ASSUME CertsAlways, OwnNotRefused, [Next]_vars
  PROVE  OwnNotRefused'
<1>1. files' = files
  BY FilesKept
<1>2. SUFFICES ASSUME NEW h \in Handshakes, Good(h)', pc'[h] = "refused" PROVE FALSE
  BY DEF OwnNotRefused, Good, GoodFiles
<1>3. ASSUME Good(h), pc[h] = "refused" PROVE FALSE
  BY <1>3 DEF OwnNotRefused, Good, GoodFiles
<1>4. ASSUME ccert'[h] = ccert[h] PROVE Good(h)
  BY <1>1, <1>2, <1>4 DEF Good, GoodFiles, GoodCert
<1>5. CASE Quiet
  BY <1>2, <1>3, <1>4, <1>5 DEF Quiet
<1>6. ASSUME NEW k \in Handshakes, CertSent(k) PROVE FALSE
  <2>1. pc'[k] = "ccert" /\ (h # k => pc'[h] = pc[h] /\ ccert'[h] = ccert[h])
    BY <1>6 DEF CertSent, CertsAlways, TypeInv, TypeOK
  <2> QED
    BY <1>2, <1>3, <1>4, <2>1
<1>7. ASSUME NEW k \in Handshakes, ServerVerify(k) PROVE FALSE
  <2>1. Good(h)
    BY <1>4, <1>7 DEF ServerVerify
  <2>2. CASE h # k
    <3>1. pc'[h] = pc[h]
      BY <1>7, <2>2 DEF ServerVerify
    <3> QED
      BY <1>2, <1>3, <2>1, <3>1
  <2>3. CASE h = k
    <3>1. PICK ok \in verify(ccert[h], <<"server", h>>, "server", files) :
            pc' = [pc EXCEPT ![h] = IF ok THEN "accepted" ELSE "refused"]
      BY <1>7, <2>1, <2>3, GoodAccepted DEF ServerVerify
    <3>2. ~ ok
      BY <1>2, <3>1 DEF CertsAlways, TypeInv, TypeOK
    <3>3. ok \in BOOLEAN
      BY <3>1 DEF verify, OtherErrorCall, SelfSignedCall, HasBit
    <3> QED
      BY <2>1, <3>1, <3>2, <3>3, GoodAccepted
  <2> QED
    BY <2>2, <2>3
<1> QED
  BY <1>5, <1>6, <1>7, CertSteps DEF CertsAlways, Certs

\* verify_SGX_evidence refuses no certificate that libcert has made without a fault for
\* this handshake, when the server has ak_pub.pem and reg_quote.bin of the client's TPM.
THEOREM NotRefusedCorrect == Spec => []OwnNotRefused
<1>1. Init => OwnNotRefused
  BY DEF Init, OwnNotRefused
<1>2. CertsAlways /\ OwnNotRefused /\ [Next]_vars => OwnNotRefused'
  BY NotRefusedStep
<1> QED
  BY <1>1, <1>2, CertsInductive, PTL DEF Spec
=============================================================================
