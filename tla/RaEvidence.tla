----------------------------- MODULE RaEvidence -----------------------------
(***************************************************************************)
(* Certificates with attestation evidence: how libcert, libintel and       *)
(* libtpm2 make them and how they judge them.  The operators of the making *)
(* side have the set of outcomes of a call as value: a success, and for    *)
(* every fault that may happen what the code does then.                    *)
(***************************************************************************)
EXTENDS Integers, FiniteSets

CONSTANTS
    Faults    \* what may fail: keys, cbor, qe, tpm, long, qve

(* A key pair and a nonce belong to a process and a handshake, or to none. *)
NoKey   == <<"none", 0>>
NoNonce == <<"none", 0>>
DeadKey == <<"dies", 0>>

(***************************************************************************)
(* A TPM quote as the enclave gets it from the host: the machine whose AK  *)
(* signed it, the PCRs it selects, and whether the bytes are a CBOR map at *)
(* all, or longer than MAXSIZE_SER_TPM2_QUOTE.                             *)
(***************************************************************************)
pcr_select   == "0,1,2,7,10"
TpmQuote(ak) == [form |-> "map", ak |-> ak, pcrs |-> pcr_select]
NoTpm        == [form |-> "none", ak |-> "none", pcrs |-> "none"]
JunkTpm      == [NoTpm EXCEPT !.form = "bytes"]

(* Claims are what the report of the enclave covers. *)
NoClaims   == [key |-> NoKey, nonce |-> NoNonce, tpm |-> NoTpm]
DeadClaims == [NoClaims EXCEPT !.key = DeadKey]

JunkQuote == [covers |-> NoClaims, status |-> "INVALID_SIGNATURE"]

(***************************************************************************)
(* Evidence, and what may stand in its place: nothing, bytes that are not  *)
(* evidence, a variable the function did not set, a pointer to nowhere.    *)
(***************************************************************************)
Other(tag)  == [tag |-> tag, quote |-> JunkQuote, claims |-> NoClaims]
NULL        == Other("NULL")
Bytes       == Other("bytes")
Unset       == Other("unset")
Wild        == Other("wild")
IsEvidence(e) == e.tag \in {"TEE_QUOTE", "TEE_TPM2_QUOTE"}

(***************************************************************************)
(* What a call of make_certificate_evidence leaves behind: a quote or      *)
(* none, and the evidence.  Its callers only print the return value.       *)
(***************************************************************************)
Result(quote, e) == [quote |-> quote, evidence |-> e]
Dies             == Result(FALSE, Other("dies"))

-----------------------------------------------------------------------------
(***************************************************************************)
(* Making evidence.                                                        *)
(***************************************************************************)

(***************************************************************************)
(* The hash of the key's DER form, as libintel makes it: none without a    *)
(* key, or when an item cannot be built.                                   *)
(***************************************************************************)
make_cbor_pkhash_entry(key) ==
    {key} \cup (IF "cbor" \in Faults THEN {NoKey} ELSE {})

(***************************************************************************)
(* The same as libtpm2 makes it.  When there is no key, or no item for the *)
(* hash, the -1 of pem2der_sha256 is compared as a size_t, and the item    *)
(* that was not built is stored: the process dies.                         *)
(***************************************************************************)
pem2der_sha256(key) ==
    (IF key = NoKey THEN {} ELSE {key}) \cup
    (IF key = NoKey \/ "cbor" \in Faults THEN {DeadKey} ELSE {})

PkHashEntry(key) ==
    pem2der_sha256(key) \cup (IF "cbor" \in Faults THEN {NoKey} ELSE {})

make_cbor_sgx_claims(key) == {[NoClaims EXCEPT !.key = k] : k \in make_cbor_pkhash_entry(key)}

(***************************************************************************)
(* The claims of an enclave with a TPM.  An empty TPM quote, as a failing  *)
(* step before it, leaves claims NULL, here NoClaims; the length is then   *)
(* not set either.                                                         *)
(***************************************************************************)
Claims(k, nonce, quote) ==
    CASE k = DeadKey -> DeadClaims
      [] k = NoKey   -> NoClaims
      [] OTHER       -> [key |-> k, nonce |-> nonce, tpm |-> quote]

make_cbor_tpm2_claims_from_enclave(key, nonce, quote) ==
    {IF quote = NoTpm /\ k # DeadKey THEN NoClaims ELSE Claims(k, nonce, quote) :
       k \in PkHashEntry(key)}

(* Those of a host: no quote among them. *)
make_cbor_tpm2_claims(key, nonce) == {Claims(k, nonce, NoTpm) : k \in PkHashEntry(key)}

(* The SGX quote over the claims; the qrc of the last ocall is not looked at. *)
SgxQuotes(claims, status) ==
    {[covers |-> claims, status |-> status]} \cup
    (IF "qe" \in Faults THEN {JunkQuote} ELSE {})

(* Tagged array of quote and claims.  It sets the result to NULL first. *)
make_cbor_sgx_evidence(quote, claims, tag) ==
    {Result(TRUE, [tag |-> tag, quote |-> quote, claims |-> claims])} \cup
    (IF "cbor" \in Faults THEN {Result(TRUE, NULL)} ELSE {})

(* Before there is a buffer for the quote, and after, an ocall may fail. *)
OcallFails ==
    IF "qe" \in Faults THEN {Result(q, Unset) : q \in BOOLEAN} ELSE {}

Quoted(claims, status, tag) ==
    OcallFails \cup
    UNION {make_cbor_sgx_evidence(q, claims, tag) : q \in SgxQuotes(claims, status)}

(* make_certificate_evidence of an enclave without a TPM. *)
SgxEvidence(key, status) ==
    UNION {IF c = NoClaims
             THEN {Result(FALSE, Unset)}
             ELSE Quoted(c, status, "TEE_QUOTE") : c \in make_cbor_sgx_claims(key)}

(***************************************************************************)
(* make_certificate_evidence of an enclave with a TPM.  The result of the  *)
(* claims is not looked at: without them as many bytes are hashed from     *)
(* address 0 as the variable happens to say, possibly none.                *)
(***************************************************************************)
SgxTpm2Evidence(key, nonce, quotes, status) ==
    UNION {CASE c = DeadClaims -> {Dies}
             [] c = NoClaims   -> {Dies} \cup Quoted(c, status, "TEE_TPM2_QUOTE")
             [] OTHER          -> Quoted(c, status, "TEE_TPM2_QUOTE") :
           c \in UNION {make_cbor_tpm2_claims_from_enclave(key, nonce, q) : q \in quotes}}

(* "Not yet implemented": neither result is set. *)
make_cbor_tpm2_evidence == Result(FALSE, Unset)

(***************************************************************************)
(* make_certificate_evidence outside an enclave: claims, a TPM quote that  *)
(* nothing uses, and the evidence.  It returns before when the claims      *)
(* cannot be made.                                                         *)
(***************************************************************************)
HostEvidence(key, nonce) ==
    {CASE c = DeadClaims -> Dies
       [] c = NoClaims   -> Result(FALSE, Unset)
       [] OTHER          -> make_cbor_tpm2_evidence : c \in make_cbor_tpm2_claims(key, nonce)}

make_certificate_evidence(build, key, nonce, quotes, status) ==
    CASE build = "sgx"      -> SgxEvidence(key, status)
      [] build = "sgx_tpm2" -> SgxTpm2Evidence(key, nonce, quotes, status)
      [] build = "host"     -> HostEvidence(key, nonce)

(***************************************************************************)
(* The quote of the host's TPM when the enclave asks for it directly: the  *)
(* result of a TPM command that failed is recognised by the type of what   *)
(* it left, and has size 0.                                                *)
(***************************************************************************)
ocall_make_tpm2_quote(ak) ==
    {TpmQuote(ak)} \cup
    (IF "tpm" \in Faults THEN {NoTpm} ELSE {}) \cup
    (IF "long" \in Faults THEN {[TpmQuote(ak) EXCEPT !.form = "long"]} ELSE {})

(***************************************************************************)
(* The same from the reply of the Attester Daemon.  The size is always     *)
(* that of the whole reply, so that a reply without a quote gives bytes.   *)
(***************************************************************************)
ocall_make_tpm2_quote_via_daemon(ak) ==
    {TpmQuote(ak)} \cup
    (IF "tpm" \in Faults THEN {JunkTpm} ELSE {}) \cup
    (IF "long" \in Faults THEN {[TpmQuote(ak) EXCEPT !.form = "long"]} ELSE {})

-----------------------------------------------------------------------------
(***************************************************************************)
(* Certificates: the key, who signed, the content of the extension for     *)
(* evidence, where among the extensions that and the one for a quote are,  *)
(* and whether the dates verify.  make_x509cert adds both or neither,      *)
(* after three others.                                                     *)
(***************************************************************************)
Nowhere   == [evidence |-> -1, quote |-> -1]
AfterRest == [evidence |-> 4, quote |-> 3]

Cert(key, ext) ==
    [key |-> key, issuer |-> "self", ext |-> ext, inDate |-> TRUE,
     at  |-> IF ext = NULL THEN Nowhere ELSE AfterRest]

NoCert ==
    [key |-> NoKey, issuer |-> "none", ext |-> NULL, inDate |-> FALSE, at |-> Nowhere]

DeadCert       == [NoCert EXCEPT !.issuer = "dies"]

(***************************************************************************)
(* make_x509cert: with a quote or evidence both extensions are added.      *)
(* There is no certificate without a key.                                  *)
(***************************************************************************)
make_x509cert(key, r, left) ==
    LET e == IF r.evidence = Unset THEN left ELSE r.evidence
    IN  CASE r = Dies                     -> {DeadCert}
          [] r # Dies /\ key = NoKey      -> {NoCert}
          [] r # Dies /\ key # NoKey /\ IsEvidence(e) -> {Cert(key, e)}
          [] r # Dies /\ key # NoKey /\ e = Wild -> {DeadCert, Cert(key, Bytes)}
          [] r # Dies /\ key # NoKey /\ e = NULL ->
                {Cert(key, IF r.quote THEN Bytes ELSE NULL)}

(* A key pair, or none when one of its steps fails. *)
make_keypair(p, h) == {<<p, h>>} \cup (IF "keys" \in Faults THEN {NoKey} ELSE {})

(***************************************************************************)
(* The certificates that process p of a build may make for handshake h and *)
(* the peer's nonce.  lefts is what the variable for the evidence may hold *)
(* at the call.                                                            *)
(***************************************************************************)
Certificates(build, p, h, nonce, quotes, status, lefts) ==
    UNION {UNION {UNION {make_x509cert(k, r, l) : l \in lefts} :
                  r \in make_certificate_evidence(build, k, nonce, quotes, status)} :
           k \in make_keypair(p, h)}

-----------------------------------------------------------------------------
(***************************************************************************)
(* Judging evidence.                                                       *)
(***************************************************************************)
VERIFIED_QUOTE    == 1
VERIFIED_EVIDENCE == 2

(* Does the quote's report data hold the hash of the claims? *)
sgx_tls_compare_quote_hash(e) == e.quote # JunkQuote /\ e.quote.covers = e.claims

compare_cert_pubkey_against_cbor_claim_hash(key, claims) == claims.key = key

(***************************************************************************)
(* extract_cbor_evidence_and_compare_hash: is it evidence with claims that *)
(* are not empty, that the quote covers, and that name the key?            *)
(***************************************************************************)
Extracted(e, key) ==
    /\ IsEvidence(e)
    /\ e.claims # NoClaims
    /\ sgx_tls_compare_quote_hash(e)
    /\ compare_cert_pubkey_against_cbor_claim_hash(key, e.claims)

(***************************************************************************)
(* What out_nonce holds after the extraction: claims without a nonce leave *)
(* in it what the stack held, which may be anything: the nonce it is       *)
(* compared with, or something else.                                       *)
(***************************************************************************)
OutNonces(e, nonce) ==
    IF e.claims.nonce # NoNonce THEN {e.claims.nonce} ELSE {nonce, NoNonce}

(* qv_result decides, also when the ocall that should set it has failed. *)
QuoteVerdicts(status) ==
    {status \notin {"INVALID_SIGNATURE", "REVOKED", "UNSPECIFIED"}} \cup
    (IF "qve" \in Faults THEN BOOLEAN ELSE {})

(***************************************************************************)
(* verify_tpm2_quote and the comparison with reg_quote.bin.  The outcome   *)
(* of the first reaches the caller only if the second fails.  files has    *)
(* the machine of ak_pub.pem and the PCRs of reg_quote.bin, or "none".     *)
(***************************************************************************)
verify_tpm2_quote(quote, files) == quote.ak = files.ak
comp_pcr_selection(a, b) == a = b

ocall_verify_tpm2_quote(quote, files) ==
    /\ quote.form = "map"
    /\ files.ak # "none" /\ files.pcrs # "none"
    /\ \/ comp_pcr_selection(files.pcrs, quote.pcrs)
       \/ verify_tpm2_quote(quote, files)

(* Mutant: the nonce of the claims is not compared. *)
EvidenceOfAnyNonce(e, key, nonce, files) ==
    IF ~ Extracted(e, key)
      THEN {0}
      ELSE {IF good THEN VERIFIED_EVIDENCE ELSE 0 : good \in QuoteVerdicts(e.quote.status)}

(* The verdicts verify_SGX_evidence may have on an extension. *)
verify_SGX_evidence(e, key, nonce, files) ==
    IF ~ Extracted(e, key)
      THEN {0}
      ELSE {IF /\ good
               /\ out = nonce
               /\ e.tag = "TEE_TPM2_QUOTE" => ocall_verify_tpm2_quote(e.claims.tpm, files)
              THEN VERIFIED_EVIDENCE
              ELSE 0 :
            good \in QuoteVerdicts(e.quote.status), out \in OutNonces(e, nonce)}

(* The row of the old specification: "No implementation here". *)
verify_SGX_quote == VERIFIED_QUOTE

(***************************************************************************)
(* verify_contents: the first row of verify_tab whose extension is there   *)
(* decides; one at index 0 is overlooked.  When no row is found, rc is     *)
(* still the length of the public key's PEM form, 215 for a P-384 key.     *)
(***************************************************************************)
PemLength == 215
Found(loc) == loc > 0

verify_contents(cert, nonce, files) ==
    CASE Found(cert.at.evidence) -> verify_SGX_evidence(cert.ext, cert.key, nonce, files)
      [] ~ Found(cert.at.evidence) /\ Found(cert.at.quote)   -> {verify_SGX_quote}
      [] ~ Found(cert.at.evidence) /\ ~ Found(cert.at.quote) -> {PemLength}

(***************************************************************************)
(* verify_cert: the result of X509_verify_cert, then the evidence.  The    *)
(* certificate is its own trust anchor, so that its dates are looked at,   *)
(* but not its signature.                                                  *)
(***************************************************************************)
verify_cert(cert, nonce, which, files) ==
    CASE ~ cert.inDate                     -> {-1}
      [] cert.inDate /\ which = "client"   -> {VERIFIED_EVIDENCE}
      [] cert.inDate /\ which = "server"   -> verify_contents(cert, nonce, files)

(* rc & (VERIFIED_QUOTE|VERIFIED_EVIDENCE), for a negative rc as well. *)
HasBit(rc) == rc % 4 # 0

(***************************************************************************)
(* verify, the callback of OpenSSL, for a certificate that no CA vouches   *)
(* for.  OpenSSL calls it for the self-signed certificate, where the       *)
(* evidence decides, and again when its dates do not verify, which it does *)
(* not excuse.  The signature of a self-signed certificate is not checked  *)
(* without X509_V_FLAG_CHECK_SS_SIGNATURE.  A certificate of an unknown    *)
(* issuer is another error.                                                *)
(***************************************************************************)
SelfSignedCall(cert, nonce, which, files) ==
    {HasBit(rc) : rc \in verify_cert(cert, nonce, which, files)}

(* Mutant: the callback excuses every error. *)
AnyErrorExcused(cert) == TRUE

OtherErrorCall(cert) == FALSE

verify(cert, nonce, which, files) ==
    IF cert.issuer # "self"
      THEN {OtherErrorCall(cert)}
      ELSE {ok /\ (cert.inDate \/ OtherErrorCall(cert)) :
            ok \in SelfSignedCall(cert, nonce, which, files)}
=============================================================================
