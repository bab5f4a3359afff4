------------------------------ MODULE MCTlsRa -------------------------------
(* Small instances of TlsRa: a server S and clients A, B and C. *)
EXTENDS TlsRa, TLC

CONSTANTS S, A, B, C

(***************************************************************************)
(* Clients with evidence: A with two handshakes and its TPM, B with one    *)
(* and no TPM.                                                             *)
(***************************************************************************)
TwoClientOf   == 1 :> A @@ 2 :> A @@ 3 :> B
TwoBuildOf    == S :> "sgx_tpm2" @@ A :> "sgx_tpm2" @@ B :> "sgx"
TwoPlatformOf == S :> "OK" @@ A :> "OUT_OF_DATE" @@ B :> "OK"
TwoMachineOf  == S :> "m0" @@ A :> "m1" @@ B :> "m1"

(***************************************************************************)
(* Clients of every build, with a handshake each: A and B share a daemon,  *)
(* C is no enclave.                                                        *)
(***************************************************************************)
ThreeClientOf   == 1 :> A @@ 2 :> B @@ 3 :> C
ThreeBuildOf    == S :> "sgx_tpm2" @@ A :> "sgx_tpm2" @@ B :> "sgx_tpm2" @@ C :> "host"
ThreePlatformOf == S :> "OK" @@ A :> "OK" @@ B :> "REVOKED" @@ C :> "OK"
ThreeMachineOf  == S :> "m0" @@ A :> "m1" @@ B :> "m1" @@ C :> "m2"

(* An SGX client without a TPM. *)
OneClientOf   == 1 :> A
OneBuildOf    == S :> "sgx" @@ A :> "sgx"
OneMachineOf  == S :> "m0" @@ A :> "m1"

(* server.crt and server.key: not there, self-signed, or signed by a CA. *)
FileKey   == <<"file", 0>>
SelfFile  == {Cert(FileKey, NULL)}
CaFile    == {[Cert(FileKey, NULL) EXCEPT !.issuer = "ca"]}
FileKinds == {NoCert} \cup SelfFile \cup CaFile

(***************************************************************************)
(* Certificates without evidence: a plain one of a CA, one with the        *)
(* extension for a quote only, and one with unreadable evidence in front   *)
(* of everything.                                                          *)
(***************************************************************************)
QuoteOnly    == [Cert(FileKey, NULL) EXCEPT !.at = [evidence |-> -1, quote |-> 3]]
EvidenceHead == [Cert(FileKey, Bytes) EXCEPT !.at = [evidence |-> 0, quote |-> -1]]
PlainKinds   == CaFile \cup {QuoteOnly, EvidenceHead}

(* ak_pub.pem and reg_quote.bin of the clients' machine, and of another. *)
OwnFiles   == {[ak |-> "m1", pcrs |-> "0,1,2,7,10"]}
OtherFiles == {[ak |-> "m2", pcrs |-> "0,1,2,7,10"]}
SomeFiles  == OwnFiles \cup {[ak |-> "none", pcrs |-> "0,1,2,7,10"]}
=============================================================================
