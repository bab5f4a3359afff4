---------------------------- MODULE MCTlsProgram ----------------------------
(***************************************************************************)
(* Small instances of TlsProgram for TLC: one pair of programs with every  *)
(* option, or a pair without options and another server, for the port, or  *)
(* another client, for the queue.                                          *)
(***************************************************************************)
EXTENDS TlsProgram

CONSTANTS s1, s2, c1, c2

Counts == {1, 2}

\* -t 2 reads and writes once, or not at all; how a message is read has nothing to do
\* with the certificates.
Distinct(runs) ==
    {run \in runs : /\ run.t = 2 => run.count = 1
                    /\ run.t # 0 => \A o \in {"C", "a", "b"} \cap DOMAIN run : ~run[o]}

\* A program that is not run.
NoProgram == [kind |-> "none", t |-> 0, count |-> 1]

PlainServer == [kind |-> "enclave", C |-> FALSE, r |-> TRUE, t |-> 0, count |-> 1]
PlainClient == [kind |-> "enclave", t |-> 0, count |-> 1]

MCServerRuns ==
    [s \in Servers |->
       IF s = s1
       THEN Distinct(EnclaveServerRuns(Counts) \cup HostServerRuns(Counts)
                       \cup SampleServerRuns(Counts))
       ELSE {PlainServer, NoProgram}]

MCClientRuns ==
    [c \in Clients |->
       IF c = c1
       THEN Distinct(EnclaveClientRuns \cup HostClientRuns(Counts)
                       \cup SampleClientRuns(Counts))
       ELSE {PlainClient, NoProgram}]

\* Programs of the library meet each other, and the samples each other.
Family(run) == IF run.kind = "sample" THEN "sample" ELSE "library"

Alone ==
    /\ files.ca \/ files.server = "self"
    /\ Family(server[s1].run) = Family(client[c1].run)
    /\ server[s2].run = NoProgram /\ client[c2].run = NoProgram
Together ==
    /\ files = [server |-> "self", ca |-> TRUE]
    /\ server[s1].run = PlainServer /\ client[c1].run = PlainClient
    /\ (server[s2].run = NoProgram) # (client[c2].run = NoProgram)

MCInit == ProgramInit /\ (Alone \/ Together)
MCSpec == MCInit /\ [][ProgramNext]_programVars /\ Fairness
=============================================================================
