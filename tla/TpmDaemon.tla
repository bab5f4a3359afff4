------------------------------ MODULE TpmDaemon ------------------------------
(***************************************************************************)
(* The Attester Daemon (tpm2/tpmdaemon.c) together with the processes that *)
(* ask it for evidence over its UNIX-domain socket: pica_request_measure   *)
(* (src/libpica_clnt.c), ocall_make_tpm2_quote_via_daemon                  *)
(* (tls_sgx/Host/tpm2.c) and the test program tpm2/test_tpmd.c.            *)
(*                                                                         *)
(* A call is one use of one of these client functions; the nonce it sends  *)
(* is fresh, so the call itself stands for its nonce.  A process makes its *)
(* calls one after the other, each on a connection of its own, and closes  *)
(* none of them before it exits.  The daemon is one thread that serves one *)
(* connection until its peer goes away, and closes none either.  Process   *)
(* numbers are used again, and the daemon's table of digests is never      *)
(* emptied; the nonce of an attest request comes sealed.                   *)
(***************************************************************************)
EXTENDS Naturals, Sequences, FiniteSets

CONSTANTS
    Procs,      \* client processes
    Calls,      \* the requests for evidence they make
    Owner,      \* Owner[c]: the process that makes call c
    Kind,       \* Kind[c]: the client function that call c runs
    Pids,       \* process numbers
    Pid,        \* Pid[p]: the number process p has while it runs
    Daemons,    \* runs of the tpmdaemon program on one path name
    None,       \* no daemon, no call, no quote, no process measured
    Absent,     \* no entry in the table of digests
    Junk,       \* a nonce made of bytes that no client wrote
    MaxFd,      \* connections a daemon can hold open (its descriptor limit)
    Backlog,    \* connections that wait for accept (the 10 of sock_listen)
    BufLen,     \* size of a client's reply buffer
    Lens,       \* sizes a serialized reply may have
    Faults      \* faults the environment may inject

Kinds == {"pica", "attest", "test"}

ASSUME ConstantsAssumption ==
    /\ Owner \in [Calls -> Procs]
    /\ Kind \in [Calls -> Kinds]
    /\ Pid \in [Procs -> Pids]
    /\ None \notin Procs \cup Calls \cup Daemons
    /\ Absent \notin Procs \cup {None}
    /\ Junk \notin Calls \cup {None}
    /\ MaxFd \in Nat \ {0}
    /\ Backlog \in Nat \ {0}
    /\ BufLen \in Nat \ {0}
    /\ Lens \subseteq Nat \ {0}
    /\ \E n \in Lens : n <= BufLen
    /\ Faults \subseteq {"client", "daemon", "tpm", "alloc",
                          "measure", "unseal", "walk"}

Nonces == Calls \cup {Junk}

\* A tpmd_packet that a client sends, with its payload.
Request == [cmd : {"hello", "attest", "pica"}, nonce : Nonces]

\* Whose digest a hash is; None stands for bytes that measure no process.
Digests == Procs \cup {None}

\* What the TPM signs: the measurement of a process extended with a nonce.
Quote == [pid : Digests, nonce : Nonces]

\* A reply: the process measured (app-hash or pica), the nonce echoed by
\* reply_attest, the quote (None: the field is empty) and the payload length,
\* 0 in the TPMD_AUX_ERR reply, which has no payload.  Two fields are not in
\* the bytes: whether the process was measured for this connection, rather
\* than looked up or not at all, and whether the nonce is the request's.
Reply == [pid : Digests, measured : BOOLEAN,
          nonce : Nonces \cup {None}, unsealed : BOOLEAN,
          quote : Quote \cup {None}, len : Lens \cup {0}]

\* The header and the payload are written, and read, separately.
Frame == [part : {"head", "body"}, reply : Reply]

VARIABLES
    alive,      \* processes that have not exited
    cst,        \* cst[c]: where call c stands
    got,        \* got[c]: the reply call c returned with
    peer,       \* peer[c]: the daemon the connection of c leads to
    rxd,        \* rxd[c]: packets on their way to the daemon
    rxc,        \* rxc[c]: frames on their way to the client
    resetD,     \* connections whose daemon end has an ECONNRESET pending
    resetC,     \* connections whose client end has an ECONNRESET pending
    path,       \* the daemon whose socket the path name refers to
    dpc,        \* dpc[d]: where daemon d stands
    backlog,    \* backlog[d]: connections not yet accepted
    accepted,   \* connections accepted; their descriptors stay open
    con,        \* con[d]: the connection d is serving
    table,      \* table[d]: filepath_htable, by the number in /proc/<pid>/exe
    apphash,    \* apphash[d]: what sha256_pid left when con[d] was accepted
    out,        \* out[d]: the reply d is writing
    lastq,      \* lastq[d]: what the stack slot of t_quote still holds
    slot        \* slot[d]: what the stack slot of unsealed still holds

procVars   == <<alive, cst, got>>
chanVars   == <<rxd, rxc, resetD, resetC>>
listenVars == <<peer, path, backlog, accepted>>
loopVars   == <<dpc, con, table, apphash, out, lastq, slot>>
vars == <<procVars, chanVars, listenVars, loopVars>>

Gone == {"ended", "killed"}

\* The daemon end of c is closed: its daemon does not exist any more.
DaemonClosed(c) == peer[c] # None /\ dpc[peer[c]] \in Gone
ClientClosed(c) == Owner[c] \notin alive

Asking == {"connected", "greeted", "sent", "body"}
Returned == {"ok", "void", "fail"}
Idle(p) == \A c \in Calls : Owner[c] = p => cst[c] \in {"new"} \cup Returned

\* p runs under its number: it was started, and has made a call.
Running(p) == p \in alive /\ \E c \in Calls : Owner[c] = p /\ cst[c] # "new"

\* Two processes never run with one number at a time.
NumberFree(p) == \A q \in Procs \ {p} : Pid[q] = Pid[p] => ~Running(q)

\* Descriptors of connections that d holds: nothing in tpmddaemon closes one.
Held(d) == {c \in accepted : peer[c] = d}

\* No descriptor is left for a file under /proc or for the TPM.
NoneLeft(d) == Cardinality(Held(d)) >= MaxFd

-----------------------------------------------------------------------------
(* The kernel's part in the end of a process.                              *)

\* Process p is gone: its ends of all connections close, and the other end of
\* one that still had frames to read gets ECONNRESET.
Terminate(p, rx) ==
    /\ alive' = alive \ {p}
    /\ resetD' = resetD \cup {c \in Calls : Owner[c] = p /\ rx[c] # <<>>}

\* Daemon d is gone: a connection that was not accepted, or on which packets
\* were left unread, is reset.
Stop(d, how) ==
    /\ dpc' = [dpc EXCEPT ![d] = how]
    /\ resetC' = resetC \cup
          {c \in Calls : peer[c] = d /\ (c \notin accepted \/ rxd[c] # <<>>)}

-----------------------------------------------------------------------------
(* Clients.                                                                *)

\* The function returns with outcome st.  ocall_make_tpm2_quote_via_daemon
\* aborts the process on every failure.
Return(c, st, r, rx) ==
    /\ cst' = [cst EXCEPT ![c] = st]
    /\ got' = [got EXCEPT ![c] = r]
    /\ rxc' = rx
    /\ \/ /\ st # "ok" /\ Kind[c] = "attest"
          /\ Terminate(Owner[c], rx)
       \/ /\ ~(st # "ok" /\ Kind[c] = "attest")
          /\ UNCHANGED <<alive, resetD>>

Connect(c) ==
    /\ cst[c] = "new" /\ ~ClientClosed(c) /\ Idle(Owner[c])
    /\ NumberFree(Owner[c])
    /\ path \in Daemons /\ dpc[path] \notin Gone
    /\ Len(backlog[path]) < Backlog
    /\ cst' = [cst EXCEPT ![c] = "connected"]
    /\ peer' = [peer EXCEPT ![c] = path]
    /\ backlog' = [backlog EXCEPT ![path] = Append(@, c)]
    /\ UNCHANGED <<alive, got, chanVars, path, accepted, loopVars>>

ConnectRefused(c) ==
    /\ cst[c] = "new" /\ ~ClientClosed(c) /\ Idle(Owner[c])
    /\ NumberFree(Owner[c])
    /\ path \in Daemons => dpc[path] \in Gone
    /\ Return(c, "fail", None, rxc)
    /\ UNCHANGED <<rxd, resetC, listenVars, loopVars>>

\* Mutant: a call that failed is made again on the same connection.
ReadyAgain(c) == cst[c] \in {"greeted", "fail"}
                 \/ (cst[c] = "connected" /\ Kind[c] # "test")

\* test_tpmd writes a REQ_HELLO packet before its request.
Ready(c) == cst[c] = "greeted" \/ (cst[c] = "connected" /\ Kind[c] # "test")

SendHello(c) ==
    /\ cst[c] = "connected" /\ Kind[c] = "test" /\ ~ClientClosed(c)
    /\ ~DaemonClosed(c)
    /\ rxd' = [rxd EXCEPT ![c] = Append(@, [cmd |-> "hello", nonce |-> c])]
    /\ cst' = [cst EXCEPT ![c] = "greeted"]
    /\ UNCHANGED <<alive, got, rxc, resetD, resetC, listenVars, loopVars>>

Send(c) ==
    /\ Ready(c) /\ ~ClientClosed(c)
    /\ ~DaemonClosed(c)
    /\ rxd' = [rxd EXCEPT ![c] = Append(@,
                  [cmd |-> IF Kind[c] = "pica" THEN "pica" ELSE "attest",
                   nonce |-> c])]
    /\ cst' = [cst EXCEPT ![c] = "sent"]
    /\ UNCHANGED <<alive, got, rxc, resetD, resetC, listenVars, loopVars>>

\* A write to a closed connection: SIGPIPE, which no program here handles.
SendKilled(c) ==
    /\ cst[c] \in {"connected", "greeted"} /\ ~ClientClosed(c)
    /\ DaemonClosed(c)
    /\ Terminate(Owner[c], rxc)
    /\ UNCHANGED <<cst, got, rxd, rxc, resetC, listenVars, loopVars>>

\* The outcome when head.len exceeds the buffer: pica_request_measure leaves
\* through err with the 0 of the last sock_recv, the others fail.
TooLong(c) == IF Kind[c] = "pica" THEN "void" ELSE "fail"

\* sock_recv of the header.  The payload of TPMD_AUX_ERR has no bytes: a recv
\* of 0 bytes may return 0 at once, or wait as for a payload.
RecvHead(c) ==
    /\ cst[c] = "sent" /\ ~ClientClosed(c)
    /\ rxc[c] # <<>>
    /\ LET r  == Head(rxc[c]).reply
           rx == [rxc EXCEPT ![c] = Tail(@)]
       IN  \/ /\ r.len > BufLen
              /\ Return(c, TooLong(c), None, rx)
           \/ /\ r.len = 0
              /\ Return(c, "fail", None, rx)
           \/ /\ r.len <= BufLen
              /\ cst' = [cst EXCEPT ![c] = "body"]
              /\ rxc' = rx
              /\ UNCHANGED <<alive, got, resetD>>
    /\ UNCHANGED <<rxd, resetC, listenVars, loopVars>>

\* recv fails with ECONNRESET: its -1 becomes SIZE_MAX, sock_recv returns 0
\* and head was never written.  A junk length above the buffer size is treated
\* as in RecvHead; with any other the next recv finds the end of the stream.
RecvHeadReset(c) ==
    /\ cst[c] = "sent" /\ ~ClientClosed(c)
    /\ rxc[c] = <<>> /\ c \in resetC
    /\ resetC' = resetC \ {c}
    /\ \E st \in {"fail", TooLong(c)} : Return(c, st, None, rxc)
    /\ UNCHANGED <<rxd, listenVars, loopVars>>

RecvBody(c) ==
    /\ cst[c] = "body" /\ ~ClientClosed(c)
    /\ rxc[c] # <<>>
    /\ Return(c, "ok", Head(rxc[c]).reply, [rxc EXCEPT ![c] = Tail(@)])
    /\ UNCHANGED <<rxd, resetC, listenVars, loopVars>>

\* The end of the stream, on which sock_recv returns -1.  The payload can only
\* end so: a daemon that has written the header has read all the packets of the
\* connection, and leaves nothing unread that would reset it.
RecvEof(c) ==
    /\ cst[c] \in {"sent", "body"} /\ ~ClientClosed(c)
    /\ rxc[c] = <<>> /\ c \notin resetC /\ DaemonClosed(c)
    /\ Return(c, "fail", None, rxc)
    /\ UNCHANGED <<rxd, resetC, listenVars, loopVars>>

\* A program exits once its calls have returned.
Exit(p) ==
    /\ p \in alive
    /\ \A c \in Calls : Owner[c] = p => cst[c] \in Returned
    /\ Terminate(p, rxc)
    /\ UNCHANGED <<cst, got, rxd, rxc, resetC, listenVars, loopVars>>

\* It may also be killed, or give up, at any moment.
Crash(p) ==
    /\ "client" \in Faults /\ p \in alive
    /\ Terminate(p, rxc)
    /\ UNCHANGED <<cst, got, rxd, rxc, resetC, listenVars, loopVars>>

ClientStep(c) ==
    \/ SendHello(c) \/ Send(c) \/ SendKilled(c)
    \/ RecvHead(c) \/ RecvHeadReset(c)
    \/ RecvBody(c) \/ RecvEof(c)

-----------------------------------------------------------------------------
(* The daemon.                                                             *)

Start(d) ==
    /\ dpc[d] = "off" /\ path = None
    /\ path' = d
    /\ dpc' = [dpc EXCEPT ![d] = "accept"]
    /\ UNCHANGED <<procVars, chanVars, peer, backlog, accepted,
                   con, table, apphash, out, lastq, slot>>

\* bind fails because the name exists, whoever made it.  sock is then -1, and
\* "if (sock) unlink(path)" removes the name all the same.
StartFails(d) ==
    /\ dpc[d] = "off" /\ path # None
    /\ path' = None
    /\ dpc' = [dpc EXCEPT ![d] = "ended"]
    /\ UNCHANGED <<procVars, chanVars, peer, backlog, accepted,
                   con, table, apphash, out, lastq, slot>>

\* Mutant: the daemon measures its first peer only.
MeasuredOnce(d, c) ==
    IF apphash[d].of # None
    THEN {[of |-> apphash[d].of, read |-> TRUE, entry |-> apphash[d].of]}
    ELSE {[of |-> Owner[c], read |-> TRUE, entry |-> Owner[c]]}

\* What sha256_pid, whose result is ignored, may leave in apphash, and the
\* table's entry afterwards.  An entry is made before the file is opened: one
\* that is there is returned, whoever had the number then, and one whose file
\* could not be read holds no digest.  Otherwise the process that has the
\* number now is measured; when none has, or the file cannot be opened,
\* apphash keeps what the connection before left in it.
Measured(d, c) ==
    LET n      == Pid[Owner[c]]
        now    == {p \in Procs : Pid[p] = n /\ Running(p)}
        noFile == now = {} \/ "measure" \in Faults
                  \/ Cardinality(Held(d)) + 1 >= MaxFd
    IN  IF table[d][n] # Absent
        THEN {[of |-> table[d][n], read |-> FALSE, entry |-> table[d][n]]}
        ELSE {[of |-> p, read |-> TRUE, entry |-> p] :
                 p \in IF Cardinality(Held(d)) + 1 < MaxFd THEN now ELSE {}}
             \cup (IF noFile THEN {[of |-> apphash[d].of, read |-> FALSE,
                                   entry |-> None]} ELSE {})

Accept(d) ==
    /\ dpc[d] = "accept" /\ backlog[d] # <<>>
    /\ Cardinality(Held(d)) < MaxFd
    /\ LET c == Head(backlog[d])
       IN  /\ con' = [con EXCEPT ![d] = c]
           /\ accepted' = accepted \cup {c}
           /\ \E m \in Measured(d, c) :
                /\ apphash' = [apphash EXCEPT ![d] =
                                  [of |-> m.of, read |-> m.read]]
                /\ table' = [table EXCEPT ![d][Pid[Owner[c]]] = m.entry]
    /\ backlog' = [backlog EXCEPT ![d] = Tail(@)]
    /\ dpc' = [dpc EXCEPT ![d] = "read"]
    /\ UNCHANGED <<procVars, chanVars, peer, path, out, lastq, slot>>

\* Mutant: accept fails and main returns at once, past the unlink.
AcceptFailsKeepsName(d) ==
    /\ dpc[d] = "accept"
    /\ Cardinality(Held(d)) >= MaxFd
    /\ Stop(d, "ended")
    /\ UNCHANGED <<procVars, rxd, rxc, resetD, listenVars,
                   con, table, apphash, out, lastq, slot>>

\* No descriptor is left: accept fails without waiting, the loop is left, the
\* name is removed and main returns.
AcceptFails(d) ==
    /\ dpc[d] = "accept"
    /\ Cardinality(Held(d)) >= MaxFd
    /\ path' = None
    /\ Stop(d, "ended")
    /\ UNCHANGED <<procVars, rxd, rxc, resetD, peer, backlog, accepted,
                   con, table, apphash, out, lastq, slot>>

\* Mutant: con is passed where pid is expected.
SubjectIsCon(d, cmd) == con[d]

\* The process a reply is about: make_tpm2_quote_with_pid uses apphash;
\* make_tpm2_pica walks the chain of pid, and finds in the table the entry of
\* /proc/<pid>/exe that sha256_pid has made when the connection was accepted.
Subject(d, cmd) ==
    IF cmd = "pica" THEN table[d][Pid[Owner[con[d]]]] ELSE apphash[d].of

\* The nonces a request may be answered with.  REQ_PICA takes the nonce as it
\* is.  REQ_ATTEST unseals it (SGXENV is always defined) into an uninitialized
\* buffer and looks at no result: data that was not sealed here, as test_tpmd
\* and a header nobody sent bring it, leaves zeros, and an enclave that is lost
\* leaves what the stack slot holds, the nonce of an earlier request.
Unsealed(d, cmd, nonce) ==
    LET sealed == nonce # Junk /\ Kind[nonce] = "attest"
    IN  IF cmd = "pica" THEN {<<nonce, TRUE>>}
        ELSE (IF sealed THEN {<<nonce, TRUE>>} ELSE {})
             \cup (IF ~sealed \/ "unseal" \in Faults
                   THEN {<<Junk, FALSE>>, <<slot[d], FALSE>>} ELSE {})

\* The quotes a request may be answered with, and what t_quote holds then:
\* the quote asked for; none, when make_tpm2_quote fails; or, when Esys_Quote
\* fails after make_sig_scheme has set err to 0, whatever t_quote held before.
QuoteOutcomes(d, subject, nonce) ==
    LET fresh == [pid |-> subject, nonce |-> nonce]
    IN  {<<fresh, fresh>>} \cup
        (IF "tpm" \in Faults \/ NoneLeft(d)
         THEN {None, lastq[d]} \X {lastq[d]} ELSE {})

\* The parts of an attest reply have a fixed size, and fit.
Sizes(cmd) == IF cmd = "attest" THEN {n \in Lens : n <= BufLen} ELSE Lens

\* make_tpm2_quote_with_pid or make_tpm2_pica, and the packet that
\* reply_attest or reply_pica builds from the result.
MakeReply(d, cmd, nonce) ==
    /\ \E u \in Unsealed(d, cmd, nonce), n \in Sizes(cmd) :
       \E q \in QuoteOutcomes(d, Subject(d, cmd), u[1]) :
          /\ \/ out' = [out EXCEPT ![d] =
                  [pid |-> Subject(d, cmd), measured |-> apphash[d].read,
                   nonce |-> IF cmd = "attest" THEN u[1] ELSE None,
                   unsealed |-> u[2], quote |-> q[1], len |-> n]]
             \/ /\ "alloc" \in Faults
                /\ out' = [out EXCEPT ![d] =
                     [pid |-> Subject(d, cmd), measured |-> apphash[d].read,
                      nonce |-> None, unsealed |-> u[2],
                      quote |-> None, len |-> 0]]
          /\ lastq' = [lastq EXCEPT ![d] = q[2]]
          /\ slot' = [slot EXCEPT ![d] = IF cmd = "attest" THEN u[1] ELSE @]
    /\ dpc' = [dpc EXCEPT ![d] = "head"]

\* Mutant: the daemon answers REQ_HELLO as it does REQ_ATTEST.
ReadHelloReplies(d) ==
    /\ dpc[d] = "read"
    /\ LET c == con[d]
       IN  /\ rxd[c] # <<>> /\ Head(rxd[c]).cmd = "hello"
           /\ rxd' = [rxd EXCEPT ![c] = Tail(@)]
           /\ MakeReply(d, "attest", c)
    /\ UNCHANGED <<procVars, rxc, resetD, resetC, listenVars,
                   con, table, apphash>>

\* Mutant: the break of the REQ_HELLO case leaves the loop.
ReadHelloLeaves(d) ==
    /\ dpc[d] = "read"
    /\ LET c == con[d]
       IN  /\ rxd[c] # <<>> /\ Head(rxd[c]).cmd = "hello"
           /\ rxd' = [rxd EXCEPT ![c] = Tail(@)]
    /\ dpc' = [dpc EXCEPT ![d] = "accept"]
    /\ UNCHANGED <<procVars, rxc, resetD, resetC, listenVars,
                   con, table, apphash, out, lastq, slot>>

ReadHello(d) ==
    /\ dpc[d] = "read"
    /\ LET c == con[d]
       IN  /\ rxd[c] # <<>> /\ Head(rxd[c]).cmd = "hello"
           /\ rxd' = [rxd EXCEPT ![c] = Tail(@)]
    /\ UNCHANGED <<procVars, rxc, resetD, resetC, listenVars, loopVars>>

ReadRequest(d) ==
    /\ dpc[d] = "read"
    /\ LET c == con[d]
       IN  /\ rxd[c] # <<>> /\ Head(rxd[c]).cmd \in {"attest", "pica"}
           /\ rxd' = [rxd EXCEPT ![c] = Tail(@)]
           /\ MakeReply(d, Head(rxd[c]).cmd, Head(rxd[c]).nonce)
    /\ UNCHANGED <<procVars, rxc, resetD, resetC, listenVars,
                   con, table, apphash>>

\* A PICA request whose walk meets a process that is gone, the client or an
\* ancestor, or for which no descriptor is left: cred_pid fails, ppid stays as
\* it was and the loop of mycbor_pack_procchain does not end.  Neither does it
\* when it meets the parent 0.
ReadHangs(d) ==
    /\ dpc[d] = "read"
    /\ LET c == con[d]
       IN  /\ rxd[c] # <<>> /\ Head(rxd[c]).cmd = "pica"
           /\ ClientClosed(c) \/ NoneLeft(d) \/ "walk" \in Faults
           /\ rxd' = [rxd EXCEPT ![c] = Tail(@)]
    /\ dpc' = [dpc EXCEPT ![d] = "hung"]
    /\ UNCHANGED <<procVars, rxc, resetD, resetC, listenVars,
                   con, table, apphash, out, lastq, slot>>

\* Mutant: the end of the stream does not end the loop.
ReadEofIgnored(d) ==
    /\ dpc[d] = "read"
    /\ rxd[con[d]] = <<>> /\ ClientClosed(con[d])
    /\ UNCHANGED vars

\* End of the stream: readpacket returns -1 and the daemon accepts the next
\* connection.  con is not closed.
ReadEof(d) ==
    /\ dpc[d] = "read"
    /\ LET c == con[d]
       IN  rxd[c] = <<>> /\ ClientClosed(c) /\ c \notin resetD
    /\ dpc' = [dpc EXCEPT ![d] = "accept"]
    /\ UNCHANGED <<procVars, chanVars, listenVars,
                   con, table, apphash, out, lastq, slot>>

\* recv fails with ECONNRESET and sock_recv returns 0: readpacket works on a
\* header nobody sent.  Its length may send it to the end of the stream, or be
\* one malloc refuses, when rc is still 0 and a packet that does not exist is
\* dereferenced; with length 0 the junk command is carried out.
ReadReset(d) ==
    /\ dpc[d] = "read"
    /\ LET c == con[d]
       IN  /\ rxd[c] = <<>> /\ ClientClosed(c) /\ c \in resetD
           /\ resetD' = resetD \ {c}
    /\ \/ /\ dpc' = [dpc EXCEPT ![d] = "accept"]
          /\ UNCHANGED <<resetC, out, lastq, slot>>
       \/ Stop(d, "killed") /\ UNCHANGED <<out, lastq, slot>>
       \/ UNCHANGED <<resetC, dpc, out, lastq, slot>>
       \/ /\ dpc' = [dpc EXCEPT ![d] = "hung"]
          /\ UNCHANGED <<resetC, out, lastq, slot>>
       \/ /\ \E cmd \in {"attest", "pica"} : MakeReply(d, cmd, Junk)
          /\ UNCHANGED resetC
    /\ UNCHANGED <<procVars, rxd, rxc, listenVars,
                   con, table, apphash>>

\* sock_send of the header, then of the payload.
WriteHead(d) ==
    /\ dpc[d] = "head"
    /\ ~ClientClosed(con[d])
    /\ rxc' = [rxc EXCEPT ![con[d]] =
                  Append(@, [part |-> "head", reply |-> out[d]])]
    /\ dpc' = [dpc EXCEPT ![d] = IF out[d].len = 0 THEN "read" ELSE "body"]
    /\ UNCHANGED <<procVars, rxd, resetD, resetC, listenVars,
                   con, table, apphash, out, lastq, slot>>

WriteBody(d) ==
    /\ dpc[d] = "body"
    /\ ~ClientClosed(con[d])
    /\ rxc' = [rxc EXCEPT ![con[d]] =
                  Append(@, [part |-> "body", reply |-> out[d]])]
    /\ dpc' = [dpc EXCEPT ![d] = "read"]
    /\ UNCHANGED <<procVars, rxd, resetD, resetC, listenVars,
                   con, table, apphash, out, lastq, slot>>

\* The client is gone: SIGPIPE ends the daemon, and its name stays behind.
WriteKilled(d) ==
    /\ dpc[d] \in {"head", "body"}
    /\ ClientClosed(con[d])
    /\ Stop(d, "killed")
    /\ UNCHANGED <<procVars, rxd, rxc, resetD, listenVars,
                   con, table, apphash, out, lastq, slot>>

\* The operator's Ctrl-C, or the out-of-memory killer.
Kill(d) ==
    /\ "daemon" \in Faults
    /\ dpc[d] \notin {"off"} \cup Gone
    /\ Stop(d, "killed")
    /\ UNCHANGED <<procVars, rxd, rxc, resetD, listenVars,
                   con, table, apphash, out, lastq, slot>>

DaemonStep(d) ==
    \/ Accept(d) \/ AcceptFails(d)
    \/ ReadHello(d) \/ ReadRequest(d) \/ ReadHangs(d)
    \/ ReadEof(d) \/ ReadReset(d)
    \/ WriteHead(d) \/ WriteBody(d) \/ WriteKilled(d)

-----------------------------------------------------------------------------
Init ==
    /\ alive = Procs
    /\ cst = [c \in Calls |-> "new"]
    /\ got = [c \in Calls |-> None]
    /\ peer = [c \in Calls |-> None]
    /\ rxd = [c \in Calls |-> <<>>]
    /\ rxc = [c \in Calls |-> <<>>]
    /\ resetD = {}
    /\ resetC = {}
    /\ path = None
    /\ dpc = [d \in Daemons |-> "off"]
    /\ backlog = [d \in Daemons |-> <<>>]
    /\ accepted = {}
    /\ con = [d \in Daemons |-> None]
    /\ table = [d \in Daemons |-> [n \in Pids |-> Absent]]
    /\ apphash = [d \in Daemons |-> [of |-> None, read |-> FALSE]]
    /\ out = [d \in Daemons |-> None]
    /\ lastq = [d \in Daemons |-> None]
    /\ slot = [d \in Daemons |-> Junk]

Next ==
    \/ \E c \in Calls : Connect(c) \/ ConnectRefused(c) \/ ClientStep(c)
    \/ \E p \in Procs : Exit(p) \/ Crash(p)
    \/ \E d \in Daemons : Start(d) \/ StartFails(d) \/ Kill(d) \/ DaemonStep(d)

Spec == Init /\ [][Next]_vars

\* A process that can run does run: a program that has made a call goes on to
\* its next, and exits when all have returned.  Nobody has to start or kill a
\* daemon, and nobody has to run a program that calls it.
Fairness ==
    /\ \A d \in Daemons : WF_vars(DaemonStep(d))
    /\ \A c \in Calls : WF_vars(ClientStep(c))
    /\ \A c \in Calls : WF_vars(/\ Running(Owner[c])
                                /\ Connect(c) \/ ConnectRefused(c))
    /\ \A p \in Procs : WF_vars(Exit(p))

FairSpec == Spec /\ Fairness

-----------------------------------------------------------------------------
(* Properties.                                                             *)

\* The types of the variables of the daemon, its clients and their sockets.
TypeOK ==
    /\ alive \in SUBSET Procs
    /\ cst \in [Calls -> {"new"} \cup Asking \cup Returned]
    /\ got \in [Calls -> Reply \cup {None}]
    /\ peer \in [Calls -> Daemons \cup {None}]
    /\ rxd \in [Calls -> Seq(Request)]
    /\ rxc \in [Calls -> Seq(Frame)]
    /\ resetD \in SUBSET Calls
    /\ resetC \in SUBSET Calls
    /\ path \in Daemons \cup {None}
    /\ dpc \in [Daemons -> {"off", "accept", "read", "head", "body", "hung"}
                            \cup Gone]
    /\ backlog \in [Daemons -> Seq(Calls)]
    /\ accepted \in SUBSET Calls
    /\ con \in [Daemons -> Calls \cup {None}]
    /\ table \in [Daemons -> [Pids -> Digests \cup {Absent}]]
    /\ apphash \in [Daemons -> [of : Digests, read : BOOLEAN]]
    /\ out \in [Daemons -> Reply \cup {None}]
    /\ lastq \in [Daemons -> Quote \cup {None}]
    /\ slot \in [Daemons -> Nonces]

InProgress(c) == cst[c] \in Asking /\ ~ClientClosed(c)

\* Reply r answers call c: what was measured for its connection is the process
\* that made it, the nonce it echoes is the one it sent unless that could not
\* be unsealed, and a quote over its nonce is a quote of what r measures.
AnswerFor(c, r) ==
    /\ r.measured => r.pid = Owner[c]
    /\ r.unsealed => r.nonce \in {c, None}
    /\ r.quote # None /\ r.quote.nonce = c => r.quote.pid = r.pid

\* Whatever the interleaving of clients, restarts, processes that take over a
\* number, and failed measurements, unsealings and TPM commands: evidence
\* about another process or another request reaches a client only through an
\* entry of the table, a measurement or an unsealing that failed, and no old
\* quote passes as one over its nonce.  apphash and pid belong to the
\* connection served (tpmdaemon.c:415-416), and so does the nonce quoted.
AnswersMatch ==
    \A c \in Calls :
        /\ \A i \in 1..Len(rxc[c]) : AnswerFor(c, rxc[c][i].reply)
        /\ cst[c] = "ok" => AnswerFor(c, got[c])

\* The client's read position never slips: header and payload of one reply
\* arrive in order for one call, and nothing is left behind a call that
\* returned with evidence, so that a payload is never read as a header.
\* (REQ_HELLO has no reply in tpmdaemon.c:422-424, and no client waits for one.)
InStep ==
    \A c \in Calls :
        LET parts == [i \in 1..Len(rxc[c]) |-> rxc[c][i].part]
        IN  CASE cst[c] \in {"new", "connected", "greeted", "ok"} -> parts = <<>>
              [] cst[c] = "sent" ->
                   parts \in {<<>>, <<"head">>, <<"head", "body">>}
              [] cst[c] = "body" -> parts \in {<<>>, <<"body">>}
              [] OTHER -> TRUE

\* The daemon does not turn to another connection while a call is in progress
\* on one it has accepted: only the end of the stream ends the inner loop
\* (tpmdaemon.c:418-465).
NoneAbandoned ==
    \A c \in accepted :
        InProgress(c) /\ dpc[peer[c]] \notin Gone
            => con[peer[c]] = c /\ dpc[peer[c]] # "accept"

\* Returning from tpmddaemon removes the name it had bound (tpmdaemon.c:475):
\* a name that leads to no daemon was left by one that was killed.
DeadNameWasKilled ==
    path \in Daemons /\ dpc[path] \in Gone => dpc[path] = "killed"

\* What the daemon promises its clients, without sockets or processes.
Stage == [c \in Calls |-> IF cst[c] = "new" THEN "idle"
                         ELSE IF cst[c] \in Asking THEN "asked"
                         ELSE IF cst[c] = "ok" THEN "answered"
                         ELSE IF cst[c] = "void" THEN "empty"
                         ELSE "failed"]

Silent == {c \in Calls : Kind[c] = "pica"}

Service == INSTANCE EvidenceService WITH call <- Stage, answer <- got

\* Every behaviour of the daemon and its clients is one of EvidenceService:
\* only pica_request_measure returns 0 without a reply (libpica_clnt.c:929-940).
ServiceSpec == Service!Spec

\* The daemon of call c is waiting for c itself: it serves a connection of a
\* process that waits in another call to it; or it is in an endless walk.
Stuck(c) ==
    \/ dpc[peer[c]] = "hung"
    \/ /\ dpc[peer[c]] = "read"
       /\ \E e \in Calls : /\ Owner[e] = Owner[con[peer[c]]] /\ e # con[peer[c]]
                           /\ InProgress(e) /\ peer[e] = peer[c]

\* A call that was made returns, or its process ends, provided the processes
\* served before it exit; the daemon may only be in an endless walk, or wait
\* for the end of a process that waits for it (tpmdaemon.h:3-4: a request has
\* a reply).
EveryCallReturns ==
    \A c \in Calls : InProgress(c) ~> ~InProgress(c) \/ Stuck(c)

\* A call returns 0 only with a reply: after the "ABORT !!!" of
\* src/libpica_clnt.c:939 the function reports an error.  (It does not: TooLong.)
SuccessHasReply == \A c \in Calls : cst[c] # "void"

\* A reply to REQ_ATTEST with TPMD_AUX_OK contains a quote (tpmdaemon.h:4-6).  (Not
\* when a TPM command failed, since tpmdaemon.c:434 looks at no result.)
OkHasQuote ==
    \A c \in Calls : \A i \in 1..Len(rxc[c]) :
        LET r == rxc[c][i].reply
        IN  Kind[c] = "attest" /\ r.len # 0 => r.quote # None
=============================================================================
