----------------------------- MODULE TlsProgram -----------------------------
(***************************************************************************)
(* The programs that try TLS remote attestation: a server that serves one  *)
(* connection and a client that sends it a few messages.  There are three  *)
(* pairs of them: in enclaves (tls_sgx/Enclave), on the host (test) and    *)
(* the sample from before the library (tlssample).  They differ in their   *)
(* options, in what they do when the port is taken or nobody listens, and  *)
(* in how they read and write: by TLS, on the bare socket after the        *)
(* handshake (-t 1), or with the cipher of the TLS connection borrowed     *)
(* (-t 2).                                                                 *)
(*                                                                         *)
(* TlsRa has the evidence; here the library's judgement is any.  A message *)
(* on the wire is two units, three as a TLS record; close_notify is one.   *)
(***************************************************************************)
EXTENDS Naturals, Sequences, SequencesExt

CONSTANTS
    Servers, Clients,
    ServerRuns,     \* ServerRuns[s]: the options that s may be run with
    ClientRuns,     \* ClientRuns[c]
    Certificates,   \* what server.crt and server.key may be
    Nobody,
    ProgramFaults   \* subset of {"kill", "reset"}

\* (A number of messages below 0 reads and writes as many as 0 does.)
ASSUME ProgramAssumption ==
    /\ Nobody \notin Servers \cup Clients
    /\ \A s \in Servers : \A run \in ServerRuns[s] : run.count \in Nat
    /\ \A c \in Clients : \A run \in ClientRuns[c] : run.count \in Nat
    /\ Certificates \subseteq {"self", "signed", "mismatch", "missing"}
    /\ ProgramFaults \subseteq {"kill", "reset"}

VARIABLES
    files,      \* server.crt with server.key, and whether ./CA/my_ca.* is there
    server,     \* server[s]: a server
    client,     \* client[c]: a client
    conn        \* conn[c]: the connection of c

programVars == <<files, server, client, conn>>

-----------------------------------------------------------------------------
(* Options.                                                                *)

\* -C, -r, -c; -t is read and never used.
EnclaveServerRuns(counts) ==
    [kind : {"enclave"}, C : BOOLEAN, r : BOOLEAN, t : {0}, count : counts]
HostServerRuns(counts) ==
    [kind : {"host"}, C : BOOLEAN, r : BOOLEAN, t : 0 .. 2, count : counts]
SampleServerRuns(counts) ==
    [kind : {"sample"}, C : BOOLEAN, r : BOOLEAN, t : 0 .. 2, count : counts]

\* One message by TLS, whatever the options.
EnclaveClientRuns == {[kind |-> "enclave", t |-> 0, count |-> 1]}
HostClientRuns(counts) == [kind : {"host"}, t : 0 .. 2, count : counts]
SampleClientRuns(counts) ==
    [kind : {"sample"}, a : BOOLEAN, b : BOOLEAN, t : 0 .. 2, count : counts]

\* -t 2 is a case of the samples only.  Their loop over it is made to go round once.
Mode(run) ==
    CASE run.t = 0 -> "tls"
      [] run.t = 1 -> "tcp"
      [] run.t = 2 /\ run.kind = "sample" -> "enc"
      [] OTHER -> "none"
Messages(run) ==
    CASE Mode(run) = "none" -> 0
      [] Mode(run) = "enc" -> 1
      [] OTHER -> run.count

-----------------------------------------------------------------------------
(* The wire.                                                               *)

Unit(is, m, k) == <<is, m, k>>
Record(m) == [k \in 1 .. 3 |-> Unit("tls", m, k)]
Bare(is, m) == [k \in 1 .. 2 |-> Unit(is, m, k)]
Only(is) == <<Unit(is, 0, 1)>>

Data(run, m) == IF Mode(run) = "tls" THEN Record(m) ELSE Bare(Mode(run), m)

NoConn == [to |-> Nobody, up |-> <<>>, down |-> {}, client |-> "none", server |-> "none"]

\* Nothing more comes up; nobody takes what is sent up.
Gone(c) == conn[c].client # "open"
Dead(c) == conn[c].server # "open"

\* (A connection that is reset is closed at both ends.)
Send(c, units) == [conn EXCEPT ![c].up = @ \o units]
Answer(c, what) == [conn EXCEPT ![c].down = @ \cup {what}]
Starts(c, is) == conn[c].up # <<>> /\ Head(conn[c].up)[1] = is

-----------------------------------------------------------------------------
ProgramInit ==
    /\ files \in [server : Certificates, ca : BOOLEAN]
    /\ server \in [Servers ->
          [run : UNION {ServerRuns[s] : s \in Servers}, pc : {"off"}, peer : {Nobody},
           queue : {<<>>}, got : {<<>>}, errors : {0}, ssl : {"ok"}, said : {"nothing"}]]
    /\ \A s \in Servers : server[s].run \in ServerRuns[s]
    /\ client \in [Clients ->
          [run : UNION {ClientRuns[c] : c \in Clients}, pc : {"off"}, sent : {0},
           ssl : {"ok"}]]
    /\ \A c \in Clients : client[c].run \in ClientRuns[c]
    /\ conn = [c \in Clients |-> NoConn]

-----------------------------------------------------------------------------
(* The server.                                                             *)

Serving(s) == server[s].pc \notin {"off", "ready", "unbound", "end"}
Go(s, pc) == server' = [server EXCEPT ![s].pc = pc]

\* The descriptors of a process that has ended are closed.
EndServer(s, change) ==
    /\ server' = [server EXCEPT ![s] = [change EXCEPT !.pc = "end", !.queue = <<>>]]
    /\ conn' = [c \in Clients |->
                  IF conn[c].to = s THEN [conn[c] EXCEPT !.server = "closed"] ELSE conn[c]]

\* The context, and the files for it.
ServerSetup(s, fails) ==
    /\ server[s].pc = "off"
    /\ Go(s, IF fails THEN "end" ELSE "ready")
    /\ UNCHANGED <<files, client, conn>>

\* sock_serveropen.  One program has the port.
Listen(s, otherwise) ==
    /\ server[s].pc = "ready"
    /\ Go(s, IF \E r \in Servers : Serving(r) THEN otherwise ELSE "listen")
    /\ UNCHANGED <<files, client, conn>>

\* sock_accept on a socket that does not listen: exit.
AcceptFails(s) ==
    /\ server[s].pc = "unbound"
    /\ Go(s, "end")
    /\ UNCHANGED <<files, client, conn>>

\* sock_accept.  (AcceptPeek, a mutant: the connection stays in the queue.)
AcceptLeaving(s, queue) ==
    /\ server[s].pc = "listen" /\ server[s].queue # <<>>
    /\ server' = [server EXCEPT ![s].pc = "accepted", ![s].peer = Head(server[s].queue),
                                ![s].queue = queue]
    /\ UNCHANGED <<files, client, conn>>
AcceptPeek(s) == AcceptLeaving(s, server[s].queue)
Accept(s) == AcceptLeaving(s, Tail(server[s].queue))

\* SSL_accept fails: ERROR!!, and the connection is shut down as any other.
AcceptError(s, sslConn) ==
    /\ server' = [server EXCEPT ![s].pc = "shutdown", ![s].ssl = "bad"]
    /\ conn' = sslConn

\* SSL_accept, the hello: the callback makes or loads a certificate, fails, or exits.
Hello(s, outcome) ==
    /\ server[s].pc = "accepted"
    /\ LET c == server[s].peer
       IN  \/ /\ Starts(c, "hello") /\ outcome = "ok"
              /\ Go(s, "hello")
              /\ conn' = [conn EXCEPT ![c].up = Tail(@), ![c].down = @ \cup {"hello"}]
           \/ /\ Starts(c, "hello") /\ outcome = "error"
              /\ AcceptError(s, Answer(c, "alert"))
           \/ /\ Starts(c, "hello") /\ outcome = "exit"
              /\ EndServer(s, server[s])
           \/ /\ conn[c].up = <<>> /\ Gone(c)
              /\ AcceptError(s, conn)
    /\ UNCHANGED <<files, client>>

\* SSL_accept, the client's answer with its certificate, which the server judges.
Judge(s, verdicts) ==
    /\ server[s].pc = "hello"
    /\ LET c == server[s].peer
       IN  \/ /\ Starts(c, "finished") /\ "accept" \in verdicts
              /\ Go(s, "read")
              /\ conn' = [conn EXCEPT ![c].up = Tail(@)]
           \/ /\ Starts(c, "finished") /\ "refuse" \in verdicts
              /\ AcceptError(s, Answer(c, "alert"))
           \/ /\ Starts(c, "alert") \/ (conn[c].up = <<>> /\ Gone(c))
              /\ AcceptError(s, conn)
    /\ UNCHANGED <<files, client>>

\* A read returned what, and rest is still on the wire; bad if it counts as an error.
Took(s, what, rest, bad, ssl) ==
    /\ server' = [server EXCEPT ![s].got = Append(@, what), ![s].ssl = ssl,
                                ![s].errors = IF bad THEN @ + 1 ELSE @]
    /\ conn' = [conn EXCEPT ![server[s].peer].up = rest]
    /\ UNCHANGED <<files, client>>

Reading(s) == server[s].pc = "read" /\ Len(server[s].got) < Messages(server[s].run)

\* SSL_read: a whole record, 0 after close_notify, and -1 from a broken connection, now
\* and ever after.  (SslReadNegative, a mutant: 0 is no error.)
SslReadWith(s, byeIsBad) ==
    /\ Reading(s)
    /\ LET up == conn[server[s].peer].up
       IN  IF server[s].ssl # "ok"
           THEN Took(s, <<>>, up, server[s].ssl = "bad" \/ byeIsBad, server[s].ssl)
           ELSE \/ /\ Len(up) >= 3 /\ Starts(server[s].peer, "tls")
                   /\ Took(s, SubSeq(up, 1, 3), SubSeq(up, 4, Len(up)), FALSE, "ok")
                \/ /\ Starts(server[s].peer, "bye")
                   /\ Took(s, <<>>, Tail(up), byeIsBad, "bye")
                \/ /\ \E is \in {"tcp", "enc", "alert"} : Starts(server[s].peer, is)
                   /\ Took(s, <<>>, up, TRUE, "bad")
                \/ /\ Len(up) < 3 /\ (up = <<>> \/ Starts(server[s].peer, "tls"))
                   /\ Gone(server[s].peer)
                   /\ Took(s, <<>>, up, TRUE, "bad")
SslReadNegative(s) == SslReadWith(s, FALSE)
SslRead(s) == SslReadWith(s, TRUE)

\* read: at most the two units that a message has, cut anywhere, or the end.
ReadSome(s, counts) ==
    /\ Reading(s)
    /\ LET up == conn[server[s].peer].up
       IN  \/ \E k \in 1 .. 2 :
                /\ k <= Len(up)
                /\ Took(s, SubSeq(up, 1, k), SubSeq(up, k + 1, Len(up)),
                        counts /\ k # 2, server[s].ssl)
           \/ /\ up = <<>> /\ Gone(server[s].peer)
              /\ Took(s, <<>>, up, counts, server[s].ssl)
TcpRead(s) == ReadSome(s, TRUE)

\* myread: main does not look at what it returns.
MyRead(s) == ReadSome(s, FALSE)

\* "Success:" when no error was counted.
Report(s) ==
    /\ server[s].pc = "read" /\ ~Reading(s)
    /\ server' = [server EXCEPT ![s].pc = "shutdown",
                    ![s].said = IF server[s].errors = 0 THEN "Success" ELSE @]
    /\ UNCHANGED <<files, client, conn>>

\* myssl_shutdown: SSL_shutdown until it is not 0.  First it sends close_notify, which
\* may be the SIGPIPE of a process whose peer has gone.
Shutdown(s) ==
    /\ server[s].pc = "shutdown"
    /\ LET c == server[s].peer
       IN  \/ server[s].ssl = "bad" /\ Go(s, "close") /\ UNCHANGED conn
           \/ /\ server[s].ssl # "bad"
              /\ Go(s, IF server[s].ssl = "bye" THEN "close" ELSE "wait")
              /\ conn' = Answer(c, "bye")
           \/ server[s].ssl # "bad" /\ Gone(c) /\ EndServer(s, server[s])
    /\ UNCHANGED <<files, client>>

\* Then it waits for that of the peer: 1, or -1 for anything else that comes.
\* (AwaitBye, a mutant: the loop is left with 1 only.)
AwaitBye(s) ==
    /\ server[s].pc = "wait" /\ Starts(server[s].peer, "bye")
    /\ Go(s, "close")
    /\ UNCHANGED <<files, client, conn>>
AwaitPeer(s) ==
    /\ server[s].pc = "wait"
    /\ conn[server[s].peer].up # <<>> \/ Gone(server[s].peer)
    /\ Go(s, "close")
    /\ UNCHANGED <<files, client, conn>>

\* The connection and then the listening socket, with who waits in its queue.
CloseServer(s) ==
    /\ server[s].pc = "close"
    /\ EndServer(s, server[s])
    /\ UNCHANGED <<files, client>>

-----------------------------------------------------------------------------
(* Certificates.                                                           *)

\* mysslra_x509: a certificate by the key of the CA, whose two files must be there.
MadeByCa == IF files.ca THEN "ok" ELSE "exit"

\* tlssample's on_client_hello; without -r the files were loaded before.
SampleHello(run) == IF run.r THEN MadeByCa ELSE "ok"

\* The library's, in mode 0: server.crt and server.key, which must belong together.
\* Evidence that cannot be made is left out.
X509Read == files.server # "missing"
PkeyRead == files.server # "missing"
LibraryHello(run) ==
    IF run.r \/ (X509Read /\ PkeyRead /\ files.server # "mismatch") THEN "ok" ELSE "error"

\* With -C the chain decides.  The server that runs the callback knows no CA but with
\* -r off; a client with -a has no certificate.
SampleJudges(s) ==
    IF ~server[s].run.C THEN {"accept"}
    ELSE IF ~client[server[s].peer].run.a /\ ~server[s].run.r THEN {"accept"}
    ELSE {"refuse"}

\* With -C the callback of the program takes the place of the one that judges
\* evidence; the certificate a client makes is self-signed.  Otherwise see TlsRa.
LibraryJudges(s) == IF server[s].run.C THEN {"refuse"} ELSE {"accept", "refuse"}

\* -b: the server's certificate is server.crt itself, if it is self-signed, or is made
\* by the CA, which -a makes known.
SampleTrusts(c) ==
    LET s == conn[c].to
    IN  \/ ~client[c].run.b
        \/ files.server = "self" /\ ~server[s].run.r
        \/ client[c].run.a

\* on_client_cert, when the server asks.
SampleCertificate(c) ==
    IF server[conn[c].to].run.C /\ ~client[c].run.a THEN MadeByCa ELSE "ok"

SampleVerdicts(c) == {IF SampleTrusts(c) THEN SampleCertificate(c) ELSE "refuse"}

-----------------------------------------------------------------------------
(* The client.                                                             *)

Went(c, pc) == client' = [client EXCEPT ![c].pc = pc]

\* SIGPIPE, exit or abort.
EndClient(c) ==
    /\ Went(c, "end")
    /\ conn' = [conn EXCEPT ![c].client = IF @ = "none" THEN @ ELSE "closed"]

\* The context, then sock_connect.  The kernel completes the connection of who finds
\* room in the queue; SSL_connect sends the hello.
Connect(c, fails, refused) ==
    /\ client[c].pc = "off"
    /\ \/ /\ fails
          /\ Went(c, "loop")
          /\ UNCHANGED <<server, conn>>
       \/ /\ ~fails /\ \A s \in Servers : ~Serving(s)
          /\ Went(c, refused)
          /\ UNCHANGED <<server, conn>>
       \/ \E s \in Servers :
          /\ ~fails /\ Serving(s)
          /\ Went(c, "connect")
          /\ server' = [server EXCEPT ![s].queue = Append(@, c)]
          /\ conn' = [conn EXCEPT ![c] = [to |-> s, up |-> Only("hello"), down |-> {},
                                          client |-> "open", server |-> "open"]]
    /\ UNCHANGED files

\* SSL_connect, with the certificate of the server: it is refused, the client's own is
\* sent, or there is none to send.  In TLS 1.3 the client does not wait for the
\* server's opinion.
SslConnect(c, verdicts) ==
    /\ client[c].pc = "connect"
    /\ \/ /\ "hello" \in conn[c].down /\ "ok" \in verdicts
          /\ Went(c, "write")
          /\ conn' = Send(c, Only("finished"))
       \/ /\ "hello" \in conn[c].down /\ "refuse" \in verdicts
          /\ Went(c, "loop")
          /\ conn' = Send(c, Only("alert"))
       \/ /\ "hello" \in conn[c].down /\ "exit" \in verdicts
          /\ EndClient(c)
       \/ /\ "alert" \in conn[c].down \/ Dead(c)
          /\ Went(c, "loop")
          /\ UNCHANGED conn
    /\ UNCHANGED <<files, server>>

\* SSL_write, write: to a connection that is dead the data is lost, or an error ends
\* the loop, or a signal the client.
ClientWrite(c) ==
    /\ client[c].pc = "write" /\ client[c].sent < Messages(client[c].run)
    /\ \/ /\ client' = [client EXCEPT ![c].sent = @ + 1]
          /\ conn' = IF Dead(c) THEN conn
                     ELSE Send(c, Data(client[c].run, client[c].sent + 1))
       \/ /\ Dead(c)
          /\ client' = [client EXCEPT ![c].sent = Messages(client[c].run),
                           ![c].ssl = IF Mode(client[c].run) = "tls" THEN "bad" ELSE @]
          /\ UNCHANGED conn
       \/ Dead(c) /\ EndClient(c)
    /\ UNCHANGED <<files, server>>

\* myssl_shutdown, as on the other side.
ClientShutdown(c) ==
    /\ client[c].pc = "write" /\ client[c].sent = Messages(client[c].run)
    /\ \/ client[c].ssl = "bad" /\ Went(c, "close") /\ UNCHANGED conn
       \/ /\ client[c].ssl = "ok"
          /\ Went(c, "wait")
          /\ conn' = IF Dead(c) THEN conn ELSE Send(c, Only("bye"))
       \/ client[c].ssl = "ok" /\ Dead(c) /\ EndClient(c)
    /\ UNCHANGED <<files, server>>
ClientAwait(c) ==
    /\ client[c].pc = "wait"
    /\ conn[c].down \cap {"bye", "alert"} # {} \/ Dead(c)
    /\ Went(c, "close")
    /\ UNCHANGED <<files, server, conn>>
CloseClient(c) ==
    /\ client[c].pc = "close"
    /\ EndClient(c)
    /\ UNCHANGED <<files, server>>

\* err: frees the session and the context, and goes to err.  The second round frees
\* them again: the allocator aborts, or it goes round for ever with the socket open.
Abort(c) ==
    /\ client[c].pc = "loop"
    /\ EndClient(c)
    /\ UNCHANGED <<files, server>>

-----------------------------------------------------------------------------
(* The programs.                                                           *)

Ending(s) == Report(s) \/ Shutdown(s) \/ AwaitPeer(s) \/ CloseServer(s)

EnclaveServer(s) ==
    /\ server[s].run.kind = "enclave"
    /\ \/ ServerSetup(s, server[s].run.C /\ ~files.ca)
       \/ Listen(s, "unbound") \/ AcceptFails(s) \/ Accept(s)
       \/ Hello(s, LibraryHello(server[s].run)) \/ Judge(s, LibraryJudges(s))
       \/ SslRead(s)
       \/ Ending(s)

HostServer(s) ==
    /\ server[s].run.kind = "host"
    /\ \/ ServerSetup(s, server[s].run.C /\ ~files.ca)
       \/ Listen(s, "end") \/ Accept(s)
       \/ Hello(s, LibraryHello(server[s].run)) \/ Judge(s, LibraryJudges(s))
       \/ Mode(server[s].run) = "tls" /\ SslRead(s)
       \/ Mode(server[s].run) = "tcp" /\ TcpRead(s)
       \/ Ending(s)

SampleServer(s) ==
    /\ server[s].run.kind = "sample"
    /\ \/ ServerSetup(s, \/ server[s].run.C /\ ~files.ca
                         \/ ~server[s].run.r /\ files.server \notin {"self", "signed"})
       \/ Listen(s, "end") \/ Accept(s)
       \/ Hello(s, SampleHello(server[s].run)) \/ Judge(s, SampleJudges(s))
       \/ Mode(server[s].run) = "tls" /\ SslRead(s)
       \/ Mode(server[s].run) = "tcp" /\ TcpRead(s)
       \/ Mode(server[s].run) = "enc" /\ MyRead(s)
       \/ Ending(s)

Finishing(c) == ClientWrite(c) \/ ClientShutdown(c) \/ ClientAwait(c) \/ CloseClient(c)

EnclaveClient(c) ==
    /\ client[c].run.kind = "enclave"
    /\ Connect(c, FALSE, "loop") \/ SslConnect(c, {"ok", "refuse"}) \/ Finishing(c)

HostClient(c) ==
    /\ client[c].run.kind = "host"
    /\ Connect(c, FALSE, "end") \/ SslConnect(c, {"ok", "refuse"}) \/ Finishing(c)

SampleClient(c) ==
    /\ client[c].run.kind = "sample"
    /\ \/ Connect(c, client[c].run.a /\ ~files.ca, "end")
       \/ client[c].pc = "connect" /\ SslConnect(c, SampleVerdicts(c))
       \/ Finishing(c)

Server(s) == EnclaveServer(s) \/ HostServer(s) \/ SampleServer(s)
Client(c) == EnclaveClient(c) \/ HostClient(c) \/ SampleClient(c)

-----------------------------------------------------------------------------
(* Faults.                                                                 *)

KillServer(s) ==
    /\ "kill" \in ProgramFaults /\ server[s].pc \notin {"off", "end"}
    /\ EndServer(s, server[s])
    /\ UNCHANGED <<files, client>>

KillClient(c) ==
    /\ "kill" \in ProgramFaults /\ client[c].pc \notin {"off", "end"}
    /\ EndClient(c)
    /\ UNCHANGED <<files, server>>

\* The connection is reset; part of what was sent may be lost.
Reset(c) ==
    /\ "reset" \in ProgramFaults /\ conn[c].client = "open" /\ conn[c].server = "open"
    /\ \E n \in 0 .. Len(conn[c].up) :
          conn' = [conn EXCEPT ![c].up = SubSeq(@, 1, n), ![c].client = "closed",
                               ![c].server = "closed"]
    /\ UNCHANGED <<files, server, client>>

ProgramNext ==
    \/ \E s \in Servers : Server(s) \/ KillServer(s)
    \/ \E c \in Clients : Client(c) \/ Abort(c) \/ KillClient(c) \/ Reset(c)

\* A program runs on.  That of a client that has failed spins, or aborts.
Fairness ==
    /\ \A s \in Servers : WF_programVars(Server(s))
    /\ \A c \in Clients : WF_programVars(Client(c))

ProgramSpec == ProgramInit /\ [][ProgramNext]_programVars /\ Fairness

-----------------------------------------------------------------------------
\* A connection belongs to one server, which has accepted it or has it in its queue,
\* and a server has read no more often than it was told to.
ProgramTypeOK ==
    /\ \A s \in Servers :
          /\ server[s].pc \in {"off", "ready", "listen", "unbound", "accepted", "hello",
                               "read", "shutdown", "wait", "close", "end"}
          /\ Len(server[s].got) <= Messages(server[s].run)
          /\ server[s].errors <= Len(server[s].got)
          /\ \A c \in ToSet(server[s].queue) : conn[c].to = s /\ server[s].peer # c
          /\ server[s].peer # Nobody => conn[server[s].peer].to = s
    /\ \A c \in Clients :
          /\ client[c].pc \in {"off", "connect", "write", "wait", "close", "loop", "end"}
          /\ client[c].sent <= Messages(client[c].run)

\* When a server says "Success:", it has every message it was told to expect, whole and
\* as it was sent, if both were told to use TLS or both the bare socket (tlsserver.c:338).
\* It can be seen when messages are cut, a client sends fewer, or the connection breaks.
\* (Of -t 2 see MyEncIsWhole.  Programs told different modes, and a server of the host
\* with -t 2, which reads nothing, say "Success:" over anything.)
SuccessIsWhole ==
    \A s \in Servers :
        LET c == server[s].peer
        IN  server[s].said = "Success" /\ Mode(server[s].run) \in {"tls", "tcp"}
            /\ Mode(client[c].run) = Mode(server[s].run)
              => server[s].got = [m \in 1 .. server[s].run.count |-> Data(server[s].run, m)]

\* So it is with the borrowed cipher: after "Success:" the message is there.  (main does
\* not keep the count of errors that myread returns: tlsserver.c:336.)
MyEncIsWhole ==
    \A s \in Servers :
        LET c == server[s].peer
        IN  server[s].said = "Success" /\ Mode(server[s].run) = "enc"
            /\ Mode(client[c].run) = "enc"
              => server[s].got = <<Data(server[s].run, 1)>>

\* Reads without TLS wait for the number of messages the server was told.  One more
\* than the client writes is met by its close_notify; a further one waits for a client
\* that waits, in SSL_shutdown, for the server.
Enough(s, c) ==
    \/ Mode(server[s].run) \notin {"tcp", "enc"}
    \/ Messages(server[s].run) <= Messages(client[c].run) + 1

\* A connection that was accepted comes to its end on both sides, whatever breaks or is
\* refused: neither waits in a handshake, a read or myssl_shutdown for the other.
ExchangeEnds ==
    \A c \in Clients :
        (\E s \in Servers : server[s].peer = c /\ Enough(s, c))
            ~> /\ client[c].pc \in {"end", "loop"}
               /\ \A s \in Servers : server[s].peer = c => server[s].pc = "end"
=============================================================================
