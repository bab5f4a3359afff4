----------------------------- MODULE SockStream -----------------------------
(***************************************************************************)
(* sock_send and sock_recv (tpm2/libsock.c and, with the same text,        *)
(* src/libsock.c): a writer that sends messages one after the other over a *)
(* stream socket, a header and its payload being two messages, and a       *)
(* reader that asks for the same sizes in the same order.                  *)
(*                                                                         *)
(* Both functions keep the result of write or recv, and the count totsz,   *)
(* in a size_t: the -1 of an error is SizeMax, "sz < 0" is never true, and *)
(* the sum wraps around.  The bytes of all messages are numbered from 0;   *)
(* message i consists of the bytes Start[i], ..., Start[i + 1] - 1.        *)
(***************************************************************************)
EXTENDS Integers, Sequences

CONSTANTS
    N,          \* number of messages
    Start,      \* Start[i]: the number of the first byte of message i
    SizeMax,    \* the largest size_t
    MaxStream,  \* bound on the bytes written (a failing write repeats some)
    Junk,       \* what a byte of the buffer holds before it is written
    Faults      \* "close", "reset": the writer may end; "nobufs": write may
                \* fail with ENOBUFS

Size(i) == Start[i + 1] - Start[i]

ASSUME StreamAssumption ==
    /\ N \in Nat \ {0}
    /\ Start \in [1..(N + 1) -> Nat]
    /\ Start[1] = 0
    /\ SizeMax \in Nat /\ MaxStream \in Nat
    /\ \A i \in 1..N : Size(i) > 0 /\ Size(i) < SizeMax
    /\ Junk \notin Nat
    /\ Faults \subseteq {"close", "reset", "nobufs"}

VARIABLES
    stream,     \* the bytes written to the socket so far
    smsg,       \* the message sock_send is sending; N + 1 after the last
    stot,       \* totsz of sock_send
    wend,       \* the writer's end: "open", "closed", or "reset" when the
                \* writer went with data unread (ECONNRESET at the reader)
    rpos,       \* how many bytes of the stream the reader has taken
    rmsg,       \* the message sock_recv is to read; N + 1 after the last
    rtot,       \* totsz of sock_recv
    buf,        \* the reader's buffer
    got,        \* the buffers for which sock_recv returned 0
    rst,        \* "recv", "done", or "failed" when sock_recv returned -1
    erred       \* whether a write or a recv has returned -1 so far

sendVars == <<stream, smsg, stot>>
recvVars == <<rpos, rmsg, rtot, buf, got, rst>>
vars == <<sendVars, wend, recvVars, erred>>

\* totsz += sz, where sz may be the -1 of an error.
Add(totsz, sz) == (totsz + sz) % (SizeMax + 1)
Error == SizeMax

Fresh(i) == [o \in 0..(Size(i) - 1) |-> Junk]

-----------------------------------------------------------------------------
\* Mutant: sock_send loops while totsz <= size.
SendLoopAtMost(t) ==
    IF t <= Size(smsg)
    THEN stot' = t /\ UNCHANGED smsg
    ELSE stot' = 0 /\ smsg' = smsg + 1

\* The loop "while (totsz < size)" goes on with t, or sock_send returns 0.
SendLoop(t) ==
    IF t < Size(smsg)
    THEN stot' = t /\ UNCHANGED smsg
    ELSE stot' = 0 /\ smsg' = smsg + 1

\* write takes n of the bytes that are left.
Write(n) ==
    /\ smsg <= N /\ wend = "open"
    /\ n \in 1..(Size(smsg) - stot) /\ Len(stream) + n <= MaxStream
    /\ stream' = stream \o [k \in 1..n |-> Start[smsg] + stot + k - 1]
    /\ SendLoop(Add(stot, n))
    /\ UNCHANGED <<wend, recvVars, erred>>

\* write fails: "sz <= 0" is false for SizeMax.
WriteFails ==
    /\ "nobufs" \in Faults
    /\ smsg <= N /\ wend = "open"
    /\ SendLoop(Add(stot, Error))
    /\ erred' = TRUE
    /\ UNCHANGED <<stream, wend, recvVars>>

\* The writer closes its end, between two messages or within one.
Close ==
    /\ wend = "open"
    /\ \/ "close" \in Faults /\ wend' = "closed"
       \/ "reset" \in Faults /\ wend' = "reset"
    /\ UNCHANGED <<sendVars, recvVars, erred>>

-----------------------------------------------------------------------------
\* Mutant: sock_recv loops while totsz <= size.
RecvLoopAtMost(t, b) ==
    IF t <= Size(rmsg)
    THEN rtot' = t /\ buf' = b /\ UNCHANGED <<rmsg, got, rst>>
    ELSE UNCHANGED recvVars

\* The loop of sock_recv goes on with t, or sock_recv returns 0 with buffer b.
RecvLoop(t, b) ==
    IF t < Size(rmsg)
    THEN rtot' = t /\ buf' = b /\ UNCHANGED <<rmsg, got, rst>>
    ELSE /\ rtot' = 0
         /\ got' = Append(got, b)
         /\ rmsg' = rmsg + 1
         /\ rst' = IF rmsg = N THEN "done" ELSE "recv"
         /\ buf' = IF rmsg = N THEN <<>> ELSE Fresh(rmsg + 1)

\* Mutant: recv(sock, buf, ...) without "+ totsz".
RecvAtStart(n) ==
    /\ rst = "recv"
    /\ n \in 1..(Size(rmsg) - rtot) /\ rpos + n <= Len(stream)
    /\ rpos' = rpos + n
    /\ RecvLoop(Add(rtot, n),
                [o \in DOMAIN buf |-> IF o < n THEN stream[rpos + o + 1]
                                      ELSE buf[o]])
    /\ UNCHANGED <<sendVars, wend, erred>>

\* recv returns n of the bytes that wait, at most the size - totsz asked for.
Recv(n) ==
    /\ rst = "recv"
    /\ n \in 1..(Size(rmsg) - rtot) /\ rpos + n <= Len(stream)
    /\ rpos' = rpos + n
    /\ RecvLoop(Add(rtot, n),
                [o \in DOMAIN buf |-> IF o \in rtot..(rtot + n - 1)
                                      THEN stream[rpos + (o - rtot) + 1]
                                      ELSE buf[o]])
    /\ UNCHANGED <<sendVars, wend, erred>>

\* recv fails with ECONNRESET, once, when no byte waits.
RecvError ==
    /\ rst = "recv"
    /\ rpos = Len(stream) /\ wend = "reset"
    /\ wend' = "closed"
    /\ RecvLoop(Add(rtot, Error), buf)
    /\ erred' = TRUE
    /\ UNCHANGED <<sendVars, rpos>>

\* Mutant: the end of the stream counts as a complete message.
RecvEofSucceeds ==
    /\ rst = "recv"
    /\ rpos = Len(stream) /\ wend = "closed"
    /\ RecvLoop(Size(rmsg), buf)
    /\ UNCHANGED <<sendVars, wend, rpos, erred>>

\* The end of the stream.  sock_recv returns -1 before the first byte of a
\* message; after it the loop turns without end, as sz = 0 changes nothing.
RecvEof ==
    /\ rst = "recv" /\ rtot = 0
    /\ rpos = Len(stream) /\ wend = "closed"
    /\ rst' = "failed"
    /\ UNCHANGED <<sendVars, wend, rpos, rmsg, rtot, buf, got, erred>>

-----------------------------------------------------------------------------
Init ==
    /\ stream = <<>> /\ smsg = 1 /\ stot = 0
    /\ wend = "open"
    /\ rpos = 0 /\ rmsg = 1 /\ rtot = 0
    /\ buf = Fresh(1) /\ got = <<>> /\ rst = "recv"
    /\ erred = FALSE

Sender == \E n \in 1..SizeMax : Write(n)
Reader == (\E n \in 1..SizeMax : Recv(n)) \/ RecvError \/ RecvEof

Next == Sender \/ WriteFails \/ Close \/ Reader

Spec == Init /\ [][Next]_vars

\* Both processes run; nothing has to fail.
FairSpec == Spec /\ WF_vars(Sender) /\ WF_vars(Reader)

-----------------------------------------------------------------------------
(* Properties.                                                             *)

Buffer(i) == [0..(Size(i) - 1) -> Nat \cup {Junk}]

\* The types; totsz never passes the size of its message, also when it wraps
\* around: no write or recv goes beyond the caller's buffer.
TypeOK ==
    /\ stream \in Seq(Nat)
    /\ smsg \in 1..(N + 1)
    /\ stot \in Nat /\ (smsg <= N => stot < Size(smsg))
    /\ wend \in {"open", "closed", "reset"}
    /\ rpos \in 0..Len(stream)
    /\ rmsg \in 1..(N + 1)
    /\ rtot \in Nat /\ (rmsg <= N => rtot < Size(rmsg))
    /\ rmsg <= N => buf \in Buffer(rmsg)
    /\ Len(got) = rmsg - 1
    /\ rst \in {"recv", "done", "failed"}
    /\ rst = "recv" => rmsg <= N
    /\ erred \in BOOLEAN

Whole(i) == [o \in 0..(Size(i) - 1) |-> Start[i] + o]

\* However write and recv cut the stream, and wherever it ends, sock_recv
\* returns 0 only with the whole of the message sent in that place, as long as
\* no write or recv has failed.
Delivered == ~erred => \A i \in 1..Len(got) : got[i] = Whole(i)

\* Also when recv or write fails, what sock_recv returned with is what was
\* written in that place of the stream; only the last buffer may be damaged,
\* as after ECONNRESET the next message meets the end of the stream.
DamageIsLast ==
    \A i \in 1..(Len(got) - 1) :
        /\ Start[i + 1] <= Len(stream)
        /\ got[i] = [o \in 0..(Size(i) - 1) |-> stream[Start[i] + o + 1]]

\* Unless the writer goes away, or a call fails, every message arrives.
AllDelivered == <>(rst = "done" \/ wend # "open" \/ erred)

\* A message cut short is reported with -2 (libsock.c:93), so that the caller
\* can print "Short message" (tpmdaemon.c:279-281): the call returns.
ShortReported == (rtot > 0 /\ wend = "closed" /\ rpos = Len(stream)) ~> (rtot = 0)
=============================================================================
