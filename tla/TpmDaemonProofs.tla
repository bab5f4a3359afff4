--------------------------- MODULE TpmDaemonProofs ---------------------------
(***************************************************************************)
(* Proofs about TpmDaemon, for every number of processes, calls and        *)
(* daemons, every limit and every set of faults.                           *)
(***************************************************************************)
EXTENDS TpmDaemon, SequenceTheorems, TLAPS

\* Every packet a client function writes is a tpmd_packet with its own nonce.
LEMMA RequestType ==
  ASSUME NEW c \in Calls, NEW k \in {"hello", "attest", "pica"}
  PROVE  [cmd |-> k, nonce |-> c] \in Request
BY DEF Request, Nonces

\* What Return does to the variables it sets.
LEMMA ReturnType ==
  ASSUME TypeOK, NEW c \in Calls, NEW st \in Returned,
         NEW r \in Reply \cup {None}, NEW rx \in [Calls -> Seq(Frame)],
         Return(c, st, r, rx)
  PROVE  /\ alive' \in SUBSET Procs
         /\ cst' \in [Calls -> {"new"} \cup Asking \cup Returned]
         /\ got' \in [Calls -> Reply \cup {None}]
         /\ rxc' \in [Calls -> Seq(Frame)]
         /\ resetD' \in SUBSET Calls
BY DEF TypeOK, Return, Terminate

\* The client actions keep the types.
LEMMA ClientType ==
  ASSUME TypeOK, NEW c \in Calls,
         Connect(c) \/ ConnectRefused(c) \/ ClientStep(c)
  PROVE  TypeOK'
<1> USE DEF chanVars, listenVars, loopVars
<1> DEFINE rx == [rxc EXCEPT ![c] = Tail(@)]
<1>0. rxc[c] # <<>> => /\ Head(rxc[c]) \in Frame
                       /\ Head(rxc[c]).reply \in Reply
                       /\ rx \in [Calls -> Seq(Frame)]
  <2>1. SUFFICES ASSUME rxc[c] # <<>>
                 PROVE  Head(rxc[c]) \in Frame /\ Tail(rxc[c]) \in Seq(Frame)
    BY <2>1 DEF TypeOK, Frame
  <2>2. rxc[c] \in Seq(Frame)
    BY DEF TypeOK
  <2> QED
    BY <2>1, <2>2, HeadTailProperties
<1>1. CASE Connect(c)
  BY <1>1 DEF Connect, TypeOK, Returned, Asking
<1>2. CASE ConnectRefused(c)
  BY <1>2, ReturnType DEF ConnectRefused, TypeOK, Returned
<1>3. CASE SendHello(c) \/ Send(c)
  <2>1. PICK k \in {"hello", "attest", "pica"} :
          rxd' = [rxd EXCEPT ![c] = Append(@, [cmd |-> k, nonce |-> c])]
    BY <1>3 DEF SendHello, Send
  <2>2. Append(rxd[c], [cmd |-> k, nonce |-> c]) \in Seq(Request)
    BY RequestType, AppendProperties DEF TypeOK
  <2>3. rxd' \in [Calls -> Seq(Request)]
    BY <2>1, <2>2 DEF TypeOK
  <2> QED
    BY <1>3, <2>3 DEF SendHello, Send, TypeOK, Asking
<1>4. CASE SendKilled(c)
  BY <1>4 DEF SendKilled, Terminate, TypeOK
<1>5. CASE RecvHead(c)
  <2> DEFINE r == Head(rxc[c]).reply
  <2>1. CASE Return(c, TooLong(c), None, rx)
    <3>1. TooLong(c) \in Returned
      BY DEF TooLong, Returned
    <3> QED
      BY <1>5, <1>0, <2>1, <3>1, ReturnType DEF RecvHead, TypeOK
  <2>2. CASE Return(c, "fail", None, rx)
    BY <1>5, <1>0, <2>2, ReturnType DEF RecvHead, TypeOK, Returned
  <2>3. CASE /\ cst' = [cst EXCEPT ![c] = "body"]
             /\ rxc' = rx
             /\ UNCHANGED <<alive, got, resetD>>
    BY <1>5, <1>0, <2>3 DEF RecvHead, TypeOK, Asking
  <2> QED
    BY <1>5, <2>1, <2>2, <2>3 DEF RecvHead
<1>6. CASE RecvHeadReset(c)
  <2>1. PICK st \in {"fail", TooLong(c)} : Return(c, st, None, rxc)
    BY <1>6 DEF RecvHeadReset
  <2>2. st \in Returned
    BY DEF TooLong, Returned
  <2> QED
    BY <1>6, <2>1, <2>2, ReturnType DEF RecvHeadReset, TypeOK
<1>7. CASE RecvBody(c)
  BY <1>7, <1>0, ReturnType DEF RecvBody, TypeOK, Returned
<1>8. CASE RecvEof(c)
  BY <1>8, ReturnType DEF RecvEof, TypeOK, Returned
<1> QED
  BY <1>1, <1>2, <1>3, <1>4, <1>5, <1>6, <1>7, <1>8 DEF ClientStep

\* While a daemon serves a connection, con is a call and the table has an entry
\* for its process; while it writes, out is the reply.
Serving == {"read", "head", "body"}

ServesOne ==
    \A d \in Daemons : dpc[d] \in Serving =>
        /\ con[d] \in Calls
        /\ table[d][Pid[Owner[con[d]]]] # Absent
        /\ dpc[d] # "read" => out[d] \in Reply

TypeInv == TypeOK /\ ServesOne

\* The nonce unsealed is the request's, Junk or what the slot holds.
LEMMA UnsealedChoice ==
  ASSUME NEW d, NEW cmd, NEW nonce, NEW u \in Unsealed(d, cmd, nonce)
  PROVE  \/ u = <<nonce, TRUE>> \/ u = <<Junk, FALSE>> \/ u = <<slot[d], FALSE>>
<1>1. CASE cmd = "pica"
  BY <1>1 DEF Unsealed
<1>2. CASE cmd # "pica"
  <2> DEFINE sealed == nonce # Junk /\ Kind[nonce] = "attest"
             F == {<<Junk, FALSE>>, <<slot[d], FALSE>>}
  <2>1. u \in (IF sealed THEN {<<nonce, TRUE>>} ELSE {})
              \cup (IF ~sealed \/ "unseal" \in Faults THEN F ELSE {})
    BY <1>2 DEF Unsealed
  <2> HIDE DEF sealed
  <2> QED
    BY <2>1
<1> QED
  BY <1>1, <1>2

LEMMA UnsealedParts ==
  ASSUME NEW d, NEW cmd, NEW nonce, NEW u \in Unsealed(d, cmd, nonce)
  PROVE  u[1] \in {nonce, Junk, slot[d]} /\ (u[2] => u[1] = nonce)
<1>1. CASE u = <<nonce, TRUE>>
  BY <1>1
<1>2. CASE u = <<Junk, FALSE>>
  BY <1>2
<1>3. CASE u = <<slot[d], FALSE>>
  BY <1>3
<1> QED
  BY <1>1, <1>2, <1>3, UnsealedChoice

\* The choices of MakeReply: the nonce u[1] and whether it was unsealed, u[2];
\* the quote q[1], what t_quote holds then, q[2]; and the reply made of them.
LEMMA MakeReplyChoice ==
  ASSUME TypeInv, NEW d \in Daemons, dpc[d] = "read",
         NEW cmd, NEW nonce \in Nonces, MakeReply(d, cmd, nonce)
  PROVE  \E u \in Unsealed(d, cmd, nonce) :
         \E q \in QuoteOutcomes(d, Subject(d, cmd), u[1]), r \in Reply :
            /\ u[1] \in Nonces
            /\ q[1] \in Quote \cup {None} /\ q[2] \in Quote \cup {None}
            /\ r.pid = Subject(d, cmd) /\ r.measured = apphash[d].read
            /\ r.nonce \in {u[1], None} /\ r.unsealed = u[2]
            /\ r.quote \in {q[1], None}
            /\ out' = [out EXCEPT ![d] = r]
            /\ lastq' = [lastq EXCEPT ![d] = q[2]]
            /\ slot' \in {slot, [slot EXCEPT ![d] = u[1]]}
            /\ dpc' = [dpc EXCEPT ![d] = "head"]
<1> DEFINE s == Subject(d, cmd)
<1>1. s \in Digests
  <2>1. /\ con[d] \in Calls
        /\ table[d][Pid[Owner[con[d]]]] # Absent
    BY DEF TypeInv, ServesOne, Serving
  <2>2. /\ table \in [Daemons -> [Pids -> Digests \cup {Absent}]]
        /\ apphash \in [Daemons -> [of : Digests, read : BOOLEAN]]
        /\ Pid[Owner[con[d]]] \in Pids
    BY <2>1, ConstantsAssumption DEF TypeInv, TypeOK
  <2> QED
    BY <2>1, <2>2 DEF Subject
<1>2. apphash[d].read \in BOOLEAN /\ slot[d] \in Nonces /\ Junk \in Nonces
      /\ lastq[d] \in Quote \cup {None} /\ slot \in [Daemons -> Nonces]
  BY DEF TypeInv, TypeOK, Nonces
<1>3. PICK u \in Unsealed(d, cmd, nonce), n \in Lens :
      \E q \in QuoteOutcomes(d, s, u[1]) :
          /\ \/ out' = [out EXCEPT ![d] =
                  [pid |-> s, measured |-> apphash[d].read,
                   nonce |-> IF cmd = "attest" THEN u[1] ELSE None,
                   unsealed |-> u[2], quote |-> q[1], len |-> n]]
             \/ out' = [out EXCEPT ![d] =
                     [pid |-> s, measured |-> apphash[d].read,
                      nonce |-> None, unsealed |-> u[2],
                      quote |-> None, len |-> 0]]
          /\ lastq' = [lastq EXCEPT ![d] = q[2]]
          /\ slot' = [slot EXCEPT ![d] = IF cmd = "attest" THEN u[1] ELSE @]
          /\ dpc' = [dpc EXCEPT ![d] = "head"]
  BY DEF MakeReply, Sizes
<1>4. u[1] \in Nonces /\ u[2] \in BOOLEAN
  <2> HIDE DEF s
  <2>1. \/ u = <<nonce, TRUE>> \/ u = <<Junk, FALSE>> \/ u = <<slot[d], FALSE>>
    BY UnsealedChoice
  <2>2. PICK n0 \in Nonces, b \in BOOLEAN : u = <<n0, b>>
    <3>1. nonce \in Nonces /\ slot[d] \in Nonces /\ Junk \in Nonces
      BY <1>2
    <3>2. TRUE \in BOOLEAN /\ FALSE \in BOOLEAN
      OBVIOUS
    <3> QED
      BY <2>1, <3>1, <3>2
  <2>3. u[1] = n0 /\ u[2] = b
    BY <2>2
  <2> QED
    BY <2>3
<1>5. QuoteOutcomes(d, s, u[1])
        \subseteq (Quote \cup {None}) \X (Quote \cup {None})
  <2>1. [pid |-> s, nonce |-> u[1]] \in Quote
    BY <1>1, <1>4 DEF Quote
  <2> QED
    BY <1>2, <2>1 DEF QuoteOutcomes
<1>6. PICK q \in QuoteOutcomes(d, s, u[1]) :
          /\ \/ out' = [out EXCEPT ![d] =
                  [pid |-> s, measured |-> apphash[d].read,
                   nonce |-> IF cmd = "attest" THEN u[1] ELSE None,
                   unsealed |-> u[2], quote |-> q[1], len |-> n]]
             \/ out' = [out EXCEPT ![d] =
                     [pid |-> s, measured |-> apphash[d].read,
                      nonce |-> None, unsealed |-> u[2],
                      quote |-> None, len |-> 0]]
          /\ lastq' = [lastq EXCEPT ![d] = q[2]]
          /\ slot' = [slot EXCEPT ![d] = IF cmd = "attest" THEN u[1] ELSE @]
          /\ dpc' = [dpc EXCEPT ![d] = "head"]
  BY <1>3
<1>7. q[1] \in Quote \cup {None} /\ q[2] \in Quote \cup {None}
  BY <1>5
<1> DEFINE full == [pid |-> s, measured |-> apphash[d].read,
                    nonce |-> IF cmd = "attest" THEN u[1] ELSE None,
                    unsealed |-> u[2], quote |-> q[1], len |-> n]
           empty == [pid |-> s, measured |-> apphash[d].read,
                     nonce |-> None, unsealed |-> u[2],
                     quote |-> None, len |-> 0]
<1>8. /\ full \in Reply /\ full.pid = s /\ full.measured = apphash[d].read
      /\ full.nonce \in {u[1], None} /\ full.unsealed = u[2]
      /\ full.quote \in {q[1], None}
  BY <1>1, <1>2, <1>4, <1>7 DEF Reply
<1>9. /\ empty \in Reply /\ empty.pid = s /\ empty.measured = apphash[d].read
      /\ empty.nonce \in {u[1], None} /\ empty.unsealed = u[2]
      /\ empty.quote \in {q[1], None}
  BY <1>1, <1>2, <1>4 DEF Reply
<1>10. out' = [out EXCEPT ![d] = full] \/ out' = [out EXCEPT ![d] = empty]
  BY <1>6
<1>11. slot' \in {slot, [slot EXCEPT ![d] = u[1]]}
  BY <1>2, <1>6
<1> HIDE DEF full, empty, s
<1>12. PICK r \in {full, empty} : out' = [out EXCEPT ![d] = r]
  BY <1>10
<1>13. /\ r \in Reply /\ r.pid = s /\ r.measured = apphash[d].read
       /\ r.nonce \in {u[1], None} /\ r.unsealed = u[2]
       /\ r.quote \in {q[1], None}
  BY <1>8, <1>9, <1>12
<1> QED
  BY <1>4, <1>6, <1>7, <1>11, <1>12, <1>13 DEF s

\* The types of what MakeReply writes.
LEMMA MakeReplyType ==
  ASSUME TypeInv, NEW d \in Daemons, dpc[d] = "read",
         NEW cmd, NEW nonce \in Nonces, MakeReply(d, cmd, nonce)
  PROVE  /\ out' \in [Daemons -> Reply \cup {None}]
         /\ out'[d] \in Reply
         /\ \A e \in Daemons \ {d} : out'[e] = out[e]
         /\ lastq' \in [Daemons -> Quote \cup {None}]
         /\ slot' \in [Daemons -> Nonces]
         /\ dpc' = [dpc EXCEPT ![d] = "head"]
<1>1. /\ out \in [Daemons -> Reply \cup {None}]
      /\ lastq \in [Daemons -> Quote \cup {None}]
      /\ slot \in [Daemons -> Nonces]
  BY DEF TypeInv, TypeOK
<1>2. PICK n \in Nonces, k \in Quote \cup {None}, r \in Reply :
          /\ out' = [out EXCEPT ![d] = r]
          /\ lastq' = [lastq EXCEPT ![d] = k]
          /\ slot' \in {slot, [slot EXCEPT ![d] = n]}
          /\ dpc' = [dpc EXCEPT ![d] = "head"]
  BY MakeReplyChoice
<1> QED
  BY <1>1, <1>2

\* What sha256_pid may leave in apphash and in the table.
LEMMA MeasuredType ==
  ASSUME TypeOK, NEW d \in Daemons, NEW c \in Calls,
         NEW m \in Measured(d, c)
  PROVE  m.of \in Digests /\ m.read \in BOOLEAN /\ m.entry \in Digests
<1> DEFINE n == Pid[Owner[c]]
<1>1. /\ n \in Pids /\ table[d][n] \in Digests \cup {Absent}
      /\ apphash[d].of \in Digests
  BY ConstantsAssumption DEF TypeOK
<1> HIDE DEF n
<1>2. \/ /\ table[d][n] # Absent
         /\ m = [of |-> table[d][n], read |-> FALSE, entry |-> table[d][n]]
      \/ \E p \in Procs : m = [of |-> p, read |-> TRUE, entry |-> p]
      \/ m = [of |-> apphash[d].of, read |-> FALSE, entry |-> None]
  BY DEF Measured, n
<1>3. CASE /\ table[d][n] # Absent
           /\ m = [of |-> table[d][n], read |-> FALSE, entry |-> table[d][n]]
  BY <1>1, <1>3
<1>4. CASE \E p \in Procs : m = [of |-> p, read |-> TRUE, entry |-> p]
  BY <1>4 DEF Digests
<1>5. CASE m = [of |-> apphash[d].of, read |-> FALSE, entry |-> None]
  BY <1>1, <1>5 DEF Digests
<1> QED
  BY <1>2, <1>3, <1>4, <1>5

\* The daemon actions keep the types.
LEMMA DaemonType ==
  ASSUME TypeInv, NEW d \in Daemons,
         Start(d) \/ StartFails(d) \/ Kill(d) \/ DaemonStep(d)
  PROVE  TypeInv'
<1> USE DEF TypeInv
<1> USE DEF procVars, chanVars, listenVars, loopVars
<1>1. CASE Start(d)
  BY <1>1 DEF Start, TypeOK, ServesOne, Serving
<1>2. CASE StartFails(d)
  BY <1>2 DEF StartFails, TypeOK, Gone, ServesOne, Serving
<1>3. CASE Kill(d)
  BY <1>3 DEF Kill, Stop, TypeOK, Gone, ServesOne, Serving
<1>4. CASE Accept(d)
  <2> DEFINE c == Head(backlog[d])
  <2>1. c \in Calls /\ Tail(backlog[d]) \in Seq(Calls)
    BY <1>4, HeadTailProperties DEF Accept, TypeOK
  <2> DEFINE n == Pid[Owner[c]]
  <2>a. n \in Pids
    BY <2>1, ConstantsAssumption
  <2>b. PICK m \in Measured(d, c) :
          /\ apphash' = [apphash EXCEPT ![d] = [of |-> m.of, read |-> m.read]]
          /\ table' = [table EXCEPT ![d][n] = m.entry]
    BY <1>4 DEF Accept
  <2>c. m.of \in Digests /\ m.read \in BOOLEAN /\ m.entry \in Digests
    BY <2>1, <2>a, MeasuredType
  <2>d. /\ con' = [con EXCEPT ![d] = c]
        /\ dpc' = [dpc EXCEPT ![d] = "read"]
        /\ UNCHANGED out
    BY <1>4 DEF Accept
  <2>e. /\ con \in [Daemons -> Calls \cup {None}]
        /\ table \in [Daemons -> [Pids -> Digests \cup {Absent}]]
        /\ apphash \in [Daemons -> [of : Digests, read : BOOLEAN]]
        /\ dpc \in [Daemons -> {"off", "accept", "read", "head", "body", "hung"}
                                \cup Gone]
    BY DEF TypeOK
  <2>3. /\ apphash' \in [Daemons -> [of : Digests, read : BOOLEAN]]
        /\ table' \in [Daemons -> [Pids -> Digests \cup {Absent}]]
        /\ table'[d][n] = m.entry
        /\ \A e \in Daemons \ {d} : table'[e] = table[e]
    <3> HIDE DEF n
    <3> QED
      BY <2>a, <2>b, <2>c, <2>e
  <2>4. TypeOK'
    BY <1>4, <2>1, <2>3 DEF Accept, TypeOK
  <2>f. m.entry # Absent
    BY <2>c, ConstantsAssumption DEF Digests
  <2>5. ServesOne'
    <3> SUFFICES ASSUME NEW e \in Daemons, dpc'[e] \in Serving
                 PROVE  /\ con'[e] \in Calls
                        /\ table'[e][Pid[Owner[con'[e]]]] # Absent
                        /\ dpc'[e] # "read" => out'[e] \in Reply
      BY DEF ServesOne
    <3>1. CASE e = d
      <4>1. con'[e] = c /\ dpc'[e] = "read"
        BY <2>d, <2>e, <3>1
      <4>2. table'[e][n] # Absent
        BY <2>3, <2>f, <3>1
      <4> QED
        BY <2>1, <4>1, <4>2
    <3>2. CASE e # d
      <4>1. /\ con'[e] = con[e] /\ dpc'[e] = dpc[e] /\ table'[e] = table[e]
            /\ out'[e] = out[e]
        BY <2>d, <2>e, <2>3, <3>2
      <4> QED
        BY <4>1 DEF ServesOne
    <3> QED
      BY <3>1, <3>2
  <2> QED
    BY <2>4, <2>5
<1>5. CASE AcceptFails(d)
  BY <1>5 DEF AcceptFails, Stop, TypeOK, Gone, ServesOne, Serving
<1>6. CASE ReadHello(d) \/ ReadRequest(d) \/ ReadHangs(d)
  <2>1. dpc[d] = "read" /\ rxd[con[d]] # <<>>
    BY <1>6 DEF ReadHello, ReadRequest, ReadHangs
  <2>2. con[d] \in Calls
    BY <2>1 DEF ServesOne, Serving
  <2>3. /\ Head(rxd[con[d]]) \in Request
        /\ Tail(rxd[con[d]]) \in Seq(Request)
    BY <2>1, <2>2, HeadTailProperties DEF TypeOK
  <2>4. CASE ReadHello(d)
    BY <2>2, <2>3, <2>4 DEF ReadHello, TypeOK, ServesOne
  <2>5. CASE ReadRequest(d)
    <3> DEFINE cmd == Head(rxd[con[d]]).cmd
               nonce == Head(rxd[con[d]]).nonce
    <3>1. nonce \in Nonces
      BY <2>3 DEF Request
    <3>2. MakeReply(d, cmd, nonce)
      BY <2>5 DEF ReadRequest
    <3> HIDE DEF cmd, nonce
    <3>3. /\ out' \in [Daemons -> Reply \cup {None}]
          /\ out'[d] \in Reply
          /\ \A e \in Daemons \ {d} : out'[e] = out[e]
          /\ lastq' \in [Daemons -> Quote \cup {None}]
          /\ slot' \in [Daemons -> Nonces]
          /\ dpc' = [dpc EXCEPT ![d] = "head"]
      BY <2>1, <3>1, <3>2, MakeReplyType
    <3>4. TypeOK'
      BY <2>2, <2>3, <2>5, <3>3 DEF ReadRequest, TypeOK
    <3>5. ServesOne'
      BY <2>2, <2>5, <3>3 DEF ReadRequest, TypeOK, ServesOne, Serving
    <3> QED
      BY <3>4, <3>5
  <2>6. CASE ReadHangs(d)
    BY <2>2, <2>3, <2>6 DEF ReadHangs, TypeOK, ServesOne, Serving
  <2> QED
    BY <1>6, <2>4, <2>5, <2>6
<1>7. CASE ReadEof(d)
  BY <1>7 DEF ReadEof, TypeOK, ServesOne, Serving
<1>8. CASE ReadReset(d)
  <2>1. con[d] \in Calls
    BY <1>8 DEF ReadReset, ServesOne, Serving
  <2>2. CASE /\ \E cmd \in {"attest", "pica"} : MakeReply(d, cmd, Junk)
             /\ UNCHANGED resetC
    <3>1. Junk \in Nonces
      BY DEF Nonces
    <3>2. /\ out' \in [Daemons -> Reply \cup {None}]
          /\ out'[d] \in Reply
          /\ \A e \in Daemons \ {d} : out'[e] = out[e]
          /\ lastq' \in [Daemons -> Quote \cup {None}]
          /\ slot' \in [Daemons -> Nonces]
          /\ dpc' = [dpc EXCEPT ![d] = "head"]
      BY <1>8, <2>2, <3>1, MakeReplyType DEF ReadReset
    <3>3. TypeOK'
      BY <1>8, <2>2, <3>2 DEF ReadReset, TypeOK
    <3>4. ServesOne'
      BY <1>8, <2>1, <3>2 DEF ReadReset, TypeOK, ServesOne, Serving
    <3> QED
      BY <3>3, <3>4
  <2>3. CASE Stop(d, "killed") /\ UNCHANGED <<out, lastq, slot>>
    BY <1>8, <2>3 DEF ReadReset, Stop, TypeOK, Gone, ServesOne, Serving
  <2>4. CASE /\ UNCHANGED <<resetC, out, lastq, slot>>
             /\ dpc' \in {dpc, [dpc EXCEPT ![d] = "accept"],
                          [dpc EXCEPT ![d] = "hung"]}
    BY <1>8, <2>4 DEF ReadReset, TypeOK, ServesOne, Serving
  <2> QED
    BY <1>8, <2>2, <2>3, <2>4 DEF ReadReset
<1>9. CASE WriteHead(d) \/ WriteBody(d)
  <2>1. con[d] \in Calls /\ out[d] \in Reply
    BY <1>9 DEF WriteHead, WriteBody, ServesOne, Serving
  <2>2. PICK part \in {"head", "body"} :
          rxc' = [rxc EXCEPT ![con[d]] =
                    Append(@, [part |-> part, reply |-> out[d]])]
    BY <1>9 DEF WriteHead, WriteBody
  <2>3. [part |-> part, reply |-> out[d]] \in Frame
    BY <2>1 DEF Frame
  <2>4. rxc' \in [Calls -> Seq(Frame)]
    BY <2>1, <2>2, <2>3, AppendProperties DEF TypeOK
  <2>5. dpc' \in {[dpc EXCEPT ![d] = "read"], [dpc EXCEPT ![d] = "body"]}
    BY <1>9 DEF WriteHead, WriteBody
  <2>6. TypeOK'
    BY <1>9, <2>4, <2>5 DEF WriteHead, WriteBody, TypeOK
  <2>7. ServesOne'
    BY <1>9, <2>1, <2>5 DEF WriteHead, WriteBody, TypeOK, ServesOne, Serving
  <2> QED
    BY <2>6, <2>7
<1>10. CASE WriteKilled(d)
  BY <1>10 DEF WriteKilled, Stop, TypeOK, Gone, ServesOne, Serving
<1> QED
  BY <1>1, <1>2, <1>3, <1>4, <1>5, <1>6, <1>7, <1>8, <1>9, <1>10
     DEF DaemonStep

\* The client actions do not touch the daemon's own variables.
LEMMA ClientKeepsLoop ==
  ASSUME NEW c \in Calls, Connect(c) \/ ConnectRefused(c) \/ ClientStep(c)
  PROVE  UNCHANGED loopVars
BY DEF Connect, ConnectRefused, ClientStep, SendHello, Send, SendKilled,
       RecvHead, RecvHeadReset, RecvBody, RecvEof

\* Nor do the ends of the client processes.
LEMMA ProcessStep ==
  ASSUME NEW p \in Procs, Exit(p) \/ Crash(p)
  PROVE  /\ alive' = alive \ {p}
         /\ resetD' = resetD \cup {c \in Calls : Owner[c] = p /\ rxc[c] # <<>>}
         /\ UNCHANGED <<cst, got, rxd, rxc, resetC, listenVars, loopVars>>
BY DEF Exit, Crash, Terminate

\* TypeInv is inductive: every handler of the daemon and of its clients, and
\* every death of a process, keeps the types.
LEMMA TypeInvStep ==
  ASSUME TypeInv, [Next]_vars
  PROVE  TypeInv'
<1>1. CASE \E c \in Calls : Connect(c) \/ ConnectRefused(c) \/ ClientStep(c)
  <2>1. PICK c \in Calls : Connect(c) \/ ConnectRefused(c) \/ ClientStep(c)
    BY <1>1
  <2>2. TypeOK'
    BY <2>1, ClientType DEF TypeInv
  <2>3. UNCHANGED loopVars
    BY <2>1, ClientKeepsLoop
  <2> QED
    BY <2>2, <2>3 DEF TypeInv, ServesOne, loopVars
<1>2. CASE \E p \in Procs : Exit(p) \/ Crash(p)
  <2>1. PICK p \in Procs : Exit(p) \/ Crash(p)
    BY <1>2
  <2> QED
    BY <2>1, ProcessStep
       DEF TypeInv, TypeOK, ServesOne, listenVars, loopVars
<1>3. CASE \E d \in Daemons : Start(d) \/ StartFails(d) \/ Kill(d) \/ DaemonStep(d)
  BY <1>3, DaemonType
<1>4. CASE UNCHANGED vars
  BY <1>4 DEF vars, procVars, chanVars, listenVars, loopVars,
              TypeInv, TypeOK, ServesOne
<1> QED
  BY <1>1, <1>2, <1>3, <1>4 DEF Next

\* The types hold in the initial state.
LEMMA TypeInvInit ==
  ASSUME Init
  PROVE  TypeInv
<1>1. /\ table \in [Daemons -> [Pids -> Digests \cup {Absent}]]
      /\ apphash \in [Daemons -> [of : Digests, read : BOOLEAN]]
      /\ slot \in [Daemons -> Nonces]
  BY DEF Init, Digests, Nonces
<1>2. /\ rxd \in [Calls -> Seq(Request)] /\ rxc \in [Calls -> Seq(Frame)]
      /\ backlog \in [Daemons -> Seq(Calls)]
  BY EmptySeq DEF Init
<1>3. TypeOK
  BY <1>1, <1>2 DEF Init, TypeOK
<1> QED
  BY <1>3 DEF Init, TypeInv, ServesOne, Serving

\* In every behaviour of the daemon and its clients each variable keeps its
\* type: in particular, con is a call whenever tpmddaemon uses it and out is
\* a complete reply whenever reply_attest or reply_pica write it.
THEOREM TypeCorrect == Spec => []TypeOK
<1>1. TypeInv /\ [Next]_vars => TypeInv'
  BY TypeInvStep
<1>2. TypeInv => TypeOK
  BY DEF TypeInv
<1>3. Init => TypeInv
  BY TypeInvInit
<1> QED
  BY <1>1, <1>2, <1>3, PTL DEF Spec
-----------------------------------------------------------------------------
(* Names and connections.                                                  *)

\* A connection that waits for accept leads to the daemon it waits for, and one
\* that was accepted was made.
Queued ==
    /\ \A c \in accepted : peer[c] \in Daemons /\ cst[c] # "new" /\ dpc[peer[c]] # "off"
    /\ \A d \in Daemons : \A i \in 1..Len(backlog[d]) :
          peer[backlog[d][i]] = d /\ cst[backlog[d][i]] # "new"

ServedInv == TypeInv /\ Queued /\ NoneAbandoned

\* A step of a client that already has its connection, or gets none.
LEMMA ClientProgress ==
  ASSUME TypeOK, NEW c \in Calls, ConnectRefused(c) \/ ClientStep(c)
  PROVE  /\ UNCHANGED <<listenVars, loopVars>> /\ alive' \subseteq alive
         /\ \A b \in Calls :
               /\ cst'[b] = "new" => cst[b] = "new"
               /\ cst'[b] \in Asking => cst[b] \in Asking
<1>1. UNCHANGED <<listenVars, loopVars>>
  BY DEF ConnectRefused, ClientStep, SendHello, Send, SendKilled, RecvHead, RecvHeadReset,
         RecvBody, RecvEof
<1>2. ASSUME NEW st \in Returned, NEW r, NEW rx, Return(c, st, r, rx)
      PROVE  cst' = [cst EXCEPT ![c] = st] /\ alive' \subseteq alive
  BY <1>2 DEF Return, Terminate
<1>3. \/ UNCHANGED cst
      \/ \E st \in Returned : cst' = [cst EXCEPT ![c] = st]
      \/ cst[c] \in Asking /\ \E st \in Asking : cst' = [cst EXCEPT ![c] = st]
  <2>1. CASE ConnectRefused(c)
    BY <1>2, <2>1 DEF ConnectRefused, Returned
  <2>2. CASE SendHello(c)
    BY <2>2 DEF SendHello, Asking
  <2>3. CASE Send(c)
    BY <2>3 DEF Send, Ready, Asking
  <2>4. CASE SendKilled(c)
    BY <2>4 DEF SendKilled
  <2>5. CASE RecvHead(c)
    BY <1>2, <2>5 DEF RecvHead, TooLong, Returned, Asking
  <2>6. CASE RecvHeadReset(c)
    BY <1>2, <2>6 DEF RecvHeadReset, TooLong, Returned
  <2>7. CASE RecvBody(c)
    BY <1>2, <2>7 DEF RecvBody, Returned
  <2>8. CASE RecvEof(c)
    BY <1>2, <2>8 DEF RecvEof, Returned
  <2> QED
    BY <2>1, <2>2, <2>3, <2>4, <2>5, <2>6, <2>7, <2>8 DEF ClientStep
<1>4. alive' \subseteq alive
  <2>1. CASE ConnectRefused(c)
    BY <1>2, <2>1 DEF ConnectRefused, Returned
  <2>2. CASE SendHello(c) \/ Send(c) \/ SendKilled(c)
    BY <2>2 DEF SendHello, Send, SendKilled, Terminate
  <2>3. CASE RecvHead(c) \/ RecvHeadReset(c)
    BY <1>2, <2>3 DEF RecvHead, RecvHeadReset, TooLong, Returned
  <2>4. CASE RecvBody(c) \/ RecvEof(c)
    BY <1>2, <2>4 DEF RecvBody, RecvEof, Returned
  <2> QED
    BY <2>1, <2>2, <2>3, <2>4 DEF ClientStep
<1> QED
  BY <1>1, <1>3, <1>4 DEF TypeOK, Asking, Returned

\* Whatever does not give or take connections, and starts no call.
LEMMA ServedQuiet ==
  ASSUME ServedInv, UNCHANGED <<accepted, peer, backlog, con>>, alive' \subseteq alive,
         \A b \in Calls : /\ cst'[b] = "new" => cst[b] = "new"
                          /\ cst'[b] \in Asking => cst[b] \in Asking,
         \A d \in Daemons : \/ dpc'[d] = dpc[d] \/ dpc'[d] \in Gone
                            \/ /\ dpc[d] \in {"read", "head", "body"}
                               /\ dpc'[d] \in {"read", "head", "body", "hung"}
  PROVE  Queued' /\ NoneAbandoned'
<1>1. accepted' = accepted /\ peer' = peer /\ backlog' = backlog
  OBVIOUS
<1>2. accepted \subseteq Calls /\ \A d \in Daemons : backlog[d] \in Seq(Calls)
  BY DEF ServedInv, TypeInv, TypeOK
<1>3. \A d \in Daemons : \A i \in 1..Len(backlog[d]) : backlog[d][i] \in Calls
  BY <1>2, ElementOfSeq
<1>4. Queued'
  BY <1>1, <1>2, <1>3 DEF ServedInv, Queued, Gone
<1>5. NoneAbandoned'
  <2>1. SUFFICES ASSUME NEW c \in accepted, InProgress(c)', dpc'[peer[c]] \notin Gone
                 PROVE  con[peer[c]] = c /\ dpc'[peer[c]] # "accept"
    BY <1>1 DEF NoneAbandoned
  <2>2. InProgress(c) /\ peer[c] \in Daemons
    BY <1>2, <2>1 DEF ServedInv, Queued, InProgress, ClientClosed
  <2> QED
    BY <2>1, <2>2 DEF ServedInv, NoneAbandoned, Gone
<1> QED
  BY <1>4, <1>5

LEMMA ServedConnect ==
  ASSUME ServedInv, NEW c \in Calls, Connect(c)
  PROVE  Queued' /\ NoneAbandoned'
<1>1. /\ cst[c] = "new" /\ cst' = [cst EXCEPT ![c] = "connected"]
      /\ path \in Daemons /\ peer' = [peer EXCEPT ![c] = path]
      /\ backlog' = [backlog EXCEPT ![path] = Append(@, c)]
      /\ UNCHANGED <<alive, accepted, loopVars>>
  BY DEF Connect
<1>2. /\ accepted \subseteq Calls /\ \A d \in Daemons : backlog[d] \in Seq(Calls)
      /\ cst \in [Calls -> {"new"} \cup Asking \cup Returned]
      /\ peer \in [Calls -> Daemons \cup {None}] /\ backlog \in [Daemons -> Seq(Calls)]
  BY DEF ServedInv, TypeInv, TypeOK
<1>3. c \notin accepted /\ \A d \in Daemons : \A i \in 1..Len(backlog[d]) : backlog[d][i] # c
  BY <1>1 DEF ServedInv, Queued
<1>4. \A d \in Daemons : \A i \in 1..Len(backlog[d]) : backlog[d][i] \in Calls
  BY <1>2, ElementOfSeq
<1>5. \A b \in Calls \ {c} : cst'[b] = cst[b] /\ peer'[b] = peer[b]
  BY <1>1, <1>2
<1>6. cst'[c] = "connected" /\ peer'[c] = path
  BY <1>1, <1>2
<1>7. ASSUME NEW d \in Daemons, NEW i \in 1..Len(backlog'[d])
      PROVE  peer'[backlog'[d][i]] = d /\ cst'[backlog'[d][i]] # "new"
  <2>1. CASE d # path
    <3>1. backlog'[d] = backlog[d]
      BY <1>1, <1>2, <2>1
    <3> QED
      BY <1>3, <1>4, <1>5, <1>7, <3>1 DEF ServedInv, Queued
  <2>2. CASE d = path
    <3>1. backlog'[d] = Append(backlog[d], c)
      BY <1>1, <1>2, <2>2
    <3>2. /\ Len(backlog'[d]) = Len(backlog[d]) + 1 /\ Len(backlog[d]) \in Nat
          /\ \A j \in 1..Len(backlog[d]) : backlog'[d][j] = backlog[d][j]
          /\ backlog'[d][Len(backlog[d]) + 1] = c
      BY <1>2, <3>1, AppendProperties, LenProperties
    <3>3. CASE i \in 1..Len(backlog[d])
      BY <1>3, <1>4, <1>5, <3>2, <3>3 DEF ServedInv, Queued
    <3>4. CASE i = Len(backlog[d]) + 1
      BY <1>6, <2>2, <3>2, <3>4
    <3> QED
      BY <1>7, <3>2, <3>3, <3>4
  <2> QED
    BY <2>1, <2>2
<1>8. Queued'
  BY <1>1, <1>2, <1>3, <1>5, <1>7 DEF ServedInv, Queued, loopVars
<1>9. NoneAbandoned'
  <2>1. SUFFICES ASSUME NEW b \in accepted, InProgress(b)', dpc[peer'[b]] \notin Gone
                 PROVE  con[peer'[b]] = b /\ dpc[peer'[b]] # "accept"
    BY <1>1 DEF NoneAbandoned, loopVars
  <2>2. b \in Calls \ {c}
    BY <1>2, <1>3
  <2>3. InProgress(b) /\ peer'[b] = peer[b]
    BY <1>1, <1>5, <2>1, <2>2 DEF InProgress, ClientClosed
  <2> QED
    BY <2>1, <2>3 DEF ServedInv, NoneAbandoned
<1> QED
  BY <1>8, <1>9

\* The connection at the head of the queue is the only one that daemon d has
\* accepted and that is still in progress.
LEMMA ServedAccept ==
  ASSUME ServedInv, NEW d \in Daemons, Accept(d)
  PROVE  Queued' /\ NoneAbandoned'
<1> DEFINE c == Head(backlog[d])
<1>1. /\ dpc[d] = "accept" /\ backlog[d] # <<>>
      /\ con' = [con EXCEPT ![d] = c] /\ accepted' = accepted \cup {c}
      /\ backlog' = [backlog EXCEPT ![d] = Tail(@)]
      /\ dpc' = [dpc EXCEPT ![d] = "read"]
      /\ UNCHANGED <<alive, cst, peer>>
  BY DEF Accept, procVars
<1>2. /\ accepted \subseteq Calls /\ backlog \in [Daemons -> Seq(Calls)]
      /\ con \in [Daemons -> Calls \cup {None}] /\ DOMAIN dpc = Daemons
  BY DEF ServedInv, TypeInv, TypeOK
<1>3. /\ c \in Calls /\ c = backlog[d][1] /\ 1 \in 1..Len(backlog[d])
      /\ Len(Tail(backlog[d])) = Len(backlog[d]) - 1 /\ Len(backlog[d]) \in Nat
      /\ \A i \in 1..Len(Tail(backlog[d])) : Tail(backlog[d])[i] = backlog[d][i + 1]
  <2>1. backlog[d] \in Seq(Calls)
    BY <1>2
  <2>2. Len(backlog[d]) \in Nat \ {0}
    BY <1>1, <2>1, EmptySeq
  <2> QED
    BY <1>1, <2>1, <2>2, HeadTailProperties
<1>4. peer[c] = d /\ cst[c] # "new"
  BY <1>3 DEF ServedInv, Queued
<1> HIDE DEF c
<1>5. ASSUME NEW e \in Daemons, NEW i \in 1..Len(backlog'[e])
      PROVE  peer[backlog'[e][i]] = e /\ cst[backlog'[e][i]] # "new"
  <2>1. CASE e # d
    BY <1>1, <1>2, <1>5, <2>1 DEF ServedInv, Queued
  <2>2. CASE e = d
    <3>1. backlog'[e] = Tail(backlog[d])
      BY <1>1, <1>2, <2>2
    <3>2. i + 1 \in 1..Len(backlog[d]) /\ backlog'[e][i] = backlog[d][i + 1]
      BY <1>3, <1>5, <3>1
    <3> QED
      BY <2>2, <3>2 DEF ServedInv, Queued
  <2> QED
    BY <2>1, <2>2
<1>6. Queued'
  <2>1. \A b \in accepted : peer[b] \in Daemons /\ cst[b] # "new" /\ dpc[peer[b]] # "off"
    BY DEF ServedInv, Queued
  <2>2. \A e \in Daemons : dpc[e] # "off" => dpc'[e] # "off"
    BY <1>1, <1>2
  <2>3. dpc'[d] # "off"
    BY <1>1, <1>2
  <2>4. \A b \in accepted' :
          peer'[b] \in Daemons /\ cst'[b] # "new" /\ dpc'[peer'[b]] # "off"
    BY <1>1, <1>4, <2>1, <2>2, <2>3
  <2>5. \A e \in Daemons : \A i \in 1..Len(backlog'[e]) :
          peer'[backlog'[e][i]] = e /\ cst'[backlog'[e][i]] # "new"
    BY <1>1, <1>5
  <2> QED
    BY <2>4, <2>5 DEF Queued
<1>7. NoneAbandoned'
  <2>1. SUFFICES ASSUME NEW b \in accepted \cup {c}, InProgress(b), dpc'[peer[b]] \notin Gone
                 PROVE  con'[peer[b]] = b /\ dpc'[peer[b]] # "accept"
    BY <1>1 DEF NoneAbandoned, InProgress, ClientClosed
  <2>2. CASE b = c
    BY <1>1, <1>2, <1>4, <2>2
  <2>3. CASE b # c
    <3>1. b \in accepted /\ peer[b] \in Daemons
      BY <2>1, <2>3 DEF ServedInv, Queued
    <3>2. CASE peer[b] = d
      BY <1>1, <2>1, <3>1, <3>2 DEF ServedInv, NoneAbandoned, Gone
    <3>3. CASE peer[b] # d
      BY <1>1, <1>2, <2>1, <3>1, <3>3 DEF ServedInv, NoneAbandoned
    <3> QED
      BY <3>2, <3>3
  <2> QED
    BY <2>2, <2>3
<1> QED
  BY <1>6, <1>7

\* A daemon that turns to the next connection has lost the peer of this one.
LEMMA ServedTurns ==
  ASSUME ServedInv, NEW d \in Daemons, dpc[d] = "read", ClientClosed(con[d]),
         dpc' = [dpc EXCEPT ![d] = "accept"],
         UNCHANGED <<alive, cst, accepted, peer, backlog, con>>
  PROVE  Queued' /\ NoneAbandoned'
<1>1. UNCHANGED <<alive, cst, accepted, peer, backlog>>
  OBVIOUS
<1>2. DOMAIN dpc = Daemons
  BY DEF ServedInv, TypeInv, TypeOK
<1>3. Queued'
  BY <1>1, <1>2 DEF ServedInv, Queued
<1>4. NoneAbandoned'
  <2>1. SUFFICES ASSUME NEW b \in accepted, InProgress(b), dpc'[peer[b]] \notin Gone
                 PROVE  con[peer[b]] = b /\ dpc'[peer[b]] # "accept"
    BY <1>1 DEF NoneAbandoned, InProgress, ClientClosed
  <2>2. peer[b] \in Daemons
    BY DEF ServedInv, Queued
  <2>3. CASE peer[b] = d
    <3>1. con[d] = b
      BY <2>1, <2>3 DEF ServedInv, NoneAbandoned, Gone
    <3> QED
      BY <2>1, <3>1 DEF InProgress
  <2>4. CASE peer[b] # d
    BY <1>2, <2>1, <2>2, <2>4 DEF ServedInv, NoneAbandoned
  <2> QED
    BY <2>3, <2>4
<1> QED
  BY <1>3, <1>4


\* The name is bound before the first connection is accepted.
LEMMA ServedStart ==
  ASSUME ServedInv, NEW d \in Daemons, Start(d)
  PROVE  Queued' /\ NoneAbandoned'
<1>1. /\ dpc[d] = "off" /\ dpc' = [dpc EXCEPT ![d] = "accept"]
      /\ UNCHANGED <<alive, cst, accepted, peer, backlog, con>>
  BY DEF Start, procVars
<1>2. DOMAIN dpc = Daemons
  BY DEF ServedInv, TypeInv, TypeOK
<1>3. \A b \in accepted : peer[b] \in Daemons \ {d}
  BY <1>1 DEF ServedInv, Queued
<1>4. \A b \in accepted : dpc'[peer[b]] = dpc[peer[b]]
  BY <1>1, <1>2, <1>3
<1>5. Queued'
  BY <1>1, <1>4 DEF ServedInv, Queued
<1>6. NoneAbandoned'
  BY <1>1, <1>4 DEF ServedInv, NoneAbandoned, InProgress, ClientClosed
<1> QED
  BY <1>5, <1>6

\* What a step of a daemon is for its connections.
LEMMA DaemonTurns ==
  ASSUME TypeInv, NEW d \in Daemons,
         StartFails(d) \/ Kill(d) \/ DaemonStep(d)
  PROVE  /\ UNCHANGED <<alive, cst, peer>>
         /\ \/ Accept(d)
            \/ /\ dpc[d] = "read" /\ ClientClosed(con[d])
               /\ dpc' = [dpc EXCEPT ![d] = "accept"]
               /\ UNCHANGED <<accepted, backlog, con>>
            \/ /\ UNCHANGED <<accepted, backlog, con>>
               /\ \/ UNCHANGED dpc
                  \/ \E x \in Gone : dpc' = [dpc EXCEPT ![d] = x]
                  \/ /\ dpc[d] \in {"read", "head", "body"}
                     /\ \E x \in {"read", "head", "body", "hung"} :
                           dpc' = [dpc EXCEPT ![d] = x]
<1> USE DEF procVars, chanVars, listenVars, loopVars
<1>1. CASE StartFails(d)
  BY <1>1 DEF StartFails, Gone
<1>2. CASE Kill(d)
  BY <1>2 DEF Kill, Stop, Gone
<1>3. CASE Accept(d)
  BY <1>3 DEF Accept
<1>4. CASE AcceptFails(d)
  BY <1>4 DEF AcceptFails, Stop, Gone
<1>5. CASE ReadHello(d)
  BY <1>5 DEF ReadHello
<1>6. CASE ReadRequest(d)
  BY <1>6 DEF ReadRequest, MakeReply
<1>7. CASE ReadHangs(d)
  BY <1>7 DEF ReadHangs
<1>8. CASE ReadEof(d)
  BY <1>8 DEF ReadEof
<1>9. CASE ReadReset(d)
  BY <1>9 DEF ReadReset, Stop, MakeReply, Gone
<1>10. CASE WriteHead(d)
  BY <1>10 DEF WriteHead
<1>11. CASE WriteBody(d)
  BY <1>11 DEF WriteBody
<1>12. CASE WriteKilled(d)
  BY <1>12 DEF WriteKilled, Stop, Gone
<1> QED
  BY <1>1, <1>2, <1>3, <1>4, <1>5, <1>6, <1>7, <1>8, <1>9, <1>10, <1>11, <1>12 DEF DaemonStep

LEMMA ServedDaemon ==
  ASSUME ServedInv, NEW d \in Daemons, StartFails(d) \/ Kill(d) \/ DaemonStep(d)
  PROVE  Queued' /\ NoneAbandoned'
<1>1. DOMAIN dpc = Daemons
  BY DEF ServedInv, TypeInv, TypeOK
<1>2. UNCHANGED <<alive, cst, peer>>
  BY DaemonTurns DEF ServedInv
<1>3. CASE Accept(d)
  BY <1>3, ServedAccept
<1>4. CASE /\ dpc[d] = "read" /\ ClientClosed(con[d])
           /\ dpc' = [dpc EXCEPT ![d] = "accept"]
           /\ UNCHANGED <<accepted, backlog, con>>
  BY <1>2, <1>4, ServedTurns
<1>5. CASE /\ UNCHANGED <<accepted, backlog, con>>
           /\ \/ UNCHANGED dpc
              \/ \E x \in Gone : dpc' = [dpc EXCEPT ![d] = x]
              \/ /\ dpc[d] \in {"read", "head", "body"}
                 /\ \E x \in {"read", "head", "body", "hung"} : dpc' = [dpc EXCEPT ![d] = x]
  <2>1. \A e \in Daemons : \/ dpc'[e] = dpc[e] \/ dpc'[e] \in Gone
                           \/ /\ dpc[e] \in {"read", "head", "body"}
                              /\ dpc'[e] \in {"read", "head", "body", "hung"}
    BY <1>1, <1>5
  <2> QED
    BY <1>2, <1>5, <2>1, ServedQuiet
<1> QED
  BY <1>3, <1>4, <1>5, DaemonTurns DEF ServedInv

LEMMA ServedStep ==
  ASSUME ServedInv, [Next]_vars
  PROVE  ServedInv'
<1> SUFFICES Queued' /\ NoneAbandoned'
  BY TypeInvStep DEF ServedInv
<1>1. ASSUME NEW c \in Calls, Connect(c) PROVE Queued' /\ NoneAbandoned'
  BY <1>1, ServedConnect
<1>2. ASSUME NEW c \in Calls, ConnectRefused(c) \/ ClientStep(c)
      PROVE  Queued' /\ NoneAbandoned'
  <2>1. /\ UNCHANGED <<listenVars, loopVars>> /\ alive' \subseteq alive
        /\ \A b \in Calls : /\ cst'[b] = "new" => cst[b] = "new"
                            /\ cst'[b] \in Asking => cst[b] \in Asking
    BY <1>2, ClientProgress DEF ServedInv, TypeInv
  <2>2. UNCHANGED <<accepted, peer, backlog, con, dpc>>
    BY <2>1 DEF listenVars, loopVars
  <2> QED
    BY <2>1, <2>2, ServedQuiet
<1>3. ASSUME NEW p \in Procs, Exit(p) \/ Crash(p)
      PROVE  Queued' /\ NoneAbandoned'
  <2>1. alive' \subseteq alive /\ UNCHANGED <<cst, listenVars, loopVars>>
    BY <1>3, ProcessStep
  <2>2. UNCHANGED <<accepted, peer, backlog, con, dpc, cst>>
    BY <2>1 DEF listenVars, loopVars
  <2> QED
    BY <2>1, <2>2, ServedQuiet
<1>4. ASSUME NEW d \in Daemons, Start(d) PROVE Queued' /\ NoneAbandoned'
  BY <1>4, ServedStart
<1>5. ASSUME NEW d \in Daemons, StartFails(d) \/ Kill(d) \/ DaemonStep(d)
      PROVE  Queued' /\ NoneAbandoned'
  BY <1>5, ServedDaemon
<1>6. CASE UNCHANGED vars
  <2>1. UNCHANGED <<accepted, peer, backlog, con, dpc, cst, alive>>
    BY <1>6 DEF vars, procVars, listenVars, loopVars
  <2>2. /\ alive' \subseteq alive
        /\ \A b \in Calls : /\ cst'[b] = "new" => cst[b] = "new"
                            /\ cst'[b] \in Asking => cst[b] \in Asking
    BY <2>1
  <2>3. \A d \in Daemons : dpc'[d] = dpc[d]
    BY <2>1
  <2> QED
    BY <2>1, <2>2, <2>3, ServedQuiet
<1> QED
  BY <1>1, <1>2, <1>3, <1>4, <1>5, <1>6 DEF Next

\* In the initial state nobody is connected.
LEMMA ServedInit ==
  ASSUME Init
  PROVE  ServedInv
<1>1. Queued /\ NoneAbandoned
  BY EmptySeq DEF Init, Queued, NoneAbandoned
<1> QED
  BY <1>1, TypeInvInit DEF ServedInv

\* A daemon serves the connection it has accepted until its peer goes
\* (NoneAbandoned), however many wait and whatever is killed.
THEOREM NotAbandonedCorrect == Spec => []NoneAbandoned
<1>1. Init => ServedInv
  BY ServedInit
<1>2. ServedInv /\ [Next]_vars => ServedInv'
  BY ServedStep
<1>3. ServedInv => NoneAbandoned
  BY DEF ServedInv
<1> QED
  BY <1>1, <1>2, <1>3, PTL DEF Spec

\* A name that leads to no daemon was left by one that was killed
\* (DeadNameWasKilled): every other way out of tpmddaemon unlinks it.
THEOREM DeadNameCorrect == Spec => []DeadNameWasKilled
<1> DEFINE Inv == TypeInv /\ DeadNameWasKilled
<1>1. Init => Inv
  <2>1. Init => DeadNameWasKilled
    BY ConstantsAssumption DEF Init, DeadNameWasKilled
  <2> QED
    BY <2>1, TypeInvInit
<1>2. Inv /\ [Next]_vars => Inv'
  <2> SUFFICES ASSUME Inv, [Next]_vars PROVE DeadNameWasKilled'
    BY TypeInvStep
  <2> USE DEF procVars, chanVars, listenVars, loopVars
  <2>1. DOMAIN dpc = Daemons
    BY DEF TypeInv, TypeOK
  <2>2. None \notin Daemons
    BY ConstantsAssumption
  <2>3. CASE UNCHANGED <<path, dpc>>
    BY <2>3 DEF DeadNameWasKilled
  <2>4. ASSUME NEW d \in Daemons, path' = path,
               \E x \in {"accept", "read", "head", "body", "hung", "killed"} :
                  dpc' = [dpc EXCEPT ![d] = x]
        PROVE  DeadNameWasKilled'
    BY <2>1, <2>4 DEF DeadNameWasKilled, Gone
  <2>5. ASSUME NEW d \in Daemons,
               Start(d) \/ StartFails(d) \/ AcceptFails(d)
        PROVE  DeadNameWasKilled'
    BY <2>1, <2>2, <2>5 DEF Start, StartFails, AcceptFails, DeadNameWasKilled, Gone
  <2>6. ASSUME NEW d \in Daemons, Accept(d) \/ ReadHello(d) \/ ReadRequest(d) \/ ReadHangs(d)
        PROVE  DeadNameWasKilled'
    BY <2>3, <2>4, <2>6 DEF Accept, ReadHello, ReadRequest, ReadHangs, MakeReply
  <2>7. ASSUME NEW d \in Daemons, ReadEof(d) \/ ReadReset(d)
        PROVE  DeadNameWasKilled'
    BY <2>3, <2>4, <2>7 DEF ReadEof, ReadReset, Stop, MakeReply
  <2>8. ASSUME NEW d \in Daemons, WriteHead(d) \/ WriteBody(d) \/ WriteKilled(d) \/ Kill(d)
        PROVE  DeadNameWasKilled'
    BY <2>3, <2>4, <2>8 DEF WriteHead, WriteBody, WriteKilled, Kill, Stop
  <2>9. ASSUME NEW c \in Calls, Connect(c) \/ ConnectRefused(c) \/ ClientStep(c)
        PROVE  DeadNameWasKilled'
    <3>1. UNCHANGED loopVars
      BY <2>9, ClientKeepsLoop
    <3>2. path' = path
      BY <2>9, ClientProgress DEF Connect, TypeInv
    <3> QED
      BY <2>3, <3>1, <3>2
  <2>10. ASSUME NEW p \in Procs, Exit(p) \/ Crash(p)
         PROVE  DeadNameWasKilled'
    BY <2>3, <2>10, ProcessStep
  <2>11. CASE UNCHANGED vars
    BY <2>3, <2>11 DEF vars
  <2> QED
    BY <2>5, <2>6, <2>7, <2>8, <2>9, <2>10, <2>11 DEF Next, DaemonStep
<1>3. Inv => DeadNameWasKilled
  OBVIOUS
<1> QED
  BY <1>1, <1>2, <1>3, PTL DEF Spec

-----------------------------------------------------------------------------
(* Header and payload.                                                     *)

\* What may be on its way to a client.
NoPart(s)   == Len(s) = 0
JustHead(s) == Len(s) = 1 /\ s[1].part = "head"
JustBody(s) == Len(s) = 1 /\ s[1].part = "body"
HeadBody(s) == Len(s) = 2 /\ s[1].part = "head" /\ s[2].part = "body"

\* InStep, for one call.
Shaped(c) ==
    /\ cst[c] \in {"new", "connected", "greeted", "ok"} => NoPart(rxc[c])
    /\ cst[c] = "sent" => NoPart(rxc[c]) \/ JustHead(rxc[c]) \/ HeadBody(rxc[c])
    /\ cst[c] = "body" => NoPart(rxc[c]) \/ JustBody(rxc[c])

\* A daemon serves a connection that leads to it: no two write to one client.
Serves ==
    \A d \in Daemons : dpc[d] \in {"read", "head", "body"} =>
        con[d] \in accepted /\ peer[con[d]] = d

Writer(d, c) == con[d] = c /\ dpc[d] \in {"head", "body"}

\* While a client waits, its request is somewhere between the two: it is the last
\* packet on the way to the daemon, or a reply to it is being written.
Tracked(c) ==
    ~ClientClosed(c) /\ cst[c] \notin {"fail", "void"} =>
        /\ \A i \in 1..Len(rxd[c]) : rxd[c][i].cmd # "hello" =>
              /\ i = Len(rxd[c])
              /\ cst[c] = "sent" /\ NoPart(rxc[c])
              /\ \A d \in Daemons : ~Writer(d, c)
        /\ \A d \in Daemons : Writer(d, c) /\ dpc[d] = "head" =>
              cst[c] = "sent" /\ NoPart(rxc[c])
        /\ \A d \in Daemons : Writer(d, c) /\ dpc[d] = "body" =>
              \/ cst[c] = "sent" /\ JustHead(rxc[c])
              \/ cst[c] = "body" /\ NoPart(rxc[c])

Steady(c) == Shaped(c) /\ Tracked(c)

StepInv == ServedInv /\ Serves /\ \A c \in Calls : Steady(c)

LEMMA ShapesAreParts ==
  ASSUME NEW s, NEW parts, parts = [i \in 1..Len(s) |-> s[i].part]
  PROVE  /\ NoPart(s) => parts = <<>>
         /\ JustHead(s) => parts = <<"head">>
         /\ JustBody(s) => parts = <<"body">>
         /\ HeadBody(s) => parts = <<"head", "body">>
<1>1. CASE NoPart(s)
  BY <1>1 DEF NoPart, JustHead, JustBody, HeadBody
<1>2. CASE Len(s) = 1
  BY <1>2 DEF NoPart, JustHead, JustBody, HeadBody
<1>3. CASE Len(s) = 2
  BY <1>3 DEF NoPart, JustHead, JustBody, HeadBody
<1> QED
  BY <1>1, <1>2, <1>3 DEF NoPart, JustHead, JustBody, HeadBody

LEMMA SteadyInStep ==
  ASSUME TypeOK, \A c \in Calls : Steady(c)
  PROVE  InStep
<1> SUFFICES ASSUME NEW c \in Calls, NEW parts,
                    parts = [i \in 1..Len(rxc[c]) |-> rxc[c][i].part]
             PROVE  CASE cst[c] \in {"new", "connected", "greeted", "ok"} -> parts = <<>>
                      [] cst[c] = "sent" -> parts \in {<<>>, <<"head">>, <<"head", "body">>}
                      [] cst[c] = "body" -> parts \in {<<>>, <<"body">>}
                      [] OTHER -> TRUE
  BY DEF InStep
<1>1. /\ NoPart(rxc[c]) => parts = <<>>
      /\ JustHead(rxc[c]) => parts = <<"head">>
      /\ JustBody(rxc[c]) => parts = <<"body">>
      /\ HeadBody(rxc[c]) => parts = <<"head", "body">>
  BY ShapesAreParts
<1>2. Shaped(c)
  BY DEF Steady
<1>3. CASE cst[c] \in {"new", "connected", "greeted", "ok"}
  <2>1. parts = <<>>
    BY <1>1, <1>2, <1>3 DEF Shaped
  <2> QED
    BY <1>3, <2>1
<1>4. CASE cst[c] = "sent"
  <2>1. parts \in {<<>>, <<"head">>, <<"head", "body">>}
    BY <1>1, <1>2, <1>4 DEF Shaped
  <2> QED
    BY <1>4, <2>1
<1>5. CASE cst[c] = "body"
  <2>1. parts \in {<<>>, <<"body">>}
    BY <1>1, <1>2, <1>5 DEF Shaped
  <2> QED
    BY <1>5, <2>1
<1>6. CASE cst[c] \notin {"new", "connected", "greeted", "ok", "sent", "body"}
  BY <1>6
<1> QED
  BY <1>3, <1>4, <1>5, <1>6

\* A call about which nothing happens.
LEMMA SteadyStays ==
  ASSUME NEW c \in Calls, Steady(c),
         cst'[c] = cst[c], rxd'[c] = rxd[c], rxc'[c] = rxc[c], alive' \subseteq alive,
         \A d \in Daemons : Writer(d, c)' => Writer(d, c) /\ dpc'[d] = dpc[d]
  PROVE  Steady(c)'
<1>1. Shaped(c)'
  BY DEF Steady, Shaped, NoPart, JustHead, JustBody, HeadBody
<1>2. Tracked(c)'
  BY DEF Steady, Tracked, ClientClosed, NoPart, JustHead
<1> QED
  BY <1>1, <1>2 DEF Steady

\* A packet that is not the request has been read, or a request of a call that
\* nobody waits for.
LEMMA SteadyRead ==
  ASSUME NEW c \in Calls, Steady(c), rxd[c] \in Seq(Request), rxd[c] # <<>>,
         cst'[c] = cst[c], rxd'[c] = Tail(rxd[c]), rxc'[c] = rxc[c], alive' \subseteq alive,
         \A d \in Daemons : Writer(d, c)' => Writer(d, c) /\ dpc'[d] = dpc[d]
  PROVE  Steady(c)'
<1>1. Shaped(c)'
  BY DEF Steady, Shaped, NoPart, JustHead, JustBody, HeadBody
<1>2. /\ Len(rxd[c]) \in Nat /\ Len(rxd'[c]) = Len(rxd[c]) - 1
      /\ \A i \in 1..Len(rxd'[c]) : i + 1 \in 1..Len(rxd[c]) /\ rxd'[c][i] = rxd[c][i + 1]
  BY HeadTailProperties, LenProperties
<1>3. Tracked(c)'
  BY <1>2 DEF Steady, Tracked, ClientClosed, NoPart, JustHead
<1> QED
  BY <1>1, <1>3 DEF Steady

\* Nothing is known of a call that has failed.
LEMMA SteadyFailed ==
  ASSUME NEW c \in Calls, cst'[c] \in {"fail", "void"}
  PROVE  Steady(c)'
BY DEF Steady, Shaped, Tracked

LEMMA SendSteady ==
  ASSUME StepInv, NEW c \in Calls, SendHello(c) \/ Send(c)
  PROVE  Steady(c)'
<1>1. /\ cst[c] \in {"connected", "greeted"} /\ ~ClientClosed(c)
      /\ UNCHANGED <<alive, rxc, dpc, con>>
  BY DEF SendHello, Send, Ready, loopVars
<1>2. PICK k \in {"hello", "attest", "pica"} :
         /\ rxd' = [rxd EXCEPT ![c] = Append(@, [cmd |-> k, nonce |-> c])]
         /\ k # "hello" => cst' = [cst EXCEPT ![c] = "sent"]
         /\ k = "hello" => cst' = [cst EXCEPT ![c] = "greeted"]
  BY DEF SendHello, Send
<1>3. /\ rxd \in [Calls -> Seq(Request)] /\ [cmd |-> k, nonce |-> c] \in Request
      /\ DOMAIN cst = Calls
  BY RequestType DEF StepInv, ServedInv, TypeInv, TypeOK
<1>4. Steady(c)
  BY DEF StepInv
<1>5. NoPart(rxc[c]) /\ \A d \in Daemons : ~Writer(d, c)
  BY <1>1, <1>4 DEF Steady, Shaped, Tracked, Writer
<1>6. \A i \in 1..Len(rxd[c]) : rxd[c][i].cmd = "hello"
  BY <1>1, <1>4 DEF Steady, Tracked
<1>7. /\ Len(rxd'[c]) = Len(rxd[c]) + 1 /\ Len(rxd[c]) \in Nat
      /\ \A i \in 1..Len(rxd[c]) : rxd'[c][i] = rxd[c][i]
      /\ rxd'[c][Len(rxd[c]) + 1] = [cmd |-> k, nonce |-> c]
  <2>1. rxd'[c] = Append(rxd[c], [cmd |-> k, nonce |-> c])
    BY <1>2, <1>3
  <2> QED
    BY <1>3, <2>1, AppendProperties, LenProperties
<1>8. \A d \in Daemons : ~Writer(d, c)'
  BY <1>1, <1>5 DEF Writer
<1>9. cst'[c] = IF k = "hello" THEN "greeted" ELSE "sent"
  BY <1>2, <1>3
<1>10. Shaped(c)'
  BY <1>1, <1>5, <1>9 DEF Shaped, NoPart
<1>11. ASSUME NEW i \in 1..Len(rxd'[c]), rxd'[c][i].cmd # "hello"
       PROVE  i = Len(rxd'[c]) /\ cst'[c] = "sent"
  <2>1. CASE i \in 1..Len(rxd[c])
    BY <1>6, <1>7, <1>11, <2>1
  <2>2. CASE i = Len(rxd[c]) + 1
    BY <1>7, <1>9, <1>11, <2>2
  <2> QED
    BY <1>7, <1>11, <2>1, <2>2
<1>12. Tracked(c)'
  BY <1>1, <1>5, <1>8, <1>11 DEF Tracked, NoPart
<1> QED
  BY <1>10, <1>12 DEF Steady

\* A client reads a header and waits for its payload, or reads its payload.
LEMMA RecvSteady ==
  ASSUME StepInv, NEW c \in Calls, ~ClientClosed(c), rxc[c] # <<>>,
         rxc' = [rxc EXCEPT ![c] = Tail(@)], UNCHANGED <<rxd, dpc, con>>,
         \/ cst[c] = "sent" /\ cst' = [cst EXCEPT ![c] = "body"]
         \/ cst[c] = "body" /\ cst' = [cst EXCEPT ![c] = "ok"]
  PROVE  Steady(c)'
<1>1. rxc \in [Calls -> Seq(Frame)] /\ DOMAIN cst = Calls
  BY DEF StepInv, ServedInv, TypeInv, TypeOK
<1>2. /\ rxc'[c] = Tail(rxc[c]) /\ Len(rxc[c]) \in Nat \ {0}
      /\ Len(rxc'[c]) = Len(rxc[c]) - 1
      /\ \A i \in 1..Len(rxc'[c]) : rxc'[c][i] = rxc[c][i + 1]
  BY <1>1, HeadTailProperties, EmptySeq
<1>3. Steady(c)
  BY DEF StepInv
<1>4. /\ \A i \in 1..Len(rxd[c]) : rxd[c][i].cmd = "hello"
      /\ \A d \in Daemons : ~(Writer(d, c) /\ dpc[d] = "head")
  BY <1>2, <1>3 DEF Steady, Tracked, NoPart
<1>5. CASE cst[c] = "sent" /\ cst' = [cst EXCEPT ![c] = "body"]
  <2>1. cst'[c] = "body"
    BY <1>1, <1>5
  <2>2. \/ JustHead(rxc[c]) /\ NoPart(rxc'[c])
        \/ HeadBody(rxc[c]) /\ JustBody(rxc'[c])
    BY <1>2, <1>3, <1>5 DEF Steady, Shaped, NoPart, JustHead, JustBody, HeadBody
  <2>3. \A d \in Daemons : Writer(d, c) => JustHead(rxc[c]) /\ dpc[d] = "body"
    BY <1>3, <1>4, <1>5 DEF Steady, Tracked, Writer
  <2>4. JustHead(rxc[c]) => ~HeadBody(rxc[c])
    BY DEF JustHead, HeadBody
  <2>5. \A d \in Daemons : Writer(d, c)' => Writer(d, c) /\ dpc'[d] = dpc[d]
    BY DEF Writer
  <2>6. Shaped(c)'
    BY <2>1, <2>2 DEF Shaped, NoPart, JustBody
  <2>7. Tracked(c)'
    BY <1>4, <2>1, <2>2, <2>3, <2>4, <2>5 DEF Tracked, NoPart
  <2> QED
    BY <2>6, <2>7 DEF Steady
<1>6. CASE cst[c] = "body" /\ cst' = [cst EXCEPT ![c] = "ok"]
  <2>1. cst'[c] = "ok"
    BY <1>1, <1>6
  <2>2. NoPart(rxc'[c])
    BY <1>2, <1>3, <1>6 DEF Steady, Shaped, NoPart, JustBody
  <2>3. \A d \in Daemons : ~Writer(d, c)
    BY <1>2, <1>3, <1>4, <1>6 DEF Steady, Tracked, Writer, NoPart
  <2>4. \A d \in Daemons : ~Writer(d, c)'
    BY <2>3 DEF Writer
  <2>5. Shaped(c)'
    BY <2>1, <2>2 DEF Shaped, NoPart
  <2>6. Tracked(c)'
    BY <1>4, <2>4 DEF Tracked
  <2> QED
    BY <2>5, <2>6 DEF Steady
<1> QED
  BY <1>5, <1>6

\* A step of a client leaves the other calls alone.
LEMMA OtherCalls ==
  ASSUME TypeOK, NEW c \in Calls, Connect(c) \/ ConnectRefused(c) \/ ClientStep(c)
  PROVE  /\ alive' \subseteq alive
         /\ \A b \in Calls \ {c} : cst'[b] = cst[b] /\ rxd'[b] = rxd[b] /\ rxc'[b] = rxc[b]
<1> USE DEF chanVars
<1>1. /\ DOMAIN cst = Calls /\ DOMAIN rxd = Calls /\ DOMAIN rxc = Calls
  BY DEF TypeOK
<1>2. alive' \subseteq alive
  <2>1. CASE Connect(c)
    BY <2>1 DEF Connect
  <2> QED
    BY <2>1, ClientProgress
<1>3. CASE Connect(c) \/ SendHello(c) \/ Send(c)
  BY <1>1, <1>2, <1>3 DEF Connect, SendHello, Send
<1>4. CASE ConnectRefused(c) \/ SendKilled(c)
  BY <1>1, <1>2, <1>4 DEF ConnectRefused, SendKilled, Return
<1>5. CASE RecvHead(c)
  BY <1>1, <1>2, <1>5 DEF RecvHead, Return
<1>6. CASE RecvHeadReset(c)
  BY <1>1, <1>2, <1>6 DEF RecvHeadReset, Return
<1>7. CASE RecvBody(c) \/ RecvEof(c)
  BY <1>1, <1>2, <1>7 DEF RecvBody, RecvEof, Return
<1> QED
  BY <1>3, <1>4, <1>5, <1>6, <1>7 DEF ClientStep

LEMMA ClientSteady ==
  ASSUME StepInv, NEW c \in Calls, Connect(c) \/ ConnectRefused(c) \/ ClientStep(c)
  PROVE  \A b \in Calls : Steady(b)'
<1>1. /\ UNCHANGED <<dpc, con>> /\ alive' \subseteq alive
      /\ \A b \in Calls \ {c} : cst'[b] = cst[b] /\ rxd'[b] = rxd[b] /\ rxc'[b] = rxc[b]
  BY ClientKeepsLoop, OtherCalls DEF loopVars, StepInv, ServedInv, TypeInv
<1>2. DOMAIN cst = Calls
  BY DEF StepInv, ServedInv, TypeInv, TypeOK
<1>3. \A b \in Calls, d \in Daemons : Writer(d, b)' => Writer(d, b) /\ dpc'[d] = dpc[d]
  BY <1>1 DEF Writer
<1>4. ASSUME NEW b \in Calls \ {c} PROVE Steady(b)'
  BY <1>1, <1>3, <1>4, SteadyStays DEF StepInv
<1>5. Steady(c)'
  <2>0. Steady(c)
    BY DEF StepInv
  <2>1. CASE Connect(c)
    <3>1. /\ cst[c] = "new" /\ ~ClientClosed(c) /\ cst'[c] = "connected"
          /\ UNCHANGED <<rxd, rxc>>
      BY <1>2, <2>1 DEF Connect, chanVars
    <3>2. \A i \in 1..Len(rxd[c]) : rxd[c][i].cmd = "hello"
      BY <2>0, <3>1 DEF Steady, Tracked
    <3>3. \A d \in Daemons : ~Writer(d, c)
      BY <2>0, <3>1 DEF Steady, Tracked, Writer
    <3>4. Shaped(c)'
      BY <2>0, <3>1 DEF Steady, Shaped, NoPart
    <3>5. Tracked(c)'
      BY <1>3, <3>1, <3>2, <3>3 DEF Tracked
    <3> QED
      BY <3>4, <3>5 DEF Steady
  <2>2. CASE SendHello(c) \/ Send(c)
    BY <2>2, SendSteady
  <2>3. CASE SendKilled(c)
    <3>1. cst' = cst /\ rxd' = rxd /\ rxc' = rxc
      BY <2>3 DEF SendKilled
    <3> QED
      BY <1>1, <1>3, <2>0, <3>1, SteadyStays
  <2>4. ASSUME NEW st \in {"fail", "void"}, NEW rx, Return(c, st, None, rx)
        PROVE  Steady(c)'
    BY <1>2, <2>4, SteadyFailed DEF Return
  <2>5. CASE ConnectRefused(c) \/ RecvEof(c)
    BY <2>4, <2>5 DEF ConnectRefused, RecvEof
  <2>6. CASE RecvHeadReset(c)
    BY <2>4, <2>6 DEF RecvHeadReset, TooLong
  <2>7. CASE RecvHead(c)
    <3>1. \/ \E st \in {"fail", "void"}, rx \in {[rxc EXCEPT ![c] = Tail(@)]} :
                Return(c, st, None, rx)
          \/ /\ cst' = [cst EXCEPT ![c] = "body"] /\ rxc' = [rxc EXCEPT ![c] = Tail(@)]
      BY <2>7 DEF RecvHead, TooLong
    <3>2. cst[c] = "sent" /\ ~ClientClosed(c) /\ rxc[c] # <<>> /\ rxd' = rxd
      BY <2>7 DEF RecvHead
    <3> QED
      BY <1>1, <2>4, <3>1, <3>2, RecvSteady
  <2>8. CASE RecvBody(c)
    <3>1. /\ cst[c] = "body" /\ ~ClientClosed(c) /\ rxc[c] # <<>> /\ rxd' = rxd
          /\ cst' = [cst EXCEPT ![c] = "ok"] /\ rxc' = [rxc EXCEPT ![c] = Tail(@)]
      BY <2>8 DEF RecvBody, Return
    <3> QED
      BY <1>1, <3>1, RecvSteady
  <2> QED
    BY <2>1, <2>2, <2>3, <2>5, <2>6, <2>7, <2>8 DEF ClientStep
<1> QED
  BY <1>4, <1>5

\* A daemon that stops, or turns to a connection, and reads nothing but what
\* does not ask for a reply.
LEMMA DaemonSteady ==
  ASSUME StepInv, NEW d \in Daemons, UNCHANGED <<alive, cst, rxc>>,
         \A e \in Daemons \ {d} : con'[e] = con[e] /\ dpc'[e] = dpc[e],
         dpc'[d] \notin {"head", "body"} \/ (dpc'[d] = dpc[d] /\ con'[d] = con[d]),
         \A c \in Calls : rxd'[c] = rxd[c] \/ (rxd[c] # <<>> /\ rxd'[c] = Tail(rxd[c]))
  PROVE  \A c \in Calls : Steady(c)'
<1> SUFFICES ASSUME NEW c \in Calls PROVE Steady(c)'
  OBVIOUS
<1>1. \A e \in Daemons : Writer(e, c)' => Writer(e, c) /\ dpc'[e] = dpc[e]
  BY DEF Writer
<1>2. Steady(c) /\ rxd[c] \in Seq(Request)
  BY DEF StepInv, ServedInv, TypeInv, TypeOK
<1>3. CASE rxd'[c] = rxd[c]
  BY <1>1, <1>2, <1>3, SteadyStays
<1>4. CASE rxd[c] # <<>> /\ rxd'[c] = Tail(rxd[c])
  BY <1>1, <1>2, <1>4, SteadyRead
<1> QED
  BY <1>3, <1>4

\* A request is taken: nothing is on its way, and nobody else answers it.
LEMMA TakeSteady ==
  ASSUME StepInv, NEW d \in Daemons, NEW c \in Calls, con[d] = c,
         dpc[d] = "read", rxd[c] # <<>>, Head(rxd[c]).cmd \in {"attest", "pica"},
         rxd' = [rxd EXCEPT ![c] = Tail(@)], dpc' = [dpc EXCEPT ![d] = "head"],
         UNCHANGED <<alive, cst, rxc, con>>
  PROVE  \A b \in Calls : Steady(b)'
<1>2. rxd \in [Calls -> Seq(Request)] /\ DOMAIN dpc = Daemons
  BY DEF StepInv, ServedInv, TypeInv, TypeOK
<1>3. /\ Len(rxd[c]) \in Nat \ {0} /\ rxd[c][1].cmd # "hello"
      /\ rxd'[c] = Tail(rxd[c]) /\ Len(rxd'[c]) = Len(rxd[c]) - 1
  <2>1. Head(rxd[c]) = rxd[c][1]
    BY <1>2
  <2> QED
    BY <1>2, <2>1, EmptySeq, HeadTailProperties
<1>4. ASSUME NEW b \in Calls \ {c} PROVE Steady(b)'
  <2>1. \A e \in Daemons : Writer(e, b)' => Writer(e, b) /\ dpc'[e] = dpc[e]
    BY <1>2, <1>4 DEF Writer
  <2>2. rxd'[b] = rxd[b]
    BY <1>2, <1>4
  <2> QED
    BY <1>4, <2>1, <2>2, SteadyStays DEF StepInv
<1>5. Steady(c)'
  <2>0. Steady(c)
    BY <1>2 DEF StepInv
  <2>1. Shaped(c)'
    BY <2>0 DEF Steady, Shaped, NoPart, JustHead, JustBody, HeadBody
  <2>2. ASSUME ~ClientClosed(c), cst[c] \notin {"fail", "void"}
        PROVE  /\ Len(rxd'[c]) = 0
               /\ cst[c] = "sent" /\ NoPart(rxc[c])
               /\ \A e \in Daemons : ~Writer(e, c)
    <3>1. 1 \in 1..Len(rxd[c])
      BY <1>3
    <3>2. /\ 1 = Len(rxd[c]) /\ cst[c] = "sent" /\ NoPart(rxc[c])
          /\ \A e \in Daemons : ~Writer(e, c)
      BY <1>3, <2>0, <2>2, <3>1 DEF Steady, Tracked
    <3> QED
      BY <1>3, <3>2
  <2>3. \A e \in Daemons : Writer(e, c)' => Writer(e, c) \/ dpc'[e] = "head"
    BY <1>2 DEF Writer
  <2>4. Tracked(c)'
    <3> SUFFICES ASSUME ~ClientClosed(c)', cst'[c] \notin {"fail", "void"}
                 PROVE  /\ Len(rxd'[c]) = 0
                        /\ cst'[c] = "sent" /\ NoPart(rxc'[c])
                        /\ \A e \in Daemons : Writer(e, c)' => dpc'[e] = "head"
      BY DEF Tracked
    <3>1. ~ClientClosed(c) /\ cst[c] \notin {"fail", "void"}
      BY DEF ClientClosed
    <3> QED
      BY <2>2, <2>3, <3>1 DEF NoPart
  <2> QED
    BY <2>1, <2>4 DEF Steady
<1> QED
  BY <1>4, <1>5

LEMMA RequestSteady ==
  ASSUME StepInv, NEW d \in Daemons, ReadRequest(d)
  PROVE  \A b \in Calls : Steady(b)'
<1>1. con[d] \in Calls
  BY DEF ReadRequest, StepInv, ServedInv, TypeInv, ServesOne, Serving
<1>2. /\ dpc[d] = "read" /\ rxd[con[d]] # <<>>
      /\ Head(rxd[con[d]]).cmd \in {"attest", "pica"}
      /\ rxd' = [rxd EXCEPT ![con[d]] = Tail(@)] /\ dpc' = [dpc EXCEPT ![d] = "head"]
      /\ UNCHANGED <<alive, cst, rxc, con>>
  BY DEF ReadRequest, MakeReply, procVars
<1> QED
  BY <1>1, <1>2, TakeSteady

\* A frame is written to a client that is still there.
LEMMA FrameSteady ==
  ASSUME StepInv, NEW d \in Daemons, NEW c \in Calls, NEW f \in Frame, NEW pc,
         con[d] = c, dpc[d] \in {"head", "body"}, ~ClientClosed(c), f.part = dpc[d],
         rxc' = [rxc EXCEPT ![c] = Append(@, f)], UNCHANGED <<alive, cst, rxd, con>>,
         dpc' = [dpc EXCEPT ![d] = pc],
         pc \in {"read", "body"}, dpc[d] = "body" => pc = "read"
  PROVE  \A b \in Calls : Steady(b)'
<1>3. rxc \in [Calls -> Seq(Frame)] /\ DOMAIN dpc = Daemons
  BY DEF StepInv, ServedInv, TypeInv, TypeOK
<1>4. \A e \in Daemons \ {d} : ~Writer(e, c)
  <2>1. peer[c] = d
    BY DEF StepInv, Serves
  <2>2. \A e \in Daemons : Writer(e, c) => peer[c] = e
    BY DEF StepInv, Serves, Writer
  <2> QED
    BY <2>1, <2>2
<1>6. /\ Len(rxc'[c]) = Len(rxc[c]) + 1 /\ Len(rxc[c]) \in Nat
      /\ \A i \in 1..Len(rxc[c]) : rxc'[c][i] = rxc[c][i]
      /\ rxc'[c][Len(rxc[c]) + 1].part = dpc[d]
  <2>1. rxc'[c] = Append(rxc[c], f) /\ rxc[c] \in Seq(Frame)
    BY <1>3
  <2>3. /\ Len(Append(rxc[c], f)) = Len(rxc[c]) + 1
        /\ \A i \in 1..Len(rxc[c]) : Append(rxc[c], f)[i] = rxc[c][i]
        /\ Append(rxc[c], f)[Len(rxc[c]) + 1] = f
    BY <2>1, AppendProperties
  <2>4. Len(rxc[c]) \in Nat
    BY <2>1, LenProperties
  <2> QED
    BY <2>1, <2>3, <2>4
<1>7. Writer(d, c)
  BY DEF Writer
<1>9. dpc'[d] = pc /\ \A e \in Daemons \ {d} : dpc'[e] = dpc[e]
  BY <1>3
<1>8. \A e \in Daemons, b \in Calls :
         Writer(e, b)' => Writer(e, b) /\ (e # d => dpc'[e] = dpc[e])
  BY <1>9 DEF Writer
<1>11. ASSUME NEW b \in Calls \ {c} PROVE Steady(b)'
  <2>1. \A e \in Daemons : Writer(e, b)' => Writer(e, b) /\ dpc'[e] = dpc[e]
    BY <1>8, <1>11 DEF Writer
  <2>2. rxc'[b] = rxc[b]
    BY <1>3, <1>11
  <2> QED
    BY <1>11, <2>1, <2>2, SteadyStays DEF StepInv
<1>12. Steady(c)'
  <2>0. Steady(c)
    BY <1>3 DEF StepInv
  <2>1. CASE cst[c] \in {"fail", "void"}
    BY <1>3, <2>1, SteadyFailed
  <2>2. CASE cst[c] \notin {"fail", "void"}
    <3>1. \A i \in 1..Len(rxd[c]) : rxd[c][i].cmd = "hello"
      BY <1>7, <2>0, <2>2 DEF Steady, Tracked
    <3>2. CASE dpc[d] = "head"
      <4>1. cst[c] = "sent" /\ NoPart(rxc[c])
        BY <1>7, <2>0, <2>2, <3>2 DEF Steady, Tracked
      <4>2. JustHead(rxc'[c])
        BY <1>6, <3>2, <4>1 DEF NoPart, JustHead
      <4>3. Shaped(c)'
        BY <4>1, <4>2 DEF Shaped, JustHead
      <4>4. \A e \in Daemons : Writer(e, c)' => dpc'[e] = "body"
        BY <1>4, <1>8, <1>9, <1>3 DEF Writer
      <4>5. Tracked(c)'
        BY <3>1, <4>1, <4>2, <4>4 DEF Tracked, JustHead
      <4> QED
        BY <4>3, <4>5 DEF Steady
    <3>3. CASE dpc[d] = "body"
      <4>1. \/ cst[c] = "sent" /\ JustHead(rxc[c])
            \/ cst[c] = "body" /\ NoPart(rxc[c])
        BY <1>7, <2>0, <2>2, <3>3 DEF Steady, Tracked
      <4>2. \/ cst[c] = "sent" /\ HeadBody(rxc'[c])
            \/ cst[c] = "body" /\ JustBody(rxc'[c])
        BY <1>6, <3>3, <4>1 DEF NoPart, JustHead, JustBody, HeadBody
      <4>3. Shaped(c)'
        BY <4>2 DEF Shaped, HeadBody, JustBody
      <4>4. \A e \in Daemons : ~Writer(e, c)'
        BY <1>3, <1>4, <1>8, <1>9, <3>3 DEF Writer
      <4>5. Tracked(c)'
        BY <3>1, <4>4 DEF Tracked
      <4> QED
        BY <4>3, <4>5 DEF Steady
    <3> QED
      BY <3>2, <3>3
  <2> QED
    BY <2>1, <2>2
<1> QED
  BY <1>11, <1>12

\* A part of a reply is written.
LEMMA WriteSteady ==
  ASSUME StepInv, NEW d \in Daemons, WriteHead(d) \/ WriteBody(d)
  PROVE  \A b \in Calls : Steady(b)'
<1>1. con[d] \in Calls /\ out[d] \in Reply
  BY DEF WriteHead, WriteBody, StepInv, ServedInv, TypeInv, TypeOK, ServesOne, Serving
<1>2. CASE WriteHead(d)
  <2>1. [part |-> "head", reply |-> out[d]] \in Frame
    BY <1>1 DEF Frame
  <2>2. PICK pc \in {"read", "body"} : dpc' = [dpc EXCEPT ![d] = pc]
    BY <1>2 DEF WriteHead
  <2>3. /\ dpc[d] = "head" /\ ~ClientClosed(con[d])
        /\ rxc' = [rxc EXCEPT ![con[d]] =
                      Append(@, [part |-> "head", reply |-> out[d]])]
        /\ UNCHANGED <<alive, cst, rxd, con>>
    BY <1>2 DEF WriteHead, procVars
  <2> QED
    BY <1>1, <2>1, <2>2, <2>3, FrameSteady
<1>3. CASE WriteBody(d)
  <2>1. [part |-> "body", reply |-> out[d]] \in Frame
    BY <1>1 DEF Frame
  <2> QED
    BY <1>1, <1>3, <2>1, FrameSteady DEF WriteBody, procVars
<1> QED
  BY <1>2, <1>3

\* The connection was reset: whatever the daemon makes of it, its peer is gone.
LEMMA ResetSteady ==
  ASSUME StepInv, NEW d \in Daemons, ReadReset(d)
  PROVE  \A b \in Calls : Steady(b)'
<1> DEFINE c == con[d]
<1>1. dpc[d] = "read" /\ ClientClosed(c) /\ UNCHANGED <<alive, cst, rxd, rxc, con>>
  BY DEF ReadReset, procVars
<1>2. \E x : dpc' = [dpc EXCEPT ![d] = x]
  <2>1. dpc = [dpc EXCEPT ![d] = dpc[d]]
    BY DEF StepInv, ServedInv, TypeInv, TypeOK
  <2> QED
    BY <2>1 DEF ReadReset, Stop, MakeReply
<1>3. DOMAIN dpc = Daemons
  BY DEF StepInv, ServedInv, TypeInv, TypeOK
<1>4. ASSUME NEW b \in Calls PROVE Steady(b)'
  <2>0. Steady(b)
    BY DEF StepInv
  <2>1. CASE b = c
    <3>1. Shaped(b)'
      BY <1>1, <2>0 DEF Steady, Shaped, NoPart, JustHead, JustBody, HeadBody
    <3>2. ClientClosed(b)'
      BY <1>1, <2>1 DEF ClientClosed
    <3> QED
      BY <3>1, <3>2 DEF Steady, Tracked
  <2>2. CASE b # c
    <3>1. \A e \in Daemons : Writer(e, b)' => Writer(e, b) /\ dpc'[e] = dpc[e]
      BY <1>1, <1>2, <1>3, <2>2 DEF Writer
    <3> QED
      BY <1>1, <2>0, <3>1, SteadyStays
  <2> QED
    BY <2>1, <2>2
<1> QED
  BY <1>4

LEMMA DaemonStepSteady ==
  ASSUME StepInv, NEW d \in Daemons,
         Start(d) \/ StartFails(d) \/ Kill(d) \/ DaemonStep(d)
  PROVE  \A b \in Calls : Steady(b)'
<1> USE DEF procVars, chanVars, listenVars, loopVars
<1>1. /\ DOMAIN dpc = Daemons /\ DOMAIN con = Daemons /\ DOMAIN rxd = Calls
  BY DEF StepInv, ServedInv, TypeInv, TypeOK
<1>2. ASSUME UNCHANGED <<alive, cst, rxd, rxc, con>>,
             \E x \in {"accept", "read", "hung"} \cup Gone : dpc' = [dpc EXCEPT ![d] = x]
      PROVE  \A b \in Calls : Steady(b)'
  <2>1. dpc'[d] \notin {"head", "body"} /\ \A e \in Daemons \ {d} : dpc'[e] = dpc[e]
    BY <1>1, <1>2 DEF Gone
  <2> QED
    BY <1>2, <2>1, DaemonSteady
<1>3. CASE Start(d) \/ StartFails(d) \/ Kill(d) \/ AcceptFails(d) \/ ReadEof(d) \/ WriteKilled(d)
  <2>1. UNCHANGED <<alive, cst, rxd, rxc, con>>
    BY <1>3 DEF Start, StartFails, Kill, AcceptFails, ReadEof, WriteKilled, Stop
  <2>2. \E x \in {"accept", "read", "hung"} \cup Gone : dpc' = [dpc EXCEPT ![d] = x]
    BY <1>3 DEF Start, StartFails, Kill, AcceptFails, ReadEof, WriteKilled, Stop, Gone
  <2> QED
    BY <1>2, <2>1, <2>2
<1>4. CASE Accept(d)
  <2>1. /\ UNCHANGED <<alive, cst, rxd, rxc>> /\ dpc'[d] = "read"
        /\ \A e \in Daemons \ {d} : con'[e] = con[e] /\ dpc'[e] = dpc[e]
    BY <1>1, <1>4 DEF Accept
  <2> QED
    BY <2>1, DaemonSteady
<1>5. CASE ReadHello(d) \/ ReadHangs(d)
  <2>1. /\ UNCHANGED <<alive, cst, rxc, con>> /\ rxd[con[d]] # <<>>
        /\ rxd' = [rxd EXCEPT ![con[d]] = Tail(@)]
    BY <1>5 DEF ReadHello, ReadHangs
  <2>2. /\ dpc'[d] \notin {"head", "body"}
        /\ \A e \in Daemons \ {d} : dpc'[e] = dpc[e]
    BY <1>1, <1>5 DEF ReadHello, ReadHangs
  <2>3. \A c \in Calls : rxd'[c] = rxd[c] \/ (rxd[c] # <<>> /\ rxd'[c] = Tail(rxd[c]))
    BY <1>1, <2>1
  <2> QED
    BY <2>1, <2>2, <2>3, DaemonSteady
<1> QED
  BY <1>3, <1>4, <1>5, RequestSteady, ResetSteady, WriteSteady DEF DaemonStep

\* What a step does to the connection that each daemon serves.
LEMMA ServesStep ==
  ASSUME StepInv, [Next]_vars
  PROVE  Serves'
<1>0. /\ Serves /\ Queued /\ DOMAIN dpc = Daemons /\ con \in [Daemons -> Calls \cup {None}]
      /\ peer \in [Calls -> Daemons \cup {None}] /\ TypeOK
  BY DEF StepInv, ServedInv, TypeInv, TypeOK
<1>1. CASE UNCHANGED <<dpc, con, accepted, peer>>
  BY <1>0, <1>1 DEF Serves
<1>2. ASSUME NEW c \in Calls, Connect(c) PROVE Serves'
  <2>1. /\ cst[c] = "new" /\ peer' = [peer EXCEPT ![c] = path]
        /\ UNCHANGED <<dpc, con, accepted>>
    BY <1>2 DEF Connect, loopVars
  <2>2. \A b \in accepted : peer'[b] = peer[b]
    BY <1>0, <2>1 DEF Queued
  <2> QED
    BY <1>0, <2>1, <2>2 DEF Serves
<1>3. ASSUME NEW c \in Calls, ConnectRefused(c) \/ ClientStep(c) PROVE Serves'
  BY <1>0, <1>1, <1>3, ClientProgress DEF listenVars, loopVars
<1>4. ASSUME NEW p \in Procs, Exit(p) \/ Crash(p) PROVE Serves'
  BY <1>1, <1>4, ProcessStep DEF listenVars, loopVars
<1>5. ASSUME NEW d \in Daemons, Start(d) PROVE Serves'
  BY <1>0, <1>5 DEF Start, Serves
<1>6. ASSUME NEW d \in Daemons, Accept(d) PROVE Serves'
  <2> DEFINE c == Head(backlog[d])
  <2>1. /\ backlog[d] # <<>> /\ con' = [con EXCEPT ![d] = c] /\ accepted' = accepted \cup {c}
        /\ dpc' = [dpc EXCEPT ![d] = "read"] /\ peer' = peer
    BY <1>6 DEF Accept
  <2>2. peer[c] = d
    <3>1. backlog[d] \in Seq(Calls)
      BY <1>0 DEF TypeOK
    <3>2. Len(backlog[d]) \in Nat \ {0} /\ c = backlog[d][1]
      BY <2>1, <3>1, EmptySeq
    <3> QED
      BY <1>0, <3>2 DEF Queued
  <2> HIDE DEF c
  <2>3. \A e \in Daemons \ {d} : con'[e] = con[e] /\ dpc'[e] = dpc[e]
    BY <1>0, <2>1
  <2>4. con'[d] = c
    BY <1>0, <2>1
  <2> QED
    BY <1>0, <2>1, <2>2, <2>3, <2>4 DEF Serves
<1>7. ASSUME NEW d \in Daemons, StartFails(d) \/ Kill(d) \/ DaemonStep(d), ~Accept(d)
      PROVE  Serves'
  <2>1. UNCHANGED <<accepted, con, peer>>
    BY <1>7, DaemonTurns DEF StepInv, ServedInv
  <2>2. \A e \in Daemons : dpc'[e] \in {"read", "head", "body"} =>
           dpc[e] \in {"read", "head", "body"}
    BY <1>0, <1>7, DaemonTurns DEF StepInv, ServedInv, Gone
  <2> QED
    BY <1>0, <2>1, <2>2 DEF Serves
<1>8. CASE UNCHANGED vars
  BY <1>1, <1>8 DEF vars, listenVars, loopVars
<1> QED
  BY <1>2, <1>3, <1>4, <1>5, <1>6, <1>7, <1>8 DEF Next

LEMMA StepInvStep ==
  ASSUME StepInv, [Next]_vars
  PROVE  StepInv'
<1> SUFFICES \A b \in Calls : Steady(b)'
  BY ServedStep, ServesStep DEF StepInv
<1>1. ASSUME UNCHANGED <<cst, rxd, rxc, dpc, con>>, alive' \subseteq alive
      PROVE  \A b \in Calls : Steady(b)'
  <2>1. \A b \in Calls, d \in Daemons : Writer(d, b)' => Writer(d, b) /\ dpc'[d] = dpc[d]
    BY <1>1 DEF Writer
  <2> QED
    BY <1>1, <2>1, SteadyStays DEF StepInv
<1>2. ASSUME NEW c \in Calls, Connect(c) \/ ConnectRefused(c) \/ ClientStep(c)
      PROVE  \A b \in Calls : Steady(b)'
  BY <1>2, ClientSteady
<1>3. ASSUME NEW p \in Procs, Exit(p) \/ Crash(p)
      PROVE  \A b \in Calls : Steady(b)'
  <2>1. alive' \subseteq alive /\ UNCHANGED <<cst, rxd, rxc, dpc, con>>
    BY <1>3, ProcessStep DEF loopVars
  <2> QED
    BY <1>1, <2>1
<1>4. ASSUME NEW d \in Daemons, Start(d) \/ StartFails(d) \/ Kill(d) \/ DaemonStep(d)
      PROVE  \A b \in Calls : Steady(b)'
  BY <1>4, DaemonStepSteady
<1>5. CASE UNCHANGED vars
  BY <1>1, <1>5 DEF vars, procVars, chanVars, loopVars
<1> QED
  BY <1>2, <1>3, <1>4, <1>5 DEF Next

\* Header and payload of a reply arrive in order, one reply for one call: a
\* client never reads a payload as a header (InStep).
THEOREM InStepCorrect == Spec => []InStep
<1>1. Init => StepInv
  <2>1. SUFFICES ASSUME Init PROVE StepInv
    OBVIOUS
  <2>2. ServedInv
    <3>1. Queued /\ NoneAbandoned
      BY <2>1, EmptySeq DEF Init, Queued, NoneAbandoned
    <3> QED
      BY <2>1, <3>1, TypeInvInit DEF ServedInv
  <2>3. Serves
    BY <2>1 DEF Init, Serves
  <2>4. ASSUME NEW c \in Calls PROVE Steady(c)
    <3>1. cst[c] = "new" /\ rxd[c] = <<>> /\ rxc[c] = <<>> /\ \A d \in Daemons : ~Writer(d, c)
      BY <2>1 DEF Init, Writer
    <3>2. Len(rxd[c]) = 0 /\ NoPart(rxc[c])
      BY <3>1, EmptySeq DEF NoPart
    <3> QED
      BY <3>1, <3>2 DEF Steady, Shaped, Tracked
  <2> QED
    BY <2>2, <2>3, <2>4 DEF StepInv
<1>2. StepInv /\ [Next]_vars => StepInv'
  BY StepInvStep
<1>3. StepInv => InStep
  BY SteadyInStep DEF StepInv, ServedInv, TypeInv
<1> QED
  BY <1>1, <1>2, <1>3, PTL DEF Spec
-----------------------------------------------------------------------------
(* The evidence a client is handed.                                        *)

\* The strengthening of AnswersMatch.  A number is one running process's; a
\* packet carries the nonce of the call that wrote it, and a request is the
\* last packet of its connection; a nonce that a stack slot holds belongs to a
\* request that was read.  While the client lives, what was measured for it
\* measures it and the reply being written is for it.  The restriction to
\* living clients is needed: the number of one that is gone may have gone to
\* another process, which is then measured.
Answers(c, s) == \A i \in 1..Len(s) : AnswerFor(c, s[i].reply)

OneRunning ==
    \A p, q \in Procs : Running(p) /\ Running(q) /\ Pid[p] = Pid[q] => p = q

OwnNonce == \A c \in Calls : \A i \in 1..Len(rxd[c]) : rxd[c][i].nonce = c

HasRequest(s) == \E i \in 1..Len(s) : s[i].cmd # "hello"
LastOnly(s) == \A i \in 1..Len(s) : s[i].cmd # "hello" => i = Len(s)
Early == {"new", "connected", "greeted"}

RequestLast ==
    \A c \in Calls : /\ LastOnly(rxd[c])
                     /\ cst[c] \in Early => ~HasRequest(rxd[c])

\* The calls whose request is still to be read, or to be sent.
Unread == {c \in Calls : cst[c] \in Early \/ HasRequest(rxd[c])}

UsedNonces ==
    \A d \in Daemons : /\ slot[d] \notin Unread
                       /\ lastq[d] # None => lastq[d].nonce \notin Unread

PeerMeasured ==
    \A d \in Daemons :
        dpc[d] \in Serving /\ ~ClientClosed(con[d]) /\ apphash[d].read
            => /\ apphash[d].of = Owner[con[d]]
               /\ table[d][Pid[Owner[con[d]]]] = Owner[con[d]]

WritesAnswer ==
    \A d \in Daemons : dpc[d] \in {"head", "body"} /\ ~ClientClosed(con[d])
        => AnswerFor(con[d], out[d])

GotNothing == \A c \in Calls : cst[c] # "ok" => got[c] = None

AnswersInv ==
    /\ ServedInv
    /\ OneRunning /\ OwnNonce /\ RequestLast /\ UsedNonces
    /\ PeerMeasured /\ WritesAnswer
    /\ GotNothing /\ AnswersMatch

\* Reading the first packet of a socket, or writing one more.
LEMMA TailRequests ==
  ASSUME NEW s \in Seq(Request), s # <<>>, LastOnly(s)
  PROVE  /\ LastOnly(Tail(s))
         /\ HasRequest(Tail(s)) => HasRequest(s)
         /\ Head(s).cmd # "hello" => HasRequest(s) /\ ~HasRequest(Tail(s))
<1>1. /\ Len(Tail(s)) = Len(s) - 1
      /\ \A i \in 1..Len(Tail(s)) : Tail(s)[i] = s[i + 1]
      /\ Head(s) = s[1] /\ Len(s) \in Nat \ {0}
  BY HeadTailProperties, LenProperties, EmptySeq
<1>2. \A i \in 1..Len(Tail(s)) : i + 1 \in 1..Len(s) /\ i + 1 # 1
  <2> DEFINE n == Len(s)
  <2>1. n \in Nat \ {0} /\ Len(Tail(s)) = n - 1
    BY <1>1
  <2> HIDE DEF n
  <2>2. \A i \in 1..(n - 1) : i + 1 \in 1..n /\ i + 1 # 1
    BY <2>1
  <2> QED
    BY <2>1, <2>2 DEF n
<1>3. LastOnly(Tail(s))
  <2> SUFFICES ASSUME NEW i \in 1..Len(Tail(s)), Tail(s)[i].cmd # "hello"
               PROVE  i = Len(Tail(s))
    BY DEF LastOnly
  <2>1. i + 1 \in 1..Len(s) /\ s[i + 1].cmd # "hello"
    BY <1>1, <1>2
  <2>2. i + 1 = Len(s)
    BY <2>1 DEF LastOnly
  <2> DEFINE n == Len(s)
  <2>3. n \in Nat \ {0} /\ Len(Tail(s)) = n - 1 /\ i + 1 = n /\ i \in 1..(n - 1)
    BY <1>1, <2>2
  <2> HIDE DEF n
  <2> QED
    BY <2>3
<1>4. HasRequest(Tail(s)) => HasRequest(s)
  BY <1>1, <1>2 DEF HasRequest
<1>5. ASSUME Head(s).cmd # "hello"
      PROVE  HasRequest(s) /\ ~HasRequest(Tail(s))
  <2>1. 1 \in 1..Len(s) /\ s[1].cmd # "hello"
    BY <1>1, <1>5
  <2>2. Len(s) = 1
    BY <2>1 DEF LastOnly
  <2>3. 1..Len(Tail(s)) = {}
    <3>1. Len(Tail(s)) = 0
      <4>1. Len(Tail(s)) = 1 - 1
        BY <1>1, <2>2
      <4> QED
        BY <4>1
    <3>2. \A k : k = 0 => 1..k = {}
      OBVIOUS
    <3> QED
      BY <3>1, <3>2
  <2> QED
    BY <2>1, <2>3 DEF HasRequest
<1> QED
  BY <1>3, <1>4, <1>5

LEMMA AppendRequests ==
  ASSUME NEW s \in Seq(Request), NEW m \in Request, ~HasRequest(s)
  PROVE  /\ LastOnly(Append(s, m))
         /\ m.cmd = "hello" => ~HasRequest(Append(s, m))
<1>1. /\ Len(Append(s, m)) = Len(s) + 1
      /\ \A i \in 1..Len(s) : Append(s, m)[i] = s[i]
      /\ Append(s, m)[Len(s) + 1] = m
      /\ Len(s) \in Nat
  BY AppendProperties, LenProperties
<1>2. \A i \in 1..Len(Append(s, m)) : i \in 1..Len(s) \/ i = Len(s) + 1
  BY <1>1
<1> QED
  BY <1>1, <1>2 DEF HasRequest, LastOnly

\* Reading the first frame of a socket, or writing one more, keeps Answers.
LEMMA AnswersTail ==
  ASSUME NEW c \in Calls, NEW s \in Seq(Frame), s # <<>>, Answers(c, s)
  PROVE  Answers(c, Tail(s)) /\ AnswerFor(c, Head(s).reply)
<1>1. /\ Len(Tail(s)) = Len(s) - 1
      /\ \A i \in 1..Len(Tail(s)) : Tail(s)[i] = s[i + 1]
      /\ Head(s) = s[1] /\ Len(s) \in Nat \ {0}
  BY HeadTailProperties, LenProperties, EmptySeq
<1> QED
  BY <1>1 DEF Answers

LEMMA AnswersAppend ==
  ASSUME NEW c \in Calls, NEW s \in Seq(Frame), NEW f \in Frame,
         Answers(c, s), AnswerFor(c, f.reply)
  PROVE  Answers(c, Append(s, f))
<1>1. /\ Len(Append(s, f)) = Len(s) + 1
      /\ \A i \in 1..Len(s) : Append(s, f)[i] = s[i]
      /\ Append(s, f)[Len(s) + 1] = f
      /\ Len(s) \in Nat
  BY AppendProperties, LenProperties
<1> QED
  BY <1>1 DEF Answers

\* A call that returns with r, having left rx[c] of its frames unread.
LEMMA ReturnAnswers ==
  ASSUME AnswersInv, NEW c \in Calls, NEW st \in Returned,
         NEW r \in Reply \cup {None}, NEW rx \in [Calls -> Seq(Frame)],
         Return(c, st, r, rx),
         \A b \in Calls : Answers(b, rx[b]),
         IF st = "ok" THEN AnswerFor(c, r) ELSE r = None
  PROVE  AnswersMatch' /\ GotNothing'
<1>1. /\ cst' = [cst EXCEPT ![c] = st]
      /\ got' = [got EXCEPT ![c] = r]
      /\ rxc' = rx
  BY DEF Return
<1>2. cst \in [Calls -> {"new"} \cup Asking \cup Returned]
      /\ got \in [Calls -> Reply \cup {None}]
  BY DEF AnswersInv, ServedInv, TypeInv, TypeOK
<1>3. GotNothing'
  BY <1>1, <1>2 DEF AnswersInv, GotNothing
<1>4. \A b \in Calls : \A i \in 1..Len(rxc'[b]) : AnswerFor(b, rxc'[b][i].reply)
  BY <1>1 DEF Answers
<1>5. \A b \in Calls : cst'[b] = "ok" => AnswerFor(b, got'[b])
  BY <1>1, <1>2 DEF AnswersInv, AnswersMatch
<1> QED
  BY <1>1, <1>3, <1>4, <1>5 DEF AnswersMatch, AnswerFor

\* The client actions keep the invariant: Send* writes the nonce of its call,
\* and what RecvBody hands out is what lay in the socket.
LEMMA ClientAnswers ==
  ASSUME AnswersInv, NEW c \in Calls,
         Connect(c) \/ ConnectRefused(c) \/ ClientStep(c)
  PROVE  OwnNonce' /\ AnswersMatch' /\ GotNothing'
<1> USE DEF chanVars, listenVars, loopVars
<1> DEFINE rx == [rxc EXCEPT ![c] = Tail(@)]
<1>a. TypeOK /\ OwnNonce /\ AnswersMatch /\ GotNothing
  BY DEF AnswersInv, ServedInv, TypeInv
<1>b. \A b \in Calls : rxc[b] \in Seq(Frame) /\ Answers(b, rxc[b])
  BY <1>a DEF TypeOK, AnswersMatch, Answers
<1>0. rxc[c] # <<>> => /\ AnswerFor(c, Head(rxc[c]).reply)
                       /\ Head(rxc[c]).reply \in Reply
                       /\ rx \in [Calls -> Seq(Frame)]
                       /\ \A b \in Calls : Answers(b, rx[b])
  <2>1. SUFFICES ASSUME rxc[c] # <<>>
                 PROVE  /\ AnswerFor(c, Head(rxc[c]).reply)
                        /\ Head(rxc[c]).reply \in Reply
                        /\ rx \in [Calls -> Seq(Frame)]
                        /\ \A b \in Calls : Answers(b, rx[b])
    OBVIOUS
  <2>2. /\ Head(rxc[c]) \in Frame /\ Tail(rxc[c]) \in Seq(Frame)
    BY <2>1, <1>b, HeadTailProperties
  <2>3. Answers(c, Tail(rxc[c])) /\ AnswerFor(c, Head(rxc[c]).reply)
    BY <2>1, <1>b, AnswersTail
  <2>4. Head(rxc[c]).reply \in Reply
    BY <2>2 DEF Frame
  <2>5. rx \in [Calls -> Seq(Frame)] /\ \A b \in Calls : Answers(b, rx[b])
    BY <1>a, <1>b, <2>2, <2>3 DEF TypeOK
  <2> QED
    BY <2>3, <2>4, <2>5
<1>1. rxd' = rxd => OwnNonce'
  BY <1>a DEF OwnNonce
<1>2. ASSUME UNCHANGED got, \A b \in Calls : Answers(b, rxc'[b]),
             \/ cst' = cst
             \/ /\ cst[c] # "ok"
                /\ \E x \in Asking : cst' = [cst EXCEPT ![c] = x]
      PROVE  AnswersMatch' /\ GotNothing'
  <2>1. \A b \in Calls : cst'[b] = "ok" <=> cst[b] = "ok"
    BY <1>a, <1>2 DEF TypeOK, Asking
  <2>2. \A b \in Calls : \A i \in 1..Len(rxc'[b]) : AnswerFor(b, rxc'[b][i].reply)
    BY <1>2 DEF Answers
  <2>3. \A b \in Calls : cst'[b] = "ok" => AnswerFor(b, got'[b])
    BY <1>a, <1>2, <2>1 DEF AnswersMatch
  <2>4. GotNothing'
    BY <1>a, <1>2, <2>1 DEF GotNothing
  <2> QED
    BY <2>2, <2>3, <2>4 DEF AnswersMatch, AnswerFor
<1>3. CASE Connect(c)
  <2>1. "connected" \in Asking
    BY DEF Asking
  <2> QED
    BY <1>b, <1>1, <1>2, <1>3, <2>1 DEF Connect
<1>4. CASE ConnectRefused(c)
  <2>1. None \in Reply \cup {None} /\ "fail" \in Returned /\ rxc \in [Calls -> Seq(Frame)]
    BY <1>a DEF TypeOK, Returned
  <2>2. Return(c, "fail", None, rxc) /\ rxd' = rxd
    BY <1>4 DEF ConnectRefused
  <2> QED
    BY <1>b, <1>1, <2>1, <2>2, ReturnAnswers
<1>5. CASE SendHello(c) \/ Send(c)
  <2>1. PICK k \in {"hello", "attest", "pica"} :
          rxd' = [rxd EXCEPT ![c] = Append(@, [cmd |-> k, nonce |-> c])]
    BY <1>5 DEF SendHello, Send
  <2> DEFINE m == [cmd |-> k, nonce |-> c]
  <2>2. m \in Request /\ m.nonce = c
    BY RequestType
  <2> HIDE DEF m
  <2>3. rxd[c] \in Seq(Request)
    BY <1>a DEF TypeOK
  <2>4. \A i \in 1..Len(Append(rxd[c], m)) : Append(rxd[c], m)[i].nonce = c
    <3>1. /\ Len(Append(rxd[c], m)) = Len(rxd[c]) + 1
          /\ \A i \in 1..Len(rxd[c]) : Append(rxd[c], m)[i] = rxd[c][i]
          /\ Append(rxd[c], m)[Len(rxd[c]) + 1] = m
          /\ Len(rxd[c]) \in Nat
      BY <2>2, <2>3, AppendProperties, LenProperties
    <3> QED
      BY <1>a, <2>2, <3>1 DEF OwnNonce
  <2>5. \A b \in Calls : \A i \in 1..Len(rxd'[b]) : rxd'[b][i].nonce = b
    <3>1. rxd' = [rxd EXCEPT ![c] = Append(@, m)]
      BY <2>1 DEF m
    <3> QED
      BY <1>a, <2>4, <3>1 DEF TypeOK, OwnNonce
  <2>6. /\ UNCHANGED <<alive, got, rxc>>
        /\ cst[c] # "ok"
        /\ cst' = [cst EXCEPT ![c] = "greeted"] \/ cst' = [cst EXCEPT ![c] = "sent"]
    BY <1>5 DEF SendHello, Send, Ready
  <2>7. "greeted" \in Asking /\ "sent" \in Asking
    BY DEF Asking
  <2>8. AnswersMatch' /\ GotNothing'
    BY <1>b, <1>2, <2>6, <2>7
  <2> QED
    BY <2>5, <2>6, <2>8 DEF OwnNonce
<1>6. CASE SendKilled(c)
  BY <1>b, <1>1, <1>2, <1>6 DEF SendKilled
<1>7. CASE RecvHead(c)
  <2>0. rxc[c] # <<>> /\ rxd' = rxd /\ cst[c] # "ok"
    BY <1>7 DEF RecvHead
  <2>1. CASE \E st \in {"fail", TooLong(c)} : Return(c, st, None, rx)
    <3>1. PICK st \in {"fail", TooLong(c)} : Return(c, st, None, rx)
      BY <2>1
    <3>2. st \in Returned /\ st # "ok" /\ None \in Reply \cup {None}
      BY DEF TooLong, Returned
    <3> HIDE DEF rx
    <3> QED
      BY <1>0, <1>1, <2>0, <3>1, <3>2, ReturnAnswers
  <2>2. CASE /\ cst' = [cst EXCEPT ![c] = "body"]
             /\ rxc' = rx
             /\ UNCHANGED <<alive, got, resetD>>
    <3>1. "body" \in Asking
      BY DEF Asking
    <3> QED
      BY <1>0, <1>1, <1>2, <2>0, <2>2, <3>1
  <2> QED
    BY <1>7, <2>1, <2>2 DEF RecvHead
<1>8. CASE RecvHeadReset(c) \/ RecvEof(c)
  <2>1. PICK st \in {"fail", TooLong(c)} : Return(c, st, None, rxc)
    BY <1>8 DEF RecvHeadReset, RecvEof
  <2>2. st \in Returned /\ st # "ok" /\ None \in Reply \cup {None}
    BY DEF TooLong, Returned
  <2>3. rxc \in [Calls -> Seq(Frame)] /\ rxd' = rxd
    BY <1>a, <1>8 DEF TypeOK, RecvHeadReset, RecvEof
  <2> QED
    BY <1>b, <1>1, <2>1, <2>2, <2>3, ReturnAnswers
<1>9. CASE RecvBody(c)
  <2>1. "ok" \in Returned
    BY DEF Returned
  <2>2. rxc[c] # <<>> /\ Return(c, "ok", Head(rxc[c]).reply, rx) /\ rxd' = rxd
    BY <1>9 DEF RecvBody
  <2> HIDE DEF rx
  <2> QED
    BY <1>0, <1>1, <2>1, <2>2, ReturnAnswers
<1> QED
  BY <1>3, <1>4, <1>5, <1>6, <1>7, <1>8, <1>9 DEF ClientStep

\* What a step of a client does to the calls: only c moves, and only Connect
\* and ConnectRefused start it.
LEMMA ClientMovesOne ==
  ASSUME TypeOK, NEW c \in Calls,
         Connect(c) \/ ConnectRefused(c) \/ ClientStep(c)
  PROVE  /\ alive' \subseteq alive
         /\ \A b \in Calls \ {c} : cst'[b] = cst[b]
         /\ cst[c] = "new" => NumberFree(Owner[c])
         /\ cst'[c] \in Early => cst[c] \in Early
<1>1. CASE Connect(c)
  BY <1>1 DEF Connect, TypeOK, Early
<1>2. CASE ConnectRefused(c) \/ ClientStep(c)
  <2>1. alive' \subseteq alive
    BY <1>2, ClientProgress
  <2>2. ASSUME NEW st \in Returned, NEW r, NEW rx, Return(c, st, r, rx)
        PROVE  /\ \A b \in Calls \ {c} : cst'[b] = cst[b]
               /\ cst'[c] \notin Early
    BY <2>2 DEF Return, TypeOK, Returned, Early
  <2>3. CASE ConnectRefused(c)
    BY <2>1, <2>2, <2>3 DEF ConnectRefused, Returned
  <2>4. CASE SendHello(c)
    BY <2>1, <2>4 DEF SendHello, TypeOK, Early
  <2>5. CASE Send(c)
    BY <2>1, <2>5 DEF Send, Ready, TypeOK, Early
  <2>6. CASE SendKilled(c)
    BY <2>1, <2>6 DEF SendKilled
  <2>7. CASE RecvHead(c)
    BY <2>1, <2>2, <2>7 DEF RecvHead, TooLong, Returned, TypeOK, Early
  <2>8. CASE RecvHeadReset(c)
    BY <2>1, <2>2, <2>8 DEF RecvHeadReset, TooLong, Returned
  <2>9. CASE RecvBody(c) \/ RecvEof(c)
    BY <2>1, <2>2, <2>9 DEF RecvBody, RecvEof, Returned
  <2> QED
    BY <1>2, <2>3, <2>4, <2>5, <2>6, <2>7, <2>8, <2>9 DEF ClientStep
<1> QED
  BY <1>1, <1>2

\* A number stays one running process's: Connect waits until it is free.
LEMMA ClientRunning ==
  ASSUME TypeOK, OneRunning, NEW c \in Calls,
         Connect(c) \/ ConnectRefused(c) \/ ClientStep(c)
  PROVE  OneRunning'
<1>1. /\ alive' \subseteq alive
      /\ \A b \in Calls \ {c} : cst'[b] = cst[b]
      /\ cst[c] = "new" => NumberFree(Owner[c])
  BY ClientMovesOne
<1>2. Owner[c] \in Procs
  BY ConstantsAssumption
<1>3. ASSUME NEW p \in Procs, Running(p)', ~Running(p)
      PROVE  p = Owner[c] /\ NumberFree(p)
  BY <1>1, <1>3 DEF Running
<1> SUFFICES ASSUME NEW p \in Procs, NEW q \in Procs,
                    Running(p)', Running(q)', Pid[p] = Pid[q], p # q
             PROVE  FALSE
  BY DEF OneRunning
<1>4. CASE Running(p) /\ Running(q)
  BY <1>4 DEF OneRunning
<1>5. CASE ~Running(p)
  BY <1>3, <1>5 DEF NumberFree
<1>6. CASE ~Running(q)
  BY <1>3, <1>6 DEF NumberFree
<1> QED
  BY <1>4, <1>5, <1>6

\* A client writes its request behind packets that are none, and it stays
\* unread no longer than it was.
LEMMA ClientRequests ==
  ASSUME TypeOK, RequestLast, NEW c \in Calls,
         Connect(c) \/ ConnectRefused(c) \/ ClientStep(c)
  PROVE  /\ RequestLast'
         /\ Unread' \subseteq Unread
<1>1. /\ \A b \in Calls \ {c} : cst'[b] = cst[b]
      /\ cst'[c] \in Early => cst[c] \in Early
  BY ClientMovesOne
<1>2. CASE rxd' = rxd
  BY <1>1, <1>2 DEF RequestLast, Unread
<1>3. CASE SendHello(c) \/ Send(c)
  <2>1. PICK k \in {"hello", "attest", "pica"} :
          /\ rxd' = [rxd EXCEPT ![c] = Append(@, [cmd |-> k, nonce |-> c])]
          /\ cst' = [cst EXCEPT ![c] = IF k = "hello" THEN "greeted" ELSE "sent"]
    BY <1>3 DEF SendHello, Send
  <2> DEFINE m == [cmd |-> k, nonce |-> c]
  <2>2. m \in Request /\ m.cmd = k
    BY RequestType
  <2>3. cst[c] \in Early /\ rxd[c] \in Seq(Request)
    BY <1>3 DEF SendHello, Send, Ready, Early, TypeOK
  <2> HIDE DEF m
  <2>4. /\ LastOnly(Append(rxd[c], m))
        /\ k = "hello" => ~HasRequest(Append(rxd[c], m))
    BY <2>2, <2>3, AppendRequests DEF RequestLast
  <2>5. /\ rxd'[c] = Append(rxd[c], m)
        /\ \A b \in Calls \ {c} : rxd'[b] = rxd[b]
    BY <2>1 DEF m, TypeOK
  <2>6. cst'[c] \in Early => k = "hello"
    BY <2>1 DEF TypeOK, Early
  <2>7. RequestLast'
    BY <1>1, <2>4, <2>5, <2>6 DEF RequestLast
  <2>8. Unread' \subseteq Unread
    BY <1>1, <2>3, <2>5 DEF Unread
  <2> QED
    BY <2>7, <2>8
<1> QED
  BY <1>2, <1>3 DEF ClientStep, Connect, ConnectRefused, SendKilled, RecvHead,
                    RecvHeadReset, RecvBody, RecvEof, chanVars

\* The nonces that were used stay used.
LEMMA UsedStay ==
  ASSUME UsedNonces, UNCHANGED <<slot, lastq>>,
         Unread' \subseteq Unread
  PROVE  UsedNonces'
BY DEF UsedNonces

\* The reply made for a living client is for it, and the nonces the stack slots
\* hold afterwards, also when Esys_Quote or the unsealing failed, are used.
LEMMA MakeReplyAnswers ==
  ASSUME AnswersInv, NEW d \in Daemons, dpc[d] = "read",
         NEW cmd, NEW nonce \in Nonces, MakeReply(d, cmd, nonce),
         Unread' \subseteq Unread,
         \/ nonce = con[d] /\ nonce \in Unread /\ nonce \notin Unread'
         \/ nonce = Junk /\ ClientClosed(con[d])
  PROVE  /\ ~ClientClosed(con[d]) => AnswerFor(con[d], out'[d])
         /\ UsedNonces'
<1> DEFINE s == Subject(d, cmd)
<1>0. /\ out \in [Daemons -> Reply \cup {None}]
      /\ lastq \in [Daemons -> Quote \cup {None}]
      /\ slot \in [Daemons -> Nonces]
      /\ con[d] \in Calls
      /\ TypeInv /\ PeerMeasured /\ UsedNonces
  BY DEF AnswersInv, ServedInv, TypeInv, TypeOK, ServesOne, Serving
<1>1. ~ClientClosed(con[d]) /\ apphash[d].read => s = Owner[con[d]]
  BY <1>0 DEF Subject, PeerMeasured, Serving
<1>2. PICK u \in Unsealed(d, cmd, nonce) :
      \E q \in QuoteOutcomes(d, s, u[1]), r \in Reply :
            /\ u[1] \in Nonces
            /\ q[1] \in Quote \cup {None} /\ q[2] \in Quote \cup {None}
            /\ r.pid = s /\ r.measured = apphash[d].read
            /\ r.nonce \in {u[1], None} /\ r.unsealed = u[2]
            /\ r.quote \in {q[1], None}
            /\ out' = [out EXCEPT ![d] = r]
            /\ lastq' = [lastq EXCEPT ![d] = q[2]]
            /\ slot' \in {slot, [slot EXCEPT ![d] = u[1]]}
  BY <1>0, MakeReplyChoice
<1>3. PICK q \in QuoteOutcomes(d, s, u[1]), r \in Reply :
            /\ u[1] \in Nonces
            /\ q[1] \in Quote \cup {None} /\ q[2] \in Quote \cup {None}
            /\ r.pid = s /\ r.measured = apphash[d].read
            /\ r.nonce \in {u[1], None} /\ r.unsealed = u[2]
            /\ r.quote \in {q[1], None}
            /\ out' = [out EXCEPT ![d] = r]
            /\ lastq' = [lastq EXCEPT ![d] = q[2]]
            /\ slot' \in {slot, [slot EXCEPT ![d] = u[1]]}
  BY <1>2
<1> DEFINE fresh == [pid |-> s, nonce |-> u[1]]
<1>4. q[1] \in {fresh, lastq[d], None} /\ q[2] \in {fresh, lastq[d]}
  BY DEF QuoteOutcomes
<1>5. u[1] \in {nonce, Junk, slot[d]} /\ (u[2] => u[1] = nonce)
  <2> HIDE DEF s, fresh
  <2> QED
    BY UnsealedParts
<1>6. fresh.nonce = u[1] /\ fresh.pid = s
  OBVIOUS
<1> HIDE DEF s, fresh
<1>7. PICK W : W = Unread'
  OBVIOUS
<1>8. u[1] \notin W
  <2>1. slot[d] \notin W /\ Junk \notin W
    BY <1>0, <1>7, ConstantsAssumption DEF UsedNonces, Unread
  <2>2. nonce \notin W
    BY <1>7, <2>1
  <2> QED
    BY <1>5, <2>1, <2>2
<1>9. UsedNonces'
  <2>1. \A e \in Daemons : /\ slot'[e] = slot[e] \/ slot'[e] = u[1]
                           /\ lastq'[e] = lastq[e] \/ lastq'[e] = fresh
    BY <1>0, <1>3, <1>4
  <2>2. \A e \in Daemons : /\ slot[e] \notin W
                           /\ lastq[e] # None => lastq[e].nonce \notin W
    BY <1>0, <1>7 DEF UsedNonces
  <2>3. \A e \in Daemons : /\ slot'[e] \notin W
                           /\ lastq'[e] # None => lastq'[e].nonce \notin W
    BY <1>6, <1>8, <2>1, <2>2
  <2> QED
    BY <1>7, <2>3 DEF UsedNonces
<1>10. ASSUME ~ClientClosed(con[d])
       PROVE  AnswerFor(con[d], out'[d])
  <2>1. out'[d] = r
    BY <1>0, <1>3
  <2>2. nonce = con[d] /\ con[d] \in Unread
    BY <1>10
  <2>3. r.measured => r.pid = Owner[con[d]]
    BY <1>1, <1>3, <1>10
  <2>4. r.unsealed => r.nonce \in {con[d], None}
    BY <1>3, <1>5, <2>2
  <2>5. ASSUME r.quote # None, r.quote.nonce = con[d]
        PROVE  r.quote.pid = r.pid
    <3>1. lastq[d] # None => lastq[d].nonce # con[d]
      BY <1>0, <2>2 DEF UsedNonces
    <3>2. r.quote = fresh
      BY <1>3, <1>4, <2>5, <3>1
    <3> QED
      BY <1>3, <1>6, <3>2
  <2> QED
    BY <2>1, <2>3, <2>4, <2>5 DEF AnswerFor
<1> QED
  BY <1>9, <1>10

\* What is measured for a living client is the client: it runs, and nobody else
\* runs under its number.
LEMMA AcceptMeasures ==
  ASSUME AnswersInv, NEW d \in Daemons, Accept(d)
  PROVE  PeerMeasured'
<1> DEFINE c == Head(backlog[d])
           n == Pid[Owner[c]]
<1>1. /\ backlog[d] \in Seq(Calls) /\ backlog[d] # <<>>
      /\ \A i \in 1..Len(backlog[d]) : cst[backlog[d][i]] # "new"
      /\ OneRunning /\ PeerMeasured /\ TypeOK
  BY DEF AnswersInv, ServedInv, TypeInv, TypeOK, Queued, Accept
<1>2. c \in Calls /\ cst[c] # "new"
  <2>1. /\ c = backlog[d][1] /\ c \in Calls
        /\ Len(backlog[d]) \in Nat \ {0}
    BY <1>1, HeadTailProperties, LenProperties, EmptySeq
  <2>2. 1 \in 1..Len(backlog[d])
    BY <2>1
  <2> QED
    BY <1>1, <2>1, <2>2
<1>3. Owner[c] \in Procs /\ n \in Pids
  BY <1>2, ConstantsAssumption
<1>4. PICK m \in Measured(d, c) :
        /\ apphash' = [apphash EXCEPT ![d] = [of |-> m.of, read |-> m.read]]
        /\ table' = [table EXCEPT ![d][n] = m.entry]
  BY DEF Accept
<1>5. ASSUME ~ClientClosed(c), m.read
      PROVE  m.of = Owner[c] /\ m.entry = Owner[c]
  <2>1. \E p \in Procs : /\ Pid[p] = n /\ Running(p)
                         /\ m = [of |-> p, read |-> TRUE, entry |-> p]
    BY <1>5 DEF Measured
  <2>2. Running(Owner[c])
    BY <1>2, <1>5 DEF Running, ClientClosed
  <2> QED
    BY <1>1, <1>3, <2>1, <2>2 DEF OneRunning
<1>6. /\ con' = [con EXCEPT ![d] = c] /\ dpc' = [dpc EXCEPT ![d] = "read"]
      /\ UNCHANGED alive
  BY DEF Accept, procVars
<1>7. /\ con \in [Daemons -> Calls \cup {None}]
      /\ table \in [Daemons -> [Pids -> Digests \cup {Absent}]]
      /\ apphash \in [Daemons -> [of : Digests, read : BOOLEAN]]
      /\ dpc \in [Daemons -> {"off", "accept", "read", "head", "body", "hung"}
                              \cup Gone]
  BY <1>1 DEF TypeOK
<1> HIDE DEF c
<1>8. /\ con'[d] = c /\ apphash'[d].of = m.of /\ apphash'[d].read = m.read
      /\ table'[d][n] = m.entry
  BY <1>3, <1>4, <1>6, <1>7
<1>9. \A e \in Daemons \ {d} :
        /\ con'[e] = con[e] /\ dpc'[e] = dpc[e]
        /\ apphash'[e] = apphash[e] /\ table'[e] = table[e]
  BY <1>4, <1>6, <1>7
<1> SUFFICES ASSUME NEW e \in Daemons, dpc'[e] \in Serving,
                    Owner[con'[e]] \in alive', apphash'[e].read
             PROVE  /\ apphash'[e].of = Owner[con'[e]]
                    /\ table'[e][Pid[Owner[con'[e]]]] = Owner[con'[e]]
  BY DEF PeerMeasured, ClientClosed
<1>10. CASE e = d
  BY <1>5, <1>6, <1>8, <1>10 DEF ClientClosed
<1>11. CASE e # d
  BY <1>1, <1>6, <1>9, <1>11 DEF PeerMeasured, ClientClosed
<1> QED
  BY <1>10, <1>11

\* A daemon that reads a packet takes it from the socket; a request it reads is
\* unread no more.
LEMMA TakeRequests ==
  ASSUME AnswersInv, NEW c \in Calls, rxd[c] # <<>>,
         rxd' = [rxd EXCEPT ![c] = Tail(@)], cst' = cst
  PROVE  /\ OwnNonce' /\ RequestLast' /\ Unread' \subseteq Unread
         /\ Head(rxd[c]).nonce = c
         /\ Head(rxd[c]).cmd # "hello" => c \in Unread /\ c \notin Unread'
<1>1. /\ rxd \in [Calls -> Seq(Request)] /\ OwnNonce /\ RequestLast
  BY DEF AnswersInv, ServedInv, TypeInv, TypeOK
<1>2. /\ \A i \in 1..Len(Tail(rxd[c])) : Tail(rxd[c])[i].nonce = c
      /\ Head(rxd[c]).nonce = c
  <2>1. /\ Len(Tail(rxd[c])) = Len(rxd[c]) - 1
        /\ \A i \in 1..Len(Tail(rxd[c])) : Tail(rxd[c])[i] = rxd[c][i + 1]
        /\ Head(rxd[c]) = rxd[c][1] /\ Len(rxd[c]) \in Nat \ {0}
    BY <1>1, HeadTailProperties, LenProperties, EmptySeq
  <2> QED
    BY <1>1, <2>1 DEF OwnNonce
<1>3. /\ LastOnly(Tail(rxd[c]))
      /\ HasRequest(Tail(rxd[c])) => HasRequest(rxd[c])
      /\ Head(rxd[c]).cmd # "hello"
            => HasRequest(rxd[c]) /\ ~HasRequest(Tail(rxd[c]))
  BY <1>1, TailRequests DEF RequestLast
<1>4. /\ rxd'[c] = Tail(rxd[c])
      /\ \A b \in Calls \ {c} : rxd'[b] = rxd[b]
  BY <1>1
<1>5. OwnNonce'
  BY <1>1, <1>2, <1>4 DEF OwnNonce
<1>6. RequestLast'
  BY <1>1, <1>3, <1>4 DEF RequestLast
<1>7. Unread' \subseteq Unread
  BY <1>3, <1>4 DEF Unread
<1>8. Head(rxd[c]).cmd # "hello" => c \in Unread /\ c \notin Unread'
  BY <1>1, <1>3, <1>4 DEF Unread, RequestLast
<1> QED
  BY <1>2, <1>5, <1>6, <1>7, <1>8

\* The daemon actions keep the invariant.
LEMMA DaemonAnswers ==
  ASSUME AnswersInv, ServedInv', NEW d \in Daemons,
         Start(d) \/ StartFails(d) \/ Kill(d) \/ DaemonStep(d)
  PROVE  AnswersInv'
<1> USE DEF procVars, chanVars, listenVars, loopVars
<1>a. /\ TypeOK /\ ServesOne /\ OneRunning /\ OwnNonce /\ RequestLast
      /\ UsedNonces /\ PeerMeasured /\ WritesAnswer /\ GotNothing
      /\ AnswersMatch /\ TypeInv
  BY DEF AnswersInv, ServedInv, TypeInv
<1>b. UNCHANGED procVars
  BY DEF Start, StartFails, Kill, DaemonStep, Accept, AcceptFails, ReadHello,
         ReadRequest, ReadHangs, ReadEof, ReadReset, WriteHead, WriteBody,
         WriteKilled
<1>c. GotNothing' /\ OneRunning'
  BY <1>a, <1>b DEF GotNothing, OneRunning, Running
<1>d. rxc' = rxc => AnswersMatch'
  BY <1>a, <1>b DEF AnswersMatch, AnswerFor
<1>e. rxd' = rxd => OwnNonce' /\ RequestLast' /\ Unread' = Unread
  BY <1>a, <1>b DEF OwnNonce, RequestLast, Unread
<1>f. UNCHANGED <<slot, lastq>> /\ Unread' \subseteq Unread => UsedNonces'
  BY <1>a, UsedStay
<1>1. CASE /\ UNCHANGED <<rxd, rxc, con, table, apphash, out, lastq, slot>>
           /\ \E x : dpc' = [dpc EXCEPT ![d] = x] /\ x \notin Serving
  <2>1. \A e \in Daemons : dpc'[e] \in Serving => dpc'[e] = dpc[e]
    BY <1>a, <1>1 DEF TypeOK
  <2>2. PeerMeasured'
    BY <1>a, <1>b, <1>1, <2>1 DEF PeerMeasured, ClientClosed
  <2>3. WritesAnswer'
    BY <1>a, <1>b, <1>1, <2>1 DEF WritesAnswer, AnswerFor, ClientClosed, Serving
  <2> QED
    BY <1>1, <1>c, <1>d, <1>e, <1>f, <2>2, <2>3 DEF AnswersInv
<1>2. CASE Accept(d)
  <2>1. PeerMeasured'
    BY <1>2, AcceptMeasures
  <2>2. /\ dpc' = [dpc EXCEPT ![d] = "read"]
        /\ \A e \in Daemons \ {d} : con'[e] = con[e]
        /\ UNCHANGED <<rxd, rxc, out, lastq, slot>>
    BY <1>a, <1>2 DEF Accept, TypeOK
  <2>3. WritesAnswer'
    BY <1>a, <1>b, <2>2 DEF WritesAnswer, AnswerFor, TypeOK, ClientClosed
  <2> QED
    BY <1>c, <1>d, <1>e, <1>f, <2>1, <2>2, <2>3 DEF AnswersInv
<1>3. CASE ReadHello(d) \/ ReadRequest(d) \/ ReadHangs(d)
  <2> DEFINE c == con[d]
  <2>1. /\ dpc[d] = "read" /\ rxd[c] # <<>>
        /\ rxd' = [rxd EXCEPT ![c] = Tail(@)]
        /\ UNCHANGED <<rxc, con, table, apphash>>
    BY <1>3 DEF ReadHello, ReadRequest, ReadHangs
  <2>2. c \in Calls
    BY <1>a, <2>1 DEF ServesOne, Serving
  <2>3. /\ OwnNonce' /\ RequestLast' /\ Unread' \subseteq Unread
        /\ Head(rxd[c]).nonce = c
        /\ Head(rxd[c]).cmd # "hello" => c \in Unread /\ c \notin Unread'
    BY <1>b, <2>1, <2>2, TakeRequests
  <2>5. CASE ReadHello(d)
    <3>1. UNCHANGED <<dpc, out, lastq, slot>>
      BY <2>5 DEF ReadHello
    <3> QED
      BY <1>a, <1>b, <1>c, <1>d, <1>f, <2>1, <2>3, <3>1
         DEF AnswersInv, PeerMeasured, WritesAnswer, AnswerFor, ClientClosed
  <2>6. CASE ReadRequest(d)
    <3> DEFINE cmd == Head(rxd[c]).cmd
    <3>1. MakeReply(d, cmd, Head(rxd[c]).nonce) /\ cmd # "hello"
      BY <2>6 DEF ReadRequest
    <3>2. c \in Nonces /\ c \in Unread /\ c \notin Unread'
      BY <2>2, <2>3, <3>1 DEF Nonces
    <3> HIDE DEF cmd
    <3>3. MakeReply(d, cmd, c)
      BY <2>3, <3>1
    <3>4. /\ ~ClientClosed(c) => AnswerFor(c, out'[d])
          /\ UsedNonces'
      BY <2>1, <2>3, <3>2, <3>3, MakeReplyAnswers
    <3>5. /\ \A e \in Daemons \ {d} : out'[e] = out[e]
          /\ dpc' = [dpc EXCEPT ![d] = "head"]
      BY <1>a, <2>1, <3>2, <3>3, MakeReplyType
    <3>6. PeerMeasured'
      BY <1>a, <1>b, <2>1, <3>5 DEF PeerMeasured, ClientClosed, Serving, TypeOK
    <3>7. WritesAnswer'
      BY <1>a, <1>b, <2>1, <3>4, <3>5
         DEF WritesAnswer, ClientClosed, TypeOK, AnswerFor
    <3> QED
      BY <1>c, <1>d, <2>1, <2>3, <3>4, <3>6, <3>7 DEF AnswersInv
  <2>7. CASE ReadHangs(d)
    <3>1. UNCHANGED <<out, lastq, slot>> /\ dpc' = [dpc EXCEPT ![d] = "hung"]
      BY <2>7 DEF ReadHangs
    <3>2. PeerMeasured' /\ WritesAnswer'
      BY <1>a, <1>b, <2>1, <3>1
         DEF TypeOK, PeerMeasured, WritesAnswer, AnswerFor, ClientClosed, Serving
    <3> QED
      BY <1>c, <1>d, <1>f, <2>1, <2>3, <3>1, <3>2 DEF AnswersInv
  <2> QED
    BY <1>3, <2>5, <2>6, <2>7
<1>4. CASE ReadReset(d)
  <2>1. /\ dpc[d] = "read" /\ ClientClosed(con[d])
        /\ UNCHANGED <<rxd, rxc, con, table, apphash>>
    BY <1>4 DEF ReadReset
  <2>2. con[d] \in Calls
    BY <1>a, <2>1 DEF ServesOne, Serving
  <2>3. CASE \E cmd \in {"attest", "pica"} : MakeReply(d, cmd, Junk)
    <3>1. PICK cmd \in {"attest", "pica"} : MakeReply(d, cmd, Junk)
      BY <2>3
    <3>2. Junk \in Nonces
      BY DEF Nonces
    <3>3. UsedNonces'
      BY <1>e, <2>1, <3>1, <3>2, MakeReplyAnswers
    <3>4. /\ \A e \in Daemons \ {d} : out'[e] = out[e]
          /\ dpc' = [dpc EXCEPT ![d] = "head"]
      BY <1>a, <2>1, <3>1, <3>2, MakeReplyType
    <3>5. PeerMeasured' /\ WritesAnswer'
      BY <1>a, <1>b, <2>1, <3>4
         DEF TypeOK, PeerMeasured, WritesAnswer, AnswerFor, ClientClosed, Serving
    <3> QED
      BY <1>c, <1>d, <1>e, <2>1, <3>3, <3>5 DEF AnswersInv
  <2>4. CASE UNCHANGED <<dpc, out, lastq, slot>>
    BY <1>a, <1>b, <1>c, <1>d, <1>e, <1>f, <2>1, <2>4
       DEF AnswersInv, PeerMeasured, WritesAnswer, AnswerFor, ClientClosed
  <2>5. CASE /\ UNCHANGED <<out, lastq, slot>>
             /\ \E x \in {"accept", "hung", "killed"} : dpc' = [dpc EXCEPT ![d] = x]
    BY <1>1, <2>1, <2>5 DEF Serving
  <2> QED
    BY <1>4, <2>3, <2>4, <2>5 DEF ReadReset, Stop
<1>5. CASE WriteHead(d) \/ WriteBody(d)
  <2> DEFINE c == con[d]
  <2>1. /\ dpc[d] \in {"head", "body"} /\ ~ClientClosed(c)
        /\ UNCHANGED <<rxd, con, table, apphash, out, lastq, slot>>
        /\ \E x \in {"body", "read"} : dpc' = [dpc EXCEPT ![d] = x]
    BY <1>5 DEF WriteHead, WriteBody
  <2>2. c \in Calls /\ out[d] \in Reply /\ AnswerFor(c, out[d])
    BY <1>a, <2>1 DEF ServesOne, Serving, WritesAnswer
  <2>3. PICK part \in {"head", "body"} :
          rxc' = [rxc EXCEPT ![c] = Append(@, [part |-> part, reply |-> out[d]])]
    BY <1>5 DEF WriteHead, WriteBody
  <2> DEFINE f == [part |-> part, reply |-> out[d]]
  <2>4. f \in Frame /\ f.reply = out[d]
    BY <2>2 DEF Frame
  <2> HIDE DEF f
  <2>5. rxc' = [rxc EXCEPT ![c] = Append(@, f)]
    BY <2>3 DEF f
  <2>6. \A b \in Calls : rxc[b] \in Seq(Frame) /\ Answers(b, rxc[b])
    BY <1>a DEF TypeOK, AnswersMatch, Answers
  <2>7. Answers(c, Append(rxc[c], f))
    BY <2>2, <2>4, <2>6, AnswersAppend
  <2>8. \A b \in Calls : Answers(b, rxc'[b])
    BY <1>a, <2>2, <2>5, <2>6, <2>7 DEF TypeOK
  <2>9. AnswersMatch'
    BY <1>a, <1>b, <2>8 DEF AnswersMatch, Answers, AnswerFor
  <2>10. PeerMeasured' /\ WritesAnswer'
    BY <1>a, <1>b, <2>1, <2>2
       DEF TypeOK, PeerMeasured, WritesAnswer, AnswerFor, ClientClosed, Serving
  <2> QED
    BY <1>c, <1>e, <1>f, <2>1, <2>9, <2>10 DEF AnswersInv
<1>6. CASE \/ Start(d) \/ StartFails(d) \/ Kill(d)
           \/ AcceptFails(d) \/ ReadEof(d) \/ WriteKilled(d)
  <2>1. UNCHANGED <<rxd, rxc, con, table, apphash, out, lastq, slot>>
    BY <1>6 DEF Start, StartFails, Kill, AcceptFails, ReadEof, WriteKilled
  <2>2. \E x \in {"accept", "ended", "killed"} : dpc' = [dpc EXCEPT ![d] = x]
    BY <1>6 DEF Start, StartFails, Kill, AcceptFails, ReadEof, WriteKilled, Stop
  <2>3. {"accept", "ended", "killed"} \cap Serving = {}
    BY DEF Serving
  <2> QED
    BY <1>1, <2>1, <2>2, <2>3
<1> QED
  BY <1>2, <1>3, <1>4, <1>5, <1>6 DEF DaemonStep

\* AnswersInv is inductive.
LEMMA AnswersInvStep ==
  ASSUME AnswersInv, [Next]_vars
  PROVE  AnswersInv'
<1>0. ServedInv'
  BY ServedStep DEF AnswersInv
<1>a. /\ TypeOK /\ ServesOne /\ OneRunning /\ OwnNonce /\ RequestLast
      /\ UsedNonces /\ PeerMeasured /\ WritesAnswer /\ GotNothing
      /\ AnswersMatch
  BY DEF AnswersInv, ServedInv, TypeInv
<1>1. ASSUME alive' \subseteq alive, UNCHANGED loopVars, Unread' \subseteq Unread
      PROVE  PeerMeasured' /\ WritesAnswer' /\ UsedNonces'
  <2>1. UsedNonces'
    BY <1>a, <1>1, UsedStay DEF loopVars
  <2> QED
    BY <1>a, <1>1, <2>1 DEF loopVars, PeerMeasured, WritesAnswer,
                            AnswerFor, ClientClosed
<1>2. CASE \E c \in Calls : Connect(c) \/ ConnectRefused(c) \/ ClientStep(c)
  <2>1. PICK c \in Calls : Connect(c) \/ ConnectRefused(c) \/ ClientStep(c)
    BY <1>2
  <2>2. UNCHANGED loopVars
    BY <2>1, ClientKeepsLoop
  <2>3. OwnNonce' /\ AnswersMatch' /\ GotNothing'
    BY <2>1, ClientAnswers
  <2>4. OneRunning' /\ alive' \subseteq alive
    BY <1>a, <2>1, ClientRunning, ClientMovesOne
  <2>5. RequestLast' /\ Unread' \subseteq Unread
    BY <1>a, <2>1, ClientRequests
  <2> QED
    BY <1>0, <1>1, <2>2, <2>3, <2>4, <2>5 DEF AnswersInv
<1>3. CASE \E p \in Procs : Exit(p) \/ Crash(p)
  <2>1. PICK p \in Procs : Exit(p) \/ Crash(p)
    BY <1>3
  <2>2. /\ alive' \subseteq alive
        /\ UNCHANGED <<cst, got, rxd, rxc, loopVars>>
    BY <2>1, ProcessStep
  <2>3. /\ OwnNonce' /\ AnswersMatch' /\ GotNothing' /\ RequestLast'
        /\ Unread' = Unread /\ OneRunning'
    BY <1>a, <2>2 DEF OwnNonce, AnswersMatch, GotNothing, AnswerFor,
                      RequestLast, Unread, OneRunning, Running
  <2> QED
    BY <1>0, <1>1, <2>2, <2>3 DEF AnswersInv
<1>4. CASE \E d \in Daemons : Start(d) \/ StartFails(d) \/ Kill(d) \/ DaemonStep(d)
  BY <1>0, <1>4, DaemonAnswers
<1>5. CASE UNCHANGED vars
  <2>1. UNCHANGED <<alive, cst, got, rxd, rxc, loopVars>>
    BY <1>5 DEF vars, procVars, chanVars, listenVars
  <2>2. /\ OwnNonce' /\ AnswersMatch' /\ GotNothing' /\ RequestLast'
        /\ Unread' = Unread /\ OneRunning'
    BY <1>a, <2>1 DEF OwnNonce, AnswersMatch, GotNothing, AnswerFor,
                      RequestLast, Unread, OneRunning, Running
  <2> QED
    BY <1>0, <1>1, <2>1, <2>2 DEF AnswersInv
<1> QED
  BY <1>2, <1>3, <1>4, <1>5 DEF Next

\* In the initial state nothing runs, was sent, measured or signed.
LEMMA AnswersInvInit ==
  ASSUME Init
  PROVE  AnswersInv
<1>1. ServedInv
  BY ServedInit
<1>2. OneRunning /\ OwnNonce /\ GotNothing /\ AnswersMatch
  BY DEF Init, OneRunning, Running, OwnNonce, GotNothing, AnswersMatch
<1>3. RequestLast
  BY DEF Init, RequestLast, LastOnly, HasRequest
<1>4. UsedNonces
  BY ConstantsAssumption DEF Init, UsedNonces, Unread
<1>5. PeerMeasured /\ WritesAnswer
  BY DEF Init, PeerMeasured, WritesAnswer, Serving
<1> QED
  BY <1>1, <1>2, <1>3, <1>4, <1>5 DEF AnswersInv

\* No client is handed evidence about another process, an answer to another
\* request, or an old quote as one over its nonce, for any number of clients,
\* daemons and restarts and all faults: but for what comes from the table
\* (libmeasurement.c:335-340), or after a measurement or an unsealing that
\* failed, whose results nobody checks (tpmdaemon.c:416, 432).
THEOREM AnswersCorrect == Spec => []AnswersMatch
<1>1. AnswersInv /\ [Next]_vars => AnswersInv'
  BY AnswersInvStep
<1>2. AnswersInv => AnswersMatch
  BY DEF AnswersInv
<1>3. Init => AnswersInv
  BY AnswersInvInit
<1> QED
  BY <1>1, <1>2, <1>3, PTL DEF Spec

-----------------------------------------------------------------------------
\* A step of a client call changes its stage only: it is connected, or moves
\* on while it asks, or returns with a reply, or returns without one.
LEMMA ClientMoves ==
  ASSUME AnswersInv, NEW c \in Calls,
         Connect(c) \/ ConnectRefused(c) \/ ClientStep(c)
  PROVE  \/ UNCHANGED <<cst, got>>
         \/ /\ cst[c] \in {"new"} \cup Asking
            /\ UNCHANGED got
            /\ cst' = [cst EXCEPT ![c] = "fail"]
         \/ /\ cst[c] \in Asking /\ Kind[c] = "pica"
            /\ UNCHANGED got
            /\ cst' = [cst EXCEPT ![c] = "void"]
         \/ /\ cst[c] = "new" /\ cst' = [cst EXCEPT ![c] = "connected"]
            /\ UNCHANGED got
         \/ /\ cst[c] \in Asking
            /\ \E x \in Asking : cst' = [cst EXCEPT ![c] = x]
            /\ UNCHANGED got
         \/ /\ cst[c] \in Asking /\ cst' = [cst EXCEPT ![c] = "ok"]
            /\ \E r : got' = [got EXCEPT ![c] = r]
<1>0. /\ cst \in [Calls -> {"new"} \cup Asking \cup Returned]
      /\ got \in [Calls -> Reply \cup {None}]
      /\ cst[c] # "ok" => got[c] = None
  BY DEF AnswersInv, ServedInv, TypeInv, TypeOK, GotNothing
<1>1. ASSUME NEW st, NEW rx, Return(c, st, None, rx), cst[c] # "ok"
      PROVE  cst' = [cst EXCEPT ![c] = st] /\ UNCHANGED got
  BY <1>0, <1>1 DEF Return
<1>2. TooLong(c) = "fail" \/ (TooLong(c) = "void" /\ Kind[c] = "pica")
  BY DEF TooLong
<1>3. CASE Connect(c)
  BY <1>3 DEF Connect
<1>4. CASE ConnectRefused(c)
  BY <1>1, <1>4 DEF ConnectRefused
<1>5. CASE SendHello(c) \/ Send(c)
  BY <1>5 DEF SendHello, Send, Ready, Asking
<1>6. CASE SendKilled(c)
  BY <1>6 DEF SendKilled
<1>7. CASE RecvHead(c)
  BY <1>1, <1>2, <1>7 DEF RecvHead, Asking
<1>8. CASE RecvHeadReset(c) \/ RecvEof(c)
  BY <1>1, <1>2, <1>8 DEF RecvHeadReset, RecvEof, Asking
<1>9. CASE RecvBody(c)
  BY <1>9 DEF RecvBody, Return, Asking
<1> QED
  BY <1>3, <1>4, <1>5, <1>6, <1>7, <1>8, <1>9 DEF ClientStep

\* The daemon and the ends of processes are invisible to EvidenceService.
LEMMA OthersInvisible ==
  ASSUME \/ \E p \in Procs : Exit(p) \/ Crash(p)
         \/ \E d \in Daemons : Start(d) \/ StartFails(d) \/ Kill(d) \/ DaemonStep(d)
  PROVE  UNCHANGED <<cst, got>>
BY DEF Exit, Crash, Start, StartFails, Kill, DaemonStep, Accept, AcceptFails,
       ReadHello, ReadRequest, ReadHangs, ReadEof, ReadReset, WriteHead,
       WriteBody, WriteKilled, procVars

\* Every step of the daemon and its clients is a step of EvidenceService or
\* none: Connect asks, RecvBody answers, and the other returns fail or, in
\* pica_request_measure, pass over the missing reply in silence.
LEMMA ServiceStep ==
  ASSUME AnswersInv, AnswersInv', [Next]_vars
  PROVE  [Service!Next]_<<Stage, got>>
<1>0. /\ cst \in [Calls -> {"new"} \cup Asking \cup Returned]
      /\ got \in [Calls -> Reply \cup {None}]
  BY DEF AnswersInv, ServedInv, TypeInv, TypeOK
<1>1. UNCHANGED <<cst, got>> => UNCHANGED <<Stage, got>>
  BY DEF Stage
<1>2. ASSUME NEW c \in Calls,
             Connect(c) \/ ConnectRefused(c) \/ ClientStep(c)
      PROVE  [Service!Next]_<<Stage, got>>
  <2>0. ASSUME NEW x, cst' = [cst EXCEPT ![c] = x]
        PROVE  Stage' = [Stage EXCEPT ![c] =
                           IF x = "new" THEN "idle"
                           ELSE IF x \in Asking THEN "asked"
                           ELSE IF x = "ok" THEN "answered"
                           ELSE IF x = "void" THEN "empty" ELSE "failed"]
    BY <1>0, <2>0 DEF Stage
  <2>1. CASE UNCHANGED <<cst, got>>
    BY <1>1, <2>1
  <2>2. CASE /\ cst[c] \in {"new"} \cup Asking
             /\ UNCHANGED got
             /\ cst' = [cst EXCEPT ![c] = "fail"]
    <3>1. Stage' = [Stage EXCEPT ![c] = "failed"]
      <4>1. \A b \in Calls \ {c} : cst'[b] = cst[b]
        BY <1>0, <2>2
      <4>2. cst'[c] = "fail"
        BY <1>0, <2>2
      <4> QED
        BY <4>1, <4>2 DEF Stage, Asking
    <3>2. Stage[c] \in {"idle", "asked"}
      BY <2>2 DEF Stage
    <3> QED
      BY <2>2, <3>1, <3>2 DEF Service!Next, Service!Fail
  <2>6. CASE /\ cst[c] \in Asking /\ Kind[c] = "pica"
             /\ UNCHANGED got
             /\ cst' = [cst EXCEPT ![c] = "void"]
    <3>1. Stage' = [Stage EXCEPT ![c] = "empty"]
      BY <2>0, <2>6 DEF Asking
    <3>2. Stage[c] = "asked"
      BY <2>6 DEF Stage, Asking
    <3> QED
      BY <2>6, <3>1, <3>2 DEF Service!Next, Service!Empty, Silent
  <2>3. CASE /\ cst[c] = "new" /\ cst' = [cst EXCEPT ![c] = "connected"]
             /\ UNCHANGED got
    <3>1. Stage' = [Stage EXCEPT ![c] = "asked"]
      BY <2>0, <2>3 DEF Asking
    <3>2. Stage[c] = "idle"
      BY <2>3 DEF Stage
    <3> QED
      BY <2>3, <3>1, <3>2 DEF Service!Next, Service!Ask
  <2>4. CASE /\ cst[c] \in Asking
             /\ \E x \in Asking : cst' = [cst EXCEPT ![c] = x]
             /\ UNCHANGED got
    <3>1. Stage' = Stage
      BY <1>0, <2>4 DEF Stage, Asking
    <3> QED
      BY <2>4, <3>1
  <2>5. CASE /\ cst[c] \in Asking /\ cst' = [cst EXCEPT ![c] = "ok"]
             /\ \E r : got' = [got EXCEPT ![c] = r]
    <3>1. Stage' = [Stage EXCEPT ![c] = "answered"]
      BY <2>0, <2>5 DEF Asking
    <3>2. Stage[c] = "asked"
      BY <2>5 DEF Stage, Asking
    <3>3. got' = [got EXCEPT ![c] = got'[c]]
      BY <1>0, <2>5
    <3>4. AnswerFor(c, got'[c])
      BY <1>0, <2>5 DEF AnswersInv, AnswersMatch, AnswerFor
    <3>5. Service!Fits(c, got'[c])
      BY <3>4 DEF AnswerFor, Service!Fits
    <3> QED
      BY <3>1, <3>2, <3>3, <3>5 DEF Service!Next, Service!Answer
  <2> QED
    BY <1>2, <2>1, <2>2, <2>3, <2>4, <2>5, <2>6, ClientMoves
<1>3. CASE UNCHANGED vars
  BY <1>1, <1>3 DEF vars, procVars
<1> QED
  BY <1>1, <1>2, <1>3, OthersInvisible DEF Next

\* The daemon and its clients implement EvidenceService: whatever is killed,
\* restarted or fails on the way, each call is answered at most once, by
\* evidence that fits it, and only pica_request_measure returns 0 without.
THEOREM ServiceCorrect == Spec => ServiceSpec
<1>1. AnswersInv /\ [Next]_vars => AnswersInv'
  BY AnswersInvStep
<1>2. Init => AnswersInv
  BY AnswersInvInit
<1>3. Init => Service!Init
  BY DEF Init, Service!Init, Stage
<1>4. AnswersInv /\ AnswersInv' /\ [Next]_vars => [Service!Next]_<<Stage, got>>
  BY ServiceStep
<1> QED
  BY <1>1, <1>2, <1>3, <1>4, PTL DEF Spec, ServiceSpec, Service!Spec
=============================================================================
