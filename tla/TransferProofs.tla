--------------------------- MODULE TransferProofs ---------------------------
(***************************************************************************)
(* Proofs about what a reader is given of what a writer sent: about        *)
(* SockStream, for every list of message sizes and every width of size_t   *)
(* that holds them, and about TlsProgram, for any number of programs and   *)
(* whatever they are told.  The two have nothing to do with each other but *)
(* the question.                                                           *)
(***************************************************************************)
EXTENDS SockStream, TlsProgram, SequenceTheorems, TLAPS

\* The size_t sum of a count and what is left of a message does not wrap.
LEMMA AddExact ==
  ASSUME NEW t \in Nat, NEW n \in Nat, t + n < SizeMax
  PROVE  Add(t, n) = t + n
BY StreamAssumption, SMTT(30) DEF Add

\* The size_t sum of a count and the -1 of an error is one less, or SizeMax.
LEMMA AddError ==
  ASSUME NEW t \in Nat, t < SizeMax
  PROVE  Add(t, Error) = IF t = 0 THEN SizeMax ELSE t - 1
<1>1. CASE t = 0
  BY <1>1, StreamAssumption DEF Add, Error
<1>2. CASE t > 0
  <2>1. t + SizeMax = 1 * (SizeMax + 1) + (t - 1)
    <3>1. SizeMax \in Nat
      BY StreamAssumption
    <3>2. 1 * (SizeMax + 1) = SizeMax + 1
      BY <3>1
    <3> QED
      BY <3>1, <3>2
  <2> QED
    BY <1>2, <2>1, StreamAssumption DEF Add, Error
<1> QED
  BY <1>1, <1>2

\* Messages follow one another in the numbering of the bytes.
LEMMA SizeFacts ==
  ASSUME NEW i \in 1..N
  PROVE  /\ Start[i] \in Nat /\ Start[i + 1] \in Nat
         /\ Size(i) \in Nat \ {0} /\ Size(i) < SizeMax
         /\ Start[i + 1] = Start[i] + Size(i)
BY StreamAssumption DEF Size

Buffers == UNION {Buffer(i) : i \in 1..N}

\* TypeOK, and every buffer returned is a buffer.
TypeInv == TypeOK /\ got \in Seq(Buffers)

\* What the loop of sock_send does with a count: the call goes on with it, or
\* returns and the next message begins.
LEMMA SendLoopType ==
  ASSUME smsg \in 1..N, NEW t \in Nat, SendLoop(t)
  PROVE  /\ smsg' \in 1..(N + 1)
         /\ stot' \in Nat /\ (smsg' <= N => stot' < Size(smsg'))
<1>1. CASE t < Size(smsg)
  BY <1>1, StreamAssumption DEF SendLoop
<1>2. CASE ~(t < Size(smsg))
  <2>1. smsg' = smsg + 1 /\ stot' = 0
    BY <1>2 DEF SendLoop
  <2>2. smsg' \in 1..(N + 1)
    BY <2>1, StreamAssumption
  <2>3. smsg' <= N => Size(smsg') > 0
    BY <2>2, StreamAssumption
  <2> QED
    BY <2>1, <2>2, <2>3
<1> QED
  BY <1>1, <1>2

\* What the loop of sock_recv does with a count and a buffer.
LEMMA RecvLoopType ==
  ASSUME TypeInv, rst = "recv", NEW t \in Nat, NEW b \in Buffer(rmsg),
         RecvLoop(t, b)
  PROVE  /\ rmsg' \in 1..(N + 1)
         /\ rtot' \in Nat /\ (rmsg' <= N => rtot' < Size(rmsg'))
         /\ rmsg' <= N => buf' \in Buffer(rmsg')
         /\ got' \in Seq(Buffers) /\ Len(got') = rmsg' - 1
         /\ rst' \in {"recv", "done", "failed"}
         /\ rst' = "recv" => rmsg' <= N
<1>0. /\ rmsg \in 1..N /\ N \in Nat
      /\ got \in Seq(Buffers) /\ Len(got) = rmsg - 1
      /\ Buffer(rmsg) \subseteq Buffers
  BY StreamAssumption DEF TypeInv, TypeOK, Buffers
<1>1. CASE t < Size(rmsg)
  <2>1. rtot' = t /\ buf' = b /\ UNCHANGED <<rmsg, got, rst>>
    BY <1>1 DEF RecvLoop
  <2> QED
    BY <1>0, <1>1, <2>1
<1>2. CASE ~(t < Size(rmsg))
  <2>1. /\ rtot' = 0 /\ rmsg' = rmsg + 1 /\ got' = Append(got, b)
        /\ rst' = IF rmsg = N THEN "done" ELSE "recv"
        /\ rmsg # N => buf' = Fresh(rmsg + 1)
    BY <1>2 DEF RecvLoop
  <2>2. got' \in Seq(Buffers) /\ Len(got') = Len(got) + 1
    BY <1>0, <2>1, AppendProperties
  <2>3. rmsg # N => Fresh(rmsg + 1) \in Buffer(rmsg + 1)
    BY DEF Fresh, Buffer
  <2>4. rmsg # N => rmsg + 1 \in 1..N
    BY <1>0
  <2>5. rmsg # N => Size(rmsg + 1) > 0
    BY <2>4, StreamAssumption
  <2> QED
    BY <1>0, <2>1, <2>2, <2>3, <2>4, <2>5
<1> QED
  BY <1>1, <1>2

\* Every write and recv, also one that fails, keeps the types and leaves both
\* counts within their message.
LEMMA TypeStep ==
  ASSUME TypeInv, [Next]_vars
  PROVE  TypeInv'
<1> USE StreamAssumption DEF sendVars, recvVars
<1>1. CASE \E n \in 1..SizeMax : Write(n)
  <2>1. PICK n \in 1..SizeMax : Write(n)
    BY <1>1
  <2>2. smsg \in 1..N /\ stot \in Nat /\ n \in 1..(Size(smsg) - stot)
    BY <2>1 DEF Write, TypeInv, TypeOK
  <2>3. Size(smsg) \in Nat /\ Size(smsg) < SizeMax
    BY <2>2, SizeFacts
  <2>4. stot + n < SizeMax /\ stot + n \in Nat
    BY <2>2, <2>3
  <2>5. SendLoop(stot + n)
    BY <2>1, <2>2, <2>4, AddExact DEF Write
  <2> DEFINE bytes == [k \in 1..n |-> Start[smsg] + stot + k - 1]
  <2>6. bytes \in Seq(Nat)
    <3>1. Start[smsg] \in Nat
      BY <2>2, SizeFacts
    <3>2. \A k \in 1..n : Start[smsg] + stot + k - 1 \in Nat
      BY <2>2, <3>1
    <3>3. bytes \in [1..n -> Nat]
      BY <3>2
    <3> QED
      BY <3>3, SeqDef
  <2>7. stream' = stream \o bytes
    BY <2>1 DEF Write
  <2> HIDE DEF bytes
  <2>8. stream' \in Seq(Nat) /\ Len(stream') = Len(stream) + Len(bytes)
    BY <2>6, <2>7, ConcatProperties DEF TypeInv, TypeOK
  <2>9. Len(bytes) \in Nat /\ Len(stream) \in Nat
    BY <2>6, LenProperties DEF TypeInv, TypeOK
  <2>10. /\ smsg' \in 1..(N + 1)
         /\ stot' \in Nat /\ (smsg' <= N => stot' < Size(smsg'))
    BY <2>2, <2>4, <2>5, SendLoopType
  <2>11. rpos \in 0..Len(stream')
    BY <2>8, <2>9 DEF TypeInv, TypeOK
  <2> QED
    BY <2>1, <2>8, <2>10, <2>11 DEF Write, TypeInv, TypeOK
<1>2. CASE WriteFails
  <2>1. smsg \in 1..N /\ stot \in Nat /\ stot < Size(smsg)
    BY <1>2 DEF WriteFails, TypeInv, TypeOK
  <2>2. Size(smsg) \in Nat /\ Size(smsg) < SizeMax
    BY <2>1, SizeFacts
  <2>3. Add(stot, Error) \in Nat
    BY <2>1, <2>2, AddError
  <2>4. /\ smsg' \in 1..(N + 1)
        /\ stot' \in Nat /\ (smsg' <= N => stot' < Size(smsg'))
    BY <1>2, <2>1, <2>3, SendLoopType DEF WriteFails
  <2> QED
    BY <1>2, <2>4 DEF WriteFails, TypeInv, TypeOK
<1>3. CASE Close
  BY <1>3 DEF Close, TypeInv, TypeOK
<1>4. CASE \E n \in 1..SizeMax : Recv(n)
  <2>1. PICK n \in 1..SizeMax : Recv(n)
    BY <1>4
  <2>2. /\ rst = "recv" /\ rmsg \in 1..N /\ rtot \in Nat
        /\ n \in 1..(Size(rmsg) - rtot)
        /\ buf \in Buffer(rmsg) /\ rpos \in Nat
        /\ stream \in Seq(Nat) /\ rpos + n <= Len(stream)
    BY <2>1, LenProperties DEF Recv, TypeInv, TypeOK
  <2>3. Size(rmsg) \in Nat /\ Size(rmsg) < SizeMax
    BY <2>2, SizeFacts
  <2>4. rtot + n < SizeMax /\ rtot + n \in Nat
    BY <2>2, <2>3
  <2> DEFINE b == [o \in DOMAIN buf |-> IF o \in rtot..(rtot + n - 1)
                                       THEN stream[rpos + (o - rtot) + 1]
                                       ELSE buf[o]]
  <2>5. RecvLoop(rtot + n, b)
    BY <2>1, <2>2, <2>4, AddExact DEF Recv
  <2>6. b \in Buffer(rmsg)
    <3>1. \A o \in rtot..(rtot + n - 1) :
             rpos + (o - rtot) + 1 \in 1..Len(stream)
      BY <2>2, LenProperties
    <3>2. \A j \in 1..Len(stream) : stream[j] \in Nat
      BY <2>2, ElementOfSeq
    <3>3. \A o \in rtot..(rtot + n - 1) : stream[rpos + (o - rtot) + 1] \in Nat
      BY <3>1, <3>2
    <3> QED
      BY <2>2, <3>3 DEF Buffer
  <2> HIDE DEF b
  <2>7. /\ rmsg' \in 1..(N + 1)
        /\ rtot' \in Nat /\ (rmsg' <= N => rtot' < Size(rmsg'))
        /\ rmsg' <= N => buf' \in Buffer(rmsg')
        /\ got' \in Seq(Buffers) /\ Len(got') = rmsg' - 1
        /\ rst' \in {"recv", "done", "failed"}
        /\ rst' = "recv" => rmsg' <= N
    BY <2>2, <2>4, <2>5, <2>6, RecvLoopType
  <2>8. rpos' = rpos + n /\ UNCHANGED <<stream, smsg, stot, wend, erred>>
    BY <2>1 DEF Recv
  <2>9. rpos' \in 0..Len(stream)
    BY <2>2, <2>8, LenProperties
  <2> QED
    BY <2>7, <2>8, <2>9 DEF TypeInv, TypeOK, Buffers, Buffer, Size
<1>5. CASE RecvError
  <2>1. /\ rst = "recv" /\ rmsg \in 1..N /\ rtot \in Nat /\ rtot < Size(rmsg)
        /\ buf \in Buffer(rmsg)
    BY <1>5 DEF RecvError, TypeInv, TypeOK
  <2>2. Size(rmsg) \in Nat /\ Size(rmsg) < SizeMax
    BY <2>1, SizeFacts
  <2>3. Add(rtot, Error) \in Nat
    BY <2>1, <2>2, AddError
  <2>4. /\ rmsg' \in 1..(N + 1)
        /\ rtot' \in Nat /\ (rmsg' <= N => rtot' < Size(rmsg'))
        /\ rmsg' <= N => buf' \in Buffer(rmsg')
        /\ got' \in Seq(Buffers) /\ Len(got') = rmsg' - 1
        /\ rst' \in {"recv", "done", "failed"}
        /\ rst' = "recv" => rmsg' <= N
    BY <1>5, <2>1, <2>3, RecvLoopType DEF RecvError
  <2>5. /\ wend' = "closed" /\ UNCHANGED <<stream, smsg, stot, rpos>>
        /\ erred' \in BOOLEAN
    BY <1>5 DEF RecvError
  <2> QED
    BY <2>4, <2>5 DEF TypeInv, TypeOK, Buffers, Buffer, Size
<1>6. CASE RecvEof
  BY <1>6 DEF RecvEof, TypeInv, TypeOK
<1>7. CASE UNCHANGED vars
  BY <1>7 DEF vars, TypeInv, TypeOK
<1> QED
  BY <1>1, <1>2, <1>3, <1>4, <1>5, <1>6, <1>7 DEF Next, Sender, Reader

\* sock_send and sock_recv keep totsz and the caller's buffer within bounds,
\* for all message sizes below SIZE_MAX, however write and recv cut the stream
\* and also when their -1 wraps around.
THEOREM TypeCorrect == Spec => []TypeOK
<1>1. Init => TypeInv
  <2>1. SUFFICES ASSUME Init PROVE TypeInv
    OBVIOUS
  <2>2. 1 \in 1..N /\ Fresh(1) \in Buffer(1)
    BY StreamAssumption DEF Fresh, Buffer
  <2>3. Size(1) > 0
    BY <2>2, SizeFacts
  <2>4. erred \in BOOLEAN
    BY <2>1 DEF Init
  <2> QED
    BY <2>1, <2>2, <2>3, <2>4, StreamAssumption, EmptySeq
    DEF Init, TypeInv, TypeOK
<1>2. TypeInv /\ [Next]_vars => TypeInv'
  BY TypeStep
<1>3. TypeInv => TypeOK
  BY DEF TypeInv
<1> QED
  BY <1>1, <1>2, <1>3, PTL DEF Spec

-----------------------------------------------------------------------------
\* While no call has failed: the stream holds the bytes of the messages
\* in order, the sender and the reader stand where their counts say, and the
\* bytes of the buffer below totsz are in place.
InOrder ==
    /\ Len(stream) = Start[smsg] + stot
    /\ \A k \in 1..Len(stream) : stream[k] = k - 1
    /\ rpos = Start[rmsg] + rtot
    /\ rmsg <= N => \A o \in 0..(rtot - 1) : buf[o] = Start[rmsg] + o
    /\ \A i \in 1..Len(got) : got[i] = Whole(i)

\* The strengthening of Delivered.
DeliveredInv == TypeInv /\ (~erred => InOrder)

\* A write appends the next bytes, of this message or of the next one.
LEMMA WriteDelivers ==
  ASSUME TypeInv, InOrder, TypeInv', NEW n \in 1..SizeMax, Write(n)
  PROVE  InOrder'
<1> USE StreamAssumption
<1>1. /\ smsg \in 1..N /\ stot \in Nat /\ n \in 1..(Size(smsg) - stot)
      /\ stream \in Seq(Nat)
  BY DEF Write, InOrder, TypeInv, TypeOK
<1>2. /\ Size(smsg) \in Nat /\ Size(smsg) < SizeMax /\ Start[smsg] \in Nat
      /\ Start[smsg + 1] = Start[smsg] + Size(smsg)
  BY <1>1, SizeFacts
<1>3. stot + n < SizeMax /\ stot + n \in Nat /\ stot + n <= Size(smsg)
  BY <1>1, <1>2
<1>4. SendLoop(stot + n)
  BY <1>1, <1>3, AddExact DEF Write
<1> DEFINE bytes == [k \in 1..n |-> Start[smsg] + stot + k - 1]
<1>5. bytes \in Seq(Nat) /\ Len(bytes) = n
  <2>1. \A k \in 1..n : Start[smsg] + stot + k - 1 \in Nat
    <3>1. PICK b \in Nat : b = Start[smsg] + stot
      BY <1>1, <1>2
    <3> QED
      BY <3>1
  <2>2. bytes \in [1..n -> Nat]
    BY <2>1
  <2>3. bytes \in Seq(Nat)
    BY <2>2, SeqDef
  <2>4. Len(bytes) = n
    BY <2>3, LenProperties
  <2> QED
    BY <2>3, <2>4
<1>6. \A k \in 1..n : bytes[k] = Start[smsg] + stot + k - 1
  OBVIOUS
<1>7. stream' = stream \o bytes
  BY DEF Write
<1> HIDE DEF bytes
<1>8. /\ Len(stream') = Len(stream) + n
      /\ \A k \in 1..(Len(stream) + n) :
            stream'[k] = IF k <= Len(stream) THEN stream[k]
                         ELSE bytes[k - Len(stream)]
  <2>1. /\ Len(stream \o bytes) = Len(stream) + Len(bytes)
        /\ \A k \in 1..(Len(stream) + Len(bytes)) :
              (stream \o bytes)[k] = IF k <= Len(stream) THEN stream[k]
                                     ELSE bytes[k - Len(stream)]
    <3>1. stream \in Seq(Nat) /\ bytes \in Seq(Nat)
      BY <1>1, <1>5
    <3> QED
      BY <3>1, ConcatProperties
  <2> QED
    BY <1>5, <1>7, <2>1
<1>9. Len(stream) = Start[smsg] + stot /\ Len(stream) \in Nat
  BY <1>1, LenProperties DEF InOrder
<1>10. Len(stream') = Start[smsg'] + stot'
  BY <1>1, <1>2, <1>3, <1>4, <1>8, <1>9, SMTT(30) DEF SendLoop
<1>11. \A k \in 1..Len(stream') : stream'[k] = k - 1
  <2>1. SUFFICES ASSUME NEW k \in 1..(Len(stream) + n)
                 PROVE  stream'[k] = k - 1
    BY <1>8
  <2>2. CASE k <= Len(stream)
    BY <1>8, <1>9, <2>2 DEF InOrder
  <2>3. CASE k > Len(stream)
    <3>1. k - Len(stream) \in 1..n
      BY <1>1, <1>9, <2>3
    <3>2. stream'[k] = Start[smsg] + stot + (k - Len(stream)) - 1
      <4>1. stream'[k] = bytes[k - Len(stream)]
        BY <1>8, <1>9, <2>3
      <4>2. bytes[k - Len(stream)] = Start[smsg] + stot + (k - Len(stream)) - 1
        BY <1>6, <3>1
      <4> QED
        BY <4>1, <4>2
    <3> QED
      BY <1>1, <1>2, <1>9, <3>2, SMTT(30)
  <2> QED
    BY <1>9, <2>2, <2>3
<1> QED
  BY <1>10, <1>11 DEF Write, InOrder, recvVars

\* A recv puts the next bytes at their place in the buffer, and sock_recv
\* returns when the last of them has come.
LEMMA RecvDelivers ==
  ASSUME TypeInv, InOrder, TypeInv', NEW n \in 1..SizeMax, Recv(n)
  PROVE  InOrder'
<1>0. n \in Nat \ {0} /\ SizeMax \in Nat
  BY StreamAssumption
<1>a. rmsg \in 1..N /\ rtot \in Nat /\ n <= Size(rmsg) - rtot
  BY DEF Recv, InOrder, TypeInv, TypeOK
<1>2. /\ Size(rmsg) \in Nat /\ Size(rmsg) < SizeMax /\ Start[rmsg] \in Nat
      /\ Start[rmsg + 1] = Start[rmsg] + Size(rmsg)
  BY <1>a, SizeFacts
<1>3. rtot + n < SizeMax /\ rtot + n \in Nat /\ rtot + n <= Size(rmsg)
  BY <1>0, <1>a, <1>2
<1>b. /\ buf \in Buffer(rmsg)
      /\ got \in Seq(Buffers) /\ Len(got) = rmsg - 1
  BY <1>a DEF InOrder, TypeInv, TypeOK, Buffers
<1>c. stream \in Seq(Nat) /\ Len(stream) \in Nat
  BY LenProperties DEF InOrder, TypeInv, TypeOK
<1>d. /\ rpos \in Nat /\ rpos + n <= Len(stream)
      /\ rpos = Start[rmsg] + rtot
  BY <1>c DEF Recv, InOrder, TypeInv, TypeOK
<1>e. \A k \in 1..Len(stream) : stream[k] = k - 1
  BY DEF InOrder
<1> DEFINE b == [o \in DOMAIN buf |-> IF o \in rtot..(rtot + n - 1)
                                     THEN stream[rpos + (o - rtot) + 1]
                                     ELSE buf[o]]
<1>f. rpos' = rpos + n
  BY DEF Recv
<1>4. RecvLoop(rtot + n, b)
  <2>1. Add(rtot, n) = rtot + n
    BY <1>0, <1>a, <1>3, AddExact
  <2> QED
    BY <2>1 DEF Recv
<1>5. DOMAIN b = 0..(Size(rmsg) - 1)
  BY <1>b DEF Buffer
<1>6. \A o \in 0..(rtot + n - 1) : b[o] = Start[rmsg] + o
  <2>1. SUFFICES ASSUME NEW o \in 0..(rtot + n - 1)
                 PROVE  b[o] = Start[rmsg] + o
    OBVIOUS
  <2>2. o \in DOMAIN buf
    BY <1>0, <1>a, <1>b, <1>2, <1>3 DEF Buffer
  <2>3. CASE o < rtot
    <3>1. b[o] = buf[o]
      BY <1>0, <1>a, <2>2, <2>3
    <3>2. o \in 0..(rtot - 1)
      BY <1>0, <1>a, <1>3, <2>3
    <3> QED
      BY <1>a, <3>1, <3>2 DEF InOrder
  <2>4. CASE ~(o < rtot)
    <3>1. b[o] = stream[rpos + (o - rtot) + 1]
      BY <1>0, <1>a, <1>3, <2>2, <2>4
    <3>2. rpos + (o - rtot) + 1 \in 1..Len(stream)
      BY <1>0, <1>a, <1>3, <1>c, <1>d, <2>4, SMTT(30)
    <3>3. b[o] = (rpos + (o - rtot) + 1) - 1
      BY <1>e, <3>1, <3>2
    <3> QED
      BY <1>0, <1>a, <1>2, <1>d, <3>3, SMTT(30)
  <2> QED
    BY <2>3, <2>4
<1>7. b \in Buffer(rmsg)
  <2>1. \A o \in rtot..(rtot + n - 1) : stream[rpos + (o - rtot) + 1] \in Nat
    <3>1. \A o \in rtot..(rtot + n - 1) :
             rpos + (o - rtot) + 1 \in 1..Len(stream)
      BY <1>0, <1>a, <1>3, <1>c, <1>d, SMTT(30)
    <3>2. \A i \in 1..Len(stream) : stream[i] \in Nat
      BY <1>c, ElementOfSeq
    <3> QED
      BY <3>1, <3>2
  <2> QED
    BY <1>b, <2>1 DEF Buffer
<1> HIDE DEF b
<1>8. CASE rtot + n < Size(rmsg)
  <2>1. rtot' = rtot + n /\ buf' = b /\ UNCHANGED <<rmsg, got, rst>>
    BY <1>4, <1>8 DEF RecvLoop
  <2>2. rpos' = Start[rmsg'] + rtot'
    <3>1. rpos' = (Start[rmsg] + rtot) + n
      BY <1>d, <1>f
    <3>2. Start[rmsg'] + rtot' = Start[rmsg] + (rtot + n)
      BY <2>1
    <3>3. Start[rmsg] \in Nat /\ rtot \in Nat /\ n \in Nat
      BY <1>0, <1>a, <1>2
    <3> QED
      BY <3>1, <3>2, <3>3
  <2>3. \A o \in 0..(rtot' - 1) : buf'[o] = Start[rmsg'] + o
    <3>1. \A o \in 0..(rtot' - 1) : o \in 0..(rtot + n - 1)
      BY <1>0, <1>a, <1>3, <2>1
    <3>2. buf' = b /\ Start[rmsg'] = Start[rmsg]
      BY <2>1
    <3> QED
      BY <1>6, <3>1, <3>2
  <2> QED
    BY <2>1, <2>2, <2>3 DEF InOrder, Recv, sendVars
<1>9. CASE ~(rtot + n < Size(rmsg))
  <2>0. rtot + n = Size(rmsg)
    BY <1>0, <1>a, <1>2, <1>3, <1>9
  <2>1. rtot' = 0 /\ rmsg' = rmsg + 1 /\ got' = Append(got, b)
    BY <1>4, <1>9 DEF RecvLoop
  <2>2. rpos' = Start[rmsg'] + rtot'
    <3>1. Start[rmsg'] = Start[rmsg] + Size(rmsg)
      BY <1>2, <2>1
    <3>2. rpos' = Start[rmsg] + Size(rmsg)
      BY <1>0, <1>a, <1>2, <1>d, <1>f, <2>0, SMTT(30)
    <3> QED
      BY <1>2, <2>1, <3>1, <3>2
  <2>3. b = [o \in 0..(Size(rmsg) - 1) |-> Start[rmsg] + o]
    <3>1. \A o \in 0..(Size(rmsg) - 1) : b[o] = Start[rmsg] + o
      <4>1. \A o \in 0..(Size(rmsg) - 1) : o \in 0..(rtot + n - 1)
        BY <1>0, <1>a, <1>2, <1>3, <2>0
      <4> QED
        BY <1>6, <4>1
    <3> DEFINE e == [o \in 0..(Size(rmsg) - 1) |-> Start[rmsg] + o]
    <3>2. b = [o \in 0..(Size(rmsg) - 1) |-> b[o]]
      BY <1>7 DEF Buffer
    <3>3. e = [o \in 0..(Size(rmsg) - 1) |-> e[o]]
      OBVIOUS
    <3>4. \A o \in 0..(Size(rmsg) - 1) : b[o] = e[o]
      BY <3>1
    <3> HIDE DEF e
    <3>5. b = e
      BY <3>2, <3>3, <3>4
    <3> QED
      BY <3>5 DEF e
  <2>4. b \in Buffers
    BY <1>a, <1>7 DEF Buffers
  <2>5. /\ Len(got') = Len(got) + 1
        /\ \A i \in 1..Len(got) : got'[i] = got[i]
        /\ got'[Len(got) + 1] = b
    BY <1>b, <2>1, <2>4, AppendProperties
  <2>6. \A i \in 1..Len(got') :
           got'[i] = Whole(i)
    <3>1. SUFFICES ASSUME NEW i \in 1..Len(got')
                   PROVE  got'[i] = Whole(i)
      OBVIOUS
    <3>2. CASE i \in 1..Len(got)
      BY <2>5, <3>2 DEF InOrder
    <3>3. CASE i = rmsg
      BY <1>a, <1>b, <2>3, <2>5, <3>3 DEF Whole
    <3> QED
      BY <1>a, <1>b, <2>5, <3>2, <3>3
  <2> QED
    BY <2>1, <2>2, <2>6 DEF InOrder, Recv, sendVars, Size, Whole
<1> QED
  BY <1>8, <1>9

\* sock_recv returns 0 only with the whole message, for all message sizes,
\* wherever the writer stops and however write and recv cut the stream, as
\* long as no call fails.
THEOREM DeliveredCorrect == Spec => []Delivered
<1>1. Init => DeliveredInv
  <2>1. SUFFICES ASSUME Init PROVE DeliveredInv
    OBVIOUS
  <2>2. 1 \in 1..N /\ Fresh(1) \in Buffer(1) /\ Size(1) > 0
    BY StreamAssumption DEF Fresh, Buffer
  <2>3. erred \in BOOLEAN
    BY <2>1 DEF Init
  <2>4. TypeInv
    BY <2>1, <2>2, <2>3, StreamAssumption, EmptySeq DEF Init, TypeInv, TypeOK
  <2>5. InOrder
    BY <2>1, StreamAssumption DEF Init, InOrder
  <2> QED
    BY <2>4, <2>5 DEF DeliveredInv
<1>2. DeliveredInv /\ [Next]_vars => DeliveredInv'
  <2>1. SUFFICES ASSUME DeliveredInv, [Next]_vars, ~erred' PROVE InOrder'
    BY TypeStep DEF DeliveredInv
  <2>2. TypeInv /\ TypeInv'
    BY <2>1, TypeStep DEF DeliveredInv
  <2>3. CASE \E n \in 1..SizeMax : Write(n)
    BY <2>1, <2>2, <2>3, WriteDelivers DEF DeliveredInv, Write
  <2>4. CASE \E n \in 1..SizeMax : Recv(n)
    BY <2>1, <2>2, <2>4, RecvDelivers DEF DeliveredInv, Recv
  <2>5. CASE WriteFails
    BY <2>1, <2>5 DEF WriteFails
  <2>6. CASE Close
    BY <2>1, <2>6 DEF Close, DeliveredInv, InOrder, sendVars, recvVars
  <2>7. CASE RecvError
    BY <2>1, <2>7 DEF RecvError
  <2>8. CASE RecvEof
    BY <2>1, <2>8 DEF RecvEof, DeliveredInv, InOrder, sendVars
  <2>9. CASE UNCHANGED vars
    BY <2>1, <2>9 DEF vars, sendVars, recvVars, DeliveredInv, InOrder
  <2> QED
    BY <2>1, <2>3, <2>4, <2>5, <2>6, <2>7, <2>8, <2>9 DEF Next, Sender, Reader
<1>3. DeliveredInv => Delivered
  BY DEF DeliveredInv, InOrder, Delivered
<1> QED
  BY <1>1, <1>2, <1>3, PTL DEF Spec

-----------------------------------------------------------------------------
(* What is received when a call has failed.                                *)

\* Message i is in the stream, and it is what sock_recv returned with.
Placed(i) ==
    /\ Start[i + 1] <= Len(stream)
    /\ got[i] = [o \in 0..(Size(i) - 1) |-> stream[Start[i] + o + 1]]

\* The reader's count agrees with its place in the stream, ...
Aligned ==
    /\ rpos = Start[rmsg] + rtot
    /\ rmsg <= N => \A o \in 0..(rtot - 1) : buf[o] = stream[Start[rmsg] + o + 1]
    /\ \A i \in 1..Len(got) : Placed(i)

\* ... unless its recv has failed: nothing more will come.
Drained ==
    /\ wend = "closed" /\ rpos = Len(stream)
    /\ \A i \in 1..(Len(got) - 1) : Placed(i)

DamageInv == TypeInv /\ (Aligned \/ Drained)

LEMMA StreamGrows ==
  ASSUME TypeInv, NEW n \in 1..SizeMax, Write(n)
  PROVE  /\ Len(stream) \in Nat /\ Len(stream') = Len(stream) + n
         /\ \A k \in 1..Len(stream) : stream'[k] = stream[k]
<1> DEFINE bytes == [k \in 1..n |-> Start[smsg] + stot + k - 1]
<1>1. n \in Nat /\ smsg \in 1..N /\ stot \in Nat /\ stream \in Seq(Nat)
  BY StreamAssumption DEF Write, TypeInv, TypeOK
<1>2. \A k \in 1..n : Start[smsg] + stot + k - 1 \in Nat
  BY <1>1, SizeFacts
<1>3. bytes \in [1..n -> Nat]
  BY <1>2
<1>4. bytes \in Seq(Nat)
  BY <1>1, <1>3, SeqDef
<1>5. Len(bytes) = n
  BY <1>1, <1>3, <1>4, LenProperties
<1>6. stream' = stream \o bytes
  BY DEF Write
<1> HIDE DEF bytes
<1>7. /\ Len(stream') = Len(stream) + n
      /\ \A k \in 1..(Len(stream) + n) :
            stream'[k] = IF k <= Len(stream) THEN stream[k] ELSE bytes[k - Len(stream)]
  BY <1>1, <1>4, <1>5, <1>6, ConcatProperties
<1>8. Len(stream) \in Nat
  BY <1>1, LenProperties
<1> QED
  BY <1>1, <1>7, <1>8

\* A message stays where it is while the stream grows.
LEMMA PlacedStays ==
  ASSUME NEW i \in 1..N, Placed(i), got'[i] = got[i], Len(stream) \in Nat,
         Len(stream') \in Nat, Len(stream') >= Len(stream),
         \A k \in 1..Len(stream) : stream'[k] = stream[k]
  PROVE  Placed(i)'
<1>1. Start[i] \in Nat /\ Start[i + 1] = Start[i] + Size(i) /\ Size(i) \in Nat
  BY SizeFacts
<1>2. \A o \in 0..(Size(i) - 1) : Start[i] + o + 1 \in 1..Len(stream)
  BY <1>1 DEF Placed
<1>3. [o \in 0..(Size(i) - 1) |-> stream'[Start[i] + o + 1]]
        = [o \in 0..(Size(i) - 1) |-> stream[Start[i] + o + 1]]
  BY <1>2
<1> QED
  BY <1>1, <1>3 DEF Placed, Size

LEMMA WriteKeepsPlace ==
  ASSUME DamageInv, NEW n \in 1..SizeMax, Write(n)
  PROVE  Aligned'
<1>1. /\ Len(stream) \in Nat /\ Len(stream') \in Nat /\ Len(stream') >= Len(stream)
      /\ \A k \in 1..Len(stream) : stream'[k] = stream[k]
  BY StreamGrows, StreamAssumption DEF DamageInv
<1>2. Aligned /\ UNCHANGED <<rpos, rmsg, rtot, buf, got>>
  BY DEF Write, DamageInv, Drained, recvVars
<1>3. rpos \in Nat /\ rpos <= Len(stream) /\ rtot \in Nat /\ rmsg \in 1..(N + 1)
      /\ Len(got) = rmsg - 1
  BY <1>1 DEF DamageInv, TypeInv, TypeOK
<1>4. rpos' = Start[rmsg'] + rtot'
  BY <1>2 DEF Aligned
<1>5. rmsg' <= N => \A o \in 0..(rtot' - 1) : buf'[o] = stream'[Start[rmsg'] + o + 1]
  <2>1. SUFFICES ASSUME rmsg <= N, NEW o \in 0..(rtot - 1)
                 PROVE  buf[o] = stream'[Start[rmsg] + o + 1]
    BY <1>2
  <2>2. rmsg \in 1..N /\ N \in Nat
    BY <1>3, <2>1, StreamAssumption
  <2>3. Start[rmsg] \in Nat
    BY <2>2, SizeFacts
  <2>4. Start[rmsg] + o + 1 \in 1..Len(stream)
    BY <1>1, <1>2, <1>3, <2>1, <2>3 DEF Aligned
  <2> QED
    BY <1>1, <1>2, <2>1, <2>4 DEF Aligned
<1>6. ASSUME NEW i \in 1..Len(got') PROVE Placed(i)'
  <2>1. i \in 1..N /\ Placed(i) /\ got'[i] = got[i]
    BY <1>2, <1>3, <1>6, StreamAssumption DEF Aligned
  <2> QED
    BY <1>1, <2>1, PlacedStays
<1> QED
  BY <1>4, <1>5, <1>6 DEF Aligned

\* What waits in the stream goes to its place in the buffer.
LEMMA RecvKeepsPlace ==
  ASSUME DamageInv, TypeInv', NEW n \in 1..SizeMax, Recv(n)
  PROVE  Aligned'
<1>0. n \in Nat \ {0} /\ SizeMax \in Nat /\ N \in Nat
  BY StreamAssumption
<1>1. /\ rmsg \in 1..N /\ rtot \in Nat /\ n <= Size(rmsg) - rtot
      /\ stream \in Seq(Nat) /\ Len(stream) \in Nat /\ rpos \in Nat /\ rpos + n <= Len(stream)
      /\ buf \in Buffer(rmsg) /\ got \in Seq(Buffers) /\ Len(got) = rmsg - 1
  BY <1>0, LenProperties DEF Recv, DamageInv, TypeInv, TypeOK, Buffers
<1>2. Aligned
  BY <1>0, <1>1 DEF DamageInv, Drained
<1>3. /\ Size(rmsg) \in Nat /\ Size(rmsg) < SizeMax /\ Start[rmsg] \in Nat
      /\ Start[rmsg + 1] = Start[rmsg] + Size(rmsg)
  BY <1>1, SizeFacts
<1>4. rtot + n < SizeMax /\ rtot + n \in Nat /\ rtot + n <= Size(rmsg)
  BY <1>0, <1>1, <1>3
<1> DEFINE b == [o \in DOMAIN buf |-> IF o \in rtot..(rtot + n - 1)
                                     THEN stream[rpos + (o - rtot) + 1]
                                     ELSE buf[o]]
<1>5. rpos = Start[rmsg] + rtot /\ rpos' = rpos + n /\ stream' = stream
  BY <1>2 DEF Recv, Aligned, sendVars
<1>6. RecvLoop(rtot + n, b)
  <2>1. Add(rtot, n) = rtot + n
    BY <1>0, <1>1, <1>4, AddExact
  <2> QED
    BY <2>1 DEF Recv
<1>7. DOMAIN buf = 0..(Size(rmsg) - 1)
  BY <1>1 DEF Buffer
<1>8. ASSUME NEW o \in 0..(rtot + n - 1) PROVE b[o] = stream[Start[rmsg] + o + 1]
  <2>1. o \in DOMAIN buf
    BY <1>0, <1>1, <1>3, <1>4, <1>7
  <2>2. CASE o < rtot
    <3>1. o \in 0..(rtot - 1) /\ o \notin rtot..(rtot + n - 1)
      BY <1>0, <1>1, <2>2
    <3>2. b[o] = buf[o]
      BY <2>1, <3>1
    <3> QED
      BY <1>0, <1>1, <1>2, <3>1, <3>2 DEF Aligned
  <2>3. CASE ~(o < rtot)
    <3>1. b[o] = stream[rpos + (o - rtot) + 1]
      BY <1>0, <1>1, <1>4, <2>1, <2>3
    <3>2. rpos + (o - rtot) + 1 = Start[rmsg] + o + 1
      BY <1>1, <1>3, <1>5, SMTT(30)
    <3> QED
      BY <3>1, <3>2
  <2> QED
    BY <2>2, <2>3
<1>9. b \in Buffer(rmsg)
  <2>1. \A o \in rtot..(rtot + n - 1) : rpos + (o - rtot) + 1 \in 1..Len(stream)
    BY <1>0, <1>1, <1>4
  <2>2. \A i \in 1..Len(stream) : stream[i] \in Nat
    BY <1>1, ElementOfSeq
  <2> QED
    BY <1>1, <2>1, <2>2 DEF Buffer
<1>10. DOMAIN b = 0..(Size(rmsg) - 1) /\ b = [o \in DOMAIN b |-> b[o]]
  BY <1>7
<1> HIDE DEF b
<1>11. \A i \in 1..Len(got) : Placed(i) /\ i \in 1..N
  BY <1>0, <1>1, <1>2 DEF Aligned
<1>12. CASE rtot + n < Size(rmsg)
  <2>1. rtot' = rtot + n /\ buf' = b /\ UNCHANGED <<rmsg, got, rst>>
    BY <1>6, <1>12 DEF RecvLoop
  <2>2. rpos' = Start[rmsg'] + rtot'
    BY <1>0, <1>1, <1>3, <1>5, <2>1, SMTT(30)
  <2>3. ASSUME NEW o \in 0..(rtot' - 1) PROVE buf'[o] = stream'[Start[rmsg'] + o + 1]
    <3>1. o \in 0..(rtot + n - 1)
      BY <1>0, <1>1, <1>4, <2>1, <2>3
    <3>2. b[o] = stream[Start[rmsg] + o + 1]
      BY <1>8, <3>1
    <3> QED
      BY <1>5, <2>1, <3>2
  <2>4. \A i \in 1..Len(got') : Placed(i)'
    BY <1>5, <1>11, <2>1 DEF Placed, Size
  <2> QED
    BY <2>2, <2>3, <2>4 DEF Aligned
<1>13. CASE ~(rtot + n < Size(rmsg))
  <2>1. rtot + n = Size(rmsg)
    <3>1. rtot + n \in Nat /\ Size(rmsg) \in Nat /\ rtot + n <= Size(rmsg)
      BY <1>3, <1>4
    <3> QED
      BY <1>13, <3>1
  <2>2. rtot' = 0 /\ rmsg' = rmsg + 1 /\ got' = Append(got, b)
    BY <1>6, <1>13 DEF RecvLoop
  <2>3. rpos' = Start[rmsg + 1]
    BY <1>0, <1>1, <1>3, <1>5, <2>1, SMTT(30)
  <2>4. b = [o \in 0..(Size(rmsg) - 1) |-> stream[Start[rmsg] + o + 1]]
    <3>1. \A o \in 0..(Size(rmsg) - 1) : b[o] = stream[Start[rmsg] + o + 1]
      <4>1. \A o \in 0..(Size(rmsg) - 1) : o \in 0..(rtot + n - 1)
        BY <1>0, <1>1, <1>3, <1>4, <2>1
      <4> QED
        BY <1>8, <4>1
    <3>2. b = [o \in 0..(Size(rmsg) - 1) |-> b[o]]
      BY <1>10
    <3> QED
      BY <3>1, <3>2
  <2>5. b \in Buffers
    BY <1>1, <1>9 DEF Buffers
  <2>6. /\ Len(got') = Len(got) + 1
        /\ \A i \in 1..Len(got) : got'[i] = got[i]
        /\ got'[rmsg] = b
    <3>1. got \in Seq(Buffers) /\ Len(got) + 1 = rmsg
      BY <1>1
    <3>2. /\ Len(Append(got, b)) = Len(got) + 1
          /\ \A i \in 1..Len(got) : Append(got, b)[i] = got[i]
          /\ Append(got, b)[Len(got) + 1] = b
      BY <2>5, <3>1, AppendProperties
    <3> QED
      BY <2>2, <3>1, <3>2
  <2>7. ASSUME NEW i \in 1..Len(got') PROVE Placed(i)'
    <3>1. CASE i \in 1..Len(got)
      BY <1>5, <1>11, <2>6, <3>1 DEF Placed, Size
    <3>2. CASE i = rmsg
      <4>1. Start[rmsg + 1] <= Len(stream)
        BY <1>1, <1>5, <2>3
      <4> QED
        BY <1>5, <2>4, <2>6, <3>2, <4>1 DEF Placed, Size
    <3> QED
      BY <1>1, <2>6, <3>1, <3>2
  <2>8. rpos' = Start[rmsg'] + rtot'
    <3>1. Start[rmsg + 1] \in Nat
      BY <1>1, <1>3
    <3> QED
      BY <2>2, <2>3, <3>1
  <2>9. \A o \in 0..(rtot' - 1) : FALSE
    BY <2>2
  <2> QED
    BY <2>7, <2>8, <2>9 DEF Aligned
<1> QED
  BY <1>12, <1>13

\* A recv that fails is the last; it may end a message that has not come.
LEMMA ErrorIsLast ==
  ASSUME DamageInv, TypeInv', RecvError
  PROVE  Drained'
<1>1. /\ wend' = "closed" /\ rpos' = rpos /\ stream' = stream /\ rpos = Len(stream)
      /\ wend = "reset"
  BY DEF RecvError, sendVars
<1>2. Aligned
  BY <1>1 DEF DamageInv, Drained
<1>3. got \in Seq(Buffers) /\ buf \in Buffers /\ Len(got) \in Nat
  BY LenProperties, StreamAssumption
     DEF DamageInv, TypeInv, TypeOK, RecvError, Buffers
<1>4. got' = got \/ got' = Append(got, buf)
  BY DEF RecvError, RecvLoop
<1>5. /\ Len(got') \in {Len(got), Len(got) + 1}
      /\ \A i \in 1..Len(got) : got'[i] = got[i]
  BY <1>3, <1>4, AppendProperties
<1>6. ASSUME NEW i \in 1..(Len(got') - 1) PROVE Placed(i)'
  <2>1. i \in 1..Len(got)
    BY <1>3, <1>5, <1>6
  <2>2. Placed(i) /\ got'[i] = got[i]
    BY <1>2, <1>5, <2>1 DEF Aligned
  <2> QED
    BY <1>1, <2>2 DEF Placed, Size
<1> QED
  BY <1>1, <1>6 DEF Drained

\* Whatever fails, only the last message that sock_recv returned with may differ
\* from what was written in its place (DamageIsLast).
THEOREM DamageCorrect == Spec => []DamageIsLast
<1>1. Init => DamageInv
  <2>1. SUFFICES ASSUME Init PROVE DamageInv
    OBVIOUS
  <2>2. 1 \in 1..N /\ Fresh(1) \in Buffer(1) /\ Size(1) > 0
    BY StreamAssumption DEF Fresh, Buffer
  <2>3. erred \in BOOLEAN
    BY <2>1 DEF Init
  <2>4. TypeInv
    BY <2>1, <2>2, <2>3, StreamAssumption, EmptySeq DEF Init, TypeInv, TypeOK
  <2>5. Aligned
    BY <2>1, StreamAssumption, EmptySeq DEF Init, Aligned
  <2> QED
    BY <2>4, <2>5 DEF DamageInv
<1>2. DamageInv /\ [Next]_vars => DamageInv'
  <2>1. SUFFICES ASSUME DamageInv, [Next]_vars PROVE (Aligned \/ Drained)'
    BY TypeStep DEF DamageInv
  <2>2. TypeInv'
    BY <2>1, TypeStep DEF DamageInv
  <2>3. CASE \E n \in 1..SizeMax : Write(n)
    BY <2>1, <2>3, WriteKeepsPlace
  <2>4. CASE \E n \in 1..SizeMax : Recv(n)
    BY <2>1, <2>2, <2>4, RecvKeepsPlace
  <2>5. CASE RecvError
    BY <2>1, <2>2, <2>5, ErrorIsLast
  <2>6. CASE UNCHANGED <<stream, rpos, rmsg, rtot, buf, got>> /\ (wend = "closed" => wend' = "closed")
    <3>1. \A i : Placed(i) => Placed(i)'
      BY <2>6 DEF Placed, Size
    <3>2. Len(got') = Len(got)
      BY <2>6
    <3>3. Aligned => Aligned'
      BY <2>6, <3>1, <3>2 DEF Aligned
    <3>4. Drained => Drained'
      BY <2>6, <3>1, <3>2 DEF Drained
    <3> QED
      BY <2>1, <3>3, <3>4 DEF DamageInv
  <2>7. CASE WriteFails
    BY <2>6, <2>7 DEF WriteFails, recvVars
  <2>8. CASE Close
    BY <2>6, <2>8 DEF Close, sendVars, recvVars
  <2>9. CASE RecvEof
    BY <2>6, <2>9 DEF RecvEof, sendVars
  <2>10. CASE UNCHANGED vars
    BY <2>6, <2>10 DEF vars, sendVars, recvVars
  <2> QED
    BY <2>1, <2>3, <2>4, <2>5, <2>7, <2>8, <2>9, <2>10 DEF Next, Sender, Reader
<1>3. DamageInv => DamageIsLast
  <2>1. SUFFICES ASSUME DamageInv, NEW i \in 1..(Len(got) - 1) PROVE Placed(i)
    BY DEF DamageIsLast, Placed
  <2>2. Len(got) \in Nat
    BY StreamAssumption DEF DamageInv, TypeInv, TypeOK
  <2> QED
    BY <2>1, <2>2 DEF DamageInv, Aligned, Drained
<1> QED
  BY <1>1, <1>2, <1>3, PTL DEF Spec

-----------------------------------------------------------------------------
(* TlsProgram.  A server is related to its client by what is on the wire.  *)

Kinds == {"hello", "finished", "alert", "bye", "tls", "tcp", "enc"}
Units == Kinds \X Nat \X Nat

ServerTypes ==
    [run : UNION {ServerRuns[s] : s \in Servers},
     pc : {"off", "ready", "listen", "unbound", "accepted", "hello", "read", "shutdown",
           "wait", "close", "end"},
     peer : Clients \cup {Nobody}, queue : Seq(Clients), got : Seq(Seq(Units)),
     errors : Nat, ssl : {"ok", "bad", "bye"}, said : {"nothing", "Success"}]
ClientTypes ==
    [run : UNION {ClientRuns[c] : c \in Clients},
     pc : {"off", "connect", "write", "wait", "close", "loop", "end"},
     sent : Nat, ssl : {"ok", "bad"}]
ConnTypes ==
    [to : Servers \cup {Nobody}, up : Seq(Units), down : SUBSET {"hello", "alert", "bye"},
     client : {"none", "open", "closed"}, server : {"none", "open", "closed"}]

Parts(is) == IF is = "tls" THEN 3 ELSE 2
Bye == Unit("bye", 0, 1)
Finished == Unit("finished", 0, 1)

\* What a client that writes by way of is may put on the wire next: the message after
\* the last whole one, or close_notify.
NextUnit(is, m, u) == u = Unit(is, m + 1, 1) \/ u = Bye

\* u may be followed by v on the wire of a client that writes by way of is.
Follows(is, u, v) ==
    CASE u[1] = "hello" -> v[1] \in {"finished", "alert"}
      [] u[1] = "finished" -> NextUnit(is, 0, v)
      [] u[1] = is -> IF u[3] < Parts(is) THEN v = Unit(is, u[2], u[3] + 1)
                      ELSE NextUnit(is, u[2], v)
      [] OTHER -> FALSE
WireOK(is, up) == \A i \in 1 .. Len(up) - 1 : Follows(is, up[i], up[i + 1])

\* A server by itself.
ServerOK(v) ==
    /\ v \in ServerTypes
    /\ Len(v.got) <= Messages(v.run)
    /\ v.errors <= Len(v.got)
    /\ v.pc \in {"off", "ready", "listen", "unbound", "accepted", "hello"} => v.got = <<>>
    /\ v.pc \in {"accepted", "hello", "read", "shutdown", "wait", "close"}
         => v.peer \in Clients
    /\ \A i, j \in 1 .. Len(v.queue) : v.queue[i] = v.queue[j] => i = j
    /\ v.said = "Success" => /\ v.pc \in {"shutdown", "wait", "close", "end"}
                             /\ v.peer \in Clients
                             /\ v.errors = 0
                             /\ Len(v.got) = Messages(v.run)

\* The connections of a server are its own.
QueueOK(s, v, connections) ==
    /\ \A c \in ToSet(v.queue) : connections[c].to = s /\ v.peer # c
    /\ v.peer # Nobody => connections[v.peer].to = s

\* A client and its connection: how far it is and what it has sent last.
ClientOK(k, w) ==
    /\ k \in ClientTypes
    /\ w \in ConnTypes
    /\ k.sent <= Messages(k.run)
    /\ k.pc = "off" => w = NoConn
    /\ WireOK(Mode(k.run), w.up)
    /\ k.pc \in {"off", "connect"} => /\ k.sent = 0
                                      /\ w.up \in {<<>>, Only("hello")}
                                      /\ "hello" \in w.down => w.up = <<>>
    /\ k.pc = "write" /\ w.server = "open" /\ w.up # <<>>
         => Last(w.up) = IF k.sent = 0 THEN Finished
                         ELSE Unit(Mode(k.run), k.sent, Parts(Mode(k.run)))

Comparable(v, k) == Mode(v.run) \in {"tls", "tcp"} /\ Mode(k.run) = Mode(v.run)

\* A server and the client it has accepted: what comes next on the wire is what the
\* server is to read next, and a wire that is empty leaves none behind.
PeersOK(v, k, w) ==
    /\ v.pc = "hello" =>
          /\ w.up # <<>> => Head(w.up)[1] \in {"finished", "alert"}
          /\ k.pc = "write" /\ w.server = "open" => w.up # <<>>
    /\ v.pc = "read" => k.pc \notin {"off", "connect"}
    /\ v.pc = "read" /\ v.errors = 0 /\ Comparable(v, k) =>
          /\ w.up # <<>> => NextUnit(Mode(k.run), Len(v.got), Head(w.up))
          /\ k.pc = "write" /\ w.server = "open" /\ w.up = <<>> => k.sent = Len(v.got)
    /\ v.errors = 0 /\ Comparable(v, k)
         => \A m \in 1 .. Len(v.got) : v.got[m] = Data(v.run, m)

ServersInv == \A s \in Servers : ServerOK(server[s]) /\ QueueOK(s, server[s], conn)
ClientsInv == \A c \in Clients : ClientOK(client[c], conn[c])
PeersInv ==
    \A s \in Servers : \A c \in Clients :
        server[s].peer = c => PeersOK(server[s], client[c], conn[c])

ProgramInv ==
    /\ server \in [Servers -> ServerTypes]
    /\ client \in [Clients -> ClientTypes]
    /\ conn \in [Clients -> ConnTypes]
    /\ ServersInv
    /\ ClientsInv
    /\ PeersInv

\* What a program may be told.
LEMMA ModeFacts ==
  ASSUME NEW run
  PROVE  Mode(run) \in {"tls", "tcp", "enc", "none"}
BY DEF Mode

LEMMA MessagesFacts ==
  ASSUME NEW run, run.count \in Nat
  PROVE  Messages(run) \in Nat
BY ModeFacts DEF Messages

LEMMA ServerMessages ==
  ASSUME NEW v \in ServerTypes
  PROVE  Messages(v.run) \in Nat
<1>1. v.run.count \in Nat
  BY ProgramAssumption DEF ServerTypes
<1> QED
  BY <1>1, MessagesFacts

LEMMA ClientMessages ==
  ASSUME NEW k \in ClientTypes
  PROVE  Messages(k.run) \in Nat
<1>1. k.run.count \in Nat
  BY ProgramAssumption DEF ClientTypes
<1> QED
  BY <1>1, MessagesFacts

LEMMA UnitFacts ==
  ASSUME NEW is \in Kinds, NEW m \in Nat, NEW k \in Nat
  PROVE  /\ Unit(is, m, k) \in Units
         /\ Unit(is, m, k)[1] = is
         /\ Unit(is, m, k)[2] = m
         /\ Unit(is, m, k)[3] = k
BY DEF Unit, Units

LEMMA OnlyFacts ==
  ASSUME NEW is \in Kinds
  PROVE  /\ Only(is) \in Seq(Units)
         /\ Len(Only(is)) = 1
         /\ Only(is)[1] = Unit(is, 0, 1)
BY UnitFacts DEF Only

LEMMA NoConnFacts ==
  /\ NoConn \in ConnTypes
  /\ NoConn.to = Nobody /\ NoConn.up = <<>> /\ NoConn.down = {}
  /\ NoConn.client = "none" /\ NoConn.server = "none"
BY DEF NoConn, ConnTypes

-----------------------------------------------------------------------------
(* Steps that leave most of the programs alone.                            *)

\* A step of a server touches its own connections only, and moves none.
LEMMA ServerFrame ==
  ASSUME ProgramInv, NEW s \in Servers, NEW v,
         server' = [server EXCEPT ![s] = v], client' = client,
         ServerOK(v), QueueOK(s, v, conn'),
         conn' \in [Clients -> ConnTypes],
         \A c \in Clients : /\ conn'[c].to = conn[c].to
                            /\ conn[c].to # s => conn'[c] = conn[c]
                            /\ ClientOK(client[c], conn'[c])
                            /\ v.peer = c => PeersOK(v, client[c], conn'[c])
  PROVE  ProgramInv'
<1>0. /\ server \in [Servers -> ServerTypes] /\ conn \in [Clients -> ConnTypes]
      /\ client \in [Clients -> ClientTypes]
  BY DEF ProgramInv
<1>1. v \in ServerTypes /\ server'[s] = v /\ \A r \in Servers \ {s} : server'[r] = server[r]
  BY <1>0 DEF ServerOK
<1>2. server' \in [Servers -> ServerTypes] /\ client' \in [Clients -> ClientTypes]
  BY <1>0, <1>1
<1>3. \A r \in Servers \ {s} : ServerOK(server[r]) /\ QueueOK(r, server[r], conn)
  BY DEF ProgramInv, ServersInv
<1>4. ASSUME NEW r \in Servers \ {s}
      PROVE  QueueOK(r, server[r], conn')
  <2>1. server[r].queue \in Seq(Clients) /\ server[r].peer \in Clients \cup {Nobody}
    BY <1>0 DEF ServerTypes
  <2>2. \A c \in ToSet(server[r].queue) : c \in Clients
    BY <2>1 DEF ToSet
  <2> QED
    BY <1>3, <2>1, <2>2 DEF QueueOK
<1>5. ServersInv'
  BY <1>1, <1>3, <1>4 DEF ServersInv
<1>6. ClientsInv'
  BY DEF ClientsInv
<1>7. PeersInv'
  <2> SUFFICES ASSUME NEW r \in Servers, NEW c \in Clients, server'[r].peer = c
               PROVE  PeersOK(server'[r], client'[c], conn'[c])
    BY DEF PeersInv
  <2>1. CASE r = s
    BY <1>1, <2>1
  <2>2. CASE r # s
    <3>1. server'[r] = server[r]
      BY <1>1, <2>2
    <3>2. c # Nobody
      BY ProgramAssumption
    <3>3. conn[c].to = r
      BY <1>3, <2>2, <3>1, <3>2 DEF QueueOK
    <3>4. PeersOK(server[r], client[c], conn[c])
      BY <3>1 DEF ProgramInv, PeersInv
    <3> QED
      BY <2>2, <3>1, <3>3, <3>4
  <2> QED
    BY <2>1, <2>2
<1> QED
  BY <1>2, <1>5, <1>6, <1>7 DEF ProgramInv

\* A step of a client touches its connection only.
LEMMA ClientFrame ==
  ASSUME ProgramInv, NEW c \in Clients, NEW k, NEW w,
         client' = [client EXCEPT ![c] = k], conn' = [conn EXCEPT ![c] = w],
         server' = server,
         ClientOK(k, w), w.to = conn[c].to,
         \A s \in Servers : server[s].peer = c => PeersOK(server[s], k, w)
  PROVE  ProgramInv'
<1>0. /\ server \in [Servers -> ServerTypes] /\ conn \in [Clients -> ConnTypes]
      /\ client \in [Clients -> ClientTypes]
  BY DEF ProgramInv
<1>1. /\ client'[c] = k /\ conn'[c] = w
      /\ \A d \in Clients \ {c} : client'[d] = client[d] /\ conn'[d] = conn[d]
  BY <1>0
<1>2. /\ server' \in [Servers -> ServerTypes] /\ client' \in [Clients -> ClientTypes]
      /\ conn' \in [Clients -> ConnTypes]
  BY <1>0 DEF ClientOK
<1>3. ServersInv'
  <2> SUFFICES ASSUME NEW r \in Servers
               PROVE  ServerOK(server[r]) /\ QueueOK(r, server[r], conn')
    BY DEF ServersInv
  <2>1. ServerOK(server[r]) /\ QueueOK(r, server[r], conn)
    BY DEF ProgramInv, ServersInv
  <2>2. server[r].queue \in Seq(Clients) /\ server[r].peer \in Clients \cup {Nobody}
    BY <1>0 DEF ServerTypes
  <2>3. \A d \in ToSet(server[r].queue) : d \in Clients
    BY <2>2 DEF ToSet
  <2>4. \A d \in Clients : conn'[d].to = conn[d].to
    BY <1>1
  <2> QED
    BY <2>1, <2>2, <2>3, <2>4 DEF QueueOK
<1>4. ClientsInv'
  BY <1>1 DEF ProgramInv, ClientsInv
<1>5. PeersInv'
  BY <1>1 DEF ProgramInv, PeersInv
<1> QED
  BY <1>2, <1>3, <1>4, <1>5 DEF ProgramInv

\* A step in which nothing is read from a connection or written to it by the client.
Quiet(w, x) ==
    /\ x \in ConnTypes
    /\ x.to = w.to /\ x.up = w.up
    /\ "hello" \in x.down => "hello" \in w.down
    /\ x.server = "open" => w.server = "open"

LEMMA QuietClient ==
  ASSUME NEW k, NEW w \in ConnTypes, NEW x, ClientOK(k, w), Quiet(w, x), w.to # Nobody
  PROVE  ClientOK(k, x)
<1>1. w # NoConn
  BY NoConnFacts
<1> QED
  BY <1>1 DEF ClientOK, Quiet

\* A server reads nothing and goes on to a place where it does not wait for the client.
LEMMA ServerMoves ==
  ASSUME ProgramInv, NEW s \in Servers, NEW v,
         server' = [server EXCEPT ![s] = v], client' = client,
         ServerOK(v), v.pc \notin {"hello", "read"},
         v.run = server[s].run, v.peer = server[s].peer, v.got = server[s].got,
         v.errors = server[s].errors, v.queue \in {server[s].queue, <<>>},
         conn' \in [Clients -> ConnTypes],
         \A c \in Clients : \/ conn'[c] = conn[c]
                            \/ conn[c].to = s /\ Quiet(conn[c], conn'[c])
  PROVE  ProgramInv'
<1>0. /\ server \in [Servers -> ServerTypes] /\ conn \in [Clients -> ConnTypes]
      /\ client \in [Clients -> ClientTypes]
      /\ s # Nobody
  BY ProgramAssumption DEF ProgramInv
<1>1. ServerOK(server[s]) /\ QueueOK(s, server[s], conn)
  BY DEF ProgramInv, ServersInv
<1>2. \A c \in Clients : conn'[c].to = conn[c].to
  BY DEF Quiet
<1>3. QueueOK(s, v, conn')
  <2>1. server[s].queue \in Seq(Clients) /\ server[s].peer \in Clients \cup {Nobody}
    BY <1>0 DEF ServerTypes
  <2>2. \A c \in ToSet(server[s].queue) : c \in Clients
    BY <2>1 DEF ToSet
  <2>3. ToSet(v.queue) \subseteq ToSet(server[s].queue)
    BY DEF ToSet
  <2> QED
    BY <1>1, <1>2, <2>1, <2>2, <2>3 DEF QueueOK
<1>4. ASSUME NEW c \in Clients
      PROVE  ClientOK(client[c], conn'[c])
  <2>1. ClientOK(client[c], conn[c])
    BY DEF ProgramInv, ClientsInv
  <2>2. conn[c] \in ConnTypes
    BY <1>0
  <2>3. CASE conn[c].to = s /\ Quiet(conn[c], conn'[c])
    BY <1>0, <2>1, <2>2, <2>3, QuietClient
  <2> QED
    BY <2>1, <2>3
<1>5. ASSUME NEW c \in Clients, v.peer = c
      PROVE  PeersOK(v, client[c], conn'[c])
  <2>1. PeersOK(server[s], client[c], conn[c])
    BY <1>5 DEF ProgramInv, PeersInv
  <2> QED
    BY <2>1 DEF PeersOK, Comparable
<1>6. \A c \in Clients : conn[c].to # s => conn'[c] = conn[c]
  OBVIOUS
<1> QED
  BY <1>2, <1>3, <1>4, <1>5, <1>6, ServerFrame

\* What the change of a server's place is.
LEMMA GoFacts ==
  ASSUME ProgramInv, NEW s \in Servers, NEW pc, Go(s, pc),
         pc \in {"off", "ready", "listen", "unbound", "accepted", "hello", "read",
                 "shutdown", "wait", "close", "end"}
  PROVE  \E v \in ServerTypes :
           /\ server' = [server EXCEPT ![s] = v]
           /\ v.pc = pc
           /\ v.run = server[s].run /\ v.peer = server[s].peer /\ v.queue = server[s].queue
           /\ v.got = server[s].got /\ v.errors = server[s].errors
           /\ v.ssl = server[s].ssl /\ v.said = server[s].said
<1>1. server[s] \in ServerTypes
  BY DEF ProgramInv
<1> DEFINE v == [server[s] EXCEPT !.pc = pc]
<1>2. server' = [server EXCEPT ![s] = v]
  BY DEF Go, ProgramInv
<1>3. /\ v \in ServerTypes
      /\ v.pc = pc
      /\ v.run = server[s].run /\ v.peer = server[s].peer /\ v.queue = server[s].queue
      /\ v.got = server[s].got /\ v.errors = server[s].errors
      /\ v.ssl = server[s].ssl /\ v.said = server[s].said
  BY <1>1 DEF ServerTypes
<1> QED
  BY <1>2, <1>3

\* A server that moves on among the places where it has nothing to read from a client.
LEMMA GoQuietly ==
  ASSUME ProgramInv, NEW s \in Servers, NEW pc, Go(s, pc), client' = client,
         \/ /\ server[s].pc \in {"off", "ready", "unbound"}
            /\ pc \in {"ready", "listen", "unbound", "end"}
         \/ /\ server[s].pc \in {"shutdown", "wait"}
            /\ pc \in {"wait", "close"},
         conn' \in [Clients -> ConnTypes],
         \A c \in Clients : \/ conn'[c] = conn[c]
                            \/ conn[c].to = s /\ Quiet(conn[c], conn'[c])
  PROVE  ProgramInv'
<1>1. PICK v \in ServerTypes :
           /\ server' = [server EXCEPT ![s] = v]
           /\ v.pc = pc
           /\ v.run = server[s].run /\ v.peer = server[s].peer /\ v.queue = server[s].queue
           /\ v.got = server[s].got /\ v.errors = server[s].errors
           /\ v.ssl = server[s].ssl /\ v.said = server[s].said
  BY GoFacts
<1>2. ServerOK(server[s])
  BY DEF ProgramInv, ServersInv
<1>3. ServerOK(v)
  BY <1>1, <1>2 DEF ServerOK
<1> QED
  BY <1>1, <1>3, ServerMoves

\* The process of a server ends, wherever it is.
LEMMA EndServerOK ==
  ASSUME ProgramInv, NEW s \in Servers, EndServer(s, server[s]), client' = client
  PROVE  ProgramInv'
<1>0. /\ server[s] \in ServerTypes /\ conn \in [Clients -> ConnTypes]
      /\ server \in [Servers -> ServerTypes]
  BY DEF ProgramInv
<1>1. PICK v : v = [server[s] EXCEPT !.pc = "end", !.queue = <<>>]
  OBVIOUS
<1>2. server' = [server EXCEPT ![s] = v]
  BY <1>0, <1>1 DEF EndServer
<1>3. /\ v \in ServerTypes
      /\ v.pc = "end" /\ v.queue = <<>>
      /\ v.run = server[s].run /\ v.peer = server[s].peer /\ v.got = server[s].got
      /\ v.errors = server[s].errors /\ v.said = server[s].said
  <2>1. <<>> \in Seq(Clients)
    OBVIOUS
  <2> QED
    BY <1>0, <1>1, <2>1 DEF ServerTypes
<1>4. ServerOK(server[s])
  BY DEF ProgramInv, ServersInv
<1>5. ServerOK(v)
  BY <1>3, <1>4 DEF ServerOK
<1>6. ASSUME NEW c \in Clients
      PROVE  /\ conn'[c] \in ConnTypes
             /\ \/ conn'[c] = conn[c]
                \/ conn[c].to = s /\ Quiet(conn[c], conn'[c])
  <2>1. conn'[c] = IF conn[c].to = s THEN [conn[c] EXCEPT !.server = "closed"] ELSE conn[c]
    BY DEF EndServer
  <2>2. conn[c] \in ConnTypes
    BY <1>0
  <2>3. CASE conn[c].to = s
    <3> DEFINE x == [conn[c] EXCEPT !.server = "closed"]
    <3>1. /\ x \in ConnTypes
          /\ x.to = conn[c].to /\ x.up = conn[c].up /\ x.down = conn[c].down
          /\ x.server = "closed"
      BY <2>2 DEF ConnTypes
    <3>2. Quiet(conn[c], x)
      BY <3>1 DEF Quiet
    <3> QED
      BY <2>1, <2>3, <3>1, <3>2
  <2> QED
    BY <2>1, <2>2, <2>3
<1>7. conn' \in [Clients -> ConnTypes]
  <2>1. conn' = [c \in Clients |-> conn'[c]]
    BY DEF EndServer
  <2> QED
    BY <1>6, <2>1
<1> QED
  BY <1>2, <1>3, <1>5, <1>6, <1>7, ServerMoves

\* Something is sent down to the client that a server has accepted.
LEMMA AnswerFacts ==
  ASSUME ProgramInv, NEW s \in Servers, server[s].peer \in Clients,
         NEW what \in {"alert", "bye"}, conn' = Answer(server[s].peer, what)
  PROVE  /\ conn' \in [Clients -> ConnTypes]
         /\ \A c \in Clients : \/ conn'[c] = conn[c]
                               \/ conn[c].to = s /\ Quiet(conn[c], conn'[c])
<1> DEFINE c == server[s].peer
           x == [conn[c] EXCEPT !.down = @ \cup {what}]
<1>0. conn \in [Clients -> ConnTypes] /\ conn[c] \in ConnTypes /\ c \in Clients
  BY DEF ProgramInv
<1>1. conn' = [conn EXCEPT ![c] = x]
  BY <1>0 DEF Answer
<1>2. /\ x \in ConnTypes
      /\ x.to = conn[c].to /\ x.up = conn[c].up /\ x.down = conn[c].down \cup {what}
      /\ x.server = conn[c].server
  BY <1>0 DEF ConnTypes
<1>3. Quiet(conn[c], x)
  BY <1>2 DEF Quiet
<1>4. conn[c].to = s
  <2>1. c # Nobody
    BY ProgramAssumption
  <2> QED
    BY <2>1 DEF ProgramInv, ServersInv, QueueOK
<1> HIDE DEF x, c
<1>5. conn' \in [Clients -> ConnTypes] /\ conn'[c] = x
  BY <1>0, <1>1, <1>2
<1>6. \A d \in Clients \ {c} : conn'[d] = conn[d]
  BY <1>0, <1>1
<1> QED
  BY <1>3, <1>4, <1>5, <1>6

\* SSL_accept fails; the session is dead.
LEMMA AcceptErrorOK ==
  ASSUME ProgramInv, NEW s \in Servers, server[s].pc \in {"accepted", "hello"},
         AcceptError(s, conn) \/ AcceptError(s, Answer(server[s].peer, "alert")),
         client' = client
  PROVE  ProgramInv'
<1>0. /\ server[s] \in ServerTypes /\ conn \in [Clients -> ConnTypes]
      /\ server \in [Servers -> ServerTypes]
  BY DEF ProgramInv
<1>1. PICK v : v = [server[s] EXCEPT !.pc = "shutdown", !.ssl = "bad"]
  OBVIOUS
<1>2. server' = [server EXCEPT ![s] = v]
  BY <1>0, <1>1 DEF AcceptError
<1>3. /\ v \in ServerTypes
      /\ v.pc = "shutdown"
      /\ v.run = server[s].run /\ v.peer = server[s].peer /\ v.got = server[s].got
      /\ v.errors = server[s].errors /\ v.said = server[s].said
      /\ v.queue = server[s].queue
  BY <1>0, <1>1 DEF ServerTypes
<1>4. ServerOK(server[s])
  BY DEF ProgramInv, ServersInv
<1>5. ServerOK(v)
  BY <1>3, <1>4 DEF ServerOK
<1>6. server[s].peer \in Clients
  BY <1>4 DEF ServerOK
<1>7. conn' = conn \/ conn' = Answer(server[s].peer, "alert")
  BY DEF AcceptError
<1>8. /\ conn' \in [Clients -> ConnTypes]
      /\ \A c \in Clients : \/ conn'[c] = conn[c]
                            \/ conn[c].to = s /\ Quiet(conn[c], conn'[c])
  <2>1. CASE conn' = conn
    BY <1>0, <2>1
  <2>2. CASE conn' = Answer(server[s].peer, "alert")
    BY <1>6, <2>2, AnswerFacts
  <2> QED
    BY <1>7, <2>1, <2>2
<1> QED
  BY <1>2, <1>3, <1>5, <1>8, ServerMoves

-----------------------------------------------------------------------------
(* The server, step by step.                                               *)

LEMMA ServerSetupOK ==
  ASSUME ProgramInv, NEW s \in Servers, NEW fails, ServerSetup(s, fails)
  PROVE  ProgramInv'
<1>1. conn \in [Clients -> ConnTypes]
  BY DEF ProgramInv
<1>2. CASE fails
  BY <1>1, <1>2, GoQuietly DEF ServerSetup
<1>3. CASE ~fails
  BY <1>1, <1>3, GoQuietly DEF ServerSetup
<1> QED
  BY <1>2, <1>3

LEMMA ListenOK ==
  ASSUME ProgramInv, NEW s \in Servers, NEW otherwise \in {"unbound", "end"},
         Listen(s, otherwise)
  PROVE  ProgramInv'
<1>1. conn \in [Clients -> ConnTypes]
  BY DEF ProgramInv
<1>2. PICK pc \in {"listen", "unbound", "end"} : Go(s, pc)
  BY DEF Listen
<1> QED
  BY <1>1, <1>2, GoQuietly DEF Listen

LEMMA AcceptFailsOK ==
  ASSUME ProgramInv, NEW s \in Servers, AcceptFails(s)
  PROVE  ProgramInv'
<1>1. conn \in [Clients -> ConnTypes]
  BY DEF ProgramInv
<1> QED
  BY <1>1, GoQuietly DEF AcceptFails

LEMMA AwaitPeerOK ==
  ASSUME ProgramInv, NEW s \in Servers, AwaitPeer(s)
  PROVE  ProgramInv'
<1>1. conn \in [Clients -> ConnTypes]
  BY DEF ProgramInv
<1> QED
  BY <1>1, GoQuietly DEF AwaitPeer

LEMMA ShutdownOK ==
  ASSUME ProgramInv, NEW s \in Servers, Shutdown(s)
  PROVE  ProgramInv'
<1>1. conn \in [Clients -> ConnTypes]
  BY DEF ProgramInv
<1>2. server[s].peer \in Clients
  BY DEF Shutdown, ProgramInv, ServersInv, ServerOK
<1>3. CASE Go(s, "close") /\ conn' = conn
  BY <1>1, <1>3, GoQuietly DEF Shutdown
<1>4. CASE /\ Go(s, "close") \/ Go(s, "wait")
           /\ conn' = Answer(server[s].peer, "bye")
  <2>1. PICK pc \in {"close", "wait"} : Go(s, pc)
    BY <1>4
  <2>2. /\ conn' \in [Clients -> ConnTypes]
        /\ \A c \in Clients : \/ conn'[c] = conn[c]
                              \/ conn[c].to = s /\ Quiet(conn[c], conn'[c])
    BY <1>2, <1>4, AnswerFacts
  <2> QED
    BY <2>1, <2>2, GoQuietly DEF Shutdown
<1>5. CASE EndServer(s, server[s])
  BY <1>5, EndServerOK DEF Shutdown
<1>6. client' = client
  BY DEF Shutdown
<1> QED
  BY <1>3, <1>4, <1>5, <1>6 DEF Shutdown

LEMMA CloseServerOK ==
  ASSUME ProgramInv, NEW s \in Servers, CloseServer(s) \/ KillServer(s)
  PROVE  ProgramInv'
BY EndServerOK DEF CloseServer, KillServer

LEMMA ReportOK ==
  ASSUME ProgramInv, NEW s \in Servers, Report(s)
  PROVE  ProgramInv'
<1>0. /\ server[s] \in ServerTypes /\ conn \in [Clients -> ConnTypes]
      /\ server \in [Servers -> ServerTypes]
  BY DEF ProgramInv
<1>1. PICK v : v = [server[s] EXCEPT !.pc = "shutdown",
                      !.said = IF server[s].errors = 0 THEN "Success" ELSE @]
  OBVIOUS
<1>2. server' = [server EXCEPT ![s] = v]
  BY <1>0, <1>1 DEF Report
<1>3. /\ v \in ServerTypes
      /\ v.pc = "shutdown"
      /\ v.run = server[s].run /\ v.peer = server[s].peer /\ v.got = server[s].got
      /\ v.errors = server[s].errors
      /\ v.said = IF server[s].errors = 0 THEN "Success" ELSE server[s].said
      /\ v.queue = server[s].queue
  BY <1>0, <1>1 DEF ServerTypes
<1>4. ServerOK(server[s])
  BY DEF ProgramInv, ServersInv
<1>5. Len(v.got) = Messages(v.run)
  <2>1. Messages(server[s].run) \in Nat
    BY <1>0, ServerMessages
  <2>2. Len(server[s].got) \in Nat
    BY <1>0 DEF ServerTypes
  <2> QED
    BY <1>3, <1>4, <2>1, <2>2 DEF Report, Reading, ServerOK
<1>6. ServerOK(v)
  BY <1>3, <1>4, <1>5 DEF ServerOK, Report
<1> QED
  BY <1>0, <1>2, <1>3, <1>6, ServerMoves DEF Report

LEMMA AcceptOK ==
  ASSUME ProgramInv, NEW s \in Servers, Accept(s)
  PROVE  ProgramInv'
<1>0. /\ server[s] \in ServerTypes /\ conn \in [Clients -> ConnTypes]
      /\ server \in [Servers -> ServerTypes]
  BY DEF ProgramInv
<1> DEFINE q == server[s].queue
<1>q. q \in Seq(Clients) /\ q # <<>>
  BY <1>0 DEF ServerTypes, Accept, AcceptLeaving
<1>h. /\ Head(q) = q[1] /\ Head(q) \in Clients
      /\ Tail(q) \in Seq(Clients) /\ Len(Tail(q)) = Len(q) - 1
      /\ \A i \in 1 .. Len(Tail(q)) : Tail(q)[i] = q[i + 1]
  BY <1>q, HeadTailProperties
<1>1. PICK v : v = [server[s] EXCEPT !.pc = "accepted", !.peer = Head(q), !.queue = Tail(q)]
  OBVIOUS
<1>2. server' = [server EXCEPT ![s] = v]
  BY <1>0, <1>1 DEF Accept, AcceptLeaving
<1>3. /\ v \in ServerTypes
      /\ v.pc = "accepted" /\ v.peer = Head(q) /\ v.queue = Tail(q)
      /\ v.run = server[s].run /\ v.got = server[s].got
      /\ v.errors = server[s].errors /\ v.said = server[s].said
  <2> HIDE DEF q
  <2> QED
    BY <1>0, <1>1, <1>h DEF ServerTypes
<1>4. ServerOK(server[s]) /\ QueueOK(s, server[s], conn)
  BY DEF ProgramInv, ServersInv
<1>5. server[s].pc = "listen" /\ server[s].got = <<>> /\ server[s].said # "Success"
  BY <1>4 DEF Accept, AcceptLeaving, ServerOK
<1>6. ServerOK(v)
  <2>1. \A i, j \in 1 .. Len(q) : q[i] = q[j] => i = j
    BY <1>4 DEF ServerOK
  <2>2. \A i, j \in 1 .. Len(v.queue) : v.queue[i] = v.queue[j] => i = j
    <3> HIDE DEF q
    <3> SUFFICES ASSUME NEW i \in 1 .. Len(v.queue), NEW j \in 1 .. Len(v.queue),
                        v.queue[i] = v.queue[j]
                 PROVE  i = j
      OBVIOUS
    <3>1. i + 1 \in 1 .. Len(q) /\ j + 1 \in 1 .. Len(q)
      BY <1>3, <1>h, <1>q
    <3> QED
      BY <1>3, <1>h, <2>1, <3>1
  <2> QED
    BY <1>3, <1>4, <1>5, <1>h, <2>2 DEF ServerOK
<1>7. QueueOK(s, v, conn')
  <2> SUFFICES /\ conn[Head(q)].to = s
               /\ \A c \in ToSet(Tail(q)) : conn[c].to = s /\ Head(q) # c
    BY <1>3 DEF QueueOK, Accept, AcceptLeaving
  <2>1. Head(q) \in ToSet(q)
    <3> HIDE DEF q
    <3> QED
      BY <1>q, <1>h DEF ToSet
  <2>2. ASSUME NEW c \in ToSet(Tail(q))
        PROVE  c \in ToSet(q) /\ Head(q) # c
    <3>1. PICK i \in 1 .. Len(Tail(q)) : c = Tail(q)[i]
      BY DEF ToSet
    <3>2. c = q[i + 1] /\ i + 1 \in 1 .. Len(q) /\ 1 \in 1 .. Len(q) /\ i + 1 # 1
      <4> HIDE DEF q
      <4> QED
        BY <1>h, <1>q, <3>1
    <3>3. c # q[1]
      BY <1>4, <3>2 DEF ServerOK
    <3> QED
      BY <1>h, <3>2, <3>3 DEF ToSet
  <2> QED
    BY <1>4, <2>1, <2>2 DEF QueueOK
<1>8. \A c \in Clients : ClientOK(client[c], conn[c])
  BY DEF ProgramInv, ClientsInv
<1>9. ASSUME NEW c \in Clients
      PROVE  PeersOK(v, client[c], conn[c])
  BY <1>3, <1>5 DEF PeersOK
<1> QED
  BY <1>0, <1>2, <1>6, <1>7, <1>8, <1>9, ServerFrame DEF Accept, AcceptLeaving

-----------------------------------------------------------------------------
(* The wire.                                                               *)

\* r is what is left of u without its first n elements.
Dropped(u, n, r) ==
    /\ r \in Seq(Units)
    /\ n \in 0 .. Len(u)
    /\ Len(r) = Len(u) - n
    /\ \A i \in 1 .. Len(r) : r[i] = u[i + n]

LEMMA TailDrops ==
  ASSUME NEW u \in Seq(Units), u # <<>>
  PROVE  Dropped(u, 1, Tail(u))
<1>1. /\ Tail(u) \in Seq(Units) /\ Len(Tail(u)) = Len(u) - 1
      /\ \A i \in 1 .. Len(Tail(u)) : Tail(u)[i] = u[i + 1]
  <2> HIDE DEF Units
  <2> QED
    BY HeadTailProperties
<1>2. Len(u) \in Nat /\ Len(u) # 0
  OBVIOUS
<1> QED
  BY <1>1, <1>2 DEF Dropped

LEMMA SubSeqDrops ==
  ASSUME NEW u \in Seq(Units), NEW n \in 0 .. Len(u)
  PROVE  /\ Dropped(u, n, SubSeq(u, n + 1, Len(u)))
         /\ SubSeq(u, 1, n) \in Seq(Units)
         /\ Len(SubSeq(u, 1, n)) = n
         /\ \A i \in 1 .. n : SubSeq(u, 1, n)[i] = u[i]
<1> HIDE DEF Units
<1>1. Len(u) \in Nat
  OBVIOUS
<1>2. \A i \in n + 1 .. Len(u) : u[i] \in Units
  BY <1>1
<1>3. \A i \in 1 .. n : u[i] \in Units
  BY <1>1
<1>4. /\ SubSeq(u, n + 1, Len(u)) \in Seq(Units)
      /\ Len(SubSeq(u, n + 1, Len(u))) = Len(u) - n
      /\ \A i \in 1 .. Len(u) - n : SubSeq(u, n + 1, Len(u))[i] = u[i + n]
  BY <1>1, <1>2
<1>5. /\ SubSeq(u, 1, n) \in Seq(Units)
      /\ Len(SubSeq(u, 1, n)) = n
      /\ \A i \in 1 .. n : SubSeq(u, 1, n)[i] = u[i]
  BY <1>1, <1>3
<1> QED
  BY <1>4, <1>5 DEF Dropped

LEMMA NothingDrops ==
  ASSUME NEW u \in Seq(Units)
  PROVE  Dropped(u, 0, u)
BY DEF Dropped

\* What is left follows on what was taken.
LEMMA DropFacts ==
  ASSUME NEW is, NEW u \in Seq(Units), NEW n, NEW r, Dropped(u, n, r), WireOK(is, u)
  PROVE  /\ WireOK(is, r)
         /\ r # <<>> => /\ Len(u) > n
                        /\ Head(r) = u[n + 1]
                        /\ Last(r) = Last(u)
                        /\ n > 0 => Follows(is, u[n], Head(r))
         /\ r = <<>> => Len(u) = n
<1>0. n \in Nat /\ n <= Len(u) /\ Len(u) \in Nat /\ Len(r) = Len(u) - n /\ r \in Seq(Units)
  BY DEF Dropped
<1>1. WireOK(is, r)
  <2> SUFFICES ASSUME NEW i \in 1 .. Len(r) - 1
               PROVE  Follows(is, r[i], r[i + 1])
    BY DEF WireOK
  <2>1. r[i] = u[i + n] /\ r[i + 1] = u[(i + n) + 1] /\ i + n \in 1 .. Len(u) - 1
    <3>1. /\ i \in 1 .. Len(r) /\ i + 1 \in 1 .. Len(r)
          /\ i + n \in 1 .. Len(u) - 1 /\ (i + 1) + n = (i + n) + 1
      BY <1>0
    <3> QED
      BY <3>1 DEF Dropped
  <2> QED
    BY <2>1 DEF WireOK
<1>2. ASSUME r # <<>>
      PROVE  /\ Len(u) > n
             /\ Head(r) = u[n + 1]
             /\ Last(r) = Last(u)
             /\ n > 0 => Follows(is, u[n], Head(r))
  <2>1. Len(r) > 0
    BY <1>0, <1>2
  <2>2. Len(u) > n
    BY <1>0, <2>1
  <2>3. Head(r) = u[n + 1]
    BY <1>0, <2>1 DEF Dropped
  <2>4. Last(r) = Last(u)
    BY <1>0, <2>1 DEF Dropped, Last
  <2>5. n > 0 => n \in 1 .. Len(u) - 1
    BY <1>0, <2>2
  <2> QED
    BY <2>2, <2>3, <2>4, <2>5 DEF WireOK
<1>3. r = <<>> => Len(u) = n
  BY <1>0
<1> QED
  BY <1>1, <1>2, <1>3

LEMMA DropFirst ==
  ASSUME NEW is, NEW u \in Seq(Units), NEW r, Dropped(u, 1, r), WireOK(is, u)
  PROVE  /\ r # <<>> => Len(u) > 1 /\ Follows(is, u[1], Head(r))
         /\ r = <<>> => Len(u) = 1
<1>1. PICK n : n = 1
  OBVIOUS
<1>2. Dropped(u, n, r) /\ n > 0
  BY <1>1
<1>3. /\ r # <<>> => /\ Len(u) > n
                     /\ n > 0 => Follows(is, u[n], Head(r))
      /\ r = <<>> => Len(u) = n
  BY <1>2, DropFacts
<1> QED
  BY <1>1, <1>2, <1>3

\* A connection of which the server has taken n units.
Taken(w, n, x) ==
    /\ x \in ConnTypes
    /\ x.to = w.to /\ x.server = w.server
    /\ Dropped(w.up, n, x.up)
    /\ "hello" \in x.down /\ "hello" \notin w.down => n = 1

LEMMA TakenClient ==
  ASSUME NEW k, NEW w \in ConnTypes, NEW n, NEW x, ClientOK(k, w), Taken(w, n, x),
         w.to # Nobody
  PROVE  ClientOK(k, x)
<1>1. w # NoConn
  BY NoConnFacts
<1>2. w.up \in Seq(Units) /\ x.up \in Seq(Units)
  BY DEF Taken, ConnTypes
<1>3. /\ WireOK(Mode(k.run), x.up)
      /\ x.up # <<>> => Last(x.up) = Last(w.up) /\ Len(w.up) > n
  BY <1>2, DropFacts DEF Taken, ClientOK
<1>4. ASSUME k.pc = "connect"
      PROVE  /\ x.up \in {<<>>, Only("hello")}
             /\ "hello" \in x.down => x.up = <<>>
  <2>1. w.up = <<>> \/ w.up = Only("hello")
    BY <1>4 DEF ClientOK
  <2>2. CASE w.up = <<>>
    BY <1>2, <1>4, <2>2 DEF Taken, Dropped, ClientOK
  <2>3. CASE w.up = Only("hello")
    <3>1. Len(w.up) = 1 /\ w.up # <<>>
      BY <2>3, OnlyFacts DEF Kinds
    <3>2. n = 0 \/ n = 1
      BY <3>1 DEF Taken, Dropped
    <3>3. CASE n = 0
      <4>1. Len(x.up) = 1 /\ x.up[1] = w.up[1]
        BY <3>1, <3>3 DEF Taken, Dropped
      <4>2. x.up = w.up
        BY <1>2, <3>1, <4>1
      <4> QED
        BY <1>4, <2>3, <3>1, <3>3, <4>2 DEF Taken, ClientOK
    <3>4. CASE n = 1
      BY <1>2, <3>1, <3>4 DEF Taken, Dropped
    <3> QED
      BY <3>2, <3>3, <3>4
  <2> QED
    BY <2>1, <2>2, <2>3
<1>5. w.up = <<>> => x.up = <<>>
  BY <1>2 DEF Taken, Dropped
<1> QED
  BY <1>1, <1>3, <1>4, <1>5 DEF Taken, ClientOK

\* A server takes n units from the client that it has accepted.
LEMMA ServerTakes ==
  ASSUME ProgramInv, NEW s \in Servers, NEW v, NEW c \in Clients, NEW n, NEW x,
         server' = [server EXCEPT ![s] = v], client' = client,
         conn' = [conn EXCEPT ![c] = x],
         server[s].peer = c, v.peer = c, v.queue = server[s].queue,
         ServerOK(v), Taken(conn[c], n, x), PeersOK(v, client[c], x)
  PROVE  ProgramInv'
<1>0. /\ server \in [Servers -> ServerTypes] /\ conn \in [Clients -> ConnTypes]
      /\ client \in [Clients -> ClientTypes]
      /\ s # Nobody /\ c # Nobody
  BY ProgramAssumption DEF ProgramInv
<1>1. QueueOK(s, server[s], conn)
  BY DEF ProgramInv, ServersInv
<1>2. conn[c].to = s
  BY <1>0, <1>1 DEF QueueOK
<1>3. conn'[c] = x /\ \A d \in Clients \ {c} : conn'[d] = conn[d]
  BY <1>0
<1>4. conn' \in [Clients -> ConnTypes]
  BY <1>0 DEF Taken
<1>5. \A d \in Clients : conn'[d].to = conn[d].to
  BY <1>3 DEF Taken
<1>6. QueueOK(s, v, conn')
  <2>1. server[s].queue \in Seq(Clients)
    BY <1>0 DEF ServerTypes
  <2>2. \A d \in ToSet(v.queue) : d \in Clients
    BY <2>1 DEF ToSet
  <2> QED
    BY <1>1, <1>5, <2>2 DEF QueueOK
<1>7. ASSUME NEW d \in Clients
      PROVE  ClientOK(client[d], conn'[d])
  <2>1. ClientOK(client[d], conn[d])
    BY DEF ProgramInv, ClientsInv
  <2>2. CASE d = c
    BY <1>0, <1>2, <1>3, <2>1, <2>2, TakenClient
  <2>3. CASE d # c
    BY <1>3, <2>1, <2>3
  <2> QED
    BY <2>2, <2>3
<1>8. \A d \in Clients : conn[d].to # s => conn'[d] = conn[d]
  BY <1>2, <1>3
<1>9. \A d \in Clients : v.peer = d => PeersOK(v, client[d], conn'[d])
  BY <1>3
<1> QED
  BY <1>4, <1>5, <1>6, <1>7, <1>8, <1>9, ServerFrame

-----------------------------------------------------------------------------
(* The server, reading.                                                    *)

\* The client that a server has accepted.
LEMMA PeerFacts ==
  ASSUME ProgramInv, NEW s \in Servers,
         server[s].pc \in {"accepted", "hello", "read", "shutdown", "wait", "close"}
  PROVE  /\ server[s] \in ServerTypes /\ ServerOK(server[s])
         /\ server[s].peer \in Clients
         /\ client[server[s].peer] \in ClientTypes
         /\ conn[server[s].peer] \in ConnTypes
         /\ conn[server[s].peer].up \in Seq(Units)
         /\ conn[server[s].peer].to = s
         /\ client[server[s].peer].pc # "off"
         /\ ClientOK(client[server[s].peer], conn[server[s].peer])
         /\ WireOK(Mode(client[server[s].peer].run), conn[server[s].peer].up)
         /\ PeersOK(server[s], client[server[s].peer], conn[server[s].peer])
<1>1. server[s] \in ServerTypes /\ ServerOK(server[s]) /\ QueueOK(s, server[s], conn)
  BY DEF ProgramInv, ServersInv
<1>2. server[s].peer \in Clients
  BY <1>1 DEF ServerOK
<1>3. /\ client[server[s].peer] \in ClientTypes
      /\ conn[server[s].peer] \in ConnTypes
      /\ ClientOK(client[server[s].peer], conn[server[s].peer])
      /\ PeersOK(server[s], client[server[s].peer], conn[server[s].peer])
  BY <1>2 DEF ProgramInv, ClientsInv, PeersInv
<1>4. server[s].peer # Nobody /\ s # Nobody
  BY <1>2, ProgramAssumption
<1>5. conn[server[s].peer].to = s
  BY <1>1, <1>4 DEF QueueOK
<1>6. client[server[s].peer].pc # "off"
  BY <1>3, <1>4, <1>5, NoConnFacts DEF ClientOK
<1>7. conn[server[s].peer].up \in Seq(Units)
  BY <1>3 DEF ConnTypes
<1> QED
  BY <1>1, <1>2, <1>3, <1>5, <1>6, <1>7 DEF ClientOK

\* What a client has written last is no hello, and is what it says first when it has
\* not written a message yet.
LEMMA LastWritten ==
  ASSUME NEW k, NEW w, ClientOK(k, w), k.pc = "write", w.server = "open", w.up # <<>>
  PROVE  /\ Last(w.up)[1] # "hello"
         /\ Last(w.up)[1] = "finished" => k.sent = 0
<1>1. Mode(k.run) \in {"tls", "tcp", "enc", "none"}
  BY ModeFacts
<1>2. CASE k.sent = 0
  BY <1>2 DEF ClientOK, Finished, Unit
<1>3. CASE k.sent # 0
  <2>1. Last(w.up) = Unit(Mode(k.run), k.sent, Parts(Mode(k.run)))
    BY <1>3 DEF ClientOK
  <2>2. Last(w.up)[1] = Mode(k.run)
    BY <2>1 DEF Unit
  <2> QED
    BY <1>1, <2>2
<1> QED
  BY <1>2, <1>3

\* A connection whose first unit is taken.
LEMMA TakeFirst ==
  ASSUME NEW w \in ConnTypes, w.up # <<>>, NEW down \in SUBSET {"hello", "alert", "bye"}
  PROVE  LET x == [w EXCEPT !.up = Tail(@), !.down = down]
         IN  /\ Taken(w, 1, x)
             /\ x.up = Tail(w.up) /\ x.server = w.server
<1>1. w.up \in Seq(Units)
  BY DEF ConnTypes
<1>2. Dropped(w.up, 1, Tail(w.up)) /\ Tail(w.up) \in Seq(Units)
  BY <1>1, TailDrops DEF Dropped
<1> DEFINE x == [w EXCEPT !.up = Tail(@), !.down = down]
<1>3. /\ x \in ConnTypes
      /\ x.to = w.to /\ x.server = w.server /\ x.up = Tail(w.up) /\ x.down = down
  BY <1>2 DEF ConnTypes
<1> QED
  BY <1>2, <1>3 DEF Taken

LEMMA HelloOK ==
  ASSUME ProgramInv, NEW s \in Servers, NEW outcome, Hello(s, outcome)
  PROVE  ProgramInv'
<1> DEFINE c == server[s].peer
<1>0. server[s].pc = "accepted" /\ client' = client
  BY DEF Hello
<1>1. /\ server[s] \in ServerTypes /\ ServerOK(server[s])
      /\ c \in Clients /\ conn[c] \in ConnTypes /\ conn[c].up \in Seq(Units)
      /\ ClientOK(client[c], conn[c])
      /\ WireOK(Mode(client[c].run), conn[c].up)
  BY <1>0, PeerFacts
<1>2. CASE AcceptError(s, conn) \/ AcceptError(s, Answer(server[s].peer, "alert"))
  BY <1>0, <1>2, AcceptErrorOK
<1>3. CASE EndServer(s, server[s])
  BY <1>0, <1>3, EndServerOK
<1>4. CASE /\ Starts(c, "hello") /\ Go(s, "hello")
           /\ conn' = [conn EXCEPT ![c].up = Tail(@), ![c].down = @ \cup {"hello"}]
  <2>0. conn[c].up # <<>> /\ Head(conn[c].up)[1] = "hello"
    BY <1>4 DEF Starts
  <2> DEFINE down == conn[c].down \cup {"hello"}
  <2>1. PICK x : x = [conn[c] EXCEPT !.up = Tail(@), !.down = down]
    OBVIOUS
  <2>2. conn' = [conn EXCEPT ![c] = x]
    BY <1>4, <2>1 DEF ProgramInv
  <2>3. down \in SUBSET {"hello", "alert", "bye"}
    BY <1>1 DEF ConnTypes
  <2>4. Taken(conn[c], 1, x) /\ x.up = Tail(conn[c].up) /\ x.server = conn[c].server
    <3> HIDE DEF c, down
    <3> QED
      BY <1>1, <2>0, <2>1, <2>3, TakeFirst
  <2>5. PICK v \in ServerTypes :
           /\ server' = [server EXCEPT ![s] = v]
           /\ v.pc = "hello"
           /\ v.run = server[s].run /\ v.peer = server[s].peer /\ v.queue = server[s].queue
           /\ v.got = server[s].got /\ v.errors = server[s].errors
           /\ v.ssl = server[s].ssl /\ v.said = server[s].said
    BY <1>4, GoFacts
  <2>6. ServerOK(v) /\ v.got = <<>>
    BY <1>0, <1>1, <2>5 DEF ServerOK
  <2>7. /\ x.up # <<>> => /\ Len(conn[c].up) > 1
                          /\ Follows(Mode(client[c].run), conn[c].up[1], Head(x.up))
        /\ x.up = <<>> => Len(conn[c].up) = 1
    <3> DEFINE u == conn[c].up
               is == Mode(client[c].run)
    <3>1. Dropped(u, 1, x.up) /\ u \in Seq(Units) /\ WireOK(is, u)
      BY <1>1, <2>4 DEF Taken
    <3> HIDE DEF u, is
    <3>2. /\ x.up # <<>> => Len(u) > 1 /\ Follows(is, u[1], Head(x.up))
          /\ x.up = <<>> => Len(u) = 1
      BY <3>1, DropFirst
    <3> QED
      BY <3>2 DEF u, is
  <2>8. x.up # <<>> => Head(x.up)[1] \in {"finished", "alert"}
    <3>1. Mode(client[c].run) \in {"tls", "tcp", "enc", "none"}
      BY ModeFacts
    <3> QED
      BY <2>0, <2>7, <3>1 DEF Follows
  <2>9. client[c].pc = "write" /\ x.server = "open" => x.up # <<>>
    <3> SUFFICES ASSUME client[c].pc = "write", conn[c].server = "open", x.up = <<>>
                 PROVE  FALSE
      BY <2>4
    <3>1. Last(conn[c].up) = Head(conn[c].up)
      BY <2>7 DEF Last
    <3> QED
      BY <1>1, <2>0, <3>1, LastWritten
  <2>10. PeersOK(v, client[c], x)
    BY <2>5, <2>6, <2>8, <2>9 DEF PeersOK
  <2> QED
    BY <1>0, <1>1, <2>2, <2>4, <2>5, <2>6, <2>10, ServerTakes
<1> QED
  BY <1>2, <1>3, <1>4 DEF Hello

LEMMA JudgeOK ==
  ASSUME ProgramInv, NEW s \in Servers, NEW verdicts, Judge(s, verdicts)
  PROVE  ProgramInv'
<1> DEFINE c == server[s].peer
<1>0. server[s].pc = "hello" /\ client' = client
  BY DEF Judge
<1>1. /\ server[s] \in ServerTypes /\ ServerOK(server[s])
      /\ c \in Clients /\ conn[c] \in ConnTypes /\ conn[c].up \in Seq(Units)
      /\ client[c].pc # "off"
      /\ ClientOK(client[c], conn[c])
      /\ WireOK(Mode(client[c].run), conn[c].up)
  BY <1>0, PeerFacts
<1>2. CASE AcceptError(s, conn) \/ AcceptError(s, Answer(server[s].peer, "alert"))
  BY <1>0, <1>2, AcceptErrorOK
<1>3. CASE /\ Starts(c, "finished") /\ Go(s, "read")
           /\ conn' = [conn EXCEPT ![c].up = Tail(@)]
  <2>0. conn[c].up # <<>> /\ Head(conn[c].up)[1] = "finished"
    BY <1>3 DEF Starts
  <2>1. PICK x : x = [conn[c] EXCEPT !.up = Tail(@), !.down = conn[c].down]
    OBVIOUS
  <2>2. conn' = [conn EXCEPT ![c] = x]
    <3>1. x = [conn[c] EXCEPT !.up = Tail(@)]
      BY <1>1, <2>1 DEF ConnTypes
    <3> QED
      BY <1>3, <3>1 DEF ProgramInv
  <2>3. conn[c].down \in SUBSET {"hello", "alert", "bye"}
    BY <1>1 DEF ConnTypes
  <2>4. Taken(conn[c], 1, x) /\ x.up = Tail(conn[c].up) /\ x.server = conn[c].server
    <3> HIDE DEF c
    <3> QED
      BY <1>1, <2>0, <2>1, <2>3, TakeFirst
  <2>5. PICK v \in ServerTypes :
           /\ server' = [server EXCEPT ![s] = v]
           /\ v.pc = "read"
           /\ v.run = server[s].run /\ v.peer = server[s].peer /\ v.queue = server[s].queue
           /\ v.got = server[s].got /\ v.errors = server[s].errors
           /\ v.ssl = server[s].ssl /\ v.said = server[s].said
    BY <1>3, GoFacts
  <2>6. ServerOK(v) /\ v.got = <<>>
    BY <1>0, <1>1, <2>5 DEF ServerOK
  <2>7. /\ x.up # <<>> => /\ Len(conn[c].up) > 1
                          /\ Follows(Mode(client[c].run), conn[c].up[1], Head(x.up))
        /\ x.up = <<>> => Len(conn[c].up) = 1
    <3> DEFINE u == conn[c].up
               is == Mode(client[c].run)
    <3>1. Dropped(u, 1, x.up) /\ u \in Seq(Units) /\ WireOK(is, u)
      BY <1>1, <2>4 DEF Taken
    <3> HIDE DEF u, is
    <3>2. /\ x.up # <<>> => Len(u) > 1 /\ Follows(is, u[1], Head(x.up))
          /\ x.up = <<>> => Len(u) = 1
      BY <3>1, DropFirst
    <3> QED
      BY <3>2 DEF u, is
  <2>8. x.up # <<>> => NextUnit(Mode(client[c].run), 0, Head(x.up))
    <3>1. Mode(client[c].run) \in {"tls", "tcp", "enc", "none"}
      BY ModeFacts
    <3> QED
      BY <2>0, <2>7, <3>1 DEF Follows
  <2>9. client[c].pc = "write" /\ x.server = "open" /\ x.up = <<>> => client[c].sent = 0
    <3> SUFFICES ASSUME client[c].pc = "write", conn[c].server = "open", x.up = <<>>
                 PROVE  client[c].sent = 0
      BY <2>4
    <3>1. Last(conn[c].up) = Head(conn[c].up)
      BY <2>7 DEF Last
    <3> QED
      BY <1>1, <2>0, <3>1, LastWritten
  <2>10. client[c].pc # "connect"
    <3> SUFFICES ASSUME conn[c].up \in {<<>>, Only("hello")}
                 PROVE  FALSE
      BY <1>1 DEF ClientOK
    <3>1. Head(conn[c].up) = Unit("hello", 0, 1)
      BY <2>0, OnlyFacts DEF Kinds
    <3> QED
      BY <2>0, <3>1 DEF Unit
  <2>11. Len(v.got) = 0
    BY <2>6
  <2>12. PeersOK(v, client[c], x)
    BY <1>1, <2>5, <2>6, <2>8, <2>9, <2>10, <2>11 DEF PeersOK
  <2> QED
    BY <1>0, <1>1, <2>2, <2>4, <2>5, <2>6, <2>12, ServerTakes
<1> QED
  BY <1>2, <1>3 DEF Judge

LEMMA PartsFacts ==
  ASSUME NEW is \in Kinds
  PROVE  Parts(is) \in 2 .. 3 /\ (is = "tls" => Parts(is) = 3) /\ (is # "tls" => Parts(is) = 2)
BY DEF Parts

\* The units of a message that has begun follow one another, and then the next begins.
LEMMA WholeMessage ==
  ASSUME NEW is \in {"tls", "tcp", "enc"}, NEW u \in Seq(Units), NEW m \in Nat,
         WireOK(is, u), u # <<>>, u[1] = Unit(is, m, 1), Parts(is) <= Len(u)
  PROVE  /\ \A k \in 1 .. Parts(is) : u[k] = Unit(is, m, k)
         /\ \A v : Follows(is, u[Parts(is)], v) => NextUnit(is, m, v)
<1>1. /\ \A k \in Nat : /\ Unit(is, m, k)[1] = is
                        /\ Unit(is, m, k)[2] = m
                        /\ Unit(is, m, k)[3] = k
      /\ is # "hello" /\ is # "finished"
  BY DEF Unit
<1>2. Parts(is) \in 2 .. 3
  BY PartsFacts DEF Kinds
<1>3. Len(u) \in Nat
  OBVIOUS
<1>4. ASSUME NEW k \in 1 .. 2, k < Parts(is), u[k] = Unit(is, m, k)
      PROVE  u[k + 1] = Unit(is, m, k + 1)
  <2>1. k \in 1 .. Len(u) - 1
    BY <1>2, <1>3, <1>4
  <2>2. Follows(is, u[k], u[k + 1])
    BY <2>1 DEF WireOK
  <2> QED
    BY <1>1, <1>4, <2>2 DEF Follows
<1>5. u[2] = Unit(is, m, 2)
  <2>1. 1 < Parts(is) /\ 1 \in 1 .. 2 /\ 1 + 1 = 2
    BY <1>2
  <2> QED
    BY <1>4, <2>1
<1>6. 2 < Parts(is) => u[3] = Unit(is, m, 3)
  <2>1. 2 \in 1 .. 2 /\ 2 + 1 = 3
    OBVIOUS
  <2> QED
    BY <1>4, <1>5, <2>1
<1>7. \A k \in 1 .. Parts(is) : u[k] = Unit(is, m, k)
  BY <1>2, <1>5, <1>6
<1>8. u[Parts(is)] = Unit(is, m, Parts(is)) /\ ~(Parts(is) < Parts(is))
  BY <1>2, <1>7
<1>9. \A v : Follows(is, u[Parts(is)], v) => NextUnit(is, m, v)
  <2>1. PICK p \in Nat : p = Parts(is)
    BY <1>2
  <2>2. /\ u[p][1] = is /\ u[p][2] = m /\ u[p][3] = p
        /\ ~(p < p)
    BY <1>1, <1>8, <2>1
  <2>3. \A v : Follows(is, u[p], v) => NextUnit(is, m, v)
    BY <1>1, <2>1, <2>2 DEF Follows
  <2> QED
    BY <2>1, <2>3
<1> QED
  BY <1>7, <1>9

\* What a read makes of a server.
LEMMA TookFacts ==
  ASSUME ProgramInv, NEW s \in Servers, NEW what \in Seq(Units), NEW rest, NEW bad \in BOOLEAN,
         NEW ssl \in {"ok", "bad", "bye"}, Took(s, what, rest, bad, ssl)
  PROVE  \E v \in ServerTypes :
           /\ server' = [server EXCEPT ![s] = v]
           /\ v.pc = server[s].pc
           /\ v.run = server[s].run /\ v.peer = server[s].peer /\ v.queue = server[s].queue
           /\ v.got = Append(server[s].got, what)
           /\ v.errors = IF bad THEN server[s].errors + 1 ELSE server[s].errors
           /\ v.said = server[s].said
<1>1. server[s] \in ServerTypes /\ server \in [Servers -> ServerTypes]
  BY DEF ProgramInv
<1>2. PICK taken : taken = Append(server[s].got, what)
  OBVIOUS
<1>3. taken \in Seq(Seq(Units))
  <2>1. server[s].got \in Seq(Seq(Units))
    BY <1>1 DEF ServerTypes
  <2>2. Append(server[s].got, what) \in Seq(Seq(Units))
    BY <2>1, AppendProperties
  <2> QED
    BY <1>2, <2>2
<1>4. PICK errors : errors = IF bad THEN server[s].errors + 1 ELSE server[s].errors
  OBVIOUS
<1>5. errors \in Nat
  <2>1. server[s].errors \in Nat
    BY <1>1 DEF ServerTypes
  <2>2. CASE bad
    BY <1>4, <2>1, <2>2
  <2>3. CASE ~bad
    BY <1>4, <2>1, <2>3
  <2> QED
    BY <2>2, <2>3
<1>6. PICK v : v = [server[s] EXCEPT !.got = taken, !.ssl = ssl, !.errors = errors]
  OBVIOUS
<1>7. server' = [server EXCEPT ![s] = v]
  BY <1>1, <1>2, <1>4, <1>6 DEF Took
<1>8. /\ v \in ServerTypes
      /\ v.pc = server[s].pc
      /\ v.run = server[s].run /\ v.peer = server[s].peer /\ v.queue = server[s].queue
      /\ v.got = taken /\ v.errors = errors
      /\ v.said = server[s].said
  BY <1>1, <1>3, <1>5, <1>6 DEF ServerTypes
<1> QED
  BY <1>2, <1>4, <1>7, <1>8

\* A read that takes n units: it counts as an error, or it is the message that comes
\* next, and the one after it is next on the wire.
LEMMA TookOK ==
  ASSUME ProgramInv, NEW s \in Servers, NEW what \in Seq(Units), NEW rest, NEW bad \in BOOLEAN,
         NEW ssl \in {"ok", "bad", "bye"}, Took(s, what, rest, bad, ssl), Reading(s),
         NEW n, Dropped(conn[server[s].peer].up, n, rest),
         ~bad /\ server[s].errors = 0 /\ Comparable(server[s], client[server[s].peer]) =>
            /\ what = Data(server[s].run, Len(server[s].got) + 1)
            /\ rest # <<>> => NextUnit(Mode(client[server[s].peer].run),
                                       Len(server[s].got) + 1, Head(rest))
            /\ client[server[s].peer].pc = "write" /\ conn[server[s].peer].server = "open"
                 /\ rest = <<>> => client[server[s].peer].sent = Len(server[s].got) + 1
  PROVE  ProgramInv'
<1> DEFINE c == server[s].peer
           g == server[s].got
<1>0. server[s].pc = "read" /\ Len(g) < Messages(server[s].run)
  BY DEF Reading
<1>1. /\ server[s] \in ServerTypes /\ ServerOK(server[s])
      /\ c \in Clients /\ conn[c] \in ConnTypes
      /\ PeersOK(server[s], client[c], conn[c])
  BY <1>0, PeerFacts
<1>2. g \in Seq(Seq(Units)) /\ Len(g) \in Nat /\ server[s].errors \in Nat
  BY <1>1 DEF ServerTypes
<1>3. PICK v \in ServerTypes :
           /\ server' = [server EXCEPT ![s] = v]
           /\ v.pc = server[s].pc
           /\ v.run = server[s].run /\ v.peer = server[s].peer /\ v.queue = server[s].queue
           /\ v.got = Append(g, what)
           /\ v.errors = IF bad THEN server[s].errors + 1 ELSE server[s].errors
           /\ v.said = server[s].said
  BY TookFacts
<1>4. /\ Len(v.got) = Len(g) + 1
      /\ \A m \in 1 .. Len(g) : v.got[m] = g[m]
      /\ v.got[Len(g) + 1] = what
  BY <1>2, <1>3
<1>5. PICK x : x = [conn[c] EXCEPT !.up = rest]
  OBVIOUS
<1>6. conn' = [conn EXCEPT ![c] = x] /\ client' = client
  BY <1>5 DEF Took, ProgramInv
<1>7. /\ x \in ConnTypes
      /\ x.to = conn[c].to /\ x.server = conn[c].server /\ x.up = rest
      /\ x.down = conn[c].down
  BY <1>1, <1>5 DEF ConnTypes, Dropped
<1>8. Taken(conn[c], n, x)
  BY <1>7 DEF Taken
<1>9. Messages(server[s].run) \in Nat
  BY <1>1, ServerMessages
<1>10. /\ Len(v.got) <= Messages(v.run)
       /\ v.errors <= Len(v.got)
  BY <1>0, <1>1, <1>2, <1>3, <1>4, <1>9 DEF ServerOK
<1>11. ServerOK(v)
  BY <1>0, <1>1, <1>3, <1>10 DEF ServerOK
<1>12. client[c].pc \notin {"off", "connect"}
  BY <1>0, <1>1 DEF PeersOK
<1>13. ASSUME v.errors = 0, Comparable(v, client[c])
       PROVE  /\ \A m \in 1 .. Len(v.got) : v.got[m] = Data(v.run, m)
              /\ x.up # <<>> => NextUnit(Mode(client[c].run), Len(v.got), Head(x.up))
              /\ client[c].pc = "write" /\ x.server = "open" /\ x.up = <<>>
                   => client[c].sent = Len(v.got)
  <2>1. ~bad /\ server[s].errors = 0
    BY <1>2, <1>3, <1>13
  <2>2. Comparable(server[s], client[c])
    BY <1>3, <1>13 DEF Comparable
  <2>3. \A m \in 1 .. Len(g) : g[m] = Data(server[s].run, m)
    BY <1>1, <2>1, <2>2 DEF PeersOK
  <2>4. what = Data(server[s].run, Len(g) + 1)
    BY <2>1, <2>2
  <2>5. \A m \in 1 .. Len(v.got) : v.got[m] = Data(v.run, m)
    <3> SUFFICES ASSUME NEW m \in 1 .. Len(v.got)
                 PROVE  v.got[m] = Data(server[s].run, m)
      BY <1>3
    <3>1. m \in 1 .. Len(g) \/ m = Len(g) + 1
      BY <1>2, <1>4
    <3> QED
      BY <1>4, <2>3, <2>4, <3>1
  <2> QED
    BY <1>4, <1>7, <2>1, <2>2, <2>5
<1>14. PeersOK(v, client[c], x)
  BY <1>0, <1>3, <1>12, <1>13 DEF PeersOK
<1> QED
  BY <1>1, <1>3, <1>6, <1>8, <1>11, <1>14, ServerTakes

\* A read that counts as an error.
LEMMA TookBad ==
  ASSUME ProgramInv, NEW s \in Servers, NEW what \in Seq(Units), NEW rest,
         NEW ssl \in {"ok", "bad", "bye"}, Took(s, what, rest, TRUE, ssl), Reading(s),
         NEW n, Dropped(conn[server[s].peer].up, n, rest)
  PROVE  ProgramInv'
<1>1. PICK bad \in BOOLEAN : bad = TRUE
  OBVIOUS
<1>2. Took(s, what, rest, bad, ssl)
  BY <1>1
<1> QED
  BY <1>1, <1>2, TookOK

\* A read by a program that was told to use neither TLS nor the bare socket.
LEMMA TookAny ==
  ASSUME ProgramInv, NEW s \in Servers, NEW what \in Seq(Units), NEW rest,
         NEW ssl \in {"ok", "bad", "bye"}, Took(s, what, rest, FALSE, ssl), Reading(s),
         NEW n, Dropped(conn[server[s].peer].up, n, rest),
         Mode(server[s].run) = "enc"
  PROVE  ProgramInv'
<1>1. PICK bad \in BOOLEAN : bad = FALSE
  OBVIOUS
<1>2. Took(s, what, rest, bad, ssl)
  BY <1>1
<1>3. ~Comparable(server[s], client[server[s].peer])
  BY DEF Comparable
<1> QED
  BY <1>2, <1>3, TookOK

\* A read of a whole message.
LEMMA TookWhole ==
  ASSUME ProgramInv, NEW s \in Servers, NEW is \in {"tls", "tcp"},
         NEW ssl \in {"ok", "bad", "bye"}, Reading(s),
         Parts(is) <= Len(conn[server[s].peer].up),
         Took(s, SubSeq(conn[server[s].peer].up, 1, Parts(is)),
              SubSeq(conn[server[s].peer].up, Parts(is) + 1, Len(conn[server[s].peer].up)),
              FALSE, ssl),
         Mode(server[s].run) = is \/ Head(conn[server[s].peer].up)[1] = is
  PROVE  ProgramInv'
<1> DEFINE c == server[s].peer
           up == conn[c].up
           n == Parts(is)
           what == SubSeq(up, 1, n)
           rest == SubSeq(up, n + 1, Len(up))
           g == Len(server[s].got)
           k == client[c]
<1>0. server[s].pc = "read"
  BY DEF Reading
<1>1. /\ server[s] \in ServerTypes
      /\ up \in Seq(Units)
      /\ ClientOK(k, conn[c])
      /\ WireOK(Mode(k.run), up)
      /\ PeersOK(server[s], k, conn[c])
  BY <1>0, PeerFacts
<1>2. g \in Nat
  BY <1>1 DEF ServerTypes
<1>3. n \in 2 .. 3 /\ (is = "tls" => n = 3) /\ (is # "tls" => n = 2)
  BY PartsFacts DEF Kinds
<1>4. n \in 0 .. Len(up) /\ Len(up) \in Nat /\ up # <<>> /\ n # 1
  <2> HIDE DEF n, up
  <2> QED
    BY <1>1, <1>3 DEF n, up
<1>5. /\ Dropped(up, n, rest)
      /\ what \in Seq(Units) /\ Len(what) = n
      /\ \A i \in 1 .. n : what[i] = up[i]
  <2> HIDE DEF n, up
  <2> QED
    BY <1>1, <1>4, SubSeqDrops
<1>6. ASSUME server[s].errors = 0, Comparable(server[s], k)
      PROVE  /\ what = Data(server[s].run, g + 1)
             /\ rest # <<>> => NextUnit(Mode(k.run), g + 1, Head(rest))
             /\ k.pc = "write" /\ conn[c].server = "open" /\ rest = <<>> => k.sent = g + 1
  <2>1. NextUnit(Mode(k.run), g, Head(up))
    BY <1>0, <1>1, <1>4, <1>6 DEF PeersOK
  <2>2. Mode(k.run) = Mode(server[s].run) /\ Mode(k.run) \in {"tls", "tcp"}
    BY <1>6 DEF Comparable
  <2>3. Head(up) = up[1] /\ 1 \in 1 .. Len(up) - 1
    BY <1>3, <1>4
  <2>4. Head(up) # Bye
    <3> SUFFICES ASSUME up[1] = Bye
                 PROVE  FALSE
      BY <2>3
    <3>1. up[1][1] = "bye"
      BY DEF Bye, Unit
    <3>2. Follows(Mode(k.run), up[1], up[1 + 1])
      BY <1>1, <2>3 DEF WireOK
    <3> QED
      BY <2>2, <3>1, <3>2 DEF Follows
  <2>5. up[1] = Unit(Mode(k.run), g + 1, 1)
    BY <2>1, <2>3, <2>4 DEF NextUnit
  <2>6. Mode(k.run) = is
    <3>1. up[1][1] = Mode(k.run)
      BY <2>5 DEF Unit
    <3> QED
      BY <2>2, <2>3, <3>1
  <2>7. /\ \A i \in 1 .. n : up[i] = Unit(is, g + 1, i)
        /\ \A v : Follows(is, up[n], v) => NextUnit(is, g + 1, v)
    <3>1. WireOK(is, up) /\ up[1] = Unit(is, g + 1, 1) /\ g + 1 \in Nat /\ n <= Len(up)
      BY <1>1, <1>2, <1>4, <2>5, <2>6
    <3> HIDE DEF up, g
    <3> QED
      BY <1>1, <1>4, <3>1, WholeMessage
  <2>8. /\ rest # <<>> => Follows(is, up[n], Head(rest))
        /\ rest = <<>> => Len(up) = n
    <3>1. WireOK(is, up) /\ n > 0
      BY <1>1, <1>3, <2>6
    <3> HIDE DEF up, rest, n
    <3> QED
      BY <1>1, <1>5, <3>1, DropFacts
  <2>9. what = Data(server[s].run, g + 1)
    <3>1. what = [i \in 1 .. n |-> what[i]]
      <4> HIDE DEF what, n
      <4> QED
        BY <1>5
    <3>2. what = [i \in 1 .. n |-> Unit(is, g + 1, i)]
      <4> HIDE DEF what, n
      <4> QED
        BY <1>5, <2>7, <3>1
    <3>3. CASE is = "tls"
      BY <1>3, <2>2, <2>6, <3>2, <3>3 DEF Data, Record
    <3>4. CASE is = "tcp"
      BY <1>3, <2>2, <2>6, <3>2, <3>4 DEF Data, Bare
    <3> QED
      BY <3>3, <3>4
  <2>10. rest # <<>> => NextUnit(Mode(k.run), g + 1, Head(rest))
    BY <2>6, <2>7, <2>8
  <2>11. ASSUME k.pc = "write", conn[c].server = "open", rest = <<>>
         PROVE  k.sent = g + 1
    <3>1. Last(up) = Unit(is, g + 1, n)
      BY <1>3, <1>4, <2>7, <2>8, <2>11 DEF Last
    <3>2. Last(up) = IF k.sent = 0 THEN Finished ELSE Unit(is, k.sent, n)
      BY <1>1, <1>4, <2>6, <2>11 DEF ClientOK
    <3>3. Last(up)[1] = is /\ Last(up)[2] = g + 1
      BY <3>1 DEF Unit
    <3>4. k.sent # 0
      BY <3>2, <3>3 DEF Finished, Unit
    <3>5. Last(up)[2] = k.sent
      BY <3>2, <3>4 DEF Unit
    <3> QED
      BY <3>3, <3>5
  <2> QED
    BY <2>9, <2>10, <2>11
<1>7. PICK bad \in BOOLEAN : bad = FALSE
  OBVIOUS
<1>8. Took(s, what, rest, bad, ssl)
  BY <1>7
<1> QED
  BY <1>5, <1>6, <1>8, TookOK

LEMMA SslReadOK ==
  ASSUME ProgramInv, NEW s \in Servers, SslRead(s)
  PROVE  ProgramInv'
<1> DEFINE c == server[s].peer
           up == conn[c].up
<1>0. Reading(s) /\ server[s].pc = "read"
  BY DEF SslRead, SslReadWith, Reading
<1>1. server[s] \in ServerTypes /\ up \in Seq(Units)
  BY <1>0, PeerFacts
<1>2. server[s].ssl \in {"ok", "bad", "bye"} /\ <<>> \in Seq(Units)
  BY <1>1 DEF ServerTypes
<1>3. Dropped(up, 0, up)
  BY <1>1, NothingDrops
<1>4. CASE Took(s, <<>>, up, TRUE, server[s].ssl) \/ Took(s, <<>>, up, TRUE, "bad")
  BY <1>0, <1>2, <1>3, <1>4, TookBad
<1>5. CASE /\ Starts(c, "bye")
           /\ Took(s, <<>>, Tail(up), TRUE, "bye")
  <2>1. Dropped(up, 1, Tail(up))
    BY <1>1, <1>5, TailDrops DEF Starts
  <2> QED
    BY <1>0, <1>2, <1>5, <2>1, TookBad
<1>6. CASE /\ Len(up) >= 3 /\ Starts(c, "tls")
           /\ Took(s, SubSeq(up, 1, 3), SubSeq(up, 4, Len(up)), FALSE, "ok")
  <2>1. Parts("tls") = 3 /\ 3 + 1 = 4
    BY DEF Parts
  <2>2. /\ Parts("tls") <= Len(up)
        /\ Took(s, SubSeq(up, 1, Parts("tls")), SubSeq(up, Parts("tls") + 1, Len(up)),
                FALSE, "ok")
    BY <1>1, <1>6, <2>1
  <2> QED
    BY <1>0, <1>6, <2>2, TookWhole DEF Starts
<1>7. CASE server[s].ssl # "ok"
  <2>1. Took(s, <<>>, up, server[s].ssl = "bad" \/ TRUE, server[s].ssl)
    BY <1>7 DEF SslRead, SslReadWith
  <2>2. Took(s, <<>>, up, TRUE, server[s].ssl)
    BY <2>1
  <2> QED
    BY <1>4, <2>2
<1>8. CASE server[s].ssl = "ok"
  BY <1>4, <1>5, <1>6, <1>8 DEF SslRead, SslReadWith
<1> QED
  BY <1>7, <1>8

LEMMA TcpReadOK ==
  ASSUME ProgramInv, NEW s \in Servers, TcpRead(s), Mode(server[s].run) = "tcp"
  PROVE  ProgramInv'
<1> DEFINE c == server[s].peer
           up == conn[c].up
<1>0. Reading(s) /\ server[s].pc = "read"
  BY DEF TcpRead, ReadSome, Reading
<1>1. server[s] \in ServerTypes /\ up \in Seq(Units)
  BY <1>0, PeerFacts
<1>2. server[s].ssl \in {"ok", "bad", "bye"} /\ <<>> \in Seq(Units)
  BY <1>1 DEF ServerTypes
<1>3. CASE /\ 1 <= Len(up)
           /\ Took(s, SubSeq(up, 1, 1), SubSeq(up, 1 + 1, Len(up)), TRUE, server[s].ssl)
  <2>1. 1 \in 0 .. Len(up)
    BY <1>1, <1>3
  <2>2. Dropped(up, 1, SubSeq(up, 1 + 1, Len(up))) /\ SubSeq(up, 1, 1) \in Seq(Units)
    BY <1>1, <2>1, SubSeqDrops
  <2> QED
    BY <1>0, <1>2, <1>3, <2>2, TookBad
<1>4. CASE /\ 2 <= Len(up)
           /\ Took(s, SubSeq(up, 1, 2), SubSeq(up, 2 + 1, Len(up)), FALSE, server[s].ssl)
  <2>1. Parts("tcp") = 2
    BY DEF Parts
  <2>2. /\ Parts("tcp") <= Len(up)
        /\ Took(s, SubSeq(up, 1, Parts("tcp")), SubSeq(up, Parts("tcp") + 1, Len(up)),
                FALSE, server[s].ssl)
    BY <1>4, <2>1
  <2> QED
    BY <1>0, <1>2, <2>2, TookWhole
<1>5. CASE Took(s, <<>>, up, TRUE, server[s].ssl)
  BY <1>0, <1>1, <1>2, <1>5, NothingDrops, TookBad
<1>6. ASSUME NEW k \in 1 .. 2, k <= Len(up),
             Took(s, SubSeq(up, 1, k), SubSeq(up, k + 1, Len(up)),
                  TRUE /\ k # 2, server[s].ssl)
      PROVE  ProgramInv'
  <2>1. k = 1 \/ k = 2
    OBVIOUS
  <2>2. CASE k = 1
    <3>1. Took(s, SubSeq(up, 1, 1), SubSeq(up, 1 + 1, Len(up)), TRUE, server[s].ssl)
      BY <1>6, <2>2 DEF Took
    <3> QED
      BY <1>3, <1>6, <2>2, <3>1
  <2>3. CASE k = 2
    <3>1. Took(s, SubSeq(up, 1, 2), SubSeq(up, 2 + 1, Len(up)), FALSE, server[s].ssl)
      BY <1>6, <2>3 DEF Took
    <3> QED
      BY <1>4, <1>6, <2>3, <3>1
  <2> QED
    BY <2>1, <2>2, <2>3
<1> QED
  BY <1>5, <1>6 DEF TcpRead, ReadSome

LEMMA MyReadOK ==
  ASSUME ProgramInv, NEW s \in Servers, MyRead(s), Mode(server[s].run) = "enc"
  PROVE  ProgramInv'
<1> DEFINE c == server[s].peer
           up == conn[c].up
<1>0. Reading(s) /\ server[s].pc = "read"
  BY DEF MyRead, ReadSome, Reading
<1>1. server[s] \in ServerTypes /\ up \in Seq(Units)
  BY <1>0, PeerFacts
<1>2. server[s].ssl \in {"ok", "bad", "bye"} /\ <<>> \in Seq(Units)
  BY <1>1 DEF ServerTypes
<1>3. CASE Took(s, <<>>, up, FALSE, server[s].ssl)
  BY <1>0, <1>1, <1>2, <1>3, NothingDrops, TookAny
<1>4. ASSUME NEW k \in 1 .. 2, k <= Len(up),
             Took(s, SubSeq(up, 1, k), SubSeq(up, k + 1, Len(up)),
                  FALSE /\ k # 2, server[s].ssl)
      PROVE  ProgramInv'
  <2>1. k \in 0 .. Len(up)
    BY <1>1, <1>4
  <2>2. Dropped(up, k, SubSeq(up, k + 1, Len(up))) /\ SubSeq(up, 1, k) \in Seq(Units)
    BY <1>1, <2>1, SubSeqDrops
  <2>3. Took(s, SubSeq(up, 1, k), SubSeq(up, k + 1, Len(up)), FALSE, server[s].ssl)
    BY <1>4 DEF Took
  <2> QED
    BY <1>0, <1>2, <2>2, <2>3, TookAny
<1> QED
  BY <1>3, <1>4 DEF MyRead, ReadSome

-----------------------------------------------------------------------------
(* The client, step by step.                                               *)

LEMMA OwnFacts ==
  ASSUME ProgramInv, NEW c \in Clients
  PROVE  /\ client[c] \in ClientTypes /\ conn[c] \in ConnTypes
         /\ conn[c].up \in Seq(Units)
         /\ client \in [Clients -> ClientTypes] /\ conn \in [Clients -> ConnTypes]
         /\ ClientOK(client[c], conn[c])
         /\ \A s \in Servers :
               server[s].peer = c => PeersOK(server[s], client[c], conn[c])
<1>1. client[c] \in ClientTypes /\ conn[c] \in ConnTypes /\ ClientOK(client[c], conn[c])
  BY DEF ProgramInv, ClientsInv
<1>2. conn[c].up \in Seq(Units)
  BY <1>1 DEF ConnTypes
<1> QED
  BY <1>1, <1>2 DEF ProgramInv, PeersInv

\* What the change of a client's place is.
LEMMA WentFacts ==
  ASSUME ProgramInv, NEW c \in Clients, NEW pc, Went(c, pc),
         pc \in {"off", "connect", "write", "wait", "close", "loop", "end"}
  PROVE  \E k \in ClientTypes :
           /\ client' = [client EXCEPT ![c] = k]
           /\ k.pc = pc
           /\ k.run = client[c].run /\ k.sent = client[c].sent /\ k.ssl = client[c].ssl
<1>1. client[c] \in ClientTypes
  BY OwnFacts
<1> DEFINE k == [client[c] EXCEPT !.pc = pc]
<1>2. client' = [client EXCEPT ![c] = k]
  BY DEF Went, ProgramInv
<1>3. /\ k \in ClientTypes
      /\ k.pc = pc
      /\ k.run = client[c].run /\ k.sent = client[c].sent /\ k.ssl = client[c].ssl
  BY <1>1 DEF ClientTypes
<1> QED
  BY <1>2, <1>3

\* A client goes on, or ends, without writing.
LEMMA ClientMoves ==
  ASSUME ProgramInv, NEW c \in Clients, NEW pc \in {"wait", "close", "loop", "end"},
         Went(c, pc), server' = server,
         NEW w \in ConnTypes, conn' = [conn EXCEPT ![c] = w],
         w.to = conn[c].to, w.up = conn[c].up, w.down = conn[c].down,
         w.server = conn[c].server
  PROVE  ProgramInv'
<1>1. PICK k \in ClientTypes :
           /\ client' = [client EXCEPT ![c] = k]
           /\ k.pc = pc
           /\ k.run = client[c].run /\ k.sent = client[c].sent /\ k.ssl = client[c].ssl
  BY WentFacts
<1>2. /\ ClientOK(client[c], conn[c])
      /\ \A s \in Servers : server[s].peer = c => PeersOK(server[s], client[c], conn[c])
  BY OwnFacts
<1>3. ClientOK(k, w)
  BY <1>1, <1>2 DEF ClientOK
<1>4. ASSUME NEW s \in Servers, server[s].peer = c
      PROVE  PeersOK(server[s], k, w)
  <2>1. PeersOK(server[s], client[c], conn[c])
    BY <1>2, <1>4
  <2> QED
    BY <1>1, <2>1 DEF PeersOK, Comparable
<1> QED
  BY <1>1, <1>3, <1>4, ClientFrame

LEMMA ClientMovesOn ==
  ASSUME ProgramInv, NEW c \in Clients, NEW pc \in {"wait", "close", "loop", "end"},
         Went(c, pc), server' = server, conn' = conn
  PROVE  ProgramInv'
<1>1. conn[c] \in ConnTypes /\ conn' = [conn EXCEPT ![c] = conn[c]]
  BY OwnFacts
<1> QED
  BY <1>1, ClientMoves

LEMMA EndClientOK ==
  ASSUME ProgramInv, NEW c \in Clients, EndClient(c), server' = server
  PROVE  ProgramInv'
<1>0. conn[c] \in ConnTypes /\ conn \in [Clients -> ConnTypes]
  BY OwnFacts
<1>1. PICK at : at = IF conn[c].client = "none" THEN conn[c].client ELSE "closed"
  OBVIOUS
<1>2. at \in {"none", "open", "closed"}
  BY <1>0, <1>1
<1>3. PICK w : w = [conn[c] EXCEPT !.client = at]
  OBVIOUS
<1>4. conn' = [conn EXCEPT ![c] = w]
  BY <1>0, <1>1, <1>3 DEF EndClient
<1>5. /\ w \in ConnTypes
      /\ w.to = conn[c].to /\ w.up = conn[c].up /\ w.down = conn[c].down
      /\ w.server = conn[c].server
  BY <1>0, <1>2, <1>3 DEF ConnTypes
<1> QED
  BY <1>4, <1>5, ClientMoves DEF EndClient

LEMMA ClientEndsOK ==
  ASSUME ProgramInv, NEW c \in Clients, CloseClient(c) \/ Abort(c) \/ KillClient(c)
  PROVE  ProgramInv'
BY EndClientOK DEF CloseClient, Abort, KillClient

LEMMA ClientAwaitOK ==
  ASSUME ProgramInv, NEW c \in Clients, ClientAwait(c)
  PROVE  ProgramInv'
BY ClientMovesOn DEF ClientAwait

\* u with more units written behind it.
LEMMA WireAppend ==
  ASSUME NEW is, NEW u \in Seq(Units), NEW d \in Seq(Units), d # <<>>,
         WireOK(is, u), WireOK(is, d), u # <<>> => Follows(is, Last(u), d[1])
  PROVE  /\ u \o d \in Seq(Units) /\ u \o d # <<>>
         /\ WireOK(is, u \o d)
         /\ Last(u \o d) = Last(d)
         /\ u # <<>> => Head(u \o d) = Head(u)
         /\ u = <<>> => Head(u \o d) = d[1]
<1>1. PICK r : r = u \o d
  OBVIOUS
<1>2. /\ r \in Seq(Units) /\ Len(r) = Len(u) + Len(d)
      /\ \A i \in 1 .. Len(r) : r[i] = IF i <= Len(u) THEN u[i] ELSE d[i - Len(u)]
  <2> HIDE DEF Units
  <2> QED
    BY <1>1, ConcatProperties
<1>3. Len(u) \in Nat /\ Len(d) \in Nat /\ Len(d) > 0
  OBVIOUS
<1>4. r # <<>>
  BY <1>2, <1>3
<1>5. ASSUME NEW i \in 1 .. Len(r) - 1
      PROVE  Follows(is, r[i], r[i + 1])
  <2>1. CASE i < Len(u)
    <3>1. r[i] = u[i] /\ r[i + 1] = u[i + 1] /\ i \in 1 .. Len(u) - 1
      BY <1>2, <1>3, <2>1
    <3> QED
      BY <3>1 DEF WireOK
  <2>2. CASE i = Len(u)
    <3>1. /\ i \in 1 .. Len(r) /\ i + 1 \in 1 .. Len(r)
          /\ i <= Len(u) /\ ~(i + 1 <= Len(u)) /\ i + 1 - Len(u) = 1
      BY <1>2, <1>3, <2>2
    <3>2. r[i] = u[i] /\ r[i + 1] = d[1]
      BY <1>2, <3>1
    <3>3. u # <<>> /\ Last(u) = u[i]
      BY <1>3, <2>2, <3>1 DEF Last
    <3> QED
      BY <3>2, <3>3
  <2>3. CASE i > Len(u)
    <3>1. PICK j \in Int : j = i - Len(u)
      <4>1. i \in Int /\ i - Len(u) \in Int
        BY <1>2, <1>3
      <4> QED
        BY <4>1
    <3>2. r[i] = d[j] /\ r[i + 1] = d[j + 1] /\ j \in 1 .. Len(d) - 1
      <4>1. i + 1 - Len(u) = j + 1 /\ j \in 1 .. Len(d) - 1 /\ i + 1 \in 1 .. Len(r)
        BY <1>2, <1>3, <2>3, <3>1
      <4> QED
        BY <1>2, <1>3, <2>3, <3>1, <4>1
    <3> QED
      BY <3>2 DEF WireOK
  <2> QED
    BY <1>3, <2>1, <2>2, <2>3
<1>6. WireOK(is, r)
  BY <1>5 DEF WireOK
<1>7. Last(r) = Last(d)
  <2>1. /\ Len(r) \in 1 .. Len(r) /\ ~(Len(r) <= Len(u))
        /\ Len(r) - Len(u) = Len(d)
    BY <1>2, <1>3
  <2>2. r[Len(r)] = d[Len(r) - Len(u)]
    BY <1>2, <2>1
  <2> QED
    BY <2>1, <2>2 DEF Last
<1>8. u # <<>> => Head(r) = Head(u)
  BY <1>2, <1>3, <1>4
<1>9. u = <<>> => Head(r) = d[1]
  BY <1>2, <1>3, <1>4
<1> QED
  BY <1>1, <1>2, <1>4, <1>6, <1>7, <1>8, <1>9

LEMMA OnlyWire ==
  ASSUME NEW what \in Kinds
  PROVE  /\ \A is : WireOK(is, Only(what))
         /\ Only(what) \in Seq(Units) /\ Only(what) # <<>>
         /\ Only(what)[1] = Unit(what, 0, 1)
         /\ Last(Only(what)) = Unit(what, 0, 1)
         /\ Head(Only(what)) = Unit(what, 0, 1)
<1>1. /\ Only(what) \in Seq(Units) /\ Len(Only(what)) = 1
      /\ Only(what)[1] = Unit(what, 0, 1)
  BY OnlyFacts
<1> HIDE DEF Only
<1> QED
  BY <1>1 DEF WireOK, Last

\* The units of a message, one after the other.
LEMMA DataFacts ==
  ASSUME NEW run, NEW m \in Nat, Mode(run) \in {"tls", "tcp", "enc"}
  PROVE  /\ Data(run, m) \in Seq(Units) /\ Data(run, m) # <<>>
         /\ WireOK(Mode(run), Data(run, m))
         /\ Data(run, m)[1] = Unit(Mode(run), m, 1)
         /\ Last(Data(run, m)) = Unit(Mode(run), m, Parts(Mode(run)))
<1> DEFINE is == Mode(run)
           n == Parts(is)
<1>1. n \in 2 .. 3
  BY PartsFacts DEF Kinds
<1>2. Data(run, m) = [k \in 1 .. n |-> Unit(is, m, k)]
  BY DEF Data, Record, Bare, Parts
<1>3. PICK d : d = Data(run, m)
  OBVIOUS
<1>4. \A k \in Nat : /\ Unit(is, m, k) \in Units
                     /\ Unit(is, m, k)[1] = is
                     /\ Unit(is, m, k)[2] = m
                     /\ Unit(is, m, k)[3] = k
  <2>1. is \in Kinds
    BY DEF Kinds
  <2> HIDE DEF is
  <2> QED
    BY <2>1, UnitFacts
<1>5. d \in Seq(Units) /\ Len(d) = n /\ \A k \in 1 .. n : d[k] = Unit(is, m, k)
  <2> HIDE DEF n, is
  <2> QED
    BY <1>1, <1>2, <1>3, <1>4
<1>6. is # "hello" /\ is # "finished"
  OBVIOUS
<1>7. WireOK(is, d)
  <2> SUFFICES ASSUME NEW i \in 1 .. Len(d) - 1
               PROVE  Follows(is, d[i], d[i + 1])
    BY DEF WireOK
  <2>1. i < n /\ i \in Nat /\ i \in 1 .. n /\ i + 1 \in 1 .. n
    BY <1>1, <1>5
  <2>2. d[i] = Unit(is, m, i) /\ d[i + 1] = Unit(is, m, i + 1)
    BY <1>5, <2>1
  <2> QED
    BY <1>4, <1>6, <2>1, <2>2 DEF Follows
<1>8. d # <<>> /\ d[1] = Unit(is, m, 1) /\ Last(d) = Unit(is, m, n)
  BY <1>1, <1>5 DEF Last
<1> QED
  BY <1>3, <1>5, <1>7, <1>8

\* What is sent up a connection.
LEMMA SendFacts ==
  ASSUME ProgramInv, NEW c \in Clients, NEW d \in Seq(Units), conn' = Send(c, d)
  PROVE  \E w \in ConnTypes :
           /\ conn' = [conn EXCEPT ![c] = w]
           /\ w.up = conn[c].up \o d
           /\ w.to = conn[c].to /\ w.down = conn[c].down
           /\ w.server = conn[c].server
<1>1. conn[c] \in ConnTypes /\ conn[c].up \in Seq(Units) /\ conn \in [Clients -> ConnTypes]
  BY OwnFacts
<1>2. PICK up : up = conn[c].up \o d
  OBVIOUS
<1>3. up \in Seq(Units)
  <2> HIDE DEF Units
  <2> QED
    BY <1>1, <1>2, ConcatProperties
<1>4. PICK w : w = [conn[c] EXCEPT !.up = up]
  OBVIOUS
<1>5. conn' = [conn EXCEPT ![c] = w]
  BY <1>1, <1>2, <1>4 DEF Send
<1>6. /\ w \in ConnTypes
      /\ w.up = up
      /\ w.to = conn[c].to /\ w.down = conn[c].down
      /\ w.server = conn[c].server
  BY <1>1, <1>3, <1>4 DEF ConnTypes
<1> QED
  BY <1>2, <1>5, <1>6

\* SSL_connect has the hello of the server: it answers and goes on, or not.
LEMMA ConnectAnswers ==
  ASSUME ProgramInv, NEW c \in Clients, client[c].pc = "connect", "hello" \in conn[c].down,
         server' = server,
         \/ Went(c, "write") /\ conn' = Send(c, Only("finished"))
         \/ Went(c, "loop") /\ conn' = Send(c, Only("alert"))
  PROVE  ProgramInv'
<1>1. PICK pc \in {"write", "loop"}, is \in {"finished", "alert"} :
         /\ pc = "write" => is = "finished"
         /\ Went(c, pc) /\ conn' = Send(c, Only(is))
  OBVIOUS
<1>2. is \in Kinds
  BY DEF Kinds
<1>3. /\ \A mode : WireOK(mode, Only(is))
      /\ Only(is) \in Seq(Units) /\ Only(is) # <<>>
      /\ Last(Only(is)) = Unit(is, 0, 1)
      /\ Head(Only(is)) = Unit(is, 0, 1)
  BY <1>2, OnlyWire
<1>4. PICK w \in ConnTypes :
           /\ conn' = [conn EXCEPT ![c] = w]
           /\ w.up = conn[c].up \o Only(is)
           /\ w.to = conn[c].to /\ w.down = conn[c].down
           /\ w.server = conn[c].server
  BY <1>1, <1>3, SendFacts
<1>5. PICK k \in ClientTypes :
           /\ client' = [client EXCEPT ![c] = k]
           /\ k.pc = pc
           /\ k.run = client[c].run /\ k.sent = client[c].sent /\ k.ssl = client[c].ssl
  BY <1>1, WentFacts
<1>6. /\ ClientOK(client[c], conn[c])
      /\ \A s \in Servers : server[s].peer = c => PeersOK(server[s], client[c], conn[c])
  BY OwnFacts
<1>7. conn[c].up = <<>> /\ client[c].sent = 0
  BY <1>6 DEF ClientOK
<1>8. w.up = Only(is)
  <2> HIDE DEF Only
  <2> QED
    BY <1>3, <1>4, <1>7
<1>9. ClientOK(k, w)
  BY <1>1, <1>3, <1>5, <1>6, <1>7, <1>8 DEF ClientOK, Finished
<1>10. ASSUME NEW s \in Servers, server[s].peer = c
       PROVE  PeersOK(server[s], k, w)
  <2>1. PeersOK(server[s], client[c], conn[c])
    BY <1>6, <1>10
  <2>2. server[s].pc # "read"
    BY <2>1 DEF PeersOK
  <2>3. Head(w.up)[1] \in {"finished", "alert"} /\ w.up # <<>>
    BY <1>3, <1>8 DEF Unit
  <2> QED
    BY <1>5, <2>1, <2>2, <2>3 DEF PeersOK, Comparable
<1> QED
  BY <1>4, <1>5, <1>9, <1>10, ClientFrame

LEMMA SslConnectOK ==
  ASSUME ProgramInv, NEW c \in Clients, NEW verdicts, SslConnect(c, verdicts)
  PROVE  ProgramInv'
<1>0. client[c].pc = "connect" /\ server' = server
  BY DEF SslConnect
<1>1. CASE /\ "hello" \in conn[c].down
           /\ \/ Went(c, "write") /\ conn' = Send(c, Only("finished"))
              \/ Went(c, "loop") /\ conn' = Send(c, Only("alert"))
  BY <1>0, <1>1, ConnectAnswers
<1>2. CASE EndClient(c)
  BY <1>0, <1>2, EndClientOK
<1>3. CASE Went(c, "loop") /\ conn' = conn
  BY <1>0, <1>3, ClientMovesOn
<1> QED
  BY <1>1, <1>2, <1>3 DEF SslConnect

\* A client writes what is next, on a connection that is whole.
LEMMA ClientSends ==
  ASSUME ProgramInv, NEW c \in Clients, client[c].pc = "write", conn[c].server = "open",
         NEW d \in Seq(Units), d # <<>>, WireOK(Mode(client[c].run), d),
         NextUnit(Mode(client[c].run), client[c].sent, d[1]),
         NEW k \in ClientTypes, k.run = client[c].run, k.sent <= Messages(k.run),
         \/ k.pc = "wait"
         \/ /\ k.pc = "write" /\ k.sent # 0
            /\ Last(d) = Unit(Mode(k.run), k.sent, Parts(Mode(k.run))),
         client' = [client EXCEPT ![c] = k], conn' = Send(c, d), server' = server
  PROVE  ProgramInv'
<1> DEFINE is == Mode(client[c].run)
           m == client[c].sent
           u == conn[c].up
<1>1. PICK w \in ConnTypes :
           /\ conn' = [conn EXCEPT ![c] = w]
           /\ w.up = u \o d
           /\ w.to = conn[c].to /\ w.down = conn[c].down
           /\ w.server = conn[c].server
  BY SendFacts
<1>2. /\ client[c] \in ClientTypes /\ u \in Seq(Units)
      /\ ClientOK(client[c], conn[c])
      /\ \A s \in Servers : server[s].peer = c => PeersOK(server[s], client[c], conn[c])
  BY OwnFacts
<1>3. is \in {"tls", "tcp", "enc", "none"}
  BY ModeFacts
<1>4. m \in Nat
  BY <1>2 DEF ClientTypes
<1>5. ASSUME u # <<>>
      PROVE  Follows(is, Last(u), d[1])
  <2>1. CASE m = 0
    <3>1. Last(u) = Finished
      BY <1>2, <1>5, <2>1 DEF ClientOK
    <3>2. Last(u)[1] = "finished"
      BY <3>1 DEF Finished, Unit
    <3> QED
      BY <1>3, <2>1, <3>2 DEF Follows
  <2>2. CASE m # 0
    <3>1. Last(u) = Unit(is, m, Parts(is))
      BY <1>2, <1>5, <2>2 DEF ClientOK
    <3>2. /\ Last(u)[1] = is /\ Last(u)[2] = m
          /\ Last(u)[3] = Parts(is)
      BY <3>1 DEF Unit
    <3>3. ~(Parts(is) < Parts(is))
      BY DEF Parts
    <3> QED
      BY <1>3, <3>2, <3>3 DEF Follows
  <2> QED
    BY <2>1, <2>2
<1>6. /\ w.up # <<>>
      /\ WireOK(is, w.up)
      /\ Last(w.up) = Last(d)
      /\ u # <<>> => Head(w.up) = Head(u)
      /\ u = <<>> => Head(w.up) = d[1]
  <2>1. WireOK(is, u)
    BY <1>2 DEF ClientOK
  <2>2. PICK r : r = u \o d
    OBVIOUS
  <2>3. /\ r # <<>>
        /\ WireOK(is, r)
        /\ Last(r) = Last(d)
        /\ u # <<>> => Head(r) = Head(u)
        /\ u = <<>> => Head(r) = d[1]
    <3> HIDE DEF u, is
    <3> QED
      BY <1>2, <1>5, <2>1, <2>2, WireAppend DEF is
  <2> QED
    BY <1>1, <2>2, <2>3
<1>7. ClientOK(k, w)
  BY <1>2, <1>6 DEF ClientOK
<1>8. ASSUME NEW s \in Servers, server[s].peer = c
      PROVE  PeersOK(server[s], k, w)
  <2>1. PeersOK(server[s], client[c], conn[c])
    BY <1>2, <1>8
  <2>2. server[s].pc = "hello" => Head(w.up)[1] \in {"finished", "alert"}
    BY <1>6, <2>1 DEF PeersOK
  <2>3. ASSUME server[s].pc = "read", server[s].errors = 0, Comparable(server[s], k)
        PROVE  NextUnit(is, Len(server[s].got), Head(w.up))
    <3>1. Comparable(server[s], client[c])
      BY <2>3 DEF Comparable
    <3>2. CASE u # <<>>
      BY <1>6, <2>1, <2>3, <3>1, <3>2 DEF PeersOK
    <3>3. CASE u = <<>>
      BY <1>6, <2>1, <2>3, <3>1, <3>3 DEF PeersOK
    <3> QED
      BY <3>2, <3>3
  <2>4. server[s].errors = 0 /\ Comparable(server[s], k)
          => \A i \in 1 .. Len(server[s].got) : server[s].got[i] = Data(server[s].run, i)
    BY <2>1 DEF PeersOK, Comparable
  <2> QED
    BY <1>6, <2>2, <2>3, <2>4 DEF PeersOK
<1> QED
  BY <1>1, <1>7, <1>8, ClientFrame

\* A client goes on writing to a connection that is dead.
LEMMA DeadWrite ==
  ASSUME ProgramInv, NEW c \in Clients, client[c].pc = "write", conn[c].server # "open",
         NEW k \in ClientTypes, k.run = client[c].run, k.pc = "write",
         k.sent <= Messages(k.run),
         client' = [client EXCEPT ![c] = k], conn' = conn, server' = server
  PROVE  ProgramInv'
<1>1. /\ conn' = [conn EXCEPT ![c] = conn[c]]
      /\ ClientOK(client[c], conn[c])
      /\ \A s \in Servers : server[s].peer = c => PeersOK(server[s], client[c], conn[c])
  BY OwnFacts
<1>2. ClientOK(k, conn[c])
  BY <1>1 DEF ClientOK
<1>3. ASSUME NEW s \in Servers, server[s].peer = c
      PROVE  PeersOK(server[s], k, conn[c])
  <2>1. PeersOK(server[s], client[c], conn[c])
    BY <1>1, <1>3
  <2> QED
    BY <2>1 DEF PeersOK, Comparable
<1> QED
  BY <1>1, <1>2, <1>3, ClientFrame

LEMMA ClientWriteOK ==
  ASSUME ProgramInv, NEW c \in Clients, ClientWrite(c)
  PROVE  ProgramInv'
<1> DEFINE is == Mode(client[c].run)
           m == client[c].sent
<1>0. client[c].pc = "write" /\ m < Messages(client[c].run) /\ server' = server
  BY DEF ClientWrite
<1>1. client[c] \in ClientTypes /\ client \in [Clients -> ClientTypes]
  BY OwnFacts
<1>2. m \in Nat /\ Messages(client[c].run) \in Nat
  BY <1>1, ClientMessages DEF ClientTypes
<1>3. is \in {"tls", "tcp", "enc"}
  <2>1. is # "none"
    BY <1>0, <1>2 DEF Messages
  <2> QED
    BY <2>1, ModeFacts
<1>4. CASE /\ client' = [client EXCEPT ![c].sent = @ + 1]
           /\ conn' = IF Dead(c) THEN conn ELSE Send(c, Data(client[c].run, m + 1))
  <2>1. PICK k : k = [client[c] EXCEPT !.sent = m + 1]
    OBVIOUS
  <2>2. client' = [client EXCEPT ![c] = k]
    BY <1>1, <1>4, <2>1
  <2>3. /\ k \in ClientTypes
        /\ k.run = client[c].run /\ k.pc = "write" /\ k.sent = m + 1
    BY <1>0, <1>1, <1>2, <2>1 DEF ClientTypes
  <2>4. k.sent <= Messages(k.run)
    BY <1>0, <1>2, <2>3
  <2>5. CASE Dead(c)
    BY <1>0, <1>4, <2>2, <2>3, <2>4, <2>5, DeadWrite DEF Dead
  <2>6. CASE ~Dead(c)
    <3>1. PICK d : d = Data(client[c].run, m + 1)
      OBVIOUS
    <3>2. /\ d \in Seq(Units) /\ d # <<>>
          /\ WireOK(is, d)
          /\ d[1] = Unit(is, m + 1, 1)
          /\ Last(d) = Unit(is, m + 1, Parts(is))
      BY <1>2, <1>3, <3>1, DataFacts
    <3>3. NextUnit(is, m, d[1]) /\ m + 1 # 0
      BY <1>2, <3>2 DEF NextUnit
    <3>4. conn' = Send(c, d) /\ conn[c].server = "open"
      BY <1>4, <2>6, <3>1 DEF Dead
    <3> QED
      BY <1>0, <2>2, <2>3, <2>4, <3>2, <3>3, <3>4, ClientSends
  <2> QED
    BY <2>5, <2>6
<1>5. CASE /\ Dead(c)
           /\ client' = [client EXCEPT ![c].sent = Messages(client[c].run),
                           ![c].ssl = IF is = "tls" THEN "bad" ELSE @]
           /\ conn' = conn
  <2>1. PICK ssl : ssl = IF is = "tls" THEN "bad" ELSE client[c].ssl
    OBVIOUS
  <2>2. PICK sent \in Nat : sent = Messages(client[c].run)
    BY <1>2
  <2>3. ssl \in {"ok", "bad"}
    BY <1>1, <2>1 DEF ClientTypes
  <2>4. PICK k : k = [client[c] EXCEPT !.sent = sent, !.ssl = ssl]
    OBVIOUS
  <2>5. client' = [client EXCEPT ![c] = k]
    BY <1>1, <1>5, <2>1, <2>2, <2>4
  <2>6. /\ k \in ClientTypes
        /\ k.run = client[c].run /\ k.pc = "write" /\ k.sent = sent
    BY <1>0, <1>1, <2>3, <2>4 DEF ClientTypes
  <2>7. k.sent <= Messages(k.run)
    BY <2>2, <2>6
  <2> QED
    BY <1>0, <1>5, <2>5, <2>6, <2>7, DeadWrite DEF Dead
<1>6. CASE EndClient(c)
  BY <1>0, <1>6, EndClientOK
<1> QED
  BY <1>4, <1>5, <1>6 DEF ClientWrite

LEMMA ClientShutdownOK ==
  ASSUME ProgramInv, NEW c \in Clients, ClientShutdown(c)
  PROVE  ProgramInv'
<1>0. client[c].pc = "write" /\ server' = server
  BY DEF ClientShutdown
<1>1. CASE Went(c, "close") /\ conn' = conn
  BY <1>0, <1>1, ClientMovesOn
<1>2. CASE /\ Went(c, "wait")
           /\ conn' = IF Dead(c) THEN conn ELSE Send(c, Only("bye"))
  <2>1. CASE Dead(c)
    BY <1>0, <1>2, <2>1, ClientMovesOn
  <2>2. CASE ~Dead(c)
    <3>1. PICK k \in ClientTypes :
             /\ client' = [client EXCEPT ![c] = k]
             /\ k.pc = "wait"
             /\ k.run = client[c].run /\ k.sent = client[c].sent /\ k.ssl = client[c].ssl
      BY <1>2, WentFacts
    <3>2. k.sent <= Messages(k.run)
      BY <3>1, OwnFacts DEF ClientOK
    <3>3. PICK d : d = Only("bye")
      OBVIOUS
    <3>4. /\ \A is : WireOK(is, d)
          /\ d \in Seq(Units) /\ d # <<>> /\ d[1] = Bye
      BY <3>3, OnlyWire DEF Kinds, Bye
    <3>5. NextUnit(Mode(client[c].run), client[c].sent, d[1])
      BY <3>4 DEF NextUnit
    <3>6. conn' = Send(c, d) /\ conn[c].server = "open"
      BY <1>2, <2>2, <3>3 DEF Dead
    <3> QED
      BY <1>0, <3>1, <3>2, <3>4, <3>5, <3>6, ClientSends
  <2> QED
    BY <2>1, <2>2
<1>3. CASE EndClient(c)
  BY <1>0, <1>3, EndClientOK
<1> QED
  BY <1>1, <1>2, <1>3 DEF ClientShutdown

\* What is left on a connection after a reset is a part of what was sent.
LEMMA ResetOK ==
  ASSUME ProgramInv, NEW c \in Clients, Reset(c)
  PROVE  ProgramInv'
<1> DEFINE u == conn[c].up
<1>1. /\ conn[c] \in ConnTypes /\ u \in Seq(Units)
      /\ client[c] \in ClientTypes
      /\ client \in [Clients -> ClientTypes] /\ conn \in [Clients -> ConnTypes]
      /\ ClientOK(client[c], conn[c])
      /\ \A s \in Servers : server[s].peer = c => PeersOK(server[s], client[c], conn[c])
  BY OwnFacts
<1>2. PICK n \in 0 .. Len(u) :
         conn' = [conn EXCEPT ![c].up = SubSeq(@, 1, n), ![c].client = "closed",
                              ![c].server = "closed"]
  BY DEF Reset
<1>3. PICK r : r = SubSeq(u, 1, n)
  OBVIOUS
<1>4. r \in Seq(Units) /\ Len(r) = n /\ \A i \in 1 .. n : r[i] = u[i]
  <2> HIDE DEF u
  <2> QED
    BY <1>1, <1>3, SubSeqDrops
<1>5. PICK w : w = [conn[c] EXCEPT !.up = r, !.client = "closed", !.server = "closed"]
  OBVIOUS
<1>6. conn' = [conn EXCEPT ![c] = w]
  BY <1>1, <1>2, <1>3, <1>5
<1>7. /\ w \in ConnTypes
      /\ w.to = conn[c].to /\ w.up = r /\ w.down = conn[c].down
      /\ w.server = "closed"
  <2> HIDE DEF u
  <2> QED
    BY <1>1, <1>4, <1>5 DEF ConnTypes
<1>8. client[c].pc # "off"
  BY <1>1, NoConnFacts DEF Reset, ClientOK
<1>9. Len(u) \in Nat /\ n \in Nat /\ n <= Len(u)
  BY <1>1
<1>10. WireOK(Mode(client[c].run), r)
  <2> SUFFICES ASSUME NEW i \in 1 .. Len(r) - 1
               PROVE  Follows(Mode(client[c].run), r[i], r[i + 1])
    BY DEF WireOK
  <2>1. /\ i \in 1 .. Len(u) - 1
        /\ r[i] = u[i] /\ r[i + 1] = u[i + 1]
    BY <1>4, <1>9
  <2> QED
    BY <1>1, <2>1 DEF ClientOK, WireOK
<1>11. r = <<>> \/ (r # <<>> /\ u # <<>> /\ Head(r) = Head(u))
  BY <1>4, <1>9
<1>12. ASSUME client[c].pc = "connect"
       PROVE  /\ r \in {<<>>, Only("hello")}
              /\ "hello" \in conn[c].down => r = <<>>
  <2>1. CASE u = <<>>
    BY <1>11, <2>1
  <2>2. CASE u = Only("hello")
    <3>1. Len(u) = 1 /\ u # <<>>
      BY <2>2, OnlyFacts DEF Kinds
    <3>2. r = <<>> \/ r = u
      BY <1>1, <1>4, <1>9, <3>1
    <3>3. "hello" \notin conn[c].down
      BY <1>1, <1>12, <3>1 DEF ClientOK
    <3> QED
      BY <2>2, <3>2, <3>3
  <2> QED
    BY <1>1, <1>12, <2>1, <2>2 DEF ClientOK
<1>13. ClientOK(client[c], w)
  BY <1>1, <1>7, <1>8, <1>10, <1>12 DEF ClientOK
<1>14. ASSUME NEW s \in Servers, server[s].peer = c
       PROVE  PeersOK(server[s], client[c], w)
  <2>1. PeersOK(server[s], client[c], conn[c])
    BY <1>1, <1>14
  <2>2. w.up # <<>> => u # <<>> /\ Head(w.up) = Head(u)
    BY <1>7, <1>11
  <2> QED
    BY <1>7, <2>1, <2>2 DEF PeersOK
<1>15. client' = [client EXCEPT ![c] = client[c]] /\ server' = server
  BY <1>1 DEF Reset
<1> QED
  BY <1>6, <1>7, <1>13, <1>14, <1>15, ClientFrame

\* A client that is not connected is in no queue, and no server has accepted it.
LEMMA Unconnected ==
  ASSUME ProgramInv, NEW c \in Clients, client[c].pc = "off", NEW s \in Servers
  PROVE  /\ server[s].peer # c
         /\ c \notin ToSet(server[s].queue)
         /\ client[c].sent = 0
         /\ conn[c].to = Nobody
<1>1. conn[c] = NoConn /\ client[c].sent = 0
  BY OwnFacts DEF ClientOK
<1>2. conn[c].to = Nobody /\ c # Nobody /\ s # Nobody
  BY <1>1, NoConnFacts, ProgramAssumption
<1>3. QueueOK(s, server[s], conn)
  BY DEF ProgramInv, ServersInv
<1> QED
  BY <1>1, <1>2, <1>3 DEF QueueOK

\* The kernel puts a connection into the queue of a server.
LEMMA ConnectQueued ==
  ASSUME ProgramInv, NEW c \in Clients, NEW s \in Servers,
         client[c].pc = "off", Serving(s), Went(c, "connect"),
         server' = [server EXCEPT ![s].queue = Append(@, c)],
         conn' = [conn EXCEPT ![c] = [to |-> s, up |-> Only("hello"), down |-> {},
                                      client |-> "open", server |-> "open"]]
  PROVE  ProgramInv'
<1>0. /\ server \in [Servers -> ServerTypes] /\ server[s] \in ServerTypes
      /\ conn \in [Clients -> ConnTypes] /\ client \in [Clients -> ClientTypes]
  BY DEF ProgramInv
<1>1. PICK k \in ClientTypes :
           /\ client' = [client EXCEPT ![c] = k]
           /\ k.pc = "connect"
           /\ k.run = client[c].run /\ k.sent = client[c].sent /\ k.ssl = client[c].ssl
  BY WentFacts
<1>2. PICK w : w = [to |-> s, up |-> Only("hello"), down |-> {},
                    client |-> "open", server |-> "open"]
  OBVIOUS
<1>3. /\ Only("hello") \in Seq(Units) /\ \A is : WireOK(is, Only("hello"))
  BY OnlyWire DEF Kinds
<1>4. /\ w \in ConnTypes
      /\ w.to = s /\ w.up = Only("hello") /\ w.down = {}
  <2> HIDE DEF Only
  <2> QED
    BY <1>2, <1>3 DEF ConnTypes
<1> DEFINE q == server[s].queue
<1>5. q \in Seq(Clients)
  BY <1>0 DEF ServerTypes
<1>6. PICK p : p = Append(q, c)
  OBVIOUS
<1>7. /\ p \in Seq(Clients) /\ Len(p) = Len(q) + 1 /\ Len(q) \in Nat
      /\ \A i \in 1 .. Len(q) : p[i] = q[i]
      /\ p[Len(q) + 1] = c
  <2> HIDE DEF q
  <2> QED
    BY <1>5, <1>6, AppendProperties
<1>8. PICK v : v = [server[s] EXCEPT !.queue = p]
  OBVIOUS
<1>9. server' = [server EXCEPT ![s] = v] /\ conn' = [conn EXCEPT ![c] = w]
  BY <1>0, <1>2, <1>6, <1>8
<1>10. /\ v \in ServerTypes
       /\ v.pc = server[s].pc /\ v.queue = p
       /\ v.run = server[s].run /\ v.peer = server[s].peer /\ v.got = server[s].got
       /\ v.errors = server[s].errors /\ v.said = server[s].said
  <2> HIDE DEF q
  <2> QED
    BY <1>0, <1>7, <1>8 DEF ServerTypes
<1>11. /\ server'[s] = v /\ \A r \in Servers \ {s} : server'[r] = server[r]
       /\ client'[c] = k /\ \A d \in Clients \ {c} : client'[d] = client[d]
       /\ conn'[c] = w /\ \A d \in Clients \ {c} : conn'[d] = conn[d]
  <2>1. server'[s] = v /\ \A r \in Servers \ {s} : server'[r] = server[r]
    BY <1>0, <1>9
  <2>2. client'[c] = k /\ \A d \in Clients \ {c} : client'[d] = client[d]
    BY <1>0, <1>1
  <2>3. conn'[c] = w /\ \A d \in Clients \ {c} : conn'[d] = conn[d]
    BY <1>0, <1>9
  <2> QED
    BY <2>1, <2>2, <2>3
<1>12. /\ server' \in [Servers -> ServerTypes] /\ conn' \in [Clients -> ConnTypes]
       /\ client' \in [Clients -> ClientTypes]
  <2>1. server' \in [Servers -> ServerTypes]
    BY <1>0, <1>9, <1>10
  <2>2. conn' \in [Clients -> ConnTypes]
    BY <1>0, <1>4, <1>9
  <2>3. client' \in [Clients -> ClientTypes]
    BY <1>0, <1>1
  <2> QED
    BY <2>1, <2>2, <2>3
<1>13. \A r \in Servers : ServerOK(server[r]) /\ QueueOK(r, server[r], conn)
  BY DEF ProgramInv, ServersInv
<1>14. \A r \in Servers : server[r].peer # c /\ c \notin ToSet(server[r].queue)
  BY Unconnected
<1>15. ServerOK(v)
  <2>1. \A i, j \in 1 .. Len(q) : q[i] = q[j] => i = j
    BY <1>13 DEF ServerOK
  <2>2. \A i \in 1 .. Len(q) : q[i] # c
    BY <1>14 DEF ToSet
  <2>3. \A i, j \in 1 .. Len(p) : p[i] = p[j] => i = j
    <3> SUFFICES ASSUME NEW i \in 1 .. Len(p), NEW j \in 1 .. Len(p), p[i] = p[j]
                 PROVE  i = j
      OBVIOUS
    <3>1. /\ i \in 1 .. Len(q) \/ i = Len(q) + 1
          /\ j \in 1 .. Len(q) \/ j = Len(q) + 1
      <4> HIDE DEF q
      <4> QED
        BY <1>7
    <3> HIDE DEF q
    <3> QED
      BY <1>7, <2>1, <2>2, <3>1
  <2> QED
    BY <1>10, <1>13, <2>3 DEF ServerOK
<1>16. ASSUME NEW r \in Servers
       PROVE  QueueOK(r, server[r], conn')
  <2>1. /\ server[r].queue \in Seq(Clients) /\ server[r].peer \in Clients \cup {Nobody}
        /\ server[r].peer # c
    BY <1>0, <1>14 DEF ServerTypes
  <2>2. \A d \in ToSet(server[r].queue) : d \in Clients /\ d # c
    BY <1>14, <2>1 DEF ToSet
  <2> QED
    BY <1>11, <1>13, <2>1, <2>2 DEF QueueOK
<1>17. QueueOK(s, v, conn')
  <2>1. ASSUME NEW d \in ToSet(p)
        PROVE  d = c \/ d \in ToSet(q)
    <3>1. PICK i \in 1 .. Len(p) : d = p[i]
      BY DEF ToSet
    <3>2. i \in 1 .. Len(q) \/ i = Len(q) + 1
      <4> HIDE DEF q
      <4> QED
        BY <1>7
    <3> HIDE DEF q
    <3> QED
      BY <1>7, <3>1, <3>2 DEF ToSet
  <2>2. conn'[c].to = s /\ server[s].peer # c
    BY <1>4, <1>11, <1>14
  <2> QED
    BY <1>10, <1>16, <2>1, <2>2 DEF QueueOK
<1>18. ServersInv'
  BY <1>11, <1>13, <1>15, <1>16, <1>17 DEF ServersInv
<1>19. ClientOK(k, w)
  <2>1. ClientOK(client[c], conn[c]) /\ client[c].sent = 0
    BY OwnFacts DEF ClientOK
  <2> QED
    BY <1>1, <1>3, <1>4, <2>1 DEF ClientOK
<1>20. ClientsInv'
  BY <1>11, <1>19 DEF ProgramInv, ClientsInv
<1>21. PeersInv'
  <2> SUFFICES ASSUME NEW r \in Servers, NEW d \in Clients, server'[r].peer = d
               PROVE  PeersOK(server'[r], client'[d], conn'[d])
    BY DEF PeersInv
  <2>1. server[r].peer = d
    BY <1>10, <1>11
  <2>2. d # c
    BY <1>14, <2>1
  <2>3. PeersOK(server[r], client[d], conn[d])
    BY <2>1 DEF ProgramInv, PeersInv
  <2>4. client'[d] = client[d] /\ conn'[d] = conn[d]
    BY <1>11, <2>2
  <2>5. CASE r = s
    BY <1>10, <1>11, <2>3, <2>4, <2>5 DEF PeersOK, Comparable
  <2>6. CASE r # s
    BY <1>11, <2>3, <2>4, <2>6
  <2> QED
    BY <2>5, <2>6
<1> QED
  BY <1>12, <1>18, <1>20, <1>21 DEF ProgramInv

LEMMA ConnectOK ==
  ASSUME ProgramInv, NEW c \in Clients, NEW fails, NEW refused \in {"loop", "end"},
         Connect(c, fails, refused)
  PROVE  ProgramInv'
<1>1. CASE Went(c, "loop") /\ UNCHANGED <<server, conn>>
  BY <1>1, ClientMovesOn
<1>2. CASE Went(c, refused) /\ UNCHANGED <<server, conn>>
  BY <1>2, ClientMovesOn
<1>3. CASE \E s \in Servers :
             /\ Serving(s)
             /\ Went(c, "connect")
             /\ server' = [server EXCEPT ![s].queue = Append(@, c)]
             /\ conn' = [conn EXCEPT ![c] = [to |-> s, up |-> Only("hello"), down |-> {},
                                             client |-> "open", server |-> "open"]]
  BY <1>3, ConnectQueued DEF Connect
<1> QED
  BY <1>1, <1>2, <1>3 DEF Connect

-----------------------------------------------------------------------------
(* All steps.                                                              *)

LEMMA EndingOK ==
  ASSUME ProgramInv, NEW s \in Servers, Ending(s)
  PROVE  ProgramInv'
BY ReportOK, ShutdownOK, AwaitPeerOK, CloseServerOK DEF Ending

LEMMA ServerStepOK ==
  ASSUME ProgramInv, NEW s \in Servers, Server(s)
  PROVE  ProgramInv'
<1>1. CASE EnclaveServer(s)
  BY <1>1, ServerSetupOK, ListenOK, AcceptFailsOK, AcceptOK, HelloOK, JudgeOK, SslReadOK,
     EndingOK DEF EnclaveServer
<1>2. CASE HostServer(s)
  BY <1>2, ServerSetupOK, ListenOK, AcceptOK, HelloOK, JudgeOK, SslReadOK, TcpReadOK,
     EndingOK DEF HostServer
<1>3. CASE SampleServer(s)
  BY <1>3, ServerSetupOK, ListenOK, AcceptOK, HelloOK, JudgeOK, SslReadOK, TcpReadOK,
     MyReadOK, EndingOK DEF SampleServer
<1> QED
  BY <1>1, <1>2, <1>3 DEF Server

LEMMA ClientStepOK ==
  ASSUME ProgramInv, NEW c \in Clients, Client(c)
  PROVE  ProgramInv'
<1>1. CASE Finishing(c)
  BY <1>1, ClientWriteOK, ClientShutdownOK, ClientAwaitOK, ClientEndsOK DEF Finishing
<1>2. CASE EnclaveClient(c)
  BY <1>1, <1>2, ConnectOK, SslConnectOK DEF EnclaveClient
<1>3. CASE HostClient(c)
  BY <1>1, <1>3, ConnectOK, SslConnectOK DEF HostClient
<1>4. CASE SampleClient(c)
  BY <1>1, <1>4, ConnectOK, SslConnectOK DEF SampleClient
<1> QED
  BY <1>2, <1>3, <1>4 DEF Client

\* No program has run.
LEMMA ProgramInvInit ==
  ASSUME ProgramInit
  PROVE  ProgramInv
<1>1. <<>> \in Seq(Clients) /\ <<>> \in Seq(Seq(Units)) /\ <<>> \in Seq(Units)
      /\ Len(<<>>) = 0
  OBVIOUS
<1>2. /\ server \in [Servers -> ServerTypes]
      /\ \A s \in Servers : /\ server[s].pc = "off" /\ server[s].peer = Nobody
                            /\ server[s].queue = <<>> /\ server[s].got = <<>>
                            /\ server[s].errors = 0 /\ server[s].said = "nothing"
  <2> DEFINE Off == [run : UNION {ServerRuns[s] : s \in Servers}, pc : {"off"},
                     peer : {Nobody}, queue : {<<>>}, got : {<<>>}, errors : {0},
                     ssl : {"ok"}, said : {"nothing"}]
  <2>1. ASSUME NEW v \in Off
        PROVE  /\ v \in ServerTypes
               /\ v.pc = "off" /\ v.peer = Nobody /\ v.queue = <<>> /\ v.got = <<>>
               /\ v.errors = 0 /\ v.said = "nothing"
    <3>1. /\ v.run \in UNION {ServerRuns[s] : s \in Servers}
          /\ v.pc = "off" /\ v.peer = Nobody /\ v.queue = <<>> /\ v.got = <<>>
          /\ v.errors = 0 /\ v.ssl = "ok" /\ v.said = "nothing"
          /\ v = [run |-> v.run, pc |-> v.pc, peer |-> v.peer, queue |-> v.queue,
                  got |-> v.got, errors |-> v.errors, ssl |-> v.ssl, said |-> v.said]
      OBVIOUS
    <3> HIDE DEF Off
    <3>2. /\ v.run \in UNION {ServerRuns[s] : s \in Servers}
          /\ v.peer \in Clients \cup {Nobody} /\ v.queue \in Seq(Clients)
          /\ v.got \in Seq(Seq(Units)) /\ v.errors \in Nat
      BY <1>1, <3>1
    <3>3. v \in ServerTypes
      <4> DEFINE t == [run |-> v.run, pc |-> v.pc, peer |-> v.peer, queue |-> v.queue,
                       got |-> v.got, errors |-> v.errors, ssl |-> v.ssl, said |-> v.said]
      <4>1. t \in ServerTypes
        BY <3>1, <3>2 DEF ServerTypes
      <4>2. v = t
        BY <3>1
      <4> HIDE DEF t
      <4> QED
        BY <4>1, <4>2
    <3> QED
      BY <3>1, <3>3
  <2>2. server \in [Servers -> Off]
    BY DEF ProgramInit
  <2> HIDE DEF Off
  <2> QED
    BY <2>1, <2>2
<1>3. /\ client \in [Clients -> ClientTypes]
      /\ \A c \in Clients : client[c].pc = "off" /\ client[c].sent = 0
  BY DEF ProgramInit, ClientTypes
<1>4. conn \in [Clients -> ConnTypes] /\ \A c \in Clients : conn[c] = NoConn
  BY NoConnFacts DEF ProgramInit
<1>5. ServersInv
  <2> SUFFICES ASSUME NEW s \in Servers
               PROVE  ServerOK(server[s]) /\ QueueOK(s, server[s], conn)
    BY DEF ServersInv
  <2>1. Messages(server[s].run) \in Nat
    BY <1>2, ServerMessages
  <2>2. ServerOK(server[s])
    BY <1>1, <1>2, <2>1 DEF ServerOK
  <2>3. ToSet(server[s].queue) = {}
    BY <1>2 DEF ToSet
  <2> QED
    BY <1>2, <2>2, <2>3 DEF QueueOK
<1>6. ClientsInv
  <2> SUFFICES ASSUME NEW c \in Clients
               PROVE  ClientOK(client[c], conn[c])
    BY DEF ClientsInv
  <2>1. Messages(client[c].run) \in Nat
    BY <1>3, ClientMessages
  <2>2. WireOK(Mode(client[c].run), conn[c].up)
    BY <1>1, <1>4, NoConnFacts DEF WireOK
  <2> QED
    BY <1>3, <1>4, <2>1, <2>2, NoConnFacts DEF ClientOK
<1>7. PeersInv
  BY <1>2, ProgramAssumption DEF PeersInv
<1> QED
  BY <1>2, <1>3, <1>4, <1>5, <1>6, <1>7 DEF ProgramInv

LEMMA ProgramInvNext ==
  ASSUME ProgramInv, [ProgramNext]_programVars
  PROVE  ProgramInv'
<1>1. CASE \E s \in Servers : Server(s) \/ KillServer(s)
  BY <1>1, ServerStepOK, CloseServerOK
<1>2. CASE \E c \in Clients : Client(c) \/ Abort(c) \/ KillClient(c) \/ Reset(c)
  BY <1>2, ClientStepOK, ClientEndsOK, ResetOK
<1>3. CASE UNCHANGED programVars
  BY <1>3 DEF programVars, ProgramInv, ServersInv, ClientsInv, PeersInv
<1> QED
  BY <1>1, <1>2, <1>3 DEF ProgramNext

LEMMA ProgramInvariant == ProgramSpec => []ProgramInv
<1>1. ProgramInit => ProgramInv
  BY ProgramInvInit
<1>2. ProgramInv /\ [ProgramNext]_programVars => ProgramInv'
  BY ProgramInvNext
<1> QED
  BY <1>1, <1>2, PTL DEF ProgramSpec

\* Whatever the programs are told, and however their steps, the kernel's and the faults
\* follow one another, a server has its own connections only, and reads no more often
\* than it was told.
THEOREM ProgramTypeCorrect == ProgramSpec => []ProgramTypeOK
<1>1. ASSUME ProgramInv
      PROVE  ProgramTypeOK
  <2>1. ASSUME NEW s \in Servers
        PROVE  /\ server[s].pc \in {"off", "ready", "listen", "unbound", "accepted", "hello",
                                    "read", "shutdown", "wait", "close", "end"}
               /\ Len(server[s].got) <= Messages(server[s].run)
               /\ server[s].errors <= Len(server[s].got)
               /\ \A c \in ToSet(server[s].queue) : conn[c].to = s /\ server[s].peer # c
               /\ server[s].peer # Nobody => conn[server[s].peer].to = s
    <3>1. server[s] \in ServerTypes /\ ServerOK(server[s]) /\ QueueOK(s, server[s], conn)
      BY <1>1 DEF ProgramInv, ServersInv
    <3>2. server[s].pc \in {"off", "ready", "listen", "unbound", "accepted", "hello",
                            "read", "shutdown", "wait", "close", "end"}
      BY <3>1 DEF ServerTypes
    <3> QED
      BY <3>1, <3>2 DEF ServerOK, QueueOK
  <2>2. ASSUME NEW c \in Clients
        PROVE  /\ client[c].pc \in {"off", "connect", "write", "wait", "close", "loop", "end"}
               /\ client[c].sent <= Messages(client[c].run)
    <3>1. client[c] \in ClientTypes /\ ClientOK(client[c], conn[c])
      BY <1>1, OwnFacts
    <3> QED
      BY <3>1 DEF ClientOK, ClientTypes
  <2> QED
    BY <2>1, <2>2 DEF ProgramTypeOK
<1> QED
  BY <1>1, ProgramInvariant, PTL

\* When a server says "Success:", every message it was told to expect has come whole, in
\* order and as its client wrote it, by TLS or on the bare socket, for any number of
\* messages and programs, and whatever was cut, lost, reset or killed before.
THEOREM SuccessCorrect == ProgramSpec => []SuccessIsWhole
<1>1. ASSUME ProgramInv
      PROVE  SuccessIsWhole
  <2> SUFFICES ASSUME NEW s \in Servers, server[s].said = "Success",
                      Mode(server[s].run) \in {"tls", "tcp"},
                      Mode(client[server[s].peer].run) = Mode(server[s].run)
               PROVE  server[s].got
                        = [m \in 1 .. server[s].run.count |-> Data(server[s].run, m)]
    BY DEF SuccessIsWhole
  <2>1. server[s] \in ServerTypes /\ ServerOK(server[s])
    BY <1>1 DEF ProgramInv, ServersInv
  <2>2. /\ server[s].peer \in Clients /\ server[s].errors = 0
        /\ Len(server[s].got) = Messages(server[s].run)
    BY <2>1 DEF ServerOK
  <2>3. PeersOK(server[s], client[server[s].peer], conn[server[s].peer])
    BY <1>1, <2>2 DEF ProgramInv, PeersInv
  <2>4. \A m \in 1 .. Len(server[s].got) : server[s].got[m] = Data(server[s].run, m)
    BY <2>2, <2>3 DEF PeersOK, Comparable
  <2>5. Len(server[s].got) = server[s].run.count
    BY <2>2 DEF Messages
  <2>6. server[s].got \in Seq(Seq(Units))
    BY <2>1 DEF ServerTypes
  <2>7. server[s].got = [m \in 1 .. Len(server[s].got) |-> server[s].got[m]]
    BY <2>6
  <2> QED
    BY <2>4, <2>5, <2>7
<1> QED
  BY <1>1, ProgramInvariant, PTL
=============================================================================
