-------------------------- MODULE SealedConfProofs --------------------------
(***************************************************************************)
(* A theorem about the sealed configuration file: what a reader gets of a  *)
(* file at rest.                                                           *)
(***************************************************************************)
EXTENDS SealedConf, SequenceTheorems, TLAPS

-----------------------------------------------------------------------------
(* Sealings.                                                               *)

Ids == Writers \cup {"before"}

\* The file begins with one sealing of d, whole.
Holds(units, id, d) ==
    /\ Size[d] + 1 <= Len(units)
    /\ \A i \in 1 .. Size[d] + 1 : units[i] = Sealed(id, d)[i]

LEMMA SealedUnits ==
  ASSUME NEW id \in Ids, NEW d \in Data
  PROVE  /\ Size[d] \in Nat \ {0}
         /\ Sealed(id, d) \in Seq(Unit) /\ Len(Sealed(id, d)) = Size[d] + 1
         /\ \A i \in 1 .. Size[d] + 1 : Sealed(id, d)[i] = [seal |-> id, data |-> d, part |-> i]
<1>1. Size[d] \in Nat \ {0}
  BY SealedAssumption
<1>2. \A i \in 1 .. Size[d] + 1 : [seal |-> id, data |-> d, part |-> i] \in Unit
  BY <1>1 DEF Unit, Ids
<1> QED
  BY <1>1, <1>2 DEF Sealed

\* A file that begins with one sealing is read as what was sealed.
LEMMA UnsealedHolds ==
  ASSUME NEW units \in Seq(Unit), NEW id \in Ids, NEW d \in Data, Holds(units, id, d)
  PROVE  Unsealed(units) = d
<1> DEFINE n == Size[d] + 1
<1>1. n \in Nat /\ n >= 2 /\ Len(units) \in Nat /\ n <= Len(units)
  BY SealedUnits, LenProperties DEF Holds
<1>2. units[1] = [seal |-> id, data |-> d, part |-> 1]
  BY <1>1, SealedUnits, SMTT(30) DEF Holds
<1>3. Begins(units) /\ PayloadOf(units) = n
  BY <1>1, <1>2, EmptySeq DEF Begins, PayloadOf
<1>4. SubSeq(units, 1, n) = Sealed(id, d)
  <2>1. /\ SubSeq(units, 1, n) \in Seq(Unit) /\ Len(SubSeq(units, 1, n)) = n
        /\ \A i \in 1 .. n : SubSeq(units, 1, n)[i] = units[i]
    BY <1>1, SubSeqProperties, ElementOfSeq
  <2>2. Sealed(id, d) \in Seq(Unit) /\ Len(Sealed(id, d)) = n
    BY SealedUnits
  <2> QED
    BY <2>1, <2>2, SeqEqual DEF Holds
<1> HIDE DEF n
<1>5. IsSealed(units, n)
  BY <1>1, <1>2, <1>4 DEF IsSealed
<1> QED
  BY <1>2, <1>3, <1>5 DEF Unsealed

LEMMA PutUnit ==
  ASSUME NEW units \in Seq(Unit), NEW k \in Nat \ {0}, NEW unit \in Unit
  PROVE  /\ PutAt(units, k, unit) \in Seq(Unit)
         /\ k <= Len(PutAt(units, k, unit)) /\ Len(units) <= Len(PutAt(units, k, unit))
         /\ PutAt(units, k, unit)[k] = unit
         /\ \A i \in 1 .. Len(units) : i # k => PutAt(units, k, unit)[i] = units[i]
<1> DEFINE n == IF k > Len(units) THEN k ELSE Len(units)
           e(i) == IF i = k THEN unit ELSE IF i \in DOMAIN units THEN units[i] ELSE [part |-> 0]
<1>1. n \in Nat /\ k <= n /\ Len(units) <= n /\ Len(units) \in Nat
  BY LenProperties
<1>2. \A i \in 1 .. n : e(i) \in Unit
  BY LenProperties, ElementOfSeq DEF Unit
<1>3. DOMAIN units = 1 .. Len(units)
  BY LenProperties
<1>4. PutAt(units, k, unit) = [i \in 1 .. n |-> e(i)]
  BY DEF PutAt
<1> HIDE DEF n, e
<1>5. PutAt(units, k, unit) \in Seq(Unit) /\ Len(PutAt(units, k, unit)) = n
  BY <1>1, <1>2, <1>4
<1>6. \A i \in 1 .. n : PutAt(units, k, unit)[i] = e(i)
  BY <1>4
<1> QED
  BY <1>1, <1>3, <1>5, <1>6 DEF e

-----------------------------------------------------------------------------
(* The writers.                                                            *)

WriterType(w) ==
    \/ writer[w].at \in {"none", "end"}
    \/ /\ file # Absent
       /\ writer[w].at = "write" /\ DOMAIN writer[w] = {"at", "units", "pos", "alone"}
       /\ \E id \in Ids, d \in Data :
             writer[w].units = Sealed(id, d) /\ writer[w].pos \in 1 .. Size[d] + 2

\* A reader that has not ended has a size and a buffer.
ReaderType(r) ==
    \/ reader[r].at \in {"none", "end"}
    \/ /\ reader[r].at = "read"
       /\ reader[r] = [at |-> "read", kind |-> reader[r].kind, quiet |-> reader[r].quiet,
                       want |-> reader[r].want, size |-> reader[r].size, buf |-> reader[r].buf]

TypeInv ==
    /\ file \in Seq(Unit) \cup {Absent}
    /\ version \in Data \cup {Absent}
    /\ DOMAIN writer = Writers /\ DOMAIN reader = Readers
    /\ \A w \in Writers : WriterType(w)
    /\ \A r \in Readers : ReaderType(r)

\* Whoever writes alone does so, ...
Exclusive == \A w \in Writers : Active(w) /\ writer[w].alone => Alone(w)

\* ... and finds in the file what it has written.
Written ==
    \A w \in Writers : Active(w) /\ writer[w].alone =>
        \A i \in 1 .. writer[w].pos - 1 : i <= Len(file) /\ file[i] = writer[w].units[i]

\* A file that its last writer left whole begins with what that writer sealed.
Calm ==
    intact =>
        /\ \A w \in Writers : ~Active(w)
        /\ file = Absent => version = Absent
        /\ file # Absent => version \in Data /\ \E id \in Ids : Holds(file, id, version)

\* While nothing is written, a reader has read the beginning of that file.
Follows ==
    \A r \in Readers : reader[r].at = "read" /\ reader[r].quiet =>
        /\ intact /\ file # Absent
        /\ reader[r].want = version /\ reader[r].size = Len(file)
        /\ reader[r].buf \in Seq(Unit) /\ Len(reader[r].buf) <= Len(file)
        /\ \A i \in 1 .. Len(reader[r].buf) : reader[r].buf[i] = file[i]

Inv == TypeInv /\ Exclusive /\ Written /\ Calm /\ Follows /\ QuietRead

LEMMA InvInit == Init => Inv
<1> SUFFICES ASSUME Init PROVE Inv
  OBVIOUS
<1>1. /\ \A w \in Writers : writer[w] = None /\ ~Active(w)
      /\ \A r \in Readers : reader[r] = None
      /\ DOMAIN writer = Writers /\ DOMAIN reader = Readers
  BY DEF Init, None, Active
<1>4. /\ \A w \in Writers : WriterType(w)
      /\ \A r \in Readers : ReaderType(r) /\ reader[r].at = "none"
  BY <1>1 DEF None, WriterType, ReaderType
<1>5. Exclusive /\ Written /\ Follows /\ QuietRead
  BY <1>1, <1>4 DEF Exclusive, Written, Follows, QuietRead
<1>2. CASE version = Absent
  <2>1. file = Absent
    BY <1>2 DEF Init
  <2> QED
    BY <1>1, <1>2, <1>4, <1>5, <2>1 DEF Inv, TypeInv, Calm
<1>3. CASE version # Absent
  <2>1. version \in Data /\ file = Sealed("before", version) /\ "before" \in Ids
    BY <1>3 DEF Init, Ids
  <2>2. file \in Seq(Unit) /\ Holds(file, "before", version)
    BY <2>1, SealedUnits DEF Holds
  <2> QED
    BY <1>1, <1>4, <1>5, <2>1, <2>2, SealedAssumption DEF Inv, TypeInv, Calm
<1> QED
  BY <1>2, <1>3

\* Whoever was reading knows that the file has changed.
LEMMA DisturbedReaders ==
  ASSUME TypeInv, QuietRead, reader' = Disturbed
  PROVE  /\ DOMAIN reader' = Readers /\ \A r \in Readers : ReaderType(r)'
         /\ Follows' /\ QuietRead'
<1>1. ASSUME NEW r \in Readers
      PROVE  /\ ReaderType(r)'
             /\ reader'[r].at = "read" => reader'[r].quiet = FALSE
             /\ reader'[r].at = "end" => reader'[r] = reader[r]
  <2>1. reader'[r] = IF reader[r].at = "read" THEN [reader[r] EXCEPT !.quiet = FALSE]
                     ELSE reader[r]
    BY DEF Disturbed
  <2>2. CASE reader[r].at = "read"
    <3>1. reader[r] = [at |-> "read", kind |-> reader[r].kind, quiet |-> reader[r].quiet,
                       want |-> reader[r].want, size |-> reader[r].size, buf |-> reader[r].buf]
      BY <2>2 DEF TypeInv, ReaderType
    <3>2. reader'[r] = [at |-> "read", kind |-> reader[r].kind, quiet |-> FALSE,
                        want |-> reader[r].want, size |-> reader[r].size, buf |-> reader[r].buf]
      BY <2>1, <2>2, <3>1
    <3> QED
      BY <3>2 DEF ReaderType
  <2>3. CASE reader[r].at # "read"
    BY <2>1, <2>3 DEF TypeInv, ReaderType
  <2> QED
    BY <2>2, <2>3
<1>2. DOMAIN reader' = Readers
  BY DEF Disturbed
<1>3. Follows'
  BY <1>1 DEF Follows
<1>4. QuietRead'
  BY <1>1 DEF QuietRead
<1> QED
  BY <1>1, <1>2, <1>3, <1>4

\* A writer comes to the file.
LEMMA BeginKeeps ==
  ASSUME Inv, NEW w \in Writers, NEW state, Begin(w, state),
         file' \in Seq(Unit),
         \/ state.at = "end"
         \/ \E d \in Data : state = Writing(w, d)
  PROVE  Inv'
<1>1. file' # Absent
  BY SealedAssumption
<1>2. ASSUME NEW v \in Writers \ {w}
      PROVE  /\ Active(v)' <=> Active(v)
             /\ Active(v) => writer'[v].alone = FALSE
             /\ WriterType(v)'
  <2>1. writer'[v] = IF Active(v) THEN [writer[v] EXCEPT !.alone = FALSE] ELSE writer[v]
    BY <1>2 DEF Begin
  <2>2. CASE Active(v)
    <3>1. /\ writer[v].at = "write" /\ DOMAIN writer[v] = {"at", "units", "pos", "alone"}
          /\ \E id \in Ids, d \in Data :
                writer[v].units = Sealed(id, d) /\ writer[v].pos \in 1 .. Size[d] + 2
      BY <2>2 DEF Inv, TypeInv, WriterType, Active
    <3>2. writer'[v] = [writer[v] EXCEPT !.alone = FALSE]
      BY <2>1, <2>2
    <3>3. /\ DOMAIN writer'[v] = DOMAIN writer[v] /\ writer'[v].at = writer[v].at
          /\ writer'[v].units = writer[v].units /\ writer'[v].pos = writer[v].pos
          /\ writer'[v].alone = FALSE
      BY <3>1, <3>2
    <3>4. WriterType(v)'
      BY <1>1, <3>1, <3>3 DEF WriterType
    <3> QED
      BY <2>2, <3>1, <3>3, <3>4 DEF Active
  <2>3. CASE ~Active(v)
    BY <2>1, <2>3 DEF WriterType, Active, Inv, TypeInv
  <2> QED
    BY <2>2, <2>3
<1>3. writer'[w] = state /\ DOMAIN writer' = Writers
  BY DEF Begin
<1>4. /\ WriterType(w)'
      /\ Active(w)' => state.pos = 1 /\ state.alone = Alone(w)
  <2>1. CASE state.at = "end"
    BY <1>3, <2>1 DEF WriterType, Active
  <2>2. ASSUME NEW d \in Data, state = Writing(w, d)
        PROVE  /\ WriterType(w)'
               /\ Active(w)' => state.pos = 1 /\ state.alone = Alone(w)
    <3>1. /\ state.at = "write" /\ DOMAIN state = {"at", "units", "pos", "alone"}
          /\ state.units = Sealed(w, d) /\ state.pos = 1 /\ state.alone = Alone(w)
      BY <2>2 DEF Writing
    <3>2. w \in Ids /\ 1 \in 1 .. Size[d] + 2
      BY SealedUnits DEF Ids
    <3> QED
      BY <1>1, <1>3, <3>1, <3>2 DEF WriterType
  <2> QED
    BY <2>1, <2>2
<1>5. TypeInv'
  <2>1. \A v \in Writers : WriterType(v)'
    BY <1>2, <1>4
  <2>2. version' = version /\ reader' = Disturbed
    BY DEF Begin
  <2> QED
    BY <1>3, <2>1, <2>2, DisturbedReaders DEF Inv, TypeInv
<1>6. Exclusive'
  BY <1>2, <1>3, <1>4 DEF Exclusive, Alone
<1>7. Written'
  <2> SUFFICES ASSUME NEW v \in Writers, Active(v)', writer'[v].alone
               PROVE  writer'[v].pos = 1
    BY DEF Written
  <2>1. v = w
    BY <1>2
  <2> QED
    BY <1>3, <1>4, <2>1
<1>8. Calm'
  BY DEF Begin, Calm
<1> QED
  BY <1>5, <1>6, <1>7, <1>8, DisturbedReaders DEF Inv, Begin

\* What an active writer has.
LEMMA WriterHas ==
  ASSUME TypeInv, NEW w \in Writers, Active(w)
  PROVE  /\ writer[w].at = "write" /\ file # Absent /\ file \in Seq(Unit)
         /\ DOMAIN writer[w] = {"at", "units", "pos", "alone"}
         /\ \E id \in Ids, d \in Data :
               writer[w].units = Sealed(id, d) /\ writer[w].pos \in 1 .. Size[d] + 2
BY DEF TypeInv, WriterType, Active

LEMMA StoreFile ==
  ASSUME TypeInv, NEW w \in Writers, Store(w)
  PROVE  /\ writer[w].pos \in Nat \ {0} /\ writer[w].pos <= Len(writer[w].units)
         /\ file' \in Seq(Unit) /\ writer[w].pos <= Len(file') /\ Len(file) <= Len(file')
         /\ file'[writer[w].pos] = writer[w].units[writer[w].pos]
         /\ \A i \in 1 .. Len(file) : i # writer[w].pos => file'[i] = file[i]
<1>1. /\ writer[w].at = "write" /\ writer[w].pos <= Len(writer[w].units)
      /\ file' = PutAt(file, writer[w].pos, writer[w].units[writer[w].pos])
      /\ writer' = [writer EXCEPT ![w].pos = @ + 1]
      /\ reader' = Disturbed /\ version' = version /\ intact' = intact
  BY DEF Store
<1>2. TypeInv /\ Active(w) /\ DOMAIN writer = Writers
  BY <1>1 DEF Active, TypeInv
<1>3. /\ DOMAIN writer[w] = {"at", "units", "pos", "alone"}
      /\ file # Absent /\ file \in Seq(Unit)
  BY <1>2, WriterHas
<1>4. PICK id \in Ids, d \in Data :
         writer[w].units = Sealed(id, d) /\ writer[w].pos \in 1 .. Size[d] + 2
  BY <1>2, WriterHas
<1>5. /\ Size[d] \in Nat \ {0} /\ writer[w].pos \in 1 .. Size[d] + 1
      /\ writer[w].units[writer[w].pos] \in Unit
  BY <1>1, <1>4, SealedUnits, ElementOfSeq
<1>6. /\ file' \in Seq(Unit) /\ writer[w].pos <= Len(file') /\ Len(file) <= Len(file')
      /\ file'[writer[w].pos] = writer[w].units[writer[w].pos]
      /\ \A i \in 1 .. Len(file) : i # writer[w].pos => file'[i] = file[i]
  <2>1. writer[w].pos \in Nat \ {0}
    BY <1>5
  <2> DEFINE k == writer[w].pos
             unit == writer[w].units[writer[w].pos]
  <2>2. k \in Nat \ {0} /\ unit \in Unit
    BY <1>5, <2>1
  <2> HIDE DEF k, unit
  <2>3. /\ PutAt(file, k, unit) \in Seq(Unit)
        /\ k <= Len(PutAt(file, k, unit)) /\ Len(file) <= Len(PutAt(file, k, unit))
        /\ PutAt(file, k, unit)[k] = unit
        /\ \A i \in 1 .. Len(file) : i # k => PutAt(file, k, unit)[i] = file[i]
    BY <1>3, <2>2, PutUnit
  <2> QED
    BY <1>1, <2>3 DEF k, unit
<1> QED
  BY <1>1, <1>5, <1>6

\* A unit reaches the file: what a writer that is alone has written is still there.
LEMMA StoreKeeps ==
  ASSUME Inv, NEW w \in Writers, Store(w)
  PROVE  Inv'
<1>1. /\ writer[w].at = "write"
      /\ writer' = [writer EXCEPT ![w].pos = @ + 1]
      /\ reader' = Disturbed /\ version' = version /\ intact' = intact
  BY DEF Store
<1>2. TypeInv /\ Active(w) /\ DOMAIN writer = Writers
  BY <1>1 DEF Active, Inv, TypeInv
<1>3. /\ DOMAIN writer[w] = {"at", "units", "pos", "alone"}
      /\ file # Absent /\ file \in Seq(Unit)
  BY <1>2, WriterHas
<1>4. PICK id \in Ids, d \in Data :
         writer[w].units = Sealed(id, d) /\ writer[w].pos \in 1 .. Size[d] + 2
  BY <1>2, WriterHas
<1>6. /\ writer[w].pos \in Nat \ {0} /\ writer[w].pos <= Len(writer[w].units)
      /\ file' \in Seq(Unit) /\ writer[w].pos <= Len(file') /\ Len(file) <= Len(file')
      /\ file'[writer[w].pos] = writer[w].units[writer[w].pos]
      /\ \A i \in 1 .. Len(file) : i # writer[w].pos => file'[i] = file[i]
  BY <1>2, StoreFile
<1>5. Size[d] \in Nat \ {0} /\ writer[w].pos \in 1 .. Size[d] + 1
  BY <1>4, <1>6, SealedUnits
<1>7. file' # Absent
  BY <1>6, SealedAssumption
<1>8. writer'[w] = [writer[w] EXCEPT !.pos = @ + 1] /\ DOMAIN writer' = Writers
  BY <1>1, <1>2
<1>9. /\ writer'[w].at = "write" /\ DOMAIN writer'[w] = DOMAIN writer[w]
      /\ writer'[w].units = writer[w].units /\ writer'[w].pos = writer[w].pos + 1
      /\ writer'[w].alone = writer[w].alone
  BY <1>1, <1>3, <1>8
<1>10. \A v \in Writers \ {w} : writer'[v] = writer[v]
  BY <1>1, <1>2
<1>11. \A v \in Writers : Active(v)' <=> Active(v)
  BY <1>1, <1>9, <1>10 DEF Active
<1>12. \A v \in Writers : WriterType(v)'
  <2>1. WriterType(w)'
    BY <1>3, <1>4, <1>5, <1>7, <1>9 DEF WriterType
  <2>2. \A v \in Writers \ {w} : WriterType(v)'
    BY <1>2, <1>7, <1>10 DEF TypeInv, WriterType
  <2> QED
    BY <2>1, <2>2
<1>13. TypeInv'
  BY <1>1, <1>2, <1>6, <1>8, <1>12, DisturbedReaders DEF Inv, TypeInv
<1>14. Exclusive'
  BY <1>9, <1>10, <1>11 DEF Inv, Exclusive, Alone
<1>15. Written'
  <2> SUFFICES ASSUME NEW v \in Writers, Active(v)', writer'[v].alone
               PROVE  \A i \in 1 .. writer'[v].pos - 1 :
                         i <= Len(file') /\ file'[i] = writer'[v].units[i]
    BY DEF Written
  <2>1. Active(v) /\ writer[v].alone
    BY <1>9, <1>10, <1>11
  <2>2. v = w
    BY <1>2, <2>1 DEF Inv, Exclusive, Alone
  <2>3. \A i \in 1 .. writer[w].pos - 1 : i <= Len(file) /\ file[i] = writer[w].units[i]
    BY <2>1, <2>2 DEF Inv, Written
  <2>4. Len(file) \in Nat /\ Len(file') \in Nat
    BY <1>3, <1>6, LenProperties
  <2>5. ASSUME NEW i \in 1 .. writer[w].pos
        PROVE  i <= Len(file') /\ file'[i] = writer[w].units[i]
    <3>1. CASE i = writer[w].pos
      BY <1>6, <3>1
    <3>2. CASE i # writer[w].pos
      <4>1. i \in 1 .. writer[w].pos - 1
        BY <1>5, <3>2
      <4>2. i \in 1 .. Len(file) /\ file[i] = writer[w].units[i]
        BY <2>3, <2>4, <4>1
      <4> QED
        BY <1>6, <2>4, <3>2, <4>2
    <3> QED
      BY <3>1, <3>2
  <2>6. writer[w].pos \in Nat /\ writer'[w].pos - 1 = writer[w].pos
    BY <1>5, <1>9
  <2> QED
    BY <1>9, <2>2, <2>5, <2>6
<1>16. Calm'
  BY <1>1, <1>2 DEF Inv, Calm
<1> QED
  BY <1>1, <1>13, <1>14, <1>15, <1>16, DisturbedReaders DEF Inv

\* A reader that nothing disturbs.
LEMMA ReadersStay ==
  ASSUME Inv, reader' = reader,
         \A r \in Readers : reader[r].at = "read" /\ reader[r].quiet =>
            intact' /\ file' = file /\ version' = version
  PROVE  Follows' /\ QuietRead'
BY DEF Inv, Follows, QuietRead

\* A writer ends, and may leave the file whole.
LEMMA CloseKeeps ==
  ASSUME Inv, NEW w \in Writers, Close(w)
  PROVE  Inv'
<1> DEFINE wrote == writer[w].pos = Len(writer[w].units) + 1
<1>1. /\ writer[w].at = "write" /\ version' = writer[w].units[1].data
      /\ intact' = (wrote /\ writer[w].alone)
      /\ writer' = [writer EXCEPT ![w] = [at |-> "end", said |-> "done"]]
      /\ file' = file /\ reader' = reader
  BY DEF Close
<1>2. TypeInv /\ Active(w) /\ DOMAIN writer = Writers /\ file # Absent /\ file \in Seq(Unit)
  BY <1>1, WriterHas DEF Active, Inv, TypeInv
<1>3. PICK id \in Ids, d \in Data :
         writer[w].units = Sealed(id, d) /\ writer[w].pos \in 1 .. Size[d] + 2
  BY <1>2, WriterHas
<1>4. version' = d
  <2>1. Size[d] \in Nat /\ 1 \in 1 .. Size[d] + 1
    BY SealedUnits
  <2>2. Sealed(id, d)[1] = [seal |-> id, data |-> d, part |-> 1]
    BY <2>1, SealedUnits
  <2> QED
    BY <1>1, <1>3, <2>2
<1>5. writer'[w].at = "end" /\ \A v \in Writers \ {w} : writer'[v] = writer[v]
  BY <1>1, <1>2
<1>6. ~Active(w)' /\ \A v \in Writers \ {w} : Active(v)' <=> Active(v)
  BY <1>5 DEF Active
<1>7. TypeInv'
  BY <1>1, <1>2, <1>4, <1>5 DEF TypeInv, WriterType, ReaderType
<1>8. Exclusive' /\ Written'
  BY <1>1, <1>5, <1>6 DEF Inv, Exclusive, Written, Alone
<1>9. Calm'
  <2> SUFFICES ASSUME intact'
               PROVE  (\A v \in Writers : ~Active(v)') /\ Holds(file, id, d)
    BY <1>1, <1>2, <1>4 DEF Calm
  <2>1. wrote /\ writer[w].alone
    BY <1>1
  <2>2. \A v \in Writers : ~Active(v)'
    BY <1>2, <1>6, <2>1 DEF Inv, Exclusive, Alone
  <2>3. writer[w].pos = Size[d] + 2 /\ Size[d] \in Nat
    BY <1>3, <2>1, SealedUnits
  <2>4. \A i \in 1 .. Size[d] + 1 : i <= Len(file) /\ file[i] = Sealed(id, d)[i]
    BY <1>2, <1>3, <2>1, <2>3 DEF Inv, Written
  <2>5. Size[d] + 1 <= Len(file)
    BY <2>3, <2>4
  <2> QED
    BY <2>2, <2>4, <2>5 DEF Holds
<1>10. Follows' /\ QuietRead'
  <2>1. ~intact
    BY <1>2 DEF Inv, Calm
  <2> QED
    BY <1>1, <2>1, ReadersStay DEF Inv, Follows
<1> QED
  BY <1>7, <1>8, <1>9, <1>10 DEF Inv

LEMMA KillKeeps ==
  ASSUME Inv, NEW w \in Writers, Kill(w)
  PROVE  Inv'
<1>1. /\ writer' = [writer EXCEPT ![w] = [at |-> "end", said |-> "killed"]]
      /\ file' = file /\ reader' = reader /\ version' = version /\ intact' = intact
  BY DEF Kill
<1>2. DOMAIN writer = Writers /\ TypeInv
  BY DEF Inv, TypeInv
<1>3. writer'[w].at = "end" /\ \A v \in Writers \ {w} : writer'[v] = writer[v]
  BY <1>1, <1>2
<1>4. ~Active(w)' /\ \A v \in Writers \ {w} : Active(v)' <=> Active(v)
  BY <1>3 DEF Active
<1>5. TypeInv'
  BY <1>1, <1>2, <1>3 DEF TypeInv, WriterType, ReaderType
<1>6. Exclusive' /\ Written'
  BY <1>1, <1>3, <1>4 DEF Inv, Exclusive, Written, Alone
<1>7. Calm'
  BY <1>1, <1>4 DEF Inv, Calm
<1>8. Follows' /\ QuietRead'
  BY <1>1, ReadersStay DEF Inv, Follows
<1> QED
  BY <1>5, <1>6, <1>7, <1>8 DEF Inv

-----------------------------------------------------------------------------
(* The readers.                                                            *)

\* A step of a reader leaves the file, the writers and the other readers alone.
LEMMA ReaderStep ==
  ASSUME Inv, NEW r \in Readers, UNCHANGED <<file, writer, version, intact>>,
         DOMAIN reader' = Readers, \A q \in Readers \ {r} : reader'[q] = reader[q],
         ReaderType(r)',
         reader'[r].at = "read" /\ reader'[r].quiet =>
            /\ intact /\ file # Absent
            /\ reader'[r].want = version /\ reader'[r].size = Len(file)
            /\ reader'[r].buf \in Seq(Unit) /\ Len(reader'[r].buf) <= Len(file)
            /\ \A i \in 1 .. Len(reader'[r].buf) : reader'[r].buf[i] = file[i],
         reader'[r].at = "end" /\ reader'[r].quiet =>
            reader'[r].got =
                IF reader'[r].want = Absent
                THEN IF reader'[r].kind = "conftool" THEN Wild ELSE Nothing
                ELSE IF reader'[r].kind = "sealtest" THEN Outd(reader'[r].want)
                ELSE reader'[r].want
  PROVE  Inv'
<1>1. TypeInv'
  <2>1. \A q \in Readers : ReaderType(q)'
    BY DEF Inv, TypeInv, ReaderType
  <2>2. \A w \in Writers : WriterType(w)'
    BY DEF Inv, TypeInv, WriterType
  <2> QED
    BY <2>1, <2>2 DEF Inv, TypeInv
<1>2. Exclusive' /\ Written' /\ Calm'
  BY DEF Inv, Exclusive, Written, Calm, Alone, Active
<1>3. Follows' /\ QuietRead'
  BY DEF Inv, Follows, QuietRead
<1> QED
  BY <1>1, <1>2, <1>3 DEF Inv

LEMMA SizeOfKeeps ==
  ASSUME Inv, NEW r \in Readers, NEW kind, SizeOf(r, kind)
  PROVE  Inv'
<1> DEFINE quiet == intact /\ \A w \in Writers : ~Active(w)
<1>1. UNCHANGED <<file, writer, version, intact>> /\ DOMAIN reader = Readers
  BY DEF SizeOf, Inv, TypeInv
<1>2. DOMAIN reader' = Readers /\ \A q \in Readers \ {r} : reader'[q] = reader[q]
  BY <1>1 DEF SizeOf
<1>3. CASE file = Absent
  <2>1. reader'[r] = [at |-> "end", kind |-> kind, quiet |-> quiet, want |-> version,
                      got |-> IF kind = "conftool" THEN Wild ELSE Nothing]
    BY <1>1, <1>3 DEF SizeOf
  <2>2. quiet => version = Absent
    BY <1>3 DEF Inv, Calm
  <2> HIDE DEF quiet
  <2>3. /\ reader'[r].at = "end" /\ reader'[r].quiet = quiet /\ reader'[r].want = version
        /\ reader'[r].kind = kind
        /\ reader'[r].got = IF kind = "conftool" THEN Wild ELSE Nothing
    BY <2>1
  <2>4. ReaderType(r)'
    BY <2>3 DEF ReaderType
  <2> QED
    BY <1>1, <1>2, <2>2, <2>3, <2>4, ReaderStep
<1>4. CASE file # Absent
  <2>1. reader'[r] = [at |-> "read", kind |-> kind, quiet |-> quiet, want |-> version,
                      size |-> Len(file), buf |-> <<>>]
    BY <1>1, <1>4 DEF SizeOf
  <2>2. quiet => intact
    OBVIOUS
  <2> HIDE DEF quiet
  <2>3. /\ reader'[r].at = "read" /\ reader'[r].quiet = quiet /\ reader'[r].want = version
        /\ reader'[r].size = Len(file) /\ reader'[r].buf = <<>>
    BY <2>1
  <2>4. ReaderType(r)'
    BY <2>1, <2>3 DEF ReaderType
  <2>5. <<>> \in Seq(Unit) /\ Len(<<>>) = 0 /\ Len(file) \in Nat
    BY <1>4, EmptySeq, LenProperties DEF Inv, TypeInv
  <2>6. /\ reader'[r].buf \in Seq(Unit) /\ Len(reader'[r].buf) <= Len(file)
        /\ \A i \in 1 .. Len(reader'[r].buf) : reader'[r].buf[i] = file[i]
    BY <2>3, <2>5
  <2>7. reader'[r].at # "end" /\ (reader'[r].quiet => intact)
    BY <2>2, <2>3
  <2> QED
    BY <1>1, <1>2, <1>4, <2>3, <2>4, <2>6, <2>7, ReaderStep
<1> QED
  BY <1>3, <1>4

LEMMA CopyKeeps ==
  ASSUME Inv, NEW r \in Readers, Copy(r)
  PROVE  Inv'
<1>1. /\ UNCHANGED <<file, writer, version, intact>> /\ DOMAIN reader = Readers
      /\ reader[r].at = "read"
      /\ Len(reader[r].buf) < reader[r].size /\ Len(reader[r].buf) < Len(file)
      /\ reader' = [reader EXCEPT ![r].buf = Append(@, file[Len(@) + 1])]
  BY DEF Copy, Inv, TypeInv
<1>2. DOMAIN reader' = Readers /\ \A q \in Readers \ {r} : reader'[q] = reader[q]
  BY <1>1
<1>3. reader[r] = [at |-> "read", kind |-> reader[r].kind, quiet |-> reader[r].quiet,
                   want |-> reader[r].want, size |-> reader[r].size, buf |-> reader[r].buf]
  BY <1>1 DEF Inv, TypeInv, ReaderType
<1>4. reader'[r] = [at |-> "read", kind |-> reader[r].kind, quiet |-> reader[r].quiet,
                    want |-> reader[r].want, size |-> reader[r].size,
                    buf |-> Append(reader[r].buf, file[Len(reader[r].buf) + 1])]
  BY <1>1, <1>3
<1>5. /\ reader'[r].at = "read" /\ reader'[r].quiet = reader[r].quiet
      /\ reader'[r].want = reader[r].want /\ reader'[r].size = reader[r].size
      /\ reader'[r].buf = Append(reader[r].buf, file[Len(reader[r].buf) + 1])
      /\ ReaderType(r)'
  BY <1>4 DEF ReaderType
<1>6. ASSUME reader[r].quiet
      PROVE  /\ intact /\ file # Absent
             /\ reader'[r].want = version /\ reader'[r].size = Len(file)
             /\ reader'[r].buf \in Seq(Unit) /\ Len(reader'[r].buf) <= Len(file)
             /\ \A i \in 1 .. Len(reader'[r].buf) : reader'[r].buf[i] = file[i]
  <2>1. /\ intact /\ file # Absent /\ reader[r].want = version
        /\ reader[r].size = Len(file) /\ reader[r].buf \in Seq(Unit)
        /\ \A i \in 1 .. Len(reader[r].buf) : reader[r].buf[i] = file[i]
    BY <1>1, <1>6 DEF Inv, Follows
  <2>2. file \in Seq(Unit)
    BY <2>1 DEF Inv, TypeInv
  <2>3. Len(file) \in Nat /\ Len(reader[r].buf) \in Nat
    BY <2>1, <2>2, LenProperties
  <2>4. file[Len(reader[r].buf) + 1] \in Unit
    BY <1>1, <2>2, <2>3, ElementOfSeq
  <2>5. /\ reader'[r].buf \in Seq(Unit) /\ Len(reader'[r].buf) = Len(reader[r].buf) + 1
        /\ \A i \in 1 .. Len(reader[r].buf) : reader'[r].buf[i] = reader[r].buf[i]
        /\ reader'[r].buf[Len(reader[r].buf) + 1] = file[Len(reader[r].buf) + 1]
    BY <1>5, <2>1, <2>4, AppendProperties
  <2> QED
    BY <1>1, <1>5, <2>1, <2>3, <2>5
<1> QED
  BY <1>1, <1>2, <1>5, <1>6, ReaderStep

\* A reader that nobody disturbed has the whole file when it ends.
LEMMA QuietBuffer ==
  ASSUME Inv, NEW r \in Readers, Ended(r), reader[r].quiet
  PROVE  /\ Len(reader[r].buf) = reader[r].size /\ reader[r].size # 0
         /\ Unsealed(reader[r].buf) = reader[r].want
         /\ reader[r].want \in Data
<1>1. /\ reader[r].at = "read"
      /\ Len(reader[r].buf) = reader[r].size \/ Len(reader[r].buf) >= Len(file)
  BY DEF Ended
<1>2. /\ intact /\ file # Absent /\ reader[r].want = version
      /\ reader[r].size = Len(file) /\ reader[r].buf \in Seq(Unit)
      /\ Len(reader[r].buf) <= Len(file)
      /\ \A i \in 1 .. Len(reader[r].buf) : reader[r].buf[i] = file[i]
  BY <1>1 DEF Inv, Follows
<1>3. file \in Seq(Unit)
  BY <1>2 DEF Inv, TypeInv
<1>4. Len(file) \in Nat /\ Len(reader[r].buf) \in Nat
  BY <1>2, <1>3, LenProperties
<1>5. Len(reader[r].buf) = Len(file)
  BY <1>1, <1>2, <1>4
<1>6. version \in Data /\ \E id \in Ids : Holds(file, id, version)
  BY <1>2 DEF Inv, Calm
<1>7. PICK id \in Ids : Holds(file, id, version)
  BY <1>6
<1>8. Size[version] \in Nat /\ Size[version] + 1 <= Len(file)
  BY <1>6, <1>7, SealedUnits DEF Holds
<1>9. Holds(reader[r].buf, id, version)
  BY <1>2, <1>4, <1>5, <1>7, <1>8 DEF Holds
<1>10. Unsealed(reader[r].buf) = version
  BY <1>2, <1>6, <1>9, UnsealedHolds
<1> QED
  BY <1>2, <1>4, <1>5, <1>6, <1>8, <1>10

LEMMA GetKeeps ==
  ASSUME Inv, NEW r \in Readers, NEW got, Get(r, got),
         UNCHANGED <<file, writer, version, intact>>,
         reader[r].quiet =>
            /\ reader[r].want \in Data
            /\ got = IF reader[r].kind = "sealtest" THEN Outd(reader[r].want) ELSE reader[r].want
  PROVE  Inv'
<1>1. DOMAIN reader = Readers
  BY DEF Inv, TypeInv
<1>2. /\ DOMAIN reader' = Readers /\ \A q \in Readers \ {r} : reader'[q] = reader[q]
      /\ reader'[r] = [at |-> "end", kind |-> reader[r].kind, quiet |-> reader[r].quiet,
                       want |-> reader[r].want, got |-> got]
  BY <1>1 DEF Get
<1>3. /\ reader'[r].at = "end" /\ reader'[r].quiet = reader[r].quiet
      /\ reader'[r].want = reader[r].want /\ reader'[r].got = got
      /\ reader'[r].kind = reader[r].kind
  BY <1>2
<1>4. ReaderType(r)'
  BY <1>3 DEF ReaderType
<1>5. reader'[r].quiet => reader'[r].want # Absent
  BY <1>3, SealedAssumption
<1> QED
  BY <1>2, <1>3, <1>4, <1>5, ReaderStep

LEMMA ReadKeeps ==
  ASSUME Inv, NEW r \in Readers, ReadByClient(r) \/ ReadByTool(r) \/ ReadBySealtest(r)
  PROVE  Inv'
<1>1. Ended(r) /\ UNCHANGED <<file, writer, version, intact>>
  BY DEF ReadByClient, ReadByTool, ReadBySealtest
<1>2. reader[r].quiet => /\ Len(reader[r].buf) = reader[r].size /\ reader[r].size # 0
                         /\ Unsealed(reader[r].buf) = reader[r].want
                         /\ reader[r].want \in Data
  BY <1>1, QuietBuffer
<1>3. Nothing \notin Data
  BY SealedAssumption
<1>4. \E got : /\ Get(r, got)
               /\ reader[r].quiet =>
                    /\ reader[r].want \in Data
                    /\ got = IF reader[r].kind = "sealtest" THEN Outd(reader[r].want)
                             ELSE reader[r].want
  <2>1. CASE ReadByClient(r)
    BY <1>2, <1>3, <2>1 DEF ReadByClient
  <2>2. CASE ReadByTool(r)
    BY <1>2, <2>2 DEF ReadByTool
  <2>3. CASE ReadBySealtest(r)
    BY <1>2, <2>3 DEF ReadBySealtest
  <2> QED
    BY <2>1, <2>2, <2>3
<1> QED
  BY <1>1, <1>4, GetKeeps

LEMMA InvStep == Inv /\ [Next]_vars => Inv'
<1> SUFFICES ASSUME Inv, [Next]_vars PROVE Inv'
  OBVIOUS
<1>1. ASSUME NEW w \in Writers, NEW d \in Data, Open(w, d) PROVE Inv'
  <2>1. file' \in Seq(Unit)
    BY <1>1, EmptySeq DEF Open, Inv, TypeInv
  <2> QED
    BY <1>1, <2>1, BeginKeeps DEF Open
<1>2. ASSUME NEW w \in Writers, NEW d \in Data, Sealtest(w, d) PROVE Inv'
  <2> DEFINE state == IF Size[d] + 1 <= Room THEN Writing(w, d) ELSE [at |-> "end", said |-> Wild]
  <2>1. Begin(w, state) /\ file' \in Seq(Unit)
    BY <1>2, EmptySeq DEF Sealtest
  <2>2. state.at = "end" \/ \E e \in Data : state = Writing(w, e)
    OBVIOUS
  <2> HIDE DEF state
  <2> QED
    BY <2>1, <2>2, BeginKeeps
<1>3. CASE UNCHANGED vars
  BY <1>3 DEF vars, Inv, TypeInv, WriterType, ReaderType, Exclusive, Written, Calm, Follows,
              QuietRead, Alone, Active
<1> QED
  BY <1>1, <1>2, <1>3, StoreKeeps, CloseKeeps, KillKeeps, SizeOfKeeps, CopyKeeps, ReadKeeps
     DEF Next

\* A reader gets what the last writer sealed (QuietRead), for any number of writers,
\* readers and registrations of any length.
THEOREM QuietReadCorrect == Spec => []QuietRead
<1>1. Inv => QuietRead
  BY DEF Inv
<1> QED
  BY <1>1, InvInit, InvStep, PTL DEF Spec
=============================================================================
