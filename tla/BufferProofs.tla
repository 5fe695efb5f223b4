----------------------------- MODULE BufferProofs -----------------------------
(***************************************************************************)
(* Theorems about Buffer, for every array size, every size of extrabuf and *)
(* every length of the stream.                                             *)
(***************************************************************************)
EXTENDS Buffer, NumberFacts

\* The index invariant: the types, and that a TLS input buffer is never full.
IInv ==
  /\ TypeOK
  /\ feed = "ssl" => writeIndex < size
  /\ NoAbort

-----------------------------------------------------------------------------
(* The operators on arrays.                                                *)

Bytes == Nat \cup {Junk}

\* resize() gives an array of the new size.
LEMMA ResizedType ==
  ASSUME TypeOK, NEW m \in Nat, m >= size
  PROVE  /\ Resized(m) \in [0..(m - 1) -> Bytes]
         /\ \A i \in 0..(m - 1) :
              Resized(m)[i] = IF i < Readable THEN data[readIndex + i] ELSE Junk
<1>1. \A i \in 0..(m - 1) : i < Readable => readIndex + i \in 0..(size - 1)
  BY DEF TypeOK, Readable
<1>2. \A i \in 0..(m - 1) : i < Readable => data[readIndex + i] \in Bytes
  BY <1>1 DEF TypeOK, Bytes
<1> QED
  BY <1>2 DEF Resized, Bytes

\* memcpy of n bytes into an array keeps its size and the other bytes.
LEMMA StoredType ==
  ASSUME NEW m \in Nat, NEW d \in [0..(m - 1) -> Bytes],
         NEW at \in Nat, NEW n \in Nat, NEW first \in Nat
  PROVE  /\ Stored(d, at, n, first) \in [0..(m - 1) -> Bytes]
         /\ \A i \in 0..(m - 1) :
              Stored(d, at, n, first)[i] =
                IF at <= i /\ i < at + n THEN first + (i - at) ELSE d[i]
<1>1. \A i \in 0..(m - 1) : at <= i => first + (i - at) \in Nat
  OBVIOUS
<1> QED
  BY <1>1 DEF Stored, Bytes

-----------------------------------------------------------------------------
(* The indices.                                                            *)

LEMMA InitIndex == Init => IInv
<1> SUFFICES ASSUME Init PROVE IInv
  OBVIOUS
<1>1. data \in [0..(size - 1) -> Nat \cup {Junk}]
  BY DEF Init, BufferInit
<1>2. spilled \in BOOLEAN
  BY Zenon DEF Init
<1>3. /\ feed \in Feeds
      /\ size \in Nat \ {0} /\ readIndex = 0 /\ writeIndex = 0
      /\ got = 0 /\ taken = 0 /\ fate = "run"
  BY SizeAssumption DEF Init, BufferInit
<1> QED
  BY <1>1, <1>2, <1>3 DEF IInv, TypeOK, NoAbort

LEMMA AppendIndex ==
  ASSUME IInv, feed' = feed, fate = "run", feed = "append",
         NEW n \in 1..MaxBytes, BufferAppend(n)
  PROVE  IInv'
<1> USE DEF IInv, TypeOK
<1>1. n \in Nat /\ n > 0 /\ Readable \in Nat /\ Room \in Nat
  BY SizeAssumption DEF Readable, Room
<1>2. CASE n > Room
  <2>1. n + writeIndex > size /\ n + writeIndex \in Nat
    BY <1>1, <1>2 DEF Room
  <2>2. Resized(n + writeIndex) \in [0..(n + writeIndex - 1) -> Bytes]
    BY <2>1, ResizedType
  <2>3. Stored(Resized(n + writeIndex), Readable, n, got) \in [0..(n + writeIndex - 1) -> Bytes]
    <3> DEFINE m == n + writeIndex
               d == Resized(m)
    <3>1. m \in Nat /\ d \in [0..(m - 1) -> Bytes] /\ got \in Nat
      BY <2>1, <2>2
    <3> HIDE DEF m, d
    <3>2. Stored(d, Readable, n, got) \in [0..(m - 1) -> Bytes]
      BY <1>1, <3>1, StoredType
    <3> QED
      BY <3>2 DEF m, d
  <2>4. /\ size' = n + writeIndex /\ readIndex' = 0 /\ writeIndex' = Readable + n
        /\ data' = Stored(Resized(n + writeIndex), Readable, n, got)
        /\ got' = got + n /\ taken' = taken /\ spilled' = spilled /\ fate' = fate
    BY <1>2, <2>1 DEF BufferAppend
  <2>5. data' \in [0..(size' - 1) -> Nat \cup {Junk}]
    BY <2>3, <2>4 DEF Bytes
  <2> QED
    BY <1>1, <2>1, <2>4, <2>5 DEF NoAbort, Readable
<1>3. CASE ~(n > Room)
  <2>1. Stored(data, writeIndex, n, got) \in [0..(size - 1) -> Bytes]
    BY <1>1, StoredType DEF Bytes
  <2>2. /\ size' = size /\ readIndex' = readIndex /\ writeIndex' = writeIndex + n
        /\ data' = Stored(data, writeIndex, n, got)
        /\ got' = got + n /\ taken' = taken /\ spilled' = spilled /\ fate' = fate
    BY <1>3 DEF BufferAppend
  <2> QED
    BY <1>1, <1>3, <2>1, <2>2 DEF NoAbort, Room, Bytes
<1> QED
  BY <1>2, <1>3

LEMMA AbortIndex ==
  ASSUME IInv, feed' = feed, feed = "fd", Abort
  PROVE  IInv'
BY DEF IInv, TypeOK, NoAbort, Abort

LEMMA ReadFromFDIndex ==
  ASSUME IInv, feed' = feed, feed = "fd", NEW n \in 1..MaxBytes, BufferReadFromFD(n)
  PROVE  IInv'
<1> USE DEF IInv, TypeOK
<1>1. n \in Nat /\ n > 0 /\ Readable \in Nat /\ Room \in Nat /\ ExtraSize \in Nat
  BY SizeAssumption DEF Readable, Room
<1>2. CASE n <= Room
  <2>1. Stored(data, writeIndex, n, got) \in [0..(size - 1) -> Bytes]
    BY <1>1, StoredType DEF Bytes
  <2>2. /\ size' = size /\ readIndex' = readIndex /\ writeIndex' = writeIndex + n
        /\ data' = Stored(data, writeIndex, n, got)
        /\ got' = got + n /\ taken' = taken /\ spilled' = spilled /\ fate' = fate
    BY <1>2 DEF BufferReadFromFD
  <2> QED
    BY <1>1, <1>2, <2>1, <2>2 DEF NoAbort, Room, Bytes
<1>3. CASE ~(n <= Room)
  <2> DEFINE extrabytes == n - writeIndex
             valid == n - Room
             array == Resized(writeIndex + n)
             new == [i \in DOMAIN array |->
                       IF i < Readable \/ i >= Readable + extrabytes THEN array[i]
                       ELSE IF i - Readable < valid THEN got + Room + (i - Readable)
                       ELSE Junk]
  <2>1. CASE ~(extrabytes \in 0..ExtraSize /\ writeIndex + n > size)
    BY <1>3, <2>1, AbortIndex DEF BufferReadFromFD
  <2>2. CASE extrabytes \in 0..ExtraSize /\ writeIndex + n > size
    <3>1. /\ size' = writeIndex + n /\ readIndex' = 0 /\ writeIndex' = Readable + n
          /\ data' = new
          /\ got' = got + n /\ taken' = taken /\ spilled' = TRUE /\ fate' = fate
      BY <1>3, <2>2 DEF BufferReadFromFD
    <3>2. array \in [0..(writeIndex + n - 1) -> Bytes]
      BY <1>1, <2>2, ResizedType
    <3>3. \A i \in 0..(writeIndex + n - 1) :
            ~(i < Readable) => got + Room + (i - Readable) \in Nat
      BY <1>1
    <3>4. new \in [0..(writeIndex + n - 1) -> Bytes]
      BY <3>2, <3>3 DEF Bytes
    <3>5. spilled' \in BOOLEAN
      BY <3>1, Zenon
    <3>6. data' \in [0..(size' - 1) -> Nat \cup {Junk}]
      BY <3>1, <3>4 DEF Bytes
    <3> HIDE DEF new
    <3> QED
      BY <1>1, <2>2, <3>1, <3>5, <3>6 DEF NoAbort, Readable
  <2> QED
    BY <2>1, <2>2
<1> QED
  BY <1>2, <1>3

LEMMA ReadFromSSLIndex ==
  ASSUME IInv, feed' = feed, feed = "ssl", NEW n \in 1..MaxBytes, BufferReadFromSSL(n)
  PROVE  IInv'
<1> USE DEF IInv, TypeOK
<1>1. /\ n \in Nat /\ n > 0 /\ Readable \in Nat /\ Room \in Nat /\ Room > 0
      /\ Growth \in Nat \ {0}
  BY SizeAssumption DEF Readable, Room
<1>2. CASE n < Room
  <2>1. Stored(data, writeIndex, n, got) \in [0..(size - 1) -> Bytes]
    BY <1>1, StoredType DEF Bytes
  <2>2. /\ size' = size /\ readIndex' = readIndex /\ writeIndex' = writeIndex + n
        /\ data' = Stored(data, writeIndex, n, got)
        /\ got' = got + n /\ taken' = taken /\ spilled' = spilled /\ fate' = fate
    BY <1>1, <1>2 DEF BufferReadFromSSL
  <2> QED
    BY <1>1, <1>2, <2>1, <2>2 DEF NoAbort, Room, Bytes
<1>3. CASE ~(n < Room)
  <2>1. Resized(size + Growth) \in [0..(size + Growth - 1) -> Bytes]
    BY <1>1, ResizedType
  <2>2. /\ size' = size + Growth /\ readIndex' = 0 /\ writeIndex' = Readable
        /\ data' = Resized(size + Growth)
        /\ got' = got + n /\ taken' = taken /\ spilled' = TRUE /\ fate' = fate
    BY <1>1, <1>3 DEF BufferReadFromSSL
  <2>3. spilled' \in BOOLEAN
    BY <2>2, Zenon
  <2> QED
    BY <1>1, <2>1, <2>2, <2>3 DEF NoAbort, Readable, Bytes
<1> QED
  BY <1>2, <1>3

LEMMA RetrieveIndex ==
  ASSUME IInv, feed' = feed, NEW n \in 1..MaxBytes, n <= Readable, BufferRetrieveData(n)
  PROVE  IInv'
<1> USE DEF IInv, TypeOK
<1>1. n \in Nat /\ n > 0
  OBVIOUS
<1>2. /\ size' = size /\ data' = data /\ got' = got /\ taken' = taken + n
      /\ spilled' = spilled /\ fate' = fate
  BY DEF BufferRetrieveData
<1>3. CASE readIndex + n = writeIndex
  BY <1>1, <1>2, <1>3, SizeAssumption DEF BufferRetrieveData, NoAbort
<1>4. CASE readIndex + n # writeIndex
  BY <1>1, <1>2, <1>4 DEF BufferRetrieveData, NoAbort, Readable
<1> QED
  BY <1>3, <1>4

\* The indices of a Buffer stay in order and inside the array, the array keeps the
\* length it is said to have, and a TLS input buffer always has room: none of the
\* assertions of buffer.c fails, except through the spill of BufferReadFromFD.
THEOREM IndexInvariant == Spec => []IInv
<1>1. IInv /\ [Next]_vars => IInv'
  <2> SUFFICES ASSUME IInv, [Next]_vars PROVE IInv'
    OBVIOUS
  <2>1. CASE UNCHANGED vars
    BY <2>1 DEF IInv, TypeOK, NoAbort, vars
  <2>2. CASE Next
    BY <2>2, AppendIndex, ReadFromFDIndex, ReadFromSSLIndex, RetrieveIndex
       DEF Next, BufferWrite, BufferParse
  <2> QED
    BY <2>1, <2>2
<1> QED
  BY InitIndex, <1>1, PTL DEF Spec

\* The indices of a Buffer stay in order and inside its array, and the array has
\* its stated length, whatever is read, appended, written and retrieved.
THEOREM TypeCorrect == Spec => []TypeOK
<1>1. IInv => TypeOK
  BY DEF IInv
<1> QED
  BY <1>1, IndexInvariant, PTL

\* Output buffers and TLS input buffers never trip an assertion of buffer.c.
THEOREM NeverAborts == Spec => []NoAbort
<1>1. IInv => NoAbort
  BY DEF IInv
<1> QED
  BY <1>1, IndexInvariant, PTL

-----------------------------------------------------------------------------
(* The bytes.                                                              *)

\* n bytes of the stream stored behind the unread ones of array d continue them.
LEMMA StoredHolds ==
  ASSUME NEW m \in Nat, NEW d \in [0..(m - 1) -> Bytes],
         NEW r \in Nat, NEW at \in Nat, r <= at,
         NEW n \in Nat, NEW to \in Nat, to = at + n, to <= m,
         NEW first \in Nat, NEW next \in Nat, next = first + (at - r),
         Holds(d, r, at, first)
  PROVE  Holds(Stored(d, at, n, next), r, to, first)
<1> SUFFICES ASSUME NEW i \in r..(to - 1)
             PROVE  Stored(d, at, n, next)[i] = first + (i - r)
  BY DEF Holds
<1>1. i \in 0..(m - 1) /\ i < at + n
  OBVIOUS
<1>2. Stored(d, at, n, next)[i] =
        IF at <= i /\ i < at + n THEN next + (i - at) ELSE d[i]
  <2>1. DOMAIN d = 0..(m - 1)
    OBVIOUS
  <2> QED
    BY <1>1, <2>1 DEF Stored
<1>3. CASE at <= i
  BY <1>1, <1>2, <1>3
<1>4. CASE ~(at <= i)
  BY <1>1, <1>2, <1>4 DEF Holds
<1> QED
  BY <1>3, <1>4

\* resize() moves the unread bytes to the front, in order.
LEMMA ResizedHolds ==
  ASSUME TypeOK, NEW m \in Nat, m >= size, Holds(data, readIndex, writeIndex, taken)
  PROVE  Holds(Resized(m), 0, Readable, taken)
<1> SUFFICES ASSUME NEW i \in 0..(Readable - 1) PROVE Resized(m)[i] = taken + (i - 0)
  BY DEF Holds
<1> USE DEF TypeOK
<1> DEFINE j == readIndex + i
<1>1. i \in 0..(m - 1) /\ i < Readable /\ j \in readIndex..(writeIndex - 1)
  BY DEF Readable
<1>2. Resized(m)[i] = data[j]
  BY <1>1, ResizedType
<1>3. data[j] = taken + (j - readIndex)
  <2> HIDE DEF j
  <2> QED
    BY <1>1 DEF Holds
<1> QED
  BY <1>2, <1>3

\* n bytes put where the unread ones end, with nothing spilled.
LEMMA PlainStoreFifo ==
  ASSUME IInv, Fifo, NEW n \in Nat, n <= Room,
         data' = Stored(data, writeIndex, n, got),
         writeIndex' = writeIndex + n, got' = got + n,
         UNCHANGED <<size, readIndex, taken, spilled>>
  PROVE  Fifo'
<1> SUFFICES ASSUME ~spilled
             PROVE  Readable' = got' - taken' /\ Holds(data', readIndex', writeIndex', taken')
  BY DEF Fifo, Holds
<1>1. /\ size \in Nat /\ readIndex \in Nat /\ writeIndex \in Nat /\ readIndex <= writeIndex
      /\ got \in Nat /\ taken \in Nat /\ data \in [0..(size - 1) -> Bytes]
  BY DEF IInv, TypeOK, Bytes
<1>2. Readable = got - taken /\ Holds(data, readIndex, writeIndex, taken)
  BY DEF Fifo
<1>3. got = taken + (writeIndex - readIndex) /\ writeIndex + n <= size /\ writeIndex + n \in Nat
  BY <1>1, <1>2 DEF Readable, Room
<1>4. Holds(Stored(data, writeIndex, n, got), readIndex, writeIndex + n, taken)
  BY <1>1, <1>2, <1>3, StoredHolds
<1>5. Readable' = got' - taken'
  BY <1>1, <1>2 DEF Readable
<1> QED
  BY <1>4, <1>5

LEMMA AppendFifo ==
  ASSUME IInv, Fifo, NEW n \in 1..MaxBytes, BufferAppend(n)
  PROVE  Fifo'
<1>0. /\ size \in Nat /\ readIndex \in Nat /\ writeIndex \in Nat
      /\ readIndex <= writeIndex /\ writeIndex <= size
      /\ got \in Nat /\ taken \in Nat
  BY DEF IInv, TypeOK
<1>1. n \in Nat /\ n > 0 /\ Readable \in Nat /\ Room \in Nat
  BY <1>0 DEF Readable, Room
<1>2. CASE ~(n > Room)
  BY <1>1, <1>2, PlainStoreFifo DEF BufferAppend
<1>3. CASE n > Room
  <2> DEFINE m == n + writeIndex
             array == Resized(m)
             len == Readable
  <2>1. m > size /\ m \in Nat
    BY <1>0, <1>1, <1>3 DEF Room
  <2>2. /\ readIndex' = 0 /\ writeIndex' = len + n
        /\ data' = Stored(array, len, n, got)
        /\ got' = got + n /\ taken' = taken /\ spilled' = spilled
    BY <1>3, <2>1 DEF BufferAppend
  <2>3. CASE spilled
    BY <2>2, <2>3 DEF Fifo
  <2>4. CASE ~spilled
    <3>1. array \in [0..(m - 1) -> Bytes] /\ Holds(array, 0, len, taken)
      BY <1>0, <2>1, <2>4, ResizedType, ResizedHolds DEF Fifo, IInv
    <3>2. len \in Nat /\ len + n \in Nat /\ len + n <= m /\ got = taken + (len - 0)
      BY <1>0, <1>1, <2>4 DEF Fifo, Readable
    <3>3. Readable' = got' - taken'
      BY <1>0, <1>1, <2>2, <3>2 DEF Readable
    <3> HIDE DEF array, m, len
    <3>4. Holds(Stored(array, len, n, got), 0, len + n, taken)
      BY <1>0, <1>1, <2>1, <3>1, <3>2, StoredHolds
    <3> QED
      BY <2>2, <3>3, <3>4 DEF Fifo, Holds
  <2> QED
    BY <2>3, <2>4
<1> QED
  BY <1>2, <1>3

LEMMA ReadFifo ==
  ASSUME IInv, Fifo, NEW n \in 1..MaxBytes, BufferReadFromFD(n) \/ BufferReadFromSSL(n)
  PROVE  Fifo'
<1>1. n \in Nat /\ Room \in Nat
  BY DEF IInv, TypeOK, Room
<1>2. CASE spilled'
  BY <1>2 DEF Fifo
<1>3. CASE Abort
  BY <1>3 DEF Abort, Fifo, Readable, Holds
<1>4. CASE ~spilled' /\ ~Abort
  <2>1. /\ n <= Room /\ data' = Stored(data, writeIndex, n, got)
        /\ writeIndex' = writeIndex + n /\ got' = got + n
        /\ UNCHANGED <<size, readIndex, taken, spilled>>
    BY <1>1, <1>4 DEF BufferReadFromFD, BufferReadFromSSL
  <2> QED
    BY <1>1, <2>1, PlainStoreFifo
<1> QED
  BY <1>2, <1>3, <1>4

LEMMA RetrieveFifo ==
  ASSUME IInv, Fifo, NEW n \in 1..MaxBytes, n <= Readable, BufferRetrieveData(n)
  PROVE  Fifo'
<1>1. /\ size \in Nat /\ readIndex \in Nat /\ writeIndex \in Nat
      /\ readIndex <= writeIndex /\ got \in Nat /\ taken \in Nat /\ n \in Nat
  BY DEF IInv, TypeOK
<1>2. /\ data' = data /\ got' = got /\ taken' = taken + n /\ spilled' = spilled
  BY DEF BufferRetrieveData
<1>3. CASE spilled
  BY <1>2, <1>3 DEF Fifo
<1>4. CASE ~spilled
  <2>1. Readable = got - taken /\ Holds(data, readIndex, writeIndex, taken)
    BY <1>4 DEF Fifo
  <2>2. Readable' = got' - taken'
    BY <1>1, <1>2, <2>1 DEF BufferRetrieveData, Readable
  <2>3. CASE readIndex + n = writeIndex
    <3>1. readIndex' = 0 /\ writeIndex' = 0
      BY <2>3 DEF BufferRetrieveData
    <3> QED
      BY <2>2, <3>1 DEF Fifo, Holds
  <2>4. CASE readIndex + n # writeIndex
    <3>1. readIndex' = readIndex + n /\ writeIndex' = writeIndex
      BY <2>4 DEF BufferRetrieveData
    <3>2. ASSUME NEW i \in readIndex'..(writeIndex' - 1)
          PROVE  data'[i] = taken' + (i - readIndex')
      <4>1. i \in readIndex..(writeIndex - 1)
        BY <1>1, <3>1
      <4>2. data[i] = taken + (i - readIndex)
        BY <2>1, <4>1 DEF Holds
      <4> QED
        BY <1>1, <1>2, <3>1, <4>1, <4>2
    <3>3. Holds(data', readIndex', writeIndex', taken')
      BY <3>2 DEF Holds
    <3> QED
      BY <2>2, <3>3 DEF Fifo, Holds
  <2> QED
    BY <2>3, <2>4
<1> QED
  BY <1>3, <1>4

\* A Buffer hands back the stream it was given, byte for byte and in order, until
\* a read ends at or beyond the end of its array (buffer.c, all operations).
THEOREM FifoKept == Spec => []Fifo
<1>1. Init => Fifo
  BY DEF Init, BufferInit, Fifo, Readable, Holds
<1>2. IInv /\ Fifo /\ [Next]_vars => Fifo'
  <2> SUFFICES ASSUME IInv, Fifo, [Next]_vars PROVE Fifo'
    OBVIOUS
  <2>1. CASE UNCHANGED vars
    BY <2>1 DEF Fifo, Readable, Holds, vars
  <2>2. CASE Next
    BY <2>2, AppendFifo, ReadFifo, RetrieveFifo DEF Next, BufferWrite, BufferParse
  <2> QED
    BY <2>1, <2>2
<1> QED
  BY <1>1, <1>2, IndexInvariant, PTL DEF Spec

-----------------------------------------------------------------------------
(* An output buffer is a FifoQueue.                                        *)

\* What FifoQueue's contents are here.
Contents == IF IsOutput THEN [k \in 1..Readable |-> data[readIndex + k - 1]] ELSE <<>>

\* Nothing is read into an output buffer, and so nothing spilled.
OutputPlain == IsOutput => ~spilled

LEMMA PlainKept == OutputPlain /\ [Next]_vars => OutputPlain'
BY DEF OutputPlain, IsOutput, Next, vars, BufferAppend, BufferWrite, BufferParse,
       BufferRetrieveData, BufferReadFromFD, BufferReadFromSSL, Abort

\* Its unread part is the run of the stream between what was retrieved and what was got.
OutputIsRun ==
  IsOutput =>
    /\ taken \in Nat /\ got \in Nat /\ got - taken \in Nat
    /\ Readable = got - taken /\ Contents = Run(taken, got - taken)

LEMMA OutputRun == IInv /\ Fifo /\ OutputPlain => OutputIsRun
<1> SUFFICES ASSUME IInv, Fifo, OutputPlain, IsOutput
             PROVE  /\ taken \in Nat /\ got \in Nat /\ got - taken \in Nat
                    /\ Readable = got - taken /\ Contents = Run(taken, got - taken)
  BY DEF OutputIsRun
<1>1. /\ readIndex \in Nat /\ writeIndex \in Nat /\ readIndex <= writeIndex
      /\ got \in Nat /\ taken \in Nat
  BY DEF IInv, TypeOK
<1>2. Readable = got - taken /\ Holds(data, readIndex, writeIndex, taken)
  BY DEF Fifo, OutputPlain
<1>3. got - taken \in Nat /\ writeIndex = readIndex + (got - taken)
  BY <1>1, <1>2 DEF Readable
<1>4. ASSUME NEW k \in 1..Readable PROVE data[readIndex + k - 1] = taken + k - 1
  <2>1. readIndex + k - 1 \in readIndex..(writeIndex - 1)
    BY <1>1, <1>2, <1>3
  <2> QED
    BY <1>1, <1>2, <2>1 DEF Holds
<1>5. [k \in 1..Readable |-> data[readIndex + k - 1]] = [k \in 1..Readable |-> taken + k - 1]
  BY <1>4, Zenon
<1>6. Contents = Run(taken, Readable)
  BY <1>5 DEF Contents, Run
<1> QED
  BY <1>1, <1>2, <1>3, <1>6

\* Every step of an output buffer puts or takes a block, or stutters.
LEMMA StepQueue ==
  ASSUME OutputIsRun, OutputIsRun', [Next]_vars
  PROVE  [Queue!Next]_(Queue!vars)
<1>2. CASE UNCHANGED vars
  BY <1>2 DEF vars, Queue!vars, IsOutput, Readable
<1>3. CASE Next /\ ~IsOutput
  BY <1>3 DEF Next, IsOutput, Queue!vars
<1>4. CASE Next /\ IsOutput
  <2>1. PICK n \in 1..MaxBytes :
          \/ got + n <= MaxBytes /\ BufferAppend(n)
          \/ n <= Readable /\ BufferRetrieveData(n)
    BY <1>4 DEF Next, IsOutput, BufferWrite
  <2>2. /\ taken \in Nat /\ got \in Nat /\ got - taken \in Nat /\ n \in Nat
        /\ Readable = got - taken /\ Contents = Run(taken, got - taken)
    BY <1>4 DEF OutputIsRun
  <2>3. /\ IsOutput' /\ taken' \in Nat /\ got' \in Nat /\ got' - taken' \in Nat
        /\ Contents' = Run(taken', got' - taken')
    BY <1>4 DEF Next, IsOutput, OutputIsRun
  <2>4. CASE got + n <= MaxBytes /\ BufferAppend(n)
    <3>1. (got' = got + n /\ taken' = taken) \/ Abort
      BY <2>4 DEF BufferAppend
    <3>2. CASE got' = got + n /\ taken' = taken
      <4>1. Contents' = Contents \o Run(got, n)
        <5> DEFINE m == got - taken
        <5>1. m \in Nat /\ got = taken + m /\ got' - taken' = m + n
          BY <2>2, <3>2
        <5>2. Contents = Run(taken, m) /\ Contents' = Run(taken, m + n)
          BY <2>2, <2>3, <3>2, <5>1
        <5> HIDE DEF m
        <5>3. Run(taken, m) \o Run(taken + m, n) = Run(taken, m + n)
          BY <2>2, <5>1, RunConcat
        <5> QED
          BY <5>1, <5>2, <5>3
      <4>2. Queue!Put(n)
        BY <1>4, <2>3, <2>4, <3>2, <4>1 DEF Queue!Put, Contents, Run, IsOutput
      <4> QED
        BY <4>2 DEF Queue!Next
    <3>3. CASE Abort
      BY <3>3, <1>4, <2>3 DEF Abort, Queue!vars, IsOutput, Readable
    <3> QED
      BY <3>1, <3>2, <3>3
  <2>5. CASE n <= Readable /\ BufferRetrieveData(n)
    <3>1. taken' = taken + n /\ got' = got
      BY <2>5 DEF BufferRetrieveData
    <3> DEFINE m == got - taken
    <3>2. m \in Nat /\ n \in 0..m /\ got' - taken' = m - n
      BY <2>2, <2>5, <3>1
    <3>3. Contents = Run(taken, m) /\ Contents' = Run(taken + n, m - n)
      BY <2>2, <2>3, <3>1, <3>2
    <3> HIDE DEF m
    <3>4. SubSeq(Run(taken, m), n + 1, m) = Run(taken + n, m - n) /\ Len(Run(taken, m)) = m
      BY <2>2, <3>2, RunDrop, RunType
    <3>5. Contents' = SubSeq(Contents, n + 1, Len(Contents)) /\ n <= Len(Contents)
      BY <3>2, <3>3, <3>4
    <3>6. Queue!Take(n)
      BY <1>4, <2>3, <3>1, <3>5, Zenon DEF Queue!Take, Contents
    <3> QED
      BY <3>6 DEF Queue!Next
  <2> QED
    BY <2>1, <2>4, <2>5
<1> QED
  BY <1>2, <1>3, <1>4

\* An output Buffer is a FifoQueue of bytes: BufferAppend puts a block behind the unread
\* bytes, whether it moves them or not, and a write takes a block from the front.
THEOREM OutputIsQueue == Spec => ImplementsQueue
<1>1. Init => Queue!Init
  BY DEF Init, BufferInit, Queue!Init, Readable
<1>2. Init => OutputPlain
  BY DEF Init, OutputPlain
<1>3. Spec => []OutputPlain
  BY <1>2, PlainKept, PTL DEF Spec
<1>4. OutputIsRun /\ OutputIsRun' /\ [Next]_vars => [Queue!Next]_(Queue!vars)
  BY StepQueue
<1> QED
  BY <1>1, <1>3, <1>4, OutputRun, IndexInvariant, FifoKept, PTL
     DEF Spec, ImplementsQueue, Queue!Spec
=============================================================================
