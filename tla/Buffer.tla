------------------------------- MODULE Buffer -------------------------------
(***************************************************************************)
(* A Buffer (src/src/buffer.c): an array with a read and a write index.    *)
(* In the program a Buffer is filled by one kind of call only, which feed  *)
(* names:                                                                  *)
(*                                                                         *)
(*   "append"  the output buffer of a connection: BufferAppend;            *)
(*   "fd"      the input buffer of a TCP connection: BufferReadFromFD;     *)
(*   "ssl"     the input buffer of a TLS connection: BufferReadFromSSL.    *)
(*                                                                         *)
(* The bytes are numbered in the order in which the peer, or the caller of *)
(* BufferAppend, hands them over.                                          *)
(***************************************************************************)
EXTENDS Integers, Sequences

CONSTANTS
  Feeds,     \* the kinds of buffers of an instance
  InitSize,  \* BUFFERINITSIZE
  ExtraSize, \* the size of extrabuf in BufferReadFromFD
  Growth,    \* what BufferReadFromSSL adds to a buffer it has filled
  MaxBytes   \* bound: bytes that go in

ASSUME FeedAssumption == Feeds \subseteq {"append", "fd", "ssl"}
ASSUME SizeAssumption ==
  /\ InitSize \in Nat \ {0} /\ ExtraSize \in Nat \ {0} /\ Growth \in Nat \ {0}
  /\ MaxBytes \in Nat

VARIABLES
  feed,       \* the call that fills this buffer
  size,       \* Buffer.size
  data,       \* Buffer.data
  readIndex,  \* Buffer.readIndex
  writeIndex, \* Buffer.writeIndex
  got,        \* history: bytes handed over so far
  taken,      \* history: bytes retrieved so far
  spilled,    \* history: a read ended at or beyond the end of the array
  fate        \* "abort": an assertion or the address sanitizer ended the process

vars == <<feed, size, data, readIndex, writeIndex, got, taken, spilled, fate>>

Junk == -1 \* a byte that was never written

Readable == writeIndex - readIndex
Room     == size - writeIndex

BufferInit ==
  /\ size = InitSize
  /\ data = [i \in 0..(InitSize - 1) |-> Junk]
  /\ readIndex = 0 /\ writeIndex = 0

Init ==
  /\ feed \in Feeds
  /\ BufferInit
  /\ got = 0 /\ taken = 0 /\ spilled = FALSE /\ fate = "run"

-----------------------------------------------------------------------------
\* d with n bytes of the stream, from byte first on, put at index at.
Stored(d, at, n, first) ==
  [i \in DOMAIN d |-> IF at <= i /\ i < at + n THEN first + (i - at) ELSE d[i]]

\* Mutant: the array is copied from its beginning.
ResizedFromStart(newsize) ==
  [i \in 0..(newsize - 1) |-> IF i < Readable THEN data[i] ELSE Junk]

\* The array resize() leaves: the unread bytes moved to the front.
Resized(newsize) ==
  [i \in 0..(newsize - 1) |-> IF i < Readable THEN data[readIndex + i] ELSE Junk]

Abort ==
  /\ fate' = "abort"
  /\ UNCHANGED <<size, data, readIndex, writeIndex, got, taken, spilled>>

\* BufferAppend: n bytes, into a larger array when they do not fit.
BufferAppend(n) ==
  /\ IF n > Room
     THEN IF n + writeIndex > size
          THEN /\ size' = n + writeIndex
               /\ data' = Stored(Resized(n + writeIndex), Readable, n, got)
               /\ readIndex' = 0
               /\ writeIndex' = Readable + n
               /\ got' = got + n
               /\ UNCHANGED <<taken, spilled, fate>>
          ELSE Abort
     ELSE /\ data' = Stored(data, writeIndex, n, got)
          /\ writeIndex' = writeIndex + n
          /\ got' = got + n
          /\ UNCHANGED <<size, readIndex, taken, spilled, fate>>

\* Mutant: extrabuf is forgotten.
ReadFromFDNoExtra(n) ==
  /\ n <= Room + ExtraSize
  /\ data' = Stored(data, writeIndex, n, got)
  /\ writeIndex' = writeIndex + n
  /\ got' = got + n
  /\ UNCHANGED <<size, readIndex, taken, spilled, fate>>

\* BufferReadFromFD: readv fills the rest of the array and then extrabuf.  When
\* extrabuf was used the array is replaced, without the part readv had filled, and
\* n - writeIndex bytes are copied from extrabuf, whatever it holds.
BufferReadFromFD(n) ==
  /\ n <= Room + ExtraSize
  /\ IF n <= Room
     THEN /\ data' = Stored(data, writeIndex, n, got)
          /\ writeIndex' = writeIndex + n
          /\ got' = got + n
          /\ UNCHANGED <<size, readIndex, taken, spilled, fate>>
     ELSE LET extrabytes == n - writeIndex
              valid == n - Room
              array == Resized(writeIndex + n)
          IN IF extrabytes \in 0..ExtraSize /\ writeIndex + n > size
             THEN /\ size' = writeIndex + n
                  /\ data' = [i \in DOMAIN array |->
                       IF i < Readable \/ i >= Readable + extrabytes THEN array[i]
                       ELSE IF i - Readable < valid THEN got + Room + (i - Readable)
                       ELSE Junk]
                  /\ readIndex' = 0
                  /\ writeIndex' = Readable + n
                  /\ got' = got + n
                  /\ spilled' = TRUE
                  /\ UNCHANGED <<taken, fate>>
             ELSE Abort

\* Mutant: a buffer that was filled to the last byte is left as it is.
ReadFromSSLNoGrowth(n) ==
  /\ IF Room > 0
     THEN /\ n <= Room
          /\ data' = Stored(data, writeIndex, n, got)
          /\ writeIndex' = writeIndex + n
          /\ got' = got + n
          /\ UNCHANGED <<size, readIndex, taken, spilled, fate>>
     ELSE Abort

\* BufferReadFromSSL: SSL_read fills at most the rest of the array.  When it fills
\* all of it the array grows, but writeIndex stays where it was.
BufferReadFromSSL(n) ==
  /\ IF Room > 0
     THEN IF n < Room
          THEN /\ data' = Stored(data, writeIndex, n, got)
               /\ writeIndex' = writeIndex + n
               /\ got' = got + n
               /\ UNCHANGED <<size, readIndex, taken, spilled, fate>>
          ELSE /\ n = Room
               /\ size' = size + Growth
               /\ data' = Resized(size + Growth)
               /\ readIndex' = 0
               /\ writeIndex' = Readable
               /\ got' = got + n
               /\ spilled' = TRUE
               /\ UNCHANGED <<taken, fate>>
     ELSE Abort

\* Mutant: the indices go back to the start while bytes are left.
RetrieveAll(n) ==
  /\ readIndex' = 0 /\ writeIndex' = 0
  /\ taken' = taken + n
  /\ UNCHANGED <<size, data, got, spilled, fate>>

\* BufferRetrieveData: the caller gets n bytes; an emptied buffer starts over.
BufferRetrieveData(n) ==
  /\ IF readIndex + n = writeIndex
     THEN readIndex' = 0 /\ writeIndex' = 0
     ELSE readIndex' = readIndex + n /\ UNCHANGED writeIndex
  /\ taken' = taken + n
  /\ UNCHANGED <<size, data, got, spilled, fate>>

\* BufferWriteToFD, BufferWriteToSSL: the socket took n of the readable bytes.
BufferWrite(n) == n <= Readable /\ BufferRetrieveData(n)

\* The parser takes a line or a body it knows to be there.
BufferParse(n) == n <= Readable /\ BufferRetrieveData(n)

-----------------------------------------------------------------------------
Next ==
  /\ fate = "run"
  /\ UNCHANGED feed
  /\ \E n \in 1..MaxBytes :
       \/ feed = "append" /\ got + n <= MaxBytes /\ BufferAppend(n)
       \/ feed = "fd"     /\ got + n <= MaxBytes /\ BufferReadFromFD(n)
       \/ feed = "ssl"    /\ got + n <= MaxBytes /\ BufferReadFromSSL(n)
       \/ feed = "append" /\ BufferWrite(n)
       \/ feed # "append" /\ BufferParse(n)

Spec == Init /\ [][Next]_vars

-----------------------------------------------------------------------------
(* Properties.                                                             *)

\* The indices stay inside the array, in order, through every way it is filled,
\* replaced and emptied.
TypeOK ==
  /\ feed \in Feeds
  /\ size \in Nat /\ readIndex \in Nat /\ writeIndex \in Nat
  /\ readIndex <= writeIndex /\ writeIndex <= size
  /\ data \in [0..(size - 1) -> Nat \cup {Junk}]
  /\ got \in Nat /\ taken \in Nat
  /\ spilled \in BOOLEAN /\ fate \in {"run", "abort"}

\* Array d has the stream from byte first on at indices from to to - 1.
Holds(d, from, to, first) == \A i \in from..(to - 1) : d[i] = first + (i - from)

\* The unread part of the array is the part of the stream not yet retrieved, byte
\* for byte, until a read ends at or beyond the end of the array.
Fifo ==
  ~spilled =>
    /\ Readable = got - taken
    /\ Holds(data, readIndex, writeIndex, taken)

\* The assertions of buffer.c hold, and no copy leaves its array: always for output
\* and TLS input, where every read must find room (assert(writable_bytes > 0)).
NoAbort == feed # "fd" => fate = "run"

\* An output buffer implements FifoQueue, byte by byte.
IsOutput == feed = "append"

Queue == INSTANCE FifoQueue WITH
  MaxItems <- MaxBytes,
  contents <- IF IsOutput THEN [k \in 1..Readable |-> data[readIndex + k - 1]] ELSE <<>>,
  next     <- IF IsOutput THEN got ELSE 0

ImplementsQueue == Queue!Spec

-----------------------------------------------------------------------------
(* A claim of the source that the code does not keep.                      *)

\* http.h: the buffer of HTTPClientHandleMessage is the one "that stores the data".
StreamStored ==
  /\ Readable = got - taken
  /\ Holds(data, readIndex, writeIndex, taken)
=============================================================================
