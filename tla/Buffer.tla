------------------------------- MODULE Buffer -------------------------------
(***************************************************************************)
(* A Buffer (muduo/Buffer.h): a vector with a reader and a writer index,   *)
(* kCheapPrepend bytes kept free at its head.  buffer[i + 1] is            *)
(* buffer_[i].  One thread uses a buffer, so an operation is one step.     *)
(***************************************************************************)
EXTENDS Naturals, Sequences

CONSTANTS
  kCheapPrepend, kInitialSize,
  ExtraSize,    \* sizeof(extraBuffer)
  Data,         \* the bytes that callers append and peers send
  Zero,         \* the byte a vector is filled with
  Uninit,       \* a byte of extraBuffer, which nobody initialises
  MaxReadable   \* bound: the most bytes callers leave in the buffer

ASSUME SizeAssumption ==
  /\ kCheapPrepend \in Nat /\ kInitialSize \in Nat
  /\ ExtraSize \in Nat /\ MaxReadable \in Nat

Byte == Data \cup {Zero, Uninit}

VARIABLES
  buffer, readerIndex, writerIndex,
  given,     \* history: what the last operation, an append, was given
  received,  \* history: what recv took from the socket in the last operation
  out,       \* history: what the last operation handed out
  peak       \* history: the most bytes that were readable at any time

indexVars == <<readerIndex, writerIndex>>
bufferVars == <<buffer, readerIndex, writerIndex, given, received, out, peak>>

ReadableBytes == writerIndex - readerIndex
WritableBytes == Len(buffer) - writerIndex
PrependableBytes == readerIndex

(* The bytes from peek() to beginWrite().                                   *)
Readable == SubSeq(buffer, readerIndex + 1, writerIndex)

Larger(m, n) == IF m < n THEN n ELSE m

(* The constructor ignores the size it is given.                            *)
Init ==
  /\ buffer = [i \in 1 .. kCheapPrepend + kInitialSize |-> Zero]
  /\ readerIndex = kCheapPrepend
  /\ writerIndex = kCheapPrepend
  /\ given = <<>>
  /\ received = <<>>
  /\ out = <<>>
  /\ peak = 0

(* What passed in or out.                                                   *)
Passed(fromCaller, fromSocket, result) ==
  /\ given' = fromCaller
  /\ received' = fromSocket
  /\ out' = result

-----------------------------------------------------------------------------
(* append, for a writer index of w: readFd moves it first.                  *)

Fits(w, len) == w + len <= Len(buffer)

MustGrow_WithoutLooking(w, len) == TRUE
MustGrow_CountsHead(w, len) == Len(buffer) - w + readerIndex < len

(* The test of makeSpace: with the bytes already read there is no room.     *)
MustGrow(w, len) ==
  Len(buffer) - w + PrependableBytes < len + kCheapPrepend

Resized(n) == [i \in 1 .. n |-> IF i <= Len(buffer) THEN buffer[i] ELSE Zero]

Compacted_NotMoved(w) == buffer

(* The readable bytes moved to the head; what lies behind them stays.       *)
Compacted(w) ==
  [i \in 1 .. Len(buffer) |->
     IF i \in kCheapPrepend + 1 .. kCheapPrepend + w - readerIndex
     THEN buffer[i - kCheapPrepend + readerIndex] ELSE buffer[i]]

Written(bytes, at, data) ==
  [i \in 1 .. Len(bytes) |->
     IF i \in at + 1 .. at + Len(data) THEN data[i - at] ELSE bytes[i]]

(* ensureWritableBytes, the copy, and the advance of the writer.            *)
AppendAt(w, data) ==
  LET len == Len(data)
      compacts == ~Fits(w, len) /\ ~MustGrow(w, len)
      reader == IF compacts THEN kCheapPrepend ELSE readerIndex
      writer == w - readerIndex + reader
      room == IF Fits(w, len) THEN buffer
              ELSE IF compacts THEN Compacted(w) ELSE Resized(w + len)
  IN  /\ buffer' = Written(room, writer, data)
      /\ readerIndex' = reader
      /\ writerIndex' = writer + len
      /\ peak' = Larger(peak, writer + len - reader)

Append_(data) ==
  /\ ReadableBytes + Len(data) <= MaxReadable
  /\ AppendAt(writerIndex, data)
  /\ Passed(data, <<>>, <<>>)

-----------------------------------------------------------------------------
(* Taking bytes out.                                                        *)

(* More is asked for than there is: retrieve becomes retrieveAll.           *)
Overdrawn(len) == len > ReadableBytes

(* retrieve: only retrieveAll takes the indices back to the head.           *)
Advance(len) ==
  /\ readerIndex' = IF Overdrawn(len) THEN kCheapPrepend ELSE readerIndex + len
  /\ writerIndex' = IF Overdrawn(len) THEN kCheapPrepend ELSE writerIndex

Retrieve(len) ==
  /\ Advance(len)
  /\ Passed(<<>>, <<>>, <<>>)
  /\ UNCHANGED <<buffer, peak>>

RetrieveAll ==
  /\ readerIndex' = kCheapPrepend
  /\ writerIndex' = kCheapPrepend
  /\ Passed(<<>>, <<>>, <<>>)
  /\ UNCHANGED <<buffer, peak>>

(* The string is made from the bytes before they are retrieved.             *)
(* retrieveAllAsString asks for all that is readable.  The code does not    *)
(* look at len: that it asks for no more is the caller's to see to.         *)
RetrieveAsString(len) ==
  /\ len <= ReadableBytes
  /\ Passed(<<>>, <<>>, SubSeq(buffer, readerIndex + 1, readerIndex + len))
  /\ Advance(len)
  /\ UNCHANGED <<buffer, peak>>

(* writeFd: the socket takes n bytes, and they stay in the buffer.          *)
WriteFd(n) ==
  /\ n <= ReadableBytes
  /\ Passed(<<>>, <<>>, SubSeq(buffer, readerIndex + 1, readerIndex + n))
  /\ UNCHANGED <<buffer, indexVars, peak>>

-----------------------------------------------------------------------------
(* readFd.                                                                  *)

IovCount == IF WritableBytes < ExtraSize THEN 2 ELSE 1

(* The length given to recv is the number of iovecs.                        *)
RecvLength == IovCount

(* recv takes bytes from the socket and puts them over the array of iovecs. *)
(* The indices move as if they were in the buffer, and if it is full, as if *)
(* the last of them were in extraBuffer: what becomes readable is what was  *)
(* there before.  At the end of file and on an error nothing changes.       *)
ReadFd(bytes) ==
  LET n == Len(bytes)
  IN  /\ ReadableBytes + n <= MaxReadable
      /\ n <= RecvLength
      /\ IF n <= WritableBytes
         THEN /\ writerIndex' = writerIndex + n
              /\ peak' = Larger(peak, writerIndex + n - readerIndex)
              /\ UNCHANGED <<buffer, readerIndex>>
         ELSE AppendAt(Len(buffer), [i \in 1 .. n - WritableBytes |-> Uninit])
      /\ Passed(<<>>, bytes, <<>>)

-----------------------------------------------------------------------------

Next ==
  \/ \E len \in 1 .. MaxReadable : \E data \in [1 .. len -> Data] :
       Append_(data) \/ ReadFd(data)
  \/ \E len \in 0 .. MaxReadable :
       Retrieve(len) \/ RetrieveAsString(len) \/ WriteFd(len)
  \/ RetrieveAll

Spec == Init /\ [][Next]_bufferVars

-----------------------------------------------------------------------------
(* Properties.                                                              *)

(* The indices stay in order, behind the free head and inside the vector.   *)
TypeOK ==
  /\ buffer \in Seq(Byte)
  /\ readerIndex \in kCheapPrepend .. writerIndex
  /\ writerIndex \in kCheapPrepend .. Len(buffer)
  /\ given \in Seq(Data) /\ received \in Seq(Data) /\ out \in Seq(Byte)
  /\ peak \in Nat
  /\ ReadableBytes <= peak

(* Memory follows what is buffered at once and not the traffic: moving the  *)
(* bytes to the head comes before growing (Buffer.h:122-130), so the vector *)
(* is never larger than twice the longest content it has had, with the      *)
(* head, or than it was built.                                              *)
GrowthBounded ==
  Len(buffer) <= Larger(kCheapPrepend + kInitialSize, kCheapPrepend + 2 * peak)

Queue == INSTANCE ByteQueue WITH queue <- Readable, given <- given \o received

(* What is left of readFd: it keeps what was readable, in front of as many  *)
(* bytes as recv took.                                                      *)
ReadFdKeepsFront ==
  /\ received' # <<>>
  /\ Len(Readable') = Len(Readable) + Len(received')
  /\ SubSeq(Readable', 1, Len(Readable)) = Readable
  /\ out' = <<>>

(* The buffer implements ByteQueue but for the bytes of readFd: what append *)
(* is given stands behind what was readable, no operation loses, doubles or *)
(* reorders anything, and what is handed out is the front, over every       *)
(* compaction and growth of the vector (Buffer.h:39-88, 122-130).           *)
ByteQueueRefined ==
  Queue!QInit /\ [][Queue!QNext \/ ReadFdKeepsFront]_(Queue!qvars)

(* "Read data from the fd ... add the extra data to the buffer" (Buffer.h:  *)
(* 90, 108): what recv took is what becomes readable.  recv is handed the   *)
(* array of iovecs instead of the memory they point to (Buffer.h:101),      *)
(* which refutes it.                                                        *)
ReadFdAppends ==
  [][received' # <<>> => Readable' = Readable \o received']_bufferVars
=============================================================================
