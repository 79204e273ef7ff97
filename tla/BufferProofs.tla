---------------------------- MODULE BufferProofs ----------------------------
(***************************************************************************)
(* Theorems about Buffer, for every size of the head, of the vector and of *)
(* readFd's second buffer, and every alphabet.                             *)
(***************************************************************************)
EXTENDS Buffer, SequenceTheorems, TLAPS

-----------------------------------------------------------------------------
(* Vectors.                                                                 *)

(* A copy into a vector changes the bytes it covers and no others.          *)
LEMMA WrittenProperties ==
  ASSUME NEW bytes \in Seq(Byte), NEW data \in Seq(Byte), NEW at \in Nat
  PROVE  LET w == Written(bytes, at, data)
         IN  /\ w \in Seq(Byte)
             /\ Len(w) = Len(bytes)
             /\ \A i \in 1 .. Len(bytes) :
                  w[i] = IF i \in at + 1 .. at + Len(data) THEN data[i - at]
                                                           ELSE bytes[i]
<1> DEFINE w == Written(bytes, at, data)
<1>1. ASSUME NEW i \in 1 .. Len(bytes)
      PROVE  (IF i \in at + 1 .. at + Len(data) THEN data[i - at] ELSE bytes[i])
               \in Byte
  <2>1. CASE i \in at + 1 .. at + Len(data)
    <3>1. i - at \in 1 .. Len(data)
      BY <2>1
    <3> QED BY <2>1, <3>1, ElementOfSeq
  <2>2. CASE i \notin at + 1 .. at + Len(data)
    BY <2>2, ElementOfSeq
  <2> QED BY <2>1, <2>2
<1>2. w \in [1 .. Len(bytes) -> Byte]
  BY <1>1 DEF Written
<1>3. w \in Seq(Byte) /\ Len(w) = Len(bytes)
  BY <1>2, LenProperties
<1> QED BY <1>3 DEF Written

LEMMA LargerThanRight ==
  ASSUME NEW m \in Int, NEW n \in Int, NEW k \in Int, k <= n
  PROVE  k <= Larger(m, n)
BY DEF Larger

(* Growing a vector keeps what it holds.                                    *)
LEMMA ResizedProperties ==
  ASSUME NEW n \in Nat, buffer \in Seq(Byte)
  PROVE  /\ Resized(n) \in Seq(Byte)
         /\ Len(Resized(n)) = n
         /\ \A i \in 1 .. n : i <= Len(buffer) => Resized(n)[i] = buffer[i]
<1>1. ASSUME NEW i \in 1 .. n
      PROVE  (IF i <= Len(buffer) THEN buffer[i] ELSE Zero) \in Byte
  BY ElementOfSeq DEF Byte
<1>2. Resized(n) \in [1 .. n -> Byte]
  BY <1>1 DEF Resized
<1>3. Resized(n) \in Seq(Byte) /\ Len(Resized(n)) = n
  BY <1>2, LenProperties
<1> QED BY <1>3 DEF Resized

(* Compaction moves the bytes up to w behind the free head.                 *)
LEMMA CompactedProperties ==
  ASSUME TypeOK, NEW w \in readerIndex .. Len(buffer)
  PROVE  /\ Compacted(w) \in Seq(Byte)
         /\ Len(Compacted(w)) = Len(buffer)
         /\ \A i \in 1 .. w - readerIndex :
              Compacted(w)[kCheapPrepend + i] = buffer[readerIndex + i]
<1> readerIndex \in Nat /\ kCheapPrepend \in Nat /\ kCheapPrepend <= readerIndex
    /\ buffer \in Seq(Byte) /\ w \in Nat
  BY SizeAssumption DEF TypeOK
<1>1. ASSUME NEW i \in 1 .. Len(buffer)
      PROVE  (IF i \in kCheapPrepend + 1 .. kCheapPrepend + w - readerIndex
              THEN buffer[i - kCheapPrepend + readerIndex] ELSE buffer[i]) \in Byte
  <2>1. CASE i \in kCheapPrepend + 1 .. kCheapPrepend + w - readerIndex
    <3>1. i - kCheapPrepend + readerIndex \in 1 .. Len(buffer)
      BY <2>1
    <3> QED BY <2>1, <3>1, ElementOfSeq
  <2>2. CASE i \notin kCheapPrepend + 1 .. kCheapPrepend + w - readerIndex
    BY <2>2, ElementOfSeq
  <2> QED BY <2>1, <2>2
<1>2. Compacted(w) \in [1 .. Len(buffer) -> Byte]
  BY <1>1 DEF Compacted
<1>3. Compacted(w) \in Seq(Byte) /\ Len(Compacted(w)) = Len(buffer)
  BY <1>2, LenProperties
<1>4. ASSUME NEW i \in 1 .. w - readerIndex
      PROVE  Compacted(w)[kCheapPrepend + i] = buffer[readerIndex + i]
  <2>1. /\ kCheapPrepend + i \in 1 .. Len(buffer)
        /\ kCheapPrepend + i \in kCheapPrepend + 1 .. kCheapPrepend + w - readerIndex
        /\ kCheapPrepend + i - kCheapPrepend + readerIndex = readerIndex + i
    OBVIOUS
  <2> QED BY <2>1 DEF Compacted
<1> QED BY <1>3, <1>4

-----------------------------------------------------------------------------
(* The histories are sequences of bytes.                                    *)
History == given \in Seq(Data) /\ received \in Seq(Data) /\ out \in Seq(Byte)

(* append with the writer at w: the bytes up to w stay, data follows them,  *)
(* and the vector is large enough and no larger than it must be.            *)
LEMMA AppendKeeps ==
  ASSUME TypeOK, GrowthBounded,
         NEW w \in writerIndex .. Len(buffer), NEW data \in Seq(Byte),
         AppendAt(w, data), History'
  PROVE  /\ TypeOK' /\ GrowthBounded'
         /\ ReadableBytes' = w - readerIndex + Len(data)
         /\ \A i \in 1 .. w - readerIndex :
              buffer'[readerIndex' + i] = buffer[readerIndex + i]
         /\ \A i \in 1 .. Len(data) :
              buffer'[readerIndex' + (w - readerIndex) + i] = data[i]
<1> DEFINE len == Len(data)
           compacts == ~Fits(w, len) /\ ~MustGrow(w, len)
           reader == IF compacts THEN kCheapPrepend ELSE readerIndex
           writer == w - readerIndex + reader
           room == IF Fits(w, len) THEN buffer
                   ELSE IF compacts THEN Compacted(w) ELSE Resized(w + len)
<1>1. /\ buffer' = Written(room, writer, data)
      /\ readerIndex' = reader
      /\ writerIndex' = writer + len
      /\ peak' = Larger(peak, writer + len - reader)
  BY DEF AppendAt
<1>2. /\ readerIndex \in Nat /\ writerIndex \in Nat /\ w \in Nat /\ len \in Nat
      /\ kCheapPrepend \in Nat /\ kInitialSize \in Nat /\ peak \in Nat
      /\ kCheapPrepend <= readerIndex /\ readerIndex <= w /\ w <= Len(buffer)
      /\ buffer \in Seq(Byte) /\ Len(buffer) \in Nat
  BY SizeAssumption DEF TypeOK
<1>3. /\ room \in Seq(Byte)
      /\ writer + len <= Len(room)
      /\ Len(room) <= Larger(kCheapPrepend + kInitialSize, kCheapPrepend + 2 * peak')
      /\ \A i \in 1 .. w - readerIndex : room[reader + i] = buffer[readerIndex + i]
  <2>1. CASE Fits(w, len)
    BY <1>1, <1>2, <2>1, SMTT(60) DEF Fits, GrowthBounded, Larger
  <2>2. CASE compacts
    <3>1. writer + len <= Len(buffer)
      BY <1>2, <2>2 DEF Fits, MustGrow, PrependableBytes
    <3>2. Len(buffer) <= Larger(kCheapPrepend + kInitialSize, kCheapPrepend + 2 * peak')
      BY <1>1, <1>2 DEF GrowthBounded, Larger
    <3>3. room = Compacted(w) /\ reader = kCheapPrepend
      BY <2>2
    <3>4. /\ room \in Seq(Byte) /\ Len(room) = Len(buffer)
          /\ \A i \in 1 .. w - readerIndex :
               room[reader + i] = buffer[readerIndex + i]
      <4>1. w \in readerIndex .. Len(buffer)
        BY <1>2
      <4> HIDE DEF room, reader
      <4> QED BY <3>3, <4>1, CompactedProperties
    <3> QED BY <3>1, <3>2, <3>4
  <2>3. CASE ~Fits(w, len) /\ ~compacts
    <3>1. /\ w + len \in Nat /\ reader = readerIndex /\ writer = w
          /\ room = Resized(w + len)
      BY <1>2, <2>3
    <3>2. room \in Seq(Byte) /\ Len(room) = w + len
          /\ \A i \in 1 .. w + len : i <= Len(buffer) => room[i] = buffer[i]
      BY <1>2, <3>1, ResizedProperties
    <3>3. w + len <= kCheapPrepend + 2 * peak'
      <4>1. Len(buffer) - w + readerIndex < len + kCheapPrepend
        BY <2>3 DEF MustGrow, PrependableBytes
      <4>2. w + len - readerIndex <= peak' /\ peak' \in Nat
        BY <1>1, <1>2, <3>1 DEF Larger
      <4> QED BY <1>2, <4>1, <4>2, SMTT(60)
    <3>4. ASSUME NEW i \in 1 .. w - readerIndex
          PROVE  room[reader + i] = buffer[readerIndex + i]
      <4>1. readerIndex + i \in 1 .. w + len /\ readerIndex + i <= Len(buffer)
        BY <1>2
      <4> QED BY <3>1, <3>2, <4>1
    <3>5. peak' \in Nat
      BY <1>1, <1>2, <3>1 DEF Larger
    <3>6. Len(room) <= Larger(kCheapPrepend + kInitialSize, kCheapPrepend + 2 * peak')
      <4> HIDE DEF room
      <4>1. Len(room) = w + len
        BY <3>2
      <4>2. w + len <= Larger(kCheapPrepend + kInitialSize, kCheapPrepend + 2 * peak')
        <5> DEFINE m == kCheapPrepend + kInitialSize
                   n == kCheapPrepend + 2 * peak'
                   k == w + len
        <5>1. m \in Int /\ n \in Int /\ k \in Int /\ k <= n
          BY <1>2, <3>1, <3>3, <3>5
        <5> HIDE DEF m, n, k
        <5>2. k <= Larger(m, n)
          BY <5>1, LargerThanRight
        <5> QED BY <5>2 DEF k, m, n
      <4> QED BY <4>1, <4>2
    <3>7. writer + len <= Len(room)
      BY <1>2, <3>1, <3>2
    <3> HIDE DEF room, reader, writer
    <3> QED BY <3>2, <3>4, <3>6, <3>7
  <2> QED BY <2>1, <2>2, <2>3
<1> reader \in Nat /\ kCheapPrepend <= reader /\ writer \in Nat
    /\ writer = w - readerIndex + reader
  BY <1>2
<1> HIDE DEF reader, writer, room, compacts
<1>4. /\ buffer' \in Seq(Byte)
      /\ Len(buffer') = Len(room)
      /\ \A i \in 1 .. Len(room) :
           buffer'[i] = IF i \in writer + 1 .. writer + len THEN data[i - writer]
                                                            ELSE room[i]
  <2>1. room \in Seq(Byte) /\ data \in Seq(Byte) /\ writer \in Nat
    BY <1>3
  <2> DEFINE u == Written(room, writer, data)
  <2>2. /\ u \in Seq(Byte) /\ Len(u) = Len(room)
        /\ \A i \in 1 .. Len(room) :
             u[i] = IF i \in writer + 1 .. writer + Len(data) THEN data[i - writer] ELSE room[i]
    BY <2>1, WrittenProperties
  <2> HIDE DEF u
  <2>3. buffer' = u
    BY <1>1 DEF u
  <2> QED BY <2>2, <2>3, Zenon
<1>5. TypeOK'
  <2>1. /\ given' \in Seq(Data) /\ received' \in Seq(Data)
        /\ out' \in Seq(Byte)
    BY DEF History
  <2>2. buffer' \in Seq(Byte) /\ Len(buffer') = Len(room)
    BY <1>4
  <2>3. /\ readerIndex' \in Nat /\ writerIndex' \in Nat /\ peak' \in Nat
        /\ kCheapPrepend <= readerIndex' /\ readerIndex' <= writerIndex'
        /\ writerIndex' <= Len(buffer') /\ writerIndex' - readerIndex' <= peak'
    <3>1. Larger(peak, writer + len - reader) \in {peak, writer + len - reader}
          /\ writer + len - reader <= Larger(peak, writer + len - reader)
      BY <1>2 DEF Larger
    <3> HIDE DEF len
    <3> QED BY <1>1, <1>2, <1>3, <2>2, <3>1, SMTT(60)
  <2>4. kCheapPrepend \in Int /\ Len(buffer') \in Int
    BY <1>2, <2>2, LenProperties
  <2> HIDE DEF len
  <2>5. /\ readerIndex' \in kCheapPrepend .. writerIndex'
        /\ writerIndex' \in kCheapPrepend .. Len(buffer')
    BY <2>3, <2>4
  <2>6. ReadableBytes' <= peak'
    BY <2>3 DEF ReadableBytes
  <2> QED BY <2>1, <2>2, <2>3, <2>5, <2>6, Zenon DEF TypeOK
<1>6. GrowthBounded'
  BY <1>3, <1>4 DEF GrowthBounded
<1>7. ReadableBytes' = w - readerIndex + Len(data)
  BY <1>1, <1>2 DEF ReadableBytes
<1>8. ASSUME NEW i \in 1 .. w - readerIndex
      PROVE  buffer'[readerIndex' + i] = buffer[readerIndex + i]
  <2>1. reader + i \in 1 .. Len(room) /\ reader + i \notin writer + 1 .. writer + len
    BY <1>2, <1>3, SMTT(60)
  <2> QED BY <1>1, <1>3, <1>4, <2>1
<1>9. ASSUME NEW i \in 1 .. Len(data)
      PROVE  buffer'[readerIndex' + (w - readerIndex) + i] = data[i]
  <2>1. /\ writer + i \in 1 .. Len(room) /\ writer + i \in writer + 1 .. writer + len
        /\ writer + i - writer = i /\ reader + (w - readerIndex) + i = writer + i
    <3> HIDE DEF len
    <3>1. /\ writer \in Nat /\ reader \in Nat /\ len \in Nat /\ i \in 1 .. len
          /\ writer = w - readerIndex + reader /\ writer + len <= Len(room)
          /\ w \in Nat /\ readerIndex \in Nat
      BY <1>2, <1>3 DEF len
    <3>2. Len(room) \in Nat
      BY <1>3, LenProperties
    <3> QED BY <3>1, <3>2
  <2>2. buffer'[writer + i] = data[i]
    <3> DEFINE k == writer + i
    <3>1. k \in 1 .. Len(room) /\ k \in writer + 1 .. writer + len /\ k - writer = i
      BY <2>1
    <3> HIDE DEF k, len
    <3>2. buffer'[k] = data[k - writer]
      BY <1>4, <3>1, Zenon
    <3> QED BY <3>1, <3>2, Zenon DEF k
  <2> QED BY <1>1, <2>1, <2>2
<1> QED BY <1>5, <1>6, <1>7, <1>8, <1>9

-----------------------------------------------------------------------------
(* The other operations.                                                    *)

LEMMA BufferInitially == Init => TypeOK /\ GrowthBounded
<1> SUFFICES ASSUME Init PROVE TypeOK /\ GrowthBounded
  OBVIOUS
<1> USE SizeAssumption DEF Init
<1> DEFINE n == kCheapPrepend + kInitialSize
<1>1. buffer \in [1 .. n -> Byte] /\ n \in Nat
  BY DEF Byte
<1>2. buffer \in Seq(Byte) /\ Len(buffer) = n
  BY <1>1, LenProperties
<1>3. given \in Seq(Data) /\ received \in Seq(Data) /\ out \in Seq(Byte)
  OBVIOUS
<1> QED BY <1>2, <1>3 DEF TypeOK, GrowthBounded, ReadableBytes, Larger

(* The indices move inside their bounds, and the vector stays.              *)
LEMMA AdvanceKeeps ==
  ASSUME TypeOK, GrowthBounded, NEW len \in Nat, Advance(len),
         UNCHANGED <<buffer, peak>>, History'
  PROVE  TypeOK' /\ GrowthBounded'
<1> USE SizeAssumption DEF History
<1>1. CASE Overdrawn(len)
  BY <1>1 DEF TypeOK, GrowthBounded, Advance, ReadableBytes
<1>2. CASE ~Overdrawn(len)
  BY <1>2 DEF TypeOK, GrowthBounded, Advance, ReadableBytes, Overdrawn
<1> QED BY <1>1, <1>2

(* What a caller hands over are bytes.                                      *)
LEMMA DataAreBytes ==
  ASSUME NEW len \in Nat, NEW data \in [1 .. len -> Data]
  PROVE  data \in Seq(Byte) /\ data \in Seq(Data) /\ Len(data) = len
<1>1. data \in [1 .. len -> Byte]
  BY DEF Byte
<1> QED BY <1>1, LenProperties

(* What retrieveAsString and writeFd hand out are bytes of the vector.      *)
LEMMA FrontOfBytes ==
  ASSUME TypeOK, NEW n \in Nat, n <= ReadableBytes
  PROVE  SubSeq(buffer, readerIndex + 1, readerIndex + n) \in Seq(Byte)
<1>1. /\ readerIndex + 1 \in Int /\ readerIndex + n \in Int
      /\ \A i \in readerIndex + 1 .. readerIndex + n : i \in 1 .. Len(buffer)
  BY SizeAssumption DEF TypeOK, ReadableBytes
<1>2. \A i \in readerIndex + 1 .. readerIndex + n : buffer[i] \in Byte
  BY <1>1, ElementOfSeq DEF TypeOK
<1> QED BY <1>1, <1>2, SubSeqProperties

(* readFd on a buffer with room for what it thinks it has read moves only   *)
(* the writer; else it appends bytes of its second buffer at the very end.  *)
LEMMA ReadFdKeeps ==
  ASSUME TypeOK, GrowthBounded, NEW bytes \in Seq(Data), ReadFd(bytes)
  PROVE  /\ TypeOK' /\ GrowthBounded'
         /\ ReadableBytes' = ReadableBytes + Len(bytes)
         /\ \A i \in 1 .. ReadableBytes :
              buffer'[readerIndex' + i] = buffer[readerIndex + i]
<1> USE SizeAssumption
<1> DEFINE n == Len(bytes)
<1>0. n \in Nat /\ History'
  <2>1. Passed(<<>>, bytes, <<>>)
    BY DEF ReadFd
  <2> QED BY <2>1 DEF Passed, History
<1>1. CASE n <= WritableBytes
  <2>1. /\ writerIndex' = writerIndex + n
        /\ peak' = Larger(peak, writerIndex + n - readerIndex)
        /\ UNCHANGED <<buffer, readerIndex>>
    BY <1>1 DEF ReadFd
  <2> HIDE DEF n
  <2>2. TypeOK'
    BY <1>0, <1>1, <2>1 DEF TypeOK, ReadableBytes, WritableBytes, Larger, History
  <2>3. GrowthBounded'
    BY <1>0, <2>1 DEF TypeOK, GrowthBounded, Larger
  <2>4. ReadableBytes' = ReadableBytes + n
    BY <1>0, <2>1 DEF TypeOK, ReadableBytes
  <2> QED BY <2>1, <2>2, <2>3, <2>4 DEF n
<1>2. CASE ~(n <= WritableBytes)
  <2> DEFINE k == n - WritableBytes
             data == [i \in 1 .. k |-> Uninit]
  <2>1. k \in Nat /\ Len(buffer) \in writerIndex .. Len(buffer)
    BY <1>0, <1>2 DEF TypeOK, WritableBytes
  <2>2. data \in [1 .. k -> Byte]
    BY DEF Byte
  <2>3. data \in Seq(Byte) /\ Len(data) = k
    BY <2>1, <2>2, LenProperties
  <2>4. AppendAt(Len(buffer), data)
    BY <1>2 DEF ReadFd
  <2> HIDE DEF data, n
  <2>5. /\ TypeOK' /\ GrowthBounded'
        /\ ReadableBytes' = Len(buffer) - readerIndex + k
        /\ \A i \in 1 .. Len(buffer) - readerIndex :
             buffer'[readerIndex' + i] = buffer[readerIndex + i]
    BY <1>0, <2>1, <2>3, <2>4, AppendKeeps
  <2>6. ReadableBytes' = ReadableBytes + n
    <3>1. Len(buffer) - readerIndex + k = ReadableBytes + n
      BY <1>0 DEF TypeOK, ReadableBytes, WritableBytes
    <3> QED BY <2>5, <3>1
  <2>7. ASSUME NEW i \in 1 .. ReadableBytes
        PROVE  buffer'[readerIndex' + i] = buffer[readerIndex + i]
    <3>1. i \in 1 .. Len(buffer) - readerIndex
      BY DEF TypeOK, ReadableBytes
    <3> QED BY <2>5, <3>1
  <2> QED BY <2>5, <2>6, <2>7 DEF n
<1> QED BY <1>1, <1>2

LEMMA BufferStep ==
  TypeOK /\ GrowthBounded /\ [Next]_bufferVars => TypeOK' /\ GrowthBounded'
<1> SUFFICES ASSUME TypeOK, GrowthBounded, [Next]_bufferVars
             PROVE  TypeOK' /\ GrowthBounded'
  OBVIOUS
<1> USE SizeAssumption
<1>1. CASE UNCHANGED bufferVars
  BY <1>1 DEF bufferVars, TypeOK, GrowthBounded, ReadableBytes
<1>2. ASSUME NEW len \in 1 .. MaxReadable, NEW data \in [1 .. len -> Data],
             Append_(data)
      PROVE  TypeOK' /\ GrowthBounded'
  <2>1. data \in Seq(Byte) /\ data \in Seq(Data)
    BY DataAreBytes
  <2>2. writerIndex \in writerIndex .. Len(buffer)
    BY DEF TypeOK
  <2>3. AppendAt(writerIndex, data) /\ Passed(data, <<>>, <<>>)
    BY <1>2 DEF Append_
  <2>4. History'
    BY <2>1, <2>3 DEF Passed, History
  <2> QED BY <2>1, <2>2, <2>3, <2>4, AppendKeeps
<1>3. ASSUME NEW len \in 0 .. MaxReadable, Retrieve(len)
      PROVE  TypeOK' /\ GrowthBounded'
  <2>1. len \in Nat /\ History'
    BY <1>3 DEF Retrieve, Passed, History
  <2> QED BY <1>3, <2>1, AdvanceKeeps DEF Retrieve
<1>4. ASSUME NEW len \in 0 .. MaxReadable, RetrieveAsString(len)
      PROVE  TypeOK' /\ GrowthBounded'
  <2>1. len \in Nat /\ History'
    BY <1>4, FrontOfBytes DEF RetrieveAsString, Passed, History
  <2> QED BY <1>4, <2>1, AdvanceKeeps DEF RetrieveAsString
<1>5. ASSUME NEW n \in 0 .. MaxReadable, WriteFd(n)
      PROVE  TypeOK' /\ GrowthBounded'
  <2>1. History'
    BY <1>5, FrontOfBytes DEF WriteFd, Passed, History
  <2> QED BY <1>5, <2>1
      DEF WriteFd, TypeOK, GrowthBounded, ReadableBytes, indexVars, History
<1>6. CASE RetrieveAll
  <2>1. History'
    BY <1>6 DEF RetrieveAll, Passed, History
  <2> QED BY <1>6, <2>1
      DEF RetrieveAll, TypeOK, GrowthBounded, ReadableBytes, History
<1>7. ASSUME NEW len \in 1 .. MaxReadable, NEW data \in [1 .. len -> Data],
             ReadFd(data)
      PROVE  TypeOK' /\ GrowthBounded'
  BY <1>7, DataAreBytes, ReadFdKeeps
<1> QED BY <1>1, <1>2, <1>3, <1>4, <1>5, <1>6, <1>7 DEF Next

LEMMA BufferInvariant == Spec => [](TypeOK /\ GrowthBounded)
BY BufferInitially, BufferStep, PTL DEF Spec

(* The indices never leave the vector nor enter the free head, whatever is  *)
(* appended, retrieved, compacted and grown (Buffer.h:39-130).              *)
THEOREM IndicesInBounds == Spec => []TypeOK
BY BufferInvariant, PTL

(* The vector never grows beyond twice the longest content it has had       *)
(* (Buffer.h:119-131).                                                      *)
THEOREM MemoryBounded == Spec => []GrowthBounded
BY BufferInvariant, PTL
-----------------------------------------------------------------------------
(* The refinement.                                                          *)

(* The readable bytes, as a sequence and in the vector.                     *)
Content ==
  /\ Readable \in Seq(Byte)
  /\ Len(Readable) = ReadableBytes
  /\ ReadableBytes \in Nat
  /\ \A i \in 1 .. ReadableBytes : Readable[i] = buffer[readerIndex + i]

LEMMA ContentRead == TypeOK => Content
<1> SUFFICES ASSUME TypeOK PROVE Content
  OBVIOUS
<1>1. /\ readerIndex + 1 \in Int /\ writerIndex \in Int
      /\ \A i \in readerIndex + 1 .. writerIndex : i \in 1 .. Len(buffer)
  BY SizeAssumption DEF TypeOK
<1>2. \A i \in readerIndex + 1 .. writerIndex : buffer[i] \in Byte
  BY <1>1, ElementOfSeq DEF TypeOK
<1>3. /\ Readable \in Seq(Byte)
      /\ Len(Readable) = IF readerIndex + 1 <= writerIndex
                         THEN writerIndex - (readerIndex + 1) + 1 ELSE 0
      /\ \A i \in 1 .. writerIndex - (readerIndex + 1) + 1 :
           Readable[i] = buffer[readerIndex + 1 + i - 1]
  BY <1>1, <1>2, SubSeqProperties DEF Readable
<1>4. Len(Readable) = ReadableBytes /\ ReadableBytes \in Nat
  BY <1>3, SizeAssumption DEF TypeOK, ReadableBytes
<1>5. ASSUME NEW i \in 1 .. ReadableBytes
      PROVE  Readable[i] = buffer[readerIndex + i]
  <2>1. /\ i \in 1 .. writerIndex - (readerIndex + 1) + 1
        /\ readerIndex + 1 + i - 1 = readerIndex + i
    BY SizeAssumption DEF TypeOK, ReadableBytes
  <2> QED BY <1>3, <2>1
<1> QED BY <1>3, <1>4, <1>5 DEF Content

(* A step that keeps the readable bytes and moves the writer on adds behind *)
(* what was readable.                                                       *)
LEMMA KeptIsFront ==
  ASSUME TypeOK, TypeOK', NEW n \in Nat, ReadableBytes' = ReadableBytes + n,
         \A i \in 1 .. ReadableBytes :
           buffer'[readerIndex' + i] = buffer[readerIndex + i]
  PROVE  /\ Readable \in Seq(Byte) /\ Readable' \in Seq(Byte)
         /\ Len(Readable) = ReadableBytes
         /\ Len(Readable') = Len(Readable) + n
         /\ SubSeq(Readable', 1, Len(Readable)) = Readable
         /\ \A i \in 1 .. Len(Readable) : Readable'[i] = Readable[i]
         /\ \A i \in 1 .. n :
              Readable'[Len(Readable) + i]
                = buffer'[readerIndex' + ReadableBytes + i]
<1> DEFINE r == Readable
           k == ReadableBytes
<1>1. /\ r \in Seq(Byte) /\ Len(r) = k /\ k \in Nat
      /\ \A i \in 1 .. k : r[i] = buffer[readerIndex + i]
  BY ContentRead DEF Content
<1>2. Content'
  BY ContentRead, PTL
<1>3. /\ r' \in Seq(Byte) /\ Len(r') = k + n
      /\ \A i \in 1 .. k + n : r'[i] = buffer'[readerIndex' + i]
  BY <1>2 DEF Content
<1> HIDE DEF r, k
<1>4. /\ SubSeq(r', 1, k) \in Seq(Byte) /\ Len(SubSeq(r', 1, k)) = k
      /\ \A i \in 1 .. k : SubSeq(r', 1, k)[i] = r'[i]
  <2>1. \A i \in 1 .. k : r'[i] \in Byte
    BY <1>1, <1>3, ElementOfSeq
  <2>2. /\ SubSeq(r', 1, k) \in Seq(Byte)
        /\ Len(SubSeq(r', 1, k)) = IF 1 <= k THEN k - 1 + 1 ELSE 0
        /\ \A i \in 1 .. k - 1 + 1 : SubSeq(r', 1, k)[i] = r'[1 + i - 1]
    BY <1>1, <2>1, SubSeqProperties
  <2> QED BY <1>1, <2>2
<1>5. SubSeq(r', 1, k) = r
  BY <1>1, <1>3, <1>4, SeqEqual DEF k
<1>6. ASSUME NEW i \in 1 .. n
      PROVE  r'[k + i] = buffer'[readerIndex' + k + i]
  <2>1. k + i \in 1 .. k + n /\ readerIndex' + (k + i) = readerIndex' + k + i
    BY <1>1, SMTT(60) DEF TypeOK
  <2> QED BY <1>3, <2>1
<1>7. \A i \in 1 .. k : r'[i] = r[i]
  BY <1>1, <1>3 DEF k
<1> QED BY <1>1, <1>3, <1>5, <1>6, <1>7 DEF k, r

(* What is appended joins at the back.                                      *)
LEMMA AppendIsJoin ==
  ASSUME TypeOK, GrowthBounded, TypeOK', NEW data \in Seq(Byte), data \in Seq(Data),
         AppendAt(writerIndex, data), Passed(data, <<>>, <<>>)
  PROVE  Queue!Join
<1> DEFINE r == Readable
           k == Len(r)
<1>1. /\ writerIndex \in writerIndex .. Len(buffer) /\ History'
      /\ writerIndex - readerIndex = ReadableBytes
  BY DEF TypeOK, ReadableBytes, Passed, History
<1>2. /\ ReadableBytes' = ReadableBytes + Len(data)
      /\ \A i \in 1 .. ReadableBytes :
           buffer'[readerIndex' + i] = buffer[readerIndex + i]
      /\ \A i \in 1 .. Len(data) :
           buffer'[readerIndex' + ReadableBytes + i] = data[i]
  BY <1>1, AppendKeeps
<1>3. /\ r \in Seq(Byte) /\ r' \in Seq(Byte) /\ k = ReadableBytes
      /\ Len(r') = k + Len(data)
      /\ \A i \in 1 .. k : r'[i] = r[i]
      /\ \A i \in 1 .. Len(data) :
           r'[k + i] = buffer'[readerIndex' + ReadableBytes + i]
  BY <1>2, KeptIsFront
<1> HIDE DEF r
<1>4. \A i \in 1 .. Len(data) : r'[k + i] = data[i]
  BY <1>2, <1>3
<1>5. r' = r \o data
  <2>1. /\ r \o data \in Seq(Byte) /\ Len(r \o data) = k + Len(data)
        /\ \A i \in 1 .. k + Len(data) :
             (r \o data)[i] = IF i <= k THEN r[i] ELSE data[i - k]
    BY <1>3, ConcatProperties
  <2>2. ASSUME NEW i \in 1 .. k + Len(data) PROVE r'[i] = (r \o data)[i]
    <3>1. CASE i <= k
      BY <1>3, <2>1, <3>1
    <3>2. CASE ~(i <= k)
      <4>1. i - k \in 1 .. Len(data) /\ k + (i - k) = i
        BY <1>3, <3>2
      <4> QED BY <1>4, <2>1, <3>2, <4>1
    <3> QED BY <3>1, <3>2
  <2> QED BY <1>3, <2>1, <2>2, SeqEqual
<1>6. given' \o received' = data
  <2>1. given' = data /\ received' = <<>>
    BY DEF Passed
  <2> QED BY <2>1, ConcatEmptySeq
<1> QED BY <1>5, <1>6 DEF Queue!Join, Passed, r

(* retrieve drops a front of what is readable.                              *)
LEMMA AdvanceIsTake ==
  ASSUME TypeOK, TypeOK', NEW len \in Nat, Advance(len), UNCHANGED buffer
  PROVE  LET n == IF Overdrawn(len) THEN Len(Readable) ELSE len
         IN  /\ n \in 0 .. Len(Readable)
             /\ Readable' = SubSeq(Readable, n + 1, Len(Readable))
<1> DEFINE r == Readable
           k == ReadableBytes
           n == IF Overdrawn(len) THEN k ELSE len
<1>1. /\ r \in Seq(Byte) /\ Len(r) = k /\ k \in Nat
      /\ \A i \in 1 .. k : r[i] = buffer[readerIndex + i]
  BY ContentRead DEF Content
<1>2. Content'
  BY ContentRead, PTL
<1>3. n \in 0 .. k
  BY <1>1 DEF Overdrawn
<1>4. /\ ReadableBytes' = k - n
      /\ \A i \in 1 .. k - n : readerIndex' + i = readerIndex + (n + i)
  <2>1. CASE Overdrawn(len)
    BY <2>1, SizeAssumption DEF TypeOK, Advance, ReadableBytes
  <2>2. CASE ~Overdrawn(len)
    BY <2>2 DEF TypeOK, Advance, ReadableBytes
  <2> QED BY <2>1, <2>2
<1> HIDE DEF n, r, k
<1>5. /\ r' \in Seq(Byte) /\ Len(r') = k - n
      /\ \A i \in 1 .. k - n : r'[i] = buffer[readerIndex + (n + i)]
  BY <1>2, <1>4 DEF Content, r
<1>6. /\ SubSeq(r, n + 1, k) \in Seq(Byte)
      /\ Len(SubSeq(r, n + 1, k)) = k - n
      /\ \A i \in 1 .. k - n : SubSeq(r, n + 1, k)[i] = r[n + i]
  <2>1. \A i \in n + 1 .. k : r[i] \in Byte
    BY <1>1, <1>3, ElementOfSeq
  <2>2. /\ SubSeq(r, n + 1, k) \in Seq(Byte)
        /\ Len(SubSeq(r, n + 1, k)) = IF n + 1 <= k THEN k - (n + 1) + 1 ELSE 0
        /\ \A i \in 1 .. k - (n + 1) + 1 : SubSeq(r, n + 1, k)[i] = r[n + 1 + i - 1]
    BY <1>1, <1>3, <2>1, SubSeqProperties
  <2> QED BY <1>1, <1>3, <2>2, SMTT(60)
<1>7. ASSUME NEW i \in 1 .. k - n
      PROVE  r'[i] = SubSeq(r, n + 1, k)[i]
  <2>1. n + i \in 1 .. k
    BY <1>1, <1>3
  <2> QED BY <1>1, <1>5, <1>6, <2>1
<1>8. r' = SubSeq(r, n + 1, k)
  BY <1>5, <1>6, <1>7, SeqEqual
<1> QED BY <1>1, <1>3, <1>8 DEF n, r

(* What retrieveAsString and writeFd hand out is the front of the readable  *)
(* bytes.                                                                   *)
LEMMA FrontOfReadable ==
  ASSUME TypeOK, NEW n \in Nat, n <= ReadableBytes
  PROVE  SubSeq(buffer, readerIndex + 1, readerIndex + n) = SubSeq(Readable, 1, n)
<1> DEFINE r == Readable
           k == ReadableBytes
           f == SubSeq(buffer, readerIndex + 1, readerIndex + n)
           g == SubSeq(r, 1, n)
<1>1. /\ r \in Seq(Byte) /\ Len(r) = k /\ k \in Nat /\ n <= k
      /\ readerIndex \in Nat
      /\ \A i \in 1 .. k : r[i] = buffer[readerIndex + i]
  BY ContentRead, SizeAssumption DEF Content, TypeOK
<1> HIDE DEF r, k
<1>2. \A i \in 1 .. n : r[i] = buffer[readerIndex + i] /\ r[i] \in Byte
  BY <1>1, ElementOfSeq
<1>3. /\ g \in Seq(Byte) /\ Len(g) = IF 1 <= n THEN n - 1 + 1 ELSE 0
      /\ \A i \in 1 .. n - 1 + 1 : g[i] = r[1 + i - 1]
  BY <1>2, SubSeqProperties
<1>4. \A i \in readerIndex + 1 .. readerIndex + n : buffer[i] \in Byte
  <2>1. ASSUME NEW i \in readerIndex + 1 .. readerIndex + n
        PROVE  buffer[i] \in Byte
    <3>1. i - readerIndex \in 1 .. n /\ readerIndex + (i - readerIndex) = i
      BY <1>1
    <3> QED BY <1>2, <3>1
  <2> QED BY <2>1
<1>5. /\ f \in Seq(Byte)
      /\ Len(f) = IF readerIndex + 1 <= readerIndex + n
                  THEN readerIndex + n - (readerIndex + 1) + 1 ELSE 0
      /\ \A i \in 1 .. readerIndex + n - (readerIndex + 1) + 1 :
           f[i] = buffer[readerIndex + 1 + i - 1]
  BY <1>1, <1>4, SubSeqProperties
<1> HIDE DEF f, g
<1>6. Len(f) = n /\ Len(g) = n
  BY <1>1, <1>3, <1>5
<1>7. ASSUME NEW i \in 1 .. n PROVE f[i] = g[i]
  <2>1. /\ i \in 1 .. readerIndex + n - (readerIndex + 1) + 1
        /\ i \in 1 .. n - 1 + 1
        /\ readerIndex + 1 + i - 1 = readerIndex + i /\ 1 + i - 1 = i
    BY <1>1
  <2> QED BY <1>2, <1>3, <1>5, <2>1
<1>8. f = g
  BY <1>3, <1>5, <1>6, <1>7, SeqEqual
<1> QED BY <1>8 DEF f, g, r

LEMMA QueueInitially == Init => Queue!QInit
<1> SUFFICES ASSUME Init PROVE Queue!QInit
  OBVIOUS
<1>1. readerIndex + 1 \in Int /\ writerIndex \in Int /\ writerIndex < readerIndex + 1
  BY SizeAssumption DEF Init
<1>2. Readable = <<>>
  BY <1>1, SubSeqEmpty DEF Readable
<1>3. given \o received = <<>>
  BY DEF Init
<1> QED BY <1>2, <1>3 DEF Queue!QInit, Init

LEMMA QueueStep ==
  TypeOK /\ GrowthBounded /\ [Next]_bufferVars
    => [Queue!QNext \/ ReadFdKeepsFront]_(Queue!qvars)
<1> SUFFICES ASSUME TypeOK, GrowthBounded, [Next]_bufferVars
             PROVE  [Queue!QNext \/ ReadFdKeepsFront]_(Queue!qvars)
  OBVIOUS
<1>0. TypeOK'
  BY BufferStep
<1>1. CASE UNCHANGED bufferVars
  BY <1>1 DEF bufferVars, Queue!qvars, Readable
<1>2. ASSUME NEW len \in 1 .. MaxReadable, NEW data \in [1 .. len -> Data],
             Append_(data)
      PROVE  Queue!Join
  <2>1. data \in Seq(Byte) /\ data \in Seq(Data)
    BY DataAreBytes
  <2>2. AppendAt(writerIndex, data) /\ Passed(data, <<>>, <<>>)
    BY <1>2 DEF Append_
  <2> QED BY <1>0, <2>1, <2>2, AppendIsJoin
<1>3. ASSUME NEW len \in Nat, NEW result \in {SubSeq(Readable, 1, len), <<>>},
             Advance(len), UNCHANGED buffer, Passed(<<>>, <<>>, result),
             Overdrawn(len) => result = <<>>
      PROVE  \E n \in 0 .. Len(Readable) : Queue!Take(n)
  <2>1. given' \o received' = <<>> /\ out' = result
    <3>1. given' = <<>> /\ received' = <<>> /\ out' = result
      BY <1>3 DEF Passed
    <3> QED BY <3>1
  <2> QED BY <1>0, <1>3, <2>1, AdvanceIsTake DEF Queue!Take
<1>4. ASSUME NEW len \in 0 .. MaxReadable, Retrieve(len)
      PROVE  \E n \in 0 .. Len(Readable) : Queue!Take(n)
  <2>1. len \in Nat /\ Advance(len) /\ UNCHANGED buffer /\ Passed(<<>>, <<>>, <<>>)
    BY <1>4 DEF Retrieve
  <2> QED BY <1>3, <2>1
<1>5. ASSUME NEW len \in 0 .. MaxReadable, RetrieveAsString(len)
      PROVE  \E n \in 0 .. Len(Readable) : Queue!Take(n)
  <2>1. len \in Nat /\ len <= ReadableBytes
    BY <1>5 DEF RetrieveAsString
  <2>2. SubSeq(buffer, readerIndex + 1, readerIndex + len) = SubSeq(Readable, 1, len)
    BY <2>1, FrontOfReadable
  <2>3. /\ Advance(len) /\ UNCHANGED buffer
        /\ Passed(<<>>, <<>>, SubSeq(Readable, 1, len))
    BY <1>5, <2>2, Zenon DEF RetrieveAsString
  <2>4. ~Overdrawn(len)
    BY <2>1, ContentRead DEF Overdrawn, Content
  <2> QED BY <1>3, <2>1, <2>3, <2>4
<1>6. ASSUME NEW n \in 0 .. MaxReadable, WriteFd(n)
      PROVE  \E k \in 0 .. Len(Readable) : Queue!Look(k)
  <2>1. n \in Nat /\ n <= ReadableBytes
    BY <1>6 DEF WriteFd
  <2>2. SubSeq(buffer, readerIndex + 1, readerIndex + n) = SubSeq(Readable, 1, n)
    BY <2>1, FrontOfReadable
  <2>3. Passed(<<>>, <<>>, SubSeq(Readable, 1, n))
    BY <1>6, <2>2, Zenon DEF WriteFd
  <2>4. given' = <<>> /\ received' = <<>> /\ out' = SubSeq(Readable, 1, n)
    BY <2>3 DEF Passed
  <2>5. given' \o received' = <<>>
    BY <2>4
  <2>6. Readable' = Readable /\ n \in 0 .. Len(Readable)
    BY <1>6, ContentRead DEF WriteFd, indexVars, Readable, Content
  <2> QED BY <2>4, <2>5, <2>6 DEF Queue!Look
<1>7. CASE RetrieveAll
  <2>1. ReadableBytes \in Nat /\ Len(Readable) = ReadableBytes
        /\ Readable \in Seq(Byte)
    BY ContentRead DEF Content
  <2>2. Readable' = <<>>
    <3>1. /\ readerIndex' + 1 \in Int /\ writerIndex' \in Int
          /\ writerIndex' < readerIndex' + 1
      BY <1>7, SizeAssumption DEF RetrieveAll
    <3> QED BY <3>1, SubSeqEmpty DEF Readable
  <2>3. SubSeq(Readable, Len(Readable) + 1, Len(Readable)) = <<>>
    BY <2>1, SubSeqEmpty
  <2>4. given' = <<>> /\ received' = <<>> /\ out' = <<>>
    BY <1>7 DEF RetrieveAll, Passed
  <2>5. given' \o received' = <<>>
    BY <2>4
  <2>6. Queue!Take(Len(Readable))
    BY <2>2, <2>3, <2>4, <2>5 DEF Queue!Take
  <2> QED BY <2>1, <2>6 DEF Queue!QNext
<1>8. ASSUME NEW len \in 1 .. MaxReadable, NEW data \in [1 .. len -> Data],
             ReadFd(data)
      PROVE  ReadFdKeepsFront
  <2>1. data \in Seq(Data) /\ Len(data) = len /\ len \in Nat
    BY DataAreBytes
  <2>2. /\ Len(Readable') = Len(Readable) + len
        /\ SubSeq(Readable', 1, Len(Readable)) = Readable
    BY <1>0, <1>8, <2>1, ReadFdKeeps, KeptIsFront
  <2>3. received' = data /\ out' = <<>>
    BY <1>8 DEF ReadFd, Passed
  <2>4. data # <<>>
    BY <2>1
  <2> QED BY <2>1, <2>2, <2>3, <2>4 DEF ReadFdKeepsFront
<1> QED
  BY <1>1, <1>2, <1>4, <1>5, <1>6, <1>7, <1>8 DEF Next, Queue!QNext

(* The buffer is a queue of bytes: what is appended leaves in its order, no *)
(* operation loses, doubles or reorders what was readable, and what is      *)
(* handed out is its front (Buffer.h:39-80, 122-130).  Of readFd it says    *)
(* that it keeps what was readable and how many bytes it adds, not which    *)
(* (Buffer.h:101).                                                          *)
THEOREM BufferIsByteQueue == Spec => ByteQueueRefined
<1>1. Spec => [](TypeOK /\ GrowthBounded)
  BY BufferInvariant
<1> QED
  BY <1>1, QueueInitially, QueueStep, PTL DEF Spec, ByteQueueRefined
=============================================================================
