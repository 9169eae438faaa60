----------------------------- MODULE BitStream -----------------------------
(***************************************************************************)
(* RakNet's bit stream (BitStream.cpp), in which the program and the       *)
(* library write and read their packets.  Fields of any number of bits     *)
(* lie one behind the other; new memory is not cleared, and writing        *)
(* behind the middle of a byte only sets bits.                             *)
(***************************************************************************)
EXTENDS Integers, Sequences, SequencesExt

CONSTANTS
  ByteBits,    \* 8
  StackBytes,  \* BITSTREAM_STACK_ALLOCATION_SIZE
  Widths,      \* bound: lengths of fields of bits
  MaxBytes,    \* bound: bytes in a field of bytes
  MaxFields    \* bound: fields written in a behaviour

BitAssumption == ByteBits % 2 = 0 /\ Widths \subseteq Nat \ {0}

VARIABLES
  stream,  \* data, numberOfBitsUsed, numberOfBitsAllocated, readOffset, and
           \* whether data is stackData
  fresh,   \* what new memory holds
  kinds,   \* kind and length of each field that was written and not read
  input,   \* what was written last
  output,  \* what was read last
  fields,  \* fields written so far
  arrived  \* the stream was sent, and is that of the receiver

vars == <<stream, fresh, kinds, input, output, fields, arrived>>

HalfByte == ByteBits \div 2
Bits(bytes) == bytes * ByteBits
\* BITS_TO_BYTES
Bytes(bits) == (bits + ByteBits - 1) \div ByteBits
Zeros(n) == [i \in 1..n |-> 0]
Memory(bytes) == [i \in 0..(Bits(bytes) - 1) |-> fresh]

\* The values of n bits that are tried, as sequences with the first bit first.
Samples(n) ==
  {Zeros(n), [i \in 1..n |-> 1], [i \in 1..n |-> i % 2]}

Init ==
  /\ fresh \in {0, 1}
  /\ stream = [data |-> Memory(StackBytes), numberOfBitsUsed |-> 0,
               numberOfBitsAllocated |-> Bits(StackBytes), readOffset |-> 0, onStack |-> TRUE]
  /\ kinds = <<>> /\ input = <<>> /\ output = <<>> /\ fields = 0 /\ arrived = FALSE

-----------------------------------------------------------------------------
(* Writing, from a stream to a stream *)

\* Memory is not moved while the new size fits what a stream has anyway.
AddBitsAndReallocate(s, n) ==
  LET total == n + s.numberOfBitsUsed
      more == n > 0 /\ (s.numberOfBitsAllocated - 1) \div ByteBits < (total - 1) \div ByteBits
      moved == more /\ (s.onStack => Bytes(2 * total) > StackBytes)
      wanted == IF more THEN 2 * total ELSE total
  IN [s EXCEPT
       !.data = IF moved THEN [i \in 0..(Bits(Bytes(wanted)) - 1) |->
                                 IF i \in DOMAIN @ THEN @[i] ELSE fresh] ELSE @,
       !.onStack = @ /\ ~moved,
       !.numberOfBitsAllocated = IF n > 0 /\ wanted > @ THEN wanted ELSE @]

\* Byte k of a value, its bits on the left.
InputByte(v, k) ==
  [j \in 0..(ByteBits - 1) |-> IF Bits(k) + j < Len(v) THEN v[Bits(k) + j + 1] ELSE 0]

\* Slip: the second half is added to what lies there.
PutByteOver(data, used, byte, left) ==
  LET mod == used % ByteBits
      second == mod > 0 /\ ByteBits - mod < left
  IN [i \in DOMAIN data |->
        IF mod = 0 THEN (IF i - used \in DOMAIN byte THEN byte[i - used] ELSE data[i])
        ELSE IF i - used \in DOMAIN byte /\ (second \/ i - used < ByteBits - mod)
             THEN (IF byte[i - used] = 1 THEN 1 ELSE data[i])
        ELSE data[i]]

\* A byte at the end of the stream, of whose value left bits are left: a new
\* byte is set, what is in the middle of one is added to it, and the rest goes
\* to the next byte, which is set.
PutByte(data, used, byte, left) ==
  LET mod == used % ByteBits
      room == ByteBits - mod
  IN [i \in DOMAIN data |->
        LET j == i - used IN
        IF mod = 0 THEN (IF j \in DOMAIN byte THEN byte[j] ELSE data[i])
        ELSE IF j \in 0..(room - 1) THEN (IF byte[j] = 1 THEN 1 ELSE data[i])
        ELSE IF room < left /\ j \in room..(room + ByteBits - 1)
             THEN (IF j \in DOMAIN byte THEN byte[j] ELSE 0)
        ELSE data[i]]

WriteBits(s, v) ==
  LET written[k \in 0..Bytes(Len(v))] ==
        IF k = 0 THEN AddBitsAndReallocate(s, Len(v))
        ELSE LET t == written[k - 1]
                 left == Len(v) - Bits(k - 1)
             IN [t EXCEPT !.data = PutByte(@, t.numberOfBitsUsed, InputByte(v, k - 1), left),
                          !.numberOfBitsUsed = @ + (IF left < ByteBits THEN left ELSE ByteBits)]
  IN written[Bytes(Len(v))]

\* Write0 and Write1, and each bit of another stream: a new byte is set, in
\* one that exists only a 1 is.
WriteBit(s, b) ==
  LET t == AddBitsAndReallocate(s, 1)
      u == t.numberOfBitsUsed
  IN [t EXCEPT !.data = [i \in DOMAIN @ |->
                  IF u % ByteBits = 0 /\ i - u \in 0..(ByteBits - 1)
                  THEN (IF i = u THEN b ELSE 0)
                  ELSE IF i = u /\ b = 1 THEN 1 ELSE @[i]],
               !.numberOfBitsUsed = @ + 1]

WriteStream(s, v) ==
  LET written[k \in 0..Len(v)] ==
        IF k = 0 THEN AddBitsAndReallocate(s, Len(v)) ELSE WriteBit(written[k - 1], v[k])
  IN written[Len(v)]

\* Whole bytes at the beginning of a byte are copied.
WriteBytes(s, v) ==
  IF s.numberOfBitsUsed % ByteBits # 0 THEN WriteBits(s, v)
  ELSE LET t == AddBitsAndReallocate(s, Len(v)) u == t.numberOfBitsUsed IN
    [t EXCEPT !.data = [i \in DOMAIN @ |-> IF i - u \in 0..(Len(v) - 1) THEN v[i - u + 1] ELSE @[i]],
              !.numberOfBitsUsed = @ + Len(v)]

Aligned(offset) == Bits(Bytes(offset))
AlignWriteToByteBoundary(s) == [s EXCEPT !.numberOfBitsUsed = Aligned(@)]

\* A value of two bytes, of which the stream has the low one first.  A byte
\* that says nothing but the sign is a bit, half a byte likewise; the first
\* that says more comes with all below it.
WriteCompressed(s, v, match) ==
  LET high == SubSeq(v, 1, ByteBits)
      low == SubSeq(v, ByteBits + 1, 2 * ByteBits)
      same(part) == \A i \in DOMAIN part : part[i] = match
      t == WriteBit(s, 1)
  IN IF ~same(high) THEN WriteBits(WriteBit(s, 0), low \o high)
     ELSE IF same(SubSeq(low, 1, HalfByte))
     THEN WriteBits(WriteBit(t, 1), SubSeq(low, HalfByte + 1, ByteBits))
     ELSE WriteBits(WriteBit(t, 0), low)

\* WriteDelta: nothing but a bit for a value that is the last one.
WriteDelta(s, v) == IF v = <<>> THEN WriteBit(s, 0) ELSE WriteBits(WriteBit(s, 1), v)

\* DataCompressor::Compress leaves room for the number of bits that follow,
\* and goes back for it.
AsByte(n) == [i \in 1..ByteBits |-> (n \div 2^(ByteBits - i)) % 2]
WriteCounted(s, v) ==
  LET offset1 == Aligned(s.numberOfBitsUsed)
      dummy == WriteBits(AlignWriteToByteBoundary(s), Zeros(ByteBits))
      encoded == WriteStream(dummy, v)
      offset2 == encoded.numberOfBitsUsed
      patched == WriteBits([encoded EXCEPT !.numberOfBitsUsed = offset1],
                           AsByte(offset2 - dummy.numberOfBitsUsed))
  IN [patched EXCEPT !.numberOfBitsUsed = offset2]

Written(s, kind, v) ==
  CASE kind = "bits" -> WriteBits(s, v)
    [] kind = "stream" -> WriteStream(s, v)
    [] kind = "bytes" -> WriteBytes(s, v)
    [] kind = "aligned" -> WriteBytes(AlignWriteToByteBoundary(s), v)
    [] kind = "unsigned" -> WriteCompressed(s, v, 0)
    [] kind = "signed" -> WriteCompressed(s, v, 1)
    [] kind = "delta" -> WriteDelta(s, v)
    [] kind = "counted" -> WriteCounted(s, v)

-----------------------------------------------------------------------------
(* Reading, from an offset: the value and the offset behind it *)

\* Bit j of a byte that is put together of two, of which left bits are left.
BitAt(s, offset, left, j) ==
  LET mod == offset % ByteBits IN
  IF mod + j < ByteBits \/ left > ByteBits - mod THEN s.data[offset + j] ELSE 0

ReadBits(s, offset, n) ==
  [value |-> [i \in 1..n |-> LET k == (i - 1) \div ByteBits IN
                BitAt(s, offset + Bits(k), n - Bits(k), (i - 1) % ByteBits)],
   next |-> offset + n]

ReadCompressed(s, offset, match) ==
  LET matches(n) == [i \in 1..n |-> match]
      first == s.data[offset]
      all == ReadBits(s, offset + 1, 2 * ByteBits)
      half == ReadBits(s, offset + 2, HalfByte)
      low == ReadBits(s, offset + 2, ByteBits)
  IN IF first = 0
     THEN [all EXCEPT !.value = SubSeq(@, ByteBits + 1, 2 * ByteBits) \o SubSeq(@, 1, ByteBits)]
     ELSE IF s.data[offset + 1] = 1
     THEN [half EXCEPT !.value = matches(ByteBits + HalfByte) \o @]
     ELSE [low EXCEPT !.value = matches(ByteBits) \o @]

Number(v) == FoldLeft(LAMBDA n, b : 2 * n + b, 0, v)

ReadField(s, offset, kind, n) ==
  CASE kind \in {"bits", "stream", "bytes"} -> ReadBits(s, offset, n)
    [] kind = "aligned" -> ReadBits(s, Aligned(offset), n)
    [] kind = "unsigned" -> ReadCompressed(s, offset, 0)
    [] kind = "signed" -> ReadCompressed(s, offset, 1)
    [] kind = "delta" -> IF s.data[offset] = 0 THEN [value |-> <<>>, next |-> offset + 1]
                         ELSE ReadBits(s, offset + 1, ByteBits)
    [] kind = "counted" ->
         LET count == ReadBits(s, Aligned(offset), ByteBits)
         IN ReadBits(s, count.next, Number(count.value))

-----------------------------------------------------------------------------

\* The fields that can be written.
Fields ==
  UNION {[kind : {"bits", "stream", "counted"}, value : Samples(n)] : n \in Widths}
  \cup UNION {[kind : {"bytes", "aligned"}, value : Samples(Bits(n))] : n \in 1..MaxBytes}
  \cup [kind : {"unsigned", "signed"}, value :
          Samples(2 * ByteBits) \cup {Zeros(ByteBits) \o v : v \in Samples(ByteBits)}
                                \cup {[i \in 1..ByteBits |-> 1] \o v : v \in Samples(ByteBits)}]
  \cup [kind : {"delta"}, value : {<<>>} \cup Samples(ByteBits)]

Write(f) ==
  /\ fields < MaxFields /\ ~arrived
  /\ kinds' = Append(kinds, [kind |-> f.kind, length |-> Len(f.value)])
  /\ stream' = Written(stream, f.kind, f.value)
  /\ input' = f.value
  /\ fields' = fields + 1
  /\ UNCHANGED <<fresh, output, arrived>>

Read ==
  /\ kinds # <<>>
  /\ LET field == ReadField(stream, stream.readOffset, Head(kinds).kind, Head(kinds).length) IN
       /\ output' = field.value
       /\ stream' = [stream EXCEPT !.readOffset = field.next]
  /\ kinds' = Tail(kinds)
  /\ UNCHANGED <<fresh, input, fields, arrived>>

\* What was written stays in memory.
Reset ==
  /\ fields < MaxFields /\ ~arrived
  /\ stream' = [stream EXCEPT !.numberOfBitsUsed = 0, !.readOffset = 0]
  /\ kinds' = <<>>
  /\ UNCHANGED <<fresh, input, output, fields, arrived>>

\* The receiver makes a stream of the bytes; nothing was read before.
Arrive ==
  /\ ~arrived /\ arrived' = TRUE
  /\ stream.numberOfBitsUsed > 0 /\ stream.readOffset = 0
  /\ LET length == Bytes(stream.numberOfBitsUsed)
         small == length < StackBytes
         memory == Memory(IF small THEN StackBytes ELSE length)
     IN stream' = [data |-> [i \in DOMAIN memory |->
                               IF i < Bits(length) THEN stream.data[i] ELSE memory[i]],
                   numberOfBitsUsed |-> Bits(length),
                   numberOfBitsAllocated |-> Bits(IF small THEN StackBytes ELSE length),
                   readOffset |-> 0, onStack |-> small]
  /\ UNCHANGED <<fresh, kinds, input, output, fields>>

Next == (\E f \in Fields : Write(f)) \/ Read \/ Reset \/ Arrive

Spec == Init /\ [][Next]_vars

-----------------------------------------------------------------------------
(* Properties *)

\* The values that the fields not read yet would have if they were.
Unread(s, ks) ==
  LET offset[k \in 0..Len(ks)] ==
        IF k = 0 THEN s.readOffset
        ELSE ReadField(s, offset[k - 1], ks[k].kind, ks[k].length).next
  IN [k \in 1..Len(ks) |-> ReadField(s, offset[k - 1], ks[k].kind, ks[k].length).value]

\* Whatever memory held before, wherever a field begins and whatever lies
\* before it, reads give the fields as they were written, on either side, and
\* no write goes behind the memory there is or disturbs an earlier field.
FieldsKept ==
  LET before == Unread(stream, kinds) after == Unread(stream', kinds') IN
  /\ \A i \in 0..(stream'.numberOfBitsUsed - 1) : i \in DOMAIN stream'.data
  /\ stream'.readOffset <= stream'.numberOfBitsUsed
  /\ fields' > fields => after = Append(before, input')
  /\ Read => output' = Head(before) /\ after = Tail(before)
  /\ Arrive => after = before
ReadsWhatWasWritten == [][FieldsKept]_vars
=============================================================================
