----------------------------- MODULE HashProofs -----------------------------
(***************************************************************************)
(* A digest is that of the standard, whatever the size of a block and of a *)
(* word, however the message is cut into pieces and whatever memory held   *)
(* before.                                                                 *)
(*                                                                         *)
(* Between the calls what was compressed are whole blocks, and with the    *)
(* beginning of the buffer it is the message (Buffered).  A piece either   *)
(* goes behind what the buffer has, or fills it up: then the block and all *)
(* whole blocks of the piece follow what was compressed, and its rest      *)
(* starts the buffer anew.  At the end the last block or two are the       *)
(* buffer, the mark, as many zeros as make the blocks whole, and the       *)
(* length; the rest is arithmetic about the number of the zeros.           *)
(***************************************************************************)
EXTENDS Sha256Stream, TLAPS, SequenceTheorems

\* Division with rest.
LEMMA DivIs ==
  ASSUME NEW B \in Nat \ {0}, NEW n \in Nat
  PROVE  /\ n \div B \in Nat /\ (n \div B) * B \in Nat
         /\ (n \div B) * B <= n /\ n < (n \div B) * B + B
<1>1. n \div B \in Int /\ n % B \in 0..(B - 1) /\ n = B * (n \div B) + (n % B)
  OBVIOUS
<1> QED  BY <1>1

\* The rest of what is behind so many whole blocks.
LEMMA ModIs ==
  ASSUME NEW B \in Nat \ {0}, NEW k \in Nat, NEW r \in 0..(B - 1)
  PROVE  (k * B + r) % B = r
<1>1. PICK x \in Nat : x = k * B + r
  OBVIOUS
<1>2. x \div B \in Int /\ x % B \in 0..(B - 1) /\ x = B * (x \div B) + (x % B)
  OBVIOUS
<1>3. PICK d \in Int, m \in 0..(B - 1) : d = x \div B /\ m = x % B
  BY <1>2
<1>4. B * d + m = k * B + r
  BY <1>1, <1>2, <1>3
<1>5. B * (d - k) = r - m
  BY <1>4
<1>6. d - k = 0
  <2>1. d - k >= 1 => B * (d - k) >= B
    BY Z3
  <2>2. d - k <= -1 => B * (d - k) <= -B
    BY Z3
  <2> QED  BY <2>1, <2>2, <1>5
<1> QED  BY <1>1, <1>3, <1>4, <1>6

\* A word holds what is below its range.
LEMMA WordHolds ==
  ASSUME NEW n \in Nat, NEW w \in Nat, n < w
  PROVE  n % w = n
OBVIOUS

\* Parentheses between three sequences do not matter.
LEMMA RegroupIn ==
  ASSUME NEW S
  PROVE  \A s, t, u \in Seq(S) : (s \o t) \o u = s \o (t \o u)
BY ConcatAssociative

LEMMA Regroup ==
  ASSUME NEW s \in Seq(Nat), NEW t \in Seq(Nat), NEW u \in Seq(Nat)
  PROVE  (s \o t) \o u = s \o (t \o u)
BY ConcatAssociative

LEMMA Joined ==
  ASSUME NEW S, NEW s \in Seq(S), NEW t \in Seq(S)
  PROVE  /\ s \o t \in Seq(S) /\ Len(s \o t) = Len(s) + Len(t)
         /\ \A i \in 1..(Len(s) + Len(t)) :
              (s \o t)[i] = IF i <= Len(s) THEN s[i] ELSE t[i - Len(s)]
BY ConcatProperties

\* The two parts of a sequence that is cut.
LEMMA Cut ==
  ASSUME NEW s \in Seq(Nat), NEW k \in 0..Len(s)
  PROVE  /\ SubSeq(s, 1, k) \in Seq(Nat) /\ Len(SubSeq(s, 1, k)) = k
         /\ SubSeq(s, k + 1, Len(s)) \in Seq(Nat) /\ Len(SubSeq(s, k + 1, Len(s))) = Len(s) - k
         /\ SubSeq(s, 1, k) \o SubSeq(s, k + 1, Len(s)) = s
<1>0. Len(s) \in Nat /\ \A i \in 1..Len(s) : s[i] \in Nat
  OBVIOUS
<1>1. SubSeq(s, 1, k) \in Seq(Nat) /\ Len(SubSeq(s, 1, k)) = k
  <2>1. \A i \in 1..k : s[i] \in Nat
    BY <1>0
  <2> QED  BY <2>1, <1>0, SubSeqProperties
<1>2. SubSeq(s, k + 1, Len(s)) \in Seq(Nat) /\ Len(SubSeq(s, k + 1, Len(s))) = Len(s) - k
  <2>1. \A i \in (k + 1)..Len(s) : s[i] \in Nat
    BY <1>0
  <2> QED  BY <2>1, <1>0, SubSeqProperties
<1>3. SubSeq(s, 1, k) \o SubSeq(s, k + 1, Len(s)) = SubSeq(s, 1, Len(s))
  <2>1. /\ 1 \in 1..(Len(s) + 1) /\ k \in (1 - 1)..Len(s) /\ Len(s) \in k..Len(s)
    BY <1>0
  <2> QED  BY <2>1, ConcatAdjacentSubSeq
<1>4. SubSeq(s, 1, Len(s)) = s
  BY SubSeqFull
<1> QED  BY <1>1, <1>2, <1>3, <1>4

Blocks == [1..2 * BlockSize -> Nat]

\* The first bytes of the buffer.
LEMMA FirstBytes ==
  ASSUME BlockAssumption, NEW S, NEW block \in [1..2 * BlockSize -> S], NEW n \in 0..2 * BlockSize
  PROVE  /\ SubSeq(block, 1, n) \in Seq(S) /\ Len(SubSeq(block, 1, n)) = n
         /\ \A i \in 1..n : SubSeq(block, 1, n)[i] = block[i]
<1>1. BlockSize \in Nat
  BY DEF BlockAssumption
<1>2. \A i \in 1..n : block[i] \in S
  BY <1>1
<1>3. n \in Int /\ n - 1 + 1 = n /\ \A i \in 1..n : 1 + i - 1 = i
  BY <1>1
<1>4. /\ SubSeq(block, 1, n) \in Seq(S)
      /\ Len(SubSeq(block, 1, n)) = IF 1 <= n THEN n - 1 + 1 ELSE 0
      /\ \A i \in 1..(n - 1 + 1) : SubSeq(block, 1, n)[i] = block[1 + i - 1]
  BY <1>2, <1>3, SubSeqProperties
<1> QED  BY <1>1, <1>3, <1>4

\* What memcpy leaves in the buffer, up to the end of what it copied.
LEMMA CopiedIs ==
  ASSUME BlockAssumption, NEW block \in Blocks, NEW bytes \in Seq(Nat), NEW start \in Nat,
         start + Len(bytes) <= 2 * BlockSize
  PROVE  /\ Copied(block, start, bytes) \in Blocks
         /\ SubSeq(Copied(block, start, bytes), 1, start + Len(bytes))
              = SubSeq(block, 1, start) \o bytes
<1>0. BlockSize \in Nat /\ Len(bytes) \in Nat
  BY DEF BlockAssumption
<1>1. PICK c : c = Copied(block, start, bytes)
  OBVIOUS
<1>2. /\ c \in Blocks
      /\ \A i \in 1..2 * BlockSize :
           c[i] = IF i \in start + 1..start + Len(bytes) THEN bytes[i - start] ELSE block[i]
  <2>1. ASSUME NEW i \in 1..2 * BlockSize
        PROVE  (IF i \in start + 1..start + Len(bytes) THEN bytes[i - start] ELSE block[i]) \in Nat
    <3>1. CASE i \in start + 1..start + Len(bytes)
      <4>1. i - start \in 1..Len(bytes)
        BY <3>1, <1>0
      <4> QED  BY <3>1, <4>1
    <3>2. CASE i \notin start + 1..start + Len(bytes)
      BY <3>2 DEF Blocks
    <3> QED  BY <3>1, <3>2
  <2> QED  BY <2>1, <1>1 DEF Copied, Blocks
<1>3. PICK x, y : x = SubSeq(c, 1, start + Len(bytes)) /\ y = SubSeq(block, 1, start)
  OBVIOUS
<1>4. /\ x \in Seq(Nat) /\ Len(x) = start + Len(bytes)
      /\ \A i \in 1..(start + Len(bytes)) : x[i] = c[i]
  BY <1>0, <1>2, <1>3, FirstBytes DEF Blocks
<1>5. y \in Seq(Nat) /\ Len(y) = start /\ \A i \in 1..start : y[i] = block[i]
  BY <1>0, <1>3, FirstBytes DEF Blocks
<1>6. /\ y \o bytes \in Seq(Nat) /\ Len(y \o bytes) = Len(y) + Len(bytes)
      /\ \A i \in 1..(Len(y) + Len(bytes)) :
           (y \o bytes)[i] = IF i <= Len(y) THEN y[i] ELSE bytes[i - Len(y)]
  BY <1>5, ConcatProperties
<1>7. ASSUME NEW i \in 1..(start + Len(bytes)) PROVE x[i] = (y \o bytes)[i]
  <2>1. i \in 1..2 * BlockSize
    BY <1>0
  <2>2. CASE i <= start
    <3>1. i \in 1..start /\ i \notin start + 1..start + Len(bytes)
      BY <2>2, <1>0
    <3> QED  BY <3>1, <2>1, <2>2, <1>2, <1>4, <1>5, <1>6
  <2>3. CASE ~(i <= start)
    <3>1. i \in start + 1..start + Len(bytes)
      BY <2>3, <1>0
    <3> QED  BY <3>1, <2>1, <2>3, <1>2, <1>4, <1>5, <1>6
  <2> QED  BY <2>2, <2>3
<1>8. x = y \o bytes
  BY <1>4, <1>5, <1>6, <1>7, SeqEqual
<1> QED  BY <1>1, <1>2, <1>3, <1>8

-----------------------------------------------------------------------------
(* update *)

\* Until it is asked for the digest: what was compressed are whole blocks, and
\* with what is in the buffer it is the message.
Buffered ==
  /\ fed \in Seq(Nat) /\ Len(fed) <= MaxLength
  /\ m_block \in Blocks /\ m_len \in 0..(BlockSize - 1)
  /\ m_h \in Seq(Nat) /\ m_tot_len = Len(m_h)
  /\ \E k \in Nat : Len(m_h) = k * BlockSize
  /\ m_h \o Buffer(m_len) = fed

StreamInv == digest = <<>> => Buffered

\* A block has room for at least a byte and the length of the message.
LEMMA BlockFacts ==
  ASSUME BlockAssumption
  PROVE  /\ BlockSize \in Nat \ {0} /\ WordBytes \in Nat \ {0} /\ MaxLength \in Nat
         /\ BlockSize > 2 * WordBytes + 1
BY DEF BlockAssumption

\* A piece is a sequence of n bytes.
LEMMA PieceIs ==
  ASSUME NEW from \in Nat, NEW n \in Nat
  PROVE  Piece(from, n) \in Seq(Nat) /\ Len(Piece(from, n)) = n
<1>1. \A i \in 1..n : from + i \in Nat
  OBVIOUS
<1> QED  BY <1>1 DEF Piece

\* The message and what is fed to it are as long as they are together.
LEMMA BufferedLen ==
  ASSUME BlockAssumption, Buffered
  PROVE  /\ Buffer(m_len) \in Seq(Nat) /\ Len(Buffer(m_len)) = m_len
         /\ Len(m_h) \in Nat /\ Len(fed) = Len(m_h) + m_len
<1>1. Buffer(m_len) \in Seq(Nat) /\ Len(Buffer(m_len)) = m_len
  <2>1. m_len \in 0..2 * BlockSize
    BY BlockFacts DEF Buffered
  <2> QED  BY <2>1, FirstBytes DEF Buffered, Blocks, Buffer
<1>2. Len(m_h \o Buffer(m_len)) = Len(m_h) + Len(Buffer(m_len))
  BY <1>1, ConcatProperties DEF Buffered
<1> QED  BY <1>1, <1>2 DEF Buffered

\* A piece that fits goes behind what is in the buffer.
LEMMA FitsKeeps ==
  ASSUME BlockAssumption, Buffered, NEW message \in Seq(Nat), Fits(Len(message)),
         Update(message)
  PROVE  Buffered'
<1>0. BlockSize \in Nat /\ Len(message) \in Nat /\ m_len \in Nat /\ m_len + Len(message) < BlockSize
  BY BlockFacts DEF Buffered, Fits
<1>1. /\ fed' = fed \o message /\ Len(fed) + Len(message) <= MaxLength
      /\ m_block' = Copied(m_block, m_len, message)
      /\ m_len' = m_len + Len(message)
      /\ m_h' = m_h /\ m_tot_len' = m_tot_len
  BY DEF Update
<1>2. /\ Copied(m_block, m_len, message) \in Blocks
      /\ SubSeq(Copied(m_block, m_len, message), 1, m_len + Len(message))
           = SubSeq(m_block, 1, m_len) \o message
  <2>1. m_len + Len(message) <= 2 * BlockSize
    BY <1>0
  <2> QED  BY <2>1, <1>0, CopiedIs DEF Buffered
<1>3. fed \o message \in Seq(Nat) /\ Len(fed \o message) = Len(fed) + Len(message)
  BY ConcatProperties DEF Buffered
<1>4. Buffer(m_len)' = Buffer(m_len) \o message
  BY <1>1, <1>2 DEF Buffer
<1>5. (m_h \o Buffer(m_len)) \o message = m_h \o (Buffer(m_len) \o message)
  <2>1. m_h \in Seq(Nat) /\ Buffer(m_len) \in Seq(Nat)
    BY BufferedLen DEF Buffered
  <2> QED  BY <2>1, Regroup, Zenon
<1>6. m_h' \o Buffer(m_len)' = fed'
  BY <1>1, <1>4, <1>5 DEF Buffered
<1>7. m_len' \in 0..(BlockSize - 1)
  BY <1>0, <1>1
<1>8. fed' \in Seq(Nat) /\ Len(fed') <= MaxLength
  BY <1>1, <1>3
<1>9. m_block' \in Blocks
  BY <1>1, <1>2
<1>10. m_h' \in Seq(Nat) /\ m_tot_len' = Len(m_h') /\ \E k \in Nat : Len(m_h') = k * BlockSize
  BY <1>1 DEF Buffered
<1> QED  BY <1>6, <1>7, <1>8, <1>9, <1>10 DEF Buffered, Blocks

\* One that does not fills the block; the whole blocks behind it are compressed
\* with it, and the rest is kept.
LEMMA OverflowKeeps ==
  ASSUME BlockAssumption, LengthAssumption, Buffered, NEW message \in Seq(Nat),
         ~Fits(Len(message)), Update(message)
  PROVE  Buffered'
<1>0. /\ BlockSize \in Nat \ {0} /\ Len(message) \in Nat /\ m_len \in 0..(BlockSize - 1)
      /\ m_len + Len(message) >= BlockSize
  BY BlockFacts DEF Buffered, Fits
<1>1. PICK room : room = BlockSize - m_len
  OBVIOUS
<1>2. room \in 0..Len(message) /\ room \in Nat
  BY <1>0, <1>1
<1>3. PICK head, tail : /\ head = SubSeq(message, 1, room)
                        /\ tail = SubSeq(message, room + 1, Len(message))
  OBVIOUS
<1>4. /\ head \in Seq(Nat) /\ Len(head) = room
      /\ tail \in Seq(Nat) /\ Len(tail) = Len(message) - room
      /\ head \o tail = message
  BY <1>2, <1>3, Cut
<1>5. PICK nb : nb = Len(tail) \div BlockSize
  OBVIOUS
<1>6. PICK size : size = nb * BlockSize
  OBVIOUS
<1>7. nb \in Nat /\ size \in 0..Len(tail) /\ size \in Nat /\ Len(tail) < size + BlockSize
  <2>1. PICK l : l = Len(tail)
    OBVIOUS
  <2>2. l \in Nat /\ nb = l \div BlockSize
    BY <2>1, <1>2, <1>4, <1>5
  <2>3. nb \in Nat /\ nb * BlockSize \in Nat /\ nb * BlockSize <= l /\ l < nb * BlockSize + BlockSize
    BY <2>2, <1>0, DivIs
  <2>4. size \in 0..l /\ size \in Nat /\ l < size + BlockSize
    BY <2>2, <2>3, <1>6
  <2> QED  BY <2>1, <2>3, <2>4
<1>8. PICK whole, rest : /\ whole = SubSeq(tail, 1, size)
                         /\ rest = SubSeq(tail, size + 1, Len(tail))
  OBVIOUS
<1>9. /\ whole \in Seq(Nat) /\ Len(whole) = size
      /\ rest \in Seq(Nat) /\ Len(rest) = Len(tail) - size
      /\ whole \o rest = tail
  BY <1>4, <1>7, <1>8, Cut
<1>10. /\ fed' = fed \o message /\ Len(fed) + Len(message) <= MaxLength
       /\ m_h' = ((m_h \o Buffer(m_len)) \o head) \o whole
       /\ m_block' = Copied(m_block, 0, rest)
       /\ m_len' = Len(rest)
       /\ m_tot_len' = (m_tot_len + (nb + 1) * BlockSize) % WordRange
  BY <1>1, <1>3, <1>5, <1>6, <1>8, <1>9 DEF Update, Compress, Restart
<1>11. fed \in Seq(Nat) /\ m_h \in Seq(Nat) /\ m_h \o Buffer(m_len) = fed /\ m_block \in Blocks
  BY DEF Buffered
<1>12. /\ fed \o message \in Seq(Nat) /\ Len(fed \o message) = Len(fed) + Len(message)
       /\ fed \o head \in Seq(Nat) /\ Len(fed \o head) = Len(fed) + Len(head)
       /\ Len(fed) \in Nat
  <2>1. fed \in Seq(Nat) /\ message \in Seq(Nat) /\ head \in Seq(Nat)
    BY <1>4, <1>11
  <2>2. fed \o message \in Seq(Nat) /\ Len(fed \o message) = Len(fed) + Len(message)
    BY <2>1, Joined, Zenon
  <2>3. fed \o head \in Seq(Nat) /\ Len(fed \o head) = Len(fed) + Len(head)
    BY <2>1, Joined, Zenon
  <2>4. Len(fed) \in Nat
    BY <2>1
  <2> QED  BY <2>2, <2>3, <2>4
<1>13. (fed \o head) \o whole \in Seq(Nat) /\ Len((fed \o head) \o whole) = Len(fed \o head) + Len(whole)
  BY <1>9, <1>12, ConcatProperties
<1>14. m_h' = (fed \o head) \o whole
  BY <1>10, <1>11
<1>15. m_h' \in Seq(Nat) /\ Len(m_h') = Len(fed) + room + size
  BY <1>4, <1>9, <1>12, <1>13, <1>14
<1>16. /\ m_block' \in Blocks
       /\ SubSeq(m_block', 1, Len(rest)) = rest
  <2>1. /\ Len(rest) \in Nat /\ 0 + Len(rest) = Len(rest) /\ 0 + Len(rest) <= 2 * BlockSize
    BY <1>0, <1>7, <1>9
  <2>2. /\ Copied(m_block, 0, rest) \in Blocks
        /\ SubSeq(Copied(m_block, 0, rest), 1, 0 + Len(rest)) = SubSeq(m_block, 1, 0) \o rest
    BY <2>1, <1>9, <1>11, CopiedIs
  <2>3. SubSeq(m_block, 1, 0) = <<>>
    BY SubSeqEmpty
  <2>4. <<>> \o rest = rest
    BY <1>9, ConcatEmptySeq
  <2> QED  BY <2>1, <2>2, <2>3, <2>4, <1>10
<1>17. m_h' \o Buffer(m_len)' = fed'
  <2>1. Buffer(m_len)' = rest
    BY <1>10, <1>16 DEF Buffer
  <2>2. ((fed \o head) \o whole) \o rest = (fed \o head) \o (whole \o rest)
    <3>1. whole \in Seq(Nat) /\ rest \in Seq(Nat) /\ fed \o head \in Seq(Nat)
      BY <1>9, <1>12
    <3> QED  BY <3>1, Regroup, Zenon
  <2>3. (fed \o head) \o tail = fed \o (head \o tail)
    <3>1. fed \in Seq(Nat) /\ head \in Seq(Nat) /\ tail \in Seq(Nat)
      BY <1>4, <1>11
    <3> QED  BY <3>1, Regroup, Zenon
  <2> QED  BY <2>1, <2>2, <2>3, <1>4, <1>9, <1>10, <1>14
<1>18. \E k \in Nat : Len(m_h') = k * BlockSize
  <2>1. PICK k \in Nat : Len(m_h) = k * BlockSize
    BY DEF Buffered
  <2>2. Len(fed) = Len(m_h) + m_len
    BY BufferedLen
  <2>3. k * BlockSize \in Nat /\ Len(m_h') = k * BlockSize + BlockSize + nb * BlockSize
    BY <2>1, <2>2, <1>0, <1>1, <1>6, <1>7, <1>15
  <2>4. k * BlockSize + BlockSize + nb * BlockSize = (k + 1 + nb) * BlockSize
    BY <1>0, <1>7
  <2>5. k + 1 + nb \in Nat
    BY <1>7
  <2> QED  BY <2>3, <2>4, <2>5
<1>19. m_tot_len' = Len(m_h')
  <2>1. PICK f, h, n, l : f = Len(fed) /\ h = Len(m_h) /\ n = Len(message) /\ l = Len(m_h')
    OBVIOUS
  <2>2. f = h + m_len /\ h \in Nat /\ m_tot_len = h
    BY <2>1, BufferedLen DEF Buffered
  <2>3. f + n <= MaxLength /\ n \in Nat /\ f \in Nat
    BY <2>1, <1>0, <1>10, <1>12
  <2>4. l = f + room + size /\ room + size <= n
    <3>1. Len(tail) = n - room /\ size <= Len(tail)
      BY <2>1, <1>4, <1>7
    <3> QED  BY <3>1, <2>1, <2>3, <1>2, <1>7, <1>15
  <2>5. (nb + 1) * BlockSize = size + BlockSize
    BY <1>0, <1>6, <1>7
  <2>6. m_tot_len + (nb + 1) * BlockSize = l
    <3>1. m_len \in Nat /\ BlockSize \in Nat /\ room = BlockSize - m_len /\ size \in Nat
      BY <1>0, <1>1, <1>7
    <3> QED  BY <3>1, <2>2, <2>4, <2>5
  <2>7. l <= MaxLength /\ l \in Nat
    BY <2>3, <2>4, <1>2, <1>7, BlockFacts
  <2>8. WordRange \in Nat /\ MaxLength < WordRange
    BY BlockFacts DEF LengthAssumption
  <2>9. l % WordRange = l
    <3>1. MaxLength \in Nat
      BY BlockFacts
    <3>2. l < WordRange
      BY <3>1, <2>7, <2>8
    <3> QED  BY <3>2, <2>7, <2>8, WordHolds
  <2> QED  BY <2>1, <2>6, <2>9, <1>10
<1>20. m_len' \in 0..(BlockSize - 1)
  BY <1>0, <1>7, <1>9, <1>10
<1>21. fed' \in Seq(Nat) /\ Len(fed') <= MaxLength
  BY <1>10, <1>12
<1> QED  BY <1>15, <1>16, <1>17, <1>18, <1>19, <1>20, <1>21 DEF Buffered, Blocks

-----------------------------------------------------------------------------
(* final *)

\* The bytes of a message and those of its length.
Byte(n) == Nat \cup {BigEndian(8 * n)[i] : i \in 1..WordBytes}

Fill(n) ==
  LET used == (n + 1 + 2 * WordBytes) % BlockSize
  IN IF used = 0 THEN 0 ELSE BlockSize - used

\* What is behind the message in its last block or blocks: the padding has the
\* size that leaves the end of the length at the end of a block.
LEMMA RoomIsFilled ==
  ASSUME BlockAssumption, Buffered
  PROVE  /\ Fill(Len(fed)) \in Nat
         /\ BlocksLeft \in {1, 2}
         /\ BlocksLeft * BlockSize = m_len + 1 + Fill(Len(fed)) + 2 * WordBytes
<1>1. /\ BlockSize \in Nat \ {0} /\ WordBytes \in Nat \ {0} /\ BlockSize > 2 * WordBytes + 1
      /\ m_len \in 0..(BlockSize - 1)
  BY BlockFacts DEF Buffered
<1>2. PICK k \in Nat : Len(m_h) = k * BlockSize
  BY DEF Buffered
<1>3. PICK n : n = Len(fed)
  OBVIOUS
<1>4. n = k * BlockSize + m_len
  BY <1>2, <1>3, BufferedLen
<1>5. PICK x \in Nat : x = m_len + 1 + 2 * WordBytes
  BY <1>1
<1>6. k * BlockSize \in Nat /\ n + 1 + 2 * WordBytes = k * BlockSize + x
  BY <1>1, <1>4, <1>5
<1>7. x < 2 * BlockSize
  BY <1>1, <1>5
<1>8. BlocksLeft = IF x > BlockSize THEN 2 ELSE 1
  BY <1>1, <1>5 DEF BlocksLeft
<1>9. CASE x < BlockSize
  <2>1. x \in 0..(BlockSize - 1)
    BY <1>1, <1>9
  <2>2. (k * BlockSize + x) % BlockSize = x
    BY <2>1, <1>1, ModIs
  <2>3. x # 0
    BY <1>1, <1>5
  <2>4. Fill(n) = BlockSize - x
    BY <2>2, <2>3, <1>6 DEF Fill
  <2> QED  BY <2>4, <1>1, <1>3, <1>5, <1>8, <1>9
<1>10. CASE x = BlockSize
  <2>1. k * BlockSize + x = (k + 1) * BlockSize + 0
    BY <1>1, <1>10
  <2>2. ((k + 1) * BlockSize + 0) % BlockSize = 0
    <3>1. k + 1 \in Nat /\ 0 \in 0..(BlockSize - 1)
      BY <1>1
    <3> QED  BY <3>1, <1>1, ModIs
  <2>3. Fill(n) = 0
    BY <2>1, <2>2, <1>6 DEF Fill
  <2> QED  BY <2>3, <1>1, <1>3, <1>5, <1>8, <1>10
<1>11. CASE x > BlockSize
  <2>0. PICK y : y = x - BlockSize
    OBVIOUS
  <2>1. k * BlockSize + x = (k + 1) * BlockSize + y /\ y \in 1..(BlockSize - 1)
    BY <2>0, <1>1, <1>7, <1>11
  <2>2. ((k + 1) * BlockSize + y) % BlockSize = y
    <3>1. k + 1 \in Nat /\ y \in 0..(BlockSize - 1)
      BY <2>1, <1>1
    <3> QED  BY <3>1, <1>1, ModIs
  <2>3. Fill(n) = BlockSize - y
    BY <2>1, <2>2, <1>6 DEF Fill
  <2> QED  BY <2>0, <2>1, <2>3, <1>1, <1>3, <1>5, <1>8, <1>11
<1> QED  BY <1>1, <1>9, <1>10, <1>11

\* The standard's padding, byte by byte.
LEMMA PaddingIs ==
  ASSUME BlockAssumption, NEW n \in Nat, NEW fill \in Nat, Fill(n) = fill
  PROVE  /\ PaddingOf(n) \in Seq(Byte(n))
         /\ Len(PaddingOf(n)) = 1 + fill + 2 * WordBytes
         /\ PaddingOf(n)[1] = 128
         /\ \A i \in 2..(1 + fill + WordBytes) : PaddingOf(n)[i] = 0
         /\ \A i \in 1..WordBytes : PaddingOf(n)[1 + fill + WordBytes + i] = BigEndian(8 * n)[i]
<1>1. WordBytes \in Nat \ {0}
  BY BlockFacts
<1>2. PICK S : S = Byte(n)
  OBVIOUS
<1>0. PICK w \in Nat : w = fill + WordBytes
  BY <1>1
<1>3. PICK z : z = ZeroBytes(w) /\ w = fill + WordBytes
  BY <1>0
<1>4. z \in Seq(S) /\ Len(z) = w /\ \A i \in 1..w : z[i] = 0
  BY <1>2, <1>3 DEF ZeroBytes, Byte
<1>5. PICK be : be = BigEndian(8 * n)
  OBVIOUS
<1>6. be \in Seq(S) /\ Len(be) = WordBytes
  <2>1. \A i \in 1..WordBytes : be[i] \in S
    BY <1>2, <1>5 DEF Byte
  <2>2. be = [i \in 1..WordBytes |-> be[i]]
    BY <1>5 DEF BigEndian
  <2> QED  BY <2>1, <2>2, <1>1
<1>7. <<128>> \in Seq(S) /\ Len(<<128>>) = 1 /\ <<128>>[1] = 128
  BY <1>2 DEF Byte
<1>8. PICK a : a = <<128>> \o z
  OBVIOUS
<1>9. /\ a \in Seq(S) /\ Len(a) = 1 + w
      /\ \A i \in 1..(1 + w) : a[i] = IF i <= 1 THEN <<128>>[i] ELSE z[i - 1]
  <2>1. /\ <<128>> \o z \in Seq(S) /\ Len(<<128>> \o z) = Len(<<128>>) + Len(z)
        /\ \A i \in 1..(Len(<<128>>) + Len(z)) :
             (<<128>> \o z)[i] = IF i <= Len(<<128>>) THEN <<128>>[i] ELSE z[i - Len(<<128>>)]
    BY <1>4, <1>7, ConcatProperties
  <2> QED  BY <2>1, <1>4, <1>7, <1>8
<1>10. a[1] = 128 /\ \A i \in 2..(1 + w) : a[i] = 0
  BY <1>4, <1>7, <1>9
<1>11. /\ a \o be \in Seq(S) /\ Len(a \o be) = Len(a) + Len(be)
       /\ \A i \in 1..(Len(a) + Len(be)) :
            (a \o be)[i] = IF i <= Len(a) THEN a[i] ELSE be[i - Len(a)]
  BY <1>6, <1>9, ConcatProperties
<1>12. PICK p : p = a \o be
  OBVIOUS
<1>13. p \in Seq(S) /\ Len(p) = 1 + w + WordBytes
  BY <1>6, <1>9, <1>11, <1>12
<1>14. \A i \in 1..(1 + w) : p[i] = a[i]
  BY <1>1, <1>6, <1>9, <1>11, <1>12
<1>15. \A i \in 1..WordBytes : p[1 + w + i] = be[i]
  <2> TAKE i \in 1..WordBytes
  <2>1. PICK j : j = 1 + w + i
    OBVIOUS
  <2>2. j \in 1..(Len(a) + Len(be)) /\ ~(j <= Len(a)) /\ j - Len(a) = i
    BY <2>1, <1>1, <1>6, <1>9
  <2> QED  BY <2>1, <2>2, <1>11, <1>12
<1>16. PaddingOf(n) = p
  BY <1>3, <1>5, <1>8, <1>12 DEF PaddingOf, Fill
<1>17. p[1] = 128 /\ \A i \in 2..(1 + w) : p[i] = 0
  BY <1>10, <1>14
<1> QED  BY <1>1, <1>2, <1>3, <1>5, <1>13, <1>15, <1>16, <1>17

\* The last blocks: what is in the buffer and the padding, whatever else was in
\* memory.
LEMMA LastBlocks ==
  ASSUME BlockAssumption, LengthAssumption, Buffered, Final
  PROVE  digest' = fed \o PaddingOf(Len(fed))
<1>0. /\ BlockSize \in Nat \ {0} /\ WordBytes \in Nat \ {0} /\ BlockSize > 2 * WordBytes + 1
      /\ m_len \in 0..(BlockSize - 1) /\ m_block \in Blocks /\ MaxLength \in Nat
  BY BlockFacts DEF Buffered
<1>1. PICK n \in Nat : n = Len(fed)
  BY DEF Buffered
<1>2. PICK fill \in Nat : fill = Fill(n)
  BY <1>1, RoomIsFilled
<1>3. PICK pm : pm = BlocksLeft * BlockSize
  OBVIOUS
<1>4. pm \in 0..(2 * BlockSize) /\ pm = m_len + 1 + fill + 2 * WordBytes
  <2>1. BlocksLeft \in {1, 2} /\ pm = m_len + 1 + fill + 2 * WordBytes
    BY <1>1, <1>2, <1>3, RoomIsFilled
  <2>2. pm = BlockSize \/ pm = 2 * BlockSize
    BY <2>1, <1>0, <1>3
  <2> QED  BY <2>1, <2>2, <1>0
<1>5. ((m_tot_len + m_len) * 8) % WordRange = 8 * n
  <2>1. m_tot_len + m_len = n /\ n <= MaxLength
    BY <1>1, BufferedLen DEF Buffered
  <2>2. WordRange \in Nat /\ 8 * MaxLength < WordRange
    BY DEF LengthAssumption
  <2>3. n * 8 = 8 * n /\ 8 * n \in Nat /\ 8 * n < WordRange
    BY <2>1, <2>2, <1>0
  <2>4. (8 * n) % WordRange = 8 * n
    <3>1. PICK x : x = 8 * n
      OBVIOUS
    <3>2. x % WordRange = x
      BY <3>1, <2>2, <2>3, WordHolds
    <3> QED  BY <3>1, <3>2
  <2> QED  BY <2>1, <2>3, <2>4
<1>6. PICK S : S = Byte(n)
  OBVIOUS
<1>7. PICK be : be = BigEndian(8 * n)
  OBVIOUS
<1>8. Len(be) = WordBytes /\ Nat \subseteq S /\ \A i \in 1..WordBytes : be[i] \in S
  <2>1. be = [i \in 1..WordBytes |-> be[i]]
    BY <1>7 DEF BigEndian
  <2>2. Len(be) = WordBytes
    BY <2>1, <1>0
  <2> QED  BY <2>2, <1>6, <1>7 DEF Byte
<1>9. PICK zeros : zeros = [i \in 1..pm - m_len |-> 0]
  OBVIOUS
<1>10. PICK room \in Nat : room = pm - m_len
  BY <1>0, <1>4
<1>11. Len(zeros) = room /\ \A i \in 1..room : zeros[i] = 0
  BY <1>9, <1>10
<1>12. PICK zeroed : zeroed = Copied(m_block, m_len, zeros)
  OBVIOUS
<1>13. PICK marked : marked = Copied(zeroed, m_len, <<128>>)
  OBVIOUS
<1>14. PICK padded : padded = Copied(marked, pm - WordBytes, be)
  OBVIOUS
<1>15. digest' = m_h \o SubSeq(padded, 1, pm)
  BY <1>3, <1>5, <1>7, <1>9, <1>12, <1>13, <1>14 DEF Final
<1>16. \A i \in 1..2 * BlockSize :
         zeroed[i] = IF i \in m_len + 1..m_len + room THEN zeros[i - m_len] ELSE m_block[i]
  BY <1>11, <1>12 DEF Copied
<1>17. \A i \in 1..2 * BlockSize :
         marked[i] = IF i \in m_len + 1..m_len + 1 THEN <<128>>[i - m_len] ELSE zeroed[i]
  <2>1. Len(<<128>>) = 1
    OBVIOUS
  <2> QED  BY <2>1, <1>13 DEF Copied
<1>18. /\ padded = [i \in 1..2 * BlockSize |-> padded[i]]
       /\ \A i \in 1..2 * BlockSize :
            padded[i] = IF i \in (pm - WordBytes) + 1..(pm - WordBytes) + WordBytes
                        THEN be[i - (pm - WordBytes)] ELSE marked[i]
  BY <1>8, <1>14 DEF Copied
<1>19. \A i \in 1..m_len : padded[i] = m_block[i]
  <2> TAKE i \in 1..m_len
  <2>1. /\ i \in 1..2 * BlockSize /\ i \notin m_len + 1..m_len + room
        /\ i \notin m_len + 1..m_len + 1
        /\ i \notin (pm - WordBytes) + 1..(pm - WordBytes) + WordBytes
    BY <1>0, <1>4
  <2> QED  BY <2>1, <1>16, <1>17, <1>18
<1>20. padded[m_len + 1] = 128
  <2>1. PICK i : i = m_len + 1
    OBVIOUS
  <2>2. /\ i \in 1..2 * BlockSize /\ i \in m_len + 1..m_len + 1 /\ i - m_len = 1
        /\ i \notin (pm - WordBytes) + 1..(pm - WordBytes) + WordBytes
    BY <2>1, <1>0, <1>4
  <2>3. marked[i] = <<128>>[1]
    BY <2>2, <1>17
  <2> QED  BY <2>1, <2>2, <2>3, <1>18
<1>21. \A i \in 2..(1 + fill + WordBytes) : padded[m_len + i] = 0
  <2> TAKE i \in 2..(1 + fill + WordBytes)
  <2>1. PICK j : j = m_len + i
    OBVIOUS
  <2>2. /\ j \in 1..2 * BlockSize /\ j \in m_len + 1..m_len + room
        /\ j \notin m_len + 1..m_len + 1 /\ j - m_len = i /\ i \in 1..room
        /\ j \notin (pm - WordBytes) + 1..(pm - WordBytes) + WordBytes
    BY <2>1, <1>0, <1>4, <1>10
  <2>3. zeroed[j] = 0
    BY <2>2, <1>11, <1>16
  <2> QED  BY <2>1, <2>2, <2>3, <1>17, <1>18
<1>22. \A i \in 1..WordBytes : padded[m_len + 1 + fill + WordBytes + i] = be[i]
  <2> TAKE i \in 1..WordBytes
  <2>1. PICK j : j = m_len + 1 + fill + WordBytes + i
    OBVIOUS
  <2>2. /\ j \in 1..2 * BlockSize /\ j - (pm - WordBytes) = i
        /\ j \in (pm - WordBytes) + 1..(pm - WordBytes) + WordBytes
    BY <2>1, <1>0, <1>4
  <2> QED  BY <2>1, <2>2, <1>18
<1>23. PICK buf, p : buf = Buffer(m_len) /\ p = PaddingOf(n)
  OBVIOUS
<1>24. /\ buf \in Seq(S) /\ Len(buf) = m_len /\ \A i \in 1..m_len : buf[i] = m_block[i]
  <2>1. /\ buf \in Seq(Nat) /\ Len(buf) = m_len
        /\ \A i \in 1..m_len : buf[i] = m_block[i]
    <3>1. m_len \in 0..(2 * BlockSize)
      BY <1>0
    <3> QED  BY <3>1, <1>0, <1>23, FirstBytes DEF Buffer, Blocks
  <2>2. buf \in Seq(S)
    BY <2>1, <1>8, SeqMonotonic
  <2> QED  BY <2>1, <2>2
<1>25. /\ p \in Seq(S) /\ Len(p) = 1 + fill + 2 * WordBytes /\ p[1] = 128
       /\ \A i \in 2..(1 + fill + WordBytes) : p[i] = 0
       /\ \A i \in 1..WordBytes : p[1 + fill + WordBytes + i] = be[i]
  BY <1>2, <1>6, <1>7, <1>23, PaddingIs
<1>26. /\ buf \o p \in Seq(S) /\ Len(buf \o p) = m_len + Len(p)
       /\ \A i \in 1..m_len : (buf \o p)[i] = buf[i]
       /\ \A i \in 1..Len(p) : (buf \o p)[m_len + i] = p[i]
  <2>1. /\ buf \o p \in Seq(S) /\ Len(buf \o p) = Len(buf) + Len(p)
        /\ \A i \in 1..(Len(buf) + Len(p)) :
             (buf \o p)[i] = IF i <= Len(buf) THEN buf[i] ELSE p[i - Len(buf)]
    <3>1. buf \in Seq(S) /\ p \in Seq(S)
      BY <1>24, <1>25
    <3> QED  BY <3>1, Joined, Zenon
  <2>2. PICK l, m \in Nat : l = Len(p) /\ m = m_len
    BY <1>0, <1>25
  <2>3. \A i \in 1..m : i \in 1..(m + l) /\ i <= m
    BY <2>2
  <2>4. \A i \in 1..l : m + i \in 1..(m + l) /\ ~(m + i <= m) /\ (m + i) - m = i
    BY <2>2
  <2> QED  BY <2>1, <2>2, <2>3, <2>4, <1>24
<1>27. PICK last : last = SubSeq(padded, 1, pm)
  OBVIOUS
<1>28. \A i \in 1..pm : padded[i] = (buf \o p)[i]
  <2> TAKE i \in 1..pm
  <2>1. CASE i <= m_len
    <3>1. i \in 1..m_len
      BY <2>1, <1>0, <1>4
    <3> QED  BY <3>1, <1>19, <1>24, <1>26
  <2>2. CASE i = m_len + 1
    <3>1. 1 \in 1..Len(p)
      BY <1>0, <1>25
    <3> QED  BY <3>1, <2>2, <1>20, <1>25, <1>26
  <2>3. CASE i > m_len + 1 /\ i <= m_len + 1 + fill + WordBytes
    <3>1. PICK j : j = i - m_len
      OBVIOUS
    <3>2. i = m_len + j /\ j \in 2..(1 + fill + WordBytes) /\ j \in 1..Len(p)
      BY <3>1, <2>3, <1>0, <1>25
    <3>3. (buf \o p)[m_len + j] = p[j]
      BY <3>2, <1>26
    <3>4. padded[m_len + j] = 0 /\ p[j] = 0
      BY <3>2, <1>21, <1>25
    <3> QED  BY <3>2, <3>3, <3>4
  <2>4. CASE i > m_len + 1 + fill + WordBytes
    <3>1. PICK j : j = i - (m_len + 1 + fill + WordBytes)
      OBVIOUS
    <3>2. PICK h : h = 1 + fill + WordBytes + j
      OBVIOUS
    <3>3. /\ i = m_len + 1 + fill + WordBytes + j /\ i = m_len + h
          /\ j \in 1..WordBytes /\ h \in 1..Len(p)
      BY <3>1, <3>2, <2>4, <1>0, <1>4, <1>25
    <3>4. padded[i] = be[j]
      BY <3>3, <1>22
    <3>5. (buf \o p)[i] = p[h]
      BY <3>3, <1>26
    <3>6. p[h] = be[j]
      BY <3>2, <3>3, <1>25
    <3> QED  BY <3>4, <3>5, <3>6
  <2>5. i \in Nat /\ m_len \in Nat /\ fill \in Nat /\ WordBytes \in Nat
    BY <1>0, <1>4
  <2>6. \/ i <= m_len \/ i = m_len + 1 \/ (i > m_len + 1 /\ i <= m_len + 1 + fill + WordBytes)
        \/ i > m_len + 1 + fill + WordBytes
    BY <2>5
  <2> QED  BY <2>1, <2>2, <2>3, <2>4, <2>6
<1>29. last = buf \o p
  <2>1. Len(buf \o p) = pm /\ pm \in Nat
    BY <1>0, <1>4, <1>25, <1>26
  <2>2. \A i \in 1..pm : padded[i] \in S
    <3>1. \A i \in 1..pm : (buf \o p)[i] \in S
      BY <2>1, <1>26
    <3> QED  BY <3>1, <1>28
  <2>3. /\ last \in Seq(S) /\ Len(last) = pm /\ \A i \in 1..pm : last[i] = padded[i]
    <3>1. /\ last \in Seq(S)
          /\ Len(last) = IF 1 <= pm THEN pm - 1 + 1 ELSE 0
          /\ \A i \in 1..(pm - 1 + 1) : last[i] = padded[1 + i - 1]
      BY <2>1, <2>2, <1>27, SubSeqProperties
    <3>2. pm - 1 + 1 = pm /\ (~(1 <= pm) => pm = 0) /\ \A i \in 1..pm : 1 + i - 1 = i
      BY <2>1
    <3> QED  BY <3>1, <3>2
  <2>4. \A i \in 1..Len(last) : last[i] = (buf \o p)[i]
    BY <2>3, <1>28
  <2> QED  BY <2>1, <2>3, <2>4, <1>26, SeqEqual
<1>30. m_h \o (buf \o p) = (m_h \o buf) \o p
  <2>1. m_h \in Seq(S)
    <3>1. m_h \in Seq(Nat)
      BY DEF Buffered
    <3> QED  BY <3>1, <1>8, SeqMonotonic
  <2>2. buf \in Seq(S) /\ p \in Seq(S)
    BY <1>24, <1>25
  <2>3. \A s, t, u \in Seq(S) : (s \o t) \o u = s \o (t \o u)
    BY RegroupIn
  <2> QED  BY <2>1, <2>2, <2>3, Zenon
<1>31. m_h \o buf = fed
  BY <1>23 DEF Buffered
<1> QED  BY <1>1, <1>15, <1>23, <1>27, <1>29, <1>30, <1>31

-----------------------------------------------------------------------------

\* An empty object has compressed nothing and holds nothing.
LEMMA StreamStart == ASSUME BlockAssumption, ShaInit PROVE Buffered /\ Oracle!HashInit
<1>1. BlockSize \in Nat \ {0} /\ MaxLength \in Nat
  BY BlockFacts
<1>2. m_block \in Blocks
  BY DEF ShaInit, Blocks, Garbage
<1>3. <<>> \in Seq(Nat) /\ Len(<<>>) = 0 /\ 0 * BlockSize = 0 /\ 0 \in Nat
  BY <1>1
<1>4. SubSeq(m_block, 1, 0) = <<>>
  BY SubSeqEmpty
<1>5. <<>> \o <<>> = <<>>
  BY <1>3, ConcatEmptySeq
<1>6. m_h \o Buffer(m_len) = fed
  BY <1>4, <1>5 DEF ShaInit, Buffer
<1>7. /\ fed \in Seq(Nat) /\ Len(fed) <= MaxLength /\ m_len \in 0..(BlockSize - 1)
      /\ m_h \in Seq(Nat) /\ m_tot_len = Len(m_h)
  BY <1>1, <1>3 DEF ShaInit
<1>8. \E k \in Nat : Len(m_h) = k * BlockSize
  BY <1>1, <1>3 DEF ShaInit
<1>9. Buffered
  BY <1>2, <1>6, <1>7, <1>8 DEF Buffered
<1> QED  BY <1>9 DEF ShaInit, Oracle!HashInit

\* An object is always fed behind what it has, and asked once.
LEMMA StreamStep ==
  ASSUME BlockAssumption, LengthAssumption, StreamInv, [ShaNext]_hashVars
  PROVE  StreamInv' /\ [Oracle!HashNext]_<<fed, digest>>
<1>1. ASSUME NEW n \in 0..MaxLength, Update(Piece(Len(fed), n))
      PROVE  StreamInv' /\ [Oracle!HashNext]_<<fed, digest>>
  <2>1. digest = <<>> /\ digest' = digest /\ fed' = fed \o Piece(Len(fed), n)
    BY <1>1 DEF Update
  <2>2. Buffered
    BY <2>1 DEF StreamInv
  <2>3. PICK message : message = Piece(Len(fed), n)
    OBVIOUS
  <2>4. MaxLength \in Nat /\ Len(fed) \in 0..MaxLength /\ n \in Nat
    BY <2>2, BlockFacts DEF Buffered
  <2>5. message \in Seq(Nat)
    BY <2>3, <2>4, PieceIs
  <2>6. Buffered'
    <3>1. Update(message)
      BY <1>1, <2>3
    <3> QED  BY <3>1, <2>2, <2>5, FitsKeeps, OverflowKeeps
  <2>7. Piece(Len(fed), n) \in Pieces
    BY <2>4 DEF Pieces
  <2>8. Oracle!Feed \/ (fed' = fed /\ digest' = digest)
    BY <2>1, <2>7 DEF Oracle!Feed
  <2> QED  BY <2>6, <2>8 DEF StreamInv, Oracle!HashNext
<1>2. ASSUME Final PROVE StreamInv' /\ [Oracle!HashNext]_<<fed, digest>>
  <2>1. digest = <<>> /\ fed' = fed
    BY <1>2 DEF Final
  <2>2. Buffered
    BY <2>1 DEF StreamInv
  <2>3. PICK n \in Nat : n = Len(fed)
    BY <2>2 DEF Buffered
  <2>4. digest' = fed \o PaddingOf(n)
    BY <1>2, <2>2, <2>3, LastBlocks
  <2>5. digest' # <<>>
    <3>0. PICK fill \in Nat : fill = Fill(n)
      BY <2>2, <2>3, RoomIsFilled
    <3>1. PICK p, S : p = PaddingOf(n) /\ S = Byte(n)
      OBVIOUS
    <3>2. WordBytes \in Nat \ {0}
      BY BlockFacts
    <3>3. p \in Seq(S) /\ Len(p) = 1 + fill + 2 * WordBytes
      BY <3>0, <3>1, PaddingIs
    <3>4. fed \in Seq(S)
      <4>1. fed \in Seq(Nat) /\ Nat \subseteq S
        BY <2>2, <3>1 DEF Buffered, Byte
      <4> QED  BY <4>1, SeqMonotonic
    <3>5. Len(fed \o p) = n + Len(p)
      BY <3>3, <3>4, <2>3, ConcatProperties
    <3>6. Len(fed \o p) > 0
      BY <3>2, <3>3, <3>5
    <3> QED  BY <3>1, <3>6, <2>4
  <2>6. Oracle!Finish
    BY <2>1, <2>3, <2>4 DEF Oracle!Finish, Standard
  <2> QED  BY <2>5, <2>6 DEF StreamInv, Oracle!HashNext
<1>3. CASE UNCHANGED hashVars
  <2>1. StreamInv'
    BY <1>3 DEF StreamInv, Buffered, Blocks, Buffer, hashVars
  <2>2. UNCHANGED <<fed, digest>>
    BY <1>3 DEF hashVars
  <2> QED  BY <2>1, <2>2
<1> QED  BY <1>1, <1>2, <1>3 DEF ShaNext

\* However a message is cut into pieces and whatever was in memory, the object
\* computes the digest of the standard: for any size of a block and of a word.
THEOREM ComputesStandard ==
  ASSUME BlockAssumption, LengthAssumption
  PROVE  ShaSpec => KeepsStandard
<1>1. ShaInit => StreamInv /\ Oracle!HashInit
  BY StreamStart DEF StreamInv
<1>2. StreamInv /\ [ShaNext]_hashVars => StreamInv' /\ [Oracle!HashNext]_<<fed, digest>>
  BY StreamStep
<1> QED  BY <1>1, <1>2, PTL DEF ShaSpec, KeepsStandard, Oracle!HashSpec

\* Between calls no byte was lost, doubled or moved: what was compressed and
\* what is still in the buffer are the message (update, lines 112-133).
THEOREM LosesNothing ==
  ASSUME BlockAssumption, LengthAssumption
  PROVE  ShaSpec => []NothingLost
<1>1. ShaInit => StreamInv
  BY StreamStart DEF StreamInv
<1>2. StreamInv /\ [ShaNext]_hashVars => StreamInv'
  BY StreamStep
<1>3. StreamInv => NothingLost
  BY DEF StreamInv, Buffered, NothingLost
<1> QED  BY <1>1, <1>2, <1>3, PTL DEF ShaSpec
=============================================================================
