---------------------------- MODULE Sha256Stream ----------------------------
(***************************************************************************)
(* The buffering and padding of class SHA256 (sha256.cpp), which hashes    *)
(* the password of a login.  update() compresses whole blocks and keeps    *)
(* the rest in m_block; final() pads what is left.  transform() is taken   *)
(* as a function that nothing is known about: what it was given, in order, *)
(* stands for the value it makes of m_h.                                   *)
(***************************************************************************)
EXTENDS Integers, Sequences, SequencesExt

CONSTANTS
  BlockSize,    \* SHA224_256_BLOCK_SIZE, 64
  WordBytes,    \* bytes of an unsigned int, 4
  MaxLength     \* bound: bytes fed to one object

\* The padding must leave room for its mark and a length of two words.
BlockAssumption ==
  /\ BlockSize \in Nat /\ WordBytes \in Nat \ {0}
  /\ BlockSize > 2 * WordBytes + 1
  /\ MaxLength \in Nat

VARIABLES
  m_block,      \* the buffer, two blocks; 0-based as in the code
  m_len,        \* bytes of the buffer in use
  m_tot_len,    \* bytes compressed
  m_h,          \* the bytes given to transform, in order
  fed,          \* history: the message
  digest        \* the result of final, or <<>>

hashVars == <<m_block, m_len, m_tot_len, m_h, fed, digest>>

Garbage == 256              \* a byte of memory that was never written
WordRange == 256 ^ WordBytes
\* The length of a message, in bits, is a word: a password is much shorter than
\* the 512 MB at which the counter would wrap.
LengthAssumption == WordRange \in Nat /\ 8 * MaxLength < WordRange
Buffer(cells) == SubSeq(m_block, 1, cells)

\* memcpy(&m_block[at], bytes, Len(bytes))
Copied(block, at, bytes) ==
  [i \in 1..2 * BlockSize |->
     IF i \in at + 1..at + Len(bytes) THEN bytes[i - at] ELSE block[i]]

ShaInit ==
  /\ m_block = [i \in 1..2 * BlockSize |-> Garbage]
  /\ m_len = 0 /\ m_tot_len = 0 /\ m_h = <<>>
  /\ fed = <<>> /\ digest = <<>>

\* What does not fill a block starts the buffer anew.
Restart(rest) == /\ m_block' = Copied(m_block, 0, rest)
                 /\ m_len' = Len(rest)

Fits(len) == m_len + len < BlockSize

\* transform(m_block, 1), then transform of the whole blocks that follow.
Compress(head, whole) == m_h' = m_h \o Buffer(m_len) \o head \o whole

Update(message) ==
  LET head == SubSeq(message, 1, BlockSize - m_len)
      tail == SubSeq(message, BlockSize - m_len + 1, Len(message))
      block_nb == Len(tail) \div BlockSize
      whole == SubSeq(tail, 1, block_nb * BlockSize)
  IN
  /\ digest = <<>> /\ Len(fed) + Len(message) <= MaxLength
  /\ fed' = fed \o message
  /\ IF Fits(Len(message))
     THEN /\ m_block' = Copied(m_block, m_len, message)
          /\ m_len' = m_len + Len(message)
          /\ UNCHANGED <<m_h, m_tot_len>>
     ELSE /\ Compress(head, whole)
          /\ Restart(SubSeq(tail, Len(whole) + 1, Len(tail)))
          /\ m_tot_len' = (m_tot_len + (block_nb + 1) * BlockSize) % WordRange
  /\ UNCHANGED digest

\* SHA2_UNPACK32
BigEndian(n) == [i \in 1..WordBytes |-> (n \div 256 ^ (WordBytes - i)) % 256]

\* Slip: the mark was not counted.
BlocksLeftUnmarked == IF BlockSize - 2 * WordBytes < m_len THEN 2 ELSE 1

\* A second block is needed when the mark and the length do not fit.
BlocksLeft == IF BlockSize - (2 * WordBytes + 1) < m_len THEN 2 ELSE 1

Final ==
  LET len_b == ((m_tot_len + m_len) * 8) % WordRange
      pm_len == BlocksLeft * BlockSize
      zeroed == Copied(m_block, m_len, [i \in 1..pm_len - m_len |-> 0])
      padded == Copied(Copied(zeroed, m_len, <<128>>), pm_len - WordBytes,
                       BigEndian(len_b))
  IN
  /\ digest = <<>>
  /\ m_block' = padded
  /\ m_h' = m_h \o SubSeq(padded, 1, pm_len)
  /\ digest' = m_h'
  /\ UNCHANGED <<m_len, m_tot_len, fed>>

\* The next n bytes of a message whose bytes are told apart by their place.
Piece(from, n) == [i \in 1..n |-> from + i]
Pieces == {Piece(from, n) : from, n \in 0..MaxLength}

ShaNext == (\E n \in 0..MaxLength : Update(Piece(Len(fed), n))) \/ Final

ShaSpec == ShaInit /\ [][ShaNext]_hashVars

-----------------------------------------------------------------------------
(* FIPS 180-2, section 5.1.1 *)

ZeroBytes(n) == [i \in 1..n |-> 0]

\* The message, one bit, as many zeros as needed and the length in bits.
PaddingOf(n) ==
  LET used == (n + 1 + 2 * WordBytes) % BlockSize
      fill == IF used = 0 THEN 0 ELSE BlockSize - used
  IN <<128>> \o ZeroBytes(fill + WordBytes) \o BigEndian(8 * n)

Standard(message) == message \o PaddingOf(Len(message))

\* The buffer and the counters are within their bounds.
HashTypeOK ==
  /\ m_len \in 0..BlockSize - 1 /\ m_tot_len \in 0..WordRange - 1
  /\ DOMAIN m_block = 1..2 * BlockSize
  /\ Len(m_h) % BlockSize = 0

\* Between calls nothing was lost, doubled or moved: what was compressed and
\* what is still in the buffer are the message (update, lines 112-133).
NothingLost == digest = <<>> => m_h \o Buffer(m_len) = fed

\* The digest is that of the standard, whatever the pieces were and whatever
\* m_block held before (final, lines 135-152).
Oracle == INSTANCE HashOracle WITH Chunks <- Pieces, Digest <- Standard
KeepsStandard == Oracle!HashSpec
=============================================================================
