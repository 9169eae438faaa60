---------------------------- MODULE PacketFields ----------------------------
(***************************************************************************)
(* Strings in packets (lwoPacketUtils.cpp and the packets built by hand).  *)
(* A client types a name and a password, which travel as fields of wide    *)
(* characters, zero-filled; the server reads them byte by byte from a      *)
(* packet of any length (readWStringAsString).  It answers with the list   *)
(* of the user's minifigs, written field after field, and then with the    *)
(* address of a server in a field of narrow characters; the client takes   *)
(* both apart by fixed widths.  A cell of a packet is a byte; an integer   *)
(* or an id is one cell, whatever its width.                               *)
(***************************************************************************)
EXTENDS Integers, Sequences, SequencesExt

CONSTANTS
  Chars,      \* characters names are made of, not 0
  Header,     \* bytes of a packet's header, 8
  Width,      \* characters a field holds, 33
  MaxName,    \* bound: characters a user can type
  MaxFigs,    \* LIMIT of the list, 4
  Items,      \* LOTs of equipped items
  Word        \* 2^32, what an unsigned int can count

FieldAssumption ==
  /\ Chars \subseteq Nat \ {0} /\ Chars # {} /\ Items \subseteq Nat
  /\ Header \in Nat /\ Width \in Nat \ {0} /\ Word \in Nat /\ MaxFigs \in Nat
  /\ MaxName \in 0..Width          \* the client lets nobody type more
  /\ Word > 2 * Width

VARIABLES
  typed,      \* what the user typed: [name, password]
  packet,     \* the packet that arrived, 0-based in the code
  field,      \* the field being read, or how far the exchange is
  at,         \* iStrStartLoc + i: the next byte to read
  read,       \* what was read of each field
  figs,       \* the user's minifigs: rows of names and items
  answer,     \* the packet being written
  parsed      \* what the client made of it

fieldVars == <<typed, packet, field, at, read, figs, answer, parsed>>

Strings(n) == UNION {[1..k -> Chars] : k \in 0..n}
Zeros(n) == [i \in 1..n |-> 0]

\* A string of wchar_t, two bytes each, the low one first.
Widen(s) == [i \in 1..2 * Len(s) |-> IF i % 2 = 1 THEN s[(i + 1) \div 2] ELSE 0]

\* 8 and 0x4A
FieldAt(f) == IF f = "name" THEN Header ELSE Header + 2 * Width

NoText == [name |-> <<>>, password |-> <<>>]

FieldsInit ==
  /\ typed = NoText /\ packet = <<>> /\ field = "typing" /\ at = 0
  /\ read = NoText
  /\ figs = <<>> /\ answer = <<>> /\ parsed = <<>>

WideField(s) == Widen(s) \o Zeros(2 * Width - 2 * Len(s))

\* The client sends both fields; the packet may be cut short.
Arrive ==
  /\ field = "typing" /\ field' = "name" /\ at' = FieldAt("name")
  /\ \E name, password \in Strings(MaxName) :
       LET whole == Zeros(Header) \o WideField(name) \o WideField(password) IN
       /\ typed' = [name |-> name, password |-> password]
       /\ \E length \in Header..Len(whole) : packet' = SubSeq(whole, 1, length)
  /\ UNCHANGED <<read, figs, answer, parsed>>

-----------------------------------------------------------------------------
(* readWStringAsString *)

\* What packet->data holds at an index: behind the packet, anything.
BytesAt(index) ==
  IF index < Len(packet) THEN {packet[index + 1]} ELSE Chars \cup {0}

GoesOn(byte) == byte # 0 /\ Len(packet) > at

\* Slip: the string is read as one of narrow characters.
CharBytesNarrow == 1

CharBytes == 2

NextField == IF field = "name" THEN "password" ELSE "listing"

\* Slip: after a name the next one is read from where it ended.
NextLocBehind == at + 2

NextLoc == FieldAt(NextField)

ReadChar ==
  /\ field \in {"name", "password"}
  /\ \E byte \in BytesAt(at) :
       IF GoesOn(byte)
       THEN /\ read' = [read EXCEPT ![field] = Append(@, byte)]
            /\ at' = at + CharBytes
            /\ UNCHANGED field
       ELSE /\ field' = NextField
            /\ at' = NextLoc
            /\ UNCHANGED read
  /\ UNCHANGED <<typed, packet, figs, answer, parsed>>

-----------------------------------------------------------------------------
(* sendMinifigureList: the rows, with the names as they were stored *)

\* Slip: the padding counts characters, not bytes.
PaddingInChars(s) == (2 * Width - Len(s)) % Word

\* 66 - wsPlayerName.size() * 2, unsigned
Padding(s) == (2 * Width - 2 * Len(s)) % Word

NameField(s) == Widen(s) \o Zeros(Padding(s))

ListEntry(fig) == NameField(fig.temp) \o NameField(fig.name)
                \o <<Len(fig.items)>> \o fig.items

\* "Minifig" and the time, shorter than a field.
Generated == <<CHOOSE c \in Chars : TRUE>>

Rows == [temp : {Generated}, name : {typed.name, read.name},
         items : {<<>>} \cup {<<lot>> : lot \in Items}
                        \cup {<<lot, lot>> : lot \in Items}]

\* The packet is deallocated, and what was read of it lives in the rows.
SelectRows ==
  /\ field = "listing" /\ field' = "writing"
  /\ \E n \in 0..MaxFigs : figs' \in [1..n -> Rows]
  /\ answer' = <<Len(figs')>>
  /\ at' = 1
  /\ typed' = NoText /\ packet' = <<>> /\ read' = NoText
  /\ UNCHANGED parsed

\* One turn of the loop over the rows.
WriteEntry ==
  /\ field = "writing" /\ at <= Len(figs)
  /\ answer' = answer \o ListEntry(figs[at])
  /\ at' = at + 1
  /\ UNCHANGED <<typed, packet, field, read, figs, parsed>>

SendEntries ==
  /\ field = "writing" /\ at > Len(figs)
  /\ field' = "parsing" /\ at' = 1
  /\ UNCHANGED <<typed, packet, read, figs, answer, parsed>>

\* The client: a string ends at the first zero or with its field.
StringAt(bytes) ==
  LET lows == [i \in 1..Width |-> bytes[2 * i - 1]]
      ends == {n \in 0..Width : n = Width \/ lows[n + 1] = 0}
  IN SubSeq(lows, 1, CHOOSE n \in ends : \A e \in ends : n <= e)

\* The client takes one minifig after the other from where it is.
ParseEntry ==
  /\ field = "parsing" /\ Len(parsed) < answer[1]
  /\ LET nameAt == at + 2 * Width
         countAt == nameAt + 2 * Width
         items == answer[countAt + 1]
     IN /\ countAt < Len(answer)
        /\ countAt + 1 + items <= Len(answer)
        /\ parsed' = Append(parsed,
             [temp |-> StringAt(SubSeq(answer, at + 1, nameAt)),
              name |-> StringAt(SubSeq(answer, nameAt + 1, countAt)),
              items |-> SubSeq(answer, countAt + 2, countAt + 1 + items)])
        /\ at' = countAt + 1 + items
  /\ UNCHANGED <<typed, packet, field, read, figs, answer>>

-----------------------------------------------------------------------------
(* clientLoginRequest: the address of a server *)

\* writeStringToPacket
StringField(s, maxSize) ==
  SubSeq(s, 1, IF Len(s) > maxSize THEN maxSize ELSE Len(s))
    \o (IF maxSize > Len(s) THEN Zeros(maxSize - Len(s)) ELSE <<>>)

Port == 7

Transfer ==
  /\ field = "parsing" /\ Len(parsed) = answer[1]
  /\ field' = "transferred"
  /\ \E sIP \in Strings(Width + 1) :
       answer' = StringField(sIP, Width) \o <<Port, Port, 0>>
  /\ figs' = <<>> /\ parsed' = <<>> /\ at' = 0
  /\ UNCHANGED <<typed, packet, read>>

FieldsNext == \/ Arrive \/ ReadChar
        \/ SelectRows \/ WriteEntry \/ SendEntries \/ ParseEntry \/ Transfer

FieldsSpec == FieldsInit /\ [][FieldsNext]_fieldVars

-----------------------------------------------------------------------------

\* Every character is one that was typed, and no string outgrows the packet.
FieldsTypeOK ==
  /\ field \in {"typing", "name", "password", "listing", "writing", "parsing",
                "transferred"}
  /\ \A f \in {"name", "password"} :
       /\ read[f] \in Seq(Chars)
       /\ read[f] # <<>> => FieldAt(f) + 2 * Len(read[f]) <= Len(packet) + 1
  /\ at \in Nat

Shortest(s, n) == SubSeq(s, 1, IF Len(s) < n THEN Len(s) ELSE n)

\* Characters of field f that arrived, all or the first of them.
Arrived(f) ==
  Shortest(typed[f], IF Len(packet) <= FieldAt(f) THEN 0
                     ELSE (Len(packet) - FieldAt(f) + 1) \div 2)

\* What readWStringAsString returns depends on the packet alone, although it
\* looks behind its end (line 82), and for strings that leave room for their
\* zero it is what was typed, as much of it as arrived.
ReadsWhatWasTyped ==
  field \notin {"typing", "name", "password"} =>
    \A f \in {"name", "password"} :
      (Len(typed.name) < Width /\ Len(typed[f]) < Width) => read[f] = Arrived(f)

\* A name that fills its field is read on into the password; nothing ends it
\* but the zeros after that.
FullNameRunsOn ==
  (field = "listing" /\ Len(typed.name) = Width /\ Len(typed.password) < Width
     /\ Len(packet) = Header + 4 * Width)
    => read.name = typed.name \o typed.password

\* The client takes the list apart as it was put together, unless a name is
\* longer than a field: then the padding is counted from 2^32 downwards.
ListIsUnderstood ==
  (\A k \in DOMAIN figs : Len(figs[k].name) <= Width) =>
    /\ IsPrefix(parsed, figs)
    /\ field = "parsing" /\ at = Len(answer) => parsed = figs

\* The port is behind the field whatever the length of the string in it.
PortIsInPlace ==
  field = "transferred" => /\ Len(answer) = Width + 3
                           /\ answer[Width + 1] = Port

\* Both answers are laid out where the client looks for their parts: padding
\* is counted in other units than strings, with unsigned integers, and strings
\* may be longer than their fields (lines 225-231 of lwoWorldPackets.cpp, 44-57
\* of lwoPacketUtils.cpp).
AnswersAreUnderstood == ListIsUnderstood /\ PortIsInPlace
=============================================================================
