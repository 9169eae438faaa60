---------------------------- MODULE FieldsProofs ----------------------------
(***************************************************************************)
(* What readWStringAsString makes of a packet, and the client of an        *)
(* answer, for every alphabet, width of a field and length of a packet.    *)
(* What is read is followed character by character: it is what lies at     *)
(* every second byte, up to the first zero or the end of the packet.  For  *)
(* the list the places where its entries begin are enough: what is written *)
(* and what is parsed agree on them.                                       *)
(*                                                                         *)
(* The clothes of a minifig are a number of its entry: that it tells what  *)
(* was chosen is shown of the tables for shirts and pants.                 *)
(***************************************************************************)
EXTENDS PacketFields, Appearance, TLAPS, SequenceTheorems

\* The jth character of a field that holds s.
Letter(s, j) == IF j <= Len(s) THEN s[j] ELSE 0

\* Where character j of field f lies, counted from 1 as packet is here.
CellOf(f, j) == FieldAt(f) + 2 * j - 1

Whole(name, password) == Zeros(Header) \o WideField(name) \o WideField(password)

Strs == Seq(Chars)

-----------------------------------------------------------------------------
(* Fields *)

\* What a cell of two strings put together holds.
LEMMA Joined ==
  ASSUME NEW s \in Seq(Nat), NEW t \in Seq(Nat)
  PROVE  /\ s \o t \in Seq(Nat) /\ Len(s \o t) = Len(s) + Len(t)
         /\ \A i \in 1..Len(s) : (s \o t)[i] = s[i]
         /\ \A i \in 1..Len(t) : (s \o t)[Len(s) + i] = t[i]
<1>1. /\ s \o t \in Seq(Nat) /\ Len(s) \in Nat /\ Len(t) \in Nat /\ Len(s \o t) = Len(s) + Len(t)
      /\ \A i \in 1..(Len(s) + Len(t)) :
           (s \o t)[i] = IF i <= Len(s) THEN s[i] ELSE t[i - Len(s)]
  BY ConcatProperties, LenProperties
<1>2. ASSUME NEW i \in 1..Len(s) PROVE (s \o t)[i] = s[i]
  BY <1>1
<1>3. ASSUME NEW i \in 1..Len(t) PROVE (s \o t)[Len(s) + i] = t[i]
  <2>1. Len(s) + i \in 1..(Len(s) + Len(t)) /\ ~(Len(s) + i <= Len(s)) /\ (Len(s) + i) - Len(s) = i
    BY <1>1
  <2> QED  BY <2>1, <1>1
<1> QED  BY <1>1, <1>2, <1>3

LEMMA Middle ==
  ASSUME NEW s \in Seq(Nat), NEW lo \in Nat \ {0}, NEW hi \in Nat, lo <= hi + 1, hi <= Len(s)
  PROVE  /\ SubSeq(s, lo, hi) \in Seq(Nat) /\ Len(SubSeq(s, lo, hi)) = hi - lo + 1
         /\ \A i \in 1..(hi - lo + 1) : SubSeq(s, lo, hi)[i] = s[lo + i - 1]
<1>1. \A i \in lo..hi : s[i] \in Nat
  <2>1. \A i \in lo..hi : i \in 1..Len(s)
    OBVIOUS
  <2> QED  BY <2>1
<1> QED  BY <1>1, SubSeqProperties

LEMMA WideFieldIs ==
  ASSUME FieldAssumption, NEW s \in Strs, Len(s) <= Width
  PROVE  /\ WideField(s) \in Seq(Nat) /\ Len(WideField(s)) = 2 * Width
         /\ \A j \in 1..Width : WideField(s)[2 * j - 1] = Letter(s, j)
<1>1. /\ Len(s) \in Nat /\ Width \in Nat /\ 2 * Len(s) \in Nat
      /\ \A j \in 1..Len(s) : s[j] \in Nat
  <2>1. Chars \subseteq Nat /\ Width \in Nat
    BY DEF FieldAssumption
  <2>2. Len(s) \in Nat /\ \A j \in 1..Len(s) : s[j] \in Chars
    BY DEF Strs
  <2>3. \A j \in 1..Len(s) : s[j] \in Nat
    BY <2>1, <2>2
  <2> QED  BY <2>1, <2>2, <2>3
<1>2. /\ Widen(s) \in Seq(Nat) /\ Len(Widen(s)) = 2 * Len(s)
      /\ \A j \in 1..Len(s) : Widen(s)[2 * j - 1] = s[j]
  <2>1. ASSUME NEW i \in 1..2 * Len(s)
        PROVE  (IF i % 2 = 1 THEN s[(i + 1) \div 2] ELSE 0) \in Nat
    <3>1. i % 2 = 1 => (i + 1) \div 2 \in 1..Len(s)
      BY <1>1
    <3> QED  BY <3>1, <1>1
  <2>2. Widen(s) \in Seq(Nat) /\ Len(Widen(s)) = 2 * Len(s)
    BY <2>1, <1>1 DEF Widen
  <2>3. ASSUME NEW j \in 1..Len(s) PROVE Widen(s)[2 * j - 1] = s[j]
    <3>1. 2 * j - 1 \in 1..2 * Len(s) /\ (2 * j - 1) % 2 = 1 /\ ((2 * j - 1) + 1) \div 2 = j
      BY <1>1
    <3> QED  BY <3>1 DEF Widen
  <2> QED  BY <2>2, <2>3
<1>3. PICK p : p = 2 * Width - 2 * Len(s)
  OBVIOUS
<1>4. p \in Nat /\ 2 * Len(s) + p = 2 * Width
  BY <1>1, <1>3
<1>5. Zeros(p) \in Seq(Nat) /\ Len(Zeros(p)) = p /\ \A i \in 1..p : Zeros(p)[i] = 0
  BY <1>4 DEF Zeros
<1>6. WideField(s) = Widen(s) \o Zeros(p)
  BY <1>3 DEF WideField
<1>7. /\ WideField(s) \in Seq(Nat) /\ Len(WideField(s)) = 2 * Width
      /\ \A i \in 1..2 * Len(s) : WideField(s)[i] = Widen(s)[i]
      /\ \A i \in 1..p : WideField(s)[2 * Len(s) + i] = 0
  <2>1. PICK x, z : x = Widen(s) /\ z = Zeros(p)
    OBVIOUS
  <2>2. x \in Seq(Nat) /\ z \in Seq(Nat) /\ Len(x) = 2 * Len(s) /\ Len(z) = p /\ \A i \in 1..p : z[i] = 0
    BY <2>1, <1>2, <1>5
  <2>3. /\ x \o z \in Seq(Nat) /\ Len(x \o z) = 2 * Width
        /\ \A i \in 1..2 * Len(s) : (x \o z)[i] = x[i]
        /\ \A i \in 1..p : (x \o z)[2 * Len(s) + i] = z[i]
    <3>1. /\ x \o z \in Seq(Nat) /\ Len(x \o z) = Len(x) + Len(z)
          /\ \A i \in 1..Len(x) : (x \o z)[i] = x[i]
          /\ \A i \in 1..Len(z) : (x \o z)[Len(x) + i] = z[i]
      BY <2>2, Joined
    <3> QED  BY <3>1, <2>2, <1>4
  <2> QED  BY <2>1, <2>2, <2>3, <1>6
<1>8. ASSUME NEW j \in 1..Width PROVE WideField(s)[2 * j - 1] = Letter(s, j)
  <2>1. CASE j <= Len(s)
    <3>1. j \in 1..Len(s) /\ 2 * j - 1 \in 1..2 * Len(s)
      BY <2>1, <1>1
    <3> QED  BY <3>1, <2>1, <1>2, <1>7 DEF Letter
  <2>2. CASE j > Len(s)
    <3>1. PICK i : i = 2 * j - 1 - 2 * Len(s)
      OBVIOUS
    <3>2. i \in 1..p /\ 2 * Len(s) + i = 2 * j - 1 /\ ~(j <= Len(s))
      BY <2>2, <3>1, <1>1, <1>3
    <3> QED  BY <3>2, <1>7 DEF Letter
  <2> QED  BY <2>1, <2>2, <1>1
<1> QED  BY <1>7, <1>8

\* Both fields, one behind the other.
LEMMA WholeIs ==
  ASSUME FieldAssumption, NEW name \in Strs, NEW password \in Strs,
         Len(name) <= Width, Len(password) <= Width
  PROVE  /\ Whole(name, password) \in Seq(Nat) /\ Len(Whole(name, password)) = Header + 4 * Width
         /\ \A j \in 1..Width :
              /\ Whole(name, password)[CellOf("name", j)] = Letter(name, j)
              /\ Whole(name, password)[CellOf("password", j)] = Letter(password, j)
<1>1. Header \in Nat /\ Width \in Nat
  BY DEF FieldAssumption
<1>2. PICK z, a, b : z = Zeros(Header) /\ a = WideField(name) /\ b = WideField(password)
  OBVIOUS
<1>3. z \in Seq(Nat) /\ Len(z) = Header
  BY <1>1, <1>2 DEF Zeros
<1>4. /\ a \in Seq(Nat) /\ Len(a) = 2 * Width /\ \A j \in 1..Width : a[2 * j - 1] = Letter(name, j)
      /\ b \in Seq(Nat) /\ Len(b) = 2 * Width /\ \A j \in 1..Width : b[2 * j - 1] = Letter(password, j)
  BY <1>2, WideFieldIs
<1>5. Whole(name, password) = (z \o a) \o b
  BY <1>2 DEF Whole
<1>6. /\ z \o a \in Seq(Nat) /\ Len(z \o a) = Header + 2 * Width
      /\ \A i \in 1..2 * Width : (z \o a)[Header + i] = a[i]
  <2>1. /\ z \o a \in Seq(Nat) /\ Len(z \o a) = Len(z) + Len(a)
        /\ \A i \in 1..Len(a) : (z \o a)[Len(z) + i] = a[i]
    BY <1>3, <1>4, Joined
  <2> QED  BY <2>1, <1>3, <1>4
<1>7. /\ Whole(name, password) \in Seq(Nat) /\ Len(Whole(name, password)) = Header + 4 * Width
      /\ \A i \in 1..Header + 2 * Width : Whole(name, password)[i] = (z \o a)[i]
      /\ \A i \in 1..2 * Width : Whole(name, password)[Header + 2 * Width + i] = b[i]
  <2>1. (Header + 2 * Width) + 2 * Width = Header + 4 * Width
    BY <1>1
  <2>2. PICK c : c = z \o a
    OBVIOUS
  <2>3. /\ c \o b \in Seq(Nat) /\ Len(c \o b) = Len(c) + Len(b)
        /\ \A i \in 1..Len(c) : (c \o b)[i] = c[i]
        /\ \A i \in 1..Len(b) : (c \o b)[Len(c) + i] = b[i]
    BY <2>2, <1>4, <1>6, Joined
  <2>4. Len(c) = Header + 2 * Width
    BY <2>2, <1>6
  <2> QED  BY <2>1, <2>2, <2>3, <2>4, <1>4, <1>5
<1>8. ASSUME NEW j \in 1..Width
      PROVE  /\ Whole(name, password)[CellOf("name", j)] = Letter(name, j)
             /\ Whole(name, password)[CellOf("password", j)] = Letter(password, j)
  <2>1. PICK i : i = 2 * j - 1
    OBVIOUS
  <2>2. /\ i \in 1..2 * Width /\ Header + i \in 1..Header + 2 * Width
        /\ CellOf("name", j) = Header + i
        /\ CellOf("password", j) = Header + 2 * Width + i
    BY <2>1, <1>1 DEF CellOf, FieldAt
  <2> QED  BY <2>1, <2>2, <1>4, <1>6, <1>7
<1> QED  BY <1>7, <1>8

-----------------------------------------------------------------------------
(* What was read *)

Reading == field \in {"name", "password", "listing"}

\* What arrived, and what was read of it so far.
Sent ==
  /\ typed.name \in Strs /\ typed.password \in Strs
  /\ Len(typed.name) <= Width /\ Len(typed.password) <= Width
  /\ packet \in Seq(Nat) /\ Len(packet) \in Header..(Header + 4 * Width)
  /\ \A i \in 1..Len(packet) : packet[i] = Whole(typed.name, typed.password)[i]

ReadSoFar(f) ==
  /\ read[f] \in Strs
  /\ \A j \in 1..Len(read[f]) : /\ CellOf(f, j) <= Len(packet)
                                /\ read[f][j] = packet[CellOf(f, j)]

\* Behind what was read there is a zero, or the packet ends.
Ended(f) ==
  LET behind == CellOf(f, Len(read[f]) + 1) IN behind > Len(packet) \/ packet[behind] = 0

ReadInv ==
  /\ field \in {"typing", "name", "password", "listing", "writing", "parsing", "transferred"}
  /\ read = [name |-> read.name, password |-> read.password]
  /\ ReadSoFar("name") /\ ReadSoFar("password")
  /\ Reading => Sent
  /\ ~Reading => typed = NoText /\ packet = <<>> /\ read = NoText
  /\ field \in {"name", "password"} => at = FieldAt(field) + 2 * Len(read[field])
  /\ field = "name" => read.password = <<>>
  /\ field \in {"password", "listing"} => Ended("name")
  /\ field = "listing" => Ended("password")

LEMMA ReadAtStart ==
  ASSUME FieldAssumption, FieldsInit
  PROVE  ReadInv
BY DEF FieldsInit, ReadInv, ReadSoFar, Reading, NoText, Strs

LEMMA ArriveStep ==
  ASSUME FieldAssumption, ReadInv, Arrive
  PROVE  ReadInv'
<1>1. PICK name \in Strings(MaxName), password \in Strings(MaxName) :
        /\ typed' = [name |-> name, password |-> password]
        /\ \E length \in Header..Len(Whole(name, password)) :
             packet' = SubSeq(Whole(name, password), 1, length)
  BY DEF Arrive, Whole
<1>2. /\ name \in Strs /\ password \in Strs /\ Len(name) <= Width /\ Len(password) <= Width
  BY DEF Strings, Strs, FieldAssumption
<1>3. PICK w : w = Whole(name, password)
  OBVIOUS
<1>4. w \in Seq(Nat) /\ Len(w) = Header + 4 * Width /\ Header \in Nat /\ Width \in Nat
  BY <1>2, <1>3, WholeIs DEF FieldAssumption
<1>5. PICK length \in Header..(Header + 4 * Width) : packet' = SubSeq(w, 1, length)
  BY <1>1, <1>3, <1>4
<1>6. packet' \in Seq(Nat) /\ Len(packet') = length /\ \A i \in 1..length : packet'[i] = w[i]
  BY <1>4, <1>5
<1>7. typed'.name = name /\ typed'.password = password
  BY <1>1
<1>8. Sent'
  BY <1>2, <1>3, <1>5, <1>6, <1>7 DEF Sent
<1>9. field' = "name" /\ read' = NoText /\ at' = FieldAt("name")
  BY DEF Arrive, ReadInv, Reading
<1> QED  BY <1>8, <1>9, <1>4 DEF ReadInv, ReadSoFar, Reading, NoText, Strs, FieldAt

\* A byte of the packet is a character or a zero, at the place of a character.
LEMMA ByteIsCharacter ==
  ASSUME FieldAssumption, Sent, NEW f \in {"name", "password"}, NEW j \in Nat \ {0},
         CellOf(f, j) <= Len(packet)
  PROVE  packet[CellOf(f, j)] \in Chars \cup {0}
<1>1. Header \in Nat /\ Width \in Nat
  BY DEF FieldAssumption
<1>2. /\ packet[CellOf(f, j)] = Whole(typed.name, typed.password)[CellOf(f, j)]
      /\ CellOf(f, j) <= Header + 4 * Width
  <2>1. CellOf(f, j) \in Nat \ {0}
    BY <1>1 DEF CellOf, FieldAt
  <2>2. Len(packet) \in Nat /\ Len(packet) <= Header + 4 * Width
    BY <1>1 DEF Sent
  <2>3. CellOf(f, j) \in 1..Len(packet)
    BY <2>1, <2>2
  <2> QED  BY <2>1, <2>2, <2>3, <1>1 DEF Sent
<1>3. PICK g \in {"name", "password"}, k \in 1..Width : CellOf(f, j) = CellOf(g, k)
  <2>1. CASE j <= Width
    BY <2>1, <1>1
  <2>2. CASE j > Width
    <3>1. f = "name" /\ j - Width \in 1..Width /\ CellOf(f, j) = CellOf("password", j - Width)
      BY <2>2, <1>1, <1>2 DEF CellOf, FieldAt
    <3> QED  BY <3>1
  <2> QED  BY <2>1, <2>2, <1>1
<1>4. packet[CellOf(f, j)] \in {Letter(typed.name, k), Letter(typed.password, k)}
  <2>1. /\ typed.name \in Strs /\ typed.password \in Strs
        /\ Len(typed.name) <= Width /\ Len(typed.password) <= Width
    BY DEF Sent
  <2>2. /\ Whole(typed.name, typed.password)[CellOf("name", k)] = Letter(typed.name, k)
        /\ Whole(typed.name, typed.password)[CellOf("password", k)] = Letter(typed.password, k)
    BY <2>1, WholeIs
  <2> QED  BY <2>2, <1>2, <1>3
<1>5. \A s \in Strs : Letter(s, k) \in Chars \cup {0}
  BY <1>1, <1>3 DEF Letter, Strs
<1> QED  BY <1>4, <1>5 DEF Sent

LEMMA ReadCharStep ==
  ASSUME FieldAssumption, ReadInv, ReadChar
  PROVE  ReadInv'
<1>1. PICK f \in {"name", "password"} : field = f
  BY DEF ReadChar
<1>2. PICK byte \in BytesAt(at) :
        IF GoesOn(byte)
        THEN /\ read' = [read EXCEPT ![f] = Append(@, byte)]
             /\ at' = at + CharBytes
             /\ UNCHANGED field
        ELSE /\ field' = NextField
             /\ at' = NextLoc
             /\ UNCHANGED read
  BY <1>1 DEF ReadChar
<1>3. UNCHANGED <<typed, packet>> /\ Sent /\ Sent'
  BY <1>1 DEF ReadChar, ReadInv, Reading, Sent
<1>4. PICK len : len = Len(read[f])
  OBVIOUS
<1>5. /\ Header \in Nat /\ Width \in Nat /\ len \in Nat /\ Len(packet) \in Nat
      /\ FieldAt(f) \in Nat /\ at = FieldAt(f) + 2 * len /\ CellOf(f, len + 1) = at + 1
  <2>1. Header \in Nat /\ Width \in Nat /\ FieldAt(f) \in Nat
    BY DEF FieldAssumption, FieldAt
  <2>2. len \in Nat /\ at = FieldAt(f) + 2 * len
    BY <1>1, <1>4 DEF ReadInv, ReadSoFar, Strs
  <2>3. Len(packet) \in Nat
    BY <1>3 DEF Sent
  <2> QED  BY <2>1, <2>2, <2>3 DEF CellOf
<1>6. at < Len(packet) => byte = packet[at + 1] /\ byte \in Chars \cup {0}
  <2> SUFFICES ASSUME at < Len(packet) PROVE byte = packet[at + 1] /\ byte \in Chars \cup {0}
    OBVIOUS
  <2>1. byte = packet[at + 1]
    BY <1>2 DEF BytesAt
  <2>2. CellOf(f, len + 1) <= Len(packet) /\ len + 1 \in Nat \ {0}
    BY <1>5
  <2>3. packet[CellOf(f, len + 1)] \in Chars \cup {0}
    BY <2>2, <1>3, ByteIsCharacter
  <2> QED  BY <2>1, <2>3, <1>5
<1>7. CASE GoesOn(byte)
  <2>1. at < Len(packet) /\ byte # 0
    BY <1>7, <1>5 DEF GoesOn, ReadInv
  <2>2. byte = packet[CellOf(f, len + 1)] /\ byte \in Chars /\ CellOf(f, len + 1) <= Len(packet)
    BY <2>1, <1>5, <1>6
  <2>3. read' = [read EXCEPT ![f] = Append(read[f], byte)] /\ at' = at + 2 /\ field' = f
    BY <1>1, <1>2, <1>7 DEF CharBytes
  <2>4. read[f] \in Strs /\ ReadSoFar(f)
    BY <1>1 DEF ReadInv, ReadSoFar
  <2>5. read'[f] = Append(read[f], byte) /\ \A g \in {"name", "password"} : g # f => read'[g] = read[g]
    BY <2>3, <1>1 DEF ReadInv
  <2>6. /\ read'[f] \in Strs /\ Len(read'[f]) = len + 1 /\ read'[f][len + 1] = byte
        /\ \A j \in 1..len : read'[f][j] = read[f][j]
    BY <2>2, <2>4, <2>5, <1>4 DEF Strs
  <2>7. ReadSoFar(f)'
    <3>1. ASSUME NEW j \in 1..(len + 1)
          PROVE  CellOf(f, j) <= Len(packet) /\ read'[f][j] = packet[CellOf(f, j)]
      <4>1. CASE j = len + 1
        BY <4>1, <2>2, <2>6
      <4>2. CASE j # len + 1
        <5>1. j \in 1..len
          BY <4>2, <1>5
        <5> QED  BY <5>1, <2>4, <2>6, <1>4 DEF ReadSoFar
      <4> QED  BY <4>1, <4>2
    <3>2. UNCHANGED packet /\ \A j : CellOf(f, j)' = CellOf(f, j)
      BY <1>3 DEF CellOf, FieldAt
    <3> QED  BY <3>1, <3>2, <2>6 DEF ReadSoFar
  <2>8. \A g \in {"name", "password"} : g # f => ReadSoFar(g)'
    BY <2>5, <1>3 DEF ReadInv, ReadSoFar, CellOf, FieldAt
  <2>9. at' = FieldAt(f) + 2 * Len(read'[f])
    <3>1. PICK k : k = Len(read'[f])
      OBVIOUS
    <3>2. k = len + 1 /\ at' = at + 2
      BY <3>1, <2>3, <2>6
    <3>3. at' = FieldAt(f) + 2 * k
      BY <3>2, <1>5
    <3> QED  BY <3>1, <3>3
  <2>10. read' = [name |-> read'.name, password |-> read'.password]
    BY <2>3 DEF ReadInv
  <2>11. f = "name" => read'.password = <<>>
    BY <2>5, <1>1 DEF ReadInv
  <2>12. f = "password" => Ended("name")'
    BY <2>5, <1>1, <1>3 DEF ReadInv, Ended, CellOf, FieldAt
  <2> QED  BY <2>3, <2>7, <2>8, <2>9, <2>10, <2>11, <2>12, <1>1, <1>3
           DEF ReadInv, Reading, FieldAt
<1>8. CASE ~GoesOn(byte)
  <2>1. field' = NextField /\ at' = NextLoc /\ read' = read
    BY <1>2, <1>8
  <2>2. at >= Len(packet) \/ packet[at + 1] = 0
    BY <1>5, <1>6, <1>8 DEF GoesOn
  <2>3. Ended(f)
    BY <2>2, <1>4, <1>5 DEF Ended
  <2>4. Ended(f)' /\ (Ended("name") => Ended("name")')
    BY <2>1, <2>3, <1>3 DEF Ended, CellOf, FieldAt
  <2>5. ReadSoFar("name")' /\ ReadSoFar("password")'
    BY <2>1, <1>3 DEF ReadInv, ReadSoFar, CellOf, FieldAt
  <2>6. CASE f = "name"
    <3>1. /\ field' = "password" /\ at' = FieldAt("password") + 2 * Len(read'.password)
          /\ read'.password = <<>>
      <4>1. read.password = <<>> /\ FieldAt("password") \in Nat
        BY <2>6, <1>1, <1>5 DEF ReadInv, FieldAt
      <4> QED  BY <4>1, <2>1, <2>6, <1>1 DEF NextField, NextLoc
    <3> QED  BY <3>1, <2>1, <2>4, <2>5, <2>6, <1>3 DEF ReadInv, Reading, FieldAt
  <2>7. CASE f = "password"
    <3>1. field' = "listing" /\ Ended("name")
      BY <2>1, <2>7, <1>1 DEF NextField, ReadInv
    <3> QED  BY <3>1, <2>1, <2>4, <2>5, <2>7, <1>3 DEF ReadInv, Reading
  <2> QED  BY <2>6, <2>7
<1> QED  BY <1>7, <1>8

LEMMA ReadStep ==
  ASSUME FieldAssumption, ReadInv, [FieldsNext]_fieldVars
  PROVE  ReadInv'
<1>1. CASE SelectRows
  BY <1>1 DEF SelectRows, ReadInv, ReadSoFar, Reading, NoText, Strs
<1>2. CASE WriteEntry \/ SendEntries \/ ParseEntry \/ Transfer
  <2>1. /\ field \in {"writing", "parsing"} /\ field' \in {"writing", "parsing", "transferred"}
        /\ UNCHANGED <<typed, packet, read>>
    BY <1>2 DEF WriteEntry, SendEntries, ParseEntry, Transfer
  <2> QED  BY <2>1 DEF ReadInv, ReadSoFar, Reading, CellOf, FieldAt
<1>3. CASE UNCHANGED fieldVars
  BY <1>3 DEF fieldVars, ReadInv, ReadSoFar, Reading, Sent, Ended, CellOf, FieldAt
<1> QED  BY <1>1, <1>2, <1>3, ArriveStep, ReadCharStep DEF FieldsNext

-----------------------------------------------------------------------------
(* What that means for what was typed *)

\* Where the cells hold a string that leaves room for its zero, it is what is
\* read, as much of it as arrived.
LEMMA FieldRead ==
  ASSUME FieldAssumption, ReadInv, field = "listing",
         NEW f \in {"name", "password"}, Len(typed[f]) < Width
  PROVE  read[f] = Arrived(f)
<1>1. PICK s, l, m, n : s = typed[f] /\ l = Len(s) /\ m = Len(read[f]) /\ n = Len(packet)
  OBVIOUS
<1>2. PICK base : base = FieldAt(f)
  OBVIOUS
<1>3. Sent /\ ReadSoFar(f) /\ Ended(f)
  BY DEF ReadInv, Reading
<1>4. /\ Width \in Nat /\ base \in Nat /\ s \in Strs /\ l \in Nat /\ m \in Nat /\ l < Width
      /\ read[f] \in Strs /\ n \in Nat /\ n <= Header + 4 * Width /\ Header \in Nat
  <2>1. Header \in Nat /\ Width \in Nat /\ base \in Nat
    BY <1>2 DEF FieldAssumption, FieldAt
  <2>2. s \in Strs /\ read[f] \in Strs /\ l < Width
    BY <1>1, <1>3 DEF Sent, ReadSoFar
  <2>3. l \in Nat /\ m \in Nat
    BY <2>2, <1>1 DEF Strs
  <2>4. n \in Header..(Header + 4 * Width)
    BY <1>1, <1>3 DEF Sent
  <2> QED  BY <2>1, <2>2, <2>3, <2>4
<1>5. \A j \in Nat : CellOf(f, j) = base + 2 * j - 1
  BY <1>2 DEF CellOf
<1>6. ASSUME NEW j \in 1..Width, CellOf(f, j) <= n
      PROVE  packet[CellOf(f, j)] = Letter(s, j)
  <2>1. CellOf(f, j) \in 1..n
    <3>1. j \in Nat /\ CellOf(f, j) = base + 2 * j - 1 /\ j >= 1
      BY <1>4, <1>5
    <3> QED  BY <3>1, <1>4, <1>6
  <2>2. packet[CellOf(f, j)] = Whole(typed.name, typed.password)[CellOf(f, j)]
    BY <2>1, <1>1, <1>3 DEF Sent
  <2>3. /\ typed.name \in Strs /\ typed.password \in Strs
        /\ Len(typed.name) <= Width /\ Len(typed.password) <= Width
    BY <1>3 DEF Sent
  <2>4. /\ Whole(typed.name, typed.password)[CellOf("name", j)] = Letter(typed.name, j)
        /\ Whole(typed.name, typed.password)[CellOf("password", j)] = Letter(typed.password, j)
    BY <2>3, WholeIs
  <2> QED  BY <2>2, <2>4, <1>1
<1>7. /\ \A j \in 1..m : CellOf(f, j) <= n /\ read[f][j] = packet[CellOf(f, j)] /\ read[f][j] \in Chars
      /\ CellOf(f, m + 1) > n \/ packet[CellOf(f, m + 1)] = 0
  BY <1>1, <1>3, <1>4 DEF ReadSoFar, Ended, Strs
<1>8. \A j \in 1..l : s[j] \in Chars
  BY <1>1, <1>4 DEF Strs
<1>9. 0 \notin Chars
  BY DEF FieldAssumption
<1>10. m <= l
  <2> SUFFICES ASSUME m > l PROVE FALSE
    BY <1>4
  <2>1. l + 1 \in 1..m /\ l + 1 \in 1..Width
    BY <1>4
  <2>2. read[f][l + 1] = Letter(s, l + 1) /\ read[f][l + 1] \in Chars
    BY <2>1, <1>6, <1>7
  <2> QED  BY <2>2, <1>1, <1>4, <1>9 DEF Letter
<1>11. \A j \in 1..m : read[f][j] = s[j]
  <2> SUFFICES ASSUME NEW j \in 1..m PROVE read[f][j] = s[j]
    OBVIOUS
  <2>1. j \in 1..Width /\ j <= l
    BY <1>4, <1>10
  <2> QED  BY <2>1, <1>1, <1>6, <1>7 DEF Letter
<1>12. m = l \/ base + 2 * m + 1 > n
  <2> SUFFICES ASSUME m < l, CellOf(f, m + 1) <= n PROVE FALSE
    BY <1>4, <1>5, <1>10
  <2>1. m + 1 \in 1..Width /\ m + 1 \in 1..l
    BY <1>4
  <2>2. packet[CellOf(f, m + 1)] = s[m + 1]
    BY <2>1, <1>1, <1>6 DEF Letter
  <2>3. packet[CellOf(f, m + 1)] = 0
    BY <1>4, <1>5, <1>7
  <2> QED  BY <2>1, <2>2, <2>3, <1>8, <1>9
<1>13. m = 0 \/ base + 2 * m - 1 <= n
  <2>1. CASE m # 0
    <3>1. m \in 1..m /\ CellOf(f, m) = base + 2 * m - 1
      BY <2>1, <1>4, <1>5
    <3>2. CellOf(f, m) <= n
      BY <3>1, <1>7
    <3> QED  BY <3>1, <3>2
  <2> QED  BY <2>1
<1>14. PICK a : a = IF n <= base THEN 0 ELSE (n - base + 1) \div 2
  OBVIOUS
<1>15. a \in Nat /\ m = IF l < a THEN l ELSE a
  <2>1. CASE n <= base
    BY <2>1, <1>4, <1>13, <1>14, <1>10
  <2>2. CASE n > base
    <3>1. a = (n - base + 1) \div 2 /\ a \in Nat /\ 2 * a <= n - base + 1 /\ n - base <= 2 * a
      BY <2>2, <1>4, <1>14
    <3> QED  BY <3>1, <1>4, <1>10, <1>12, <1>13
  <2> QED  BY <2>1, <2>2, <1>4
<1>16. Arrived(f) = SubSeq(s, 1, m)
  BY <1>1, <1>2, <1>14, <1>15 DEF Arrived, Shortest
<1>17. SubSeq(s, 1, m) \in Strs /\ Len(SubSeq(s, 1, m)) = m /\ \A j \in 1..m : SubSeq(s, 1, m)[j] = s[j]
  BY <1>1, <1>4, <1>10 DEF Strs
<1>18. SubSeq(s, 1, m) = read[f]
  BY <1>1, <1>4, <1>11, <1>17 DEF Strs
<1> QED  BY <1>16, <1>18

LEMMA NameRunsOn ==
  ASSUME FieldAssumption, ReadInv
  PROVE  FullNameRunsOn
<1> SUFFICES ASSUME field = "listing", Len(typed.name) = Width, Len(typed.password) < Width,
                    Len(packet) = Header + 4 * Width
             PROVE  read.name = typed.name \o typed.password
  BY DEF FullNameRunsOn
<1>1. PICK s, l, t, m : s = typed.password /\ l = Len(s) /\ t = typed.name /\ m = Len(read.name)
  OBVIOUS
<1>2. Sent /\ ReadSoFar("name") /\ Ended("name")
  BY DEF ReadInv, Reading
<1>3. Header \in Nat /\ Width \in Nat /\ 0 \notin Chars
  BY DEF FieldAssumption
<1>4. s \in Strs /\ t \in Strs /\ read.name \in Strs /\ Len(t) = Width /\ l < Width
  BY <1>1, <1>2 DEF Sent, ReadSoFar
<1>5. l \in Nat /\ m \in Nat
  BY <1>1, <1>4 DEF Strs
<1>6. PICK u : u = t \o s
  OBVIOUS
<1>7. /\ u \in Strs /\ Len(u) = Width + l
      /\ \A j \in 1..Width : u[j] = t[j]
      /\ \A j \in 1..(Width + l) : j > Width => u[j] = s[j - Width]
      /\ \A j \in 1..(Width + l) : u[j] \in Chars
  <2>1. /\ u \in Seq(Chars) /\ Len(u) = Len(t) + Len(s)
        /\ \A i \in 1..(Len(t) + Len(s)) : u[i] = IF i <= Len(t) THEN t[i] ELSE s[i - Len(t)]
    BY <1>4, <1>6, ConcatProperties DEF Strs
  <2>2. Len(u) = Width + l /\ \A i \in 1..(Width + l) : u[i] = IF i <= Width THEN t[i] ELSE s[i - Width]
    BY <2>1, <1>1, <1>4
  <2>3. \A j \in 1..Width : u[j] = t[j]
    BY <2>2, <1>3, <1>5
  <2>4. \A j \in 1..(Width + l) : j > Width => u[j] = s[j - Width]
    BY <2>2, <1>3, <1>5
  <2>5. \A j \in 1..(Width + l) : u[j] \in Chars
    BY <2>1, <2>2
  <2> QED  BY <2>1, <2>2, <2>3, <2>4, <2>5 DEF Strs
<1>8. ASSUME NEW j \in 1..2 * Width
      PROVE  CellOf("name", j) \in 1..Len(packet) /\ packet[CellOf("name", j)] = Letter(u, j)
  <2>1. CellOf("name", j) \in 1..Len(packet)
    BY <1>3 DEF CellOf, FieldAt
  <2>2. packet[CellOf("name", j)] = Whole(t, s)[CellOf("name", j)]
    BY <2>1, <1>1, <1>2 DEF Sent
  <2>3. \A k \in 1..Width : /\ Whole(t, s)[CellOf("name", k)] = Letter(t, k)
                            /\ Whole(t, s)[CellOf("password", k)] = Letter(s, k)
    <3>1. Len(t) <= Width /\ Len(s) <= Width
      BY <1>1, <1>3, <1>4, <1>5
    <3> QED  BY <3>1, <1>4, WholeIs
  <2>4. CASE j <= Width
    <3>1. j \in 1..Width /\ j <= Width + l
      BY <2>4, <1>3, <1>5
    <3> QED  BY <3>1, <2>1, <2>2, <2>3, <1>4, <1>7 DEF Letter
  <2>5. CASE j > Width
    <3>1. j - Width \in 1..Width /\ CellOf("name", j) = CellOf("password", j - Width)
      BY <2>5, <1>3 DEF CellOf, FieldAt
    <3>2. packet[CellOf("name", j)] = Letter(s, j - Width)
      BY <3>1, <2>2, <2>3
    <3>3. Letter(s, j - Width) = Letter(u, j)
      <4>1. CASE j - Width <= l
        <5>1. j \in 1..(Width + l) /\ j <= Width + l
          BY <4>1, <2>5, <1>3, <1>5
        <5> QED  BY <5>1, <4>1, <2>5, <1>1, <1>7 DEF Letter
      <4>2. CASE ~(j - Width <= l)
        <5>1. ~(j <= Width + l)
          BY <4>2, <1>3, <1>5
        <5> QED  BY <5>1, <4>2, <1>1, <1>7 DEF Letter
      <4> QED  BY <4>1, <4>2
    <3> QED  BY <3>2, <3>3, <2>1
  <2> QED  BY <2>4, <2>5, <1>3
<1>9. \A j \in 1..m : read.name[j] = packet[CellOf("name", j)] /\ read.name[j] \in Chars
                        /\ CellOf("name", j) <= Len(packet)
  BY <1>1, <1>2, <1>4 DEF ReadSoFar, Strs
<1>10. m <= Width + l
  <2> SUFFICES ASSUME m > Width + l PROVE FALSE
    BY <1>3, <1>5
  <2>1. PICK j : j = Width + l + 1
    OBVIOUS
  <2>2. j \in 1..m /\ j \in 1..2 * Width /\ ~(j <= Width + l)
    BY <2>1, <1>3, <1>4, <1>5
  <2>3. read.name[j] = 0
    BY <2>2, <1>7, <1>8, <1>9 DEF Letter
  <2> QED  BY <2>2, <2>3, <1>3, <1>9
<1>11. ~(m < Width + l)
  <2> SUFFICES ASSUME m < Width + l PROVE FALSE
    OBVIOUS
  <2>1. PICK j : j = m + 1
    OBVIOUS
  <2>2. j \in 1..2 * Width /\ j \in 1..(Width + l) /\ j <= Width + l
    BY <2>1, <1>3, <1>4, <1>5
  <2>3. packet[CellOf("name", j)] = u[j] /\ CellOf("name", j) <= Len(packet)
    <3>1. CellOf("name", j) \in 1..Len(packet) /\ Len(packet) \in Nat
      BY <2>2, <1>3, <1>8
    <3> QED  BY <3>1, <2>2, <1>7, <1>8 DEF Letter
  <2>4. CellOf("name", j) > Len(packet) \/ packet[CellOf("name", j)] = 0
    BY <2>1, <1>1, <1>2 DEF Ended
  <2>5. CellOf("name", j) \in Nat /\ Len(packet) \in Nat
    BY <2>2, <1>3 DEF CellOf, FieldAt
  <2> QED  BY <2>2, <2>3, <2>4, <2>5, <1>3, <1>7
<1>12. m = Width + l
  BY <1>3, <1>5, <1>10, <1>11
<1>13. ASSUME NEW j \in 1..m PROVE read.name[j] = u[j]
  <2>1. j \in 1..2 * Width /\ j <= Width + l
    BY <1>3, <1>4, <1>5, <1>12
  <2> QED  BY <2>1, <1>7, <1>8, <1>9 DEF Letter
<1>14. read.name = u
  <2>1. /\ read.name \in Seq(Chars) /\ u \in Seq(Chars) /\ Len(read.name) = Len(u)
        /\ \A j \in 1..Len(u) : read.name[j] = u[j]
    BY <1>1, <1>4, <1>7, <1>12, <1>13 DEF Strs
  <2> QED  BY <2>1, SeqEqual
<1> QED  BY <1>1, <1>6, <1>14

LEMMA ReadIsTyped ==
  ASSUME FieldAssumption, ReadInv
  PROVE  ReadsWhatWasTyped
<1>1. CASE field = "listing"
  BY <1>1, FieldRead DEF ReadsWhatWasTyped
<1>2. CASE ~Reading
  <2>1. \A f \in {"name", "password"} : typed[f] = <<>> /\ read[f] = <<>> /\ Len(packet) <= FieldAt(f)
    BY <1>2 DEF ReadInv, NoText, FieldAt, FieldAssumption
  <2>2. \A f \in {"name", "password"} : Arrived(f) = SubSeq(<<>>, 1, 0)
    BY <2>1 DEF Arrived, Shortest
  <2>3. SubSeq(<<>>, 1, 0) = <<>>
    OBVIOUS
  <2> QED  BY <2>1, <2>2, <2>3 DEF ReadsWhatWasTyped
<1> QED  BY <1>1, <1>2 DEF Reading, ReadsWhatWasTyped

\* What readWStringAsString returns is what was typed, as much of it as
\* arrived, whatever lies behind the end of the packet, whatever the width of
\* the fields and wherever the packet was cut.
THEOREM ReadAsTyped ==
  ASSUME FieldAssumption
  PROVE  FieldsSpec => []ReadsWhatWasTyped
<1>1. FieldsInit => ReadInv
  BY ReadAtStart
<1>2. ReadInv /\ [FieldsNext]_fieldVars => ReadInv'
  BY ReadStep
<1>3. ReadInv => ReadsWhatWasTyped
  BY ReadIsTyped
<1> QED  BY <1>1, <1>2, <1>3, PTL DEF FieldsSpec

\* A name that fills its field is always read on into the password.
THEOREM RunsIntoPassword ==
  ASSUME FieldAssumption
  PROVE  FieldsSpec => []FullNameRunsOn
<1>1. FieldsInit => ReadInv
  BY ReadAtStart
<1>2. ReadInv /\ [FieldsNext]_fieldVars => ReadInv'
  BY ReadStep
<1>3. ReadInv => FullNameRunsOn
  BY NameRunsOn
<1> QED  BY <1>1, <1>2, <1>3, PTL DEF FieldsSpec

-----------------------------------------------------------------------------
(* The list of minifigs *)

FigRow == [temp : {Generated}, name : Strs, items : Seq(Items)]

\* No name is longer than its field.
Fitting == \A k \in DOMAIN figs : Len(figs[k].name) <= Width

Size(fig) == 4 * Width + 1 + Len(fig.items)

\* The first k entries are written, and entry i ends at o[i].
Laid(k, o) ==
  /\ o \in [0..k -> Nat] /\ o[0] = 1 /\ Len(answer) = o[k]
  /\ \A i \in 1..k : o[i] = o[i - 1] + Size(figs[i])
  /\ \A i, j \in 0..k : i < j => o[i] < o[j]
  /\ \A i \in 1..k : \A c \in 1..Size(figs[i]) : answer[o[i - 1] + c] = ListEntry(figs[i])[c]

Parsing(o) ==
  /\ parsed \in Seq(FigRow) /\ Len(parsed) <= Len(figs)
  /\ \A i \in 1..Len(parsed) : parsed[i] = figs[i]
  /\ at = o[Len(parsed)]

ListInv ==
  /\ at \in Nat
  /\ field \in {"writing", "parsing"} =>
       figs \in Seq(FigRow) /\ answer \in Seq(Nat) /\ answer # <<>> /\ answer[1] = Len(figs)
  /\ field = "writing" => /\ at \in 1..(Len(figs) + 1) /\ parsed = <<>>
                          /\ Fitting => \E o : Laid(at - 1, o)
  /\ field = "parsing" => /\ at >= 1
                          /\ Fitting => \E o : Laid(Len(figs), o) /\ Parsing(o)
  /\ field \notin {"writing", "parsing"} => figs = <<>> /\ parsed = <<>>
  /\ field = "transferred" => Len(answer) = Width + 3 /\ answer[Width + 1] = Port

LEMMA GeneratedIs ==
  ASSUME FieldAssumption
  PROVE  Generated \in Strs /\ Len(Generated) = 1 /\ Len(Generated) <= Width
BY DEF Generated, FieldAssumption, Strs

\* The padding of a string that fits is what it lacks of its field.
LEMMA NameFieldIs ==
  ASSUME FieldAssumption, NEW s \in Strs
  PROVE  /\ NameField(s) \in Seq(Nat) /\ Len(NameField(s)) \in Nat
         /\ Len(s) <= Width => /\ Len(NameField(s)) = 2 * Width
                               /\ \A j \in 1..Width : NameField(s)[2 * j - 1] = Letter(s, j)
<1>1. Width \in Nat /\ Len(s) \in Nat /\ Word \in Nat /\ Word > 2 * Width
  BY DEF FieldAssumption, Strs
<1>2. Padding(s) \in Nat
  <2>1. PICK x : x = 2 * Width - 2 * Len(s)
    OBVIOUS
  <2>0. x \in Int
    BY <1>1, <2>1
  <2>2. Word \in Nat /\ Word > 0
    BY <1>1
  <2>3. x % Word \in Nat
    BY <2>0, <2>2
  <2> QED  BY <2>1, <2>3 DEF Padding
<1>3. Len(s) <= Width => Padding(s) = 2 * Width - 2 * Len(s)
  <2> SUFFICES ASSUME Len(s) <= Width PROVE Padding(s) = 2 * Width - 2 * Len(s)
    OBVIOUS
  <2>1. PICK x : x = 2 * Width - 2 * Len(s)
    OBVIOUS
  <2>2. x \in Nat /\ x < Word
    BY <1>1, <2>1
  <2>3. x % Word = x
    BY <1>1, <2>1, <2>2
  <2> QED  BY <2>1, <2>3 DEF Padding
<1>4. Widen(s) \in Seq(Nat)
  <2>1. Chars \subseteq Nat /\ \A j \in 1..Len(s) : s[j] \in Chars
    BY DEF FieldAssumption, Strs
  <2>2. ASSUME NEW i \in 1..2 * Len(s)
        PROVE  (IF i % 2 = 1 THEN s[(i + 1) \div 2] ELSE 0) \in Nat
    <3>1. i % 2 = 1 => (i + 1) \div 2 \in 1..Len(s)
      BY <1>1
    <3> QED  BY <3>1, <2>1
  <2> QED  BY <2>2, <1>1 DEF Widen
<1>5. Zeros(Padding(s)) \in Seq(Nat)
  BY <1>2 DEF Zeros
<1>6. NameField(s) \in Seq(Nat) /\ Len(NameField(s)) \in Nat
  BY <1>4, <1>5 DEF NameField
<1>7. Len(s) <= Width => NameField(s) = WideField(s)
  BY <1>3 DEF NameField, WideField
<1> QED  BY <1>6, <1>7, WideFieldIs

LEMMA EntryIs ==
  ASSUME FieldAssumption, NEW fig \in FigRow
  PROVE  /\ ListEntry(fig) \in Seq(Nat)
         /\ Len(fig.name) <= Width =>
              /\ Len(ListEntry(fig)) = Size(fig) /\ Size(fig) \in Nat /\ Size(fig) > 0
              /\ \A j \in 1..Width : /\ ListEntry(fig)[2 * j - 1] = Letter(fig.temp, j)
                                     /\ ListEntry(fig)[2 * Width + (2 * j - 1)] = Letter(fig.name, j)
              /\ ListEntry(fig)[4 * Width + 1] = Len(fig.items)
              /\ \A j \in 1..Len(fig.items) : ListEntry(fig)[4 * Width + 1 + j] = fig.items[j]
<1>1. PICK a, b, c, d : /\ a = NameField(fig.temp) /\ b = NameField(fig.name)
                        /\ c = <<Len(fig.items)>> /\ d = fig.items
  OBVIOUS
<1>2. fig.temp \in Strs /\ fig.temp = Generated /\ fig.name \in Strs /\ fig.items \in Seq(Items)
  BY GeneratedIs DEF FigRow
<1>3. a \in Seq(Nat) /\ b \in Seq(Nat)
  BY <1>1, <1>2, NameFieldIs
<1>4. c \in Seq(Nat) /\ Len(c) = 1 /\ c[1] = Len(d) /\ d \in Seq(Nat) /\ Len(d) \in Nat
  <2>1. d \in Seq(Items) /\ Items \subseteq Nat /\ Len(d) \in Nat
    BY <1>1, <1>2 DEF FieldAssumption
  <2>2. d \in Seq(Nat)
    BY <2>1, SeqMonotonic
  <2> QED  BY <2>1, <2>2, <1>1
<1>5. ListEntry(fig) = ((a \o b) \o c) \o d
  BY <1>1 DEF ListEntry
<1>6. /\ a \o b \in Seq(Nat) /\ Len(a \o b) = Len(a) + Len(b)
      /\ \A i \in 1..Len(a) : (a \o b)[i] = a[i]
      /\ \A i \in 1..Len(b) : (a \o b)[Len(a) + i] = b[i]
  BY <1>3, Joined
<1>7. PICK ab : ab = a \o b
  OBVIOUS
<1>8. /\ ab \o c \in Seq(Nat) /\ Len(ab \o c) = Len(ab) + Len(c)
      /\ \A i \in 1..Len(ab) : (ab \o c)[i] = ab[i]
      /\ \A i \in 1..Len(c) : (ab \o c)[Len(ab) + i] = c[i]
  BY <1>4, <1>6, <1>7, Joined
<1>9. PICK abc : abc = ab \o c
  OBVIOUS
<1>10. /\ abc \o d \in Seq(Nat) /\ Len(abc \o d) = Len(abc) + Len(d)
       /\ \A i \in 1..Len(abc) : (abc \o d)[i] = abc[i]
       /\ \A i \in 1..Len(d) : (abc \o d)[Len(abc) + i] = d[i]
  BY <1>4, <1>8, <1>9, Joined
<1>11. ListEntry(fig) = abc \o d
  BY <1>5, <1>7, <1>9
<1>12. ASSUME Len(fig.name) <= Width
       PROVE  /\ Len(ListEntry(fig)) = Size(fig) /\ Size(fig) \in Nat /\ Size(fig) > 0
              /\ \A j \in 1..Width : /\ ListEntry(fig)[2 * j - 1] = Letter(fig.temp, j)
                                     /\ ListEntry(fig)[2 * Width + (2 * j - 1)] = Letter(fig.name, j)
              /\ ListEntry(fig)[4 * Width + 1] = Len(fig.items)
              /\ \A j \in 1..Len(fig.items) : ListEntry(fig)[4 * Width + 1 + j] = fig.items[j]
  <2>1. Width \in Nat
    BY DEF FieldAssumption
  <2>2. /\ Len(a) = 2 * Width /\ \A j \in 1..Width : a[2 * j - 1] = Letter(fig.temp, j)
        /\ Len(b) = 2 * Width /\ \A j \in 1..Width : b[2 * j - 1] = Letter(fig.name, j)
    BY <1>1, <1>2, <1>12, NameFieldIs, GeneratedIs
  <2>3. Len(ab) = 4 * Width /\ ab \in Seq(Nat)
    BY <1>6, <1>7, <2>1, <2>2
  <2>4. Len(abc) = 4 * Width + 1 /\ abc \in Seq(Nat)
    BY <1>4, <1>8, <1>9, <2>1, <2>3
  <2>5. Len(ListEntry(fig)) = Size(fig) /\ Size(fig) \in Nat /\ Size(fig) > 0
    <3>1. Len(ListEntry(fig)) = (4 * Width + 1) + Len(d) /\ Len(d) \in Nat
      BY <1>4, <1>10, <1>11, <2>4
    <3>2. Size(fig) = (4 * Width + 1) + Len(d)
      BY <1>1 DEF Size
    <3> QED  BY <3>1, <3>2, <2>1
  <2>6. \A i \in 1..4 * Width : ListEntry(fig)[i] = ab[i]
    BY <1>8, <1>9, <1>10, <1>11, <2>1, <2>3, <2>4
  <2>7. ASSUME NEW j \in 1..Width
        PROVE  /\ ListEntry(fig)[2 * j - 1] = Letter(fig.temp, j)
               /\ ListEntry(fig)[2 * Width + (2 * j - 1)] = Letter(fig.name, j)
    <3>1. PICK i : i = 2 * j - 1
      OBVIOUS
    <3>2. i \in 1..2 * Width /\ i \in 1..4 * Width /\ 2 * Width + i \in 1..4 * Width
      BY <3>1, <2>1
    <3>3. ab[i] = a[i] /\ ab[2 * Width + i] = b[i]
      BY <3>2, <1>6, <1>7, <2>2
    <3> QED  BY <3>1, <3>2, <3>3, <2>2, <2>6
  <2>8. ListEntry(fig)[4 * Width + 1] = Len(fig.items)
    <3>1. 4 * Width + 1 \in 1..Len(abc) /\ 1 \in 1..Len(c)
      BY <2>1, <2>4, <1>4
    <3>2. abc[Len(ab) + 1] = c[1]
      BY <3>1, <1>8, <1>9
    <3> QED  BY <3>1, <3>2, <1>1, <1>4, <1>10, <1>11, <2>3
  <2>9. \A j \in 1..Len(fig.items) : ListEntry(fig)[4 * Width + 1 + j] = fig.items[j]
    BY <1>1, <1>10, <1>11, <2>4
  <2> QED  BY <2>5, <2>7, <2>8, <2>9
<1> QED  BY <1>10, <1>11, <1>12

\* The client reads a field back.
LEMMA StringAtIs ==
  ASSUME FieldAssumption, NEW s \in Strs, Len(s) <= Width, NEW bytes,
         \A j \in 1..Width : bytes[2 * j - 1] = Letter(s, j)
  PROVE  StringAt(bytes) = s
<1>1. PICK lows : lows = [i \in 1..Width |-> bytes[2 * i - 1]]
  OBVIOUS
<1>2. Width \in Nat /\ Len(s) \in Nat /\ 0 \notin Chars /\ \A j \in 1..Len(s) : s[j] \in Chars
  BY DEF FieldAssumption, Strs
<1>3. PICK ends : ends = {n \in 0..Width : n = Width \/ lows[n + 1] = 0}
  OBVIOUS
<1>4. \A j \in 1..Width : lows[j] = Letter(s, j)
  BY <1>1
<1>5. Len(s) \in ends
  <2>1. CASE Len(s) = Width
    BY <2>1, <1>2, <1>3
  <2>2. CASE Len(s) < Width
    <3>1. Len(s) + 1 \in 1..Width /\ ~(Len(s) + 1 <= Len(s))
      BY <2>2, <1>2
    <3> QED  BY <3>1, <2>2, <1>2, <1>3, <1>4 DEF Letter
  <2> QED  BY <2>1, <2>2, <1>2
<1>6. ASSUME NEW e \in ends PROVE Len(s) <= e
  <2> SUFFICES ASSUME e < Len(s) PROVE FALSE
    BY <1>2, <1>3
  <2>1. e \in 0..Width /\ e # Width /\ e + 1 \in 1..Len(s) /\ e + 1 \in 1..Width /\ e + 1 <= Len(s)
    BY <1>2, <1>3
  <2>2. lows[e + 1] = s[e + 1]
    BY <2>1, <1>4 DEF Letter
  <2> QED  BY <2>1, <2>2, <1>2, <1>3
<1>7. ends \subseteq Nat
  BY <1>2, <1>3
<1>8. (CHOOSE n \in ends : \A e \in ends : n <= e) = Len(s)
  <2>1. \A n \in ends : (\A e \in ends : n <= e) => n = Len(s)
    BY <1>2, <1>5, <1>6, <1>7
  <2> QED  BY <2>1, <1>5, <1>6
<1>9. StringAt(bytes) = SubSeq(lows, 1, Len(s))
  BY <1>1, <1>3, <1>8 DEF StringAt
<1>10. \A j \in 1..Width : lows[j] \in Chars \cup {0}
  BY <1>2, <1>4 DEF Letter
<1>11. lows \in Seq(Chars \cup {0}) /\ Len(lows) = Width
  BY <1>1, <1>2, <1>10
<1>12. SubSeq(lows, 1, Len(s)) = [i \in 1..Len(s) |-> lows[i]]
  BY <1>2, <1>11
<1>13. \A i \in 1..Len(s) : lows[i] = s[i]
  BY <1>2, <1>4 DEF Letter
<1> QED  BY <1>9, <1>12, <1>13, <1>2 DEF Strs

LEMMA ListAtStart ==
  ASSUME FieldAssumption, FieldsInit
  PROVE  ListInv
BY DEF FieldsInit, ListInv

LEMMA SelectRowsStep ==
  ASSUME FieldAssumption, ReadInv, ListInv, SelectRows
  PROVE  ListInv'
<1>1. PICK n \in 0..MaxFigs : figs' \in [1..n -> Rows]
  BY DEF SelectRows
<1>2. /\ field' = "writing" /\ answer' = <<Len(figs')>> /\ at' = 1 /\ parsed' = <<>>
  BY DEF SelectRows, ListInv
<1>3. Rows \subseteq FigRow
  <2>1. typed.name \in Strs /\ read.name \in Strs
    BY DEF SelectRows, ReadInv, Reading, Sent, ReadSoFar
  <2>2. \A lot \in Items : <<lot>> \in Seq(Items) /\ <<lot, lot>> \in Seq(Items)
    OBVIOUS
  <2>3. <<>> \in Seq(Items)
    OBVIOUS
  <2>4. {<<>>} \cup {<<lot>> : lot \in Items} \cup {<<lot, lot>> : lot \in Items} \subseteq Seq(Items)
    BY <2>2, <2>3
  <2> QED  BY <2>1, <2>4 DEF Rows, FigRow
<1>4. n \in Nat /\ figs' \in Seq(FigRow) /\ Len(figs') = n
  BY <1>1, <1>3 DEF FieldAssumption
<1>5. answer' \in Seq(Nat) /\ answer' # <<>> /\ answer'[1] = Len(figs') /\ Len(answer') = 1
  BY <1>2, <1>4
<1>6. PICK o : o = [i \in 0..0 |-> 1]
  OBVIOUS
<1>7. Laid(0, o)'
  BY <1>5, <1>6 DEF Laid
<1>8. at' - 1 = 0 /\ at' \in 1..(Len(figs') + 1)
  BY <1>2, <1>4
<1>9. (\E p : Laid(at - 1, p))'
  BY <1>7, <1>8
<1> QED  BY <1>2, <1>4, <1>5, <1>8, <1>9 DEF ListInv

LEMMA WriteEntryStep ==
  ASSUME FieldAssumption, ListInv, WriteEntry
  PROVE  ListInv'
<1>1. /\ field = "writing" /\ at <= Len(figs) /\ answer' = answer \o ListEntry(figs[at]) /\ at' = at + 1
      /\ UNCHANGED <<field, figs, parsed>>
  BY DEF WriteEntry
<1>2. /\ figs \in Seq(FigRow) /\ answer \in Seq(Nat) /\ answer # <<>> /\ answer[1] = Len(figs)
      /\ at \in 1..Len(figs) /\ Len(figs) \in Nat /\ parsed = <<>> /\ figs[at] \in FigRow
  BY <1>1 DEF ListInv
<1>3. PICK e, n : e = ListEntry(figs[at]) /\ n = Len(answer)
  OBVIOUS
<1>4. e \in Seq(Nat)
  BY <1>2, <1>3, EntryIs
<1>5. /\ answer' \in Seq(Nat) /\ n \in Nat /\ n >= 1 /\ Len(answer') = n + Len(e)
      /\ \A i \in 1..n : answer'[i] = answer[i]
      /\ \A i \in 1..Len(e) : answer'[n + i] = e[i]
  <2>1. n \in Nat /\ n >= 1
    BY <1>2, <1>3, EmptySeq
  <2> QED  BY <2>1, <1>1, <1>2, <1>3, <1>4, Joined
<1>6. answer' # <<>> /\ answer'[1] = Len(figs)
  <2>1. Len(answer') >= 1 /\ 1 \in 1..n
    <3>1. Len(e) \in Nat
      BY <1>4
    <3> QED  BY <3>1, <1>5
  <2> QED  BY <2>1, <1>2, <1>5
<1>11. PICK k : k = at
  OBVIOUS
<1>7. ASSUME Fitting PROVE \E p : Laid(k, p)'
  <2>1. PICK o : Laid(at - 1, o)
    BY <1>1, <1>7 DEF ListInv
  <2>2. k = at
    BY <1>11
  <2>3. k \in Nat /\ k >= 1 /\ k - 1 \in Nat
    BY <2>2, <1>2
  <2>4. /\ o \in [0..(k - 1) -> Nat] /\ o[0] = 1 /\ n = o[k - 1]
        /\ \A i \in 1..(k - 1) : o[i] = o[i - 1] + Size(figs[i])
        /\ \A i, j \in 0..(k - 1) : i < j => o[i] < o[j]
        /\ \A i \in 1..(k - 1) : \A c \in 1..Size(figs[i]) : answer[o[i - 1] + c] = ListEntry(figs[i])[c]
    BY <2>1, <2>2, <1>3 DEF Laid
  <2>5. PICK size : size = Size(figs[k])
    OBVIOUS
  <2>6. size \in Nat /\ size > 0 /\ Len(e) = size
    BY <2>2, <2>5, <1>2, <1>3, <1>7, EntryIs DEF Fitting
  <2>7. PICK p : p = [i \in 0..k |-> IF i = k THEN n + size ELSE o[i]]
    OBVIOUS
  <2>8. p[k] = n + size /\ \A i \in 0..(k - 1) : p[i] = o[i]
    BY <2>3, <2>7
  <2>9. p \in [0..k -> Nat]
    <3>1. ASSUME NEW i \in 0..k PROVE (IF i = k THEN n + size ELSE o[i]) \in Nat
      <4>1. i = k \/ i \in 0..(k - 1)
        BY <2>3
      <4>2. n + size \in Nat
        BY <2>6, <1>5
      <4> QED  BY <4>1, <4>2, <2>4
    <3> QED  BY <3>1, <2>7
  <2>10. p[0] = 1
    BY <2>3, <2>4, <2>8
  <2>11. Len(answer') = p[k]
    BY <1>5, <2>6, <2>8
  <2>12. ASSUME NEW i \in 1..k PROVE p[i] = p[i - 1] + Size(figs[i])
    <3>1. i - 1 \in 0..(k - 1) /\ (i = k \/ (i \in 1..(k - 1) /\ i \in 0..(k - 1)))
      BY <2>3
    <3>2. CASE i = k
      BY <3>1, <3>2, <2>4, <2>5, <2>8
    <3>3. CASE i \in 1..(k - 1)
      BY <3>1, <3>3, <2>4, <2>8
    <3> QED  BY <3>1, <3>2, <3>3
  <2>13. ASSUME NEW i \in 0..k, NEW j \in 0..k, i < j PROVE p[i] < p[j]
    <3>1. i \in 0..(k - 1) /\ (j = k \/ j \in 0..(k - 1)) /\ k - 1 \in 0..(k - 1)
      BY <2>3, <2>13
    <3>2. CASE j = k
      <4>1. o[i] <= o[k - 1]
        <5>1. i = k - 1 \/ i < k - 1
          BY <3>1, <2>3
        <5> QED  BY <5>1, <3>1, <2>4
      <4>2. o[i] \in Nat /\ o[k - 1] = n
        BY <3>1, <2>4
      <4> QED  BY <3>1, <3>2, <4>1, <4>2, <2>6, <2>8, <1>5
    <3>3. CASE j \in 0..(k - 1)
      BY <3>1, <3>3, <2>4, <2>8, <2>13
    <3> QED  BY <3>1, <3>2, <3>3
  <2>14. ASSUME NEW i \in 1..k, NEW c \in 1..Size(figs[i])
         PROVE  answer'[p[i - 1] + c] = ListEntry(figs[i])[c]
    <3>1. i - 1 \in 0..(k - 1) /\ (i = k \/ (i \in 1..(k - 1) /\ i \in 0..(k - 1)))
      BY <2>3
    <3>2. CASE i = k
      <4>1. p[i - 1] = n /\ c \in 1..Len(e) /\ ListEntry(figs[i]) = e
        BY <3>1, <3>2, <2>2, <2>4, <2>5, <2>6, <2>8, <1>3
      <4> QED  BY <4>1, <1>5
    <3>3. CASE i \in 1..(k - 1)
      <4>1. p[i - 1] = o[i - 1] /\ o[i - 1] \in Nat /\ o[i] \in Nat /\ o[i] = o[i - 1] + Size(figs[i])
        BY <3>1, <3>3, <2>4, <2>8
      <4>2. o[i] <= n
        <5>1. i = k - 1 \/ i < k - 1
          BY <3>3, <2>3
        <5>2. k - 1 \in 0..(k - 1) /\ i \in 0..(k - 1)
          BY <3>3, <2>3
        <5> QED  BY <5>1, <5>2, <2>4, <4>1
      <4>3. Size(figs[i]) \in Nat
        <5>1. i \in DOMAIN figs /\ figs[i] \in FigRow
          BY <3>3, <2>2, <2>3, <1>2
        <5> QED  BY <5>1, <1>7, EntryIs DEF Fitting
      <4>4. o[i - 1] + c \in 1..n
        <5>1. PICK x, y, z : x = o[i - 1] /\ y = o[i] /\ z = Size(figs[i])
          OBVIOUS
        <5>2. x \in Nat /\ y \in Nat /\ y = x + z /\ y <= n /\ z \in Nat /\ c \in 1..z
          BY <5>1, <4>1, <4>2, <4>3
        <5>3. x + c \in 1..n
          BY <5>2, <1>5
        <5> QED  BY <5>1, <5>3
      <4> QED  BY <4>1, <4>4, <3>3, <2>4, <1>5
    <3> QED  BY <3>1, <3>2, <3>3
  <2>15. Laid(k, p)'
    <3>1. \A i : Size(figs[i])' = Size(figs[i]) /\ ListEntry(figs[i])' = ListEntry(figs[i])
      BY <1>1 DEF Size, ListEntry
    <3> QED  BY <3>1, <2>9, <2>10, <2>11, <2>12, <2>13, <2>14, <1>1 DEF Laid
  <2> QED  BY <2>15
<1>8. at' - 1 = k /\ at' \in 1..(Len(figs) + 1) /\ at' \in Nat
  BY <1>1, <1>2, <1>11
<1>9. Fitting' = Fitting
  BY <1>1 DEF Fitting
<1>10. Fitting' => (\E p : Laid(at - 1, p))'
  BY <1>7, <1>8, <1>9
<1> QED  BY <1>1, <1>2, <1>5, <1>6, <1>8, <1>10 DEF ListInv

LEMMA SendListStep ==
  ASSUME FieldAssumption, ListInv, SendEntries
  PROVE  ListInv'
<1>1. /\ field = "writing" /\ at > Len(figs) /\ field' = "parsing" /\ at' = 1
      /\ UNCHANGED <<figs, answer, parsed>>
  BY DEF SendEntries
<1>2. /\ figs \in Seq(FigRow) /\ answer \in Seq(Nat) /\ answer # <<>> /\ answer[1] = Len(figs)
      /\ at \in 1..(Len(figs) + 1) /\ Len(figs) \in Nat /\ parsed = <<>>
  BY <1>1 DEF ListInv
<1>3. at - 1 = Len(figs)
  BY <1>1, <1>2
<1>4. ASSUME Fitting PROVE \E o : (Laid(Len(figs), o) /\ Parsing(o))'
  <2>1. PICK o : Laid(Len(figs), o)
    BY <1>1, <1>3, <1>4 DEF ListInv
  <2>2. Laid(Len(figs), o)'
    BY <2>1, <1>1 DEF Laid, Size, ListEntry
  <2>3. Len(parsed) = 0 /\ parsed' = <<>> /\ o[0] = 1
    BY <2>1, <1>1, <1>2 DEF Laid
  <2>4. Parsing(o)'
    BY <2>3, <1>1, <1>2 DEF Parsing
  <2> QED  BY <2>2, <2>4
<1>5. Fitting' = Fitting
  BY <1>1 DEF Fitting
<1> QED  BY <1>1, <1>2, <1>4, <1>5 DEF ListInv

LEMMA ParseEntryStep ==
  ASSUME FieldAssumption, ListInv, ParseEntry
  PROVE  ListInv'
<1>1. PICK nameAt, countAt, items :
        /\ nameAt = at + 2 * Width /\ countAt = nameAt + 2 * Width /\ items = answer[countAt + 1]
        /\ countAt < Len(answer) /\ countAt + 1 + items <= Len(answer)
        /\ parsed' = Append(parsed,
             [temp |-> StringAt(SubSeq(answer, at + 1, nameAt)),
              name |-> StringAt(SubSeq(answer, nameAt + 1, countAt)),
              items |-> SubSeq(answer, countAt + 2, countAt + 1 + items)])
        /\ at' = countAt + 1 + items
  BY DEF ParseEntry
<1>2. /\ field = "parsing" /\ Len(parsed) < answer[1] /\ UNCHANGED <<field, figs, answer>>
  BY DEF ParseEntry
<1>3. /\ figs \in Seq(FigRow) /\ answer \in Seq(Nat) /\ answer # <<>> /\ answer[1] = Len(figs)
      /\ at \in Nat /\ at >= 1 /\ Len(figs) \in Nat /\ Len(answer) \in Nat /\ Width \in Nat
  BY <1>2 DEF ListInv, FieldAssumption
<1>4. countAt \in Nat /\ countAt = at + 4 * Width /\ nameAt = at + 2 * Width
  BY <1>1, <1>3
<1>9. /\ items = answer[countAt + 1] /\ countAt < Len(answer) /\ countAt + 1 + items <= Len(answer)
      /\ at' = countAt + 1 + items
  BY <1>1
<1>5. items \in Nat
  <2>1. countAt + 1 \in 1..Len(answer)
    BY <1>3, <1>4, <1>9
  <2> QED  BY <2>1, <1>3, <1>9
<1>6. at' \in Nat /\ at' >= 1
  BY <1>4, <1>5, <1>9
<1>7. Fitting' = Fitting
  BY <1>2 DEF Fitting
<1>8. ASSUME Fitting PROVE \E o : (Laid(Len(figs), o) /\ Parsing(o))'
  <2>1. PICK o : Laid(Len(figs), o) /\ Parsing(o)
    BY <1>2, <1>8 DEF ListInv
  <2>2. PICK k, fig : k = Len(parsed) + 1 /\ fig = figs[k]
    OBVIOUS
  <2>3. /\ parsed \in Seq(FigRow) /\ k \in 1..Len(figs) /\ Len(parsed) \in Nat /\ k - 1 = Len(parsed)
        /\ k \in Nat /\ at = o[k - 1] /\ fig \in FigRow /\ Len(fig.name) <= Width
    BY <2>1, <2>2, <1>2, <1>3, <1>8 DEF Parsing, Fitting
  <2>4. /\ o[k] = at + Size(fig) /\ o[k] \in Nat /\ o[k] <= Len(answer)
        /\ \A c \in 1..Size(fig) : answer[at + c] = ListEntry(fig)[c]
    <3>1. /\ o \in [0..Len(figs) -> Nat] /\ o[k] = o[k - 1] + Size(figs[k]) /\ Len(answer) = o[Len(figs)]
          /\ \A i, j \in 0..Len(figs) : i < j => o[i] < o[j]
          /\ \A c \in 1..Size(figs[k]) : answer[o[k - 1] + c] = ListEntry(figs[k])[c]
      BY <2>1, <2>3 DEF Laid
    <3>2. k \in 0..Len(figs) /\ Len(figs) \in 0..Len(figs) /\ (k = Len(figs) \/ k < Len(figs))
      BY <2>3, <1>3
    <3>3. o[k] \in Nat /\ o[k] <= Len(answer)
      BY <3>1, <3>2
    <3> QED  BY <3>1, <3>3, <2>2, <2>3
  <2>5. PICK n : n = Len(fig.items)
    OBVIOUS
  <2>6. /\ n \in Nat /\ Size(fig) = 4 * Width + 1 + n
        /\ \A j \in 1..Width : /\ ListEntry(fig)[2 * j - 1] = Letter(fig.temp, j)
                               /\ ListEntry(fig)[2 * Width + (2 * j - 1)] = Letter(fig.name, j)
        /\ ListEntry(fig)[4 * Width + 1] = n
        /\ \A j \in 1..n : ListEntry(fig)[4 * Width + 1 + j] = fig.items[j]
    <3>1. n \in Nat
      BY <2>3, <2>5 DEF FigRow
    <3> QED  BY <3>1, <2>3, <2>5, EntryIs DEF Size
  <2>7. items = n
    <3>1. 4 * Width + 1 \in 1..Size(fig) /\ countAt + 1 = at + (4 * Width + 1)
      BY <1>3, <1>4, <2>6
    <3> QED  BY <3>1, <2>4, <2>6, <1>9
  <2>8. at' = o[k]
    <3>1. at' = countAt + 1 + n
      BY <1>9, <2>7
    <3> QED  BY <3>1, <1>3, <1>4, <2>4, <2>6
  <2>9. PICK b, d : b = SubSeq(answer, at + 1, nameAt) /\ d = SubSeq(answer, nameAt + 1, countAt)
    OBVIOUS
  <2>10. /\ countAt <= Len(answer) /\ nameAt \in Nat
         /\ \A i \in 1..2 * Width : b[i] = answer[at + i]
         /\ \A i \in 1..2 * Width : d[i] = answer[at + (2 * Width + i)]
    <3>1. countAt <= Len(answer) /\ nameAt \in Nat /\ nameAt <= Len(answer)
      BY <1>3, <1>4, <1>9
    <3>2. ASSUME NEW i \in 1..2 * Width PROVE b[i] = answer[at + i]
      <4>1. i \in 1..(nameAt - (at + 1) + 1) /\ (at + 1) + i - 1 = at + i /\ at + 1 \in 1..Len(answer)
        BY <1>3, <1>4, <3>1
      <4> QED  BY <4>1, <3>1, <1>3, <2>9
    <3>3. ASSUME NEW i \in 1..2 * Width PROVE d[i] = answer[at + (2 * Width + i)]
      <4>1. /\ i \in 1..(countAt - (nameAt + 1) + 1) /\ (nameAt + 1) + i - 1 = at + (2 * Width + i)
            /\ nameAt + 1 \in 1..Len(answer)
        BY <1>3, <1>4, <3>1
      <4> QED  BY <4>1, <3>1, <1>3, <1>4, <2>9
    <3> QED  BY <3>1, <3>2, <3>3
  <2>11. ASSUME NEW j \in 1..Width
         PROVE  b[2 * j - 1] = Letter(fig.temp, j) /\ d[2 * j - 1] = Letter(fig.name, j)
    <3>1. PICK i : i = 2 * j - 1
      OBVIOUS
    <3>2. i \in 1..2 * Width /\ i \in 1..Size(fig) /\ 2 * Width + i \in 1..Size(fig)
      BY <3>1, <1>3, <2>6
    <3>3. b[i] = ListEntry(fig)[i] /\ d[i] = ListEntry(fig)[2 * Width + i]
      BY <3>2, <2>4, <2>10
    <3> QED  BY <3>1, <3>3, <2>6
  <2>12. StringAt(b) = fig.temp /\ StringAt(d) = fig.name
    <3>1. fig.temp \in Strs /\ Len(fig.temp) <= Width /\ fig.name \in Strs
      BY <2>3, GeneratedIs DEF FigRow
    <3> QED  BY <3>1, <2>3, <2>11, StringAtIs
  <2>13. SubSeq(answer, countAt + 2, countAt + 1 + items) = fig.items
    <3>1. PICK x, lo, hi : lo = countAt + 2 /\ hi = countAt + 1 + items /\ x = SubSeq(answer, lo, hi)
      OBVIOUS
    <3>2. lo \in Nat /\ hi \in Nat /\ lo >= 1 /\ hi <= Len(answer) /\ hi = lo + n - 1 /\ lo = at + 4 * Width + 2
      <4>1. hi <= Len(answer)
        BY <3>1, <1>9
      <4> QED  BY <4>1, <3>1, <1>3, <1>4, <1>5, <2>6, <2>7
    <3>3. x = [i \in 1..n |-> answer[lo + i - 1]]
      <4>1. hi - lo + 1 = n
        BY <3>2, <2>6
      <4>2. x \in Seq(Nat) /\ Len(x) = n /\ \A i \in 1..n : x[i] = answer[lo + i - 1]
        <5>1. lo \in Nat \ {0} /\ lo <= hi + 1
          BY <3>2, <2>6
        <5> QED  BY <5>1, <4>1, <3>1, <3>2, <1>3, Middle
      <4> QED  BY <4>2
    <3>4. ASSUME NEW i \in 1..n PROVE answer[lo + i - 1] = fig.items[i]
      <4>1. /\ 4 * Width + 1 + i \in 1..Size(fig) /\ lo + i - 1 = at + (4 * Width + 1 + i)
        BY <1>3, <2>6, <3>2
      <4> QED  BY <4>1, <2>4, <2>6
    <3>5. fig.items = [i \in 1..n |-> fig.items[i]]
      BY <2>3, <2>5 DEF FigRow
    <3> QED  BY <3>1, <3>3, <3>4, <3>5
  <2>14. parsed' = Append(parsed, fig)
    <3>1. fig = [temp |-> fig.temp, name |-> fig.name, items |-> fig.items]
      BY <2>3 DEF FigRow
    <3> QED  BY <3>1, <2>9, <2>12, <2>13, <1>1
  <2>15. /\ parsed' \in Seq(FigRow) /\ Len(parsed') = k /\ parsed'[k] = fig
         /\ \A i \in 1..(k - 1) : parsed'[i] = figs[i]
    BY <2>1, <2>2, <2>3, <2>14 DEF Parsing
  <2>16. Parsing(o)'
    <3>1. ASSUME NEW i \in 1..k PROVE parsed'[i] = figs[i]
      <4>1. i = k \/ i \in 1..(k - 1)
        BY <2>3
      <4> QED  BY <4>1, <2>2, <2>15
    <3> QED  BY <3>1, <2>3, <2>8, <2>15, <1>2 DEF Parsing
  <2>17. Laid(Len(figs), o)'
    BY <2>1, <1>2 DEF Laid, Size, ListEntry
  <2> QED  BY <2>16, <2>17
<1> QED  BY <1>2, <1>3, <1>6, <1>7, <1>8 DEF ListInv

\* The length of the address does not move the port.
LEMMA TransferStep ==
  ASSUME FieldAssumption, ListInv, Transfer
  PROVE  ListInv'
<1>1. PICK sIP \in Strings(Width + 1) : answer' = StringField(sIP, Width) \o <<Port, Port, 0>>
  BY DEF Transfer
<1>2. sIP \in Seq(Nat) /\ Len(sIP) \in Nat /\ Width \in Nat
  <2>1. Width \in Nat /\ Chars \subseteq Nat
    BY DEF FieldAssumption
  <2>2. PICK k \in 0..(Width + 1) : sIP \in [1..k -> Chars]
    BY DEF Strings
  <2>3. sIP \in Seq(Nat) /\ Len(sIP) = k /\ k \in Nat
    <3>1. k \in Nat /\ sIP \in [1..k -> Chars]
      BY <2>1, <2>2
    <3>2. sIP \in Seq(Chars) /\ Len(sIP) = k
      BY <3>1
    <3> QED  BY <3>1, <3>2, <2>1, SeqMonotonic
  <2> QED  BY <2>1, <2>3
<1>3. PICK z : z = StringField(sIP, Width)
  OBVIOUS
<1>4. z \in Seq(Nat) /\ Len(z) = Width
  <2>1. CASE Len(sIP) > Width
    <3>1. SubSeq(sIP, 1, Width) \in Seq(Nat) /\ Len(SubSeq(sIP, 1, Width)) = Width
      BY <2>1, <1>2
    <3>2. ~(Width > Len(sIP))
      BY <2>1, <1>2
    <3>3. z = SubSeq(sIP, 1, Width) \o <<>>
      BY <2>1, <3>2, <1>3, Zenon DEF StringField
    <3>4. PICK x : x = SubSeq(sIP, 1, Width)
      OBVIOUS
    <3>5. x \o <<>> = x
      BY <3>1, <3>4
    <3> QED  BY <3>1, <3>3, <3>4, <3>5
  <2>2. CASE Len(sIP) <= Width
    <3>1. PICK p : p = Width - Len(sIP)
      OBVIOUS
    <3>2. p \in Nat /\ Zeros(p) \in Seq(Nat) /\ Len(Zeros(p)) = p
      BY <2>2, <3>1, <1>2 DEF Zeros
    <3>3. SubSeq(sIP, 1, Len(sIP)) \in Seq(Nat) /\ Len(SubSeq(sIP, 1, Len(sIP))) = Len(sIP)
      BY <1>2
    <3>4. ~(Len(sIP) > Width)
      BY <2>2, <1>2
    <3>5. z = SubSeq(sIP, 1, Len(sIP)) \o (IF Width > Len(sIP) THEN Zeros(p) ELSE <<>>)
      BY <3>4, <1>3, <3>1, Zenon DEF StringField
    <3>6. PICK x, y : x = SubSeq(sIP, 1, Len(sIP)) /\ y = IF Width > Len(sIP) THEN Zeros(p) ELSE <<>>
      OBVIOUS
    <3>7. y \in Seq(Nat) /\ Len(y) = p
      <4>1. CASE Width > Len(sIP)
        BY <4>1, <3>2, <3>6
      <4>2. CASE ~(Width > Len(sIP))
        <5>1. p = 0 /\ y = <<>>
          BY <4>2, <2>2, <3>1, <3>6, <1>2
        <5> QED  BY <5>1
      <4> QED  BY <4>1, <4>2
    <3>8. x \in Seq(Nat) /\ Len(x) = Len(sIP) /\ z = x \o y
      BY <3>3, <3>5, <3>6
    <3>9. x \o y \in Seq(Nat) /\ Len(x \o y) = Len(x) + Len(y)
      BY <3>7, <3>8, Joined
    <3>10. Len(sIP) + p = Width
      BY <3>1, <1>2
    <3> QED  BY <3>7, <3>8, <3>9, <3>10
  <2> QED  BY <2>1, <2>2, <1>2
<1>5. Len(answer') = Width + 3 /\ answer'[Width + 1] = Port
  <2>1. <<Port, Port, 0>> \in Seq(Nat) /\ Len(<<Port, Port, 0>>) = 3 /\ <<Port, Port, 0>>[1] = Port
    BY DEF Port
  <2>2. PICK t : t = <<Port, Port, 0>>
    OBVIOUS
  <2>3. Len(z \o t) = Len(z) + Len(t) /\ \A i \in 1..Len(t) : (z \o t)[Len(z) + i] = t[i]
    BY <2>1, <2>2, <1>4, Joined
  <2>4. Len(z \o t) = Width + 3 /\ (z \o t)[Width + 1] = Port
    BY <2>1, <2>2, <2>3, <1>4
  <2> QED  BY <2>2, <2>4, <1>1, <1>3
<1>6. field' = "transferred" /\ figs' = <<>> /\ parsed' = <<>> /\ at' = 0 /\ Port' = Port
  BY DEF Transfer, Port
<1> QED  BY <1>5, <1>6 DEF ListInv

LEMMA ListStep ==
  ASSUME FieldAssumption, ReadInv, ListInv, [FieldsNext]_fieldVars
  PROVE  ListInv'
<1>1. CASE Arrive
  <2>1. /\ field = "typing" /\ field' = "name" /\ at' = FieldAt("name") /\ UNCHANGED <<figs, parsed>>
    BY <1>1 DEF Arrive
  <2>2. FieldAt("name") \in Nat
    BY DEF FieldAt, FieldAssumption
  <2> QED  BY <2>1, <2>2 DEF ListInv
<1>2. CASE ReadChar
  <2>1. /\ field \in {"name", "password"} /\ field' \in {"name", "password", "listing"}
        /\ at' \in {at + CharBytes, NextLoc} /\ UNCHANGED <<figs, parsed>>
    BY <1>2 DEF ReadChar, NextField
  <2>2. at + CharBytes \in Nat /\ NextLoc \in Nat
    BY DEF CharBytes, NextLoc, FieldAt, FieldAssumption, ListInv
  <2> QED  BY <2>1, <2>2 DEF ListInv
<1>3. CASE UNCHANGED fieldVars
  <2>1. UNCHANGED <<field, at, figs, answer, parsed>>
    BY <1>3 DEF fieldVars
  <2>2. Fitting' = Fitting
    BY <2>1 DEF Fitting
  <2>3. ASSUME NEW k, NEW o PROVE (Laid(k, o) => Laid(k, o)') /\ (Parsing(o) => Parsing(o)')
    BY <2>1 DEF Laid, Parsing, Size, ListEntry
  <2>4. PICK n, m : n = at - 1 /\ m = Len(figs)
    OBVIOUS
  <2>5. (\E o : Laid(n, o)) => \E o : Laid(n, o)'
    BY <2>3
  <2>6. (\E o : Laid(m, o) /\ Parsing(o)) => \E o : Laid(m, o)' /\ Parsing(o)'
    BY <2>3
  <2>7. n = at' - 1 /\ m = Len(figs')
    BY <2>1, <2>4
  <2>8. field = "writing" /\ Fitting' => (\E o : Laid(at - 1, o))'
    BY <2>2, <2>4, <2>5, <2>7 DEF ListInv
  <2>9. field = "parsing" /\ Fitting' => (\E o : Laid(Len(figs), o) /\ Parsing(o))'
    BY <2>2, <2>4, <2>6, <2>7 DEF ListInv
  <2> QED  BY <2>1, <2>8, <2>9 DEF ListInv
<1> QED  BY <1>1, <1>2, <1>3, SelectRowsStep, WriteEntryStep, SendListStep, ParseEntryStep,
            TransferStep DEF FieldsNext

LEMMA ListIsRead ==
  ASSUME FieldAssumption, ReadInv, ListInv
  PROVE  AnswersAreUnderstood
<1>1. ASSUME Fitting PROVE IsPrefix(parsed, figs)
  <2>1. CASE field = "parsing"
    <3>1. PICK o : Parsing(o)
      BY <1>1, <2>1 DEF ListInv
    <3>2. /\ figs \in Seq(FigRow) /\ parsed \in Seq(FigRow) /\ Len(parsed) <= Len(figs)
          /\ Len(parsed) \in Nat /\ Len(figs) \in Nat
          /\ \A i \in 1..Len(parsed) : parsed[i] = figs[i]
      BY <2>1, <3>1 DEF Parsing, ListInv
    <3>3. SubSeq(parsed, 1, Len(parsed)) = [i \in 1..Len(parsed) |-> parsed[i]]
      BY <3>2
    <3>4. SubSeq(figs, 1, Len(parsed)) = [i \in 1..Len(parsed) |-> figs[i]]
      BY <3>2
    <3> QED  BY <3>2, <3>3, <3>4 DEF IsPrefix
  <2>2. CASE field # "parsing"
    <3>1. parsed = <<>> /\ figs \in Seq(FigRow)
      <4>1. <<>> \in Seq(FigRow)
        OBVIOUS
      <4> QED  BY <4>1, <2>2 DEF ListInv
    <3>2. Len(parsed) = 0 /\ Len(figs) \in Nat /\ SubSeq(parsed, 1, 0) = <<>> /\ SubSeq(figs, 1, 0) = <<>>
      BY <3>1
    <3> QED  BY <3>2 DEF IsPrefix
  <2> QED  BY <2>1, <2>2
<1>2. ASSUME Fitting, field = "parsing", at = Len(answer) PROVE parsed = figs
  <2>1. PICK o : Laid(Len(figs), o) /\ Parsing(o)
    BY <1>2 DEF ListInv
  <2>2. /\ figs \in Seq(FigRow) /\ parsed \in Seq(FigRow) /\ Len(parsed) <= Len(figs)
        /\ Len(parsed) \in Nat /\ Len(figs) \in Nat
        /\ \A i \in 1..Len(parsed) : parsed[i] = figs[i]
    BY <1>2, <2>1 DEF Parsing, ListInv
  <2>3. Len(parsed) = Len(figs)
    <3> SUFFICES ASSUME Len(parsed) < Len(figs) PROVE FALSE
      BY <2>2
    <3>1. Len(parsed) \in 0..Len(figs) /\ Len(figs) \in 0..Len(figs)
      BY <2>2
    <3>2. o[Len(parsed)] < o[Len(figs)] /\ o[Len(parsed)] = o[Len(figs)] /\ o[Len(figs)] \in Nat
      BY <3>1, <2>1, <1>2 DEF Laid, Parsing
    <3> QED  BY <3>2
  <2> QED  BY <2>2, <2>3, SeqEqual
<1>3. ListIsUnderstood
  BY <1>1, <1>2 DEF ListIsUnderstood, Fitting
<1>4. PortIsInPlace
  BY DEF ListInv, PortIsInPlace
<1> QED  BY <1>3, <1>4 DEF AnswersAreUnderstood

\* Every character read is one of the alphabet, and no string outgrows the
\* packet it was read from.
THEOREM FieldTypes ==
  ASSUME FieldAssumption
  PROVE  FieldsSpec => []FieldsTypeOK
<1>1. FieldsInit => ReadInv /\ ListInv
  BY ReadAtStart, ListAtStart
<1>2. ReadInv /\ ListInv /\ [FieldsNext]_fieldVars => ReadInv' /\ ListInv'
  BY ReadStep, ListStep
<1>3. ASSUME ReadInv, ListInv PROVE FieldsTypeOK
  <2>1. ASSUME NEW f \in {"name", "password"}
        PROVE  /\ read[f] \in Seq(Chars)
               /\ read[f] # <<>> => FieldAt(f) + 2 * Len(read[f]) <= Len(packet) + 1
    <3>1. ReadSoFar(f) /\ FieldAt(f) \in Nat /\ Len(packet) \in Nat
      BY <1>3 DEF ReadInv, FieldAt, FieldAssumption, Sent
    <3>2. PICK m : m = Len(read[f])
      OBVIOUS
    <3>3. read[f] \in Seq(Chars) /\ m \in Nat /\ (read[f] # <<>> => m >= 1)
      BY <3>1, <3>2, EmptySeq DEF ReadSoFar, Strs
    <3>4. m >= 1 => CellOf(f, m) <= Len(packet)
      BY <3>1, <3>2, <3>3 DEF ReadSoFar
    <3>5. m >= 1 => FieldAt(f) + 2 * m <= Len(packet) + 1
      BY <3>1, <3>3, <3>4 DEF CellOf
    <3> QED  BY <3>2, <3>3, <3>5
  <2> QED  BY <2>1, <1>3 DEF FieldsTypeOK, ReadInv, ListInv
<1> QED  BY <1>1, <1>2, <1>3, PTL DEF FieldsSpec

\* The client takes both answers apart as they were put together, for any rows
\* whose names fit their fields and for an address of any length.
THEOREM Understood ==
  ASSUME FieldAssumption
  PROVE  FieldsSpec => []AnswersAreUnderstood
<1>1. FieldsInit => ReadInv /\ ListInv
  BY ReadAtStart, ListAtStart
<1>2. ReadInv /\ ListInv /\ [FieldsNext]_fieldVars => ReadInv' /\ ListInv'
  BY ReadStep, ListStep
<1>3. ReadInv /\ ListInv => AnswersAreUnderstood
  BY ListIsRead
<1> QED  BY <1>1, <1>2, <1>3, PTL DEF FieldsSpec

-----------------------------------------------------------------------------
(* Clothes: what a minifig wears, which travels in its row of the list *)

\* A number of a range, said without the range: the provers would count it out.
Within(i, low, high) == i \in Int /\ low <= i /\ i <= high

\* The ranges of the tables.  Shirts of two colours are at least 34 ids apart;
\* late shirts at least 6, or are twins.
LEMMA ShirtTable ==
  /\ \A c \in KnownColors : Within(ShirtBase[c], 4049, 4593)
  /\ \A c, d \in KnownColors :
       \/ c = d
       \/ ShirtBase[c] >= ShirtBase[d] + 34
       \/ ShirtBase[d] >= ShirtBase[c] + 34
BY DEF Within, ShirtBase, KnownColors

LEMMA LateShirtTable ==
  /\ \A c \in KnownColors : Within(LateShirtBase[c], 5730, 5826)
  /\ \A c, d \in KnownColors :
       \/ c = d
       \/ LateShirtBase[c] >= LateShirtBase[d] + 6
       \/ LateShirtBase[d] >= LateShirtBase[c] + 6
       \/ LateShirtBase[c] = LateShirtBase[d] /\ {c, d} \in Twins
BY DEF Within, LateShirtBase, KnownColors, Twins

LEMMA PantsTable ==
  /\ \A c \in KnownColors : Within(PantsID[c], 2508, 2527)
  /\ \A c, d \in KnownColors : PantsID[c] = PantsID[d] => c = d
  /\ PantsID[0] = 2508 /\ 0 \in KnownColors
BY DEF Within, PantsID, KnownColors

\* The item of a shirt, for one of the first styles and for a late one.
LEMMA ShirtFound ==
  ASSUME NEW c \in KnownColors, NEW s \in 1..40
  PROVE  /\ s >= 35 => FindCharShirtID(c, s) = LateShirtBase[c] + s - 35
         /\ s < 35 => FindCharShirtID(c, s) = ShirtBase[c] + s - 1
<1>2. /\ DOMAIN ShirtBase = KnownColors
      /\ DOMAIN LateShirtBase = KnownColors
  BY DEF ShirtBase, LateShirtBase
<1>3. /\ Base(ShirtBase, c, 0) = ShirtBase[c]
      /\ Base(LateShirtBase, c, 0) = LateShirtBase[c]
  BY <1>2 DEF Base
<1> QED  BY <1>3 DEF FindCharShirtID, IsLate

\* Shirts lie in two ranges, which do not meet.
LEMMA ShirtRange ==
  ASSUME NEW c \in KnownColors, NEW s \in 1..40
  PROVE  /\ s >= 35 => Within(FindCharShirtID(c, s), 5730, 5831)
         /\ s < 35 =>  Within(FindCharShirtID(c, s), 4049, 4626)
<1>1. Within(ShirtBase[c], 4049, 4593) /\ Within(LateShirtBase[c], 5730, 5826)
  BY ShirtTable, LateShirtTable
<1>2. CASE s >= 35
  <2>1. FindCharShirtID(c, s) = LateShirtBase[c] + s - 35
    BY <1>2, ShirtFound
  <2>2. Within(LateShirtBase[c] + s - 35, 5730, 5831)
    BY <1>1, <1>2 DEF Within
  <2> QED  BY <2>1, <2>2, <1>2
<1>3. CASE s < 35
  <2>1. FindCharShirtID(c, s) = ShirtBase[c] + s - 1
    BY <1>3, ShirtFound
  <2>2. Within(ShirtBase[c] + s - 1, 4049, 4626)
    <3> PICK b : b = ShirtBase[c]
      OBVIOUS
    <3>1. Within(b, 4049, 4593) /\ s \in 1..34
      BY <1>1, <1>3 DEF Within
    <3>2. Within(b + s - 1, 4049, 4626)
      BY <3>1 DEF Within
    <3> QED  BY <3>2
  <2> QED  BY <2>1, <2>2, <1>3
<1> QED  BY <1>2, <1>3

\* One item is one shirt, but for the late styles of twin colours.
LEMMA ShirtsApart ==
  ASSUME NEW c \in KnownColors, NEW s \in 1..40,
         NEW d \in KnownColors, NEW t \in 1..40,
         FindCharShirtID(c, s) = FindCharShirtID(d, t)
  PROVE  s = t /\ (c = d \/ ({c, d} \in Twins /\ s >= 35))
<1> PICK i : i = FindCharShirtID(c, s)
  OBVIOUS
<1>0. i = FindCharShirtID(d, t)
  OBVIOUS
<1>1. CASE s >= 35 /\ t >= 35
  <2> PICK b : b = LateShirtBase[c]
    OBVIOUS
  <2> PICK e : e = LateShirtBase[d]
    OBVIOUS
  <2>1. i = b + s - 35
    BY <1>1, ShirtFound
  <2>2. i = e + t - 35
    BY <1>0, <1>1, ShirtFound
  <2>3. Within(b, 5730, 5826) /\ Within(e, 5730, 5826)
    BY LateShirtTable
  <2>4. c = d \/ b >= e + 6 \/ e >= b + 6 \/ (b = e /\ {c, d} \in Twins)
    BY LateShirtTable
  <2>5. ~(b >= e + 6) /\ ~(e >= b + 6)
    BY <1>1, <2>1, <2>2, <2>3 DEF Within
  <2>6. c = d => b = e
    OBVIOUS
  <2>7. b = e
    BY <2>4, <2>5, <2>6
  <2>8. s = t
    BY <2>1, <2>2, <2>3, <2>7 DEF Within
  <2> QED  BY <1>1, <2>4, <2>5, <2>8
<1>2. CASE s < 35 /\ t < 35
  <2> PICK b : b = ShirtBase[c]
    OBVIOUS
  <2> PICK e : e = ShirtBase[d]
    OBVIOUS
  <2>1. i = b + s - 1
    BY <1>2, ShirtFound
  <2>2. i = e + t - 1
    BY <1>0, <1>2, ShirtFound
  <2>3. Within(b, 4049, 4593) /\ Within(e, 4049, 4593)
    BY ShirtTable
  <2>4. c = d \/ b >= e + 34 \/ e >= b + 34
    BY ShirtTable
  <2>5. ~(b >= e + 34) /\ ~(e >= b + 34)
    BY <1>2, <2>1, <2>2, <2>3 DEF Within
  <2>6. c = d /\ b = e
    BY <2>4, <2>5
  <2>7. s = t
    BY <2>1, <2>2, <2>3, <2>6 DEF Within
  <2> QED  BY <2>6, <2>7
<1>3. CASE s >= 35 /\ t < 35
  <2>1. Within(i, 5730, 5831)
    BY <1>3, ShirtRange
  <2>2. Within(i, 4049, 4626)
    BY <1>0, <1>3, ShirtRange
  <2>3. FALSE
    BY <2>1, <2>2 DEF Within
  <2> QED  BY <2>3
<1>4. CASE s < 35 /\ t >= 35
  <2>1. Within(i, 5730, 5831)
    BY <1>0, <1>4, ShirtRange
  <2>2. Within(i, 4049, 4626)
    BY <1>4, ShirtRange
  <2>3. FALSE
    BY <2>1, <2>2 DEF Within
  <2> QED  BY <2>3
<1> QED  BY <1>1, <1>2, <1>3, <1>4

\* The colour a pair of pants looks like.
Shown(c) == IF c \in KnownColors THEN c ELSE 0

\* Pants are found by the colour they show, far from the ids of the shirts.
LEMMA PantsOf ==
  ASSUME NEW c
  PROVE  /\ Shown(c) \in KnownColors
         /\ FindCharPantsID(c) = PantsID[Shown(c)]
         /\ Within(FindCharPantsID(c), 2508, 2527)
<1>1. DOMAIN PantsID = KnownColors
  BY DEF PantsID
<1>2. Shown(c) \in KnownColors
  BY PantsTable DEF Shown
<1>3. FindCharPantsID(c) = PantsID[Shown(c)]
  <2>1. CASE c \in KnownColors
    BY <2>1, <1>1 DEF Shown, FindCharPantsID, Base
  <2>2. CASE c \notin KnownColors
    BY <2>2, <1>1, PantsTable DEF Shown, FindCharPantsID, Base
  <2> QED  BY <2>1, <2>2
<1> QED  BY <1>2, <1>3, PantsTable

\* A dressed minifig wears what the tables give for its look.
Fitted ==
  lots # NoLots => /\ look # NoLook
                   /\ lots.shirt = FindCharShirtID(look.shirt, look.style)
                   /\ lots.pants = FindCharPantsID(look.pants)

\* The item ids that the server stores tell the look that was chosen, for any
\* colours and styles a client may send: two shirts on offer share an id only
\* for the late styles of twin colours, no shirt is a pair of pants, and pants
\* tell their colour (FindCharShirtID, FindCharPantsID and both tables).
THEOREM ClothesTell == ClothesSpec => []ClothesTellLook
<1>1. ClothesInit => Fitted
  BY DEF ClothesInit, Fitted
<1>2. Fitted /\ [ClothesNext]_clothesVars => Fitted'
  <2> SUFFICES ASSUME Fitted, [ClothesNext]_clothesVars PROVE Fitted'
    OBVIOUS
  <2>1. CASE Choose
    BY <2>1 DEF Fitted, Choose
  <2>2. CASE Dress
    <3>1. look' = look
      BY <2>2 DEF Dress
    <3>2. /\ lots'.shirt = FindCharShirtID(look.shirt, look.style)
          /\ lots'.pants = FindCharPantsID(look.pants)
          /\ look # NoLook
      BY <2>2 DEF Dress
    <3> QED  BY <3>1, <3>2 DEF Fitted
  <2>3. CASE UNCHANGED clothesVars
    BY <2>3 DEF Fitted, clothesVars
  <2> QED  BY <2>1, <2>2, <2>3 DEF ClothesNext
<1>3. Fitted => ClothesTellLook
  <2> SUFFICES ASSUME Fitted, lots # NoLots PROVE ClothesTellLook
    BY DEF ClothesTellLook, ShirtTellsLook, PantsTellColor
  <2>0. /\ lots.shirt = FindCharShirtID(look.shirt, look.style)
        /\ lots.pants = FindCharPantsID(look.pants)
    BY DEF Fitted
  <2>1. ASSUME <<look.shirt, look.style>> \in Offered
        PROVE  look.shirt \in KnownColors /\ look.style \in 1..40
    BY <2>1 DEF Offered
  <2>2. ASSUME <<look.shirt, look.style>> \in Offered, NEW o \in Offered,
               FindCharShirtID(o[1], o[2]) = lots.shirt
        PROVE  /\ o[2] = look.style
               /\ o[1] = look.shirt \/ ({o[1], look.shirt} \in Twins /\ look.style >= 35)
    <3>1. PICK c \in KnownColors, s \in 1..40 : o = <<c, s>>
      BY DEF Offered
    <3>2. o[1] = c /\ o[2] = s
      BY <3>1
    <3>3. FindCharShirtID(c, s) = FindCharShirtID(look.shirt, look.style)
      BY <3>2, <2>0, <2>2
    <3>4. s = look.style
            /\ (c = look.shirt \/ ({c, look.shirt} \in Twins /\ s >= 35))
      <4>1. look.shirt \in KnownColors /\ look.style \in 1..40
        BY <2>1, <2>2
      <4>2. PICK d, u : d = look.shirt /\ u = look.style
        OBVIOUS
      <4>3. s = u /\ (c = d \/ ({c, d} \in Twins /\ s >= 35))
        <5>1. d \in KnownColors /\ u \in 1..40
          BY <4>1, <4>2
        <5>2. FindCharShirtID(c, s) = FindCharShirtID(d, u)
          BY <3>3, <4>2
        <5> HIDE <4>2
        <5> QED  BY <5>1, <5>2, ShirtsApart
      <4> QED  BY <4>2, <4>3
    <3> QED  BY <3>2, <3>4
  <2>3. ASSUME <<look.shirt, look.style>> \in Offered, NEW c \in Colors
        PROVE  FindCharPantsID(c) # lots.shirt
    <3> PICK i, j : i = lots.shirt /\ j = FindCharPantsID(c)
      OBVIOUS
    <3>1. Within(j, 2508, 2527)
      BY PantsOf
    <3>2. Within(i, 5730, 5831) \/ Within(i, 4049, 4626)
      <4>1. look.style >= 35 \/ look.style < 35
        BY <2>1, <2>3
      <4> QED  BY <4>1, <2>0, <2>1, <2>3, ShirtRange
    <3>3. i # j
      BY <3>1, <3>2 DEF Within
    <3> QED  BY <3>3
  <2>4. ASSUME NEW c \in Colors
        PROVE  lots.pants = FindCharPantsID(c) <=> Shown(c) = Shown(look.pants)
    <3>1. Shown(c) \in KnownColors /\ FindCharPantsID(c) = PantsID[Shown(c)]
      BY PantsOf
    <3>2. /\ Shown(look.pants) \in KnownColors
          /\ FindCharPantsID(look.pants) = PantsID[Shown(look.pants)]
      BY PantsOf
    <3> QED  BY <3>1, <3>2, <2>0, PantsTable
  <2>5. ShirtTellsLook
    BY <2>2, <2>3 DEF ShirtTellsLook
  <2>6. PantsTellColor
    BY <2>4 DEF PantsTellColor, Shown
  <2> QED  BY <2>5, <2>6 DEF ClothesTellLook
<1> QED  BY <1>1, <1>2, <1>3, PTL DEF ClothesSpec
=============================================================================
