----------------------------- MODULE Appearance -----------------------------
(***************************************************************************)
(* The shirts and pants of a new minifig (FindCharShirtID, FindCharPantsID *)
(* with the tables of ClothesIds).  The client sends the colour and style  *)
(* that were chosen; the server stores item ids (LOTs), which are all that *)
(* other clients get to see.                                               *)
(***************************************************************************)
EXTENDS ClothesIds

CONSTANTS
  Colors,       \* the colours a client may send
  Styles        \* the shirt styles a client may send

AppearanceAssumption == Colors \subseteq Nat /\ Styles \subseteq Nat

VARIABLES
  look,         \* what was chosen for a minifig, or NoLook
  lots          \* the items it was given, or NoLots

clothesVars == <<look, lots>>

Base(table, color, default) ==
  IF color \in DOMAIN table THEN table[color] ELSE default

\* Slip: style 34 was taken for one of the late shirts.
IsLateFrom34(style) == style >= 34

IsLate(style) == style >= 35

\* A shirt of an unknown colour has base 0.
FindCharShirtID(color, style) ==
  IF IsLate(style) THEN Base(LateShirtBase, color, 0) + style - 35
                   ELSE Base(ShirtBase, color, 0) + style - 1

FindCharPantsID(color) == Base(PantsID, color, 2508)

NoLook == [shirt |-> -1, style |-> -1, pants |-> -1]
NoLots == [shirt |-> -1, pants |-> -1]

ClothesInit == look = NoLook /\ lots = NoLots

\* Bound: pants go with every shirt of their colour, and with the first style
\* of the others.
Looks == {l \in [shirt : Colors, style : Styles, pants : Colors] :
            l.pants = l.shirt \/ l.style = 1}

\* The client's choice.
Choose == look = NoLook /\ look' \in Looks /\ UNCHANGED lots

\* createNewMinifig inserts the two items.
Dress ==
  /\ look # NoLook /\ lots = NoLots
  /\ lots' = [shirt |-> FindCharShirtID(look.shirt, look.style),
              pants |-> FindCharPantsID(look.pants)]
  /\ UNCHANGED look

ClothesNext == Choose \/ Dress

ClothesSpec == ClothesInit /\ [][ClothesNext]_clothesVars

-----------------------------------------------------------------------------

\* The colours that share their late shirts.
Twins == {{3, 15}, {11, 14}}

\* The item tells what was chosen: no other colour and style on offer gives
\* the same shirt, but for the late styles of the twin colours; and no shirt
\* is a pair of pants (FindCharShirtID, all of the two tables).
ShirtTellsLook ==
  lots # NoLots /\ <<look.shirt, look.style>> \in Offered =>
    /\ \A o \in Offered : FindCharShirtID(o[1], o[2]) = lots.shirt =>
         /\ o[2] = look.style
         /\ o[1] = look.shirt \/ ({o[1], look.shirt} \in Twins /\ look.style >= 35)
    /\ \A c \in Colors : FindCharPantsID(c) # lots.shirt

\* Pants tell their colour; those of an unknown colour look like colour 0.
PantsTellColor ==
  lots # NoLots =>
    LET Shown(c) == IF c \in KnownColors THEN c ELSE 0
    IN \A c \in Colors :
         lots.pants = FindCharPantsID(c) <=> Shown(c) = Shown(look.pants)

\* What a minifig was given to wear tells what was chosen for it (lines 382-578
\* of lwoWorldPackets.cpp).
ClothesTellLook == ShirtTellsLook /\ PantsTellColor
=============================================================================
