----------------------------- MODULE ClothesIds -----------------------------
(***************************************************************************)
(* The item ids (LOTs) of shirts and pants, as the constants of            *)
(* lwoWorldPackets.h and the tables of lwoWorldPackets.cpp have them.      *)
(***************************************************************************)
EXTENDS Integers

\* The colours that both tables of the code know, by number.
KnownColors == {0, 1, 3, 5, 6, 7, 8, 9, 10, 11, 13, 14, 15, 16, 84, 96}

\* CharCreateShirtColor by the number of the colour.
ShirtBase == [c \in KnownColors |->
  CASE c = 0 -> 4049 [] c = 1 -> 4083 [] c = 3 -> 4151 [] c = 5 -> 4185
    [] c = 6 -> 4219 [] c = 7 -> 4253 [] c = 8 -> 4287 [] c = 9 -> 4321
    [] c = 10 -> 4355 [] c = 11 -> 4389 [] c = 13 -> 4423 [] c = 14 -> 4457
    [] c = 15 -> 4491 [] c = 16 -> 4525 [] c = 84 -> 4559 [] c = 96 -> 4593]

\* The first of the six shirts that were added later, styles 35 to 40.
LateShirtBase == [c \in KnownColors |->
  CASE c = 0 -> 5730 [] c = 1 -> 5736 [] c = 3 -> 5808 [] c = 5 -> 5754
    [] c = 6 -> 5760 [] c = 7 -> 5766 [] c = 8 -> 5772 [] c = 9 -> 5778
    [] c = 10 -> 5784 [] c = 11 -> 5802 [] c = 13 -> 5796 [] c = 14 -> 5802
    [] c = 15 -> 5808 [] c = 16 -> 5814 [] c = 84 -> 5820 [] c = 96 -> 5826]

PantsID == [c \in KnownColors |->
  CASE c = 0 -> 2508 [] c = 1 -> 2519 [] c = 3 -> 2515 [] c = 5 -> 2509
    [] c = 6 -> 2524 [] c = 7 -> 2521 [] c = 8 -> 2522 [] c = 9 -> 2526
    [] c = 10 -> 2523 [] c = 11 -> 2513 [] c = 13 -> 2527 [] c = 14 -> 2517
    [] c = 15 -> 2516 [] c = 16 -> 2511 [] c = 84 -> 2520 [] c = 96 -> 2514]

\* The shirts a player can choose.
Offered == {<<c, s>> : c \in KnownColors, s \in 1..40}
=============================================================================
