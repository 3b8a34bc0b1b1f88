----------------------------- MODULE MC_Console -----------------------------
(* Small instances of Console: cells of two by two pixels, two letters in two *)
(* rows of the font's image, and a space in a third row.                      *)
EXTENDS Console

MC_Letters == [c \in 0..1 |-> IF c = 0 THEN {<<0, 0>>, <<1, 0>>, <<0, 1>>} ELSE {<<1, 0>>, <<1, 1>>}]
MC_LettersAndSpace == [c \in 0..2 |-> IF c = 2 THEN {} ELSE MC_Letters[c]]
=============================================================================
