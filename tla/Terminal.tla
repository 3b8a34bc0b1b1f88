------------------------------ MODULE Terminal ------------------------------
(***************************************************************************)
(* What the console promises: a grid of characters and a cursor.  The      *)
(* cursor may stand one column past the last and one line below the last.  *)
(* A character printed past the last column is not seen; a line begun      *)
(* below the last makes the others move up only when something is printed  *)
(* on it, or when another line is begun, which then takes its place.       *)
(***************************************************************************)
EXTENDS Integers

CONSTANTS
    Rows, Columns,  \* of the grid, at least one each
    Chars, Blank    \* what can be printed, and what an empty cell shows, which
                    \* may be printed as well

VARIABLES grid, row, col
vars == <<grid, row, col>>

Cells == (0..(Rows - 1)) \X (0..(Columns - 1))
Empty == [cell \in Cells |-> Blank]
Up(g) == [cell \in Cells |->
            IF cell[1] + 1 < Rows THEN g[<<cell[1] + 1, cell[2]>>] ELSE Blank]

Init == grid = Empty /\ row = 0 /\ col = 0

NewLine ==
    /\ col' = 0
    /\ \/ row < Rows /\ row' = row + 1 /\ grid' = grid
       \/ row = Rows /\ row' = Rows - 1 /\ grid' = Up(grid)

Put(char) ==
    LET moved == IF row = Rows THEN Up(grid) ELSE grid
        line  == IF row = Rows THEN Rows - 1 ELSE row
    IN /\ grid' = [cell \in Cells |-> IF cell = <<line, col>> THEN char ELSE moved[cell]]
       /\ \/ col < Columns /\ col' = col + 1 /\ row' = line
          \/ col = Columns /\ col' = 0       /\ row' = line + 1

Clear == grid' = Empty /\ row' = 0 /\ col' = 0

Next == NewLine \/ Clear \/ \E char \in Chars : Put(char)

Spec == Init /\ [][Next]_vars
=============================================================================
