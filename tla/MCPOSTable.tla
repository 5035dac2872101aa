------------------------------ MODULE MCPOSTable ------------------------------
(* An instance of POSTable: tags that share a cell by their case, by a     *)
(* third character or by a character that is no letter.                    *)
EXTENDS POSTable, TLC

MCLetter(c) == CASE c \in { "N", "n" } -> 14 [] c \in { "R", "r" } -> 18 [] OTHER -> 0

N == << "N" >>
NA == << "N", "/", "A" >>
nr == << "n", "r" >>
NRX == << "N", "R", "X" >>
r == << "r" >>

MCTags == { << >>, N, NA, nr, NRX, r }
MCTagFiles == { << N, << >>, nr >>, << NRX, nr, r >>, << NA, N >> }
MCLists == { << r >>, << NA, nr >>, << << >>, N >> }
=============================================================================
