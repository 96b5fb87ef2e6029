------------------------- MODULE MCRegisterAllocator -------------------------
(***************************************************************************)
(* Every interference graph over at most four variables, two registers:    *)
(* the smallest instance with optimistic colouring (a potential spill that *)
(* is coloured after all: the 4-cycle) and with real spills (triangles).   *)
(***************************************************************************)
EXTENDS RegisterAllocator

CONSTANTS a, b, c, d, r1, r2

MCVar == {a, b, c, d}
MCReg == {r1, r2}

=============================================================================
