------------------------------ MODULE MCLogger ------------------------------
(***************************************************************************)
(* A small instance of Logger for TLC: one file more than there are names.  *)
(***************************************************************************)
EXTENDS Logger

CONSTANTS g1, g2, f1, f2, f3, f4

MCGoroutine == {g1, g2}
MCFile == {f1, f2, f3, f4}

=============================================================================
