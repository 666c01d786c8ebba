--------------------------- MODULE MCAsyncSession ---------------------------
(* Instances of AsyncSession for TLC. *)
EXTENDS AsyncSession

CONSTANTS m1, m2

MCMessage    == {m1, m2}
MCBufferSize == {1, 2}
=============================================================================
