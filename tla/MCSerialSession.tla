-------------------------- MODULE MCSerialSession --------------------------
(* Instances of SerialSession for TLC. *)
EXTENDS SerialSession, TLC

CONSTANTS m1, m2

MCMessage    == {m1, m2}
MCBufferSize == {1, 2}
OneMessage   == {m1}
BothModes    == {"full_duplex", "half_duplex"}
FullOnly     == {"full_duplex"}
HalfOnly     == {"half_duplex"}

(* The messages are interchangeable (safety runs only). *)
Symmetry == Permutations(MCMessage)
=============================================================================
