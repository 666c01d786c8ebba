------------------------- MODULE MCSerialBenchmark -------------------------
(* An instance of SerialBenchmark for TLC: two requests of three bytes,    *)
(* and a line that is empty at first or holds one byte, which is or is not *)
(* what a sequence number may begin with.                                  *)
EXTENDS SerialBenchmark

MCMessage       == {0, 1}
MCBufferSize    == {3}
MCMode          == {"full_duplex"}
MCSequenceBytes == [m \in MCMessage |-> <<m, 0>>]
MCStale         == {<<0>>, <<7>>}
=============================================================================
