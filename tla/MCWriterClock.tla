---------------------------- MODULE MCWriterClock ----------------------------
(* Frequencies on both sides of line 185 and times on both sides of 0 and *)
(* of a cycle boundary, with |time * freq| inside TLC's integers.  Two    *)
(* values for each forwarded attribute, negative offsets among them.     *)
EXTENDS WriterClock

MCFreqs == {1, 2, NS_PER_S}
MCTimes == {-1000000000, -400000000, 0, 300000000, 500000000, 700000000, 1000000000}
MCOffsets == {-1, 0}
=============================================================================
