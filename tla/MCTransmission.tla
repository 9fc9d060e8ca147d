--------------------------- MODULE MCTransmission ---------------------------
(* A ring of four samples, copied two at a time.  A long request crosses    *)
(* the end of the ring twice.                                               *)
EXTENDS Transmission

MCPointers  == {0, 3}
MCCounts    == {1, 4}
LongCounts  == {2, 6}
MCChunks    == {0, 3}
LongChunks  == {3, 4}
QuietChunks == {0, 4}
=============================================================================
