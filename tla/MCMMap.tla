-------------------------------- MODULE MCMMap --------------------------------
(* An instance of MMap for TLC: pages of four bytes, an int of four bits.   *)
(* Of the offsets -5 lies in the page before the file, -2 is cut to page 0, *)
(* 1 makes null of MAP_FAILED, and 18 is past what an int holds, where its  *)
(* page looks like page 0.                                                  *)
EXTENDS MMap

CONSTANTS map, mapFile

MCLengths == {6, 20}
MCOffsets == {-5, -2, 0, 1, 6, 18}
MCSizes == {0, 3, 63}          \* the last one is a negative int
=============================================================================
