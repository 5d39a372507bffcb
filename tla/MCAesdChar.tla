----------------------------- MODULE MCAesdChar -----------------------------
(* Values for the constants of AesdChar that a .cfg cannot write.          *)
EXTENDS AesdChar

CONSTANTS a, nl  \* an ordinary byte and the newline

MCByte == {a, nl}

(* A write of nothing, of part of a command, of its end, of a whole one.   *)
MCWrites      == {<<a>>, <<nl>>, <<a, nl>>}
MCWritesEmpty == MCWrites \cup {<<>>}
MCByteWrites  == {<<a>>, <<nl>>}

(* lseek from before the start of the device to past a command's end.      *)
MCSeekOffsets == -1 .. 2

(* Threads and files are interchangeable (for the runs without liveness).  *)
Symmetry == Permutations(Threads) \cup Permutations(Files)
=============================================================================
