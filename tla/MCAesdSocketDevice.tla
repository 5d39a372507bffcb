------------------------- MODULE MCAesdSocketDevice -------------------------
(* Clients that send several lines at once over a device that holds a      *)
(* command already.  The server reads on after a line only if it misses    *)
(* the newline at the end of a block.                                      *)
EXTENDS AesdSocketDevice

CONSTANTS x, y, z

(* Blocks of two bytes: "long" makes a command of two blocks, twice, and   *)
(* "seek" two of a block each, before it seeks.                            *)
MCStream ==
  [c \in Clients |-> CASE c = "long" -> <<x, y, z, NL, x, y, NL>>
                      [] c = "seek" -> <<z, NL, z, NL, SeekTo, NL>>]

MCEarlier == << <<NL>> >>

(* Command 2 is the second of those that the clients make.                 *)
MCSeekRequest == [c \in Clients |-> [cmd |-> 2, offset |-> 1]]

MCIndex == Nat
=============================================================================
