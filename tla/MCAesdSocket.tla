---------------------------- MODULE MCAesdSocket ----------------------------
(* The clients of the server: "long" sends more than a block, "short" fits *)
(* one, and "seek" sends a seek command.                                   *)
EXTENDS AesdSocket

CONSTANTS x, y, z

MCPacket ==
  [c \in Clients |-> CASE c = "long"  -> <<x, y, NL>>
                      [] c = "short" -> <<z, NL>>
                      [] c = "seek"  -> <<SeekTo, NL>>]
=============================================================================
