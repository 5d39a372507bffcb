---------------------------- MODULE MCAesdModule ----------------------------
(* Values for the constants of AesdModule that a .cfg cannot write.        *)
EXTENDS AesdModule

CONSTANTS a, nl  \* an ordinary byte and the newline

MCByte       == {a, nl}
MCByteWrites == {<<a>>, <<nl>>}
=============================================================================
