----------------------------- MODULE MCPacketIO -----------------------------
(***************************************************************************)
(* Small instances of PacketIO.                                            *)
(***************************************************************************)
EXTENDS PacketIO, TLC

CONSTANTS x, y

\* Nothing depends on the value of a byte.
ByteSymmetry == Permutations(Byte)
=============================================================================
