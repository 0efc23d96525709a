--------------------------- MODULE MCPacketStream ---------------------------
(***************************************************************************)
(* Small instances of PacketStream.                                        *)
(***************************************************************************)
EXTENDS PacketStreamFifo, TLC

CONSTANTS p1, p2, c1, c2

\* Producers are interchangeable, and so are consumers, where the constants
\* treat them alike.
ThreadSymmetry == Permutations(Producers) \cup Permutations(Consumers)
=============================================================================
