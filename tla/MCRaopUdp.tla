------------------------------ MODULE MCRaopUdp ------------------------------
(* Small instances of RaopUdp for TLC. *)
EXTENDS RaopUdp

CONSTANT MaxPacket

MCPackets == 0..MaxPacket
=============================================================================
