---------------------------- MODULE MCPacketPool ----------------------------
EXTENDS PacketPool
=============================================================================
