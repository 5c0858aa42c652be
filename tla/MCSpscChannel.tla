---------------------------- MODULE MCSpscChannel ----------------------------
EXTENDS SpscChannel
=============================================================================
