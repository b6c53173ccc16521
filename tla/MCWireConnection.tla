-------------------------- MODULE MCWireConnection --------------------------
EXTENDS WireConnection
=============================================================================
