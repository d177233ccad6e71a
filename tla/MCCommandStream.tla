-------------------------- MODULE MCCommandStream --------------------------
EXTENDS CommandStream
=============================================================================
