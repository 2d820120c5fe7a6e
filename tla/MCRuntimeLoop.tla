---------------------------- MODULE MCRuntimeLoop ----------------------------
EXTENDS RuntimeLoop
=============================================================================
