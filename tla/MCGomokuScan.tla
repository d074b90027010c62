---------------------------- MODULE MCGomokuScan ----------------------------
EXTENDS GomokuScan
=============================================================================
