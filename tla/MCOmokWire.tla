----------------------------- MODULE MCOmokWire -----------------------------
EXTENDS OmokWire
=============================================================================
