------------------------------- MODULE MCAltBit -------------------------------
EXTENDS AltBit
==============================================================================
