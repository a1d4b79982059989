----------------------------- MODULE MCSelRepeat -----------------------------
EXTENDS SelRepeat
==============================================================================
