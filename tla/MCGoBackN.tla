------------------------------ MODULE MCGoBackN ------------------------------
EXTENDS GoBackN
==============================================================================
