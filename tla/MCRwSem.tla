------------------------------ MODULE MCRwSem ------------------------------
\* RwSem for TLC.  The tasks are interchangeable: Init, Next and every property
\* treat them alike.
EXTENDS RwSem, TLC

Symmetry == Permutations(Tasks)
=============================================================================
