------------------------------- MODULE MCHio --------------------------------
EXTENDS Hio
CONSTANTS w1, w2
=============================================================================
