---------------------------- MODULE MCAllocation ----------------------------
EXTENDS Allocation

\* 1 + log(n/df) for n = 4, in tenths
IdfOfFour == <<24, 17, 13, 10>>
=============================================================================
