------------------------------ MODULE MCTransfer ------------------------------
\* Transfer for TLC: bands of one and two rows against heights that are too low, exact
\* or too high for what the scanner delivers.
EXTENDS Transfer

MCBandRows == {1, 2}
MCExpected == {1, 3, 4}
===============================================================================
