--------------------------- MODULE MCFpImageDevice ---------------------------
\* FpImageDevice with two enroll stages: the first and the last one differ.
EXTENDS FpImageDevice

MCNrStages == 2
=============================================================================
