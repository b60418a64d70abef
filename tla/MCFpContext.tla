----------------------------- MODULE MCFpContext -----------------------------
\* FpContext with three devices, one of which no driver supports.
EXTENDS FpContext

CONSTANTS d1, d2, d3

AllDevices == {d1, d2, d3}
TwoSupported == {d1, d2}
=============================================================================
