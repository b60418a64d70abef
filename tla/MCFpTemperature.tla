--------------------------- MODULE MCFpTemperature ---------------------------
\* FpTemperature with thresholds that neither rate divides evenly.
EXTENDS FpTemperature

MCColdThresh == 4
MCHotWarmThresh == 7
MCWarmHotThresh == 11
MCTop == 14
=============================================================================
