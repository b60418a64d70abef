--------------------------- MODULE MCImageDrivers ---------------------------
\* The drivers with two enroll stages and images of two parts or frames.
EXTENDS ImageDrivers

MCNrStages == 2
MCNbPartials == 2
MCUruTries == 2
MCUruPending == 2
MCUruKeys == 1
MCElanMinFrames == 1
MCElanMaxFrames == 2
MCElanAttempts == 3
=============================================================================
