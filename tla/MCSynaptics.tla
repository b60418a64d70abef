----------------------------- MODULE MCSynaptics -----------------------------
\* A gallery of two prints, two enroll stages.
EXTENDS Synaptics

MCPercents == {0, 50, 60, 100}
=============================================================================
