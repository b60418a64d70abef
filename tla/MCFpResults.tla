----------------------------- MODULE MCFpResults -----------------------------
\* FpResults with two prints, of which one, both or none may be in the gallery.
EXTENDS FpResults

CONSTANTS p1, p2

TwoPrints == {p1, p2}
=============================================================================
