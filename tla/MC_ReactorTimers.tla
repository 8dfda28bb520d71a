------------------------- MODULE MC_ReactorTimers -------------------------
EXTENDS ReactorTimers, TLC

CONSTANTS f1, f2, f3

TwoFibers == {f1, f2}
ThreeFibers == {f1, f2, f3}
=============================================================================
