--------------------------- MODULE MC_BlockingIO ---------------------------
EXTENDS BlockingIO, TLC

CONSTANTS c1, c2, c3, c4, x, y, z

FourClients == {c1, c2, c3, c4}
ThreeClients == {c1, c2, c3}
TwoClients == {c1, c2}
TwoFds == {x, y}
ThreeFds == {x, y, z}
=============================================================================
