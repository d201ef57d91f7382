------------------------- MODULE MCDirectoryRefresh -------------------------
EXTENDS DirectoryRefresh

CONSTANTS r1, q1, s1, p1, p2

OneRepo == {r1}
OnePlain == {q1}
OneSub == {s1}
TwoPanels == {p1, p2}
OneFollowed == {p1}
=============================================================================
