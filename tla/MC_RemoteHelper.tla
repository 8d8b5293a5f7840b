--------------------------- MODULE MC_RemoteHelper ---------------------------
EXTENDS RemoteHelper, TLC

CONSTANTS p1, p2, f1, none, main

\* Two pushers whose branches share a root commit, and one fetcher with an
\* empty repository.  OIDs are two hex digits over {0, 1}.
MC_LocalObjects ==
    [h \in {p1, p2, f1} |->
        CASE h = p1 -> {<<0, 0>>, <<0, 1>>}
          [] h = p2 -> {<<0, 0>>, <<1, 0>>}
          [] OTHER  -> {}]

MC_LocalTip ==
    [h \in {p1, p2} |-> IF h = p1 THEN <<0, 1>> ELSE <<1, 0>>]

=============================================================================
