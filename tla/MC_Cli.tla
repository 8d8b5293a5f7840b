------------------------------- MODULE MC_Cli -------------------------------
EXTENDS Cli, TLC

CONSTANTS p1, p2, c1, none, main

\* Two pushes whose branches share a root commit, and one clone.  OIDs are
\* two hex digits over {0, 1}.
MC_LocalObjects ==
    [c \in {p1, p2} |-> IF c = p1 THEN {<<0, 0>>, <<0, 1>>}
                                  ELSE {<<0, 0>>, <<1, 0>>}]

MC_LocalTip ==
    [c \in {p1, p2} |-> IF c = p1 THEN <<0, 1>> ELSE <<1, 0>>]

=============================================================================
