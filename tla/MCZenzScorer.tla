---------------------------- MODULE MCZenzScorer ----------------------------
\* ZenzScorer for TLC.
EXTENDS ZenzScorer

\* Two scorer processes that meet, one of which may be told to end; and one that has
\* two faults to get over, a signal and a caller that leaves among them.
One == [faults |-> 2, places |-> 1, signals |-> TRUE, hangups |-> TRUE, quick |-> FALSE]
MCScorerBounds ==
    {[One EXCEPT !.faults = 1, !.places = 2, !.hangups = FALSE, !.quick = TRUE], One}
=============================================================================
