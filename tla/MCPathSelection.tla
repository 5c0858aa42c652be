--------------------------- MODULE MCPathSelection ---------------------------
EXTENDS PathSelection
\* Calls over candidates that all read healthy.
AllHealthyReads ==
  {r \in AllReads : \A k \in DOMAIN r : r[k] = [st |-> "up", rtt |-> 0, qos |-> 0]}
\* Flow hashes 0 .. 2.
SmallHashes == {Word(0, 0), Word(0, 1), Word(0, 2)}
\* Flow hashes 0 .. 3 and 0xA5A55A5A, the first salt_, whose seed is 0.  With
\* explore_ppm = 500000 hashes 2 and 3 roll below it, and 0, 1 and 0xA5A55A5A
\* do not.
ExploreHashes == SmallHashes \cup {Word(0, 3), Salt0}
=============================================================================
