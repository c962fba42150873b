----------------------------- MODULE MCListCache -----------------------------
(* An instance of ListCache for TLC.                                       *)
EXTENDS ListCache

CONSTANTS r1, r2, everywhere, near

MCRequests == {r1, r2}
MCAreas    == {everywhere, near}

\* The second page of the whole list, and the first of an area.
MCKeys == {[area |-> everywhere, page |-> 2, limit |-> 1], [area |-> near, page |-> 1, limit |-> 2]}
=============================================================================
