----------------------- MODULE MCSemanticBlockTracker -----------------------
(* The tracker driven by every sequence of calls, with a history cap of 3 *)
(* so that promptStart reaches the pop_front branch with a window of three *)
(* distinct blocks (the protocol instances keep the cap of 2).             *)
EXTENDS SemanticBlockTracker

CONSTANTS t1, t2, c1, c2

MCTokens == {t1, t2}
MCCommandLines == {c1, c2}
MCExitCodes == {0, 1}

=============================================================================
