---------------------------- MODULE MCLimitStream ----------------------------
(* Every pair of intervals with skips below 4 and fetches below 5, over a    *)
(* stream long enough to outlast both, in every cut into batches.            *)
EXTENDS LimitStream

MCIntervals == [skip : 0 .. 3, fetch : (0 .. 4) \cup {NoFetch}]
=============================================================================
