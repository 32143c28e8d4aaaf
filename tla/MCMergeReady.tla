---------------------------- MODULE MCMergeReady ----------------------------
(* Bounds for MergeReady.                                                   *)
EXTENDS MergeReady

(* Two records of a context and a run, more runs than a page holds, or a    *)
(* run and more threads than a page holds.                                  *)
ContextsOrReview ==
    {[posts |-> 2, threads |-> 0, runs |-> 1], [posts |-> 0, threads |-> 0, runs |-> 3],
     [posts |-> 0, threads |-> 2, runs |-> 1]}
=============================================================================
