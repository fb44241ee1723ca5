---------------------------- MODULE MCDmPipeline ----------------------------
(* Small instances of DmPipeline. *)
EXTENDS DmPipeline, TLC

CONSTANTS d1, d2, m1, p1, i1, i2, kb

\* The messages belong to one conversation.  The request m1 and the turns
\* drained after it share a bucket.
Ids == [m \in Msg |-> i1]
Buckets == [m \in Msg |-> IF m = m1 THEN kb ELSE None]
Bare == [k \in Key |-> k]
Windows == kb :> 2
=============================================================================
