---------------------------- MODULE MCTaskTracker ----------------------------
(* Small instances of TaskTracker. *)
EXTENDS TaskTracker, TLC

CONSTANTS c1, c2, i1, i2, a1, a2, s1, s2

\* Two calls under ids of their own.
Distinct == c1 :> i1 @@ c2 :> i2
\* One call.
Alone == [c \in Call |-> i1]
\* c1 names its agent; the skill of c2 is served by both.
Homes == c1 :> a1 @@ c2 :> a2
Skills == c1 :> {} @@ c2 :> {a1, a2}
OneHome == [c \in Call |-> a1]
OwnSkill == [c \in Call |-> {a1}]
\* The calls are interchangeable together with their ids, and so are the
\* sweeps.
CallSwap == [x \in {c1, c2, i1, i2} |->
               CASE x = c1 -> c2 [] x = c2 -> c1 [] x = i1 -> i2 [] x = i2 -> i1]
Symmetry == Permutations(Sweepers) \union {CallSwap}
=============================================================================
