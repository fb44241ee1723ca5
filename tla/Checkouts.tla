----------------------------- MODULE Checkouts -----------------------------
(***************************************************************************)
(* POST /api/clawpatch/review and the checkouts it reads, of one managed   *)
(* repository: src/api/clawpatch.ts, lib/checkout-cache.ts, and the daily  *)
(* cleanup, which prunes the same directories through a cache of its own.  *)
(* Reviews of one head share a clone; a head is a model value, and of a    *)
(* checkout only counts whether it is all there and younger than its TTL.  *)
(***************************************************************************)
EXTENDS Naturals, FiniteSets

CONSTANTS Reviews, Heads, Managed, MaxCrashes

VARIABLES
  phase,    \* of each review: where its handler is
  head,     \* the head GitHub answered for its pull request
  tree,     \* of each head: its directory under CHECKOUT_ROOT
  fresh,    \* its mtime is within the TTL
  inflight, \* the step of the clone under way, "none" without one; "hung" when
            \* its token never comes
  crashes

vars == <<phase, head, tree, fresh, inflight, crashes>>

Init ==
  /\ phase = [r \in Reviews |-> "idle"] /\ head \in [Reviews -> Heads]
  /\ tree = [h \in Heads |-> "absent"] /\ fresh = [h \in Heads |-> FALSE]
  /\ inflight = [h \in Heads |-> "none"] /\ crashes = 0

Waiting(h) == {r \in Reviews : head[r] = h /\ phase[r] = "waiting"}
Readers(h) == {r \in Reviews : head[r] = h /\ phase[r] \in {"review", "findings"}}

\* The handler of the reviews in R goes on at p.
Goes(R, p) == phase' = [r \in Reviews |-> IF r \in R THEN p ELSE phase[r]]

\* gateRepoAccess
Allowed(r) == r \in Managed

\* An unmanaged repository is refused before GitHub is asked.
Request(r) ==
  /\ phase[r] = "idle" /\ Goes({r}, IF Allowed(r) THEN "lookup" ELSE "failed")
  /\ UNCHANGED <<head, tree, fresh, inflight, crashes>>

\* resolve: a clone under way is shared ...
JoinsNone(h) == FALSE
Joins(h) == inflight[h] # "none"
\* ... a directory within its TTL is a hit and is touched ...
Hit(h) == ~Joins(h) /\ tree[h] # "absent" /\ fresh[h]

\* ... and otherwise a stale one is removed and the clone waits for its token.
Resolve(r, h) ==
  \/ Joins(h) /\ Goes({r}, "waiting") /\ UNCHANGED <<tree, fresh, inflight>>
  \/ Hit(h) /\ Goes({r}, "review") /\ UNCHANGED <<tree, fresh, inflight>>
  \/ /\ ~Joins(h) /\ ~Hit(h) /\ Goes({r}, "waiting")
     /\ tree' = [tree EXCEPT ![h] = "absent"] /\ inflight' = [inflight EXCEPT ![h] = "token"]
     /\ UNCHANGED fresh

\* resolvePrRefs: a token, and an answer within 15 s, or not.
Lookup(r) ==
  /\ phase[r] = "lookup"
  /\ \/ \E h \in Heads : head' = [head EXCEPT ![r] = h] /\ Resolve(r, h)
     \/ Goes({r}, "failed") /\ UNCHANGED <<head, tree, fresh, inflight>>
  /\ UNCHANGED crashes

\* getToken's calls to GitHub have no timeout: one may never return.
LookupHangs(r) ==
  /\ phase[r] = "lookup" /\ Goes({r}, "hung")
  /\ UNCHANGED <<head, tree, fresh, inflight, crashes>>

\* _resolveImpl's catch leaves no half-cloned tree behind ...
Discarded(h) == [tree EXCEPT ![h] = "absent"]
\* ... and every caller of the shared promise is refused.
Refuse(h) ==
  /\ Goes(Waiting(h), "failed") /\ inflight' = [inflight EXCEPT ![h] = "none"]

Token(h) ==
  /\ inflight[h] = "token"
  /\ \/ /\ inflight' = [inflight EXCEPT ![h] = "clone"] /\ tree' = [tree EXCEPT ![h] = "growing"]
        /\ fresh' = [fresh EXCEPT ![h] = TRUE] /\ UNCHANGED phase
     \/ Refuse(h) /\ UNCHANGED <<tree, fresh>>
  /\ UNCHANGED <<head, crashes>>

\* Nor may this one, and the shared promise is kept for later reviews to join.
TokenHangs(h) ==
  /\ inflight[h] = "token" /\ inflight' = [inflight EXCEPT ![h] = "hung"]
  /\ UNCHANGED <<phase, head, tree, fresh, crashes>>

\* defaultCloneRepo: clone, an explicit fetch that may fail, checkout.  Each
\* git ends within 3 minutes, one whose tree was pruned meanwhile in an error.
Clone(h) ==
  /\ inflight[h] = "clone" /\ tree[h] = "growing" /\ inflight' = [inflight EXCEPT ![h] = "fetch"]
  /\ UNCHANGED <<phase, head, tree, fresh, crashes>>

Fetch(h) ==
  /\ inflight[h] = "fetch" /\ inflight' = [inflight EXCEPT ![h] = "checkout"]
  /\ UNCHANGED <<phase, head, tree, fresh, crashes>>

Checkout(h) ==
  /\ inflight[h] = "checkout" /\ tree[h] = "growing"
  /\ tree' = [tree EXCEPT ![h] = "whole"] /\ Goes(Waiting(h), "review")
  /\ inflight' = [inflight EXCEPT ![h] = "none"] /\ UNCHANGED <<head, fresh, crashes>>

GitFails(h) ==
  /\ inflight[h] \in {"clone", "checkout"} /\ tree' = Discarded(h) /\ Refuse(h)
  /\ UNCHANGED <<head, fresh, crashes>>

\* runCommand: clawpatch ci in the checkout, at most 5 minutes.
Review(r) ==
  /\ phase[r] = "review"
  /\ \/ tree[head[r]] # "absent" /\ Goes({r}, "findings")
     \/ Goes({r}, "failed")
  /\ UNCHANGED <<head, tree, fresh, inflight, crashes>>

\* git diff and clawpatch report: a failure is told in the answer, the run kept.
Findings(r) ==
  /\ phase[r] = "findings" /\ Goes({r}, "answered")
  /\ UNCHANGED <<head, tree, fresh, inflight, crashes>>

\* prune: entries past the TTL, then, over the caps, the least recently used.
\* Any set of the others stands for them.
Pruned(over) == [h \in Heads |-> IF h \in over \/ ~fresh[h] THEN "absent" ELSE tree[h]]

\* The skill of the daily ceremony.
Cleanup ==
  /\ \E over \in SUBSET Heads : tree' = Pruned(over)
  /\ UNCHANGED <<phase, head, fresh, inflight, crashes>>

\* An hour without a hit; a clone and a review take minutes.
Age(h) ==
  /\ fresh[h] /\ inflight[h] = "none" /\ Readers(h) = {}
  /\ fresh' = [fresh EXCEPT ![h] = FALSE]
  /\ UNCHANGED <<phase, head, tree, inflight, crashes>>

\* The process dies with its handlers and its gits.  The directories stay.
Crash ==
  /\ crashes < MaxCrashes /\ crashes' = crashes + 1
  /\ phase' = [r \in Reviews |-> IF phase[r] \in {"idle", "answered"} THEN phase[r] ELSE "failed"]
  /\ inflight' = [h \in Heads |-> "none"]
  /\ tree' = [h \in Heads |-> IF tree[h] = "growing" THEN "torn" ELSE tree[h]]
  /\ UNCHANGED <<head, fresh>>

Work(r) == Lookup(r) \/ Review(r) \/ Findings(r)
Git(h) == Token(h) \/ Clone(h) \/ Fetch(h) \/ Checkout(h) \/ GitFails(h)

Next ==
  \/ Cleanup \/ Crash
  \/ \E r \in Reviews : Request(r) \/ LookupHangs(r) \/ Work(r)
  \/ \E h \in Heads : Age(h) \/ TokenHangs(h) \/ Git(h)

\* git, clawpatch and the lookup have a timeout each, and a token comes, or not,
\* unless its fetch hangs.
Fairness == (\A r \in Reviews : WF_vars(Work(r))) /\ (\A h \in Heads : WF_vars(Git(h)))
Spec == Init /\ [][Next]_vars /\ Fairness

-----------------------------------------------------------------------------
(* Properties. *)

TypeOK ==
  /\ phase \in [Reviews -> {"idle", "lookup", "waiting", "review", "findings", "answered", "failed",
                         "hung"}]
  /\ head \in [Reviews -> Heads] /\ fresh \in [Heads -> BOOLEAN] /\ crashes \in 0 .. MaxCrashes
  /\ tree \in [Heads -> {"absent", "growing", "whole", "torn"}]
  /\ inflight \in [Heads -> {"none", "token", "clone", "fetch", "checkout", "hung"}]

\* No review is handed a tree that is still being cloned or whose clone failed:
\* CheckoutCache.resolve answers with a directory only once it is whole.  (A
\* clone that died with the process, "torn", it cannot tell from a hit.)
ServedWhole ==
  [][\A r \in Reviews :
       phase'[r] = "review" /\ phase[r] # "review" => tree'[head'[r]] \in {"whole", "torn"}]_vars

\* The token of a review, or of the clone it waits for, never comes.
Hung(r) == phase[r] = "hung" \/ (phase[r] = "waiting" /\ inflight[head[r]] = "hung")

\* Every review is answered, and a stalled git holds up no later one.  Only one
\* whose token never comes is not, nor those that join its clone.
ReviewsEnd ==
  \A r \in Reviews : []<>(phase[r] \in {"idle", "answered", "failed"} \/ Hung(r))

=============================================================================
