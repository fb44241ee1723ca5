----------------------------- MODULE GitHubReview -----------------------------
(***************************************************************************)
(* The life of a pull request under the automation of                      *)
(* lib/plugins/github.ts and the verdict tools of src/api/pr-inspector.ts.  *)
(*                                                                         *)
(* A review is dispatched by pull_request webhooks, by CI-completion       *)
(* webhooks and by a sweep; the reviewer (a language model driving the     *)
(* verdict tools) posts COMMENT, APPROVE or REQUEST_CHANGES; one decision  *)
(* procedure, run by CI webhooks and by the sweep, promotes a held review  *)
(* to APPROVE once CI is green, arms auto-merge, and completes a merge     *)
(* that stays wedged.  An evaluation awaits GitHub four to six times, so   *)
(* evaluations, reviews, pushes and CI interleave.                         *)
(*                                                                         *)
(* One pull request, targeting main: the process keeps nothing across pull *)
(* requests but the set of reviewed repositories.  A commit matters only   *)
(* as being or not being the head, so the maps keyed by SHA are kept for   *)
(* the head, and a push makes what is in flight stale.  Windows of time    *)
(* are entries that may lapse at any moment.  Deliveries may be lost,      *)
(* late or repeated; calls fail, and may hang, since none has a timeout.   *)
(* GitHub is external, known by how the code uses it.  A pull request has  *)
(* no more reviews than a page of them, which is all the code reads.       *)
(***************************************************************************)
EXTENDS Naturals, FiniteSets

CONSTANTS
  Hooks,         \* CI-completion webhooks being handled at once; bounds them
  Sweep,         \* the sweep's evaluation: single-flight (reconcileInFlight)
  Runs,          \* pr_review executions at once; bounds them
  Registered     \* is the repository in the project registry

VARIABLES
  \* GitHub
  status,     \* "draft", "open", "closed", "merged" by the process, "landed"
              \* by GitHub; the model ends with the merge
  ci,         \* the check-runs of the head
  latest,     \* the reviewer's latest review; "held" is COMMENTED or
              \* CHANGES_REQUESTED, which the decision treats alike
  autoMerge,  \* "off", "asked" (_enableAutoMerge is under way), "on"
  \* the process
  claimed,    \* recentDispatches holds approve-on-green:...@head
  watch,      \* mergeCompletionFirstSeen: "none", "seen", "due" after the grace
  rescued,    \* dispatches under the entry of reviewRescueDispatched; 0 is none
  covered,    \* the sweep covers the repository
  eval,       \* where each evaluation awaits and what it knows
  run,        \* where each review stands
  \* history
  reviewed,   \* a review that read the pull request has been submitted
  inspected,  \* one has been submitted under the present head
  quiet       \* people, CI and the network have settled

github == <<status, ci, latest, autoMerge>>
maps == <<claimed, watch, rescued, covered>>
history == <<reviewed, inspected, quiet>>
vars == <<github, maps, eval, run, history>>

Eval == Hooks \union {Sweep}
Verdict == {"none", "held", "APPROVED", "DISMISSED"}
Phase ==
  {"free", "hung", "reviews", "rescue", "terminal", "green", "threads", "approve", "late", "merge"}
Free == [at |-> "free", stale |-> FALSE, latest |-> "none"]

TypeOK ==
  /\ status \in {"draft", "open", "closed", "merged", "landed"}
  /\ ci \in {"none", "running", "green", "red"}
  /\ latest \in Verdict /\ autoMerge \in {"off", "asked", "on"}
  /\ claimed \in BOOLEAN /\ covered \in BOOLEAN
  /\ watch \in {"none", "seen", "due"} /\ rescued \in 0 .. 2
  /\ eval \in [Eval -> [at : Phase, stale : BOOLEAN, latest : Verdict]]
  /\ run \in [Runs -> {"rest", "asked", "read", "guarded"}]
  /\ reviewed \in BOOLEAN /\ inspected \in BOOLEAN /\ quiet \in BOOLEAN

\* A process starts with its registry and an empty reviewedRepoCoords.
Init ==
  /\ status \in {"draft", "open"} /\ ci = "none"
  /\ latest = "none" /\ autoMerge = "off"
  /\ claimed = FALSE /\ watch = "none" /\ rescued = 0
  /\ covered = Registered
  /\ eval = [e \in Eval |-> Free] /\ run = [r \in Runs |-> "rest"]
  /\ reviewed = FALSE /\ inspected = FALSE /\ quiet = FALSE

\* What a read over the network may answer: the value, or what the code makes
\* of a failure.
Read(value, onFailure) == IF quiet THEN {value} ELSE {value, onFailure}

-----------------------------------------------------------------------------
(* Dispatching a review: _handleAutoReview up to the dispatcher's cooldown. *)

\* The request reaches the dispatcher within the publish, which refuses it in
\* the cooldown of its head, or starts an execution.
StartReview ==
  \/ UNCHANGED run /\ (~quiet \/ \A r \in Runs : run[r] # "rest")
  \/ \E r \in Runs :
       /\ run[r] = "rest"
       /\ run' = [run EXCEPT ![r] = "asked"]

\* The repository is covered from its first review on.
AutoReview == covered' = TRUE /\ StartReview
NoReview == UNCHANGED <<covered, run>>

\* pull_request opened or synchronize, perhaps delivered after the close, and
\* review_requested of the reviewer's bot.  One the key of an earlier delivery
\* refuses, or of a draft (which takes the key), is one that is lost.
Webhook ==
  /\ ~quiet /\ status # "draft"
  /\ AutoReview
  /\ UNCHANGED <<github, claimed, watch, rescued, eval, history>>

-----------------------------------------------------------------------------
(* The reviewer and its tools (pr-inspector.ts).                            *)

\* The model gathers its evidence: the diff, CI, threads, its prior review.
RunReads(r) ==
  /\ run[r] = "asked"
  /\ run' = [run EXCEPT ![r] = "read"]
  /\ UNCHANGED <<github, maps, eval, history>>

\* submitReview names no commit: GitHub files the review under the head of
\* that moment, whichever head the run has read.
Submits(r, verdict) ==
  /\ latest' = verdict
  /\ reviewed' = TRUE /\ inspected' = TRUE
  /\ run' = [run EXCEPT ![r] = "rest"]

\* review_comment, which has no guard, or review_request_changes.
RunHolds(r) ==
  /\ run[r] = "read"
  /\ Submits(r, "held")
  /\ UNCHANGED <<status, ci, autoMerge, maps, eval, quiet>>

\* guardTerminalCi: a formal verdict passes when no check of the head it reads
\* is pending (a repository without checks passes).
CiSettled(c) == c # "running"
RunGuards(r) ==
  /\ run[r] = "read"
  /\ CiSettled(ci)
  /\ run' = [run EXCEPT ![r] = "guarded"]
  /\ UNCHANGED <<github, maps, eval, history>>

RunApproves(r) ==
  /\ run[r] = "guarded"
  /\ Submits(r, "APPROVED")
  /\ UNCHANGED <<status, ci, autoMerge, maps, eval, quiet>>

\* The loop runs out of turns or time: _handleOutboundReply escalates to the
\* operator and posts no review.  Mutants: it leaves a COMMENT review; its error
\* stands as a review's state.
ExhaustedComments == "held"
ExhaustedErrors == "error"
ExhaustedLeaves == latest
RunExhausts(r) ==
  /\ run[r] \in {"asked", "read"} /\ ~quiet
  /\ run' = [run EXCEPT ![r] = "rest"]
  /\ latest' = ExhaustedLeaves
  /\ UNCHANGED <<status, ci, autoMerge, maps, eval, history>>

\* close_pr, close_pr_as_not_planned and reopen_pr, by the model or a person.
SetPrState ==
  /\ ~quiet
  /\ \/ status = "open" /\ status' = "closed"
     \/ status = "closed" /\ status' = "open"
  /\ UNCHANGED <<ci, latest, autoMerge, maps, eval, run, history>>

\* A person dismisses the reviewer's review.
Dismiss ==
  /\ ~quiet /\ latest \in {"held", "APPROVED"}
  /\ latest' = "DISMISSED"
  /\ UNCHANGED <<status, ci, autoMerge, maps, eval, run, history>>

-----------------------------------------------------------------------------
(* _evaluateApproveOnGreen, cut at its awaits.                               *)

Goes(e, at) == [eval EXCEPT ![e].at = at]
Ends(e) == [eval EXCEPT ![e] = Free]

\* What the evaluation's own commit shows: the head's checks, or anything.
CiOf(e) == IF eval[e].stale THEN {"none", "running", "green", "red"} ELSE {ci}

\* prEligibleForCiReview.  The webhook handler has asked for the pull requests
\* of its commit, the sweep for the open ones of each repository it covers.
Begin(e) ==
  /\ eval[e].at = "free"
  /\ status = "open"
  /\ IF e = Sweep THEN covered ELSE ~quiet /\ ci # "none"
  /\ eval' = [eval EXCEPT ![e] = [at |-> "reviews", stale |-> FALSE, latest |-> "none"]]
  /\ UNCHANGED <<github, maps, run, history>>

\* No reviews, or none that could be read: looked into further only when the
\* pull request is older than RESCUE_MIN_AGE_MS.
ReadReviews(e) ==
  /\ eval[e].at = "reviews"
  /\ \E got \in Read(latest, "none"), old \in Read(TRUE, FALSE) :
       eval' = IF got = "none"
                 THEN IF old THEN Goes(e, "rescue") ELSE Ends(e)
                 ELSE [eval EXCEPT ![e].at = "terminal", ![e].latest = got]
  /\ UNCHANGED <<github, maps, run, history>>

\* _claimRescue: one slot for each head.  Mutants: nobody looks; the test of
\* the slot is the wrong way round.
AlwaysClaimable == TRUE
NeverClaimable == rescued # 0
Claimable == rescued = 0

\* "unreviewed": the caller claims the rescue and dispatches a first review.
\* Checks that cannot be read count as settled.
ReadRescueCi(e) ==
  /\ eval[e].at = "rescue"
  /\ \E c \in CiOf(e) : \E settled \in Read(CiSettled(c), TRUE) :
       \/ /\ settled /\ ~eval[e].stale /\ Claimable
          /\ rescued' = IF rescued = 2 THEN 2 ELSE rescued + 1
          /\ AutoReview
       \/ settled /\ eval[e].stale /\ AutoReview /\ UNCHANGED rescued
       \/ ~(settled /\ ~eval[e].stale /\ Claimable) /\ NoReview /\ UNCHANGED rescued
  /\ eval' = Ends(e)
  /\ UNCHANGED <<github, claimed, watch, history>>

\* "needs-review": a webhook dispatches the model again, the sweep does not.
NeedsReview(e) ==
  /\ eval' = Ends(e)
  /\ IF e = Sweep THEN NoReview ELSE AutoReview

\* A dismissed review is none of the states that are looked into further.
ReadTerminal(e) ==
  /\ eval[e].at = "terminal"
  /\ \E c \in CiOf(e) : \E settled \in Read(CiSettled(c), TRUE) :
       \/ settled /\ eval[e].latest # "DISMISSED" /\ eval' = Goes(e, "green") /\ NoReview
       \/ settled /\ eval[e].latest = "DISMISSED" /\ NeedsReview(e)
       \/ ~settled /\ eval' = Ends(e) /\ NoReview
  /\ UNCHANGED <<github, claimed, watch, rescued, history>>

\* allChecksGreen fails closed.
ReadGreen(e) ==
  /\ eval[e].at = "green"
  /\ \E c \in CiOf(e) : \E green \in Read(c = "green", FALSE) :
       IF green THEN eval' = Goes(e, "threads") /\ NoReview
                ELSE NeedsReview(e)
  /\ UNCHANGED <<github, claimed, watch, rescued, history>>

\* _maybeCompleteWedgedMerge up to its request: the first sight of a pull
\* request that is approved, green and clean starts the grace period.
Watches(e) ==
  /\ NoReview /\ UNCHANGED claimed
  /\ IF eval[e].stale
       THEN eval' = Ends(e) /\ UNCHANGED watch
       ELSE /\ watch' = IF watch = "none" THEN "seen" ELSE watch
            /\ eval' = IF watch = "due" THEN Goes(e, "merge") ELSE Ends(e)

\* The approve key is taken before the request is sent.  Mutant: it is taken
\* when the request has been answered, so not here.
KeyNotYetTaken(before) == before
KeyTaken(before) == TRUE
Promotes(e) ==
  /\ NoReview /\ UNCHANGED watch
  /\ IF claimed /\ ~eval[e].stale
       THEN eval' = Ends(e) /\ UNCHANGED claimed
       ELSE /\ eval' = Goes(e, "approve")
            /\ claimed' = IF eval[e].stale THEN claimed ELSE KeyTaken(claimed)

\* Threads come and go until all is quiet, and count as unresolved when they
\* cannot be read.
ReadThreads(e) ==
  /\ eval[e].at = "threads"
  /\ \E unresolved \in Read(FALSE, TRUE) :
       \/ ~unresolved /\ eval[e].latest = "APPROVED" /\ Watches(e)
       \/ ~unresolved /\ eval[e].latest # "APPROVED" /\ Promotes(e)
       \/ /\ unresolved /\ eval[e].latest = "APPROVED"
          /\ eval' = Ends(e) /\ NoReview /\ UNCHANGED <<watch, claimed>>
       \/ /\ unresolved /\ eval[e].latest # "APPROVED"
          /\ NeedsReview(e) /\ UNCHANGED <<watch, claimed>>
  /\ UNCHANGED <<github, rescued, history>>

\* submitPrReview names the commit, and GitHub refuses one that is not the
\* head.  An accepted approval starts _enableAutoMerge, which is not awaited;
\* one whose answer is lost does not.
SubmitApproval(e) ==
  /\ eval[e].at \in {"approve", "late"}
  /\ \E accepted \in Read(~eval[e].stale, FALSE) :
       \/ accepted /\ latest' = "APPROVED" /\ autoMerge' = "asked"
       \/ accepted /\ ~quiet /\ latest' = "APPROVED" /\ UNCHANGED autoMerge
       \/ ~accepted /\ UNCHANGED <<latest, autoMerge>>
  /\ eval' = Ends(e)
  /\ UNCHANGED <<status, ci, maps, run, history>>

\* A new head: what is in flight is stale, and nothing is recorded for it.
NewHead(inFlight) ==
  /\ eval' = [e \in Eval |-> [inFlight[e] EXCEPT !.stale = inFlight[e].at \notin {"free", "hung"}]]
  /\ ci' = "none" /\ claimed' = FALSE /\ watch' = "none" /\ rescued' = 0
  /\ inspected' = FALSE

Mergeable == status = "open" /\ ci = "green"

\* The request carries the commit: merged; 409 when the head moved; a branch
\* behind main is updated, which makes a new head; an update that fails drops
\* the watch, any other refusal keeps it.
CompleteMerge(e) ==
  /\ eval[e].at = "merge"
  /\ \/ /\ ~eval[e].stale /\ Mergeable
        /\ status' = "merged" /\ watch' = "none" /\ eval' = Ends(e)
        /\ UNCHANGED <<ci, claimed, rescued, inspected>>
     \/ /\ ~eval[e].stale /\ status = "open" /\ ~quiet
        /\ NewHead(Ends(e)) /\ UNCHANGED status
     \/ /\ eval[e].stale \/ ~quiet \/ ~Mergeable
        /\ watch' \in Read(watch, "none") /\ eval' = Ends(e)
        /\ UNCHANGED <<status, ci, claimed, rescued, inspected>>
  /\ UNCHANGED <<latest, autoMerge, covered, run, reviewed, quiet>>

\* _enableAutoMerge: armed; or merged at once when nothing is pending, this
\* time without naming the commit; or refused.
EnableAutoMerge ==
  /\ autoMerge = "asked"
  /\ \/ autoMerge' = "on" /\ UNCHANGED status
     \/ Mergeable /\ status' = "merged" /\ autoMerge' = "off"
     \/ autoMerge' = "off" /\ UNCHANGED status
  /\ UNCHANGED <<ci, latest, maps, eval, run, history>>

\* A call that gets no answer (_ghGet, submitPrReview, the merge, the token's
\* fetch) holds the sweep, and reconcileInFlight keeps any other from starting.
\* A webhook's handling that hangs is as one that fails.
Hang ==
  /\ ~quiet /\ eval[Sweep].at # "hung"
  /\ eval' = [eval EXCEPT ![Sweep] = [Free EXCEPT !.at = "hung"]]
  /\ UNCHANGED <<github, maps, run, history>>

EvalStep(e) ==
  \/ ReadReviews(e) \/ ReadRescueCi(e) \/ ReadTerminal(e) \/ ReadGreen(e)
  \/ ReadThreads(e) \/ SubmitApproval(e) \/ CompleteMerge(e)

-----------------------------------------------------------------------------
(* Time, people, GitHub, restarts.                                          *)

\* DEDUP_WINDOW_MS after the claim, perhaps with the approval still in flight.
ApproveKeyLapses ==
  /\ claimed /\ claimed' = FALSE
  /\ eval' = [e \in Eval |-> IF eval[e].at = "approve" /\ ~eval[e].stale
                               THEN [eval[e] EXCEPT !.at = "late"] ELSE eval[e]]
  /\ UNCHANGED <<github, watch, rescued, covered, run, history>>

GracePasses ==
  /\ watch = "seen" /\ watch' = "due"
  /\ UNCHANGED <<github, claimed, rescued, covered, eval, run, history>>

\* MERGE_COMPLETION_TTL_MS without a completed merge.
WatchLapses ==
  /\ watch = "due" /\ ~quiet /\ watch' = "none"
  /\ UNCHANGED <<github, claimed, rescued, covered, eval, run, history>>

RescueLapses ==
  /\ rescued # 0 /\ rescued' = 0
  /\ UNCHANGED <<github, claimed, watch, covered, eval, run, history>>

Push ==
  /\ status = "open" /\ ~quiet
  /\ NewHead(eval)
  /\ UNCHANGED <<status, latest, autoMerge, covered, run, reviewed, quiet>>

\* Marked ready for review: no delivery the plugin listens to.
Ready ==
  /\ status = "draft" /\ ~quiet
  /\ status' = "open"
  /\ UNCHANGED <<ci, latest, autoMerge, maps, eval, run, history>>

\* Checks appear, end, and are run again; once all has settled they pass.
CiNext ==
  CASE ci = "running" -> Read("green", "red")
    [] ci \in {"none", "red"} -> {"running"}
    [] ci = "green" -> IF quiet THEN {} ELSE {"running"}
CiMoves ==
  /\ status = "open"
  /\ ci' \in CiNext
  /\ UNCHANGED <<status, latest, autoMerge, maps, eval, run, history>>

NativeMerge ==
  /\ autoMerge = "on" /\ Mergeable /\ latest = "APPROVED"
  /\ status' = "landed"
  /\ UNCHANGED <<ci, latest, autoMerge, maps, eval, run, history>>

Restart ==
  /\ ~quiet
  /\ claimed' = FALSE /\ watch' = "none" /\ rescued' = 0
  /\ covered' = Registered
  /\ eval' = [e \in Eval |-> Free] /\ run' = [r \in Runs |-> "rest"]
  /\ autoMerge' = IF autoMerge = "asked" THEN "off" ELSE autoMerge
  /\ UNCHANGED <<status, ci, latest, history>>

Settle ==
  /\ ~quiet /\ status = "open"
  /\ quiet' = TRUE
  /\ UNCHANGED <<status, ci, latest, autoMerge, maps, eval, run, reviewed, inspected>>

RunStep(r) == RunReads(r) \/ RunHolds(r) \/ RunApproves(r)

Going == status \notin {"merged", "landed"}

Steps ==
  \/ Webhook \/ SetPrState \/ Dismiss \/ Hang
  \/ \E r \in Runs : RunStep(r) \/ RunGuards(r) \/ RunExhausts(r)
  \/ \E e \in Eval : Begin(e) \/ EvalStep(e)
  \/ EnableAutoMerge \/ NativeMerge
  \/ ApproveKeyLapses \/ GracePasses \/ WatchLapses \/ RescueLapses
  \/ Push \/ Ready \/ CiMoves \/ Restart \/ Settle

Next == Going /\ Steps

\* Timers fire, requests are answered unless the sweep hangs, the interval
\* starts sweeps while none is under way, a review that is not cut off ends,
\* checks end.
Fairness ==
  /\ WF_vars(Going /\ Begin(Sweep))
  /\ \A e \in Eval : WF_vars(Going /\ EvalStep(e))
  /\ \A r \in Runs : WF_vars(Going /\ RunStep(r))
  /\ WF_vars(Going /\ (ApproveKeyLapses \/ RescueLapses))
  /\ WF_vars(Going /\ GracePasses)
  /\ WF_vars(Going /\ CiMoves)

Spec == Init /\ [][Next]_vars
FairSpec == Spec /\ Fairness

-----------------------------------------------------------------------------
(* Properties *)

\* What stands as APPROVED was read by a review: a run that ran out of budget
\* leaves nothing an evaluation could take for a held review and promote.
ApprovedWasReviewed == latest = "APPROVED" => reviewed

\* Co-arriving completions and the sweep never have two approvals of one head
\* in flight, unless the key's window ended under one of them.
OneApprovalInFlight ==
  \A e, f \in Eval :
    eval[e].at = "approve" /\ eval[f].at = "approve" /\ ~eval[e].stale /\ ~eval[f].stale
    => e = f

\* A lost review is rescued once for each head and window, whichever of sweep
\* and webhooks sees it, and however their reads interleave.
RescuedOnce == rescued <= 1

\* Level-triggered reconciliation: whatever webhooks, reviews and watches were
\* lost, a pull request left alone with checks that pass, no open thread and a
\* repository the sweep covers is reviewed, approved and merged, as a head a
\* review was submitted under.  Three cases are left out: a sweep that hangs, a
\* review a person dismissed, which the sweep leaves to a webhook, and a head
\* pushed after the review, whose merge MergedWasSeen is about.
EventuallyMerged ==
  []<>(/\ quiet /\ Registered /\ eval[Sweep].at # "hung" /\ latest # "DISMISSED"
       /\ inspected \/ latest = "none"
       => status \in {"merged", "landed"} /\ inspected)

\* The merge the process completes is never of commits nobody reviewed, for the
\* request carries the head's commit (github.ts:1243, 1565).
MergedWasSeen ==
  [][\A e \in Eval : CompleteMerge(e) /\ status' = "merged" => inspected]_vars

=============================================================================
