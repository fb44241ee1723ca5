-------------------------- MODULE ReviewWorkProofs --------------------------
(***************************************************************************)
(* Safety of the review pipeline, for any numbers of webhooks, reviews,    *)
(* pushes and files. Each part is proved on its own, since the parts share *)
(* no state, and the properties the runs check follow at the end.          *)
(***************************************************************************)
EXTENDS ReviewWork, FiniteSetsExt, SequencesExt, FiniteSetTheorems, SequenceTheorems,
        WellFoundedInduction, NaturalsInduction, TLAPS

-----------------------------------------------------------------------------
\* Approvals. An evaluation that has read the reviews saw that of a review, and one that
\* approves holds the claim of its head.

Evaluation == [at : G!Phase, stale : BOOLEAN, latest : G!Verdict]

\* The parts of the type invariant.
Flags ==
  /\ claimed \in BOOLEAN /\ covered \in BOOLEAN
  /\ reviewed \in BOOLEAN /\ inspected \in BOOLEAN /\ quiet \in BOOLEAN
Words ==
  /\ status \in {"draft", "open", "closed", "merged", "landed"}
  /\ ci \in {"none", "running", "green", "red"}
  /\ latest \in G!Verdict /\ autoMerge \in {"off", "asked", "on"}
  /\ watch \in {"none", "seen", "due"} /\ rescued \in 0 .. 2
Jobs == run \in [Runs -> {"rest", "asked", "read", "guarded"}]
Evals == eval \in [G!Eval -> Evaluation]

\* An evaluation that has read the reviews and goes on.
Past == {"terminal", "green", "threads", "approve", "late", "merge"}

Reviewed ==
  /\ latest # "none" => reviewed
  /\ \A e \in G!Eval : eval[e].at \in Past => reviewed

Approves(e) == eval[e].at = "approve" /\ ~eval[e].stale

KeyHeld == \A e \in G!Eval : Approves(e) => claimed

-----------------------------------------------------------------------------
(* Types. *)

LEMMA TypeParts == G!TypeOK <=> Flags /\ Words /\ Jobs /\ Evals
BY DEF G!TypeOK, Flags, Words, Jobs, Evals, Evaluation

(***************************************************************************)
(* Starting a review, or none, leaves the runs typed.                      *)
(***************************************************************************)
LEMMA StartTyped ==
  ASSUME Jobs, G!StartReview
  PROVE  Jobs'
<1>1. CASE UNCHANGED run
  BY <1>1 DEF Jobs
<1>2. ASSUME NEW r \in Runs, run' = [run EXCEPT ![r] = "asked"]
      PROVE  Jobs'
  BY <1>2 DEF Jobs
<1> QED
  BY <1>1, <1>2 DEF G!StartReview

(***************************************************************************)
(* An evaluation that moves on or ends is one.                             *)
(***************************************************************************)
LEMMA GoesTyped ==
  ASSUME Evals, NEW e \in G!Eval, NEW at \in G!Phase
  PROVE  G!Goes(e, at) \in [G!Eval -> Evaluation] /\ G!Ends(e) \in [G!Eval -> Evaluation]
BY DEF Evals, G!Goes, G!Ends, G!Free, G!Phase, G!Verdict, Evaluation

(***************************************************************************)
(* Where a step takes an evaluation.                                       *)
(***************************************************************************)
LEMMA Moves ==
  ASSUME NEW e \in G!Eval
  PROVE  /\ G!ReadRescueCi(e) => eval' = G!Ends(e)
         /\ G!ReadTerminal(e) => eval' = G!Goes(e, "green") \/ eval' = G!Ends(e)
         /\ G!ReadGreen(e) => eval' = G!Goes(e, "threads") \/ eval' = G!Ends(e)
         /\ G!ReadThreads(e) => \/ eval' = G!Goes(e, "merge") \/ eval' = G!Ends(e)
                                \/ eval' = G!Goes(e, "approve") /\ G!Promotes(e)
         /\ G!SubmitApproval(e) => eval' = G!Ends(e)
BY DEF G!ReadRescueCi, G!ReadTerminal, G!ReadGreen, G!ReadThreads, G!SubmitApproval, G!Watches,
       G!Promotes, G!NeedsReview

LEMMA ReadReviewsMoves ==
  ASSUME Evals, latest \in G!Verdict, NEW e \in G!Eval, G!ReadReviews(e)
  PROVE  \/ eval' = G!Goes(e, "rescue") \/ eval' = G!Ends(e)
         \/ latest # "none" /\ eval' = [eval EXCEPT ![e].at = "terminal", ![e].latest = latest]
BY DEF G!ReadReviews, G!Read

LEMMA HangMoves ==
  ASSUME Evals, G!Hang
  PROVE  Evals' /\ \A e \in G!Eval : eval'[e].at = "hung" \/ eval'[e] = eval[e]
<1>1. [G!Free EXCEPT !.at = "hung"] \in Evaluation /\ [G!Free EXCEPT !.at = "hung"].at = "hung"
  BY DEF G!Free, Evaluation, G!Phase, G!Verdict
<1> QED
  BY <1>1 DEF G!Hang, Evals

LEMMA EvalsKept ==
  ASSUME Evals, latest \in G!Verdict, [G!Next]_G!vars
  PROVE  Evals'
<1>1. CASE UNCHANGED eval
  BY <1>1 DEF Evals
<1>2. ASSUME NEW e \in G!Eval, G!Begin(e)
      PROVE  Evals'
  BY <1>2 DEF G!Begin, Evals, Evaluation, G!Phase, G!Verdict
<1>3. ASSUME NEW e \in G!Eval, G!ReadReviews(e)
      PROVE  Evals'
  <2>1. [eval EXCEPT ![e].at = "terminal", ![e].latest = latest] \in [G!Eval -> Evaluation]
    BY DEF Evals, Evaluation, G!Phase
  <2>2. G!Goes(e, "rescue") \in [G!Eval -> Evaluation] /\ G!Ends(e) \in [G!Eval -> Evaluation]
    BY GoesTyped DEF G!Phase
  <2> QED
    BY <1>3, <2>1, <2>2, ReadReviewsMoves DEF Evals
<1>4. ASSUME NEW e \in G!Eval,
             \/ G!ReadRescueCi(e) \/ G!ReadTerminal(e) \/ G!ReadGreen(e) \/ G!ReadThreads(e)
             \/ G!SubmitApproval(e)
      PROVE  Evals'
  BY <1>4, Moves, GoesTyped DEF Evals, G!Phase
<1>5. ASSUME NEW e \in G!Eval, G!CompleteMerge(e)
      PROVE  Evals'
  <2>1. G!Ends(e) \in [G!Eval -> Evaluation]
    BY GoesTyped DEF G!Phase
  <2>2. ASSUME G!NewHead(G!Ends(e))
        PROVE  Evals'
    BY <2>1, <2>2 DEF G!NewHead, Evals, Evaluation
  <2> QED
    BY <1>5, <2>1, <2>2 DEF G!CompleteMerge, Evals
<1>6. CASE G!Push
  BY <1>6 DEF G!Push, G!NewHead, Evals, Evaluation
<1>7. CASE G!ApproveKeyLapses
  BY <1>7 DEF G!ApproveKeyLapses, Evals, Evaluation, G!Phase
<1>8. CASE G!Restart
  BY <1>8 DEF G!Restart, G!Free, Evals, Evaluation, G!Phase, G!Verdict
<1>9. ASSUME NEW r \in Runs, G!RunStep(r) \/ G!RunGuards(r) \/ G!RunExhausts(r)
      PROVE  UNCHANGED eval
  BY <1>9 DEF G!RunStep, G!RunReads, G!RunHolds, G!RunApproves, G!RunGuards, G!RunExhausts
<1>10. \/ G!Webhook \/ G!SetPrState \/ G!EnableAutoMerge \/ G!NativeMerge \/ G!GracePasses
            \/ G!WatchLapses \/ G!Dismiss
       \/ G!RescueLapses \/ G!Ready \/ G!CiMoves \/ G!Settle \/ UNCHANGED G!vars
       => UNCHANGED eval
  BY DEF G!Webhook, G!SetPrState, G!EnableAutoMerge, G!NativeMerge, G!GracePasses, G!WatchLapses,
         G!RescueLapses, G!Ready, G!CiMoves, G!Settle, G!Dismiss, G!vars
<1> QED
  BY <1>1, <1>2, <1>3, <1>4, <1>5, <1>6, <1>7, <1>8, <1>9, <1>10, HangMoves DEF G!Next, G!Steps, G!EvalStep

LEMMA FlagsKept ==
  ASSUME Registered \in BOOLEAN, Flags, [G!Next]_G!vars
  PROVE  Flags'
<1>1. ASSUME NEW e \in G!Eval, G!Begin(e) \/ G!EvalStep(e)
      PROVE  Flags'
  BY <1>1
    DEF G!Begin, G!EvalStep, G!ReadReviews, G!ReadRescueCi, G!ReadTerminal, G!ReadGreen,
        G!ReadThreads, G!SubmitApproval, G!CompleteMerge, G!NewHead, G!Watches, G!Promotes,
        G!KeyTaken, G!NeedsReview, G!AutoReview, G!NoReview, Flags, G!maps, G!history
<1>2. ASSUME NEW r \in Runs, G!RunStep(r) \/ G!RunGuards(r) \/ G!RunExhausts(r)
      PROVE  Flags'
  BY <1>2
    DEF G!RunStep, G!RunReads, G!RunHolds, G!RunApproves, G!RunGuards, G!RunExhausts, G!Submits,
        Flags, G!maps, G!history
<1>3. CASE G!Webhook \/ G!SetPrState \/ G!EnableAutoMerge \/ G!NativeMerge \/ G!CiMoves
          \/ G!Ready \/ G!Push \/ G!Dismiss \/ G!Hang
  BY <1>3
    DEF G!Webhook, G!SetPrState, G!EnableAutoMerge, G!NativeMerge, G!CiMoves, G!Ready, G!Push,
        G!Dismiss, G!Hang, G!NewHead, G!AutoReview, Flags, G!maps, G!history
<1>4. CASE G!ApproveKeyLapses \/ G!GracePasses \/ G!WatchLapses \/ G!RescueLapses \/ G!Settle
  BY <1>4
    DEF G!ApproveKeyLapses, G!GracePasses, G!WatchLapses, G!RescueLapses, G!Settle, Flags,
        G!maps, G!history
<1>5. CASE G!Restart
  BY <1>5 DEF G!Restart, Flags, G!history
<1>6. CASE UNCHANGED G!vars
  BY <1>6 DEF G!vars, G!maps, G!history, Flags
<1> QED
  BY <1>1, <1>2, <1>3, <1>4, <1>5, <1>6 DEF G!Next, G!Steps

LEMMA WordsKept ==
  ASSUME Words, [G!Next]_G!vars
  PROVE  Words'
<1>1. ASSUME NEW e \in G!Eval, G!ReadRescueCi(e)
      PROVE  Words'
  BY <1>1 DEF G!ReadRescueCi, G!github, Words
<1>2. ASSUME NEW e \in G!Eval, G!ReadGreen(e) \/ G!ReadThreads(e)
      PROVE  Words'
  BY <1>2 DEF G!ReadGreen, G!ReadThreads, G!Watches, G!Promotes, G!NeedsReview, G!github, Words
<1>3. ASSUME NEW e \in G!Eval, G!SubmitApproval(e)
      PROVE  Words'
  BY <1>3 DEF G!SubmitApproval, G!maps, Words, G!Verdict
<1>4. ASSUME NEW e \in G!Eval, G!CompleteMerge(e)
      PROVE  Words'
  BY <1>4 DEF G!CompleteMerge, G!NewHead, G!Read, Words
<1>5. ASSUME NEW e \in G!Eval, G!Begin(e) \/ G!ReadReviews(e) \/ G!ReadTerminal(e)
      PROVE  Words'
  BY <1>5 DEF G!Begin, G!ReadReviews, G!ReadTerminal, G!github, G!maps, Words
<1>6. ASSUME NEW r \in Runs, G!RunStep(r) \/ G!RunGuards(r) \/ G!RunExhausts(r)
      PROVE  Words'
  BY <1>6
    DEF G!RunStep, G!RunReads, G!RunHolds, G!RunApproves, G!RunGuards, G!RunExhausts, G!Submits,
        G!ExhaustedLeaves, G!github, G!maps, Words, G!Verdict
<1>7. CASE G!Webhook \/ G!SetPrState \/ G!EnableAutoMerge \/ G!NativeMerge \/ G!Ready \/ G!Push
          \/ G!Settle \/ G!Dismiss \/ G!Hang
  BY <1>7
    DEF G!Webhook, G!SetPrState, G!EnableAutoMerge, G!NativeMerge, G!Ready, G!Push, G!Settle,
        G!Dismiss, G!Hang, G!Verdict, G!NewHead, G!github, G!maps, Words
<1>8. CASE G!CiMoves
  BY <1>8 DEF G!CiMoves, G!CiNext, G!Read, G!maps, Words
<1>9. CASE G!ApproveKeyLapses \/ G!GracePasses \/ G!WatchLapses \/ G!RescueLapses \/ G!Restart
  BY <1>9
    DEF G!ApproveKeyLapses, G!GracePasses, G!WatchLapses, G!RescueLapses, G!Restart, G!github,
        Words
<1>10. CASE UNCHANGED G!vars
  BY <1>10 DEF G!vars, G!github, G!maps, Words
<1> QED
  BY <1>1, <1>2, <1>3, <1>4, <1>5, <1>6, <1>7, <1>8, <1>9, <1>10 DEF G!Next, G!Steps, G!EvalStep

LEMMA JobsKept ==
  ASSUME Jobs, [G!Next]_G!vars
  PROVE  Jobs'
<1>1. CASE UNCHANGED run
  BY <1>1 DEF Jobs
<1>2. CASE G!StartReview
  BY <1>2, StartTyped
<1>3. ASSUME NEW r \in Runs, G!RunStep(r) \/ G!RunGuards(r) \/ G!RunExhausts(r)
      PROVE  Jobs'
  BY <1>3
    DEF G!RunStep, G!RunReads, G!RunHolds, G!RunApproves, G!RunGuards, G!RunExhausts, G!Submits,
        Jobs
<1>4. CASE G!Restart
  BY <1>4 DEF G!Restart, Jobs
<1>5. ASSUME NEW e \in G!Eval, G!Begin(e) \/ G!EvalStep(e)
      PROVE  UNCHANGED run \/ G!StartReview
  BY <1>5
    DEF G!Begin, G!EvalStep, G!ReadReviews, G!ReadRescueCi, G!ReadTerminal, G!ReadGreen,
        G!ReadThreads, G!SubmitApproval, G!CompleteMerge, G!Watches, G!Promotes, G!NeedsReview,
        G!AutoReview, G!NoReview
<1>6. G!Webhook => G!StartReview
  BY DEF G!Webhook, G!AutoReview
<1>7. \/ G!SetPrState \/ G!EnableAutoMerge \/ G!NativeMerge \/ G!GracePasses \/ G!WatchLapses
           \/ G!RescueLapses
      \/ G!Ready \/ G!CiMoves \/ G!Settle \/ G!Push \/ G!ApproveKeyLapses \/ UNCHANGED G!vars
      \/ G!Dismiss \/ G!Hang
      => UNCHANGED run
  BY DEF G!Dismiss, G!Hang, G!SetPrState, G!EnableAutoMerge, G!NativeMerge, G!GracePasses, G!WatchLapses,
         G!RescueLapses, G!Ready, G!CiMoves, G!Settle, G!Push, G!ApproveKeyLapses, G!vars
<1> QED
  BY <1>1, <1>2, <1>3, <1>4, <1>5, <1>6, <1>7 DEF G!Next, G!Steps

LEMMA InitTyped ==
  ASSUME Registered \in BOOLEAN, G!Init
  PROVE  G!TypeOK
<1>1. Flags
  BY DEF G!Init, Flags
<1>2. Words /\ Jobs
  BY DEF G!Init, Words, Jobs, G!Verdict
<1>3. Evals
  BY DEF G!Init, Evals, Evaluation, G!Free, G!Phase, G!Verdict
<1> QED
  BY <1>1, <1>2, <1>3, TypeParts

LEMMA TypeStep ==
  ASSUME Registered \in BOOLEAN, G!TypeOK, [G!Next]_G!vars
  PROVE  G!TypeOK'
<1>1. Flags' /\ Words' /\ Jobs'
  BY TypeParts, FlagsKept, WordsKept, JobsKept
<1>2. Evals'
  BY TypeParts, EvalsKept DEF Words
<1> QED
  BY <1>1, <1>2 DEF G!TypeOK, Flags, Words, Jobs, Evals, Evaluation

(***************************************************************************)
(* Every reachable state is well typed (TypeOK).                           *)
(***************************************************************************)
THEOREM TypeCorrect ==
  ASSUME Registered \in BOOLEAN
  PROVE  G!Spec => []G!TypeOK
<1>1. G!Init => G!TypeOK
  BY InitTyped
<1>2. G!TypeOK /\ [G!Next]_G!vars => G!TypeOK'
  BY TypeStep
<1> QED
  BY <1>1, <1>2, PTL DEF G!Spec

-----------------------------------------------------------------------------
(* Approvals. *)

(***************************************************************************)
(* A step by which only one evaluation moves, to where it may be, keeps    *)
(* what is known of the evaluations.                                       *)
(***************************************************************************)
LEMMA OneMoves ==
  ASSUME Evals, Reviewed, NEW e \in G!Eval, NEW at \in G!Phase, at \in Past => reviewed,
         eval' = G!Goes(e, at) \/ eval' = G!Ends(e), UNCHANGED <<latest, reviewed>>
  PROVE  Reviewed'
<1>1. \A f \in G!Eval : eval'[f].at \in Past => eval[f].at \in Past \/ at \in Past
  BY DEF G!Goes, G!Ends, G!Free, Evals, Evaluation, Past
<1> QED
  BY <1>1 DEF Reviewed

LEMMA ReviewedKept ==
  ASSUME G!TypeOK, Reviewed, [G!Next]_G!vars
  PROVE  Reviewed'
<1>1. Evals /\ latest \in G!Verdict
  BY TypeParts DEF Words
<1>2. CASE UNCHANGED <<eval, latest, reviewed>>
  BY <1>2 DEF Reviewed
<1>3. ASSUME NEW e \in G!Eval, G!Begin(e)
      PROVE  Reviewed'
  BY <1>1, <1>3 DEF G!Begin, Evals, Evaluation, Reviewed, Past, G!github, G!history
<1>4. ASSUME NEW e \in G!Eval, G!ReadReviews(e)
      PROVE  Reviewed'
  <2>1. UNCHANGED <<latest, reviewed>>
    BY <1>4 DEF G!ReadReviews, G!github, G!history
  <2>2. CASE eval' = G!Goes(e, "rescue") \/ eval' = G!Ends(e)
    BY <1>1, <2>1, <2>2, OneMoves DEF G!Phase, Past
  <2>3. CASE latest # "none" /\ eval' = [eval EXCEPT ![e].at = "terminal", ![e].latest = latest]
    BY <1>1, <2>1, <2>3 DEF Reviewed, Evals, Evaluation
  <2> QED
    BY <1>1, <1>4, <2>2, <2>3, ReadReviewsMoves
<1>5. ASSUME NEW e \in G!Eval, G!ReadRescueCi(e)
      PROVE  Reviewed'
  BY <1>1, <1>5, Moves, OneMoves DEF G!ReadRescueCi, G!github, G!history, G!Phase, Past
<1>6. ASSUME NEW e \in G!Eval, G!ReadTerminal(e) \/ G!ReadGreen(e) \/ G!ReadThreads(e)
      PROVE  Reviewed'
  <2>1. UNCHANGED <<latest, reviewed>>
    BY <1>6 DEF G!ReadTerminal, G!ReadGreen, G!ReadThreads, G!github, G!history
  <2>2. reviewed
    BY <1>6 DEF G!ReadTerminal, G!ReadGreen, G!ReadThreads, Reviewed, Past
  <2> QED
    BY <2>1, <2>2 DEF Reviewed
<1>7. ASSUME NEW e \in G!Eval, G!SubmitApproval(e) \/ G!CompleteMerge(e)
      PROVE  Reviewed'
  <2>1. reviewed
    BY <1>7 DEF G!SubmitApproval, G!CompleteMerge, Reviewed, Past
  <2>2. UNCHANGED reviewed
    BY <1>7 DEF G!SubmitApproval, G!CompleteMerge, G!history
  <2> QED
    BY <2>1, <2>2 DEF Reviewed
<1>8. ASSUME NEW r \in Runs, G!RunHolds(r) \/ G!RunApproves(r)
      PROVE  Reviewed'
  BY <1>8 DEF G!RunHolds, G!RunApproves, G!Submits, Reviewed
<1>9. ASSUME NEW r \in Runs, G!RunReads(r) \/ G!RunGuards(r) \/ G!RunExhausts(r)
      PROVE  UNCHANGED <<eval, latest, reviewed>>
  BY <1>9 DEF G!RunReads, G!RunGuards, G!RunExhausts, G!ExhaustedLeaves, G!github, G!history
<1>10. CASE G!Push
  <2>1. \A e \in G!Eval : eval'[e].at = eval[e].at
    BY <1>1, <1>10 DEF G!Push, G!NewHead, Evals, Evaluation
  <2> QED
    BY <1>10, <2>1 DEF G!Push, Reviewed, G!history
<1>11. CASE G!ApproveKeyLapses
  <2>1. \A e \in G!Eval : eval'[e].at \in Past => eval[e].at \in Past
    BY <1>1, <1>11 DEF G!ApproveKeyLapses, Evals, Evaluation, Past
  <2> QED
    BY <1>11, <2>1 DEF G!ApproveKeyLapses, Reviewed, G!github, G!history
<1>12. CASE G!Restart
  BY <1>12 DEF G!Restart, G!Free, Reviewed, Past, G!history
<1>14. CASE G!Dismiss
  BY <1>14 DEF G!Dismiss, Reviewed, G!history
<1>15. CASE G!Hang
  BY <1>1, <1>15, HangMoves DEF G!Hang, Reviewed, Past, G!github, G!history
<1>13. \/ G!Webhook \/ G!SetPrState \/ G!EnableAutoMerge \/ G!NativeMerge \/ G!GracePasses
            \/ G!WatchLapses
       \/ G!RescueLapses \/ G!Ready \/ G!CiMoves \/ G!Settle \/ UNCHANGED G!vars
       => UNCHANGED <<eval, latest, reviewed>>
  BY DEF G!Webhook, G!SetPrState, G!EnableAutoMerge, G!NativeMerge, G!GracePasses, G!WatchLapses,
         G!RescueLapses, G!Ready, G!CiMoves, G!Settle, G!vars, G!github, G!history
<1> QED
  BY <1>2, <1>3, <1>4, <1>5, <1>6, <1>7, <1>8, <1>9, <1>10, <1>11, <1>12, <1>13, <1>14,
     <1>15
     DEF G!Next, G!Steps, G!EvalStep, G!RunStep

(***************************************************************************)
(* A step that starts no approval of the head, and takes the claim only    *)
(* when none is in flight, keeps both facts about approvals.               *)
(***************************************************************************)
LEMMA NoneStarts ==
  ASSUME KeyHeld, G!OneApprovalInFlight,
         \A e \in G!Eval : Approves(e)' => Approves(e),
         (claimed => claimed') \/ \A e \in G!Eval : ~Approves(e)'
  PROVE  KeyHeld' /\ G!OneApprovalInFlight'
BY DEF KeyHeld, G!OneApprovalInFlight, Approves

LEMMA ApprovalsKept ==
  ASSUME G!TypeOK, KeyHeld, G!OneApprovalInFlight, [G!Next]_G!vars
  PROVE  KeyHeld' /\ G!OneApprovalInFlight'
<1>1. Evals /\ latest \in G!Verdict
  BY TypeParts DEF Words
<1>2. CASE UNCHANGED <<eval, claimed>>
  BY <1>2 DEF KeyHeld, G!OneApprovalInFlight, Approves
<1>3. ASSUME NEW e \in G!Eval, NEW at \in G!Phase \ {"approve"}, UNCHANGED claimed,
             eval' = G!Goes(e, at) \/ eval' = G!Ends(e)
      PROVE  KeyHeld' /\ G!OneApprovalInFlight'
  <2>1. \A f \in G!Eval : Approves(f)' => Approves(f)
    BY <1>1, <1>3 DEF G!Goes, G!Ends, G!Free, Approves, Evals, Evaluation, G!Phase
  <2> QED
    BY <1>3, <2>1, NoneStarts
<1>4. ASSUME NEW e \in G!Eval, G!Begin(e)
      PROVE  KeyHeld' /\ G!OneApprovalInFlight'
  <2>1. \A f \in G!Eval : Approves(f)' => Approves(f)
    BY <1>1, <1>4 DEF G!Begin, Approves, Evals, Evaluation
  <2> QED
    BY <1>4, <2>1, NoneStarts DEF G!Begin, G!maps
<1>5. ASSUME NEW e \in G!Eval, G!ReadReviews(e)
      PROVE  KeyHeld' /\ G!OneApprovalInFlight'
  <2>1. UNCHANGED claimed
    BY <1>5 DEF G!ReadReviews, G!maps
  <2>2. CASE eval' = G!Goes(e, "rescue") \/ eval' = G!Ends(e)
    BY <1>3, <2>1, <2>2 DEF G!Phase
  <2>3. CASE eval' = [eval EXCEPT ![e].at = "terminal", ![e].latest = latest]
    <3>1. \A f \in G!Eval : Approves(f)' => Approves(f)
      BY <1>1, <2>3 DEF Approves, Evals, Evaluation
    <3> QED
      BY <2>1, <3>1, NoneStarts
  <2> QED
    BY <1>1, <1>5, <2>2, <2>3, ReadReviewsMoves
<1>6. ASSUME NEW e \in G!Eval,
             G!ReadRescueCi(e) \/ G!ReadTerminal(e) \/ G!ReadGreen(e) \/ G!SubmitApproval(e)
      PROVE  KeyHeld' /\ G!OneApprovalInFlight'
  <2>1. UNCHANGED claimed
    BY <1>6 DEF G!ReadRescueCi, G!ReadTerminal, G!ReadGreen, G!SubmitApproval, G!maps
  <2>2. {"green", "threads"} \subseteq G!Phase \ {"approve"}
    BY DEF G!Phase
  <2> QED
    BY <1>3, <1>6, <2>1, <2>2, Moves
<1>7. ASSUME NEW e \in G!Eval, G!ReadThreads(e)
      PROVE  KeyHeld' /\ G!OneApprovalInFlight'
  <2>1. CASE UNCHANGED claimed /\ (eval' = G!Goes(e, "merge") \/ eval' = G!Ends(e))
    BY <1>3, <2>1 DEF G!Phase
  <2>2. CASE ~eval[e].stale /\ ~claimed /\ claimed' /\ eval' = G!Goes(e, "approve")
    <3>1. \A f \in G!Eval : ~Approves(f)
      BY <2>2 DEF KeyHeld
    <3>2. \A f \in G!Eval : Approves(f)' => f = e
      BY <1>1, <2>2, <3>1 DEF G!Goes, Approves, Evals, Evaluation
    <3> QED
      BY <2>2, <3>2 DEF KeyHeld, G!OneApprovalInFlight, Approves
  <2>3. CASE eval[e].stale /\ UNCHANGED claimed /\ eval' = G!Goes(e, "approve")
    <3>1. \A f \in G!Eval : Approves(f)' => Approves(f)
      BY <1>1, <2>3 DEF G!Goes, Approves, Evals, Evaluation
    <3> QED
      BY <2>3, <3>1, NoneStarts
  <2>4. \/ UNCHANGED claimed /\ (eval' = G!Goes(e, "merge") \/ eval' = G!Ends(e))
        \/ G!Promotes(e)
    BY <1>7 DEF G!ReadThreads, G!Watches, G!NeedsReview
  <2>5. ASSUME G!Promotes(e)
        PROVE  KeyHeld' /\ G!OneApprovalInFlight'
    <3>1. CASE claimed /\ ~eval[e].stale
      BY <2>1, <2>5, <3>1 DEF G!Promotes
    <3>2. CASE ~claimed /\ ~eval[e].stale
      BY <2>2, <2>5, <3>2 DEF G!Promotes, G!KeyTaken
    <3>3. CASE eval[e].stale
      BY <2>3, <2>5, <3>3 DEF G!Promotes
    <3> QED
      BY <3>1, <3>2, <3>3
  <2> QED
    BY <2>1, <2>4, <2>5
<1>8. ASSUME NEW inFlight \in [G!Eval -> Evaluation], G!NewHead(inFlight)
      PROVE  KeyHeld' /\ G!OneApprovalInFlight'
  <2>1. \A f \in G!Eval : ~Approves(f)'
    BY <1>8 DEF G!NewHead, Approves, Evaluation
  <2> QED
    BY <2>1 DEF KeyHeld, G!OneApprovalInFlight, Approves
<1>9. ASSUME NEW e \in G!Eval, G!CompleteMerge(e)
      PROVE  KeyHeld' /\ G!OneApprovalInFlight'
  <2>1. CASE UNCHANGED claimed /\ eval' = G!Ends(e)
    BY <1>3, <2>1 DEF G!Phase
  <2>2. G!Ends(e) \in [G!Eval -> Evaluation]
    BY <1>1, GoesTyped DEF G!Phase
  <2> QED
    BY <1>8, <1>9, <2>1, <2>2 DEF G!CompleteMerge
<1>10. CASE G!ApproveKeyLapses
  <2>1. \A e \in G!Eval : ~Approves(e)'
    BY <1>1, <1>10 DEF G!ApproveKeyLapses, Approves, Evals, Evaluation
  <2> QED
    BY <2>1 DEF KeyHeld, G!OneApprovalInFlight, Approves
<1>11. CASE G!Restart
  BY <1>11 DEF G!Restart, G!Free, KeyHeld, G!OneApprovalInFlight, Approves
<1>12. ASSUME NEW r \in Runs, G!RunStep(r) \/ G!RunGuards(r) \/ G!RunExhausts(r)
       PROVE  UNCHANGED <<eval, claimed>>
  BY <1>12
    DEF G!RunStep, G!RunReads, G!RunHolds, G!RunApproves, G!RunGuards, G!RunExhausts, G!maps
<1>13. \/ G!Webhook \/ G!SetPrState \/ G!EnableAutoMerge \/ G!NativeMerge \/ G!GracePasses
            \/ G!WatchLapses
       \/ G!RescueLapses \/ G!Ready \/ G!CiMoves \/ G!Settle \/ G!Dismiss \/ UNCHANGED G!vars
       => UNCHANGED <<eval, claimed>>
  BY DEF G!Dismiss, G!Webhook, G!SetPrState, G!EnableAutoMerge, G!NativeMerge, G!GracePasses, G!WatchLapses,
         G!RescueLapses, G!Ready, G!CiMoves, G!Settle, G!vars, G!maps
<1>14. G!Push => G!NewHead(eval) /\ eval \in [G!Eval -> Evaluation]
  BY <1>1 DEF G!Push, Evals
<1>15. CASE G!Hang
  <2>1. \A e \in G!Eval : Approves(e)' => Approves(e)
    BY <1>1, <1>15, HangMoves DEF Approves
  <2> QED
    BY <1>15, <2>1, NoneStarts DEF G!Hang, G!maps
<1> QED
  BY <1>2, <1>4, <1>5, <1>6, <1>7, <1>8, <1>9, <1>10, <1>11, <1>12, <1>13, <1>14, <1>15
     DEF G!Next, G!Steps, G!EvalStep

LEMMA InitSafe ==
  ASSUME G!Init
  PROVE  Reviewed /\ KeyHeld /\ G!OneApprovalInFlight
BY DEF G!Init, Reviewed, Past, KeyHeld, Approves, G!OneApprovalInFlight, G!Free

(***************************************************************************)
(* What stands as APPROVED was read by a review (ApprovedWasReviewed).     *)
(***************************************************************************)
THEOREM ApprovedAlwaysReviewed ==
  ASSUME Registered \in BOOLEAN
  PROVE  G!Spec => []ApprovedWasReviewed
<1>1. G!Init => G!TypeOK /\ Reviewed
  BY InitTyped, InitSafe
<1>2. G!TypeOK /\ Reviewed /\ [G!Next]_G!vars => G!TypeOK' /\ Reviewed'
  BY TypeStep, ReviewedKept
<1>3. Reviewed => ApprovedWasReviewed
  BY DEF Reviewed, ApprovedWasReviewed, G!ApprovedWasReviewed
<1> QED
  BY <1>1, <1>2, <1>3, PTL DEF G!Spec

(***************************************************************************)
(* Two evaluations never have an approval of one head in flight within the *)
(* window of its key, however many webhooks arrive (OneApprovalInFlight).  *)
(***************************************************************************)
THEOREM OneApprovalAtATime ==
  ASSUME Registered \in BOOLEAN
  PROVE  G!Spec => []G!OneApprovalInFlight
<1>1. G!Init => G!TypeOK /\ KeyHeld /\ G!OneApprovalInFlight
  BY InitTyped, InitSafe
<1>2. G!TypeOK /\ KeyHeld /\ G!OneApprovalInFlight /\ [G!Next]_G!vars
      => G!TypeOK' /\ KeyHeld' /\ G!OneApprovalInFlight'
  BY TypeStep, ApprovalsKept
<1> QED
  BY <1>1, <1>2, PTL DEF G!Spec

(***************************************************************************)
(* The rescue of a lost review is claimed once for each head and window,   *)
(* whoever sees the loss (RescuedOnce).                                    *)
(***************************************************************************)
THEOREM RescuedAtMostOnce == G!Spec => []G!RescuedOnce
<1> DEFINE Slot == rescued \in {0, 1}
<1>1. G!Init => Slot
  BY DEF G!Init
<1>2. ASSUME Slot, [G!Next]_G!vars
      PROVE  Slot'
  <2>1. ASSUME NEW e \in G!Eval, G!ReadRescueCi(e)
        PROVE  Slot'
    BY <1>2, <2>1 DEF G!ReadRescueCi, G!Claimable
  <2>2. ASSUME NEW e \in G!Eval,
               \/ G!Begin(e) \/ G!ReadReviews(e) \/ G!ReadTerminal(e) \/ G!ReadGreen(e)
                    \/ G!ReadThreads(e)
               \/ G!SubmitApproval(e) \/ G!CompleteMerge(e)
        PROVE  Slot'
    BY <1>2, <2>2
      DEF G!Begin, G!ReadReviews, G!ReadTerminal, G!ReadGreen, G!ReadThreads, G!SubmitApproval,
          G!CompleteMerge, G!NewHead, G!maps
  <2>3. ASSUME NEW r \in Runs, G!RunStep(r) \/ G!RunGuards(r) \/ G!RunExhausts(r)
        PROVE  Slot'
    BY <1>2, <2>3
      DEF G!RunStep, G!RunReads, G!RunHolds, G!RunApproves, G!RunGuards, G!RunExhausts, G!maps
  <2>4. CASE \/ G!Webhook \/ G!SetPrState \/ G!EnableAutoMerge \/ G!NativeMerge
                  \/ G!ApproveKeyLapses
             \/ G!GracePasses \/ G!WatchLapses \/ G!RescueLapses
    BY <1>2, <2>4
      DEF G!Webhook, G!SetPrState, G!EnableAutoMerge, G!NativeMerge, G!ApproveKeyLapses,
          G!GracePasses, G!WatchLapses, G!RescueLapses, G!maps
  <2>5. CASE G!Push \/ G!Ready \/ G!CiMoves \/ G!Restart \/ G!Settle \/ UNCHANGED G!vars
    BY <1>2, <2>5 DEF G!Push, G!NewHead, G!Ready, G!CiMoves, G!Restart, G!Settle, G!vars, G!maps
  <2>6. CASE G!Dismiss \/ G!Hang
    BY <1>2, <2>6 DEF G!Dismiss, G!Hang, G!maps
  <2> QED
    BY <1>2, <2>1, <2>2, <2>3, <2>4, <2>5, <2>6 DEF G!Next, G!Steps, G!EvalStep
<1>3. Slot => G!RescuedOnce
  BY DEF G!RescuedOnce
<1> QED
  BY <1>1, <1>2, <1>3, PTL DEF G!Spec

-----------------------------------------------------------------------------
\* Surveys. What is so is remembered at every step, and a fact read to hold is so then, but
\* for the ones that always hold and for the approval that a page of reviews shows.

\* What the proof needs of the types.
ReviewEntry == [by : Reviewers, says : {"approve", "changes", "comment", "dismissed"}]
SurveyTyped ==
  /\ survey \in Y!Surveys /\ head \in Y!Heads
  /\ reviews \in Seq(ReviewEntry)
  /\ reads \in Seq(BOOLEAN) /\ Len(reads) <= Len(Y!Asks)
  /\ survey # "activity" /\ reads # <<>> => listed \in Y!Heads

\* A fact asked for that is so has been remembered.
SoIsRemembered == \A i \in DOMAIN Y!Asks : Y!IsSo(Y!Asks[i]) => Y!Asks[i] \in since

\* The facts of which no memory is kept always hold.
Unremembered == {"runs", "meta", "rulesets"}

\* A fact read to hold was so.
ReadsWereSo ==
  \A i \in DOMAIN reads :
    reads[i] => \/ Y!Asks[i] \in Unremembered \cup since
                \/ Y!Asks[i] = "approved" /\ Len(reviews) > ReviewPage

SurveyInv == SurveyTyped /\ SoIsRemembered /\ ReadsWereSo /\ Y!ClaimsWereSo

(***************************************************************************)
(* Each survey asks for one to four facts.                                 *)
(***************************************************************************)
LEMMA AsksAre ==
  ASSUME survey \in Y!Surveys
  PROVE  DOMAIN Y!Asks = 1 .. Len(Y!Asks) /\ Len(Y!Asks) \in 1 .. 4
<1>1. survey = "ci" => Y!Asks = <<"runs", "meta", "redMain">>
  BY DEF Y!Asks
<1>2. survey = "pipeline" => Y!Asks = <<"undrafted", "clean", "passed", "approved">>
  BY DEF Y!Asks
<1>3. survey = "drift" => Y!Asks = <<"meta", "devAhead", "stagingBehind">>
  BY DEF Y!Asks
<1>4. survey = "protection" => Y!Asks = <<"meta", "rulesets", "ruled">>
  BY DEF Y!Asks
<1>5. survey = "issues" => Y!Asks = <<"openIssue">>
  BY DEF Y!Asks
<1>6. survey = "activity" => Y!Asks = <<"merged", "released">>
  BY DEF Y!Asks
<1> QED
  BY <1>1, <1>2, <1>3, <1>4, <1>5, <1>6 DEF Y!Surveys

(***************************************************************************)
(* The reads after one that threw: those before it are as they were.       *)
(***************************************************************************)
LEMMA WithoutIs ==
  ASSUME SurveyTyped, Len(reads) < Len(Y!Asks)
  PROVE  /\ Y!Without \in Seq(BOOLEAN) /\ Len(Y!Without) <= Len(Y!Asks)
         /\ \A i \in DOMAIN Y!Without : Y!Without[i] => i \in DOMAIN reads /\ reads[i]
<1>1. Len(Y!Asks) \in Nat /\ DOMAIN Y!Asks = 1 .. Len(Y!Asks)
  BY AsksAre DEF SurveyTyped
<1>2. CASE survey \in {"ci", "protection"}
  <2>1. Y!Without = [i \in 1 .. Len(Y!Asks) |-> i <= Len(reads) /\ reads[i]]
    BY <1>1, <1>2 DEF Y!Without
  <2>2. \A i \in 1 .. Len(Y!Asks) : (i <= Len(reads) /\ reads[i]) \in BOOLEAN
    OBVIOUS
  <2>3. Y!Without \in Seq(BOOLEAN) /\ Len(Y!Without) = Len(Y!Asks)
            /\ DOMAIN Y!Without = 1 .. Len(Y!Asks)
    BY <1>1, <2>1, <2>2
  <2>4. DOMAIN reads = 1 .. Len(reads)
    BY DEF SurveyTyped
  <2>5. \A i \in DOMAIN Y!Without : Y!Without[i] = (i <= Len(reads) /\ reads[i])
    BY <2>1, <2>3
  <2> QED
    BY <1>1, <2>3, <2>4, <2>5
<1>3. CASE survey \notin {"ci", "protection"}
  BY <1>1, <1>3 DEF Y!Without, SurveyTyped
<1> QED
  BY <1>2, <1>3

LEMMA ReadTyped ==
  ASSUME SurveyTyped, NEW b \in BOOLEAN, Len(reads) < Len(Y!Asks)
  PROVE  /\ Append(reads, b) \in Seq(BOOLEAN) /\ Len(Append(reads, b)) <= Len(Y!Asks)
         /\ DOMAIN Append(reads, b) = 1 .. Len(reads) + 1
         /\ \A i \in DOMAIN Append(reads, b) :
              \/ i \in DOMAIN reads /\ Append(reads, b)[i] = reads[i]
              \/ i = Len(reads) + 1 /\ Append(reads, b)[i] = b
BY AsksAre DEF SurveyTyped

LEMMA SameAsks == UNCHANGED survey => UNCHANGED Y!Asks
BY DEF Y!Asks

(***************************************************************************)
(* What is so depends on the pull request, the facts and the listed head.  *)
(***************************************************************************)
LEMMA SameIsSo ==
  UNCHANGED <<checks, reviews, facts, listed>> => \A f : UNCHANGED Y!IsSo(f)
BY DEF Y!IsSo, Y!Passes, Y!Approves, Y!Decision, Y!Latest

(***************************************************************************)
(* A page that holds all reviews shows what they say.                      *)
(***************************************************************************)
LEMMA WholePage ==
  ASSUME SurveyTyped, Len(reviews) <= ReviewPage
  PROVE  Y!FirstPage(reviews) = reviews
<1>1. DOMAIN reviews = 1 .. Len(reviews) /\ reviews = [i \in DOMAIN reviews |-> reviews[i]]
      /\ Len(reviews) \in Nat
  BY DEF SurveyTyped
<1>2. {k \in DOMAIN reviews : k <= ReviewPage} = DOMAIN reviews
  BY <1>1, PushesAreCounted
<1> QED
  BY <1>1, <1>2 DEF Y!FirstPage

(***************************************************************************)
(* What is found to hold is so, but for what needs no memory and for an    *)
(* approval that reviews beyond the page may have taken back.              *)
(***************************************************************************)
LEMMA HoldsIsSo ==
  ASSUME SurveyTyped, NEW f, Y!Holds(f), f = "passed" => listed \in Y!Heads
  PROVE  f \in Unremembered \/ Y!IsSo(f) \/ (f = "approved" /\ Len(reviews) > ReviewPage)
<1>1. CASE f = "passed"
  <2>1. listed # 0
    BY <1>1, PushesAreCounted DEF Y!Heads
  <2> QED
    BY <1>1, <2>1 DEF Y!Holds, Y!IsSo, Y!ListedHead
<1>2. CASE f = "approved"
  <2>1. Y!Approves(Y!FirstPage(reviews))
    BY <1>2 DEF Y!Holds
  <2>2. Len(reviews) \in Nat
    BY DEF SurveyTyped
  <2>3. Len(reviews) <= ReviewPage => Y!IsSo(f)
    BY <1>2, <2>1, WholePage DEF Y!IsSo
  <2> QED
    BY <1>2, <2>2, <2>3, PushesAreCounted
<1>3. CASE f \notin {"passed", "approved"}
  BY <1>3 DEF Y!Holds, Y!IsSo, Unremembered
<1> QED
  BY <1>1, <1>2, <1>3

(***************************************************************************)
(* Whether a fact holds is so or not.                                      *)
(***************************************************************************)
LEMMA HoldsOrNot ==
  ASSUME NEW f
  PROVE  Y!Holds(f) \in BOOLEAN
<1>1. CASE f = "passed"
  BY <1>1 DEF Y!Holds, Y!Passes
<1>2. CASE f = "approved"
  BY <1>2 DEF Y!Holds, Y!Approves
<1>3. CASE f \in {"runs", "meta", "rulesets"}
  BY <1>3 DEF Y!Holds
<1>4. CASE f \notin {"passed", "approved", "runs", "meta", "rulesets"}
  <2>1. Y!Holds(f) = (f \in facts)
    BY <1>4 DEF Y!Holds
  <2> QED
    BY <2>1
<1> QED
  BY <1>1, <1>2, <1>3, <1>4

(***************************************************************************)
(* Remembering keeps what was remembered, and adds what is so now.         *)
(***************************************************************************)
LEMMA RemembersSo ==
  ASSUME UNCHANGED survey, Y!Remembers
  PROVE  since \subseteq since' /\ SoIsRemembered'
<1>1. UNCHANGED Y!Asks
  BY SameAsks
<1> QED
  BY <1>1 DEF Y!Remembers, SoIsRemembered

(***************************************************************************)
(* A read; the listed head does not change after the first, which never is *)
(* that of the checks.                                                     *)
(***************************************************************************)
LEMMA ReadKeeps ==
  ASSUME SurveyInv, Y!Read
  PROVE  SurveyInv'
<1> DEFINE n == Len(reads) + 1
           f == Y!Asks[n]
<1>1. /\ UNCHANGED <<survey, head, checks, reviews, facts, claim>> /\ UNCHANGED Y!Asks
      /\ claim = "none" /\ Len(reads) < Len(Y!Asks) /\ since \subseteq since' /\ SoIsRemembered'
  BY SameAsks, RemembersSo DEF Y!Read
<1>2. Y!ClaimsWereSo'
  BY <1>1 DEF Y!ClaimsWereSo
<1>3. DOMAIN Y!Asks = 1 .. Len(Y!Asks) /\ Len(Y!Asks) \in 1 .. 4 /\ Len(reads) \in Nat
      /\ DOMAIN reads = 1 .. Len(reads)
  BY AsksAre DEF SurveyInv, SurveyTyped
<1>4. n \in DOMAIN Y!Asks
  BY <1>1, <1>3
<1>5. CASE reads' = Append(reads, Y!Holds(f)) /\ listed' = (IF reads = <<>> THEN head ELSE listed)
  <2>1. Y!Holds(f) \in BOOLEAN
    BY HoldsOrNot
  <2>2. Y!Asks[1] # "passed"
    BY DEF Y!Asks, SurveyInv, SurveyTyped, Y!Surveys
  <2>3. f = "passed" => survey = "pipeline" /\ reads # <<>>
    BY <1>3, <1>4, <2>2 DEF Y!Asks, SurveyInv, SurveyTyped, Y!Surveys
  <2>4. SurveyTyped'
    BY <1>1, <1>5, <2>1, ReadTyped DEF Y!Read, SurveyInv, SurveyTyped
  <2>5. ASSUME NEW i \in DOMAIN reads', reads'[i]
        PROVE  Y!Asks[i] \in Unremembered \cup since' \/ (Y!Asks[i] = "approved" /\ Len(reviews) > ReviewPage)
    <3>1. CASE i \in DOMAIN reads
      <4>1. reads[i]
        BY <1>1, <1>3, <1>5, <2>1, <2>5, <3>1, ReadTyped DEF SurveyInv
      <4> QED
        BY <1>1, <3>1, <4>1 DEF SurveyInv, ReadsWereSo
    <3>2. CASE i = n
      <4>1. Y!Holds(f)
        BY <1>1, <1>3, <1>5, <2>1, <2>5, <3>2, ReadTyped DEF SurveyInv
      <4>2. f = "passed" => listed' = listed /\ listed \in Y!Heads
        BY <1>5, <2>3 DEF SurveyInv, SurveyTyped
      <4>3. f \in Unremembered \/ Y!IsSo(f) \/ (f = "approved" /\ Len(reviews) > ReviewPage)
        BY <4>1, <4>2, HoldsIsSo DEF SurveyInv
      <4>4. Y!IsSo(f) => f \in since
        BY <1>4 DEF SurveyInv, SoIsRemembered
      <4> QED
        BY <1>1, <3>2, <4>3, <4>4
    <3> QED
      BY <1>1, <1>3, <1>5, <2>1, <2>5, <3>1, <3>2, ReadTyped DEF SurveyInv
  <2>6. ReadsWereSo'
    BY <1>1, <2>5 DEF ReadsWereSo
  <2> QED
    BY <1>1, <1>2, <2>4, <2>6 DEF SurveyInv
<1>6. CASE reads' = Y!Without /\ UNCHANGED listed
  <2>1. SurveyTyped'
    BY <1>1, <1>6, WithoutIs DEF Y!Read, SurveyInv, SurveyTyped
  <2>2. ReadsWereSo'
    BY <1>1, <1>6, WithoutIs DEF SurveyInv, ReadsWereSo
  <2> QED
    BY <1>1, <1>2, <2>1, <2>2 DEF SurveyInv
<1> QED
  BY <1>5, <1>6 DEF Y!Read

(***************************************************************************)
(* A yes is given after all reads, and each of those it rests on was so.   *)
(***************************************************************************)
LEMMA AnswerIsSo ==
  ASSUME SurveyInv, Y!Answer
  PROVE  SurveyInv'
<1>1. /\ UNCHANGED <<survey, head, checks, reviews, facts, listed, reads, since>>
      /\ UNCHANGED Y!Asks
      /\ Len(reads) = Len(Y!Asks)
  BY SameAsks DEF Y!Answer
<1>2. SurveyTyped' /\ SoIsRemembered' /\ ReadsWereSo'
  BY <1>1, SameIsSo DEF SurveyInv, SurveyTyped, SoIsRemembered, ReadsWereSo
<1>3. DOMAIN reads = 1 .. Len(Y!Asks)
  BY <1>1 DEF SurveyInv, SurveyTyped
<1>4. ASSUME claim' = "yes"
      PROVE  /\ survey = "pipeline" => /\ {"undrafted", "clean", "passed"} \subseteq since
                                       /\ "approved" \in since \/ Len(reviews) > ReviewPage
             /\ survey \in {"ci", "protection", "issues"} => Y!Asks[Len(Y!Asks)] \in since
             /\ survey \in {"drift", "activity"} => since # {}
  <2>1. CASE survey = "pipeline"
    <3>1. Y!Asks = <<"undrafted", "clean", "passed", "approved">> /\ Y!PrPipeline
      BY <1>4, <2>1 DEF Y!Answer, Y!Asks
    <3>2. reads[1] /\ reads[2] /\ reads[3] /\ reads[4]
      BY <1>3, <3>1 DEF Y!PrPipeline
    <3> QED
      BY <1>3, <2>1, <3>1, <3>2 DEF SurveyInv, ReadsWereSo, Unremembered
  <2>2. CASE survey = "ci"
    <3>1. Y!Asks = <<"runs", "meta", "redMain">> /\ reads[3]
      BY <1>4, <2>2 DEF Y!Answer, Y!Asks, Y!CiHealth
    <3> QED
      BY <1>3, <2>2, <3>1 DEF SurveyInv, ReadsWereSo, Unremembered
  <2>3. CASE survey = "drift"
    <3>1. Y!Asks = <<"meta", "devAhead", "stagingBehind">> /\ (reads[2] \/ reads[3])
      BY <1>4, <2>3 DEF Y!Answer, Y!Asks, Y!BranchDrift
    <3> QED
      BY <1>3, <2>3, <3>1 DEF SurveyInv, ReadsWereSo, Unremembered
  <2>4. CASE survey = "protection"
    <3>1. Y!Asks = <<"meta", "rulesets", "ruled">> /\ reads[3]
      BY <1>4, <2>4 DEF Y!Answer, Y!Asks, Y!BranchProtection
    <3> QED
      BY <1>3, <2>4, <3>1 DEF SurveyInv, ReadsWereSo, Unremembered
  <2>5. CASE survey = "issues"
    <3>1. Y!Asks = <<"openIssue">> /\ reads[1]
      BY <1>4, <2>5 DEF Y!Answer, Y!Asks, Y!GithubIssues
    <3> QED
      BY <1>3, <2>5, <3>1 DEF SurveyInv, ReadsWereSo, Unremembered
  <2>6. CASE survey = "activity"
    <3>1. Y!Asks = <<"merged", "released">> /\ Y!RecentActivity
      BY <1>4, <2>6 DEF Y!Answer, Y!Asks
    <3>2. PICK i \in DOMAIN reads : reads[i]
      BY <3>1 DEF Y!RecentActivity
    <3>3. Y!Asks[i] \in {"merged", "released"}
      BY <1>3, <3>1, <3>2
    <3> QED
      BY <2>6, <3>2, <3>3 DEF SurveyInv, ReadsWereSo, Unremembered
  <2> QED
    BY <2>1, <2>2, <2>3, <2>4, <2>5, <2>6 DEF SurveyInv, SurveyTyped, Y!Surveys
<1>5. Y!ClaimsWereSo'
  BY <1>1, <1>4 DEF Y!ClaimsWereSo
<1> QED
  BY <1>2, <1>5 DEF SurveyInv

(***************************************************************************)
(* The repository moves on: what has come to be so is remembered, and the  *)
(* reviews do not become fewer.                                            *)
(***************************************************************************)
LEMMA WorldIsRemembered ==
  ASSUME SurveyInv, Y!World
  PROVE  SurveyInv'
<1>1. /\ UNCHANGED <<survey, listed, reads, claim>> /\ UNCHANGED Y!Asks
      /\ claim = "none" /\ since \subseteq since' /\ SoIsRemembered'
  BY SameAsks, RemembersSo DEF Y!World
<1>2. head' \in Y!Heads
  <2>1. UNCHANGED head \/ (head <= SurveyPushes /\ head' = head + 1)
    BY DEF Y!World, Y!Push, Y!Check, Y!Review, Y!Dismiss, Y!Change
  <2> QED
    BY <2>1, PushesAreCounted DEF Y!Heads, SurveyInv, SurveyTyped
<1>3. reviews' \in Seq(ReviewEntry) /\ Len(reviews') >= Len(reviews)
  <2>0. reviews \in Seq(ReviewEntry) /\ Len(reviews) \in Nat
    BY DEF SurveyInv, SurveyTyped
  <2>1. CASE Y!Review
    <3>1. PICK p \in Reviewers, w \in {"approve", "changes", "comment"} :
            reviews' = Append(reviews, [by |-> p, says |-> w])
      BY <2>1 DEF Y!Review
    <3> DEFINE e == [by |-> p, says |-> w]
    <3>2. e \in ReviewEntry
      BY DEF ReviewEntry
    <3> HIDE DEF e
    <3>3. reviews' = Append(reviews, e)
      BY <3>1 DEF e
    <3>4. Append(reviews, e) \in Seq(ReviewEntry) /\ Len(Append(reviews, e)) = Len(reviews) + 1
      BY <2>0, <3>2, AppendProperties
    <3>5. Len(reviews) + 1 >= Len(reviews)
      BY <2>0
    <3> QED
      BY <3>3, <3>4, <3>5, Zenon
  <2>2. CASE Y!Dismiss
    <3>1. PICK i \in DOMAIN reviews : reviews' = [reviews EXCEPT ![i].says = "dismissed"]
      BY <2>2 DEF Y!Dismiss
    <3>2. reviews' = [reviews EXCEPT ![i] = [reviews[i] EXCEPT !.says = "dismissed"]]
      BY <3>1
    <3>3. reviews[i] \in ReviewEntry
      BY <2>0
    <3>4. [reviews[i] EXCEPT !.says = "dismissed"] \in ReviewEntry
      BY <3>3 DEF ReviewEntry
    <3> QED
      BY <2>0, <3>2, <3>4
  <2>3. CASE UNCHANGED reviews
    BY <2>0, <2>3
  <2> QED
    BY <2>1, <2>2, <2>3 DEF Y!World, Y!Push, Y!Check, Y!Change
<1>4. ReadsWereSo'
  <2>1. Len(reviews) \in Nat /\ Len(reviews') \in Nat
    BY <1>3 DEF SurveyInv, SurveyTyped
  <2>2. Len(reviews) > ReviewPage => Len(reviews') > ReviewPage
    BY <1>3, <2>1, PushesAreCounted
  <2> QED
    BY <1>1, <2>2 DEF SurveyInv, ReadsWereSo
<1> QED
  BY <1>1, <1>2, <1>3, <1>4 DEF SurveyInv, SurveyTyped, Y!ClaimsWereSo

(***************************************************************************)
(* A survey claims nothing that was not so, whatever fails and whatever    *)
(* moves between its reads (ClaimsWereSo).                                 *)
(***************************************************************************)
THEOREM SurveysAreTrue == Y!Spec => []Y!ClaimsWereSo
<1>1. Y!Init => SurveyInv
  BY AsksAre, PushesAreCounted
    DEF Y!Heads, Y!Init, SurveyInv, SurveyTyped, SoIsRemembered, ReadsWereSo, Y!ClaimsWereSo,
        Y!IsSo, Y!Approves, Y!Decision
<1>2. SurveyInv /\ [Y!Next]_Y!vars => SurveyInv'
  <2> SUFFICES ASSUME SurveyInv, [Y!Next]_Y!vars PROVE SurveyInv'
    OBVIOUS
  <2>1. CASE Y!Unreachable
    BY <2>1, SameAsks, SameIsSo
      DEF Y!Unreachable, SurveyInv, SurveyTyped, SoIsRemembered, ReadsWereSo, Y!ClaimsWereSo
  <2>2. CASE UNCHANGED Y!vars
    BY <2>2, SameAsks, SameIsSo
      DEF Y!vars, SurveyInv, SurveyTyped, SoIsRemembered, ReadsWereSo, Y!ClaimsWereSo
  <2> QED
    BY <2>1, <2>2, ReadKeeps, AnswerIsSo, WorldIsRemembered DEF Y!Next
<1>3. SurveyInv => Y!ClaimsWereSo
  BY DEF SurveyInv
<1> QED
  BY <1>1, <1>2, <1>3, PTL DEF Y!Spec

-----------------------------------------------------------------------------
\* Finite sets. What is so of some subset is so of a smallest one, which stands for induction.

(***************************************************************************)
(* Of the subsets of a finite set with a property there is a smallest.     *)
(***************************************************************************)
LEMMA SmallestSubset ==
  ASSUME NEW set, IsFiniteSet(set), NEW P \in SUBSET SUBSET set, P # {}
  PROVE  \E A \in P : \A B \in P : B \subseteq A => B = A
<1>1. P \subseteq FiniteSubsetsOf(set)
  BY FS_Subset DEF FiniteSubsetsOf
<1>2. IsWellFoundedOn(StrictSubsetOrdering(set), FiniteSubsetsOf(set))
  BY FS_StrictSubsetOrderingWellFounded
<1>3. PICK A \in P : \A B \in P : ~(<<B, A>> \in StrictSubsetOrdering(set))
  BY <1>1, <1>2, WFMin, Zenon
<1> QED
  BY <1>3 DEF StrictSubsetOrdering

\* The element MapThenFoldSet takes out first.
Picked(s) == CHOOSE x \in s : TRUE

(***************************************************************************)
(* It is one of the set.                                                   *)
(***************************************************************************)
LEMMA PickedIs == ASSUME NEW s, s # {} PROVE Picked(s) \in s
BY DEF Picked

\* The function that sums v over each subset of set, as MapThenFoldSet has it.
IsSum(f, v, set) ==
  f = [s \in SUBSET set |-> IF s = {} THEN 0 ELSE v[Picked(s)] + f[s \ {Picked(s)}]]

(***************************************************************************)
(* Functions that sum alike over all subsets of two sets agree on what the *)
(* sets share.                                                             *)
(***************************************************************************)
LEMMA SumsAgree ==
  ASSUME NEW set, IsFiniteSet(set), NEW v, NEW w, NEW f, NEW g, IsSum(f, v, set),
         NEW T, IsFiniteSet(T), IsSum(g, w, T),
         NEW A, A \subseteq set, A \subseteq T, \A x \in A : v[x] = w[x]
  PROVE  f[A] = g[A]
<1> DEFINE P == {B \in SUBSET A : f[B] # g[B]}
<1>1. IsFiniteSet(A)
  BY FS_Subset
<1>2. CASE P # {}
  <2>1. PICK B \in P : \A C \in P : C \subseteq B => C = B
    <3>1. P \in SUBSET SUBSET A
      OBVIOUS
    <3> HIDE DEF P
    <3> QED BY <1>1, <1>2, <3>1, SmallestSubset
  <2>2. B # {}
    BY <2>1 DEF IsSum
  <2>3. Picked(B) \in B
    BY <2>2, PickedIs
  <2>4. f[B \ {Picked(B)}] = g[B \ {Picked(B)}]
    BY <2>1, <2>3
  <2>5. f[B] = v[Picked(B)] + f[B \ {Picked(B)}]
    BY <2>1, <2>2 DEF IsSum
  <2>6. g[B] = w[Picked(B)] + g[B \ {Picked(B)}]
    BY <2>1, <2>2 DEF IsSum
  <2> QED BY <2>1, <2>3, <2>4, <2>5, <2>6
<1>3. CASE P = {}
  BY <1>3
<1> QED BY <1>2, <1>3

(***************************************************************************)
(* There is a function that sums over all subsets, so CHOOSE finds it.     *)
(***************************************************************************)
LEMMA SumExists ==
  ASSUME NEW set, IsFiniteSet(set), NEW v, \A x \in set : v[x] \in Nat
  PROVE  \E f \in [SUBSET set -> Nat] : IsSum(f, v, set)
<1> DEFINE P == {A \in SUBSET set : ~\E f \in [SUBSET A -> Nat] : IsSum(f, v, A)}
<1>1. CASE P # {}
  <2>1. PICK A \in P : \A C \in P : C \subseteq A => C = A
    <3>1. P \in SUBSET SUBSET set
      OBVIOUS
    <3> HIDE DEF P
    <3> QED BY <1>1, <3>1, SmallestSubset
  <2> DEFINE F(C) == CHOOSE f \in [SUBSET C -> Nat] : IsSum(f, v, C)
             g == [B \in SUBSET A |-> IF B = {} THEN 0
                                      ELSE v[Picked(B)] + F(B \ {Picked(B)})[B \ {Picked(B)}]]
  <2>2. ASSUME NEW C \in SUBSET A, C # A
        PROVE  F(C) \in [SUBSET C -> Nat] /\ IsSum(F(C), v, C)
    <3>1. C \notin P
      BY <2>1, <2>2
    <3>2. \E f \in [SUBSET C -> Nat] : IsSum(f, v, C)
      BY <3>1
    <3> QED BY <3>2
  <2>3. ASSUME NEW B \in SUBSET A, B # {}
        PROVE  /\ Picked(B) \in B /\ B \ {Picked(B)} \in SUBSET A /\ B \ {Picked(B)} # A
               /\ v[Picked(B)] \in Nat
    BY <2>3, PickedIs
  <2> HIDE DEF F
  <2>4. g \in [SUBSET A -> Nat]
    <3> SUFFICES ASSUME NEW B \in SUBSET A, B # {}
                 PROVE  v[Picked(B)] + F(B \ {Picked(B)})[B \ {Picked(B)}] \in Nat
      OBVIOUS
    <3> DEFINE C == B \ {Picked(B)}
    <3>1. C \in SUBSET A /\ C # A /\ v[Picked(B)] \in Nat
      BY <2>3
    <3> HIDE DEF C
    <3>2. F(C)[C] \in Nat
      BY <2>2, <3>1
    <3> QED BY <3>1, <3>2 DEF C
  <2>5. ASSUME NEW C \in SUBSET A, C # A
        PROVE  g[C] = F(C)[C]
    <3>1. CASE C = {}
      <4>1. F(C)[C] = 0
        BY <2>2, <2>5, <3>1 DEF IsSum
      <4> QED BY <3>1, <4>1
    <3>2. CASE C # {}
      <4> DEFINE D == C \ {Picked(C)}
      <4>1. D \in SUBSET A /\ D # A /\ D \subseteq C
        BY <2>3, <3>2
      <4> HIDE DEF D
      <4>2. F(C)[C] = v[Picked(C)] + F(C)[D]
        BY <2>2, <2>5, <3>2 DEF IsSum, D
      <4>3. IsFiniteSet(C) /\ IsFiniteSet(D)
        BY <4>1, FS_Subset
      <4>4. F(C)[D] = F(D)[D]
        <5>1. IsSum(F(C), v, C) /\ IsSum(F(D), v, D)
          BY <2>2, <2>5, <4>1
        <5> QED BY <4>1, <4>3, <5>1, SumsAgree
      <4>5. g[C] = v[Picked(C)] + F(D)[D]
        BY <3>2 DEF D
      <4> QED BY <4>2, <4>4, <4>5
    <3> QED BY <3>1, <3>2
  <2>6. IsSum(g, v, A)
    <3>1. \A B \in SUBSET A : B # {} => g[B] = v[Picked(B)] + g[B \ {Picked(B)}]
      BY <2>3, <2>5
    <3>2. g[{}] = 0
      OBVIOUS
    <3> HIDE DEF g
    <3> QED BY <2>4, <3>1, <3>2 DEF IsSum
  <2> QED BY <2>1, <2>4, <2>6
<1>2. CASE P = {}
  BY <1>2
<1> QED BY <1>1, <1>2

(***************************************************************************)
(* The sum of a function of naturals over a finite set.                    *)
(***************************************************************************)
LEMMA SumIs ==
  ASSUME NEW set, IsFiniteSet(set), NEW v, \A x \in set : v[x] \in Nat
  PROVE  \E f \in [SUBSET set -> Nat] : IsSum(f, v, set) /\ SumFunctionOnSet(v, set) = f[set]
<1>1. PICK f \in [SUBSET set -> Nat] : IsSum(f, v, set)
  BY SumExists
<1> DEFINE g == CHOOSE iter : IsSum(iter, v, set)
<1>2. SumFunctionOnSet(v, set) = g[set]
  BY DEF SumFunctionOnSet, FoldFunctionOnSet, MapThenFoldSet, IsSum, Picked
<1>3. IsSum(g, v, set)
  BY <1>1
<1> HIDE DEF g
<1>4. \A A \in SUBSET set : g[A] = f[A]
  BY <1>1, <1>3, SumsAgree
<1>5. f = g
  BY <1>1, <1>3, <1>4 DEF IsSum
<1> QED BY <1>1, <1>2, <1>5

(***************************************************************************)
(* Nothing adds up to zero.                                                *)
(***************************************************************************)
LEMMA SumOfNone == ASSUME NEW v PROVE SumFunctionOnSet(v, {}) = 0
<1>1. IsFiniteSet({}) /\ \A x \in {} : v[x] \in Nat
  BY FS_EmptySet
<1>2. PICK f \in [SUBSET {} -> Nat] : IsSum(f, v, {}) /\ SumFunctionOnSet(v, {}) = f[{}]
  BY <1>1, SumIs
<1> QED BY <1>2 DEF IsSum

(***************************************************************************)
(* Functions alike on a set have one sum over it, a natural number.        *)
(***************************************************************************)
LEMMA SumOfSame ==
  ASSUME NEW set, IsFiniteSet(set), NEW v, NEW w, \A x \in set : v[x] \in Nat /\ v[x] = w[x]
  PROVE  SumFunctionOnSet(v, set) = SumFunctionOnSet(w, set) /\ SumFunctionOnSet(v, set) \in Nat
<1>1. PICK f \in [SUBSET set -> Nat] : IsSum(f, v, set) /\ SumFunctionOnSet(v, set) = f[set]
  BY SumIs
<1>2. PICK g \in [SUBSET set -> Nat] : IsSum(g, w, set) /\ SumFunctionOnSet(w, set) = g[set]
  BY SumIs
<1>3. f[set] = g[set]
  BY <1>1, <1>2, SumsAgree
<1> QED BY <1>1, <1>2, <1>3

(***************************************************************************)
(* It does not matter which element is taken out first.                    *)
(***************************************************************************)
LEMMA SumWithout ==
  ASSUME NEW set, IsFiniteSet(set), NEW v, \A x \in set : v[x] \in Nat, NEW a \in set
  PROVE  SumFunctionOnSet(v, set) = v[a] + SumFunctionOnSet(v, set \ {a})
<1>1. PICK f \in [SUBSET set -> Nat] : IsSum(f, v, set) /\ SumFunctionOnSet(v, set) = f[set]
  BY SumIs
<1>2. \A A \in SUBSET set : A # {} => f[A] = v[Picked(A)] + f[A \ {Picked(A)}]
  BY <1>1 DEF IsSum
<1> DEFINE P == {A \in SUBSET set : ~\A x \in A : f[A] = v[x] + f[A \ {x}]}
<1>3. P = {}
  <2> SUFFICES ASSUME P # {} PROVE FALSE
    OBVIOUS
  <2>1. PICK A \in P : \A C \in P : C \subseteq A => C = A
    <3>1. P \in SUBSET SUBSET set
      OBVIOUS
    <3> HIDE DEF P
    <3> QED BY <3>1, SmallestSubset
  <2>2. PICK x \in A : f[A] # v[x] + f[A \ {x}]
    BY <2>1
  <2> DEFINE c == Picked(A)
  <2>3. c \in A /\ f[A] = v[c] + f[A \ {c}]
    BY <1>2, <2>1, <2>2, PickedIs
  <2> HIDE DEF c
  <2>4. c # x
    BY <2>2, <2>3
  <2>5. A \ {c} \notin P /\ A \ {x} \notin P
    BY <2>1, <2>2, <2>3
  <2>6. f[A \ {c}] = v[x] + f[(A \ {c}) \ {x}]
    BY <2>1, <2>2, <2>4, <2>5
  <2>7. f[A \ {x}] = v[c] + f[(A \ {x}) \ {c}]
    BY <2>1, <2>3, <2>4, <2>5
  <2>8. (A \ {c}) \ {x} = (A \ {x}) \ {c}
    OBVIOUS
  <2>9. v[c] \in Nat /\ v[x] \in Nat /\ f[(A \ {x}) \ {c}] \in Nat
    BY <1>1, <2>1, <2>2, <2>3
  <2> DEFINE rest == f[(A \ {x}) \ {c}]
             fx == f[A \ {x}]
             fc == f[A \ {c}]
             fA == f[A]
  <2>10. /\ fA # v[x] + fx /\ fA = v[c] + fc /\ fc = v[x] + rest /\ fx = v[c] + rest
         /\ rest \in Nat /\ v[c] \in Nat /\ v[x] \in Nat
    BY <2>2, <2>3, <2>6, <2>7, <2>8, <2>9
  <2> HIDE DEF rest, fx, fc, fA
  <2> QED BY <2>10
<1>4. f[set] = v[a] + f[set \ {a}]
  BY <1>3
<1>5. IsFiniteSet(set \ {a})
  BY FS_Subset
<1>6. PICK g \in [SUBSET (set \ {a}) -> Nat] :
        IsSum(g, v, set \ {a}) /\ SumFunctionOnSet(v, set \ {a}) = g[set \ {a}]
  BY <1>5, SumIs
<1>7. g[set \ {a}] = f[set \ {a}]
  BY <1>1, <1>5, <1>6, SumsAgree
<1> QED BY <1>1, <1>4, <1>6, <1>7

(***************************************************************************)
(* Some numbers have a least.                                              *)
(***************************************************************************)
LEMMA FirstPlace ==
  ASSUME NEW T \in SUBSET Nat, T # {}
  PROVE  \E i \in T : \A j \in T : ~(j < i)
<1>1. IsWellFoundedOn(OpToRel(<, Nat), Nat)
  BY NatLessThanWellFounded, Zenon
<1>2. PICK i \in T : \A j \in T : ~(<<j, i>> \in OpToRel(<, Nat))
  BY <1>1, WFMin, Zenon
<1>3. \A m, n \in Nat : m < n => <<m, n>> \in OpToRel(<, Nat)
  BY Zenon DEF OpToRel
<1> QED
  BY <1>2, <1>3

(***************************************************************************)
(* Each of some numbers has a place of its own among them, and each place  *)
(* up to their number is one's.                                            *)
(***************************************************************************)
LEMMA Placed ==
  ASSUME NEW set \in SUBSET Nat, IsFiniteSet(set)
  PROVE  /\ \A i \in set : Cardinality({j \in set : j <= i}) \in 1 .. Cardinality(set)
         /\ \A i, k \in set : Cardinality({j \in set : j <= k}) = Cardinality({j \in set : j <= i}) => k = i
         /\ \A k \in 1 .. Cardinality(set) : \E i \in set : Cardinality({j \in set : j <= i}) = k
<1> DEFINE upTo(k) == {j \in set : j <= k}
           n == Cardinality(set)
<1>1. \A k \in set : upTo(k) \subseteq set /\ k \in upTo(k)
  OBVIOUS
<1>2. \A k \in set : IsFiniteSet(upTo(k)) /\ Cardinality(upTo(k)) \in Nat /\ Cardinality(upTo(k)) <= n
  BY <1>1, FS_Subset, FS_CardinalityType
<1>3. n \in Nat
  BY FS_CardinalityType
<1>4. \A i \in set : Cardinality(upTo(i)) # 0
  BY <1>1, <1>2, FS_EmptySet
<1>5. ASSUME NEW i \in set, NEW k \in set, Cardinality(upTo(k)) = Cardinality(upTo(i))
      PROVE  k = i
  <2> i \in Nat /\ k \in Nat /\ \A j \in set : j \in Nat
    BY <1>5
  <2>1. upTo(k) \subseteq upTo(i) \/ upTo(i) \subseteq upTo(k)
    <3>1. CASE i <= k
      <4>1. \A j \in upTo(i) : j \in set /\ j <= k
        BY <3>1
      <4> QED BY <4>1
    <3>2. CASE k <= i
      <4>1. \A j \in upTo(k) : j \in set /\ j <= i
        BY <3>2
      <4> QED BY <4>1
    <3> QED BY <3>1, <3>2
  <2>2. upTo(k) = upTo(i)
    <3> HIDE DEF upTo
    <3> QED BY <1>2, <1>5, <2>1, FS_Subset
  <2>3. i <= k /\ k <= i
    BY <1>1, <1>5, <2>2
  <2> QED BY <1>5, <2>3
<1>6. \A i \in set : Cardinality(upTo(i)) \in 1 .. n
  <2> HIDE DEF upTo, n
  <2> QED BY <1>2, <1>3, <1>4
<1>7. \A k \in 1 .. n : \E i \in set : Cardinality(upTo(i)) = k
  <2> DEFINE place == [i \in set |-> Cardinality(upTo(i))]
  <2> HIDE DEF upTo
  <2>1. place \in Injection(set, 1 .. n)
    BY <1>5, <1>6 DEF Injection, IsInjective
  <2> HIDE DEF n
  <2>2. IsFiniteSet(1 .. n) /\ Cardinality(1 .. n) = n
    BY <1>3, FS_Interval
  <2>3. place \in Surjection(set, 1 .. n)
    BY <2>1, <2>2, FS_Injection DEF n
  <2>4. \A k \in 1 .. n : \E i \in set : place[i] = k
    BY <2>3 DEF Surjection
  <2> QED BY <2>4
<1> QED BY <1>5, <1>6, <1>7

-----------------------------------------------------------------------------
\* Summaries. The head a summary has seen is one that was pushed.

\* The head whose diff was read is one there was.
SeenIsAHead == summaryHead \in 0 .. SummaryPushes /\ seen \in 0 .. summaryHead

(***************************************************************************)
(* No step of a summary loses the head it has seen.                        *)
(***************************************************************************)
LEMMA SeenIsAHeadStep ==
  ASSUME SeenIsAHead, [S!Next]_S!vars
  PROVE  SeenIsAHead'
<1>1. CASE S!Push
  BY <1>1, PushesAreCounted DEF S!Push, S!read, SeenIsAHead
<1>2. CASE S!ReadDiff
  BY <1>2, PushesAreCounted DEF S!ReadDiff, SeenIsAHead
<1>3. CASE S!ReadMeta \/ S!Health \/ S!Lookup \/ S!Answer \/ UNCHANGED S!vars
  BY <1>3 DEF S!ReadMeta, S!Health, S!Lookup, S!Answer, S!vars, S!read, SeenIsAHead
<1> QED
  BY <1>1, <1>2, <1>3 DEF S!Next

(***************************************************************************)
(* The structural pass is called optional only of a small diff with no     *)
(* sensitive path, unless the counts were refused or are of another head   *)
(* than the diff (OptionalIsSmall).                                        *)
(***************************************************************************)
THEOREM OptionalIsAlwaysSmall == S!Spec => []S!OptionalIsSmall
<1>1. S!Init => SeenIsAHead
  BY PushesAreCounted DEF S!Init, SeenIsAHead
<1>2. SeenIsAHead /\ [S!Next]_S!vars => SeenIsAHead'
  BY SeenIsAHeadStep
<1>3. SeenIsAHead => S!OptionalIsSmall
  <2> SUFFICES ASSUME SeenIsAHead, ~S!Required
               PROVE  /\ ~Changes(seen).sensitive
                      /\ counted = seen => /\ Changes(seen).files <= ManyFiles
                                           /\ Changes(seen).lines <= ManyLines
    BY DEF S!OptionalIsSmall
  <2>1. ~Changes(seen).sensitive
    BY DEF S!Required, S!Sensitive
  <2>2. seen \in 0 .. SummaryPushes /\ seen # S!Refused
    BY PushesAreCounted DEF SeenIsAHead, S!Refused
  <2>3. Changes(seen).files \in Nat /\ Changes(seen).lines \in Nat
    BY <2>2, ChangesAreCounted
  <2> QED
    BY <2>1, <2>2, <2>3, ChangesAreCounted DEF S!Required
<1> QED
  BY <1>1, <1>2, <1>3, PTL DEF S!Spec

\* Decisions and patterns found: finitely many, each of some size.
Sized(ps) == IsFiniteSet(ps) /\ \A p \in ps : Size(p) \in Nat
Likened(ps) == \A p \in ps : Alike(p) \in Nat

(***************************************************************************)
(* The sizes of what was found add up to a natural number.                 *)
(***************************************************************************)
LEMMA SizesAdd == ASSUME NEW ps, Sized(ps) PROVE S!MapThenSumSet(Size, ps) \in Nat
<1> DEFINE v == [p \in ps |-> Size(p)]
           g == CHOOSE iter : iter = [s \in SUBSET ps |->
                  IF s = {} THEN 0 ELSE Size(Picked(s)) + iter[s \ {Picked(s)}]]
<1>1. PICK f \in [SUBSET ps -> Nat] : IsSum(f, v, ps)
  BY SumExists DEF Sized
<1>2. \A s \in SUBSET ps : s # {} => v[Picked(s)] = Size(Picked(s))
  BY PickedIs
<1>3. f = [s \in SUBSET ps |-> IF s = {} THEN 0 ELSE Size(Picked(s)) + f[s \ {Picked(s)}]]
  BY <1>1, <1>2 DEF IsSum
<1>4. g = [s \in SUBSET ps |-> IF s = {} THEN 0 ELSE Size(Picked(s)) + g[s \ {Picked(s)}]]
  BY <1>3
<1>5. S!MapThenSumSet(Size, ps) = g[ps]
  BY DEF S!MapThenSumSet, S!MapThenFoldSet, Picked
<1> HIDE DEF g
<1>6. IsSum(g, v, ps)
  BY <1>2, <1>4 DEF IsSum
<1> HIDE DEF v
<1>7. g[ps] = f[ps]
  <2>1. IsFiniteSet(ps)
    BY DEF Sized
  <2> QED BY <1>1, <1>6, <2>1, SumsAgree
<1> QED BY <1>1, <1>5, <1>7

(***************************************************************************)
(* So do the tokens of what is shown.                                      *)
(***************************************************************************)
LEMMA TokensCount ==
  ASSUME NEW ds, Sized(ds), NEW ps, Sized(ps), NEW qs \in SUBSET ps
  PROVE  S!Tokens(ds, qs) \in Nat
<1>1. Sized(qs)
  BY FS_Subset DEF Sized
<1> DEFINE chars == 18 + S!MapThenSumSet(Size, ds) + S!MapThenSumSet(Size, qs)
<1>2. chars \in Nat
  BY <1>1, SizesAdd
<1>3. S!Tokens(ds, qs) = chars \div 4
  BY DEF S!Tokens
<1> HIDE DEF chars
<1> QED BY <1>2, <1>3

(***************************************************************************)
(* The least of some numbers is among them.                                *)
(***************************************************************************)
LEMMA LeastIs ==
  ASSUME NEW T \in SUBSET Nat, T # {}
  PROVE  S!Min(T) \in T /\ \A k \in T : S!Min(T) <= k
<1>1. PICK i \in T : \A j \in T : ~(j < i)
  BY FirstPlace
<1>2. \A j \in T : i <= j
  BY <1>1
<1>3. \E x \in T : \A y \in T : x <= y
  BY <1>2
<1> DEFINE least == CHOOSE x \in T : \A y \in T : x <= y
<1>4. least \in T /\ \A y \in T : least <= y
  BY <1>3
<1> QED BY <1>4 DEF S!Min

(***************************************************************************)
(* Both ways to write the size of a set agree.                             *)
(***************************************************************************)
LEMMA SummaryCounts == \A xs : S!Cardinality(xs) = Cardinality(xs)
BY DEF S!Cardinality, Cardinality

(***************************************************************************)
(* What the budget leaves of the patterns, in whatever order equals go.    *)
(***************************************************************************)
LEMMA BestLeft ==
  ASSUME NEW ds, Sized(ds), NEW ps, Sized(ps), Likened(ps), NEW order \in S!Orders(ps),
         Budget \in Nat
  PROVE  LET kept == S!Trimmed(ds, order)
             dropped == ps \ kept
         IN /\ kept \subseteq ps
            /\ S!Tokens(ds, kept) > Budget => kept = {}
            /\ \A p \in dropped, q \in kept : Alike(q) >= Alike(p)
            /\ dropped # {} =>
                 \E p \in dropped : /\ \A q \in dropped : Alike(q) <= Alike(p)
                                   /\ S!Tokens(ds, kept \cup {p}) > Budget
<1> DEFINE n == Cardinality(ps)
           enough == {k \in 0 .. n : S!Tokens(ds, S!Rest(order, k)) <= Budget}
           m == IF enough = {} THEN n ELSE S!Min(enough)
           kept == S!Rest(order, m)
           dropped == ps \ kept
<1>1. n \in Nat /\ IsFiniteSet(1 .. n) /\ Cardinality(1 .. n) = n /\ IsFiniteSet(ps)
  BY FS_CardinalityType, FS_Interval DEF Sized
<1>2. /\ order \in [1 .. n -> ps]
      /\ \A i, j \in 1 .. n : i # j => order[i] # order[j]
      /\ \A i, j \in 1 .. n : i < j => Alike(order[i]) <= Alike(order[j])
  <2>1. S!SetToSeqs(ps) = {f \in [1 .. n -> ps] : \A i, j \in 1 .. n : i # j => f[i] # f[j]}
    BY SummaryCounts DEF S!SetToSeqs
  <2> HIDE DEF n
  <2>2. order \in S!SetToSeqs(ps) /\ \A i, j \in DOMAIN order : i < j => Alike(order[i]) <= Alike(order[j])
    BY DEF S!Orders, S!LeastAlikeFirst
  <2>3. order \in [1 .. n -> ps] /\ DOMAIN order = 1 .. n
    BY <2>1, <2>2
  <2> QED BY <2>1, <2>2, <2>3
<1>3. \A p \in ps : \E i \in 1 .. n : order[i] = p
  <2>1. order \in Injection(1 .. n, ps)
    BY <1>2 DEF Injection, IsInjective
  <2>2. order \in Surjection(1 .. n, ps)
    <3> HIDE DEF n
    <3> QED BY <1>1, <2>1, FS_Injection DEF n
  <2> QED BY <2>2 DEF Surjection
<1>4. S!Trimmed(ds, order) = kept
  <2>1. S!Cardinality(DOMAIN order) = n
    BY <1>1, <1>2, SummaryCounts
  <2> HIDE DEF n
  <2> QED BY <2>1 DEF S!Trimmed
<1>5. enough \in SUBSET Nat /\ m \in 0 .. n /\ (enough # {} => m \in enough)
      /\ \A k \in enough : m <= k
  <2>1. enough \in SUBSET Nat /\ enough \subseteq 0 .. n
    OBVIOUS
  <2> HIDE DEF enough
  <2> HIDE DEF n
  <2>2. CASE enough = {}
    BY <1>1, <2>1, <2>2
  <2>3. CASE enough # {}
    <3>1. S!Min(enough) \in enough /\ \A k \in enough : S!Min(enough) <= k
      BY <2>1, <2>3, LeastIs
    <3> QED BY <2>1, <2>3, <3>1
  <2> QED BY <2>2, <2>3
<1>6. \A k \in 0 .. n : S!Rest(order, k) = {order[i] : i \in k + 1 .. n} /\ S!Rest(order, k) \subseteq ps
  BY <1>1, <1>2 DEF S!Rest
<1>7. \A k \in 0 .. n : S!Tokens(ds, S!Rest(order, k)) \in Nat
  BY <1>6, TokensCount
<1> HIDE DEF m
<1>8. dropped = {order[i] : i \in 1 .. m}
  BY <1>1, <1>2, <1>3, <1>5, <1>6
<1>9. S!Tokens(ds, kept) > Budget => kept = {}
  <2> SUFFICES ASSUME S!Tokens(ds, kept) > Budget PROVE kept = {}
    OBVIOUS
  <2>1. m \notin enough
    BY <1>5, <1>7
  <2>2. m = n
    BY <1>5, <2>1 DEF m
  <2> QED BY <1>1, <1>6, <2>2
<1>10. \A p \in dropped, q \in kept : Alike(q) >= Alike(p)
  <2> SUFFICES ASSUME NEW i \in 1 .. m, NEW j \in m + 1 .. n
               PROVE  Alike(order[j]) >= Alike(order[i])
    BY <1>5, <1>6, <1>8
  <2>1. i \in 1 .. n /\ j \in 1 .. n /\ i < j
    BY <1>1, <1>5
  <2>2. Alike(order[i]) \in Nat /\ Alike(order[j]) \in Nat /\ Alike(order[i]) <= Alike(order[j])
    BY <1>2, <2>1 DEF Likened
  <2> QED BY <2>2
<1>11. ASSUME dropped # {}
       PROVE  /\ order[m] \in dropped /\ \A q \in dropped : Alike(q) <= Alike(order[m])
              /\ S!Tokens(ds, kept \cup {order[m]}) > Budget
  <2>1. m \in 1 .. n /\ m \in 1 .. m
    BY <1>1, <1>5, <1>8, <1>11
  <2>2. \A i \in 1 .. m : i \in 1 .. n /\ Alike(order[i]) <= Alike(order[m])
    <3> SUFFICES ASSUME NEW i \in 1 .. m PROVE i \in 1 .. n /\ Alike(order[i]) <= Alike(order[m])
      OBVIOUS
    <3>1. i \in 1 .. n /\ (i = m \/ i < m)
      BY <1>1, <2>1
    <3>2. Alike(order[m]) \in Nat
      BY <1>2, <2>1 DEF Likened
    <3> QED BY <1>2, <2>1, <3>1, <3>2
  <2>3. kept \cup {order[m]} = S!Rest(order, m - 1)
    <3>1. m - 1 \in 0 .. n /\ m .. n = (m + 1 .. n) \cup {m} /\ (m - 1) + 1 = m
      BY <1>1, <2>1
    <3>2. S!Rest(order, m - 1) = {order[i] : i \in m .. n}
      BY <1>6, <3>1
    <3>3. kept = {order[i] : i \in m + 1 .. n}
      BY <1>5, <1>6
    <3> QED BY <3>1, <3>2, <3>3
  <2>4. m - 1 \notin enough /\ m - 1 \in 0 .. n
    BY <1>1, <1>5, <2>1
  <2>5. ~(S!Tokens(ds, S!Rest(order, m - 1)) <= Budget)
    BY <2>4
  <2>6. S!Tokens(ds, S!Rest(order, m - 1)) > Budget
    BY <1>7, <2>4, <2>5
  <2> QED BY <1>8, <2>1, <2>2, <2>3, <2>6
<1>12. kept \subseteq ps
  BY <1>5, <1>6
<1> HIDE DEF dropped
<1>13. dropped # {} => \E p \in dropped : /\ \A q \in dropped : Alike(q) <= Alike(p)
                                   /\ S!Tokens(ds, kept \cup {p}) > Budget
  BY <1>11
<1> HIDE DEF kept
<1> QED BY <1>4, <1>9, <1>10, <1>12, <1>13 DEF dropped

(***************************************************************************)
(* The first few of a sequence are its own.                                *)
(***************************************************************************)
LEMMA FirstIs ==
  ASSUME NEW T, NEW s \in Seq(T), NEW n \in Nat
  PROVE  /\ S!First(s, n) \in Seq(T)
         /\ \A k \in DOMAIN S!First(s, n) : k \in DOMAIN s /\ S!First(s, n)[k] = s[k]
<1> DEFINE m == IF Len(s) < n THEN Len(s) ELSE n
<1>1. Len(s) \in Nat /\ m \in 0 .. Len(s) /\ DOMAIN s = 1 .. Len(s)
  OBVIOUS
<1>2. S!First(s, n) = SubSeq(s, 1, m)
  BY DEF S!First
<1> HIDE DEF m
<1>3. SubSeq(s, 1, m) = [k \in 1 .. m |-> s[k]]
  BY <1>1
<1>4. SubSeq(s, 1, m) \in Seq(T)
  BY <1>1, <1>3
<1> QED BY <1>1, <1>2, <1>3, <1>4

(***************************************************************************)
(* Each look-up finds finitely many things of some size.                   *)
(***************************************************************************)
LEMMA LookupsFind ==
  ASSUME SeenIsAHead, NEW k \in 1 .. Len(S!Lookups)
  PROVE  /\ Sized(S!Lookups[k].past)
         /\ Sized(S!Lookups[k].like) /\ Likened(S!Lookups[k].like)
<1>1. seen \in 0 .. SummaryPushes
  BY PushesAreCounted DEF SeenIsAHead
<1> DEFINE Finds(l) == Sized(l.past) /\ Sized(l.like) /\ Likened(l.like)
           files == S!First(Files(seen), MaxFiles)
           symbols == S!First(SymbolsIn(seen), MaxSymbols)
<1>2. Sized({}) /\ Likened({})
  BY FS_EmptySet DEF Sized, Likened
<1>3. \E T : files \in Seq(T) /\ \A i \in DOMAIN files : Sized(Decisions(files[i]))
  <2> DEFINE s == Files(seen)
             T == {s[i] : i \in DOMAIN s}
  <2>1. s \in Seq(T) /\ MaxFiles \in Nat /\ \A i \in DOMAIN s : Sized(Decisions(s[i]))
    BY <1>1, LessonsAreCounted DEF Sized
  <2> HIDE DEF s, T
  <2>2. /\ S!First(s, MaxFiles) \in Seq(T)
        /\ \A i \in DOMAIN S!First(s, MaxFiles) : i \in DOMAIN s /\ S!First(s, MaxFiles)[i] = s[i]
    BY <2>1, FirstIs
  <2> QED BY <2>1, <2>2 DEF s
<1>4. \E T : /\ symbols \in Seq(T)
            /\ \A i \in DOMAIN symbols : Sized(Patterns(symbols[i])) /\ Likened(Patterns(symbols[i]))
  <2> DEFINE s == SymbolsIn(seen)
             T == {s[i] : i \in DOMAIN s}
  <2>1. /\ s \in Seq(T) /\ MaxSymbols \in Nat
        /\ \A i \in DOMAIN s : Sized(Patterns(s[i])) /\ Likened(Patterns(s[i]))
    BY <1>1, LessonsAreCounted DEF Sized, Likened
  <2> HIDE DEF s, T
  <2>2. /\ S!First(s, MaxSymbols) \in Seq(T)
        /\ \A i \in DOMAIN S!First(s, MaxSymbols) :
              i \in DOMAIN s /\ S!First(s, MaxSymbols)[i] = s[i]
    BY <2>1, FirstIs
  <2> QED BY <2>1, <2>2 DEF s
<1> HIDE DEF files, symbols
<1> DEFINE as == [i \in DOMAIN files |-> [past |-> Decisions(files[i]), like |-> {}]]
           bs == [i \in DOMAIN symbols |-> [past |-> {}, like |-> Patterns(symbols[i])]]
<1>5. S!Lookups = as \o bs
  BY DEF S!Lookups, S!FileLookups, S!SymbolLookups, files, symbols
<1>6. /\ Len(files) \in Nat /\ DOMAIN files = 1 .. Len(files)
      /\ Len(symbols) \in Nat /\ DOMAIN symbols = 1 .. Len(symbols)
  BY <1>3, <1>4
<1>7. \A i \in DOMAIN as : Finds(as[i])
  BY <1>2, <1>3
<1>8. \A i \in DOMAIN bs : Finds(bs[i])
  BY <1>2, <1>4
<1> DEFINE T == {as[i] : i \in DOMAIN as} \cup {bs[i] : i \in DOMAIN bs}
<1>9. as \in Seq(T) /\ bs \in Seq(T)
  <2>1. as \in [1 .. Len(files) -> T] /\ bs \in [1 .. Len(symbols) -> T]
    BY <1>6
  <2> HIDE DEF as, bs, T
  <2>2. as \in Seq(T)
    BY <1>6, <2>1, SeqDef
  <2>3. bs \in Seq(T)
    BY <1>6, <2>1, SeqDef
  <2> QED BY <2>2, <2>3
<1>10. \A l \in T : Finds(l)
  BY <1>7, <1>8
<1> HIDE DEF as, bs, T, Finds
<1>11. as \o bs \in Seq(T)
  BY <1>9, ConcatProperties
<1>12. S!Lookups[k] \in T
  BY <1>5, <1>11, ElementOfSeq
<1> QED BY <1>10, <1>12 DEF Finds

\* What a summary has found so far, and what it answered with it.
Finding ==
  /\ SeenIsAHead /\ asked \in Nat
  /\ Sized(decisions) /\ Sized(patterns) /\ Likened(patterns)
  /\ step \in {"meta", "diff", "health"} =>
       decisions = {} /\ patterns = {} /\ context = [decisions |-> {}, patterns |-> {}]
  /\ S!BestAreKept

(***************************************************************************)
(* The block of a summary holds all decisions found and, of the patterns,  *)
(* the most alike: one is left out only when it did not fit the budget     *)
(* with those kept, and none is kept over the budget (BestAreKept).        *)
(***************************************************************************)
THEOREM BestAlwaysKept == S!Spec => []S!BestAreKept
<1>1. S!Init => Finding
  BY PushesAreCounted, FS_EmptySet DEF S!Init, Finding, SeenIsAHead, Sized, Likened, S!BestAreKept
<1>2. Finding /\ [S!Next]_S!vars => Finding'
  <2> SUFFICES ASSUME Finding, [S!Next]_S!vars PROVE Finding'
    OBVIOUS
  <2>0. SeenIsAHead'
    BY SeenIsAHeadStep DEF Finding
  <2>1. CASE S!Push \/ S!ReadMeta \/ S!ReadDiff \/ UNCHANGED S!vars
    <3>1. /\ UNCHANGED <<asked, decisions, patterns, context>>
          /\ step' = "answer" => step = "answer"
          /\ step' \in {"meta", "diff", "health"} => step \in {"meta", "diff", "health"}
      BY <2>1 DEF S!Push, S!ReadMeta, S!ReadDiff, S!vars, S!found, S!read
    <3>2. S!BestAreKept'
      BY <3>1 DEF Finding, S!BestAreKept
    <3> QED BY <2>0, <3>1, <3>2 DEF Finding, Sized, Likened
  <2>2. CASE S!Health
    <3>1. /\ UNCHANGED <<asked, decisions, patterns, context>>
          /\ step = "health" /\ step' \in {"context", "answer"}
      BY <2>2 DEF S!Health, S!found
    <3>2. S!BestAreKept'
      BY <3>1 DEF Finding, S!BestAreKept
    <3> QED BY <2>0, <3>1, <3>2 DEF Finding, Sized, Likened
  <2>3. CASE S!Lookup
    <3>1. /\ step = "context" /\ step' = step /\ asked' = asked + 1 /\ asked < Len(S!Lookups)
          /\ \/ /\ decisions' = decisions \cup S!Lookups[asked + 1].past
                /\ patterns' = patterns \cup S!Lookups[asked + 1].like
             \/ UNCHANGED <<decisions, patterns>>
      BY <2>3 DEF S!Lookup
    <3>2. asked + 1 \in 1 .. Len(S!Lookups)
      BY <3>1 DEF Finding
    <3>3. /\ Sized(S!Lookups[asked + 1].past)
          /\ Sized(S!Lookups[asked + 1].like) /\ Likened(S!Lookups[asked + 1].like)
      BY <3>2, LookupsFind DEF Finding
    <3>4. Sized(decisions)' /\ Sized(patterns)' /\ Likened(patterns)'
      BY <3>1, <3>3, FS_Union DEF Finding, Sized, Likened
    <3> QED BY <2>0, <3>1, <3>4 DEF Finding, S!BestAreKept
  <2>4. CASE S!Answer
    <3>1. /\ step' = "answer" /\ UNCHANGED <<asked, decisions, patterns>>
          /\ \E order \in S!Orders(patterns) :
               context' = [decisions |-> decisions, patterns |-> S!Trimmed(decisions, order)]
      BY <2>4 DEF S!Answer, S!Block, S!found
    <3>2. S!BestAreKept'
      <4>1. PICK order \in S!Orders(patterns) :
              context' = [decisions |-> decisions, patterns |-> S!Trimmed(decisions, order)]
        BY <3>1
      <4> DEFINE kept == S!Trimmed(decisions, order)
                 dropped == patterns \ kept
      <4>2. /\ kept \subseteq patterns
            /\ S!Tokens(decisions, kept) > Budget => kept = {}
            /\ \A p \in dropped, q \in kept : Alike(q) >= Alike(p)
            /\ dropped # {} =>
                 \E p \in dropped : /\ \A q \in dropped : Alike(q) <= Alike(p)
                                   /\ S!Tokens(decisions, kept \cup {p}) > Budget
        BY BestLeft, LessonsAreCounted DEF Finding
      <4> HIDE DEF kept
      <4>3. context'.decisions = decisions /\ context'.patterns = kept
        BY <4>1 DEF kept
      <4> QED BY <3>1, <4>2, <4>3 DEF S!BestAreKept, S!Tokens
    <3> QED BY <2>0, <3>1, <3>2 DEF Finding, Sized, Likened
  <2> QED
    BY <2>1, <2>2, <2>3, <2>4 DEF S!Next
<1>3. Finding => S!BestAreKept
  BY DEF Finding
<1> QED
  BY <1>1, <1>2, <1>3, PTL DEF S!Spec
-----------------------------------------------------------------------------
\* Replies. Whoever reads alone has read what is there.

\* What the points of a collection count.
Total(s) == SumFunctionOnSet(s, DOMAIN s)

(***************************************************************************)
(* A new point counts one; one more on a point is one more of all.         *)
(***************************************************************************)
LEMMA SumGrows ==
  ASSUME NEW s \in Seq(Nat)
  PROVE  /\ Total(s) \in Nat
         /\ Total(Append(s, 1)) = Total(s) + 1
         /\ \A i \in DOMAIN s : Total([s EXCEPT ![i] = @ + 1]) = Total(s) + 1
<1>1. Len(s) \in Nat /\ DOMAIN s = 1 .. Len(s) /\ IsFiniteSet(DOMAIN s)
  BY FS_Interval
<1>2. \A i \in DOMAIN s : s[i] \in Nat
  OBVIOUS
<1>3. Total(s) \in Nat
  BY <1>1, <1>2, SumOfSame DEF Total
<1>4. Total(Append(s, 1)) = Total(s) + 1
  <2> DEFINE t == Append(s, 1)
             n == Len(s) + 1
  <2>1. /\ DOMAIN t = 1 .. n /\ n \in DOMAIN t /\ t[n] = 1
        /\ \A i \in DOMAIN t : t[i] \in Nat
        /\ DOMAIN t \ {n} = DOMAIN s
        /\ \A i \in DOMAIN s : t[i] = s[i]
    BY <1>1, <1>2
  <2>2. IsFiniteSet(DOMAIN t)
    BY <1>1, <2>1, FS_Interval
  <2> HIDE DEF t, n
  <2>3. Total(t) = 1 + SumFunctionOnSet(t, DOMAIN s)
    BY <2>1, <2>2, SumWithout DEF Total
  <2>4. SumFunctionOnSet(s, DOMAIN s) = SumFunctionOnSet(t, DOMAIN s)
    BY <1>1, <1>2, <2>1, SumOfSame
  <2> QED BY <1>3, <2>3, <2>4 DEF Total, t
<1>5. ASSUME NEW i \in DOMAIN s
      PROVE  Total([s EXCEPT ![i] = @ + 1]) = Total(s) + 1
  <2> DEFINE t == [s EXCEPT ![i] = @ + 1]
             rest == DOMAIN s \ {i}
  <2>1. /\ DOMAIN t = DOMAIN s /\ t[i] = s[i] + 1 /\ s[i] \in Nat
        /\ \A j \in rest : t[j] = s[j] /\ s[j] \in Nat
        /\ \A j \in DOMAIN s : t[j] \in Nat
    BY <1>2, <1>5
  <2>2. IsFiniteSet(rest)
    BY <1>1, FS_Subset
  <2> HIDE DEF t
  <2>3. Total(s) = s[i] + SumFunctionOnSet(s, rest)
    BY <1>1, <1>2, <1>5, SumWithout DEF Total
  <2>4. Total(t) = t[i] + SumFunctionOnSet(t, rest)
    <3> DEFINE places == DOMAIN s
    <3>1. IsFiniteSet(places) /\ i \in places /\ \A j \in places : t[j] \in Nat
      BY <1>1, <1>5, <2>1
    <3> HIDE DEF places, rest
    <3>2. SumFunctionOnSet(t, places) = t[i] + SumFunctionOnSet(t, places \ {i})
      BY <3>1, SumWithout
    <3> QED BY <2>1, <3>2 DEF Total, places, rest
  <2>5. SumFunctionOnSet(s, rest) = SumFunctionOnSet(t, rest) /\ SumFunctionOnSet(s, rest) \in Nat
    <3> HIDE DEF rest
    <3>1. \A j \in rest : s[j] \in Nat /\ s[j] = t[j]
      BY <2>1
    <3> QED BY <2>2, <3>1, SumOfSame
  <2> QED BY <2>1, <2>3, <2>4, <2>5 DEF t
<1> QED BY <1>3, <1>4, <1>5

Learner == [step : {"new", "read", "over"}, point : Nat, count : Nat]
Reads(r) == reply[r].step = "read"
Counting ==
  /\ points \in Seq(Nat) /\ recorded \in Nat /\ reply \in [Replies -> Learner]
  /\ shown \in Seq(Nat) /\ DOMAIN shown \subseteq DOMAIN points
  /\ muddled \in BOOLEAN
  /\ \A r \in Replies : Reads(r) => reply[r].point \in {0} \cup DOMAIN points
  /\ ~muddled =>
       /\ Total(points) = recorded
       /\ \A r, s \in Replies : Reads(r) /\ Reads(s) => r = s
       /\ \A r \in Replies : Reads(r) /\ reply[r].point # 0 =>
            reply[r].count = points[reply[r].point]

(***************************************************************************)
(* FoldSeq is that sum.                                                    *)
(***************************************************************************)
LEMMA CountingIsCounts == Counting => L!CountsAreReplies
<1>1. L!FoldSeq(+, 0, points) = Total(points)
  BY DEF Total, L!FoldSeq, L!FoldFunction, L!FoldFunctionOnSet, L!MapThenFoldSet,
         SumFunctionOnSet, FoldFunctionOnSet, MapThenFoldSet
<1> QED BY <1>1 DEF Counting, L!CountsAreReplies

(***************************************************************************)
(* However upserts fail, searches find nothing and the process restarts,   *)
(* the learnings count each reply recorded once, as long as no reply is    *)
(* searched for between another's search and the time its upsert is seen   *)
(* (CountsAreReplies).                                                     *)
(***************************************************************************)
THEOREM CountsAlwaysReplies == L!Spec => []L!CountsAreReplies
<1>1. L!Init => Counting
  <2> SUFFICES ASSUME L!Init PROVE Counting
    OBVIOUS
  <2>1. points = <<>> /\ shown = <<>> /\ recorded = 0 /\ muddled = FALSE
        /\ reply = [r \in Replies |-> L!NoReply]
    BY DEF L!Init
  <2>2. Total(<<>>) = 0
    BY SumOfNone DEF Total
  <2>3. L!NoReply \in Learner /\ \A r \in Replies : ~Reads(r)
    BY <2>1 DEF L!NoReply, Learner, Reads
  <2>4. <<>> \in Seq(Nat) /\ recorded \in Nat
    BY <2>1
  <2> QED BY <2>1, <2>2, <2>3, <2>4 DEF Counting
<1>2. Counting /\ [L!Next]_L!vars => Counting'
  <2> SUFFICES ASSUME Counting, [L!Next]_L!vars PROVE Counting'
    OBVIOUS
  <2>1. CASE UNCHANGED <<points, shown, recorded, reply, muddled>>
    BY <2>1 DEF Counting, Reads
  <2>0. CASE L!Apply
    BY <2>0 DEF L!Apply, Counting, Reads
  <2>2. CASE L!Restart
    <3>1. /\ UNCHANGED <<points, shown, recorded, muddled>>
          /\ reply' = [r \in Replies |-> IF reply[r].step = "read"
                                          THEN [L!NoReply EXCEPT !.step = "over"] ELSE reply[r]]
      BY <2>2 DEF L!Restart, L!store
    <3> QED BY <3>1 DEF Counting, Learner, L!NoReply, Reads
  <2>3. ASSUME NEW r \in Replies, L!Search(r)
        PROVE  Counting'
    <3>1. UNCHANGED <<points, shown, recorded>> /\ reply[r].step = "new"
      BY <2>3 DEF L!Search, L!store
    <3>2. CASE L!Dropped(r)
      BY <3>1, <3>2 DEF Counting, Learner, Reads, L!Dropped
    <3>3. ASSUME NEW p \in {0} \cup DOMAIN shown,
                 reply' = [reply EXCEPT ![r] = [step |-> "read", point |-> p,
                                                count |-> IF p = 0 THEN 0 ELSE shown[p]]],
                 muddled' = (muddled \/ L!Reading # {} \/ shown # points)
          PROVE  Counting'
      <4>1. /\ p \in Nat /\ (p # 0 => p \in DOMAIN points /\ shown[p] \in Nat)
        BY <3>3 DEF Counting
      <4>2. reply' \in [Replies -> Learner]
        BY <3>3, <4>1 DEF Counting, Learner
      <4>3. \A q \in Replies : reply'[q] = IF q = r THEN [step |-> "read", point |-> p,
                                                count |-> IF p = 0 THEN 0 ELSE shown[p]]
                                           ELSE reply[q]
        BY <3>3 DEF Counting
      <4>4. /\ muddled' \in BOOLEAN
            /\ ~muddled' => ~muddled /\ shown = points /\ \A q \in Replies : ~Reads(q)
        BY <3>3 DEF Counting, L!Reading, Reads
      <4> QED BY <3>1, <4>1, <4>2, <4>3, <4>4 DEF Counting, Reads
    <3> QED BY <2>3, <3>2, <3>3 DEF L!Search
  <2>4. ASSUME NEW r \in Replies, L!Record(r)
        PROVE  Counting'
    <3>1. /\ reply[r].step = "read" /\ reply' = [reply EXCEPT ![r].step = "over"]
          /\ UNCHANGED <<muddled, shown>>
      BY <2>4 DEF L!Record
    <3>2. reply' \in [Replies -> Learner] /\ \A q \in Replies : Reads(q)' <=> Reads(q) /\ q # r
      BY <3>1 DEF Counting, Learner, Reads
    <3>3. \A q \in Replies : reply'[q].point = reply[q].point /\ reply'[q].count = reply[q].count
      BY <3>1 DEF Counting, Learner
    <3>4. ~muddled => \A q \in Replies : ~Reads(q)'
      BY <3>1, <3>2 DEF Counting, Reads
    <3>5. CASE UNCHANGED <<points, recorded>>
      BY <3>1, <3>2, <3>4, <3>5 DEF Counting, Reads
    <3>6. CASE /\ recorded' = recorded + 1
               /\ points' = IF reply[r].point = 0 THEN Append(points, 1)
                            ELSE [points EXCEPT ![reply[r].point] = L!Counted(r)]
      <4>1. points' \in Seq(Nat)
        <5>1. L!Counted(r) \in Nat /\ points \in Seq(Nat)
          BY DEF Counting, Learner, L!Counted
        <5>2. Append(points, 1) \in Seq(Nat)
          BY <5>1
        <5>3. CASE reply[r].point # 0
          <6>1. reply[r].point \in 1 .. Len(points)
            BY <3>1, <5>3 DEF Counting, Reads
          <6> QED BY <3>6, <5>1, <5>3, <6>1, ExceptSeq
        <5> QED BY <3>6, <5>2, <5>3
      <4>2. ~muddled => Total(points') = Total(points) + 1
        <5>1. CASE reply[r].point = 0
          BY <3>6, <5>1, SumGrows DEF Counting
        <5>2. CASE reply[r].point # 0
          <6> SUFFICES ASSUME ~muddled PROVE Total(points') = Total(points) + 1
            OBVIOUS
          <6> DEFINE i == reply[r].point
          <6>1. i \in DOMAIN points /\ L!Counted(r) = points[i] + 1
            BY <3>1, <5>2 DEF Counting, Reads, L!Counted
          <6>2. points' = [points EXCEPT ![i] = @ + 1]
            BY <3>6, <5>2, <6>1
          <6> HIDE DEF i
          <6> QED BY <6>1, <6>2, SumGrows DEF Counting
        <5> QED BY <5>1, <5>2
      <4>3. recorded' \in Nat /\ (~muddled' => Total(points)' = recorded')
        BY <3>1, <3>6, <4>2 DEF Counting, Total
      <4>4. DOMAIN points \subseteq DOMAIN points'
        <5>1. CASE reply[r].point = 0
          BY <3>6, <5>1 DEF Counting
        <5>2. CASE reply[r].point # 0
          BY <3>6, <5>2 DEF Counting
        <5> QED BY <5>1, <5>2
      <4>5. \A q \in Replies : Reads(q)' => reply'[q].point \in {0} \cup DOMAIN points'
        BY <3>2, <3>3, <4>4 DEF Counting
      <4>6. UNCHANGED <<muddled, shown>>
        BY <3>1
      <4>7. shown' \in Seq(Nat) /\ DOMAIN shown' \subseteq DOMAIN points' /\ muddled' \in BOOLEAN
        BY <4>4, <4>6 DEF Counting
      <4> HIDE DEF Learner
      <4> QED BY <3>2, <3>4, <4>1, <4>3, <4>5, <4>6, <4>7 DEF Counting
    <3> QED BY <2>4, <3>5, <3>6 DEF L!Record
  <2> QED
    BY <2>0, <2>1, <2>2, <2>3, <2>4 DEF L!Next, L!MergeNext, L!ReplyNext, L!Around, L!vars,
       L!LookAt, L!Ensure, L!Reach, L!Fetched, L!IndexChunk, L!IndexSymbol, L!Indexed, L!Pass, L!store
<1> QED BY <1>1, <1>2, CountingIsCounts, PTL DEF L!Spec
-----------------------------------------------------------------------------
\* Merges. What of a merge was passed was stored.

(***************************************************************************)
(* What a quotient is.                                                     *)
(***************************************************************************)
LEMMA Quotient ==
  ASSUME NEW a \in Nat, NEW d \in Nat, d > 0
  PROVE  (a \div d) \in Nat /\ d * (a \div d) <= a /\ a < d * (a \div d) + d
OBVIOUS

(***************************************************************************)
(* More of what is alike is no less.                                       *)
(***************************************************************************)
LEMMA TimesKeepsOrder ==
  ASSUME NEW a \in Nat, NEW b \in Nat, NEW d \in Nat, a <= b
  PROVE  d * a <= d * b /\ d * a \in Nat /\ d * b \in Nat
<1>1. PICK c \in Nat : b = a + c
  <2>1. b - a \in Nat /\ b = a + (b - a)
    OBVIOUS
  <2> QED BY <2>1
<1>2. d * b = d * a + d * c
  BY <1>1
<1>3. d * c \in Nat /\ d * a \in Nat /\ d * b \in Nat
  OBVIOUS
<1> QED BY <1>2, <1>3

(***************************************************************************)
(* The least of two is the lesser.                                         *)
(***************************************************************************)
LEMMA LesserIs ==
  ASSUME NEW a \in Int, NEW b \in Int
  PROVE  L!Min({a, b}) = IF a <= b THEN a ELSE b
<1> DEFINE c == IF a <= b THEN a ELSE b
<1>1. c \in {a, b} /\ \A y \in {a, b} : c <= y
  OBVIOUS
<1>2. \A x \in {a, b} : (\A y \in {a, b} : x <= y) => x = c
  OBVIOUS
<1> HIDE DEF c
<1>3. L!Min({a, b}) = CHOOSE x \in {a, b} : \A y \in {a, b} : x <= y
  BY DEF L!Min
<1>4. L!Min({a, b}) = c
  BY <1>1, <1>2, <1>3
<1> QED BY <1>4 DEF c

(***************************************************************************)
(* Both ways to write the size of a set agree.                             *)
(***************************************************************************)
LEMMA LearningCounts == \A xs : L!Cardinality(xs) = Cardinality(xs)
BY DEF L!Cardinality, Cardinality

\* The lines of a merge, those from one chunk to the next, and where its chunks begin and end.
Lines(m) == Len(Diff(m))
Stride == ChunkSize - ChunkOverlap
Pieces(m) == (Lines(m) + Stride - 1) \div Stride
Begin(k) == Stride * (k - 1)
End(m, k) == IF Lines(m) <= Begin(k) + ChunkSize THEN Lines(m) ELSE Begin(k) + ChunkSize

(***************************************************************************)
(* A diff has so many lines, and chunks begin some lines apart.            *)
(***************************************************************************)
LEMMA LinesAre ==
  ASSUME NEW m \in Merges
  PROVE  /\ Lines(m) \in Nat /\ DOMAIN Diff(m) = 1 .. Lines(m)
         /\ Stride \in Nat /\ Stride > 0 /\ Stride + ChunkOverlap = ChunkSize
         /\ Large \in Nat /\ ChunkSize \in Nat /\ ChunkOverlap \in Nat
<1>1. \E T : Diff(m) \in Seq(T)
  BY MergesAreCounted
<1>2. Lines(m) \in Nat /\ DOMAIN Diff(m) = 1 .. Lines(m)
  BY <1>1 DEF Lines
<1>3. /\ ChunkSize \in Nat /\ ChunkOverlap \in Nat /\ ChunkOverlap < ChunkSize /\ Large \in Nat
  BY MergesAreCounted
<1>4. Stride \in Nat /\ Stride > 0 /\ Stride + ChunkOverlap = ChunkSize
  BY ONLY <1>3 DEF Stride
<1> QED BY <1>2, <1>3, <1>4

(***************************************************************************)
(* What the chunks of a diff are, by its length.                           *)
(***************************************************************************)
LEMMA ChunksAre ==
  ASSUME NEW m \in Merges
  PROVE  /\ Lines(m) = 0 => L!Chunks(m) = <<>>
         /\ Lines(m) # 0 /\ Lines(m) <= Large => L!Chunks(m) = <<1 .. Lines(m)>>
         /\ Lines(m) # 0 /\ Lines(m) > Large =>
              /\ Pieces(m) \in Nat /\ Len(L!Chunks(m)) = Pieces(m) /\ DOMAIN L!Chunks(m) = 1 .. Pieces(m)
              /\ Stride * Pieces(m) < Lines(m) + Stride /\ Lines(m) - 1 < Stride * Pieces(m)
              /\ \A k \in 1 .. Pieces(m) : /\ L!Chunks(m)[k] = Begin(k) + 1 .. End(m, k)
                                        /\ Begin(k) \in Nat /\ End(m, k) \in Nat
<1>1. Lines(m) = 0 => L!Chunks(m) = <<>>
  BY DEF L!Chunks, Lines
<1>2. Lines(m) # 0 /\ Lines(m) <= Large => L!Chunks(m) = <<1 .. Lines(m)>>
  BY DEF L!Chunks, Lines
<1>3. ASSUME Lines(m) # 0, Lines(m) > Large
      PROVE  /\ Pieces(m) \in Nat /\ Len(L!Chunks(m)) = Pieces(m) /\ DOMAIN L!Chunks(m) = 1 .. Pieces(m)
             /\ Stride * Pieces(m) < Lines(m) + Stride /\ Lines(m) - 1 < Stride * Pieces(m)
             /\ \A k \in 1 .. Pieces(m) : /\ L!Chunks(m)[k] = Begin(k) + 1 .. End(m, k)
                                       /\ Begin(k) \in Nat /\ End(m, k) \in Nat
  <2> DEFINE n == Lines(m)
             last == Pieces(m)
             upTo(k) == L!Min({n, (k - 1) * Stride + ChunkSize})
  <2>1. n + Stride - 1 \in Nat /\ n \in Nat /\ Stride \in Nat /\ Stride > 0 /\ ChunkSize \in Nat
    BY LinesAre
  <2>2. last \in Nat /\ Stride * last <= n + Stride - 1 /\ n + Stride - 1 < Stride * last + Stride
    BY <2>1, Quotient DEF Pieces
  <2>3. Stride * last \in Nat
    BY <2>1, <2>2
  <2>4. L!Chunks(m) = [k \in 1 .. last |-> (k - 1) * Stride + 1 .. upTo(k)]
    <3>1. ~(n <= Large)
      BY LinesAre, <1>3
    <3> QED BY <1>3, <3>1 DEF L!Chunks, L!Stride, Lines, Stride, Pieces
  <2> HIDE DEF last, n
  <2>5. Len(L!Chunks(m)) = last /\ DOMAIN L!Chunks(m) = 1 .. last
    BY <2>2, <2>4
  <2>6. ASSUME NEW k \in 1 .. last
        PROVE  upTo(k) = End(m, k) /\ (k - 1) * Stride = Begin(k) /\ Begin(k) \in Nat /\ End(m, k) \in Nat
    <3>1. k - 1 \in Nat
      BY <2>2
    <3>2. (k - 1) * Stride = Begin(k) /\ Begin(k) \in Nat
      BY <2>1, <3>1 DEF Begin
    <3> HIDE DEF upTo
    <3>3. upTo(k) = IF n <= Begin(k) + ChunkSize THEN n ELSE Begin(k) + ChunkSize
      BY <2>1, <3>2, LesserIs DEF upTo
    <3> QED BY <2>1, <3>2, <3>3 DEF End, n
  <2> HIDE DEF upTo
  <2>7. \A k \in 1 .. last : L!Chunks(m)[k] = (k - 1) * Stride + 1 .. upTo(k)
    BY <2>4
  <2>8. \A k \in 1 .. last : /\ L!Chunks(m)[k] = Begin(k) + 1 .. End(m, k)
                             /\ Begin(k) \in Nat /\ End(m, k) \in Nat
    BY <2>6, <2>7
  <2>9. Stride * last < n + Stride /\ n - 1 < Stride * last
    BY <2>1, <2>2, <2>3
  <2> QED BY <2>2, <2>5, <2>8, <2>9 DEF last, n
<1> QED BY <1>1, <1>2, <1>3

(***************************************************************************)
(* How many numbers there are after one and up to another.                 *)
(***************************************************************************)
LEMMA Between ==
  ASSUME NEW a \in Nat, NEW b \in Nat, a <= b
  PROVE  Cardinality(a + 1 .. b) = b - a /\ IsFiniteSet(a + 1 .. b)
<1> DEFINE c == a + 1
<1>1. c \in Int /\ b \in Int
  OBVIOUS
<1> HIDE DEF c
<1>2. Cardinality(c .. b) = (IF c > b THEN 0 ELSE b - c + 1) /\ IsFiniteSet(c .. b)
  BY <1>1, FS_Interval
<1> QED BY <1>2 DEF c

(***************************************************************************)
(* The last chunk begins before the diff ends.                             *)
(***************************************************************************)
LEMMA BeginsBefore ==
  ASSUME NEW stride \in Nat, NEW last \in Nat, NEW n \in Nat, NEW k \in 1 .. last, stride > 0,
         stride * last < n + stride
  PROVE  stride * (k - 1) < n /\ stride * (k - 1) \in Nat
<1> DEFINE x == stride * (last - 1)
           y == stride * (k - 1)
<1>1. k - 1 \in Nat /\ last - 1 \in Nat /\ k - 1 <= last - 1
  OBVIOUS
<1>2. y <= x /\ y \in Nat /\ x \in Nat
  BY <1>1, TimesKeepsOrder
<1>3. stride * last = x + stride
  BY <1>1
<1> HIDE DEF x, y
<1>4. y < n
  BY <1>2, <1>3
<1> QED BY <1>2, <1>4 DEF y

(***************************************************************************)
(* Each line lies within a stride of the beginning of some chunk.          *)
(***************************************************************************)
LEMMA OneChunkHas ==
  ASSUME NEW stride \in Nat, NEW last \in Nat, NEW n \in Nat, NEW i \in 1 .. n, stride > 0,
         n - 1 < stride * last
  PROVE  \E q \in Nat : q + 1 \in 1 .. last /\ stride * q \in Nat /\ stride * q < i /\ i <= stride * q + stride
<1> DEFINE q == (i - 1) \div stride
           x == stride * q
           y == stride * last
<1>1. i - 1 \in Nat
  OBVIOUS
<1>2. q \in Nat /\ x <= i - 1 /\ i - 1 < x + stride
  BY <1>1, Quotient
<1> HIDE DEF q
<1>3. x \in Nat /\ y \in Nat
  BY <1>2
<1>4. q < last
  <2> SUFFICES ASSUME last <= q PROVE FALSE
    BY <1>2
  <2>1. y <= x
    BY <1>2, TimesKeepsOrder
  <2>2. n - 1 < y
    OBVIOUS
  <2> HIDE DEF x, y
  <2> QED BY <1>2, <1>3, <2>1, <2>2
<1> HIDE DEF x, y
<1>5. q + 1 \in 1 .. last /\ x < i /\ i <= x + stride
  BY <1>2, <1>3, <1>4
<1> QED BY <1>2, <1>3, <1>5 DEF x

(***************************************************************************)
(* Chunks hold the lines of the merge and no other, and two that follow    *)
(* each other share ChunkOverlap lines, or all there are.                  *)
(***************************************************************************)
LEMMA ChunksCover ==
  ASSUME NEW m \in Merges
  PROVE  /\ Len(L!Chunks(m)) \in Nat /\ DOMAIN L!Chunks(m) = 1 .. Len(L!Chunks(m))
         /\ \A k \in DOMAIN L!Chunks(m) : L!Chunks(m)[k] \subseteq DOMAIN Diff(m)
         /\ \A i \in DOMAIN Diff(m) : \E k \in DOMAIN L!Chunks(m) : i \in L!Chunks(m)[k]
         /\ \A k \in 2 .. Len(L!Chunks(m)) :
              L!Cardinality(L!Chunks(m)[k - 1] \cap L!Chunks(m)[k])
                = L!Min({ChunkOverlap, L!Cardinality(L!Chunks(m)[k])})
<1> USE LinesAre
<1>1. CASE Lines(m) = 0
  BY <1>1, ChunksAre
<1>2. CASE Lines(m) # 0 /\ Lines(m) <= Large
  <2> DEFINE chunks == L!Chunks(m)
             n == Lines(m)
  <2>1. chunks = <<1 .. n>>
    BY <1>2, ChunksAre
  <2>2. DOMAIN Diff(m) = 1 .. n
    OBVIOUS
  <2> HIDE DEF chunks, n
  <2>3. Len(chunks) = 1 /\ DOMAIN chunks = 1 .. 1 /\ chunks[1] = 1 .. n
    BY ONLY <2>1
  <2>4. Len(chunks) \in Nat /\ DOMAIN chunks = 1 .. Len(chunks)
    BY ONLY <2>3
  <2>5. \A k \in DOMAIN chunks : chunks[k] \subseteq DOMAIN Diff(m)
    <3>1. \A k \in DOMAIN chunks : k = 1
      BY ONLY <2>3
    <3> QED BY ONLY <2>2, <2>3, <3>1
  <2>6. \A i \in DOMAIN Diff(m) : \E k \in DOMAIN chunks : i \in chunks[k]
    <3>1. 1 \in DOMAIN chunks
      BY ONLY <2>3
    <3> QED BY ONLY <2>2, <2>3, <3>1
  <2>7. \A k \in 2 .. Len(chunks) : FALSE
    BY ONLY <2>3
  <2> QED BY ONLY <2>4, <2>5, <2>6, <2>7 DEF chunks
<1>3. CASE Lines(m) # 0 /\ Lines(m) > Large
  <2> DEFINE n == Lines(m)
             last == Pieces(m)
             chunks == L!Chunks(m)
             upTo(b) == IF n <= b THEN n ELSE b
  <2>1. /\ last \in Nat /\ Len(chunks) = last /\ DOMAIN chunks = 1 .. last
        /\ Stride * last < n + Stride /\ n - 1 < Stride * last
        /\ \A k \in 1 .. last : Begin(k) \in Nat /\ chunks[k] = Begin(k) + 1 .. upTo(Begin(k) + ChunkSize)
    BY <1>3, ChunksAre DEF End
  <2>2. /\ n \in Nat /\ DOMAIN Diff(m) = 1 .. n
        /\ Stride \in Nat /\ Stride > 0 /\ Stride + ChunkOverlap = ChunkSize
        /\ ChunkSize \in Nat /\ ChunkOverlap \in Nat
    OBVIOUS
  <2> HIDE DEF n, last, chunks
  <2>3. ASSUME NEW k \in 1 .. last
        PROVE  chunks[k] \subseteq 1 .. n
    <3> DEFINE a == Begin(k)
    <3>1. a \in Nat /\ chunks[k] = a + 1 .. upTo(a + ChunkSize)
      BY <2>1
    <3> HIDE DEF a
    <3>2. upTo(a + ChunkSize) <= n
      BY <2>2, <3>1
    <3> DEFINE e == upTo(a + ChunkSize)
    <3>3. e \in Nat /\ e <= n /\ chunks[k] = a + 1 .. e
      BY <2>2, <3>1, <3>2
    <3> HIDE DEF e
    <3> QED BY <2>2, <3>1, <3>3
  <2>4. ASSUME NEW i \in 1 .. n
        PROVE  \E k \in 1 .. last : i \in chunks[k]
    <3>1. PICK q \in Nat : q + 1 \in 1 .. last /\ Stride * q \in Nat /\ Stride * q < i /\ i <= Stride * q + Stride
      BY <2>1, <2>2, OneChunkHas
    <3> DEFINE a == Stride * q
    <3>2. a \in Nat /\ a < i /\ i <= a + Stride
      BY <3>1
    <3>3. chunks[q + 1] = a + 1 .. upTo(a + ChunkSize)
      <4>1. (q + 1) - 1 = q
        OBVIOUS
      <4> QED BY <2>1, <3>1, <4>1 DEF Begin
    <3> HIDE DEF a
    <3>4. i \in chunks[q + 1]
      <4>1. i <= upTo(a + ChunkSize) /\ upTo(a + ChunkSize) \in Nat
        BY <2>2, <2>4, <3>2
      <4> HIDE DEF upTo
      <4> QED BY <2>2, <3>2, <3>3, <4>1
    <3> QED BY <3>1, <3>4
  <2>5. ASSUME NEW k \in 2 .. last
        PROVE  L!Cardinality(chunks[k - 1] \cap chunks[k])
                 = L!Min({ChunkOverlap, L!Cardinality(chunks[k])})
    <3> DEFINE a == Begin(k)
    <3>1. k \in 1 .. last /\ k - 1 \in 1 .. last
      BY <2>1
    <3>2. a \in Nat /\ a < n
      BY <2>1, <2>2, <3>1, BeginsBefore DEF Begin
    <3>3. Begin(k - 1) = a - Stride
      <4>1. (k - 1) - 1 \in Nat /\ k - 1 = ((k - 1) - 1) + 1
        BY <2>1
      <4>2. \A j \in Nat : Stride * (j + 1) = Stride * j + Stride /\ Stride * j \in Nat
        BY <2>2
      <4>3. Stride * (k - 1) = Stride * ((k - 1) - 1) + Stride /\ Stride * ((k - 1) - 1) \in Nat
        BY <4>1, <4>2
      <4> DEFINE x == Stride * (k - 1)
                 y == Stride * ((k - 1) - 1)
      <4>4. x = y + Stride /\ y \in Nat
        BY <4>3
      <4> HIDE DEF x, y
      <4>5. y = x - Stride
        BY <2>2, <4>4
      <4> QED BY <4>5 DEF x, y, Begin
    <3>4. chunks[k] = a + 1 .. upTo(a + ChunkSize) /\ chunks[k - 1] = a - Stride + 1 .. upTo(a - Stride + ChunkSize)
      BY <2>1, <3>1, <3>3
    <3> HIDE DEF a
    <3> DEFINE shared == upTo(a - Stride + ChunkSize)
               end == upTo(a + ChunkSize)
               first == a - Stride + 1
    <3>5. /\ first \in Int /\ shared \in Nat /\ end \in Nat
          /\ first <= a + 1 /\ a <= shared /\ shared <= end
          /\ a + ChunkOverlap <= end => shared = a + ChunkOverlap
          /\ ~(a + ChunkOverlap <= end) => shared = end
      BY <2>2, <3>2
    <3>6. chunks[k] = a + 1 .. end /\ chunks[k - 1] = first .. shared
      BY <3>4
    <3> HIDE DEF shared, end, first
    <3>7. chunks[k - 1] \cap chunks[k] = a + 1 .. shared
      <4>1. first .. shared = {x \in Int : first <= x /\ x <= shared}
        BY <3>5
      <4>2. \A x \in a + 1 .. end : x \in Int /\ first <= x
        BY <3>2, <3>5
      <4>3. \A x \in a + 1 .. shared : x \in a + 1 .. end /\ x <= shared
        BY <3>2, <3>5
      <4>4. \A x \in a + 1 .. end : x <= shared => x \in a + 1 .. shared
        BY <3>2, <3>5
      <4> QED BY <3>6, <4>1, <4>2, <4>3, <4>4
    <3> DEFINE size == end - a
               both == shared - a
    <3>8. L!Cardinality(chunks[k]) = size
      BY <3>2, <3>5, <3>6, Between, LearningCounts
    <3>9. L!Cardinality(chunks[k - 1] \cap chunks[k]) = both
      BY <3>2, <3>5, <3>7, Between, LearningCounts
    <3>10. size \in Int /\ ChunkOverlap \in Int /\ both = (IF ChunkOverlap <= size THEN ChunkOverlap ELSE size)
      BY <2>2, <3>2, <3>5
    <3> HIDE DEF size, both
    <3>11. L!Min({ChunkOverlap, size}) = both
      BY <3>10, LesserIs
    <3> QED BY <3>8, <3>9, <3>11
  <2> QED BY <2>1, <2>2, <2>3, <2>4, <2>5 DEF chunks
<1> QED BY <1>1, <1>2, <1>3

(***************************************************************************)
(* Each added line of a diff is among its symbols, at its line.            *)
(***************************************************************************)
LEMMA SymbolsHold ==
  ASSUME NEW m \in Merges
  PROVE  /\ Len(L!Symbols(m)) \in Nat /\ DOMAIN L!Symbols(m) = 1 .. Len(L!Symbols(m))
         /\ \A i \in DOMAIN Diff(m) : Diff(m)[i] = "+" =>
              \E k \in DOMAIN L!Symbols(m) : L!Symbols(m)[k][1] = L!LineAt(m, i)
<1> DEFINE added == {i \in DOMAIN Diff(m) : Diff(m)[i] = "+"}
           recordedAt(i) == L!LineAt(m, L!Min(added)) + L!Cardinality({j \in added : j < i})
           symbol(i) == <<L!LineAt(m, i), recordedAt(i)>>
           place(i) == L!Cardinality({j \in added : j <= i})
           size == L!Cardinality(added)
<1>1. L!Symbols(m) = [k \in 1 .. size |-> symbol(CHOOSE i \in added : place(i) = k)]
  BY DEF L!Symbols
<1>2. added \in SUBSET Nat /\ IsFiniteSet(added) /\ size \in Nat
  <2>1. DOMAIN Diff(m) \subseteq Nat /\ IsFiniteSet(DOMAIN Diff(m))
    <3> DEFINE n == Lines(m)
    <3>1. n \in Nat /\ DOMAIN Diff(m) = 1 .. n
      BY LinesAre
    <3> HIDE DEF n
    <3>2. IsFiniteSet(1 .. n)
      BY <3>1, FS_Interval
    <3>3. 1 .. n \subseteq Nat
      BY <3>1
    <3> QED BY <3>1, <3>2, <3>3
  <2>2. added \subseteq DOMAIN Diff(m)
    OBVIOUS
  <2> HIDE DEF added
  <2>3. IsFiniteSet(added) /\ Cardinality(added) \in Nat
    BY <2>1, <2>2, FS_Subset, FS_CardinalityType
  <2> QED BY <2>1, <2>2, <2>3, LearningCounts
<1>3. \A i \in DOMAIN Diff(m) : Diff(m)[i] = "+" <=> i \in added
  OBVIOUS
<1> HIDE DEF added, recordedAt
<1>4. \A i \in added : place(i) \in 1 .. size /\ \A k \in added : place(k) = place(i) => k = i
  BY <1>2, Placed, LearningCounts
<1> HIDE DEF place, size
<1>5. ASSUME NEW i \in added
      PROVE  \E k \in 1 .. size : L!Symbols(m)[k] = symbol(i)
  <2> DEFINE k == place(i)
  <2>1. (CHOOSE j \in added : place(j) = k) = i
    BY <1>4
  <2>2. k \in 1 .. size
    BY <1>4
  <2> HIDE DEF k
  <2>3. L!Symbols(m)[k] = symbol(i)
    BY <1>1, <2>1, <2>2
  <2> QED BY <2>2, <2>3
<1>6. Len(L!Symbols(m)) = size /\ DOMAIN L!Symbols(m) = 1 .. size
  BY <1>1, <1>2
<1>7. \A i : symbol(i)[1] = L!LineAt(m, i)
  OBVIOUS
<1> HIDE DEF symbol
<1> QED BY <1>2, <1>3, <1>5, <1>6, <1>7

\* What of a merge was passed was stored, unless it is among those that miss something.
Stored(m) ==
  /\ \A k \in DOMAIN L!Chunks(m) : k < merge[m].at => L!Kept(history, L!ChunkOf(m, k))
  /\ \A k \in DOMAIN L!Symbols(m) :
       Len(L!Chunks(m)) + k < merge[m].at => L!Kept(learningPatterns, L!SymbolOf(m, k))
  /\ merge[m].step = "over" => merge[m].at > Len(L!Chunks(m)) + Len(L!Symbols(m))
Storing ==
  /\ merge \in [Merges -> [step : {"new", "index", "over"}, at : Nat \ {0}]]
  /\ \A m \in Merges : merge[m].step = "new" => merge[m].at = 1
  /\ \A m \in Merges : merge[m].step # "new" /\ m \notin missed => Stored(m)

(***************************************************************************)
(* What was passed and stored, to the end, is the whole.                   *)
(***************************************************************************)
LEMMA StoringIsWhole == Storing => L!MergesAreWhole
<1> SUFFICES ASSUME Storing, NEW m \in Merges, merge[m].step = "over", m \notin missed
             PROVE  /\ \A i \in DOMAIN Diff(m) : \E k \in DOMAIN L!Chunks(m) :
                         i \in L!Chunks(m)[k] /\ L!Kept(history, L!ChunkOf(m, k))
                    /\ \A k \in 2 .. Len(L!Chunks(m)) :
                         L!Cardinality(L!Chunks(m)[k - 1] \cap L!Chunks(m)[k])
                           = L!Min({ChunkOverlap, L!Cardinality(L!Chunks(m)[k])})
                    /\ \A i \in DOMAIN Diff(m) : Diff(m)[i] = "+" => \E k \in DOMAIN L!Symbols(m) :
                         /\ L!Symbols(m)[k][1] = L!LineAt(m, i)
                         /\ L!Kept(learningPatterns, L!SymbolOf(m, k))
  BY DEF L!MergesAreWhole
<1> DEFINE chunks == L!Chunks(m)
           symbols == L!Symbols(m)
<1>1. merge[m].at \in Nat /\ merge[m].at > Len(chunks) + Len(symbols) /\ Stored(m)
  BY DEF Storing, Stored
<1>2. Len(chunks) \in Nat /\ DOMAIN chunks = 1 .. Len(chunks)
  BY ChunksCover
<1>3. Len(symbols) \in Nat /\ DOMAIN symbols = 1 .. Len(symbols)
  BY SymbolsHold
<1>4. \A k \in DOMAIN chunks : L!Kept(history, L!ChunkOf(m, k))
  <2>1. \A k \in DOMAIN chunks : k < merge[m].at
    <3> HIDE DEF chunks, symbols
    <3> QED BY <1>1, <1>2, <1>3
  <2> QED BY <1>1, <2>1 DEF Stored
<1>5. \A k \in DOMAIN symbols : L!Kept(learningPatterns, L!SymbolOf(m, k))
  <2>1. \A k \in DOMAIN symbols : Len(chunks) + k < merge[m].at
    <3> HIDE DEF chunks, symbols
    <3> QED BY <1>1, <1>2, <1>3
  <2> QED BY <1>1, <2>1 DEF Stored
<1> QED BY <1>4, <1>5, ChunksCover, SymbolsHold

(***************************************************************************)
(* An upsert keeps its item, and each other one or its point.              *)
(***************************************************************************)
LEMMA PutKeeps ==
  ASSUME NEW items, NEW item
  PROVE  /\ L!Kept(L!Put(items, item), item)
         /\ \A other : L!Kept(items, other) => L!Kept(L!Put(items, item), other)
BY DEF L!Kept, L!Put

(***************************************************************************)
(* However Qdrant comes and goes, collections are dropped and created and  *)
(* the process restarts, a merge indexed with nothing passed over is       *)
(* stored whole: its chunks hold each line, overlap as they should, and    *)
(* they and its symbols are kept, or replaced by items of the same ids     *)
(* (MergesAreWhole).                                                       *)
(***************************************************************************)
THEOREM MergesAlwaysWhole == L!Spec => []L!MergesAreWhole
<1>1. L!Init => Storing
  BY DEF L!Init, L!NoMerge, Storing
<1>2. Storing /\ [L!Next]_L!vars => Storing'
  <2> SUFFICES ASSUME Storing, [L!Next]_L!vars PROVE Storing'
    OBVIOUS
  <2>1. CASE UNCHANGED <<merge, missed, history, learningPatterns>>
    BY <2>1 DEF Storing, Stored
  <2>2. CASE L!Restart
    <3>1. UNCHANGED <<history, learningPatterns>>
      BY <2>2 DEF L!Restart, L!store
    <3>2. merge' \in [Merges -> [step : {"new", "index", "over"}, at : Nat \ {0}]]
      BY <2>2 DEF L!Restart, L!NoMerge, Storing
    <3>3. \A m \in Merges : merge[m].step # "index" => merge'[m] = merge[m] /\ (m \notin missed' => m \notin missed)
      BY <2>2 DEF L!Restart, Storing
    <3>4. \A m \in Merges : merge[m].step = "index" => merge'[m].step = "over" /\ m \in missed'
      BY <2>2 DEF L!Restart, L!NoMerge, Storing
    <3> QED BY <3>1, <3>2, <3>3, <3>4 DEF Storing, Stored
  <2>3. ASSUME NEW m \in Merges, L!Fetched(m)
        PROVE  Storing'
    <3>1. UNCHANGED <<history, learningPatterns>> /\ merge[m].step = "new" /\ merge[m].at = 1
      BY <2>3 DEF L!Fetched, L!store, Storing
    <3>2. \/ merge' = [merge EXCEPT ![m].step = "index"] /\ UNCHANGED missed
          \/ merge' = [merge EXCEPT ![m].step = "over"] /\ missed' = missed \cup {m}
      BY <2>3 DEF L!Fetched
    <3>3. merge' \in [Merges -> [step : {"new", "index", "over"}, at : Nat \ {0}]]
      BY <3>2 DEF Storing
    <3>4. \A n \in Merges : n # m => merge'[n] = merge[n] /\ (n \notin missed' => n \notin missed)
      BY <3>2 DEF Storing
    <3>5. merge'[m].at = 1 /\ merge'[m].step # "new" /\ (m \notin missed' => merge'[m].step = "index")
      BY <3>1, <3>2 DEF Storing
    <3>6. m \notin missed' => Stored(m)'
      <4>1. \A k \in DOMAIN L!Chunks(m) : k \in Nat /\ k >= 1
        BY ChunksCover
      <4>2. Len(L!Chunks(m)) \in Nat /\ \A k \in DOMAIN L!Symbols(m) : k \in Nat /\ k >= 1
        BY ChunksCover, SymbolsHold
      <4> QED BY <3>5, <4>1, <4>2 DEF Stored
    <3> QED BY <3>1, <3>3, <3>4, <3>5, <3>6 DEF Storing, Stored
  <2>4. ASSUME NEW m \in Merges, L!Indexed(m)
        PROVE  Storing'
    <3>1. UNCHANGED <<history, learningPatterns, missed>> /\ merge[m].step = "index"
          /\ merge[m].at - Len(L!Chunks(m)) > Len(L!Symbols(m))
          /\ merge' = [merge EXCEPT ![m].step = "over"]
      BY <2>4 DEF L!Indexed, L!AtSymbol, L!store
    <3>2. merge' \in [Merges -> [step : {"new", "index", "over"}, at : Nat \ {0}]]
      BY <3>1 DEF Storing
    <3>3. /\ \A n \in Merges : n # m => merge'[n] = merge[n]
          /\ merge'[m].at = merge[m].at /\ merge'[m].step = "over"
      BY <3>1 DEF Storing
    <3>4. merge'[m].at > Len(L!Chunks(m)) + Len(L!Symbols(m))
      <4>1. Len(L!Chunks(m)) \in Nat /\ Len(L!Symbols(m)) \in Nat /\ merge[m].at \in Nat
        BY ChunksCover, SymbolsHold DEF Storing
      <4> QED BY <3>1, <3>3, <4>1
    <3> QED BY <3>1, <3>2, <3>3, <3>4 DEF Storing, Stored
  <2>5. ASSUME NEW m \in Merges, L!IndexChunk(m) \/ L!IndexSymbol(m)
        PROVE  Storing'
    <3>1. /\ merge[m].step = "index" /\ merge' = [merge EXCEPT ![m].at = @ + 1]
          /\ missed \subseteq missed'
          /\ \A item : L!Kept(history, item) => L!Kept(history', item)
          /\ \A item : L!Kept(learningPatterns, item) => L!Kept(learningPatterns', item)
      BY <2>5, PutKeeps DEF L!IndexChunk, L!IndexSymbol, L!AtChunk, L!Pass
    <3>2. merge' \in [Merges -> [step : {"new", "index", "over"}, at : Nat \ {0}]]
      BY <3>1 DEF Storing
    <3>3. /\ \A n \in Merges : n # m => merge'[n] = merge[n]
          /\ merge'[m].at = merge[m].at + 1 /\ merge'[m].step = "index" /\ merge[m].at \in Nat
      BY <3>1 DEF Storing
    <3>5. m \notin missed' => Stored(m)'
      <4> SUFFICES ASSUME m \notin missed' PROVE Stored(m)'
        OBVIOUS
      <4> DEFINE chunks == L!Chunks(m)
                 symbols == L!Symbols(m)
                 at == merge[m].at
      <4>1. Stored(m) /\ m \notin missed
        BY <3>1 DEF Storing
      <4>2. \/ at <= Len(chunks) /\ L!Kept(history', L!ChunkOf(m, at))
            \/ /\ at - Len(chunks) \in DOMAIN symbols
               /\ L!Kept(learningPatterns', L!SymbolOf(m, at - Len(chunks)))
        BY <2>5, PutKeeps DEF L!IndexChunk, L!IndexSymbol, L!AtChunk, L!AtSymbol, L!Pass
      <4>3. /\ Len(chunks) \in Nat /\ DOMAIN chunks = 1 .. Len(chunks)
            /\ Len(symbols) \in Nat /\ DOMAIN symbols = 1 .. Len(symbols)
        BY ChunksCover, SymbolsHold
      <4>4. /\ \A k \in DOMAIN chunks : k < at => L!Kept(history', L!ChunkOf(m, k))
            /\ \A k \in DOMAIN symbols : Len(chunks) + k < at =>
                 L!Kept(learningPatterns', L!SymbolOf(m, k))
        BY <3>1, <4>1 DEF Stored
      <4>5. at \in Nat
        BY <3>3
      <4> HIDE DEF chunks, symbols, at
      <4>6. \A k \in DOMAIN chunks : k < at + 1 => L!Kept(history', L!ChunkOf(m, k))
        <5> SUFFICES ASSUME NEW k \in DOMAIN chunks, k < at + 1
                     PROVE  L!Kept(history', L!ChunkOf(m, k))
          OBVIOUS
        <5>1. k < at \/ k = at
          BY <4>3, <4>5
        <5>2. k = at => ~(at - Len(chunks) \in DOMAIN symbols)
          BY <4>3, <4>5
        <5> QED BY <4>2, <4>4, <5>1, <5>2
      <4>7. \A k \in DOMAIN symbols : Len(chunks) + k < at + 1 =>
                 L!Kept(learningPatterns', L!SymbolOf(m, k))
        <5> SUFFICES ASSUME NEW k \in DOMAIN symbols, Len(chunks) + k < at + 1
                     PROVE  L!Kept(learningPatterns', L!SymbolOf(m, k))
          OBVIOUS
        <5>1. Len(chunks) + k < at \/ k = at - Len(chunks)
          BY <4>3, <4>5
        <5>2. k = at - Len(chunks) => ~(at <= Len(chunks))
          BY <4>3, <4>5
        <5> QED BY <4>2, <4>4, <5>1, <5>2
      <4> QED BY <3>3, <4>6, <4>7 DEF Stored, chunks, symbols, at
    <3>6. \A n \in Merges : n # m /\ n \notin missed' /\ merge'[n].step # "new" => Stored(n)'
      <4> SUFFICES ASSUME NEW n \in Merges, n # m, n \notin missed', merge'[n].step # "new"
                   PROVE  Stored(n)'
        OBVIOUS
      <4>1. merge'[n] = merge[n] /\ Stored(n)
        BY <3>1, <3>3 DEF Storing
      <4> QED BY <3>1, <4>1 DEF Stored
    <3>7. \A n \in Merges : merge'[n].step = "new" => merge'[n].at = 1
      BY <3>3 DEF Storing
    <3> QED BY <3>2, <3>3, <3>5, <3>6, <3>7 DEF Storing
  <2> QED
    BY <2>1, <2>2, <2>3, <2>4, <2>5 DEF L!Next, L!MergeNext, L!ReplyNext, L!Around, L!vars, L!LookAt, L!Ensure, L!Reach, L!Search,
       L!Record, L!Apply, L!store
<1> QED BY <1>1, <1>2, StoringIsWhole, PTL DEF L!Spec

-----------------------------------------------------------------------------
\* What the runs check.

(***************************************************************************)
(* However evaluations of one pull request overlap, of one head one        *)
(* approval is in flight, and within the window of a claim one review is   *)
(* rescued.                                                                *)
(***************************************************************************)
THEOREM OneApprovalAlways ==
  ASSUME Registered \in BOOLEAN
  PROVE  G!Spec => []OneApprovalInFlight
BY OneApprovalAtATime, RescuedAtMostOnce, PTL DEF OneApprovalInFlight

(***************************************************************************)
(* Whatever fails between a webhook and a store, a merge passed over       *)
(* nowhere is stored whole, the learnings count each reply recorded, and a *)
(* review is given the best that fits its budget.                          *)
(***************************************************************************)
THEOREM LessonsAlwaysWhole == L!Spec /\ S!Spec => []LessonsAreWhole
BY MergesAlwaysWhole, CountsAlwaysReplies, BestAlwaysKept, PTL DEF LessonsAreWhole

(***************************************************************************)
(* Whatever is pushed, approved or merged between two answers of GitHub,   *)
(* what a survey claims was so at some time of its reads; a structural     *)
(* pass is called optional only for a change that is small in both reads;  *)
(* and lessons are whole.                                                  *)
(***************************************************************************)
THEOREM ReviewsAlwaysKnow == Y!Spec /\ S!Spec /\ L!Spec => []ReviewsKnow
BY SurveysAreTrue, OptionalIsAlwaysSmall, LessonsAlwaysWhole, PTL DEF ReviewsKnow

=============================================================================
