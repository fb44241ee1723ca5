---------------------------- MODULE RepoSurveys ----------------------------
(***************************************************************************)
(* The surveys of src/api/github.ts: CI health, pull requests, branch      *)
(* drift and protection, open issues, recent activity.  Each is many reads *)
(* of a repository, of which any may fail, while commits, checks and       *)
(* reviews go on; alerts and agents act on what it claims.  One repository *)
(* with one pull request, and of it only the facts the survey asks for.    *)
(***************************************************************************)
EXTENDS Naturals, Sequences, FiniteSets

CONSTANTS
  Reviewers, MaxPushes,
  ReviewPage,  \* how many reviews, the oldest, one request brings (30)
  MaxReviews   \* bound: reviews of the pull request

Heads == 1 .. MaxPushes + 1
Surveys == {"ci", "pipeline", "drift", "protection", "issues", "activity"}

VARIABLES
  survey,                 \* the survey that is run
  head,                   \* the pull request: its commits
  checks,                 \* how the check runs of each went, of those that one page holds (50)
  reviews,                \* its reviews, the oldest first: by whom and what they say
  facts,                  \* the other facts that hold
  listed,                 \* the head the survey listed, 0 before
  reads,                  \* what it has read: whether each fact was found to hold
  since,                  \* the facts that held at some moment since it began
  claim                   \* what it reports: "yes", "no", "skipped", or "none" yet

vars == <<survey, head, checks, reviews, facts, listed, reads, since, claim>>

Init ==
  /\ survey \in Surveys
  /\ head = 1 /\ checks = [h \in Heads |-> "running"] /\ reviews = <<>>
  /\ facts = {} /\ listed = 0 /\ reads = <<>> /\ since = {} /\ claim = "none"

\* What the survey asks for, in order: the fact that counts for its claim.
Asks ==
  CASE survey = "ci" -> <<"runs", "meta", "redMain">>
    [] survey = "pipeline" -> <<"undrafted", "clean", "passed", "approved">>
    [] survey = "drift" -> <<"meta", "devAhead", "stagingBehind">>
    [] survey = "protection" -> <<"meta", "rulesets", "ruled">>
    [] survey = "issues" -> <<"openIssue">>
    [] OTHER -> <<"merged", "released">>

\* The latest review of each reviewer counts, comments left aside; one that was
\* dismissed counts for nothing, and so does what it replaced.
Latest(rs, i) == rs[i].says # "comment" /\ \A j \in DOMAIN rs : j > i /\ rs[j].by = rs[i].by => rs[j].says = "comment"
Decision(rs) == {rs[i].says : i \in {k \in DOMAIN rs : Latest(rs, k)}}
Approves(rs) == "approve" \in Decision(rs) /\ "changes" \notin Decision(rs)

\* Only the first page of reviews is asked for, and GitHub lists the oldest first.
FirstPage(rs) == [i \in {k \in DOMAIN rs : k <= ReviewPage} |-> rs[i]]

\* No run of the page is under way, failed, timed out or asks for action: one that
\* was cancelled, is stale or did not start up counts as passed.
Passes(h) == checks[h] \in {"success", "cancelled"}

\* The check runs asked for are those of the head that was listed.
CurrentHead == head
ListedHead == listed

Holds(f) ==
  CASE f = "passed" -> Passes(ListedHead)
    [] f = "approved" -> Approves(FirstPage(reviews))
    [] f \in {"runs", "meta", "rulesets"} -> TRUE
    [] OTHER -> f \in facts

\* What is so: of the checks, that they passed on the head the survey listed.
IsSo(f) ==
  CASE f = "passed" -> listed # 0 /\ Passes(listed)
    [] f = "approved" -> Approves(reviews)
    [] OTHER -> f \in facts

\* What is so while the survey runs is remembered.
Remembers == since' = since \cup {f \in {Asks[i] : i \in DOMAIN Asks} : IsSo(f)'}

\* A read that throws leaves its fact at the default, which claims nothing.  CI
\* health and protection read no further then.
Without ==
  IF survey \in {"ci", "protection"} THEN [i \in DOMAIN Asks |-> i <= Len(reads) /\ reads[i]]
  ELSE Append(reads, FALSE)

Read ==
  /\ claim = "none" /\ Len(reads) < Len(Asks)
  /\ LET f == Asks[Len(reads) + 1]
     IN \/ reads' = Append(reads, Holds(f)) /\ listed' = (IF reads = <<>> THEN head ELSE listed)
        \/ (reads # <<>> \/ survey = "activity") /\ reads' = Without /\ UNCHANGED listed
  /\ UNCHANGED <<survey, head, checks, reviews, facts, claim>> /\ Remembers

\* The first read takes the repository along, in every survey but the last.
Unreachable ==
  /\ claim = "none" /\ reads = <<>> /\ survey # "activity"
  /\ claim' = IF survey \in {"pipeline", "issues"} THEN "skipped" ELSE "no"
  /\ UNCHANGED <<survey, head, checks, reviews, facts, listed, reads, since>>

\* A default branch that is red, branches that drifted, a ruleset that covers
\* the default branch: the last read tells.
CiHealth == reads[3]
BranchDrift == reads[2] \/ reads[3]
BranchProtection == reads[3]
GithubIssues == reads[1]
\* readyToMerge: no draft, mergeable, checks passed and an approval.
PrPipeline == \A i \in DOMAIN reads : reads[i]
\* Releases and merges are told of whether the other could be read or not.
RecentActivity == \E i \in DOMAIN reads : reads[i]

Answer ==
  /\ claim = "none" /\ Len(reads) = Len(Asks)
  /\ LET yes == CASE survey = "ci" -> CiHealth [] survey = "pipeline" -> PrPipeline
                  [] survey = "drift" -> BranchDrift [] survey = "protection" -> BranchProtection
                  [] survey = "issues" -> GithubIssues [] OTHER -> RecentActivity
     IN claim' = IF yes THEN "yes" ELSE "no"
  /\ UNCHANGED <<survey, head, checks, reviews, facts, listed, reads, since>>

\* The repository meanwhile.
\* A push may bring conflicts, or solve them.
Push ==
  /\ survey = "pipeline" /\ head <= MaxPushes /\ head' = head + 1
  /\ facts' \in {facts \cup {"clean"}, facts \ {"clean"}} /\ UNCHANGED <<checks, reviews>>
\* A check ends, or is run again.
Check ==
  /\ survey = "pipeline" /\ UNCHANGED <<head, reviews, facts>>
  /\ \E h \in 1 .. head, s \in {"running", "success", "failure", "cancelled"} :
       (checks[h] = "running") # (s = "running") /\ checks' = [checks EXCEPT ![h] = s]
Review ==
  /\ survey = "pipeline" /\ Len(reviews) < MaxReviews /\ UNCHANGED <<head, checks, facts>>
  /\ \E p \in Reviewers, s \in {"approve", "changes", "comment"} :
       reviews' = Append(reviews, [by |-> p, says |-> s])
Dismiss ==
  /\ survey = "pipeline" /\ UNCHANGED <<head, checks, facts>>
  /\ \E i \in DOMAIN reviews :
       /\ reviews[i].says \in {"approve", "changes"}
       /\ reviews' = [reviews EXCEPT ![i].says = "dismissed"]
Change ==
  /\ \E f \in {Asks[i] : i \in DOMAIN Asks} \ {"passed", "approved", "runs", "meta", "rulesets"} :
       facts' = IF f \in facts THEN facts \ {f} ELSE facts \cup {f}
  /\ UNCHANGED <<head, checks, reviews>>

World ==
  /\ claim = "none" /\ UNCHANGED <<survey, listed, reads, claim>>
  /\ (Push \/ Check \/ Review \/ Dismiss \/ Change) /\ Remembers

Next == Read \/ Unreachable \/ Answer \/ World
Spec == Init /\ [][Next]_vars

-----------------------------------------------------------------------------
TypeOK ==
  /\ survey \in Surveys /\ head \in Heads /\ listed \in 0 .. MaxPushes + 1
  /\ checks \in [Heads -> {"running", "success", "failure", "cancelled"}]
  /\ reviews \in Seq([by : Reviewers, says : {"approve", "changes", "comment", "dismissed"}])
  /\ reads \in Seq(BOOLEAN) /\ Len(reads) <= Len(Asks)
  /\ claim \in {"none", "yes", "no", "skipped"}

\* A survey's reads are made at different moments, and yet it claims nothing that was
\* not so at some moment of it: a pull request said to be ready (src/api/github.ts:247)
\* was no draft, merged cleanly, passed the checks of the head it is named with, those
\* cancelled (:217) aside, and was approved; a red main was red, a drift was there.
\* Two things it does not know: of check runs beyond the first fifty (:211) nothing is
\* said here, and a pull request with more reviews than a page (:229) may be called
\* ready against the later ones.
ClaimsWereSo ==
  claim = "yes" =>
    /\ survey = "pipeline" =>
         /\ {"undrafted", "clean", "passed"} \subseteq since
         /\ "approved" \in since \/ Len(reviews) > ReviewPage
    /\ survey \in {"ci", "protection", "issues"} => Asks[Len(Asks)] \in since
    /\ survey \in {"drift", "activity"} => since # {}

=============================================================================
