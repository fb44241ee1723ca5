----------------------------- MODULE ReviewWork -----------------------------
(***************************************************************************)
(* The pull-request review pipeline: approvals (GitHubReview), surveys of  *)
(* a repository (RepoSurveys), what a review reads (DiffSummary) and what  *)
(* it leaves behind (ReviewLearning). They share no state; each keeps its  *)
(* constants here.                                                         *)
(***************************************************************************)
EXTENDS Integers, Sequences, FiniteSets

CONSTANTS
  Hooks, SweepEval, Runs, Registered,  \* see GitHubReview
  Reviewers, SurveyPushes, ReviewPage, MaxReviews,  \* see RepoSurveys
  SummaryPushes, Changes(_), ManyFiles, ManyLines, Files(_), SymbolsIn(_), MaxFiles, MaxSymbols,
  Decisions(_), Patterns(_), Size(_), Alike(_), Budget,  \* see DiffSummary
  Merges, Diff(_), Large, ChunkSize, ChunkOverlap, ChunkPoint(_, _), SymbolPoint(_, _), Replies,
  LearningStarts  \* see ReviewLearning

VARIABLES
  status, ci, latest, autoMerge, claimed, watch, rescued, covered, eval, run, reviewed,
  inspected, quiet,
  survey, head, checks, reviews, facts, listed, reads, since, claim,
  summaryHead, step, counted, seen, asked, decisions, patterns, context,
  up, collection, boot, starts, merge, missed, history, learningPatterns, reply, points, shown,
  recorded, muddled

\* The bounds are counts.
ASSUME PushesAreCounted == SurveyPushes \in Nat /\ SummaryPushes \in Nat /\ ReviewPage \in Nat
\* What GitHub says of a head is how many files and lines it changes.
ASSUME ChangesAreCounted ==
  /\ ManyFiles \in Nat /\ ManyLines \in Nat
  /\ \A h \in 0 .. SummaryPushes :
       Changes(h) \in [files : Nat, lines : Nat, sensitive : BOOLEAN]
\* What a head has of files and symbols is listed, and what was found for them can be counted.
ASSUME LessonsAreCounted ==
  /\ MaxFiles \in Nat /\ MaxSymbols \in Nat /\ Budget \in Nat
  /\ \A h \in 0 .. SummaryPushes :
       /\ Files(h) \in Seq({Files(h)[k] : k \in DOMAIN Files(h)})
       /\ SymbolsIn(h) \in Seq({SymbolsIn(h)[k] : k \in DOMAIN SymbolsIn(h)})
       /\ \A k \in DOMAIN Files(h) :
            /\ IsFiniteSet(Decisions(Files(h)[k]))
            /\ \A d \in Decisions(Files(h)[k]) : Size(d) \in Nat
       /\ \A k \in DOMAIN SymbolsIn(h) :
            /\ IsFiniteSet(Patterns(SymbolsIn(h)[k]))
            /\ \A p \in Patterns(SymbolsIn(h)[k]) : Size(p) \in Nat /\ Alike(p) \in Nat
\* Chunks overlap by less than they are long, and a diff is a sequence of lines.
ASSUME MergesAreCounted ==
  /\ Large \in Nat /\ ChunkSize \in Nat /\ ChunkOverlap \in Nat /\ ChunkOverlap < ChunkSize
  /\ \A m \in Merges : Diff(m) \in Seq({"+", "-", " "})

G == INSTANCE GitHubReview WITH Sweep <- SweepEval
Y == INSTANCE RepoSurveys WITH MaxPushes <- SurveyPushes
S == INSTANCE DiffSummary WITH
       MaxPushes <- SummaryPushes, Symbols <- SymbolsIn, Score <- Alike, head <- summaryHead
L == INSTANCE ReviewLearning WITH MaxStarts <- LearningStarts, patterns <- learningPatterns

-----------------------------------------------------------------------------
\* What stands as approved was read by a review.
ApprovedWasReviewed == G!ApprovedWasReviewed
\* One approval of a head is in flight, and a lost review is rescued once.
OneApprovalInFlight == G!OneApprovalInFlight /\ G!RescuedOnce
\* Nothing of what merges and replies teach is lost: a merge is stored whole, each reply is
\* counted once, and a review is given the best that fits.
LessonsAreWhole == L!MergesAreWhole /\ L!CountsAreReplies /\ S!BestAreKept
\* What reviews go by is so: a survey claims what GitHub said, a structural pass is called
\* optional only for a small change, and lessons are whole.
ReviewsKnow == Y!ClaimsWereSo /\ S!OptionalIsSmall /\ LessonsAreWhole

=============================================================================
