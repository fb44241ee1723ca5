----------------------------- MODULE MCHandlers -----------------------------
(***************************************************************************)
(* The handlers of requests, messages and tool calls, and what they keep,  *)
(* each in a small instance, for their safety. They share no state, so a   *)
(* behaviour is one of a component alone, the part, with the others at     *)
(* rest: all their states are checked without those of their product.      *)
(***************************************************************************)
EXTENDS ReviewWork, Integrations, Exchanges

VARIABLE part

\* Three heads of a pull request: many lines of one file, many files, a sensitive path.
ChangesOf(h) ==
  CASE h = 0 -> [files |-> 1, lines |-> 1, sensitive |-> FALSE]
    [] h = 1 -> [files |-> 5, lines |-> 1, sensitive |-> FALSE]
    [] h = 2 -> [files |-> 1, lines |-> 9, sensitive |-> TRUE]
FilesOf(h) == <<"f", "g", "h">>
SymbolsOf(h) == IF h = 0 THEN <<"x", "y">> ELSE <<"x", "y", "z">>
DecisionsOn(f) == CASE f = "f" -> {"d1", "d2"} [] f = "g" -> {"d3"} [] OTHER -> {"d4"}
PatternsFor(s) == CASE s = "x" -> {"p1", "p2"} [] s = "y" -> {"p3", "p4"} [] OTHER -> {}
SizeOf(x) == CASE x = "p1" -> 100 [] x = "p2" -> 40 [] OTHER -> 60
ScoreOf(p) == CASE p = "p1" -> 2 [] p = "p2" -> 3 [] OTHER -> 1
\* Two merges of one file: a symbol added, a line removed, context, another symbol added; and a
\* symbol. Their chunks have points of their own, their symbols do not.
DiffOf(m) == IF m = "m" THEN <<"+", "-", " ", "+">> ELSE <<"+">>
PointOfChunk(m, k) == <<m, k>>
PointOfSymbol(m, line) == line
\* Two requests for an issue of one title, and one of another.
Titles == [c \in {"a1", "a2", "b"} |-> IF c = "b" THEN "b" ELSE "a"]
\* Three projects, two of whose names give one slug.
ThreeProjects == <<"a", "b", "c">>
ProjectSlug(p) == IF p = "c" THEN "c" ELSE "a"
\* Two requests for one project, one for another on its repository, and a message of
\* a repository that names no project.
RequestSlugs ==
  [r \in {"a1", "a2", "b", "r"} |-> CASE r = "b" -> "b" [] r = "r" -> "none" [] OTHER -> "a"]
RequestRepos == [r \in {"a1", "a2", "b", "r"} |-> IF r = "r" THEN "q" ELSE "p"]
Senders ==
  [r \in {"a1", "a2", "b", "r"} |->
     CASE r = "a1" -> "command" [] r = "r" -> "repository.created" [] OTHER -> "api"]
\* Three messages of a user, the last one a research request.
Authors == [m \in {"m1", "m2", "m3"} |-> "u"]
Kinds == [m \in {"m1", "m2", "m3"} |-> IF m = "m3" THEN "research" ELSE "talk"]
\* google.yaml with mail only, with the calendar only, and with both at the short interval.
GoogleYaml ==
  {[labels |-> TRUE, calendar |-> FALSE, often |-> FALSE],
   [labels |-> FALSE, calendar |-> TRUE, often |-> FALSE],
   [labels |-> TRUE, calendar |-> TRUE, often |-> TRUE]}
\* Two calls of one conversation and one of another.
CallContext(c) == IF c = 3 THEN "y" ELSE "x"
\* Two rows of the kind asked for and one of another, and how words and meaning rank them.
SortOf(r) == IF r = 3 THEN "y" ELSE "x"
WordHits == <<1, 2>>
MeaningHits == <<3, 2>>
\* The registrar of the agent of each schedule.
Registrar(s) == IF s = "x" THEN "agent-runtime" ELSE "skill-broker"

reviewVars ==
  <<status, ci, latest, autoMerge, claimed, watch, rescued, covered, eval, run, reviewed,
    inspected, quiet>>
surveyVars == <<survey, head, checks, reviews, facts, listed, reads, since, claim>>
summaryVars == <<summaryHead, step, counted, seen, asked, decisions, patterns, context>>
learningVars ==
  <<up, collection, boot, starts, merge, missed, history, learningPatterns, reply, points, shown,
    recorded, muddled>>
issuesVars == <<now, issues, pc, issueListed, answer>>
projectsVars == <<served, clone, changes, fetched, waiting, known, last>>
onboardingVars ==
  <<auth, google, onboardingPc, inFlight, hooks, folders, said, announced, blind, crashes>>
streamVars == <<subs, exec, hook, streamSaid, ends, owed, ask, accepted, chat, cache>>
mcpVars == <<saved, on, edits, at, client, open, tools, restarts>>
poolVars ==
  <<poolListed, filed, watched, changed, channelFile, bound, poolEdits, poolClient, pool,
    displaced>>
talkVars ==
  <<talkNow, delivered, talkSeen, handling, hits, conv, idOf, pending, requests, late,
    orphaned, replies, pushed, passed>>
mailVars ==
  <<yaml, config, mailEdits, service, timer, calendar, token, inbox, poll, processed, published,
    shared>>
filesVars == <<filesAt, existing, file, undone, document, filled, thread, draft, answers>>
memoryVars ==
  <<clock, turns, activity, chunks, phase, memoryHistory, recall, todo, transcript, excused>>
searchVars == <<stored, embedding, vectors, words, meaning, searchHits, dispatch, began, hour,
    row>>
bootVars ==
  <<env, bootPhase, loaded, installed, failed, weighted, fate, overdue, sockets, bootStarts>>
vars == <<part, reviewVars, surveyVars, summaryVars, learningVars, issuesVars, projectsVars,
          onboardingVars, streamVars, mcpVars, poolVars, talkVars, mailVars, filesVars,
          memoryVars, searchVars, bootVars>>

\* One initial state of each component that starts in one of several.
ReviewRests == status = "open" /\ G!Init
SurveyRests == survey = "ci" /\ Y!Init
LearningRests == up = FALSE /\ collection = [c \in {"history", "patterns", "learnings"} |-> "none"] /\ L!Init
ProjectsRest == served = [p \in {"a", "b", "c"} |-> [on |-> TRUE, repo |-> "r"]] /\ I!RegistryInit
OnboardingRests == auth = "none" /\ google = FALSE /\ O!Init
PoolRests ==
  /\ poolListed = {} /\ filed = {} /\ watched = FALSE /\ channelFile = {}
  /\ B!Init
MailRests == yaml = [labels |-> TRUE, calendar |-> FALSE, often |-> FALSE] /\ E!Init

\* Each component starts in its part and rests in the others.
Init ==
  /\ part \in
       {"review", "survey", "summary", "merges", "replies", "issues", "projects", "onboarding", "stream", "mcp", "pool", "talk", "mail", "files", "memory", "search", "flow", "boot"}
  /\ IF part = "review" THEN G!Init ELSE ReviewRests
  /\ IF part = "survey" THEN Y!Init ELSE SurveyRests
  /\ IF part \in {"merges", "replies"} THEN L!Init ELSE LearningRests
  /\ IF part = "projects" THEN I!RegistryInit ELSE ProjectsRest
  /\ IF part = "onboarding" THEN O!Init ELSE OnboardingRests
  /\ IF part = "pool" THEN B!Init ELSE PoolRests
  /\ IF part = "mail" THEN E!Init ELSE MailRests
  /\ S!Init /\ I!ToolsInit /\ A!Init /\ M!Init /\ C!Init /\ F!Init
  /\ Q!Init /\ R!Init /\ T!Init

\* The component p takes the step, and the others rest.
Only(p) ==
  /\ part = p /\ UNCHANGED part
  /\ IF p = "review" THEN TRUE ELSE UNCHANGED reviewVars
  /\ IF p = "survey" THEN TRUE ELSE UNCHANGED surveyVars
  /\ IF p = "summary" THEN TRUE ELSE UNCHANGED summaryVars
  /\ IF p \in {"merges", "replies"} THEN TRUE ELSE UNCHANGED learningVars
  /\ IF p = "issues" THEN TRUE ELSE UNCHANGED issuesVars
  /\ IF p = "projects" THEN TRUE ELSE UNCHANGED projectsVars
  /\ IF p = "onboarding" THEN TRUE ELSE UNCHANGED onboardingVars
  /\ IF p = "stream" THEN TRUE ELSE UNCHANGED streamVars
  /\ IF p = "mcp" THEN TRUE ELSE UNCHANGED mcpVars
  /\ IF p = "pool" THEN TRUE ELSE UNCHANGED poolVars
  /\ IF p = "talk" THEN TRUE ELSE UNCHANGED talkVars
  /\ IF p = "mail" THEN TRUE ELSE UNCHANGED mailVars
  /\ IF p = "files" THEN TRUE ELSE UNCHANGED filesVars
  /\ IF p = "memory" THEN TRUE ELSE UNCHANGED memoryVars
  /\ IF p \in {"search", "flow"} THEN TRUE ELSE UNCHANGED searchVars
  /\ IF p = "boot" THEN TRUE ELSE UNCHANGED bootVars

\* Up to the first approval; what follows it is in MCServices.
Unapproved == latest # "APPROVED" /\ ~quiet'
\* A token ages between polls only: a poll asks for one when it starts, and none after.
AgesAtRest == token' = "old" => token = "old" \/ \A p \in Polls : poll[p].queue = <<>>

Approving == part = "review" /\ G!Next /\ Only("review") /\ Unapproved
Surveying == part = "survey" /\ Y!Next /\ Only("survey")
Summarising == part = "summary" /\ S!Next /\ Only("summary")
Merging == part = "merges" /\ L!MergeNext /\ Only("merges")
Replying == part = "replies" /\ L!ReplyNext /\ Only("replies")
Filing == part = "issues" /\ I!ToolsNext /\ Only("issues")
Refreshing == part = "projects" /\ I!RegistryNext /\ Only("projects")
Onboards == part = "onboarding" /\ O!Next /\ Only("onboarding")
Streaming == part = "stream" /\ A!Next /\ Only("stream")
Connecting == part = "mcp" /\ M!Next /\ Only("mcp")
Pooling == part = "pool" /\ B!Next /\ Only("pool")
Talking == part = "talk" /\ C!Next /\ Only("talk")
Mailing == part = "mail" /\ E!Next /\ Only("mail") /\ AgesAtRest
Writing == part = "files" /\ F!Next /\ Only("files")
Remembering == part = "memory" /\ Q!Next /\ Only("memory")
Searching == part = "search" /\ R!SearchNext /\ Only("search")
Logging == part = "flow" /\ R!FlowNext /\ Only("flow")
Booting == part = "boot" /\ T!Next /\ Only("boot")

Next ==
  \/ Approving \/ Surveying \/ Summarising \/ Merging \/ Replying \/ Filing
  \/ Refreshing \/ Onboards \/ Streaming \/ Connecting \/ Pooling
  \/ Talking \/ Mailing \/ Writing \/ Remembering \/ Searching \/ Logging
  \/ Booting

Spec == Init /\ [][Next]_vars

-----------------------------------------------------------------------------
(* The components' properties; more are in ReviewWork, Integrations and Exchanges. *)

\* The variables of the component that takes the steps have their types; those at rest are in
\* one of its initial states.
TypeOK ==
  /\ part = "review" => G!TypeOK
  /\ part = "survey" => Y!TypeOK
  /\ part = "summary" => S!TypeOK
  /\ part \in {"merges", "replies"} => L!TypeOK
  /\ part \in {"issues", "projects"} => I!TypeOK
  /\ part = "onboarding" => O!TypeOK
  /\ part = "stream" => A!TypeOK
  /\ part = "mcp" => M!TypeOK
  /\ part = "pool" => B!TypeOK
  /\ part = "talk" => C!TypeOK
  /\ part = "mail" => E!TypeOK
  /\ part = "files" => F!TypeOK
  /\ part = "memory" => Q!TypeOK
  /\ part \in {"search", "flow"} => R!TypeOK
  /\ part = "boot" => T!TypeOK

=============================================================================
