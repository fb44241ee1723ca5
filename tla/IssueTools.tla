----------------------------- MODULE IssueTools -----------------------------
(***************************************************************************)
(* The routes with which agents file and close issues, src/api/github.ts:  *)
(* each is called by many agents at once, and a listing of the latest      *)
(* issues keeps a title from being filed twice.  One repository; of titles *)
(* only counts which ones normalizeIssueTitle makes equal.                 *)
(*                                                                         *)
(* And the project registry the tools and the slash commands ask,          *)
(* src/plugins/project-registry.ts: what the sidecar serves, completed     *)
(* from the clones where it leaves something out, and kept when it cannot  *)
(* be reached.  Which repositories it knows is given to the tools here.    *)
(***************************************************************************)
EXTENDS Naturals, Sequences, FiniteSets, SequencesExt, Functions

CONSTANTS
  Creates, TitleOf,  \* requests to create an issue, and their normalized titles
  Managed,           \* those for a repository the registry knows
  Window, MaxTime,   \* CREATE_ISSUE_DEDUP_WINDOW_MS, and the horizon
  Page,              \* the issues a listing returns, the latest first
  Listed,            \* the projects, in the order the sidecar lists them
  SlugOfProject(_),  \* deriveSlug of the name of each
  ProjectRepos,      \* repositories, and "none"
  MaxChanges

VARIABLES
  now,
  issues,  \* the issues of the repository, oldest first
  pc,      \* of each create: where its handler is
  listed,  \* how many issues there were when its listing was answered
  answer,  \* and the issue it was answered with, 0 without one
  served,  \* of each project: whether it is served, with which repository
  clone,   \* of each project: the repository its clone has as origin
  changes,
  fetched, \* the answer in flight, by the place in Listed; empty when none is
  waiting, \* a fetch is in flight
  known,   \* the projects known, with their repositories, by the place in Listed
  last     \* the projects of the last answer

tools == <<now, issues, pc, listed, answer>>
registry == <<served, clone, changes, fetched, waiting, known, last>>

ToolsInit ==
  /\ now = 0 /\ issues = <<>> /\ pc = [c \in Creates |-> "unsent"]
  /\ listed = [c \in Creates |-> 0] /\ answer = [c \in Creates |-> 0]

\* The handler of c is done, answered with issue n.
Answered(c, n) ==
  pc' = [pc EXCEPT ![c] = "done"] /\ answer' = [answer EXCEPT ![c] = n]

\* requireManagedRepo and its twin in handleCreateIssue.
Allowed(c) == c \in Managed

Ask(c) ==
  /\ pc[c] = "unsent" /\ pc' = [pc EXCEPT ![c] = IF Allowed(c) THEN "list" ELSE "refused"]
  /\ UNCHANGED <<now, issues, listed, answer>>

\* The dedup guard: an open issue of that title, or one closed and young.
MatchingOpen(c, n) == issues[n].title = TitleOf[c] /\ issues[n].open
Matching(c, n) ==
  /\ issues[n].title = TitleOf[c]
  /\ issues[n].open \/ now - issues[n].at < Window
Recent(c) == {n \in DOMAIN issues : n > Len(issues) - Page /\ Matching(c, n)}

\* The latest match is the answer.  The lookup is best-effort: when it fails
\* the create goes on, as if it had seen no issue at all.
ListRecent(c) ==
  /\ pc[c] = "list"
  /\ \/ \E n \in Recent(c) :
          (\A o \in Recent(c) : o <= n) /\ Answered(c, n) /\ UNCHANGED listed
     \/ /\ Recent(c) = {} /\ pc' = [pc EXCEPT ![c] = "create"]
        /\ listed' = [listed EXCEPT ![c] = Len(issues)] /\ UNCHANGED answer
     \/ /\ pc' = [pc EXCEPT ![c] = "create"] /\ UNCHANGED <<listed, answer>>
  /\ UNCHANGED <<now, issues>>

\* POST /repos/:repo/issues; an answer that is lost hides the issue.
CreateIssue(c) ==
  /\ pc[c] = "create"
  /\ \/ /\ issues' = Append(issues, [title |-> TitleOf[c], at |-> now, open |-> TRUE,
                                     by |-> c])
        /\ \E n \in {0, Len(issues) + 1} : Answered(c, n)
     \/ Answered(c, 0) /\ UNCHANGED issues
  /\ UNCHANGED <<now, listed>>

\* handleCloseIssue closes whether its comment was posted or not; an agent, a
\* person and an automation may all close it.  handleCommentIssue and
\* handleLabelIssue change nothing a listing is searched for.
CloseIssue(n) ==
  /\ issues[n].open /\ issues' = [issues EXCEPT ![n].open = FALSE]
  /\ UNCHANGED <<now, pc, listed, answer>>

Tick == now < MaxTime /\ now' = now + 1 /\ UNCHANGED <<issues, pc, listed, answer>>

ToolsNext ==
  \/ Tick \/ \E n \in DOMAIN issues : CloseIssue(n)
  \/ \E c \in Creates : Ask(c) \/ ListRecent(c) \/ CreateIssue(c)

ToolsSpec == ToolsInit /\ [][ToolsNext]_tools

-----------------------------------------------------------------------------
(* The registry. *)

All == ToSet(Listed)
Entries == [on : BOOLEAN, repo : ProjectRepos]

RegistryInit ==
  /\ served \in [All -> {e \in Entries : e.on}]
  /\ clone = [p \in All |-> served[p].repo]
  /\ changes = 0 /\ fetched = <<>> /\ waiting = FALSE /\ known = <<>> /\ last = {}

Change ==
  /\ changes < MaxChanges /\ changes' = changes + 1
  /\ \E p \in All :
       \/ \E e \in Entries : served' = [served EXCEPT ![p] = e] /\ UNCHANGED clone
       \/ \E r \in ProjectRepos : clone' = [clone EXCEPT ![p] = r] /\ UNCHANGED served
  /\ UNCHANGED <<fetched, waiting, known, last>>

\* refreshNow, and the timer every five minutes; an answer takes five seconds at most.
Fetch ==
  /\ ~waiting /\ waiting' = TRUE
  /\ fetched' = [i \in {n \in DOMAIN Listed : served[Listed[n]].on} |->
                  [project |-> Listed[i], repo |-> served[Listed[i]].repo]]
  /\ UNCHANGED <<served, clone, changes, known, last>>

\* _enrichProject: the repository served, or else the origin of the clone.
Enriched(e) == IF e.repo # "none" THEN e ELSE [e EXCEPT !.repo = clone[e.project]]

\* dedupeBySlug: the first project of a slug stays.
AllOf(es) == es
FirstOfSlug(es) ==
  LET first == {i \in DOMAIN es : \A j \in DOMAIN es : j < i =>
                  SlugOfProject(es[j].project) # SlugOfProject(es[i].project)}
  IN Restrict(es, first)

Refresh ==
  /\ waiting /\ waiting' = FALSE /\ fetched' = <<>>
  /\ known' = FirstOfSlug([i \in DOMAIN fetched |-> Enriched(fetched[i])])
  /\ last' = {e.project : e \in Range(fetched)}
  /\ UNCHANGED <<served, clone, changes>>

\* What is known stays when the sidecar cannot be reached or answers with an error.
Fail ==
  /\ waiting /\ waiting' = FALSE /\ fetched' = <<>>
  /\ UNCHANGED <<served, clone, changes, known, last>>

RegistryNext == Change \/ Fetch \/ Refresh \/ Fail

RegistrySpec == RegistryInit /\ [][RegistryNext]_registry

-----------------------------------------------------------------------------
ToolsTypeOK ==
  /\ now \in 0 .. MaxTime /\ pc \in [Creates -> {"unsent", "refused", "list", "create", "done"}]
  /\ \A n \in DOMAIN issues : issues[n].by \in Creates /\ issues[n].at \in 0 .. MaxTime
  /\ listed \in [Creates -> 0 .. Cardinality(Creates)]
  /\ answer \in [Creates -> 0 .. Len(issues)]

RegistryTypeOK ==
  /\ served \in [All -> Entries] /\ clone \in [All -> ProjectRepos] /\ changes \in 0 .. MaxChanges
  /\ waiting \in BOOLEAN /\ last \subseteq All
  /\ \A i \in DOMAIN known : known[i].project \in All /\ known[i].repo \in ProjectRepos

TypeOK == ToolsTypeOK /\ RegistryTypeOK

\* Two issues of one title within the window: the second was filed by a request
\* that had asked for the listing before the first was there, or in vain, or the
\* listing no longer reached back to the first.
RepeatsWereUnseen ==
  \A m, n \in DOMAIN issues :
    /\ m < n /\ issues[m].title = issues[n].title
    /\ issues[m].open \/ issues[n].at - issues[m].at < Window
    => listed[issues[n].by] < m \/ listed[issues[n].by] >= m + Page

\* A request answered with an issue was answered with one of its title.
AnswersFit == \A c \in Creates : answer[c] # 0 => issues[answer[c]].title = TitleOf[c]

\* A slug, which names channels and folders, is that of one project; each project
\* of the last answer is known under its slug, or the first that shares it is; and
\* none is known that the answer left out.
OneProjectEach ==
  /\ \A i, j \in DOMAIN known :
       SlugOfProject(known[i].project) = SlugOfProject(known[j].project) => i = j
  /\ {SlugOfProject(p) : p \in last} = {SlugOfProject(known[i].project) : i \in DOMAIN known}
  /\ \A i \in DOMAIN known : known[i].project \in last

=============================================================================
