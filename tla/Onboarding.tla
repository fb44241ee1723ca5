----------------------------- MODULE Onboarding -----------------------------
(***************************************************************************)
(* The onboarding pipeline, lib/plugins/onboarding.ts: a request on        *)
(* message.inbound.onboard registers a webhook on the project's repository *)
(* and creates its Drive folder, one await after the other, while requests *)
(* for other projects, or for the same one, arrive.                        *)
(***************************************************************************)
EXTENDS Naturals, FiniteSets

CONSTANTS
  Requests,          \* the messages
  SlugOf, RepoOf,    \* the project a request is for, and its repository
  From,              \* who published it: "api", "command" or "repository.created"
  MaxCrashes

Repos == {RepoOf[r] : r \in Requests}
Slugs == {SlugOf[r] : r \in Requests}

VARIABLES
  auth,      \* GitHub credentials: "app", "partial" or "none"
  google,    \* Google's credentials and the folder of google.yaml are set
  pc,        \* of each request: where _run is
  inFlight,  \* the slugs whose pipeline runs
  hooks,     \* of each repository: the webhooks to our URL
  folders,   \* of each project: its Drive folders
  said,      \* of each request: what its caller was told
  announced, \* requests whose message.inbound.onboard.complete was published
  blind,     \* of each repository: listings without ours, though it may be there
  crashes

vars == <<auth, google, pc, inFlight, hooks, folders, said, announced, blind, crashes>>

Init ==
  /\ auth \in {"app", "partial", "none"} /\ google \in BOOLEAN
  /\ pc = [r \in Requests |-> "unsent"] /\ inFlight = {} /\ crashes = 0
  /\ hooks = [p \in Repos |-> 0] /\ folders = [s \in Slugs |-> 0]
  /\ said = [r \in Requests |-> "nothing"] /\ announced = {}
  /\ blind = [p \in Repos |-> 0]

Goes(r, p) == pc' = [pc EXCEPT ![r] = p]

\* The fields of the message the GitHub plugin publishes of a created repository.
CreatedFields == {"event", "owner", "repo", "fullName", "url", "description", "isPrivate"}
Fields(r) ==
  IF From[r] = "repository.created" THEN CreatedFields ELSE {"slug", "title", "github"}

\* _parseRequest: these are required.
Parses(r) == {"slug", "title", "github"} \subseteq Fields(r)

\* POST /api/onboard names no reply topic, nor does the GitHub plugin.
HasReplyTopic(r) == From[r] = "command"

\* _reply
Told(r, what) == [said EXCEPT ![r] = IF HasReplyTopic(r) THEN what ELSE @]

\* One run of a slug at a time.
NeverBusy(r) == FALSE
Busy(r) == SlugOf[r] \in inFlight

Receive(r) ==
  /\ pc[r] = "unsent"
  /\ IF Parses(r) /\ ~Busy(r)
     THEN inFlight' = inFlight \cup {SlugOf[r]} /\ Goes(r, "webhook") /\ UNCHANGED said
     ELSE /\ Goes(r, "refused") /\ said' = Told(r, IF Parses(r) THEN "busy" ELSE "invalid")
          /\ UNCHANGED inFlight
  /\ UNCHANGED <<auth, google, hooks, folders, announced, blind, crashes>>

\* Step 2 asks for the webhooks there are, the first page of them: an answer that
\* is no list counts as an empty one, a page may be full of other webhooks, a call
\* that throws ends the step, and no credentials skip it.
\* makeGitHubAuth throws on half an App's, outside the step's try: the pipeline
\* ends, its finally frees the slug and nobody is told.
Throws(r) ==
  /\ pc[r] = "webhook" /\ auth = "partial" /\ Goes(r, "thrown")
  /\ inFlight' = inFlight \ {SlugOf[r]}
  /\ UNCHANGED <<auth, google, hooks, folders, said, announced, blind, crashes>>

NothingListed(r) == hooks[RepoOf[r]] = 0
List(r) ==
  /\ pc[r] = "webhook" /\ auth # "partial"
  /\ \/ auth = "app" /\ Goes(r, IF NothingListed(r) THEN "create" ELSE "folder") /\ UNCHANGED blind
     \/ /\ auth = "app" /\ Goes(r, "create")
        /\ blind' = [blind EXCEPT ![RepoOf[r]] = @ + 1]
     \/ Goes(r, "folder") /\ UNCHANGED blind
  /\ UNCHANGED <<auth, google, inFlight, hooks, folders, said, announced, crashes>>

\* The calls that fetch the App's token have no timeout.
TokenHangs(r) ==
  /\ pc[r] = "webhook" /\ auth = "app" /\ Goes(r, "hung")
  /\ UNCHANGED <<auth, google, inFlight, hooks, folders, said, announced, blind, crashes>>

\* createGitHubWebhook; an answer lost by the timeout hides a webhook created.
CreateHook(r) ==
  /\ pc[r] = "create" /\ Goes(r, "folder")
  /\ \E made \in {0, 1} : hooks' = [hooks EXCEPT ![RepoOf[r]] = @ + made]
  /\ UNCHANGED <<auth, google, inFlight, folders, said, announced, blind, crashes>>

\* createDriveFolder looks for no folder of that name.
WithFolder(s) == [folders EXCEPT ![s] = @ + 1]

\* Step 3: no credentials skip it, and a call may fail.
MakeFolder(r) ==
  /\ pc[r] = "folder" /\ Goes(r, "notify")
  /\ \/ google /\ folders' = WithFolder(SlugOf[r])
     \/ UNCHANGED folders
  /\ UNCHANGED <<auth, google, inFlight, hooks, said, announced, blind, crashes>>

\* Steps 4 and 5, whatever came of the others, and the finally.
Complete(r) ==
  /\ pc[r] = "notify" /\ Goes(r, "done") /\ said' = Told(r, "complete")
  /\ announced' = announced \cup {r} /\ inFlight' = inFlight \ {SlugOf[r]}
  /\ UNCHANGED <<auth, google, hooks, folders, blind, crashes>>

Running(r) == pc[r] \in {"webhook", "hung", "create", "folder", "notify"}

Crash ==
  /\ crashes < MaxCrashes /\ crashes' = crashes + 1 /\ inFlight' = {}
  /\ pc' = [r \in Requests |-> IF Running(r) THEN "lost" ELSE pc[r]]
  /\ UNCHANGED <<auth, google, hooks, folders, said, announced, blind>>

Step(r) == Throws(r) \/ List(r) \/ CreateHook(r) \/ MakeFolder(r) \/ Complete(r)
Next == Crash \/ \E r \in Requests : Receive(r) \/ TokenHangs(r) \/ Step(r)

\* Each call has its timeout, the token's aside.
Fairness == \A r \in Requests : WF_vars(Receive(r)) /\ WF_vars(Step(r))
Spec == Init /\ [][Next]_vars /\ Fairness

-----------------------------------------------------------------------------
TypeOK ==
  /\ auth \in {"app", "partial", "none"} /\ google \in BOOLEAN
  /\ pc \in [Requests -> {"unsent", "refused", "webhook", "hung", "create", "folder",
                           "notify", "done", "thrown", "lost"}]
  /\ inFlight \subseteq Slugs /\ hooks \in [Repos -> Nat] /\ folders \in [Slugs -> Nat]
  /\ said \in [Requests -> {"nothing", "invalid", "busy", "complete"}]
  /\ announced \subseteq Requests /\ blind \in [Repos -> Nat] /\ crashes \in 0 .. MaxCrashes

\* _stepGitHubWebhook lists before it creates: a repository has no more of our
\* webhooks than projects that could list it at once, and one more for each
\* time GitHub's answer to the listing left ours out.
HooksAreFew ==
  \A p \in Repos :
    hooks[p] <= Cardinality({SlugOf[r] : r \in {x \in Requests : RepoOf[x] = p}}) + blind[p]

\* _run's finally: a slug is taken exactly while a request for it is at work,
\* so no project is refused as in progress for good, unless a token never comes.
TakenWhileRunning ==
  inFlight = {SlugOf[r] : r \in {x \in Requests : Running(x)}}

\* Whoever asked with a reply topic is told how it ended, unless the process
\* stops, the credentials are half set or the token never comes.
AskersAreTold ==
  \A r \in Requests :
    HasReplyTopic(r) => []<>(said[r] # "nothing" \/ pc[r] \in {"unsent", "lost", "thrown", "hung"})

=============================================================================
