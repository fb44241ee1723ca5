----------------------------- MODULE MCServices -----------------------------
(***************************************************************************)
(* The services that must get somewhere, each in a small instance. They    *)
(* share no state, so a behaviour is one of a component alone, the part,   *)
(* with the others at rest: all their states are checked without those of  *)
(* their product.                                                          *)
(***************************************************************************)
EXTENDS RunningWork

VARIABLES
  part,
  subs, exec, hook, said, ends, owed, ask, accepted, chat, cache,
  session, newer, assigned, answers, linearHook, seen, gate, runs, poll, handled, tokens,
  refreshing, callback, quiet,
  status, ci, latest, autoMerge, claimed, watch, rescued, covered, eval, run, reviewed,
  inspected, githubQuiet,
  auth, google, pc, inFlight, hooks, folders, onboardingSaid, announced, blind,
  onboardingCrashes,
  window, registered, lastFired, due, asked, told, fleetSettled,
  drops, escalated, dropped, dropTold

\* Two versions of a definition, the second with one more skill, and the file a
\* command writes the definition of each name to.
Skills == <<{"s"}, {"s", "t"}>>
FileOf == [n \in {"a", "b"} |-> IF n = "a" THEN 1 ELSE 2]
\* Two requests for one project and a repository's message that names none.
Slugs == [r \in {"a1", "a2", "r"} |-> IF r = "r" THEN "none" ELSE "a"]
Repos == [r \in {"a1", "a2", "r"} |-> IF r = "r" THEN "q" ELSE "p"]
Senders ==
  [r \in {"a1", "a2", "r"} |->
     CASE r = "a1" -> "command" [] r = "a2" -> "api" [] r = "r" -> "repository.created"]

A == INSTANCE A2AServer WITH Execs <- {"e1", "e2"}, Chats <- {"c"}, MaxEntries <- 1
L == INSTANCE LinearAgent WITH Polls <- {"p"}, PollPage <- 1, hook <- linearHook
G == INSTANCE GitHubReview WITH
       Hooks <- {}, Sweep <- "sweep", Runs <- {"run"}, Registered <- TRUE, quiet <- githubQuiet
O == INSTANCE Onboarding WITH
       Requests <- {"a1", "a2", "r"}, SlugOf <- Slugs, RepoOf <- Repos, From <- Senders,
       MaxCrashes <- 1, said <- onboardingSaid, crashes <- onboardingCrashes
F == INSTANCE FleetHealth WITH settled <- fleetSettled

streamVars == <<subs, exec, hook, said, ends, owed, ask, accepted, chat, cache>>
linearVars ==
  <<session, newer, assigned, answers, linearHook, seen, gate, runs, poll, handled, tokens,
    refreshing, callback, quiet>>
githubVars ==
  <<status, ci, latest, autoMerge, claimed, watch, rescued, covered, eval, run, reviewed,
    inspected, githubQuiet>>
reloadVars == <<content, dirty, running, regs, reloadQuiet>>
checkoutsVars == <<phase, head, tree, fresh, inflight, crashes>>
onboardingVars ==
  <<auth, google, pc, inFlight, hooks, folders, onboardingSaid, announced, blind,
    onboardingCrashes>>
chatVars == <<caller, active, tracked, parked, chatCache, over, lost, chatCrashes>>
schedulerVars ==
  <<up, kind, file, named, when, timer, existing, fired, shots, left, stopped, unread, settled>>
ceremonyVars ==
  <<ceremonyFile, snapshot, known, ceremonyTimer, started, waiting, saved, ceremonyStatus,
    edits>>
executorsVars ==
  <<executorsKind, health, circuit, failures, cooled, executorsPhase, executorsSeen, messages,
    narrated, steady, astray>>
fleetVars == <<window, registered, lastFired, due, asked, told, fleetSettled>>
dropsVars == <<drops, escalated, dropped, dropTold>>
vars == <<part, streamVars, linearVars, githubVars, reloadVars, checkoutsVars, onboardingVars,
          chatVars, schedulerVars, ceremonyVars, executorsVars, fleetVars, dropsVars>>

\* One initial state of each component that starts in one of several.
LinearRests ==
  /\ assigned = TRUE /\ tokens = [refresh |-> TRUE, fresh |-> FALSE, pending |-> FALSE]
  /\ L!Init
GitHubRests == status = "open" /\ G!Init
ReloadRests == content = [f \in {1, 2} |-> H!Absent] /\ H!Init
CheckoutsRest == head = [r \in {"r1", "r2", "r3"} |-> "h1"] /\ K!Init
OnboardingRests == auth = "none" /\ google = FALSE /\ O!Init
SchedulerRests ==
  /\ up = FALSE /\ kind = "once" /\ when = "soon" /\ file = "absent" /\ named = TRUE
  /\ settled = FALSE /\ S!Init
CeremonyRests == ceremonyFile = "absent" /\ C!Init
ExecutorsRest == executorsKind = "deep" /\ health = "well" /\ E!Init
FleetRests == registered = FALSE /\ F!FleetInit

\* Each component starts in its part and rests in the others.
Init ==
  /\ part \in
       {"stream", "linear", "github", "reload", "checkouts", "onboarding", "chat", "scheduler", "ceremony", "executors", "fleet", "drops"}
  /\ IF part = "linear" THEN L!Init ELSE LinearRests
  /\ IF part = "github" THEN G!Init ELSE GitHubRests
  /\ IF part = "reload" THEN H!Init ELSE ReloadRests
  /\ IF part = "checkouts" THEN K!Init ELSE CheckoutsRest
  /\ IF part = "onboarding" THEN O!Init ELSE OnboardingRests
  /\ IF part = "scheduler" THEN S!Init ELSE SchedulerRests
  /\ IF part = "ceremony" THEN C!Init ELSE CeremonyRests
  /\ IF part = "executors" THEN E!Init ELSE ExecutorsRest
  /\ IF part = "fleet" THEN F!FleetInit ELSE FleetRests
  /\ A!Init /\ D!Init /\ F!DropInit

\* The component p takes the step, and the others rest.
Only(p) ==
  /\ part = p /\ UNCHANGED part
  /\ IF p = "stream" THEN TRUE ELSE UNCHANGED streamVars
  /\ IF p = "linear" THEN TRUE ELSE UNCHANGED linearVars
  /\ IF p = "github" THEN TRUE ELSE UNCHANGED githubVars
  /\ IF p = "reload" THEN TRUE ELSE UNCHANGED reloadVars
  /\ IF p = "checkouts" THEN TRUE ELSE UNCHANGED checkoutsVars
  /\ IF p = "onboarding" THEN TRUE ELSE UNCHANGED onboardingVars
  /\ IF p = "chat" THEN TRUE ELSE UNCHANGED chatVars
  /\ IF p = "scheduler" THEN TRUE ELSE UNCHANGED schedulerVars
  /\ IF p = "ceremony" THEN TRUE ELSE UNCHANGED ceremonyVars
  /\ IF p = "executors" THEN TRUE ELSE UNCHANGED executorsVars
  /\ IF p = "fleet" THEN TRUE ELSE UNCHANGED fleetVars
  /\ IF p = "drops" THEN TRUE ELSE UNCHANGED dropsVars

Streaming == part = "stream" /\ A!Next /\ Only("stream")
Prompting == part = "linear" /\ L!Next /\ Only("linear")
\* Failing checks and closing are in MCHandlers.
OpenAndSound == ci' # "red" /\ status' # "closed"
Merging == part = "github" /\ G!Next /\ Only("github") /\ OpenAndSound
Reloading == part = "reload" /\ H!Next /\ Only("reload")
Reviewing == part = "checkouts" /\ K!Next /\ Only("checkouts")
Onboards == part = "onboarding" /\ O!Next /\ Only("onboarding")
Chatting == part = "chat" /\ D!Next /\ Only("chat")
Scheduling == part = "scheduler" /\ S!Next /\ Only("scheduler")
Celebrating == part = "ceremony" /\ C!Next /\ Only("ceremony")
Executing == part = "executors" /\ E!Next /\ Only("executors")
Watching == part = "fleet" /\ F!FleetNext /\ Only("fleet")
Escalating == part = "drops" /\ F!DropNext /\ Only("drops")

Next ==
  \/ Streaming \/ Prompting \/ Merging \/ Reloading \/ Reviewing
  \/ Onboards \/ Chatting \/ Scheduling \/ Celebrating \/ Executing
  \/ Watching \/ Escalating

\* The fairness of each component, in its own behaviours.
StreamFairness ==
  /\ WF_streamVars(part = "stream" /\ A!Reply)
  /\ WF_streamVars(part = "stream" /\ A!Expire)
  /\ WF_streamVars(part = "stream" /\ A!ChatTimeout("c"))
LinearFairness ==
  /\ WF_linearVars(part = "linear" /\ L!GoStale)
  /\ WF_linearVars(part = "linear" /\ L!HookGated)
  /\ WF_linearVars(part = "linear" /\ L!Respond)
  /\ WF_linearVars(part = "linear" /\ L!Prune)
  /\ WF_linearVars(part = "linear" /\ L!Refresh)
  /\ WF_linearVars(part = "linear" /\ L!Refreshed)
  /\ WF_linearVars(part = "linear" /\ L!Poll("p"))
  /\ WF_linearVars(part = "linear" /\ L!PollStep("p"))
GithubFairness ==
  /\ WF_githubVars(part = "github" /\ G!Going /\ G!Begin("sweep"))
  /\ WF_githubVars(part = "github" /\ G!Going /\ G!EvalStep("sweep"))
  /\ WF_githubVars(part = "github" /\ G!Going /\ G!RunStep("run"))
  /\ WF_githubVars(part = "github" /\ G!Going /\ (G!ApproveKeyLapses \/ G!RescueLapses))
  /\ WF_githubVars(part = "github" /\ G!Going /\ G!GracePasses)
  /\ WF_githubVars(part = "github" /\ G!Going /\ G!CiMoves)
ReloadFairness ==
  /\ WF_reloadVars(part = "reload" /\ H!Poll)
CheckoutsFairness ==
  /\ \A r \in {"r1", "r2", "r3"} :
       WF_checkoutsVars(part = "checkouts" /\ K!Work(r))
  /\ \A h \in {"h1", "h2"} :
       WF_checkoutsVars(part = "checkouts" /\ K!Git(h))
OnboardingFairness ==
  /\ \A r \in {"a1", "a2", "r"} :
       /\ WF_onboardingVars(part = "onboarding" /\ O!Receive(r))
       /\ WF_onboardingVars(part = "onboarding" /\ O!Step(r))
ChatFairness ==
  /\ \A d \in {"d1", "d2", "d3"} :
       /\ WF_chatVars(part = "chat" /\ D!Timeout(d))
       /\ WF_chatVars(part = "chat" /\ D!Finish(d))
       /\ WF_chatVars(part = "chat" /\ D!TaskEnds(d))
       /\ WF_chatVars(part = "chat" /\ D!Promote(d))
SchedulerFairness ==
  /\ WF_schedulerVars(part = "scheduler" /\ S!Start)
  /\ WF_schedulerVars(part = "scheduler" /\ S!Tick)
  /\ WF_schedulerVars(part = "scheduler" /\ S!Elapse)
  /\ WF_schedulerVars(part = "scheduler" /\ S!Watch)
CeremonyFairness ==
  /\ \A r \in 1 .. C!MaxStarted :
       WF_ceremonyVars(part = "ceremony" /\ C!Timeout(r))
ExecutorsFairness ==
  /\ WF_executorsVars(part = "executors" /\ E!Cool)
  /\ \A c \in E!Calls :
       /\ WF_executorsVars(part = "executors" /\ E!Step(c))
       /\ WF_executorsVars(part = "executors" /\ (E!Execute(c) \/ E!Run(c)))
  /\ SF_executorsVars(part = "executors" /\ \E c \in E!Calls : E!Send(c))
FleetFairness ==
  /\ WF_fleetVars(part = "fleet" /\ F!Tick)
  /\ WF_fleetVars(part = "fleet" /\ F!Evaluate)
  /\ WF_fleetVars(part = "fleet" /\ F!Discover)
  /\ \A a \in F!Alerts :
       WF_fleetVars(part = "fleet" /\ F!Alert(a))
DropsFairness ==
  /\ WF_dropsVars(part = "drops" /\ F!DropTick)

Spec ==
  /\ Init /\ [][Next]_vars
  /\ StreamFairness /\ LinearFairness /\ GithubFairness /\ ReloadFairness
  /\ CheckoutsFairness /\ OnboardingFairness /\ ChatFairness /\ SchedulerFairness
  /\ CeremonyFairness /\ ExecutorsFairness /\ FleetFairness /\ DropsFairness

-----------------------------------------------------------------------------
(* The components' properties; more are in RunningWork. *)

\* The variables have their types.
TypeOK ==
  /\ A!TypeOK /\ L!TypeOK /\ G!TypeOK /\ H!TypeOK /\ K!TypeOK /\ O!TypeOK
  /\ D!TypeOK /\ S!TypeOK /\ C!TypeOK /\ E!TypeOK /\ F!TypeOK
\* The Linear agent stays authorised, and a prompt is answered in the end.
PromptIsAnswered == L!StaysAuthorized /\ L!PromptIsAnswered
\* A pull request left alone is reviewed, approved and merged.
EventuallyMerged == G!EventuallyMerged
\* What the files define takes effect: an agent is loaded, an enabled schedule fires.
DefinedTakesEffect == H!EditsTakeEffect /\ S!EnabledFires
\* Failure passes or is told of: the circuit of an agent that is well again closes for good, and
\* of failures and dropped dispatches that go on the operator is told again.
FailureIsSeen == E!StaysClosed /\ F!FailingIsTold /\ F!StormIsTold
\* A2A executions, calls to agents, ceremony runs, reviews, onboardings and dispatches end.
Ends ==
  /\ A!EveryExecutionEnds /\ E!CallsEnd /\ C!RunsEnd
  /\ K!ReviewsEnd /\ O!AskersAreTold /\ D!DispatchesEnd

=============================================================================
