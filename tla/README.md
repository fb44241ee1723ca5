# protoWorkstacean in TLA+

protoWorkstacean is a switchboard for a fleet of agents. Messages come in from
Discord, GitHub, Linear, Google, HTTP and timers, are turned into *skill
requests* on an in-memory event bus, dispatched to an executor (an in-process
agent, a remote A2A agent, an MCP tool, a function), and answered on a reply
topic. Everything runs in one JavaScript process: code between two `await`s is
never interrupted, so an action of these modules is such a stretch of code, and
everything that can go wrong goes wrong at the awaits, in timers, in what a
remote party does, and across restarts.

Paths below are relative to the repository. `PROJECT.json` maps every
definition to the lines it models, lists every component with what of it is
left out, and every hazard with the properties that would catch it.

## Contents

| Module | Models | Checked by |
|---|---|---|
| `TaskTracker` | long-running remote tasks: sweeps, push callbacks, durable rows, restart | `tracker_*` |
| `ReplyContract` | what the tracker promises: exactly one response per call | `tracker_liveness` |
| `SkillDispatcher` | dispatch, cooldowns, active executions, mailbox | through `DmPipeline` |
| `DmPipeline` | direct messages: debounce, flush, composed with `SkillDispatcher` | `dm_*` |
| `SkillBroker` | registration of remote agents: API, file, row, card discovery | `broker_*` |
| `GitHubReview` | reviews, approval and merge of a pull request | `handlers`, `services`, `merged_unseen` |
| `RepoSurveys` | CI health, drift, branch protection and other surveys; the HTTP client | `handlers` |
| `IssueTools` | filing and closing issues, many agents at once; the project registry and its refresh | `handlers` |
| `DiffSummary` | the reviewer's diff summary with retrieved context and budget | `handlers` |
| `ReviewLearning` | what merges and replies leave in the vector store | `handlers` |
| `A2AServer` | tasks served to remote callers, questions to people, response cache, bus | `handlers`, `services` |
| `AgentChat` | chat, delegation and their poll between agents | `services` |
| `Executors` | A2A and deep-agent calls, streams, circuit breaker | `services` |
| `FleetHealth` | rolling outcomes of agents, their alerts; escalation of repeated dispatch drops | `services` |
| `LinearAgent` | prompts of an agent session, recovery poller, OAuth | `services` |
| `Checkouts` | clones shared by reviews, pruning | `services` |
| `HotReload` | in-process agents and their definition files | `services` |
| `McpServers` | MCP servers and the tools registered for them | `handlers` |
| `Scheduler` | one-shot and cron schedules | `services` |
| `Ceremonies` | ceremony timers, runs, status | `services` |
| `Boot` | install order, start, shutdown | `handlers` |
| `Onboarding` | onboarding a project: webhook, Drive folder | `handlers`, `services` |
| `Conversations` | Discord messages in, replies out, sessions, rate limit, router | `handlers` |
| `AgentPool` | Discord clients of the agents, channel registry | `handlers` |
| `GoogleWatch` | mail and calendar pollers, configuration reload, token | `handlers` |
| `GoogleFiles` | Drive, Docs and Gmail writes by agents | `handlers` |
| `AgentMemory` | turns, recall, harvesting of idle conversations | `handlers` |
| `ResearchSearch` | the research store's fused search, the flow log | `handlers` |
| `ReviewWork`, `Integrations`, `Exchanges`, `RunningWork` | the components above in four groups, with their assumptions and properties | `handlers`, `services` |
| `TaskTrackerProofs`, `SkillBrokerProofs`, `DmPipelineProofs`, `ReviewWorkProofs`, `IntegrationsProofs`, `ExchangesProofs`, `RunningWorkProofs` | safety for all values of the constants | `tlapm` |
| `MC*` | the small instances TLC runs | |

## The system's parts and how they interact

```
 Discord  GitHub  Linear  Google  HTTP/A2A  timers
    |        |       |       |        |        |        inbound plugins
    +--------+-------+---+---+--------+--------+
                         v  bus (lib/bus.ts)
                      router --> skill dispatcher --> executors --> agents
                                   |     ^ mailbox       |
                                   v     |               v "working"
                             reply topics <-------- task tracker
```

**Dispatch.** The dispatcher (`src/executor/skill-dispatcher-plugin.ts`) keeps
active executions by correlation id and the last dispatch of each cooldown
bucket; it refuses or runs, answers, hands what is "still working" to the task
tracker (`task-tracker.ts`, its store, `src/api/a2a-callback.ts`), and drains
the mailbox into a next turn. Hard: everything between `await executor.execute`
and the `finally` is another turn of the event loop. Executors call agents and
models through a circuit breaker (`lib/plugins/circuit-breaker.ts`); the
outcomes feed the fleet's health, alerts and drop escalation.

**Registration.** Remote agents (`skill-broker-plugin.ts` and the control
plane), MCP servers (`src/mcp/`), in-process agents (`src/agent-runtime/`) and
Discord bots all have the same shape: files, commands and hot reload on one
side, executors or clients in a registry on the other, an await between them.
Hard: replacing or removing what is still connecting.

**Timers.** Schedules (`lib/plugins/scheduler.ts`), ceremonies
(`CeremonyPlugin.ts`), sweeps and pollers, against edits, late answers and
restarts.

**Conversations.** Discord messages and direct messages (`lib/plugins/discord/`,
`lib/dm/`, `lib/conversation/`, `src/router/`), the A2A server
(`src/api/a2a-server.ts`), chat between agents (`src/api/ava-tools.ts`), memory.
Hard: several turns of one conversation under way at once.

**Integrations.** GitHub (`lib/plugins/github.ts`, `src/api/github.ts`,
`src/api/pr-inspector.ts`), Linear, Google, checkouts, onboarding, learning.
Hard: reads of a remote state that moves between them; deliveries lost, late or
twice; one step of several failing.

## TaskTracker

**State.** `tasks`, `pending` and `store` are the live map, the rows loaded at
boot and the database, by correlation id; `registeredAt`, `lastPolledAt` and
`via` are fields of the task object; `sweep[s]` says where a run of `_sweep`
awaits (`pollTask` or `recordTerminalExtensions`); `posts` are push requests
whose body is being read. `remote`, `registered` and `now` are the environment.
`replies` and `deltas` count what was published.

**Actions.** `Track` is `track()`. `SweepStart`, `PollReturn` and `RecordReturn`
are `_sweep` cut at its awaits: each goes on through the loop (`WalkOn`) until
the next await, or never (`PollStalls`), timing out, resuming and escalating the
entries it passes. `PushAccepted` and `HandleCallback` are the route before and
after `await req.json()`. `Restart` rebuilds the maps from the rows.
`RemoteMoves` and `Register` are the agent and its rediscovery.

**What the runs show.**

- `tracker_safety`: two calls, two overlapping sweeps, pushes, a restart. A
  call owed a response is always held by memory or `pending`, and by the
  database (`OwedIsHeld`); an answered one is in none (`SettledIsForgotten`); a
  step publishes answers to calls owed one, one each, and besides only second
  ones of calls that a sweep is polling (`AnswersAreOwed`,
  `DuplicatesComeFromPollsInFlight`); the poll clock never goes back.
- `tracker_liveness`: one sweep at a time and no pushes. Every call is answered
  whatever the agents do (`OwedIsAnswered`), and the module implements
  `ReplyContract` with `owed` mapped to the calls handed over and unanswered.
  With pushes it does not, as `tracker_reply_twice` shows; what is left of the
  contract then is `AnswersAreOwed`.
- `tracker_reply_twice`, `tracker_deltas_twice`, `tracker_push_lost`: three
  statements of the comments that the code does not keep. A push that settles a
  call during its poll is followed by a second response; the world-state deltas
  are published by callback and sweep both, because the guard set is emptied
  before the function returns; and a push for a row still in `pending` is not
  found there, since the route asks `getAll()`, which lists live tasks only: it
  gets 404 and the result waits for a poll.

**Bounds.** Two calls and two sweeps are enough for every pair of actors on
one task, and for two entries of the map one loop walks. Time runs to 4 with
intervals of 1, so a task passes poll, timeout and grace before the end. One
restart: a second finds the same rows. One push at a time: pushes of one task
are equal up to their state. A sweeper is an overlapping run of `_sweep`; the
code does not bound them, two suffice for a pair.

**Fairness.** The clock ticks, the interval timer starts sweeps, and
`pollTask` returns or stalls for good: it never throws, and its fetch has a
timeout up to the headers only, so a body that stalls holds its run of `_sweep`
for ever (`PollStalls`; the sweeper stands for a later run from then on). The
timeout of a task does not wait for its poll, so it is answered all the same.
Nothing is assumed of the agents, of pushes or of rediscovery.

## SkillDispatcher and DmPipeline

**State.** `active` holds the keys of `activeExecutions`, `running` the
executions between the await and the `finally`, `tracked` the turn the tracker
holds, `mailbox` and `queuedAt` the messages waiting, `lastDispatchAt` and
`sinceSweep` the cooldown map and its sweep counter; `batch` the debounce,
`flushing` the flushes awaiting Discord. `outcome` and `acceptedAt` are
history. A request is its conversation, its bucket and its messages.

**Actions.** `Dispatch` is `_dispatch` up to its await: `Refuse` or `Accept`.
`Finish` and `HandOff` are the two ways on, each with the `finally` and
`_drainMailbox`, which publishes the next turn within the same step.
`FlushBegins`/`FlushPublishes` are `handleDMFlush` cut at its awaits,
`FlushFails` its error path.

**What the runs show.**

- `dm_queue`: two direct messages, a trigger and a posted message of one
  conversation, whose agent may answer "working". Every window between two
  dispatches of a bucket holds (`CooldownRespected`); an active entry means an
  execution runs; what the process queued itself waits behind an execution
  that will drain it (`QueuedBehindExecution`); a message is in exactly one
  place (`EachDmInOnePlace`); and each ends answered, refused, fetched or
  expired (`EveryMessageSettles`), or replaced: the second turn handed to the
  tracker takes the place of the first, whose caller never hears of it.
- `dm_competing`: two flushes pass `isExecutionActive` before either publishes.

**Bounds.** The mailbox lives for one unit and time runs to 2, so messages
expire; the window is as long as the age at which the sweep drops a stamp, the
longest for which `CooldownRespected` holds; the sweep runs at every gated
dispatch. Deadlock is not checked: when every message has settled
and the clock has reached its bound the system rests.

**Fairness.** Timers fire, Discord's requests return, executors end, the
tracker answers (that is `OwedIsAnswered`). That an executor ends is what
`Executors` checks of its calls, but for a remote body that stalls after its
headers: its conversation stays active for good, and what is queued behind it
expires. That case is left to `Executors`.

## SkillBroker

**State.** `files` and `rows` are `agents.d/`, by the name of the file, and
`registrations.db`, by the agent's name; `Safe` is `safeFileName`, by which the
API names the file, while the registrar that restores one names it after the
agent as it is. Which file the loader believes of an agent is `Managed`. `live`
the definitions and executors of the broker, `regs` the registry's entries for
remote agents, `tracked` the card skills recorded for each agent, `fetches` the
discoveries awaiting a card. An executor is identified with the entry it was
built from, so a registration of a former entry can be told from one of the
present entry. `card`, `quiet` and `up` are the environment; `may` is history.

**Actions.** `Upsert` and `Remove` are POST/PUT and DELETE: the bus delivers to
the registrar, then to the broker, before the handler goes on, so file, row and
registry change in one step. `CrashInWrite` and `CrashInDelete` cut that step
between file and row. `Boot` restores missing files from the rows, then
registers; `redeployed` starts without `agents.d/`. `Refresh` and
`DiscoveryReturns` are `_discoverSkills` before and after its await.

**What the runs show.**

- `broker_registry`: declared skills always belong to the live executor,
  although discoveries of earlier entries return late (`DeclaredServed`); what
  the broker has recorded is registered, without which a refresh would never
  repair it (`RecordedIsRegistered`); rows only hold what was acknowledged last
  or cut off by a crash, and so do the files of names that `safeFileName` leaves
  alone and gives to no other agent (`AcknowledgedKept`); and once all is
  quiet the skills of a live agent's card are served (`EventuallyServed`).
- `broker_stale`: a card fetch that outlives a remove registers the skills of
  the removed agent, and nothing takes them away again.

**Bounds.** A managed agent with two entries, one of which declares a skill; an
agent of `agents.yaml`; and a name that `safeFileName` turns into that agent's.
One skill, as skills are registered and dropped one by one; three discoveries
in flight, enough for a late one and those of a boot. Commands, crashes and
card changes are not counted: the state space is finite without.

**Fairness.** A stopped process is started, the refresh timer recurs, a fetch
is answered or fails; after `Settle` it is answered. `_fetchCard` has no
timeout of its own, so that a fetch ends is an assumption about the network; a
fetch that hangs does not stop the next refresh.

## The components of `MCHandlers` and `MCServices`

The other modules each describe one component that shares no state with the
rest. Four modules gather them: `ReviewWork` (`GitHubReview`, `RepoSurveys`,
`DiffSummary`, `ReviewLearning`), `Integrations` (`IssueTools`, `Onboarding`,
`McpServers`, `AgentPool`, `GoogleWatch`), `Exchanges` (`A2AServer`,
`Conversations`, `GoogleFiles`, `AgentMemory`, `ResearchSearch`, `Boot`) and
`RunningWork` (`AgentChat`, `Scheduler`, `HotReload`, `Ceremonies`, `Executors`,
`Checkouts`). A group declares the constants and variables of its components and
what is assumed of them, instantiates each under a letter, and states their
safety properties; the MC modules check and the proof modules prove the same
definitions. Two MC modules extend the groups: a variable `part` names the
component that moves, and the others are at rest in one initial state. That is
the disjoint sum of the components' state graphs and not their product, so each
component keeps its own reachable states, and a property of one holds in the sum
exactly if it holds of the component. A module of two halves that share nothing
(issues and projects, merges and replies, search and flow log, health and drops)
is two parts. The properties of the sums are conjunctions of the components'
own, named in the last section of each group, and of each MC module for what is
only checked; `TypeOK` asks of the component that moves, as the others stand in
one of its initial states. The fairness of `MCServices` is each component's,
restricted to its own part (`WF_linearVars(part = "linear" /\ L!GoStale)`), so
it asks nothing of a component that rests.

Components whose correctness is that something finally happens are in
`MCServices`, the others in `MCHandlers`; `A2AServer`, `GitHubReview` and
`Onboarding` are in both, with larger instances for safety. Two conjuncts
bound `GitHubReview`: `Unapproved` in `MCHandlers` stops at the first approval,
with a webhook evaluation beside the sweep, so that pushes, checks and closing
race it; `OpenAndSound` in `MCServices` leaves out failing checks and closing,
with the sweep alone, and follows the pull request to its merge. `AgesAtRest`
bounds `GoogleWatch`: its token, which a poll asks for when it starts and no
step reads afterwards, ages between polls only. Deadlock is
not checked in either: a component may have nothing left to do.

### Reviews and the repository

- **GitHubReview.** `status`, `ci`, `latest`, `autoMerge` are GitHub's;
  `claimed`, `watch`, `rescued`, `covered` are the process's maps; `eval[e]` is
  where an evaluation (of a webhook or the sweep) awaits and what it has read,
  `run[r]` where a review stands. `Begin` starts an evaluation and `EvalStep`
  takes it from one await to the next, `RunStep` does so for the verdict tools;
  a push makes what is in flight stale. Deliveries may be lost, late or twice.
  Checked: what stands as approved was read by a review
  (`ApprovedWasReviewed`); of one head never two approvals are in flight
  (`OneApprovalInFlight`); a lost review is rescued once (`RescuedOnce`); and,
  once people, CI and network rest, the pull request is merged although every
  webhook was lost (`EventuallyMerged`), as a head a review was submitted under.
  Left out of that: a sweep that hangs, a review a person dismissed, and a head
  pushed after the review. Of the last `merged_unseen` shows that the process
  merges it, which `github.ts:1243` and `:1565` say cannot happen. *Fairness*:
  the sweep recurs while none is under way, each evaluation and review goes on
  unless it hangs (`Hang`: no call of this path has a timeout), the windows of
  the claims lapse, CI moves. A pull request has no more reviews than the one
  page the code reads.
- **RepoSurveys.** A survey is a list of reads; the world goes on between
  them, and any read may fail. Reviews are read as one page, the oldest, and
  check runs as one page, of which a cancelled one counts as passed, as in the
  code. What a survey claims was so at some moment of it, and a pull request
  said to be ready passed the checks of the head it is named with
  (`ClaimsWereSo`); cancelled checks, checks beyond the page and reviews beyond
  the page are its named exceptions.
- **IssueTools.** `Ask`, `ListRecent`, `CreateIssue` are the route cut at its
  awaits. An issue filed twice was not to be seen in the other's listing
  (`RepeatsWereUnseen`), an answer names an issue of the title asked for
  (`AnswersFit`). The registry of projects, with the sidecar's answers in
  flight, is the other part: a project is known once (`OneProjectEach`).
- **DiffSummary.** Two reads with a push between them, then retrieval. A
  structural pass is called optional only for a change that is small in both
  reads (`OptionalIsSmall`); a pattern the budget leaves out is at most as alike
  as each that was kept and would not have fitted (`BestAreKept`).
- **ReviewLearning.** A merge's chunks and symbols go to the store one await
  after the other, while it may be down or be created. Points have the ids the
  code computes, of any hash: a chunk's names its pull request, a symbol's only
  its file, name and line, so a later merge may take its place. A merge of which
  nothing was passed over is there line for line, with its symbols, but for what
  was put under the same id since (`MergesAreWhole`). The upsert of a learning is
  acknowledged before searches see it (`shown`, `Apply`); the counts are those
  of the replies (`CountsAreReplies`), unless one searched between another's
  search and the time its upsert was seen, which `muddled` names.
- **Checkouts.** `tree`, `fresh` and `inflight` are a head's directory and the
  clone under way; three reviews, two of them under the cleaning process. A
  review is never handed half a checkout (`ServedWhole`) and every review ends
  (`ReviewsEnd`), but for one whose token never comes, or who joins the clone
  that waits for it. *Fairness*: a handler goes on, git ends (it has a timeout),
  a token comes or not unless its fetch hangs (`getToken` has no timeout).

### Calls and their callers

- **A2AServer.** The executions of one task share topics and the entry of
  `activeCancels`; `subs` is the bus's list of subscribers, which the delivery
  walks while handlers leave it, so that the next one is passed over, as
  `lib/bus.ts` does. `Reply`, `Progress`, `CancelTask`, `Heartbeat` are the
  callbacks of `BusAgentExecutor.execute`; `Ask`, `Answer`, `Expire` a
  question; `Dispatch`, `ChatReply`, `ChatTimeout` the gateway; `cache` the
  response cache with its eviction. An ended stream says nothing more
  (`SilentAfterTheEnd`, in `InOrder`), the cancel hook is that of an open execution
  (`HookIsOpen`), an answer taken with success was heard (`AcceptedWasHeard`),
  every execution ends (`EveryExecutionEnds`). *Fairness*: every request is
  answered (what dispatcher and tracker promise), timers fire.
- **AgentChat.** A dispatch is with its caller, active, tracked, parked or
  cached; a poll puts them together. A restart parks the tracker's tasks until
  their executors are there (`Promote`), and a poll does not see them
  meanwhile. A caller with a handle is told what became of its dispatch, a
  parked one excepted (`PollKnows`), nobody waits for what is over
  (`WaitsForGood`), dispatches end (`DispatchesEnd`). *Fairness*: timers,
  executions, tasks, the tracker's sweep.
- **Executors.** One agent, remote or deep, ill or well; calls through the
  circuit breaker, whose transitions race calls sent before. A task still at
  work is named to whoever follows it (`HandedOver`), calls end unless a card,
  an answer or a stream stalls after its headers (`CallsEnd`), and a circuit
  whose agent is well for good stays closed (`StaysClosed`). *Fairness*: calls
  end by their timers, new calls keep coming (strong fairness of sending: the
  circuit blocks them again and again), the recovery window passes.
- **FleetHealth.** Outcomes, and drops, by tick of the rolling windows;
  failures that go on are told of again and again (`FailingIsTold`,
  `StormIsTold`). *Fairness*: time, the ceremony's evaluation, rediscovery,
  the alert skills.

### Definitions, timers and boot

- **HotReload.** Files as people and the API leave them, the polling watcher,
  `running` and `regs`. A running agent is registered for all its skills
  through every reload (`LiveServed`); once the files rest every definition
  that loads runs (`EditsTakeEffect`). *Fairness*: the watcher polls.
- **McpServers.** Edits overtake the connections of earlier edits; the tools
  of the saved edit, once listed, stay (`CurrentServed`).
- **Scheduler.** `when` is the distance to the next occurrence in the classes
  the code compares; commands, edits, restarts. A one-shot is published once
  unless its file cannot be deleted (`FiresOnce`), a removed or paused schedule
  is silent (`StoppedIsSilent`), an enabled one fires (`EnabledFires`).
  *Fairness*: the process is started, time passes, timers and watcher run.
- **Ceremonies.** Edits seen by size, runs with timeouts, late replies. What
  is shown as running runs (`RunningIsTrue`), runs end (`RunsEnd`).
  *Fairness*: only the run's timeout.
- **Boot.** Core plugins, then the registry one await after the other, then
  the server; crash and signal at any point. A firing is published to who is
  there. A request is dropped only for want of a registrar that failed, alerts
  are evaluated on a health that is there, and a process that looks like
  production serves only with a key, whatever the environment each start finds
  (`env`; `BootOrder`, in `InOrder`).
- **Onboarding.** Requests for one project or one repository overlap; a crash
  between webhook and folder. A repository has no more webhooks than projects
  could list at once and listings that left ours out, by failing or by being
  one page (`HooksAreFew`); a slug is taken exactly while a request for it runs
  (`TakenWhileRunning`); askers are told (`AskersAreTold`), unless the App's
  token never comes (`TokenHangs`). *Fairness*: each request goes on, its calls
  having timeouts but for the token's.

### Conversations, memory and Google

- **Conversations.** A delivery is received (twice after a RESUME), handled
  over an await, published, answered, perhaps twice (`AnswerAgain`, the
  tracker's late poll); `pending` is keyed by correlation id, so turns of one
  conversation share it. A restart loses the handles and keeps the requests
  that were tracked (`orphaned`). One reply per message, and an answer is pushed
  elsewhere only if its handle was taken, by another turn or by its own first
  answer, or lost in a restart (`RepliesFit`); the rate holds across restarts
  (`RateKept`).
- **AgentPool.** Logins that end after the pool was reloaded; whoever is in
  the pool can write, unless a late failure took its entry (`PoolIsAlive`).
- **LinearAgent.** The webhook's prompt, the recovery poller, the run, and the
  tokens. Once authorised the agent stays so (`StaysAuthorized`); a prompt is
  answered in the end whatever was lost, as long as its session is among those
  one query of the poller lists (`PromptIsAnswered`; `newer` counts the sessions
  before it, `PollPage` is the code's 25). *Fairness*: the
  session goes stale at Linear, handlers and sweeps go on, refreshes return.
- **GoogleWatch, GoogleFiles.** Polls under a configuration that changes; a
  mail is published once by a service, but for what `shared` names
  (`MailsOnce`), a watched label is polled (`WatchedIsPolled`); what was
  written is kept or was replaced by who had or had not read it
  (`WrittenIsKept`).
- **AgentMemory, ResearchSearch.** Turns are kept, summarised or excused
  (`NothingForgotten`); a hit of both lists is before a hit of one
  (`BothComeFirst`; scores are fractions, compared by cross products). A row of
  the flow log is one of a correlation id, which the turns of a conversation
  share: it shows how far one of them has got, and is there as long as all began
  within the retention (`ShownAsItIs`).

Sorting is modelled by its outcome: `Orders` is the set of the orders in which
no element is before one it must follow, and the step takes any of them. Where
the code's sort is stable, or takes the first of equals, the relation says what
is known of equals: in `DiffSummary` nothing, as what is found is a set; in
`ResearchSearch` the place in `Found`.

**What the runs show.** `handlers`: the safety of eighteen parts, 955 544
states. `services`: safety and liveness of twelve, 200 348 states.
`merged_unseen`: `GitHubReview` by itself, with the sweep and one review; a head
pushed after the approval is merged with no review submitted under it.

**Bounds.** Each instance has the two or three actors that can meet in one
entry: two polls, two reviews of a head and one of another, three deliveries,
three edits of a server (the one saved, one still connecting, one replaced).
Sizes and windows are the smallest at which the case that matters happens: a
cache of one entry evicts, a page of one issue, review or session hides the
second, a rate of one refuses, a budget of 50 drops the second pattern. Data
that only has to be equal or not (titles, slugs, symbols) is given by the small
functions at the head of the MC modules. Crashes and restarts are one or two:
state that survives is a function of the disk, and a second crash finds the
same.

## What is proved

Each proof module extends its component, or its group, and holds for every
value of the constants that meets the named assumptions there; TLC evaluates
those on every run. All the safety properties of the passing runs are proved
but for the type invariants of the two MC modules (see below).

- **TaskTrackerProofs** (`TrackerAssumption`): `TypeOK`, `OwedIsHeld`,
  `SettledIsForgotten`, `AnswersAreOwed`, `DuplicatesComeFromPollsInFlight`,
  `PollClockIsMonotone`. The inductive invariant is
  `Inv == TypeOK /\ Filing /\ OwedIsHeld /\ SettledIsForgotten`. `Filing` says a
  call sits in each map only under its own correlation id; without it,
  forgetting an id could drop another call. `OwedIsHeld` needs
  `SettledIsForgotten`, because what a sweep answers it also forgets, and the
  two must not meet in one call. Lemmas about the loop (`WalkEffect`,
  `WalkKeeps`, `WalkStamps`) are stated once and used by every action that
  resumes it.

  `OnlyOwedIsAnswered` is the half of the reply contract that the code keeps
  whatever pushes arrive and however many sweeps overlap: what is filed is owed
  (`FiledIsOwed`), so a sweep that starts, goes on or passes a call
  (`SweepStartAnswersOwed`, `WalkOnAnswersOwed`, `WalkAnswersOwed`) and a push
  (`HandleCallbackAnswersOwed`) answer owed calls, or again the one whose poll
  was awaited.

  `Polls` adds what the clock and the pushes need: no time stored lies ahead of
  the clock, no call is in both maps, and the id of a push being read has a row
  waiting only while it also has a live task. `RehydrationUnreachable` is the
  reason of the finding `tracker_push_lost`: a push that has passed the route
  never reaches the branch that would re-find a persisted row in `pending`
  (`PushNeverRehydrates`, which no run checks), as without a live task the route
  has answered 404.
- **SkillBrokerProofs** (`BrokerAssumption`): `TypeOK`, `DeclaredServed`,
  `RecordedIsRegistered`, `AcknowledgedKept`. The inductive invariant adds
  `Named`: an entry is in the table and in the registry under its own name, and
  in the API's file of a plain name under that name only. `AcknowledgedKept` is
  of the rows for every agent, and of the files for the plain names: for a name
  that `safeFileName` changes, the registrar writes another file than the API
  (`PlainIsSafe`, `HomeIsFiled`, `FileWritten`). `RecordedIsRegistered` rests
  on `DeclaredServed`: a skill of the new card that is not added is either
  recorded, hence registered, or declared, hence registered.
- **DmPipelineProofs** (`DispatcherAssumption`, `PipelineAssumption`):
  `TypeOK`, `ActiveMeansRunning`, `QueuedBehindExecution`, and
  `CooldownRespected` for windows no longer than `SweepAge`, an assumption of
  that theorem alone: an override above the sweep's 60 s is forgotten early. The
  strengthenings: a flush carries direct messages only (`FlushesAreDms`); the
  cooldown map holds every stamp that still cools (`StampsHeld`), which is what
  the sweep keeps. `QueuedBehindExecution` rests on `ActiveMeansRunning`: a
  batch is queued on the strength of an entry of `activeExecutions`.
  `EachDmInOnePlace` holds for any messages and conversations; a turn handed
  over to the tracker while another of its conversation is there replaces it,
  and the replaced message has the outcome `replaced` from then on
  (`ReplacedLocated`). The inductive invariant `Located` splits the count into
  six kinds of place, of which a received message is in exactly one (`Placed`)
  and once (`Once`); both need that whatever is kept under a correlation id
  belongs to it (`Filing`). `DispatchMoves` and `EndTurnMoves` say once where a
  dispatch and the end of a turn move messages, for the actions that make one.

The components of a group share no state, so each is proved on its own
(`G!Spec => []G!...`), and a theorem at the end of the module joins them to the
property the run checks.

- **ReviewWorkProofs** (`PushesAreCounted`, `ChangesAreCounted`,
  `LessonsAreCounted`, `MergesAreCounted`). `ApprovedWasReviewed`,
  `OneApprovalInFlight`, `ReviewsKnow` (with `LessonsAreWhole`). *Approvals*,
  for any number of webhooks and reviews at once and `Registered` a Boolean:
  whoever has read the reviews and goes on saw one (`Reviewed`), whoever
  approves holds the claim (`KeyHeld`). *Surveys*: `ClaimsWereSo` speaks of
  facts at some time, so the invariant carries a memory: a fact that is so and
  is asked for is in `since` (`SoIsRemembered`), and what was read to hold is in
  it (`ReadsWereSo`), but for the facts that always hold (`Unremembered`) and
  for an approval read from a page of reviews that does not show them all. That
  a fact read to hold is so when the page shows them all is `HoldsIsSo`.
  *Summaries*: what is called optional was small in both reads; of the patterns
  found, the least number that must go for the rest to fit does go, from the end
  least alike (`BestAlwaysKept`). *Merges*: what a merge has passed is stored,
  item by item (`Storing`), unless something missed it, and an upsert under the
  same id replaces one item only (`PutKeeps`); that the chunks of a long file
  cover it and overlap is arithmetic on the stride (`ChunksAre`, `ChunksCover`),
  and that the symbols are those of the added lines rests on `Placed`: numbered
  by how many elements of a finite set of places come no later, each number has
  one place. *Replies*: without an overlap the points add up to what was
  recorded (`Counting`, `CountsAlwaysReplies`).
- **IntegrationsProofs** (`EditsAreCounted`, `PagesAreCounted`,
  `WindowsAreCounted`, `AgentsAreKnown`, `ProjectsAreListed`,
  `RequestsAreFinite`). `OneOfEach`, `ConfiguredServes`. *Issues*:
  `UnseenSoFar` adds that a request about to file has not seen what it would
  repeat, and that one that has filed asks no more. *Onboarding*: requests for a
  slug run alone (`RunAlone`); for `HooksAreFew` the webhooks there are and the
  requests between listing and creating are counted together (`HooksCounted`),
  with the cardinality theorems of the library. *Pool*: each function that a
  reload applies, one after the other, keeps both halves of `PoolIsAlive`
  (`EntriesAlive`, `LiveInPool`), stated of any clients and pool. *Mail*: what
  was published is remembered, and of what is remembered, or fetched by two
  polls, `shared` tells (`MailKnown`).
- **ExchangesProofs** (`MessagesAreMarked`, `RatesAreCounted`, `CapsAreCounted`,
  `CallsTalk`, `RetentionIsCounted`, `RanksAreCounted`, `RegistrarsServe`).
  `HookIsOpen`, `InOrder`, `RepliesFit`, `MemoryKeeps`, `BothComeFirst`.
  *Streams*: the delivery passes over subscribers while they leave, so silence
  after the end cannot rest on leaving; it rests on `SubscribedIsOpen` and on
  `EndedIsSettled`. *Conversations*: one delivery of a message is taken
  (`TakenOnce`), a handle is of a message nobody replied to
  (`HandleIsUnanswered`), a reply goes to the message of a turn
  (`RepliesAnswerTurns`), and a request still to be answered, or answered while
  a poll of its task was in flight (`late`), has its handle, or lost it in a
  restart (`orphaned`) or to a reply of its conversation (`RequestsAreServed`).
  `RateKept` counts over sets of any size: within a window, what was let through
  is among the limiter's hits (`PassedIsCounted`). *Memory*: the transcript
  being summarised covers the turns it will replace (`SummaryCovers`). *Flow
  log*: a row has the creation of one of the turns that share it, and while all
  of them are young it is there (`LogInv`). *Ranking*: both lists name a row
  once, so places are well defined; for lists no longer than `RRF_K`, 1/(`RrfK`
  + i) + 1/(`RrfK` + j) exceeds any single term, and a sorted order keeps that
  through the cut at `K`. The condition is in `BothComeFirst` itself, as the API
  allows lists of 100 and `RRF_K` is 60. *Boot*: the entries loaded are
  installed or have failed, and a process that serves was guarded in its
  environment (`BootInv`); the order of the registry gives the rest.
- **RunningWorkProofs** (`EntriesAreKept`, `FilesAreNumbered`).
  `PollKnows`, `FiresOnce`, `RunningIsKnown`, `ServedWhole`. *Chat*: cached
  means over, over means cached or lost, and what is dispatched and not over is
  running, tracked, parked in the rows of the tracker after a restart, or lost
  (`DispatchedIsAtWork`), in one of these ways only (`AtWorkInOneWay`).
  *Schedules*: a publication that deletes its file, a removal and a pause leave
  no timer, and no file that a start or a sweep would load (`Spent`,
  `Disarmed`); one whose unlink fails is not counted. *Executors*:
  what a stream has shown names its task (`ShownIsNamed`), which every fallback
  needs. *Checkouts*: a tree that grows has its clone under way
  (`GrowingIsCloned`), so that no later review takes it for a hit.

*Sums and folds.* The prover cannot instantiate an induction theorem, so what
`MapThenSumSet` and `FoldSeq` add up to is not proved by induction over the
set but by a smallest counterexample: of the subsets of a finite set for which
a statement fails there is one of least cardinality (`SmallestSubset`), and
taking an element out of it gives the contradiction (`SumExists`, `SumsAgree`,
`SumWithout`). The operators that stay opaque to it, `SelectSeq` and `SortSeq`, are
not used where a theorem is about their result: `First` and `Symbols` choose by
place, and sorts are the sets `Orders`.

**Only model-checked.**

- Liveness under fairness, which is beyond the prover: `OwedIsAnswered`, and
  with it that the tracker implements `ReplyContract` (`ImplementsContract`, for
  one sweep at a time and without pushes; `AnswersAreOwed` is what of its safety
  holds with them and is proved),
  `EveryMessageSettles`, `EventuallyServed`, and of `services`
  `PromptIsAnswered`, `EventuallyMerged`, `DefinedTakesEffect`,
  `FailureIsSeen`, `Ends`.
- The type invariants of the MC modules. The proofs carry what they need of
  them, and `TypeCorrect` of `ReviewWorkProofs` is that of `GitHubReview`; the
  others are still to be proved.
- `FleetHealth` and `LinearAgent`, whose properties are liveness.

## Seen while modelling

The six runs that expect a violation are findings of `PROJECT.json`. What
follows was met while reading; where a property would be violated by it, the
property names it as an exception.

*Task tracker, dispatcher, broker*

- A window given by `WORKSTACEAN_COOLDOWN_MS_<SKILL>` above 60 s is forgotten
  early: the sweep of the cooldown map drops every stamp of that age
  (`skill-dispatcher-plugin.ts:921`).
- After a restart a task may be resumed by the executor of another agent: the
  resolver falls back to any executor of the skill (`src/index.ts:207`), while
  `task-tracker.ts:85` speaks of the same executor.
- The token of a push is checked before its body is read, the body is applied
  to whatever the correlation id maps to afterwards.
- A second long-running turn of a conversation replaces the first in the
  tracker, which then never answers it (the outcome `replaced` of `DmPipeline`).
- `registration-store.ts` swallows errors and the API looks only at the file,
  so a registration may be acknowledged and not be durable.
- The registrar names a file by the agent, the API by `safeFileName`. For a name
  that the function changes, a boot writes a second file, and the removed agent
  comes back although `control-plane-registrar-persistence.test.ts:75` says "no
  zombie re-materialize"; two names that it makes equal overwrite each other.
- `docs/architecture/flow-a2a-discovery.md:195` says a card refresh does not
  unregister removed skills; the code does.

*Reviews and GitHub*

- That a push after the approval is merged unreviewed (`merged_unseen`) is said
  impossible in two places, `github.ts:1243` and `:1565`.
- `src/api/github.ts`: an unreachable repository counts as unprotected in one
  survey and as green in the CI health; the diff summary fails open on refused
  counts. Of a head's checks 50 are read (`:211`) and of its reviews the 30
  oldest (`:229`), so "ready" may be said of a head with a failing check or
  with changes requested later; cancelled, stale and startup_failure checks
  count as passed (`:217`).
- The fetches of `getToken` have no timeout (`github-auth.ts:29`). The reviews,
  the checkout cache, the clawpatch runs and the onboarding await it; one that
  stalls holds the entry of its head or its slug for good. The liveness
  properties exempt what hangs so.
- Learning: collections are created only at boot, so when Qdrant is down then,
  indexing never starts, while `review-learning-plugin.ts:64` says "no-ops
  until Qdrant is reachable"; `collections.ts:36` says dropped vectors rebuild
  from the source, but nothing indexes them again. Two replies at once lose a
  count or make two points. Line numbers of symbols are off after context lines
  in between (`symbol-extractor.ts:79`). A point's id leaves out the pull request
  (`code-patterns-indexer.ts:38`), so a later merge replaces an earlier one's
  symbols of the same lines, and upserts are acknowledged before they are
  applied (`qdrant/client.ts:129`).
- Checkouts: a hit renews the directory's time, so an entry outlives the hour
  its token lasts (`checkout-cache.ts:18` says otherwise); the pruning by size
  can remove a tree a review reads; a crash in a clone leaves half a directory,
  which is served while hits keep it fresh.

*Calls*

- No A2A body has a timeout after its headers: a stream's
  (`a2a-executor.ts:128`), a card's, a blocking call's (`:154`). `CallsEnd`
  exempts them. Capabilities changed during a
  call may skip the fallback; `HandedOver` exempts it.
- After a restart a poll of a chat (`ava-tools.ts:256`) answers unknown for a
  task in the tracker's rows, until its agent is found again and a sweep revives
  it, and `chat_with_agent` stops on it.
- A deep agent whose final message is empty returns its previous answer.
- HALF_OPEN lets every call through; `circuit-breaker.ts:7` says one.
- Outcomes hydrated before their agent is discovered count as a system
  actor's. `incidents.yaml` is read, changed and written by each request: two
  at once lose one.
- The hop guard of the routes forgets after a quiet window: a cycle slower
  than 30 s is not cut.

*Definitions, timers, boot*

- Renaming an agent inside its file leaves the old one running; after a move of
  the file, a later typo in it drops the live agent; of two files with one name
  both are registered at the start.
- MCP: a server removed while it connects gets its tools registered; of
  overlapping edits both are; a failing connection deletes another edit's
  client; a connection that times out leaves its process.
- A missed one-shot fires before the router exists and nobody hears it
  (`docs/reference/scheduler.md:122` says it fires); a one-shot beyond 2^31-1 ms
  fires at that cap; one missed by more than a day fires at the start. A
  one-shot whose unlink fails fires again at the next start
  (`scheduler.ts:237`). Removing a schedule whose file has another name leaves
  the file.
- The first 5 s of ceremonies lose an edit; edits that keep the size, and
  deletions, are not noticed.
- `index.ts` shuts down without draining; runs under way are cut. In
  production without a key the plugins are installed before the process exits.
- Onboarding: only the first page of a repository's webhooks is listed, so one
  behind it is created again; messages of created repositories lack what
  `_receive` requires and are refused, although
  `docs/how-to/onboard-a-project.md:16` calls it automatic; a second run makes a
  second Drive folder (`docs/reference/onboarding-plugin.md:19` says
  idempotent), and `POST /api/onboard` does not wait for the result as `:84`
  says; with credentials half set the run throws and nobody is told.

*Conversations, memory, Google*

- Two turns of a conversation under way: the first answer lands on the latest
  message, the second goes to the digest channel or nowhere. An error response
  shows nothing and leaves the handle; an unmatched message leaks its own.
- After a restart the answers of tracked requests find no handle and go to the
  digest channel (`outbound.ts:110`).
- An operator's direct message is also pushed to the digest channel: the two
  outbound patterns overlap (`operator-routing.ts:128`). The agent a
  conversation sticks to (`router-plugin.ts:72`) is not kept for messages that
  went through the mailbox.
- Clients made by a reload of the pool handle no messages; agents named by
  `channels.yaml` alone are destroyed by it; the late failure of an old login
  deletes the new client; `workspace/agents` does not trigger it.
- Linear's OAuth callback is accepted with no state pending, and a refresh in
  flight clears the pending state.
- The Linear poller asks for 25 sessions of any status
  (`linear-agent-session-poller.ts:43`): a stale one behind 25 newer ones is not
  recovered until they go.
- Turns said while their conversation is summarised are deleted with it
  (`conversation-harvester.ts:98`); failing chunks do not keep the turns.
- The kind asked for filters only half of the research search
  (`research-store.ts:187` and `:211`); both-first ranking holds only for lists
  no longer than `RRF_K`. A task handed to the tracker stays active in the flow
  log for good. Turns of a conversation share a row of it
  (`skill-dispatcher-plugin.ts:356`): the end of one shows complete while the
  other runs, and the row is pruned by the age of the first
  (`flow-store.ts:141`).
- Google: a calendar added to the configuration without a change of interval is
  not polled before a restart (`google.ts:136`); only the ten newest unread
  mails are listed; a reload with a poll in flight publishes mail again; an
  append whose read fails replaces the file, and of two overlapping appends one
  is lost; Docs answers success for an insert that was refused.

## Not modelled, and why

Text of messages, formatting, logging, the language models, the database and
network libraries. Databases are reliable and atomic per statement unless a
module says otherwise. Integers do not overflow; the cap of `setTimeout` is in
`Scheduler`.

- *Skill A/B tests*: no code publishes `skill.ab_test.register`, so no test
  ever runs in the process.
- *Wiring routes*: a route rewrites one message and keeps no state but the
  counter of its hop guard.
- *Channels for development*: bridges without state.
- *Dashboard, MCP tool server, scripts*: outside the running process.
- Of components modelled in part, `PROJECT.json` names what is left out: mostly
  requests that publish one message or translate one into another, listings,
  tool bodies, and functions only the tests call (`parsePatch`,
  `validateComments`, `fetchPRReviewData`, `isLowSignalPattern`).
