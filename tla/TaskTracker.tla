----------------------------- MODULE TaskTracker -----------------------------
(***************************************************************************)
(* The tracker of long-running A2A tasks (src/executor/task-tracker.ts),   *)
(* its durable rows (task-tracker-store.ts) and the push-notification      *)
(* route that feeds it (src/api/a2a-callback.ts).                          *)
(*                                                                         *)
(* A dispatched call whose agent is still working is handed to track().    *)
(* From then on three actors may settle it: a sweep that polls the agent,  *)
(* the agent's own push callback, and the restart path, which resumes or   *)
(* escalates the rows found in the store.  JavaScript runs each stretch of *)
(* code between two awaits without interruption, so an action here is such *)
(* a stretch; sweeps and callbacks interleave at their awaits.             *)
(***************************************************************************)
EXTENDS Naturals, FiniteSets

CONSTANTS
  Call,          \* dispatched calls, each with its own remote task
  Cid,           \* correlation ids
  CidOf,         \* the correlation id a call is dispatched under
  Agent,         \* remote agents
  AgentOf,       \* the agent whose executor ran the call
  Targeted,      \* calls dispatched with targets[0] naming that agent
  Serves,        \* the agents whose executors the skill of a call routes to
  Sweepers,      \* overlapping runs of _sweep(); bounds their number
  None,          \* absent map entry
  PollInterval, MaxTracking, Grace,   \* pollIntervalMs, maxTrackingMs, rehydrateGraceMs
  MaxTime,       \* bound on the clock
  MaxRestarts,   \* bound on the number of restarts
  MaxPosts       \* bound on push requests being read at once

ASSUME TrackerAssumption ==
  /\ CidOf \in [Call -> Cid]
  /\ AgentOf \in [Call -> Agent]
  /\ Targeted \subseteq Call
  /\ Serves \in [Call -> SUBSET Agent]
  /\ None \notin Call \union Cid \union Agent
  /\ PollInterval \in Nat \ {0}
  /\ MaxTracking \in Nat
  /\ Grace \in Nat
  /\ MaxTime \in Nat
  /\ MaxRestarts \in Nat
  /\ MaxPosts \in Nat

VARIABLES
  now,            \* Date.now()
  bootAt,         \* when this process constructed the tracker
  restarts,       \* restarts so far
  registered,     \* agents with an executor in the registry
  remote,         \* state of the task at the agent
  handed,         \* calls ever passed to track()
  tasks,          \* live map, by correlation id
  pending,        \* rows loaded at boot, not yet resumed
  store,          \* rows in the database
  registeredAt,   \* field of the task object
  lastPolledAt,   \* field of the task object
  via,            \* the agent whose executor the task object holds
  sweep,          \* where each run of _sweep() awaits
  posts,          \* push requests whose body is being read
  replies,        \* responses published on each call's reply topic
  deltas          \* times the world-state deltas of a task were published

vars == <<now, bootAt, restarts, registered, remote, handed, tasks, pending, store,
          registeredAt, lastPolledAt, via, sweep, posts, replies, deltas>>

RemoteState == {"working", "input-required", "terminal"}
Time == 0 .. MaxTime
Idle == [at |-> "idle", call |-> None, now |-> 0]

TypeOK ==
  /\ now \in Time
  /\ bootAt \in Time
  /\ restarts \in Nat
  /\ registered \subseteq Agent
  /\ remote \in [Call -> RemoteState]
  /\ handed \subseteq Call
  /\ tasks \in [Cid -> Call \union {None}]
  /\ pending \in [Cid -> Call \union {None}]
  /\ store \in [Cid -> Call \union {None}]
  /\ registeredAt \in [Call -> Time]
  /\ lastPolledAt \in [Call -> Time]
  /\ via \in [Call -> Agent]
  /\ sweep \in [Sweepers -> [at : {"idle", "poll", "record"},
                             call : Call \union {None}, now : Time]]
  /\ posts \subseteq [call : Call, state : RemoteState]
  /\ replies \in [Call -> Nat]
  /\ deltas \in [Call -> Nat]

\* The clock starts one poll interval after the epoch: a task with
\* lastPolledAt = 0 is due at once, as it is with real timestamps.
Init ==
  /\ now = PollInterval /\ now \in Time
  /\ bootAt = now
  /\ restarts = 0
  /\ registered = Agent
  /\ remote = [c \in Call |-> "working"]
  /\ handed = {}
  /\ tasks = [i \in Cid |-> None]
  /\ pending = [i \in Cid |-> None]
  /\ store = [i \in Cid |-> None]
  /\ registeredAt = [c \in Call |-> 0]
  /\ lastPolledAt = [c \in Call |-> 0]
  /\ via = AgentOf
  /\ sweep = [s \in Sweepers |-> Idle]
  /\ posts = {}
  /\ replies = [c \in Call |-> 0]
  /\ deltas = [c \in Call |-> 0]

trackerMaps == <<tasks, pending, store, registeredAt, lastPolledAt, via>>
outputs == <<replies, deltas>>
environment == <<now, bootAt, restarts, registered, remote>>

-----------------------------------------------------------------------------
(* Helpers *)

\* _forget: the entry leaves memory, the rehydration map and the database.
Forget(m, gone) == [i \in Cid |-> IF i \in gone THEN None ELSE m[i]]

CidsOf(calls) == {CidOf[c] : c \in calls}

Entries(m) == {m[i] : i \in Cid} \ {None}

AddOne(count, calls) ==
  [c \in Call |-> IF c \in calls THEN count[c] + 1 ELSE count[c]]

\* resolveExecutor of index.ts over ExecutorRegistry.resolve: the named agent
\* when it is registered, else whoever the skill routes to.
Resolvable(c) ==
  IF c \in Targeted /\ AgentOf[c] \in registered
    THEN {AgentOf[c]}
    ELSE registered \intersect Serves[c]

AgedOut(c, at) == at > registeredAt[c] + MaxTracking

\* A task is due once its poll interval has passed.  Mutant: never checked.
PolledEverySweep(c, at, polled) == TRUE
Due(c, at, polled) == at >= polled[c] + PollInterval

\* The rows left after _forget.  Mutant: the database row is kept.
RowsKept(gone) == store
RowsWithout(gone) == Forget(store, gone)

\* _promoteRehydrated: what becomes of each pending row when a sweep begins.
Resumed == {c \in Entries(pending) : Resolvable(c) # {}}
\* Mutant: the unresolvable rows wait for ever.
NoneEscalated == {}
\* Mutant: the rows just resumed are escalated too.
ResumedToo == {c \in Entries(pending) : AgedOut(c, now) \/ now >= bootAt + Grace}
Interrupted ==
  {c \in Entries(pending) \ Resumed : AgedOut(c, now) \/ now >= bootAt + Grace}

\* The loop of _sweep from a point where it runs to its next await.  `live`,
\* `rows` and `polled` are the maps as the step left them so far, `settled`
\* the calls it has answered, `gone` the ids it has forgotten.  Tasks found
\* past maxTrackingMs on the way are answered with a timeout; the loop stops
\* at a due task, awaiting pollTask, or runs off the end of the map.  The
\* iteration order of the Map is abstracted: any due task may come first.
Walk(s, at, live, rows, polled, settled, gone) ==
  LET aged == {c \in Entries(live) : AgedOut(c, at)}
      due == {c \in Entries(live) \ aged : Due(c, at, polled)}
  IN \E stop \in due \union {None}, out \in SUBSET aged :
       /\ stop = None => due = {} /\ out = aged
       /\ tasks' = Forget(live, CidsOf(out))
       /\ pending' = Forget(rows, CidsOf(out))
       /\ store' = RowsWithout(gone \union CidsOf(out))
       /\ replies' = AddOne(replies, settled \union out)
       /\ lastPolledAt' = [c \in Call |-> IF c = stop THEN at ELSE polled[c]]
       /\ sweep' = [sweep EXCEPT ![s] =
                      IF stop = None THEN Idle
                      ELSE [at |-> "poll", call |-> stop, now |-> at]]

\* The continuation of a sweep that has just settled its task, or none.
WalkOn(s, settled) ==
  LET gone == CidsOf(settled)
  IN Walk(s, sweep[s].now, Forget(tasks, gone), Forget(pending, gone),
          lastPolledAt, settled, gone)

-----------------------------------------------------------------------------
(* Actions *)

Tick ==
  /\ now < MaxTime
  /\ now' = now + 1
  /\ UNCHANGED <<bootAt, restarts, registered, remote, handed, trackerMaps,
                 sweep, posts, outputs>>

\* The broker discovers the agent again after a restart.  (An agent that
\* unregisters later changes nothing: live tasks hold their executor.)
Register(a) ==
  /\ registered' = registered \union {a}
  /\ UNCHANGED <<now, bootAt, restarts, remote, handed, trackerMaps, sweep,
                 posts, outputs>>

\* The agent works on its side; a terminal task stays terminal.
RemoteMoves(c) ==
  /\ c \in handed
  /\ remote[c] # "terminal"
  /\ \E st \in RemoteState : remote' = [remote EXCEPT ![c] = st]
  /\ UNCHANGED <<now, bootAt, restarts, registered, handed, trackerMaps, sweep,
                 posts, outputs>>

\* Mutant: filed under the id of the remote task.
TrackByTask(c) ==
  /\ c \notin handed
  /\ now + MaxTracking < MaxTime
  /\ handed' = handed \union {c}
  /\ tasks' = [i \in Cid \union {c} |-> IF i = c THEN c ELSE tasks[i]]
  /\ store' = [store EXCEPT ![CidOf[c]] = c]
  /\ registeredAt' = [registeredAt EXCEPT ![c] = now]
  /\ lastPolledAt' = [lastPolledAt EXCEPT ![c] = now]
  /\ UNCHANGED <<environment, pending, via, sweep, posts, outputs>>

\* track(): the dispatcher hands over a call.  Registration is allowed only
\* while the clock can still reach the end of its tracking window.
Track(c) ==
  /\ c \notin handed
  /\ now + MaxTracking < MaxTime
  /\ handed' = handed \union {c}
  /\ tasks' = [tasks EXCEPT ![CidOf[c]] = c]
  /\ store' = [store EXCEPT ![CidOf[c]] = c]
  /\ registeredAt' = [registeredAt EXCEPT ![c] = now]
  /\ lastPolledAt' = [lastPolledAt EXCEPT ![c] = now]
  /\ UNCHANGED <<environment, pending, via, sweep, posts, outputs>>

\* The interval timer fires: a run of _sweep promotes the rehydrated rows and
\* walks the map with the time it read at its start.
SweepStart(s) ==
  LET live == [i \in Cid |-> IF pending[i] \in Resumed THEN pending[i]
                             ELSE IF pending[i] \in Interrupted THEN None
                             ELSE tasks[i]]
      rows == Forget(pending, CidsOf(Resumed \union Interrupted))
      polled == [c \in Call |-> IF c \in Resumed THEN 0 ELSE lastPolledAt[c]]
  IN /\ sweep[s].at = "idle"
     /\ \E pick \in [Resumed -> Agent] :
          /\ \A c \in Resumed : pick[c] \in Resolvable(c)
          /\ via' = [c \in Call |-> IF c \in Resumed THEN pick[c] ELSE via[c]]
     /\ Walk(s, now, live, rows, polled, Interrupted, CidsOf(Interrupted))
     /\ UNCHANGED <<environment, handed, registeredAt, posts, deltas>>

Polling(s) == sweep[s].at = "poll"

\* tasks/get answers what the agent knew when it was asked; an executor of
\* another agent does not know the task, and an error reads as no news.
MayReport(c, st) == via[c] = AgentOf[c] /\ remote[c] = st

PollNoNews(s) ==
  /\ Polling(s)
  /\ WalkOn(s, {})
  /\ UNCHANGED <<environment, handed, registeredAt, via, posts, deltas>>

\* No approval gate is wired: a task that asks for input ends as a failure.
PollInput(s) ==
  /\ Polling(s)
  /\ MayReport(sweep[s].call, "input-required")
  /\ WalkOn(s, {sweep[s].call})
  /\ UNCHANGED <<environment, handed, registeredAt, via, posts, deltas>>

PollTerminal(s) ==
  /\ Polling(s)
  /\ MayReport(sweep[s].call, "terminal")
  /\ deltas' = AddOne(deltas, {sweep[s].call})
  /\ sweep' = [sweep EXCEPT ![s].at = "record"]
  /\ UNCHANGED <<environment, handed, trackerMaps, posts, replies>>

\* The fetch's timer is cleared at the headers: a body that stalls after them
\* holds its run of _sweep for good, and the sweeper stands for a later run.
PollStalls(s) ==
  /\ Polling(s)
  /\ sweep' = [sweep EXCEPT ![s] = Idle]
  /\ UNCHANGED <<environment, handed, trackerMaps, posts, outputs>>

\* recordTerminalExtensions has returned: publish, forget, walk on.
RecordReturn(s) ==
  /\ sweep[s].at = "record"
  /\ WalkOn(s, {sweep[s].call})
  /\ UNCHANGED <<environment, handed, registeredAt, via, posts, deltas>>

\* The lookup of POST /api/a2a/callback/:taskId: getAll() has the live tasks
\* only, so a push for any other task is refused with 404, and is lost.
KnownToRoute(c) == tasks[CidOf[c]] = c

\* The request is taken, the token checked, and its body awaited.
PushAccepted(c) ==
  /\ KnownToRoute(c)
  /\ Cardinality(posts) < MaxPosts
  /\ posts' = posts \union {[call |-> c, state |-> remote[c]]}
  /\ UNCHANGED <<environment, handed, trackerMaps, sweep, outputs>>

\* The body does not parse, or the agent hangs up.
PushAborted(p) ==
  /\ posts' = posts \ {p}
  /\ UNCHANGED <<environment, handed, trackerMaps, sweep, outputs>>

\* handleCallback: the body is applied to whatever the correlation id maps to
\* once it has been read.
Rehydrates(i) ==
  /\ tasks[i] = None
  /\ pending[i] # None
  /\ Resolvable(pending[i]) # {}

Holder(i) == IF Rehydrates(i) THEN pending[i] ELSE tasks[i]

ApplyCallback(p) ==
  LET i == CidOf[p.call]
      t == Holder(i)
      gone == IF p.state # "working" THEN {i} ELSE {}
  IN /\ posts' = posts \ {p}
     /\ tasks' = Forget([tasks EXCEPT ![i] = t], gone)
     /\ pending' = Forget([pending EXCEPT ![i] = IF @ = t THEN None ELSE @], gone)
     /\ store' = RowsWithout(gone)
     /\ lastPolledAt' = [lastPolledAt EXCEPT ![t] = now]
     /\ IF Rehydrates(i) THEN \E a \in Resolvable(t) : via' = [via EXCEPT ![t] = a]
                         ELSE via' = via
     /\ replies' = IF gone # {} THEN AddOne(replies, {t}) ELSE replies
     /\ deltas' = IF p.state = "terminal" THEN AddOne(deltas, {t}) ELSE deltas
     /\ UNCHANGED <<environment, handed, registeredAt, sweep>>

HandleCallback(p) ==
  /\ Holder(CidOf[p.call]) # None
  /\ ApplyCallback(p)

CallbackTooLate(p) ==
  /\ Holder(CidOf[p.call]) = None
  /\ posts' = posts \ {p}
  /\ UNCHANGED <<environment, handed, trackerMaps, sweep, outputs>>

\* The process dies and boots again: memory is lost, the rows are loaded into
\* `pending`, no executor is registered yet.  Bounded so that the grace
\* window after the last boot can pass.
\* Mutant: the constructor does not load the rows.
RestartEmpty ==
  /\ now + Grace <= MaxTime
  /\ restarts < MaxRestarts
  /\ restarts' = restarts + 1
  /\ bootAt' = now
  /\ registered' = {}
  /\ tasks' = [i \in Cid |-> None]
  /\ pending' = [i \in Cid |-> None]
  /\ sweep' = [s \in Sweepers |-> Idle]
  /\ lastPolledAt' = [c \in Call |-> 0]
  /\ via' = AgentOf
  /\ posts' = {}
  /\ UNCHANGED <<now, remote, handed, store, registeredAt, outputs>>
Restart ==
  /\ now + Grace <= MaxTime
  /\ restarts < MaxRestarts
  /\ restarts' = restarts + 1
  /\ bootAt' = now
  /\ registered' = {}
  /\ tasks' = [i \in Cid |-> None]
  /\ pending' = store
  /\ sweep' = [s \in Sweepers |-> Idle]
  /\ lastPolledAt' = [c \in Call |-> 0]
  /\ via' = AgentOf
  /\ posts' = {}
  /\ UNCHANGED <<now, remote, handed, store, registeredAt, outputs>>

PollReturn(s) == PollNoNews(s) \/ PollInput(s) \/ PollTerminal(s)

Next ==
  \/ Tick
  \/ Restart
  \/ \E a \in Agent : Register(a)
  \/ \E c \in Call : RemoteMoves(c) \/ Track(c) \/ PushAccepted(c)
  \/ \E s \in Sweepers : SweepStart(s) \/ PollReturn(s) \/ PollStalls(s) \/ RecordReturn(s)
  \/ \E p \in posts : HandleCallback(p) \/ CallbackTooLate(p) \/ PushAborted(p)

\* Time passes, the interval timer keeps firing, and pollTask answers, is aborted
\* by its timeout, or stalls for good.  Nothing is assumed of the agents.
Fairness ==
  /\ WF_vars(Tick)
  /\ \A s \in Sweepers : /\ WF_vars(SweepStart(s))
                         /\ WF_vars(PollReturn(s) \/ PollStalls(s))
                         /\ WF_vars(RecordReturn(s))

Spec == Init /\ [][Next]_vars /\ Fairness

-----------------------------------------------------------------------------
(* Properties *)

\* A call whose correlation id no other call uses.
Unshared(c) == \A d \in Call : CidOf[d] = CidOf[c] => d = c

\* Every call that is owed a reply has its row in the database and is either
\* tracked or waiting for its executor: no interleaving of sweeps, callbacks
\* and restarts drops it from both (the hazard the store was added for, #793).
OwedIsHeld ==
  \A c \in handed :
    replies[c] = 0 /\ Unshared(c) =>
      /\ store[CidOf[c]] = c
      /\ c \in {tasks[CidOf[c]], pending[CidOf[c]]}

\* A call that has been answered is in none of the three maps, so neither a
\* later sweep, nor a later callback, nor a restart can find it again
\* (_forget after every publish).
SettledIsForgotten ==
  \A c \in Call :
    replies[c] > 0 => c \notin Entries(tasks) \union Entries(pending) \union Entries(store)

\* What a step may publish, whatever pushes arrive and sweeps overlap: answers
\* to calls that are owed one, one each, and with them a second answer to a call
\* that a sweep has been polling since before its first (_publishResponse).
AnswersAreOwed ==
  [][\E first \in SUBSET {c \in handed : replies[c] = 0}, again \in SUBSET Call :
       /\ \A c \in again : replies[c] > 0 /\ \E s \in Sweepers : sweep[s].call = c
       /\ replies' = AddOne(replies, first \union again)]_vars

\* While a push body is being read its call can be settled or replaced but
\* never fall back to `pending`: the branch of handleCallback that rehydrates
\* a persisted row is dead code, since the route looks among live tasks only.
PushNeverRehydrates == \A p \in posts : ~Rehydrates(CidOf[p.call])

\* A second reply to a call is only ever published by a sweep that was already
\* awaiting that call's poll when it was answered; a callback never adds one.
DuplicatesComeFromPollsInFlight ==
  [][\A c \in Call :
       replies[c] > 0 /\ replies'[c] > replies[c] =>
         \E s \in Sweepers : sweep[s].call = c]_vars

\* The poll clock of a tracked task never goes back, although a sweep writes
\* the time it read when it started, however long its earlier polls took.
PollClockIsMonotone ==
  [][\A i \in Cid :
       tasks[i] # None /\ tasks'[i] = tasks[i] =>
         lastPolledAt'[tasks[i]] >= lastPolledAt[tasks[i]]]_vars

\* Whatever the agent, the network and the restarts do, a call handed to the
\* tracker is answered: by its result, by the timeout, or by the escalation.
OwedIsAnswered ==
  \A c \in Call : Unshared(c) => (c \in handed ~> replies[c] > 0)

\* The reply contract: with no push notifications and no overlapping sweeps
\* the tracker publishes exactly one response per call, restarts included.
Contract == INSTANCE ReplyContract
              WITH owed <- {c \in handed : replies[c] = 0}
ImplementsContract == Contract!Spec

\* task-tracker.ts:12: callers receive exactly one response.
AtMostOneReply == \A c \in Call : Unshared(c) => replies[c] <= 1

\* task-tracker.ts:253: an agent's push callback can re-find in `pending` a task
\* whose poll loop was lost to a restart.
PushFindsPersisted ==
  \A c \in Call :
    pending[CidOf[c]] = c /\ Resolvable(c) # {} => KnownToRoute(c)

\* task-tracker.ts:386: a given task id is processed at most once, even if
\* both the callback and the sweep fire.
DeltasPublishedOnce == \A c \in Call : deltas[c] <= 1
=============================================================================
