--------------------------- MODULE SkillDispatcher ---------------------------
(***************************************************************************)
(* The dispatcher of skill requests (src/executor/skill-dispatcher-        *)
(* plugin.ts), the mailbox of messages that arrive while an agent works    *)
(* (lib/dm/context-mailbox.ts) and its HTTP route (src/api/mailbox.ts).    *)
(*                                                                         *)
(* _dispatch() runs without interruption up to `await executor.execute`,   *)
(* and again from there to its `finally`, which drains the mailbox and     *)
(* publishes the drained messages as the next turn: the bus delivers that  *)
(* request, and _dispatch() takes it, within the same step.                *)
(***************************************************************************)
EXTENDS Naturals, FiniteSets

CONSTANTS
  Msg,           \* user messages and triggers
  Cid,           \* correlation ids: a conversation keeps one for all its turns
  CidOf,         \* the correlation id a message travels under
  Key,           \* cooldown buckets of the skills that have a cooldown
  None,          \* no bucket, no time
  KeyOf,         \* the bucket of the request made for a message, or None
  BareKey,       \* the "<skill>:_" bucket of the skill of each bucket
  Cooldown,      \* window of each bucket: default or WORKSTACEAN_COOLDOWN_MS_*
  SweepAge, SweepEvery,   \* 60 s, 100 gated dispatches
  MailboxTtl,    \* MAILBOX_TTL_MS
  LongRunning,   \* conversations whose agent may answer "working"
  Posted,        \* messages pushed by POST /api/mailbox/:contextId
  MaxTime        \* bound on the clock

ASSUME DispatcherAssumption ==
  /\ CidOf \in [Msg -> Cid]
  /\ None \notin Key \union Nat
  /\ KeyOf \in [Msg -> Key \union {None}]
  /\ BareKey \in [Key -> Key]
  /\ Cooldown \in [Key -> Nat \ {0}]
  /\ SweepAge \in Nat /\ SweepEvery \in Nat \ {0}
  /\ MailboxTtl \in Nat
  /\ LongRunning \subseteq Cid
  /\ Posted \subseteq Msg
  /\ MaxTime \in Nat

VARIABLES
  now,            \* Date.now()
  received,       \* messages that have reached the process
  active,         \* keys of activeExecutions
  running,        \* executions between `await executor.execute` and `finally`
  tracked,        \* messages of the turn the task tracker holds for each id
  mailbox,        \* messages waiting for the turn in progress to end
  queuedAt,       \* their receivedAt
  lastDispatchAt, \* the cooldown map
  sinceSweep,     \* _cooldownDispatchesSinceSweep
  acceptedAt,     \* when a request of each bucket was last let through
  outcome         \* what has become of each message

cooldownVars == <<lastDispatchAt, sinceSweep, acceptedAt>>
dispatcherVars == <<now, received, active, running, tracked, mailbox, queuedAt,
                    cooldownVars, outcome>>

Time == 0 .. MaxTime
Outcome == {"answered", "refused", "expired", "fetched", "replaced"}
Request == [cid : Cid, key : Key \union {None}, msgs : SUBSET Msg]

DispatcherTypeOK ==
  /\ now \in Time
  /\ received \subseteq Msg
  /\ active \subseteq Cid
  /\ running \subseteq Request
  /\ tracked \in [Cid -> SUBSET Msg]
  /\ mailbox \in [Cid -> SUBSET Msg]
  /\ queuedAt \in [Msg -> Time]
  /\ lastDispatchAt \in [Key -> Time \union {None}]
  /\ sinceSweep \in 0 .. SweepEvery - 1
  /\ acceptedAt \in [Key -> Time \union {None}]
  /\ outcome \in [Msg -> SUBSET Outcome]

DispatcherInit ==
  /\ now = 0
  /\ received = {}
  /\ active = {}
  /\ running = {}
  /\ tracked = [i \in Cid |-> {}]
  /\ mailbox = [i \in Cid |-> {}]
  /\ queuedAt = [m \in Msg |-> 0]
  /\ lastDispatchAt = [k \in Key |-> None]
  /\ sinceSweep = 0
  /\ acceptedAt = [k \in Key |-> None]
  /\ outcome = [m \in Msg |-> {}]

-----------------------------------------------------------------------------
(* _dispatch up to its first await *)

Settle(out, msgs, how) ==
  [m \in Msg |-> IF m \in msgs THEN out[m] \union {how} ELSE out[m]]

RequestFor(i, key, msgs) == [cid |-> i, key |-> key, msgs |-> msgs]

Within(at, span) == at # None /\ now < at + span

Cooling(k) == k # None /\ Within(lastDispatchAt[k], Cooldown[k])

\* _maybeSweepCooldownMap: every SweepEvery gated dispatches the entries older
\* than SweepAge are dropped.  Mutant: the whole map is dropped.
SweptAll(stamps) == [k \in Key |-> None]
Swept(stamps) ==
  [k \in Key |-> IF Within(stamps[k], SweepAge) THEN stamps[k] ELSE None]

\* Mutant: the counter is not reset by a sweep.
StampUnreset(k) ==
  LET stamps == [lastDispatchAt EXCEPT ![k] = now]
      full == sinceSweep + 1 >= SweepEvery
  IN /\ lastDispatchAt' = IF full THEN Swept(stamps) ELSE stamps
     /\ sinceSweep' = sinceSweep + 1
     /\ acceptedAt' = [acceptedAt EXCEPT ![k] = now]
Stamp(k) ==
  LET stamps == [lastDispatchAt EXCEPT ![k] = now]
      full == sinceSweep + 1 >= SweepEvery
  IN /\ lastDispatchAt' = IF full THEN Swept(stamps) ELSE stamps
     /\ sinceSweep' = IF full THEN 0 ELSE sinceSweep + 1
     /\ acceptedAt' = [acceptedAt EXCEPT ![k] = now]

\* Every drop publishes dispatch.dropped and an error response, and deletes
\* the entry of activeExecutions set at the top of _dispatch.  `run`, `act`
\* and `out` are the maps as the step left them before the dispatch.
\* Mutant: a dropped request leaves its entry behind.
RefuseStillActive(r, run, act, out) ==
  /\ active' = act \union {r.cid}
  /\ running' = run
  /\ outcome' = Settle(out, r.msgs, "refused")
  /\ UNCHANGED cooldownVars
Refuse(r, run, act, out) ==
  /\ active' = act \ {r.cid}
  /\ running' = run
  /\ outcome' = Settle(out, r.msgs, "refused")
  /\ UNCHANGED cooldownVars

Accept(r, run, act, out) ==
  /\ active' = act \union {r.cid}
  /\ running' = run \union {r}
  /\ outcome' = out
  /\ IF r.key = None THEN UNCHANGED cooldownVars ELSE Stamp(r.key)

\* A request is refused when it names no skill, when no executor resolves
\* (which depends on the registry at that moment), or when its bucket cools.
Dispatch(r, run, act, out) ==
  \/ Refuse(r, run, act, out)
  \/ ~Cooling(r.key) /\ Accept(r, run, act, out)

-----------------------------------------------------------------------------
(* Actions *)

Tick ==
  /\ now < MaxTime
  /\ now' = now + 1
  /\ UNCHANGED <<received, active, running, tracked, mailbox, queuedAt,
                 cooldownVars, outcome>>

\* agent.skill.request from a trigger.
Receive(m) ==
  /\ m \notin received \union Posted
  /\ received' = received \union {m}
  /\ Dispatch(RequestFor(CidOf[m], KeyOf[m], {m}), running, active, outcome)
  /\ UNCHANGED <<now, tracked, mailbox, queuedAt>>

NextKey(k) == IF k = None THEN None ELSE BareKey[k]

\* The `finally` of _dispatch.  Mutant: the mailbox is read but not emptied.
EndTurnPeeked(r, out) ==
  LET i == r.cid
      box == mailbox[i]
  IN /\ mailbox' = mailbox
     /\ \/ /\ box = {}
           /\ active' = active \ {i}
           /\ running' = running \ {r}
           /\ outcome' = out
           /\ UNCHANGED cooldownVars
        \/ /\ box # {}
           /\ Dispatch(RequestFor(i, NextKey(r.key), box),
                       running \ {r}, active \ {i}, out)
EndTurn(r, out) ==
  LET i == r.cid
      box == mailbox[i]
  IN /\ mailbox' = [mailbox EXCEPT ![i] = {}]
     /\ \/ /\ box = {}
           /\ active' = active \ {i}
           /\ running' = running \ {r}
           /\ outcome' = out
           /\ UNCHANGED cooldownVars
        \/ /\ box # {}
           /\ Dispatch(RequestFor(i, NextKey(r.key), box),
                       running \ {r}, active \ {i}, out)

\* The executor returned a result or an error, or threw: a response goes out.
Finish(r) ==
  /\ r \in running
  /\ EndTurn(r, Settle(outcome, r.msgs, "answered"))
  /\ UNCHANGED <<now, received, tracked, queuedAt>>

\* The agent is still working: the turn goes to the task tracker, whose map
\* has one entry per correlation id.  A turn it still held under that id is
\* replaced: no later sweep, push or restart will find it.
HandOff(r) ==
  /\ r \in running
  /\ r.cid \in LongRunning
  /\ tracked' = [tracked EXCEPT ![r.cid] = r.msgs]
  /\ EndTurn(r, Settle(outcome, tracked[r.cid], "replaced"))
  /\ UNCHANGED <<now, received, queuedAt>>

TrackerAnswers(i) ==
  /\ tracked[i] # {}
  /\ tracked' = [tracked EXCEPT ![i] = {}]
  /\ outcome' = Settle(outcome, tracked[i], "answered")
  /\ UNCHANGED <<now, received, active, running, mailbox, queuedAt, cooldownVars>>

\* A sweep that was polling a turn when it was replaced still answers it, and
\* then forgets the correlation id, and with it the turn tracked by now.
ReplacedAnswers(i) ==
  \E turn \in SUBSET {m \in Msg : CidOf[m] = i /\ outcome[m] = {"replaced"}} :
    /\ turn # {}
    /\ tracked' = [tracked EXCEPT ![i] = {}]
    /\ outcome' = [m \in Msg |-> IF m \in turn THEN {"answered"}
                                 ELSE IF m \in tracked[i] THEN {"replaced"}
                                 ELSE outcome[m]]
    /\ UNCHANGED <<now, received, active, running, mailbox, queuedAt, cooldownVars>>

\* GET /api/mailbox/:contextId, by the agent between two tool calls.
GetMailbox(i) ==
  /\ mailbox[i] # {}
  /\ mailbox' = [mailbox EXCEPT ![i] = {}]
  /\ outcome' = Settle(outcome, mailbox[i], "fetched")
  /\ UNCHANGED <<now, received, active, running, tracked, queuedAt, cooldownVars>>

Push(i, msgs) ==
  /\ mailbox' = [mailbox EXCEPT ![i] = @ \union msgs]
  /\ queuedAt' = [m \in Msg |-> IF m \in msgs THEN now ELSE queuedAt[m]]

\* POST /api/mailbox/:contextId, whether or not a turn is running.  Bounded
\* so that the message's time to live can pass.
PostMailbox(m) ==
  /\ m \in Posted \ received
  /\ now + MailboxTtl <= MaxTime
  /\ received' = received \union {m}
  /\ Push(CidOf[m], {m})
  /\ UNCHANGED <<now, active, running, tracked, cooldownVars, outcome>>

\* The sweep timer of the mailbox: each message lives MailboxTtl at least.
\* Mutant: the difference is taken the wrong way round.
ExpiredReversed == {m \in Msg : queuedAt[m] >= now + MailboxTtl}
Expired == {m \in Msg : now >= queuedAt[m] + MailboxTtl}

SweepMailbox ==
  LET gone == Expired \intersect UNION {mailbox[i] : i \in Cid}
  IN /\ gone # {}
     /\ mailbox' = [i \in Cid |-> mailbox[i] \ gone]
     /\ outcome' = Settle(outcome, gone, "expired")
     /\ UNCHANGED <<now, received, active, running, tracked, queuedAt, cooldownVars>>

-----------------------------------------------------------------------------
(* Properties *)

\* A bucket never lets two requests through within its window, across the
\* sweeps of the map, the turns drained from the mailbox, and drops between
\* (the chokepoint against cascades, #556).
CooldownRespected ==
  [][\A r \in running' \ running :
       r.key # None => ~Within(acceptedAt[r.key], Cooldown[r.key])]_dispatcherVars

\* activeExecutions names no conversation without a running execution: such an
\* entry would send every later message of it to a mailbox nobody drains.
ActiveMeansRunning == \A i \in active : \E r \in running : r.cid = i

\* Where a message is, counting each place once.
Places(m) ==
  {<<"running", r>> : r \in {q \in running : m \in q.msgs}}
    \union {<<"tracked", i>> : i \in {j \in Cid : m \in tracked[j]}}
    \union {<<"mailbox", i>> : i \in {j \in Cid : m \in mailbox[j]}}
    \union {<<"outcome", o>> : o \in outcome[m]}
=============================================================================
