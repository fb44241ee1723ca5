----------------------------- MODULE AgentChat -----------------------------
(***************************************************************************)
(* The routes by which agents talk to agents, src/api/ava-tools.ts: chat   *)
(* waits for the answer a while and then hands out a poll handle, delegate *)
(* hands one out at once, and the poll puts together what three others     *)
(* know of a dispatch: the cache of responses, the task tracker and the    *)
(* dispatcher's active executions.                                         *)
(***************************************************************************)
EXTENDS Naturals, Sequences, FiniteSets, SequencesExt

CONSTANTS Dispatches, MaxEntries, MaxCrashes

VARIABLES
  caller,   \* of each dispatch: what its caller has, "waiting" while it waits
  active,   \* the dispatcher's active executions
  tracked,  \* tasks of the tracker, persisted
  parked,   \* rows of tasks that await their executor after a restart
  cache,    \* the responses cached, oldest first
  over,     \* dispatches that were answered
  lost,     \* answers that aged out, were evicted or died with the process
  crashes

vars == <<caller, active, tracked, parked, cache, over, lost, crashes>>

Init ==
  /\ caller = [d \in Dispatches |-> "none"] /\ active = {} /\ tracked = {} /\ parked = {}
  /\ cache = <<>> /\ over = {} /\ lost = {} /\ crashes = 0

\* awaitSkillResponse: whoever waits when the response is published has it, and
\* listens before the request is published.
HearsNothing(d, c) == c
Hears(d, c) == IF c = "waiting" THEN "answer" ELSE c

\* SkillResponseCache.record
Recorded(d) ==
  LET full == IF Contains(cache, d) THEN cache ELSE Append(cache, d)
  IN IF Len(full) > MaxEntries THEN Tail(full) ELSE full

\* The response of d on agent.skill.response.d, with c its caller.
Respond(d, c) ==
  /\ caller' = [caller EXCEPT ![d] = Hears(d, c)] /\ cache' = Recorded(d)
  /\ over' = over \cup {d}
  /\ lost' = (lost \ {d}) \cup {e \in Dispatches : Contains(cache, e) /\ ~Contains(Recorded(d), e)}

\* The request is dropped with an error response, or active before any await.
Publish(d, c) ==
  \/ Respond(d, c) /\ UNCHANGED <<active, tracked, parked, crashes>>
  \/ /\ caller' = [caller EXCEPT ![d] = c] /\ active' = active \cup {d}
     /\ UNCHANGED <<tracked, parked, cache, over, lost, crashes>>

\* No executor: 404 without a dispatch.  returnImmediately hands the handle out.
Chat(d) ==
  /\ caller[d] = "none"
  /\ \/ /\ caller' = [caller EXCEPT ![d] = "refused"]
        /\ UNCHANGED <<active, tracked, parked, cache, over, lost, crashes>>
     \/ \E c \in {"waiting", "handle"} : Publish(d, c)

Delegate(d) == caller[d] = "none" /\ Publish(d, "handle")

\* A2A_CHAT_REPLY_TIMEOUT_MS
Timeout(d) ==
  /\ caller[d] = "waiting" /\ caller' = [caller EXCEPT ![d] = "handle"]
  /\ UNCHANGED <<active, tracked, parked, cache, over, lost, crashes>>

\* The executor is done: the answer is published, or the task is tracked, in
\* the step whose finally ends the execution.
TrackedLate(d) == tracked
TrackedToo(d) == tracked \cup {d}
Finish(d) ==
  /\ d \in active /\ active' = active \ {d} /\ UNCHANGED <<parked, crashes>>
  /\ \/ Respond(d, caller[d]) /\ UNCHANGED tracked
     \/ tracked' = TrackedToo(d) /\ UNCHANGED <<caller, cache, over, lost>>

TaskEnds(d) ==
  /\ d \in tracked /\ tracked' = tracked \ {d} /\ Respond(d, caller[d])
  /\ UNCHANGED <<active, parked, crashes>>

\* _promoteRehydrated: the executor has registered, or it has not in time and the task
\* is escalated.
Promote(d) ==
  /\ d \in parked /\ parked' = parked \ {d} /\ UNCHANGED <<active, crashes>>
  /\ \/ tracked' = tracked \cup {d} /\ UNCHANGED <<caller, cache, over, lost>>
     \/ Respond(d, caller[d]) /\ UNCHANGED tracked

\* get and prune: an entry past its TTL.
Lapse(d) ==
  /\ \E i \in DOMAIN cache : cache[i] = d /\ cache' = RemoveAt(cache, i)
  /\ lost' = lost \cup {d}
  /\ UNCHANGED <<caller, active, tracked, parked, over, crashes>>

\* What was in memory is gone; of the tracker's tasks there are the rows.
Crash ==
  /\ crashes < MaxCrashes /\ crashes' = crashes + 1
  /\ caller' = [d \in Dispatches |-> IF caller[d] = "waiting" THEN "cut off" ELSE caller[d]]
  /\ active' = {} /\ cache' = <<>> /\ lost' = lost \cup active \cup ToSet(cache)
  /\ tracked' = {} /\ parked' = parked \cup tracked /\ UNCHANGED over

\* handleTaskPoll, in the order it asks.  getAll lists the tasks that are followed, and
\* no parked one.
PollCacheFirst(d) ==
  CASE Contains(cache, d) -> "done" [] d \in active -> "working" [] OTHER -> "unknown"
Poll(d) ==
  CASE Contains(cache, d) -> "done"
    [] ~Contains(cache, d) /\ (d \in tracked \/ d \in active) -> "working"
    [] OTHER -> "unknown"

Next ==
  \/ Crash
  \/ \E d \in Dispatches :
       Chat(d) \/ Delegate(d) \/ Timeout(d) \/ Finish(d) \/ TaskEnds(d) \/ Promote(d) \/ Lapse(d)

\* Executors end, tasks end, timers fire and sweeps go on.
Fairness ==
  \A d \in Dispatches :
    WF_vars(Timeout(d)) /\ WF_vars(Finish(d)) /\ WF_vars(TaskEnds(d)) /\ WF_vars(Promote(d))
Spec == Init /\ [][Next]_vars /\ Fairness

-----------------------------------------------------------------------------
TypeOK ==
  /\ caller \in [Dispatches -> {"none", "refused", "waiting", "handle", "answer", "cut off"}]
  /\ active \subseteq Dispatches /\ tracked \subseteq Dispatches /\ parked \subseteq Dispatches
  /\ over \subseteq Dispatches
  /\ cache \in Seq(Dispatches) /\ IsInjective(cache) /\ Len(cache) <= MaxEntries
  /\ lost \subseteq Dispatches /\ crashes \in 0 .. MaxCrashes

\* Whoever holds a handle is never told that a dispatch at work is unknown, nor that one
\* is still at work that was answered, until its answer has aged out or the process stopped
\* (src/api/ava-tools.ts:250).  A task the tracker had taken on is unknown from a restart
\* until it is followed again or escalated, and no longer.
PollKnows ==
  \A d \in Dispatches :
    caller[d] \in {"waiting", "handle", "answer"} /\ d \notin lost =>
      Poll(d) = IF d \in over THEN "done" ELSE IF d \in parked THEN "unknown" ELSE "working"

\* A caller that waits has not missed the answer.
WaitsForGood == \A d \in Dispatches : caller[d] = "waiting" => d \notin over

\* Every dispatch that can be polled is answered, unless it died with the process.
DispatchesEnd ==
  \A d \in Dispatches : []<>(caller[d] \in {"waiting", "handle"} => d \in over \cup lost)

=============================================================================
