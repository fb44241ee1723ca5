----------------------------- MODULE Executors -----------------------------
(***************************************************************************)
(* The calls one agent has under way: through A2AExecutor (a2a-executor.ts)*)
(* when it is remote, through DeepAgentExecutor (deep-agent-executor.ts)   *)
(* when it runs in the process, and the circuit breaker both go through    *)
(* (lib/plugins/circuit-breaker.ts, withCircuitBreaker).                   *)
(*                                                                         *)
(* The agent and the model gateway are external.  When one is ill, what is *)
(* sent to it may be lost: no answer comes, and the call fails when its    *)
(* timer elapses, or before.  Every event of a stream names its task.      *)
(* Texts are left out but for there being one.                             *)
(***************************************************************************)
EXTENDS Naturals

Calls == 1 .. 2
FailureThreshold == 2   \* withCircuitBreaker's five
MaxMessages == 2        \* for recursionLimit: bounds the messages of a run

VARIABLES
  kind,      \* the agent: "deep", or remote and "stream" or "blocking"
  health,    \* of the other side: "ill", "well", or "mended", well for good
  circuit,   \* "CLOSED", "OPEN", "HALF_OPEN"
  failures,  \* failureCount
  cooled,    \* the recovery window has elapsed since the circuit opened
  phase,     \* what each call awaits
  seen,      \* what the stream has shown: a task's "id", a "text" until it ends
  messages,  \* messages of the run
  narrated,  \* those of them narrated
  steady,    \* the capabilities have not changed during the call
  astray     \* calls answered with a task still at work that they did not name

breaker == <<circuit, failures, cooled>>
progress == <<messages, narrated>>
vars == <<kind, health, breaker, phase, seen, progress, steady, astray>>

Awaits ==
  {"idle", "card", "legacy", "ready", "asked", "streaming", "stalled", "sent",
   "running", "chatting", "lost", "missed", "distilled", "repaired"}

TypeOK ==
  /\ kind \in {"deep", "stream", "blocking"} /\ health \in {"ill", "well", "mended"}
  /\ circuit \in {"CLOSED", "OPEN", "HALF_OPEN"} /\ failures \in 0 .. FailureThreshold
  /\ cooled \in BOOLEAN
  /\ phase \in [Calls -> Awaits] /\ seen \in [Calls -> SUBSET {"id", "text"}]
  /\ messages \in [Calls -> 0 .. MaxMessages] /\ narrated \in [Calls -> 0 .. MaxMessages]
  /\ \A c \in Calls : narrated[c] <= messages[c]
  /\ steady \in [Calls -> BOOLEAN]
  /\ astray \subseteq Calls

Init ==
  /\ kind \in {"deep", "stream", "blocking"} /\ health \in {"ill", "well"}
  /\ circuit = "CLOSED" /\ failures = 0 /\ cooled = FALSE
  /\ phase = [c \in Calls |-> "idle"] /\ seen = [c \in Calls |-> {}]
  /\ messages = [c \in Calls |-> 0] /\ narrated = [c \in Calls |-> 0]
  /\ steady = [c \in Calls |-> TRUE] /\ astray = {}

-----------------------------------------------------------------------------
(* The circuit breaker. *)

\* HALF_OPEN lets every call through.
IsAllowed == circuit \in {"CLOSED", "HALF_OPEN"} \/ cooled

Entered == circuit' = IF circuit = "OPEN" THEN "HALF_OPEN" ELSE circuit

\* failures is counted up to the threshold.
RecordFailure ==
  LET count == IF failures = FailureThreshold THEN failures ELSE failures + 1
      opens == \/ circuit = "CLOSED" /\ count >= FailureThreshold
               \/ circuit = "HALF_OPEN"
  IN /\ failures' = count
     /\ circuit' = IF opens THEN "OPEN" ELSE circuit
     /\ cooled' = IF opens THEN FALSE ELSE cooled

\* Also of a call sent before the circuit opened.  Mutant: a HALF_OPEN circuit
\* waits for more.
WaitsForMore == circuit' = (IF circuit = "OPEN" THEN "CLOSED" ELSE circuit) /\ failures' = 0 /\ cooled' = FALSE
RecordSuccess == circuit' = "CLOSED" /\ failures' = 0 /\ cooled' = FALSE

Cool ==
  /\ circuit = "OPEN" /\ ~cooled /\ cooled' = TRUE
  /\ UNCHANGED <<kind, health, circuit, failures, phase, seen, progress, steady, astray>>

-----------------------------------------------------------------------------
(* Steps of a call. *)

Await(c, p) == phase' = [phase EXCEPT ![c] = p] /\ UNCHANGED <<seen, progress, steady, astray>>

\* What a call has shown and narrated is forgotten with it.
Forget(c) ==
  /\ seen' = [seen EXCEPT ![c] = {}] /\ steady' = [steady EXCEPT ![c] = TRUE]
  /\ messages' = [messages EXCEPT ![c] = 0] /\ narrated' = [narrated EXCEPT ![c] = 0]

\* A call ends, with a task that is "working" still or not.
Return(c, shown, r) ==
  /\ phase' = [phase EXCEPT ![c] = "idle"] /\ Forget(c)
  /\ astray' = IF r = "working" /\ "id" \notin shown /\ steady[c] THEN astray \cup {c} ELSE astray

End(c) == Return(c, {}, "ended")

\* What is sent reaches the other side, or is lost while that is ill: "lost" of
\* a call the breaker counts, "missed" of another.
Arrives(p, gone) == {p} \cup (IF health = "ill" THEN {gone} ELSE {})

\* withCircuitBreaker, up to its await.
Guarded(c, p) ==
  IF IsAllowed THEN /\ \E q \in Arrives(p, "lost") : Await(c, q)
                    /\ Entered /\ UNCHANGED <<failures, cooled>>
               ELSE End(c) /\ UNCHANGED breaker

\* A2AExecutor.execute; and pollTask, cancelTask, resumeTask and
\* registerPushNotification, which only ask.  A call that stalled is followed
\* no more.
Execute(c) ==
  /\ kind # "deep" /\ phase[c] \in {"idle", "stalled"}
  /\ phase' = [phase EXCEPT ![c] = "card"] /\ Forget(c)
  /\ UNCHANGED <<kind, health, breaker, astray>>

\* DeepAgentExecutor.execute, up to the first state of its graph.
Run(c) ==
  /\ kind = "deep" /\ phase[c] = "idle" /\ Guarded(c, "running")
  /\ UNCHANGED <<kind, health>>

\* _fetchAgentCard tries two paths.  The client's calls are outside the breaker.
FetchCard(c) ==
  /\ phase[c] \in {"card", "legacy"}
  /\ \/ Await(c, "ready")
     \/ health = "ill" /\ phase[c] = "card" /\ Await(c, "legacy")
     \/ health = "ill" /\ phase[c] = "legacy" /\ End(c)
  /\ UNCHANGED <<kind, health, breaker>>

Ask(c) ==
  /\ phase[c] = "ready" /\ \E q \in Arrives("asked", "missed") : Await(c, q)
  /\ UNCHANGED <<kind, health, breaker>>

Told(c) == phase[c] = "asked" /\ End(c) /\ UNCHANGED <<kind, health, breaker>>

Stream(c) == (\E q \in Arrives("streaming", "missed") : Await(c, q)) /\ UNCHANGED breaker

\* message/send.
Blocking(c) == Guarded(c, "sent")

Send(c) ==
  /\ phase[c] = "ready" /\ (IF kind = "stream" THEN Stream(c) ELSE Blocking(c))
  /\ UNCHANGED <<kind, health>>

\* A message, or a task in some state.
Answer(c) ==
  /\ phase[c] = "sent" /\ RecordSuccess
  /\ End(c) \/ Return(c, {"id"}, "working")
  /\ UNCHANGED <<kind, health>>

\* The end of execute: a stream without a task and without a text is followed by
\* message/send.  Mutant: it is not.
NeverEmpty(shown) == FALSE
Empty(shown) == kind = "stream" /\ shown = {}
EndStream(c, shown, r) ==
  /\ IF Empty(shown) THEN Blocking(c) ELSE Return(c, shown, r) /\ UNCHANGED breaker
  /\ UNCHANGED <<kind, health>>

\* The events that end the stream: a message, a task not yet at its end, the
\* end of one.
Break(c) ==
  /\ phase[c] = "streaming"
  /\ \E text \in SUBSET {"text"} :
       \/ EndStream(c, seen[c] \cup text, "ended")
       \/ \E r \in {"working", "ended"} : EndStream(c, seen[c] \cup text \cup {"id"}, r)

\* A status or an artifact of a task under way.
Update(c) ==
  /\ phase[c] = "streaming"
  /\ \E text \in SUBSET {"text"} : seen' = [seen EXCEPT ![c] = @ \cup text \cup {"id"}]
  /\ UNCHANGED <<kind, health, breaker, phase, progress, steady, astray>>

\* The state is WORKING until an event says otherwise.
Close(c) == phase[c] = "streaming" /\ EndStream(c, seen[c], "working")

\* A stream breaks, an answer or a run is lost.  A stream, a card or an answer may
\* stall for good: the fetch's timer is cleared when the headers arrive.
Hang(c) ==
  /\ health = "ill"
  /\ \/ phase[c] \in {"streaming", "asked"} /\ Await(c, "missed")
     \/ phase[c] \in {"sent", "running", "chatting"} /\ Await(c, "lost")
     \/ phase[c] \in {"card", "legacy", "asked", "streaming", "sent"} /\ Await(c, "stalled")
  /\ UNCHANGED <<kind, health, breaker>>

\* A state of the graph: each message of it is narrated once.
Yield(c) ==
  /\ phase[c] = "running" /\ messages[c] < MaxMessages
  /\ \E m \in messages[c] + 1 .. MaxMessages : messages' = [messages EXCEPT ![c] = m]
  /\ narrated' = [narrated EXCEPT ![c] = messages'[c]]
  /\ UNCHANGED <<kind, health, breaker, phase, seen, steady, astray>>

\* The tool chat_with_agent polls what is pending until it is done, unknown, or
\* its budget is spent; then its result is one more message.
Chat(c) ==
  /\ phase[c] = "running" /\ messages[c] < MaxMessages /\ Await(c, "chatting")
  /\ UNCHANGED <<kind, health, breaker>>

Chatted(c) ==
  /\ phase[c] = "chatting" /\ phase' = [phase EXCEPT ![c] = "running"]
  /\ messages' = [messages EXCEPT ![c] = @ + 1] /\ narrated' = [narrated EXCEPT ![c] = messages'[c]]
  /\ UNCHANGED <<kind, health, breaker, seen, steady, astray>>

\* The run ends: the turn is remembered, and an output schema has it distilled.
Finish(c) ==
  /\ phase[c] = "running" /\ RecordSuccess
  /\ End(c) \/ Await(c, "distilled")
  /\ UNCHANGED <<kind, health>>

\* runStructuredFinalizer: one repair.
Distil(c) ==
  /\ phase[c] \in {"distilled", "repaired"}
  /\ End(c) \/ (phase[c] = "distilled" /\ Await(c, "repaired"))
  /\ UNCHANGED <<kind, health, breaker>>

\* What was lost throws when the fetch or the run is aborted, under the breaker
\* if the call went through it.  Mutant: a run of the graph has no deadline.
AbortedFetch(c) == phase[c] \in {"lost", "missed"} /\ kind # "deep"
Aborted(c) == phase[c] \in {"lost", "missed"}
Fail(c) ==
  /\ Aborted(c) /\ End(c)
  /\ IF phase[c] = "lost" THEN RecordFailure ELSE UNCHANGED breaker
  /\ UNCHANGED <<kind, health>>

\* setCapabilities, after each discovery, also while a call is under way.
SetCapabilities ==
  /\ kind # "deep" /\ kind' \in {"stream", "blocking"} \ {kind}
  /\ steady' = [c \in Calls |-> phase[c] = "idle"]
  /\ UNCHANGED <<health, breaker, phase, seen, progress, astray>>

\* The other side falls ill, recovers, and is mended at last.
Turn ==
  /\ health # "mended" /\ health' \in {"ill", "well", "mended"} \ {health}
  /\ UNCHANGED <<kind, breaker, phase, seen, progress, steady, astray>>

Step(c) ==
  \/ FetchCard(c) \/ Ask(c) \/ Told(c) \/ Send(c) \/ Answer(c)
  \/ Break(c) \/ Update(c) \/ Close(c)
  \/ Yield(c) \/ Chatted(c) \/ Finish(c) \/ Distil(c) \/ Fail(c)

Next ==
  \/ Cool \/ SetCapabilities \/ Turn
  \/ \E c \in Calls : Execute(c) \/ Run(c) \/ Chat(c) \/ Hang(c) \/ Step(c)

Spec == Init /\ [][Next]_vars

\* Answers come, time out or stall, the recovery window elapses; and calls keep being
\* made, not only questions, without which no circuit could close.
FairSpec ==
  /\ Spec /\ WF_vars(Cool) /\ SF_vars(\E c \in Calls : Send(c))
  /\ \A c \in Calls : WF_vars(Step(c)) /\ WF_vars(Execute(c) \/ Run(c))

-----------------------------------------------------------------------------
(* Properties *)

\* A call answered with a task still at work names it, or nobody could follow
\* it, whatever part of the stream was seen, unless the capabilities change
\* under way.
HandedOver == astray = {}

\* Every call ends while the other side is ill or well, but for one that stalls
\* after its headers.
CallsEnd == \A c \in Calls : []<>(phase[c] \in {"idle", "stalled"})

\* Once the other side is well for good, the circuit closes and stays closed,
\* however late the failures and successes of calls sent before come in.
StaysClosed == <>[](health = "mended" /\ kind # "stream") => <>[](circuit = "CLOSED")

=============================================================================
