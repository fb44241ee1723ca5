------------------------------ MODULE A2AServer ------------------------------
(***************************************************************************)
(* What a caller of this process hears: the A2A task executor              *)
(* (src/api/a2a-server.ts), the questions agents put to people             *)
(* (src/api/human-input.ts), the chat-completions gateway                  *)
(* (src/api/openai-compat.ts) and the cache of terminal responses          *)
(* (src/event-bus/skill-response-cache.ts), over the bus (lib/bus.ts).     *)
(*                                                                         *)
(* One A2A task and the executions of its messages: topics and the map of  *)
(* cancel hooks are keyed by the task, so executions of one task share     *)
(* them, and executions of different tasks share nothing.  The agents and  *)
(* the dispatcher behind the request topic are external here (TaskTracker, *)
(* SkillDispatcher): every request is answered at least once.              *)
(***************************************************************************)
EXTENDS Naturals, Sequences, FiniteSets, SequencesExt

CONSTANTS
  Execs,       \* executions of messages of the task
  Chats,       \* chat completions
  MaxEntries   \* of the response cache

VARIABLES
  subs,    \* subscribers of the task's topics, in the order the bus holds them
  exec,    \* "idle", "open", "settled"
  hook,    \* activeCancels of the task: the execution it cancels, or "none"
  said,    \* the last event of each execution's stream
  ends,    \* terminal events of each execution's stream
  owed,    \* requests of the task, and of chats, that are still to be answered
  ask,     \* the question: "none", "asked", "answered", "expired"
  accepted,\* an answer was taken with success
  chat,    \* "idle", "waiting", "answered", "timeout"
  cache    \* correlation ids of the cached responses, oldest first

stream == <<subs, exec, hook, said, ends>>
question == <<ask, accepted>>
vars == <<stream, owed, question, chat, cache>>

Task == "task"
Terminal == {"COMPLETED", "FAILED", "CANCELED"}
Event == {"none", "SUBMITTED", "WORKING", "INPUT_REQUIRED"} \union Terminal

TypeOK ==
  /\ subs \in Seq(Execs) /\ IsInjective(subs)
  /\ exec \in [Execs -> {"idle", "open", "settled"}]
  /\ hook \in Execs \union {"none"}
  /\ said \in [Execs -> Event] /\ ends \in [Execs -> 0 .. 2]
  /\ owed \in [{Task} \union Chats -> 0 .. Cardinality(Execs)]
  /\ ask \in {"none", "asked", "answered", "expired"} /\ accepted \in BOOLEAN
  /\ chat \in [Chats -> {"idle", "waiting", "answered", "timeout"}]
  /\ cache \in Seq({Task} \union Chats) /\ IsInjective(cache) /\ Len(cache) <= MaxEntries

Init ==
  /\ subs = << >> /\ exec = [e \in Execs |-> "idle"] /\ hook = "none"
  /\ said = [e \in Execs |-> "none"] /\ ends = [e \in Execs |-> 0]
  /\ owed = [i \in {Task} \union Chats |-> 0]
  /\ ask = "none" /\ accepted = FALSE
  /\ chat = [c \in Chats |-> "idle"] /\ cache = << >>

-----------------------------------------------------------------------------
(* An execution of a message. *)

\* SUBMITTED, the four subscriptions, the cancel hook (over that of an earlier
\* execution), WORKING, and the request.
Execute(e) ==
  /\ exec[e] = "idle"
  /\ exec' = [exec EXCEPT ![e] = "open"]
  /\ subs' = Append(subs, e)
  /\ hook' = e
  /\ said' = [said EXCEPT ![e] = "WORKING"]
  /\ owed' = [owed EXCEPT ![Task] = @ + 1]
  /\ UNCHANGED <<ends, question, chat, cache>>

\* bus.deliver walks the live array: a handler that leaves it makes the walk
\* pass over the next one.
Hears == {subs[i] : i \in {j \in DOMAIN subs : j % 2 = 1}}

\* Each handler unsubscribes itself, and those the walk passes over stay.
\* Mutant: the subscriber that joined last leaves.
AllButLast == Front(subs)
PassedOver == [i \in 1 .. Len(subs) \div 2 |-> subs[2 * i]]
Without(e) ==
  IF Contains(subs, e) THEN RemoveAt(subs, CHOOSE i \in DOMAIN subs : subs[i] = e) ELSE subs

\* The flag every handler and the heartbeat look at.  Mutant: it is left clear.
StaysOpen(S) == exec
Settles(S) == [e \in Execs |-> IF e \in S THEN "settled" ELSE exec[e]]

\* activeCancels.delete, whoever's hook it is.  Mutant: it stays.
HookStays == hook
HookGone == "none"

Ends(S, left, event) ==
  /\ exec' = Settles(S) /\ subs' = left /\ hook' = HookGone
  /\ said' = [e \in Execs |-> IF e \in S THEN event ELSE said[e]]
  /\ ends' = [e \in Execs |-> IF e \in S /\ ends[e] < 2 THEN ends[e] + 1 ELSE ends[e]]

\* SkillResponseCache.record; Map.set keeps the place of a key it holds.
Recorded(id) ==
  IF Contains(cache, id) THEN cache
  ELSE IF Len(cache) = MaxEntries THEN Append(Tail(cache), id) ELSE Append(cache, id)

\* A terminal response of the task ends whatever executions it reaches, not the
\* one whose request it answers.  Answers may come twice.
Reply ==
  /\ owed[Task] > 0
  /\ \E left \in {owed[Task] - 1, owed[Task]} : owed' = [owed EXCEPT ![Task] = left]
  /\ cache' = Recorded(Task)
  /\ \/ Hears = {} /\ UNCHANGED stream
     \/ Hears # {} /\ \E event \in {"COMPLETED", "FAILED"} : Ends(Hears, PassedOver, event)
  /\ UNCHANGED <<question, chat>>

\* Progress and tool frames reach every execution that is open; the heartbeat
\* of each repeats WORKING.
Progress ==
  /\ owed[Task] > 0
  /\ said' = [e \in Execs |-> IF Contains(subs, e) /\ exec[e] = "open" THEN "WORKING" ELSE said[e]]
  /\ UNCHANGED <<subs, exec, hook, ends, owed, question, chat, cache>>

Heartbeat(e) ==
  /\ exec[e] = "open"
  /\ said' = [said EXCEPT ![e] = "WORKING"]
  /\ UNCHANGED <<subs, exec, hook, ends, owed, question, chat, cache>>

\* tasks/cancel: the SDK refuses a task that has ended; without a hook nothing
\* happens.  The work behind the request goes on.
CancelTask ==
  /\ hook # "none"
  /\ Ends({hook}, Without(hook), "CANCELED")
  /\ UNCHANGED <<owed, question, chat, cache>>

-----------------------------------------------------------------------------
(* A question to a person: ask-human blocks the agent's tool call. *)

Ask ==
  /\ ask = "none" /\ owed[Task] > 0
  /\ ask' = "asked"
  /\ said' = [e \in Execs |-> IF Contains(subs, e) /\ exec[e] = "open" THEN "INPUT_REQUIRED" ELSE said[e]]
  /\ UNCHANGED <<subs, exec, hook, ends, owed, accepted, chat, cache>>

\* POST /api/a2a/input answers what the map holds, 404 otherwise.  Mutant: the
\* timer leaves the entry.
HeldAfterExpiry == ask \in {"asked", "expired"}
Held == ask = "asked"
Answer ==
  /\ Held
  /\ accepted' = TRUE
  /\ ask' = IF ask = "asked" THEN "answered" ELSE ask
  /\ UNCHANGED <<stream, owed, chat, cache>>

Expire ==
  /\ ask = "asked" /\ ask' = "expired"
  /\ UNCHANGED <<stream, owed, accepted, chat, cache>>

-----------------------------------------------------------------------------
(* Chat completions: each has a correlation id of its own. *)

Dispatch(c) ==
  /\ chat[c] = "idle"
  /\ chat' = [chat EXCEPT ![c] = "waiting"]
  /\ owed' = [owed EXCEPT ![c] = 1]
  /\ UNCHANGED <<stream, question, cache>>

ChatReply(c) ==
  /\ owed[c] > 0
  /\ \E left \in {0, 1} : owed' = [owed EXCEPT ![c] = left]
  /\ chat' = [chat EXCEPT ![c] = IF @ = "waiting" THEN "answered" ELSE @]
  /\ cache' = Recorded(c)
  /\ UNCHANGED <<stream, question>>

ChatTimeout(c) ==
  /\ chat[c] = "waiting"
  /\ chat' = [chat EXCEPT ![c] = "timeout"]
  /\ UNCHANGED <<stream, owed, question, cache>>

\* A response older than the TTL goes when it is read or pruned.
Lapse(id) ==
  /\ Contains(cache, id)
  /\ cache' = Remove(cache, id)
  /\ UNCHANGED <<stream, owed, question, chat>>

Next ==
  \/ \E e \in Execs : Execute(e) \/ Heartbeat(e)
  \/ Reply \/ Progress \/ CancelTask \/ Ask \/ Answer \/ Expire
  \/ \E c \in Chats : Dispatch(c) \/ ChatReply(c) \/ ChatTimeout(c)
  \/ \E id \in {Task} \union Chats : Lapse(id)

\* The dispatcher answers what it was asked; timers fire.
Fairness ==
  /\ WF_vars(Reply)
  /\ \A c \in Chats : WF_vars(ChatTimeout(c))
  /\ WF_vars(Expire)

Spec == Init /\ [][Next]_vars /\ Fairness

-----------------------------------------------------------------------------
(* Properties *)

\* A stream that has ended says nothing more and never ends twice, however
\* replies, their duplicates, heartbeats and cancellations race
\* (BusAgentExecutor.execute's settled flag, four subscriptions and timer).
SilentAfterTheEnd ==
  [][\A e \in Execs : ends[e] > 0 => said'[e] = said[e] /\ ends'[e] = ends[e]]_vars

\* The cancel hook never belongs to an execution that has ended, even though an
\* execution replaces and removes the hook of another.
HookIsOpen == hook # "none" => exec[hook] = "open"

\* Every execution ends: also the one whose cancel hook another took away, and
\* the one the bus passes over while it delivers the first response.
EveryExecutionEnds == \A e \in Execs : []<>(exec[e] # "open")

\* An answer that was taken with success reached the tool call that asked: the
\* timeout of the question and the answer never both win.
AcceptedWasHeard == accepted => ask = "answered"

=============================================================================
