--------------------------- MODULE Conversations ---------------------------
(***************************************************************************)
(* Discord messages of a server on their way to an agent and back: the     *)
(* handlers of lib/plugins/discord/inbound.ts, the sessions of             *)
(* lib/conversation/conversation-manager.ts, the rate limit, the router    *)
(* (src/router/) and the replies of lib/plugins/discord/outbound.ts.  What *)
(* the dispatcher does with a request is modelled by SkillDispatcher; here *)
(* a request ends with an answer, with an error, or not at all, is answered *)
(* twice when a poll of its task was in flight at the first answer         *)
(* (TaskTracker), and outlives the process when its task was tracked.      *)
(*                                                                         *)
(* A message is posted in a channel with conversations ("talk"), in a      *)
(* research thread ("research"), is reacted to ("reaction") or typed as a  *)
(* command ("command"), by someone who may talk to agents, and is no spam. *)
(* A correlation id is named after the delivery that made it.              *)
(***************************************************************************)
EXTENDS Naturals, FiniteSets

CONSTANTS Messages, AuthorOf, KindOf, Mentioned, RateMax, Window, Timeout, MaxTime

Deliveries == Messages \X {1, 2}    \* the second is a replay after a gateway RESUME
NoMessage == "none"
NoId == <<NoMessage, 0>>
NoConversation == [id |-> NoId, last |-> 0]
Users == {AuthorOf[m] : m \in Messages}

VARIABLES
  now,        \* the clock
  delivered,  \* deliveries so far
  seen,       \* messages in the dedup map, whose TTL outlasts a RESUME
  handling,   \* deliveries in their handler, which awaits Discord
  hits,       \* rate-limit hits, each also a row in events.db
  conv,       \* ConversationManager.conversations of the channel
  idOf,       \* the correlation id a delivery was published with
  pending,    \* pendingReplies, with pendingAgents and pendingTurns
  requests,   \* deliveries whose skill request is in progress
  late,       \* deliveries answered while a poll of their task was in flight
  orphaned,   \* requests that a restart parted from their handles
  replies,    \* replies on messages: the message and the delivery answered
  pushed,     \* deliveries answered as an unprompted push, to the digest channel
  passed      \* the hits that were let through, ever

vars == <<now, delivered, seen, handling, hits, conv, idOf, pending, requests, late, orphaned,
          replies, pushed, passed>>

Author(d) == AuthorOf[d[1]]
Talk(d) == KindOf[d[1]] = "talk"
Research(d) == KindOf[d[1]] = "research"
Reaction(d) == KindOf[d[1]] = "reaction"
Command(d) == KindOf[d[1]] = "command"
Unlimited(d) == Reaction(d) \/ Command(d)

Init ==
  /\ now = 0 /\ delivered = {} /\ seen = {} /\ handling = {} /\ hits = {}
  /\ conv = [u \in Users |-> NoConversation] /\ idOf = [d \in Deliveries |-> NoId]
  /\ pending = [d \in Deliveries |-> NoMessage]
  /\ requests = {} /\ late = {} /\ orphaned = {} /\ replies = {} /\ pushed = {} /\ passed = {}

-----------------------------------------------------------------------------
(* Inbound. *)

\* has, and the reuse in getOrCreate
Active(u) == conv[u] # NoConversation /\ now - conv[u].last < Timeout

\* continueWithoutMention; threads, reactions and commands need no mention.
Addressed(d) == ~Talk(d) \/ d[1] \in Mentioned \/ Active(Author(d))

\* isRateLimited counts this hit and those refused.  Reactions and commands are
\* not limited.
Recent(u) == {h \in hits : h.user = u /\ now - h.at < Window}
Limited(d) == ~Unlimited(d) /\ Cardinality(Recent(Author(d))) + 1 > RateMax
Hit(d) == IF Unlimited(d) THEN {} ELSE {[user |-> Author(d), at |-> now, of |-> d]}

\* alreadyHandled records the message before the first await; of a command
\* Discord itself takes one deferReply.
\* Mutant: the message is recorded when its handler is through.
UnhandledYet(d) == \A e \in Deliveries : e[1] = d[1] => idOf[e] = NoId
Unhandled(d) == d[1] \notin seen

\* MessageCreate, MessageReactionAdd, InteractionCreate, up to the first await.
Receive(d) ==
  /\ d \notin delivered /\ (d[2] = 2 => <<d[1], 1>> \in delivered)
  /\ delivered' = delivered \union {d}
  /\ \/ ~Unhandled(d) /\ UNCHANGED <<seen, handling, hits, passed>>
     \/ /\ Unhandled(d) /\ seen' = seen \union {d[1]}
        /\ IF Addressed(d)
             THEN /\ hits' = hits \union Hit(d)
                  /\ IF Limited(d) THEN UNCHANGED <<handling, passed>>
                     ELSE handling' = handling \union {d} /\ passed' = passed \union Hit(d)
             ELSE UNCHANGED <<handling, hits, passed>>
  /\ UNCHANGED <<now, conv, idOf, pending, requests, late, orphaned, replies, pushed>>

\* getOrCreate: an active conversation keeps its id, its clock starts again.
Conversation(d) ==
  [id |-> IF Active(Author(d)) THEN conv[Author(d)].id ELSE d, last |-> now]

\* _handleInbound: a skill matches the message, or it is dropped; deep_research
\* is requested without the router.
Routed(d) == IF Research(d) THEN {requests \union {d}} ELSE {requests \union {d}, requests}

\* After react and buildMessageContext the handle replaces that of an earlier
\* turn, and the message is published.
Publish(d) ==
  /\ d \in handling /\ handling' = handling \ {d}
  /\ LET c == Conversation(d)
         id == IF Talk(d) THEN c.id ELSE d
     IN  /\ conv' = IF Talk(d) THEN [conv EXCEPT ![Author(d)] = c] ELSE conv
         /\ idOf' = [idOf EXCEPT ![d] = id]
         /\ pending' = [pending EXCEPT ![id] = d[1]]
  /\ requests' \in Routed(d)
  /\ UNCHANGED <<now, delivered, seen, hits, late, orphaned, replies, pushed, passed>>

-----------------------------------------------------------------------------
(* Outbound. *)

\* The first answer of a conversation takes the handle, whose turn it may not be; the
\* others have none and are pushed.
Send(d) ==
  /\ IF pending[idOf[d]] # NoMessage
       THEN /\ replies' = replies \union {[to |-> pending[idOf[d]], of |-> d]}
            /\ pending' = [pending EXCEPT ![idOf[d]] = NoMessage] /\ UNCHANGED pushed
       ELSE pushed' = pushed \union {d} /\ UNCHANGED <<replies, pending>>
  /\ UNCHANGED <<now, delivered, seen, handling, hits, conv, idOf, orphaned, passed>>

Answer(d) ==
  /\ d \in requests /\ requests' = requests \ {d} /\ Send(d)
  /\ late' \in {late, late \union {d}}

\* The poll comes back and answers once more.
AnswerAgain(d) == d \in late /\ late' = late \ {d} /\ Send(d) /\ UNCHANGED requests

\* A response without content, an error's, is not shown and leaves the handle.
Fail(d) ==
  /\ d \in requests /\ requests' = requests \ {d}
  /\ UNCHANGED <<now, delivered, seen, handling, hits, conv, idOf, pending, late, orphaned, replies,
                 pushed, passed>>

-----------------------------------------------------------------------------
(* Time, sweeps, restarts. *)

Tick ==
  /\ now < MaxTime /\ now' = now + 1
  /\ UNCHANGED <<delivered, seen, handling, hits, conv, idOf, pending, requests, late, orphaned,
                 replies, pushed, passed>>

\* _sweep ends the conversations that timed out, not what they asked.
\* Mutant: their handles go with them.
Dropped == [i \in Deliveries |-> IF \E u \in Users : conv[u].id = i /\ ~Active(u) THEN NoMessage ELSE pending[i]]
Kept == pending

Sweep ==
  /\ \E u \in Users : conv[u] # NoConversation /\ ~Active(u)
  /\ conv' = [u \in Users |-> IF Active(u) THEN conv[u] ELSE NoConversation]
  /\ pending' = Kept
  /\ UNCHANGED <<now, delivered, seen, handling, hits, idOf, requests, late, orphaned, replies,
                 pushed, passed>>

\* openRateLimitDb reads the rows of the window.
\* Mutant: a restart forgets the hits.
LoadedNone == {}
Loaded == {h \in hits : now - h.at < Window}

\* A new process, whose gateway session replays nothing.  The requests whose tasks were
\* tracked are in the tracker's rows and go on; the handles were in memory only.
Restart ==
  /\ requests' \in SUBSET requests /\ orphaned' = orphaned \union requests'
  /\ hits' = Loaded /\ seen' = {} /\ handling' = {} /\ late' = {}
  /\ delivered' = {d \in Deliveries : <<d[1], 1>> \in delivered}
  /\ conv' = [u \in Users |-> NoConversation] /\ pending' = [d \in Deliveries |-> NoMessage]
  /\ UNCHANGED <<now, idOf, replies, pushed, passed>>

Next ==
  \/ Tick \/ Sweep \/ Restart
  \/ \E d \in Deliveries : Receive(d) \/ Publish(d) \/ Answer(d) \/ AnswerAgain(d) \/ Fail(d)

Spec == Init /\ [][Next]_vars

-----------------------------------------------------------------------------
(* Properties. *)

TypeOK ==
  /\ now \in 0 .. MaxTime /\ seen \subseteq Messages
  /\ delivered \subseteq Deliveries /\ handling \subseteq delivered /\ requests \subseteq delivered
  /\ late \subseteq delivered /\ orphaned \subseteq delivered
  /\ \A h \in hits : h.user \in Users /\ h.at <= now
  /\ \A u \in Users : conv[u] = NoConversation \/ conv[u].id \in Deliveries
  /\ \A d \in Deliveries : idOf[d] \in Deliveries \union {NoId}
  /\ \A d \in Deliveries : pending[d] \in Messages \union {NoMessage}

\* No message is answered by two replies, however often a delivery is replayed or a
\* request answered.  An answer goes elsewhere only when the handle of its conversation
\* was taken, by another turn or by its own first answer, or when a restart lost the
\* handle of a request the tracker went on with: how long the agent took, and that the
\* conversation timed out meanwhile, does not matter.
RepliesFit ==
  /\ \A a, b \in replies : a.to = b.to => a = b
  /\ \A d \in pushed : d \in orphaned \/ \E a \in replies : idOf[a.of] = idOf[d]

\* In no window of time are more than RateMax messages of a user let through,
\* restarts and refused messages included.
RateKept ==
  \A u \in Users : \A t \in 0 .. MaxTime :
    Cardinality({h \in passed : h.user = u /\ h.at <= t /\ t - h.at < Window}) <= RateMax

=============================================================================
