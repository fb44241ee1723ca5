------------------------------ MODULE AgentPool ------------------------------
(***************************************************************************)
(* The Discord clients of the agents that have a bot of their own,         *)
(* lib/plugins/discord/agent-pool.ts, and the channel registry that may    *)
(* name such agents too. Clients log in while the configuration is read    *)
(* again, and what becomes of a login arrives when the pool has moved on.  *)
(***************************************************************************)
EXTENDS Naturals, Sequences, FiniteSets

CONSTANTS
  Agents,        \* agents whose bot token is in the environment
  ChannelFiles,  \* what channels.yaml may hold: the agents its channels give a token for
  MaxClients, MaxEdits

VARIABLES
  listed, filed, \* the agents with a bot of agents.yaml, and of workspace/agents
  watched,       \* agents.yaml was there when the plugin was installed
  changed,       \* agents.yaml changed and was not read again
  channelFile,   \* channels.yaml, or Torn while it does not parse
  bound,         \* the agents of the channel registry
  edits,
  client,        \* the clients created: agent, whether it handles messages, and
                 \* "login", "in", "failed", "destroyed", or
                 \* "aborted" when it was destroyed while it logged in
  pool,          \* agentClients: of each agent its client, 0 when it has none
  displaced      \* clients whose entry a login of another client's took away

config == <<listed, filed, watched, changed, channelFile, bound, edits>>
vars == <<config, client, pool, displaced>>

Torn == {"torn"}

\* Several clients put in the pool, one for each agent of as.
Created(as, hears, cs, p) ==
  LET order == CHOOSE s \in [1 .. Cardinality(as) -> as] : \A a \in as : \E i \in DOMAIN s : s[i] = a
      new == [i \in DOMAIN order |-> [agent |-> order[i], hears |-> hears, state |-> "login"]]
  IN [clients |-> cs \o new,
      pool |-> [a \in Agents |-> IF a \in as THEN Len(cs) + CHOOSE i \in DOMAIN order : order[i] = a ELSE p[a]]]

\* loadAgentPoolDefs
Loaded == listed \cup filed

\* The constructor of the registry loads channels.yaml; a file that does not
\* parse leaves it empty.
Init ==
  /\ listed \in SUBSET Agents /\ filed \in SUBSET Agents /\ watched \in BOOLEAN
  /\ ~watched => listed = {}
  /\ channelFile \in ChannelFiles /\ bound = channelFile
  /\ changed = FALSE /\ edits = 0 /\ displaced = {}
  /\ LET start == Created(Loaded \cup bound, TRUE, <<>>, [a \in Agents |-> 0])
     IN client = start.clients /\ pool = start.pool

EditAgents ==
  /\ edits < MaxEdits /\ edits' = edits + 1
  /\ \/ listed' \in SUBSET Agents /\ UNCHANGED filed
     \/ filed' \in SUBSET Agents /\ UNCHANGED listed
  /\ changed' = (changed \/ (watched /\ listed' # listed))
  /\ UNCHANGED <<watched, channelFile, bound, client, pool, displaced>>

EditChannels ==
  /\ edits < MaxEdits /\ edits' = edits + 1 /\ channelFile' \in ChannelFiles \cup {Torn}
  /\ UNCHANGED <<listed, filed, watched, changed, bound, client, pool, displaced>>

\* The registry keeps what it has when the file does not parse. The pool does
\* not hear of it.
LoadChannels ==
  /\ bound # channelFile /\ channelFile # Torn /\ bound' = channelFile
  /\ UNCHANGED <<listed, filed, watched, changed, channelFile, edits, client, pool, displaced>>

\* reloadAgentPool looks at the agents only, not at the channels; the clients it
\* creates have no handler for messages.
Gone == {a \in Agents : pool[a] # 0 /\ a \notin Loaded}

Destroyed ==
  [c \in DOMAIN client |->
     IF \E a \in Gone : pool[a] = c
     THEN [client[c] EXCEPT !.state = IF @ = "login" THEN "aborted" ELSE "destroyed"]
     ELSE client[c]]

GoneKept == [a \in Agents |-> pool[a]]
GoneRemoved == [a \in Agents |-> IF a \in Gone THEN 0 ELSE pool[a]]

Reload ==
  /\ changed /\ changed' = FALSE
  /\ LET new == {a \in Loaded : pool[a] = 0}
         made == Created(new, FALSE, Destroyed, GoneRemoved)
     IN /\ Len(made.clients) <= MaxClients
        /\ client' = made.clients /\ pool' = made.pool
  /\ UNCHANGED <<listed, filed, watched, channelFile, bound, edits, displaced>>

LoggedIn(c) ==
  /\ client[c].state = "login" /\ client' = [client EXCEPT ![c].state = "in"]
  /\ UNCHANGED <<config, pool, displaced>>

\* A login that fails takes the agent out of the pool, whichever client it has
\* now; a client destroyed while it logs in may fail as well.
LoginFailed(c) ==
  /\ client[c].state \in {"login", "aborted"}
  /\ client' = [client EXCEPT ![c].state = "failed"]
  /\ pool' = [pool EXCEPT ![client[c].agent] = 0]
  /\ displaced' = displaced \cup ({pool[client[c].agent]} \ {0, c})
  /\ UNCHANGED config

Next ==
  \/ EditAgents \/ EditChannels \/ LoadChannels \/ Reload
  \/ \E c \in DOMAIN client : LoggedIn(c) \/ LoginFailed(c)

Spec == Init /\ [][Next]_vars

-----------------------------------------------------------------------------
TypeOK ==
  /\ listed \cup filed \subseteq Agents /\ watched \in BOOLEAN /\ changed \in BOOLEAN
  /\ edits \in 0 .. MaxEdits /\ pool \in [Agents -> 0 .. Len(client)]
  /\ \A c \in DOMAIN client : client[c].agent \in Agents /\ client[c].hears \in BOOLEAN
                              /\ client[c].state \in {"login", "in", "failed", "destroyed", "aborted"}
  /\ displaced \subseteq DOMAIN client

\* Whoever writes for an agent finds a client that is up or coming up, never one
\* that was destroyed or could not log in; and a client that is up is the one of
\* its agent, unless the late failure of an earlier one took its place away.
PoolIsAlive ==
  /\ \A a \in Agents : pool[a] # 0 => client[pool[a]].agent = a /\ client[pool[a]].state \in {"login", "in"}
  /\ \A c \in DOMAIN client : client[c].state \in {"login", "in"} => pool[client[c].agent] = c \/ c \in displaced

=============================================================================
