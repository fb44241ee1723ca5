-------------------------------- MODULE Boot --------------------------------
(***************************************************************************)
(* The life of the process: the core plugins are installed at once, the    *)
(* scheduler with what it missed among them, those of the registry one     *)
(* after the other with an await before each, then the server listens; a   *)
(* signal stops the server, uninstalls every plugin, waits for the tracer  *)
(* and exits.  A schedule's firing is heard by the router, asked of the    *)
(* dispatcher and run by the agent a registrar has registered, if they are *)
(* there: what is published to nobody is gone.                             *)
(***************************************************************************)
EXTENDS Naturals, Sequences, FiniteSets, SequencesExt

CONSTANTS
  Schedules, ServedBy(_), \* one-shot schedules, the registrar of the agent each is for
  Clients,        \* of the bus's web socket
  MaxStarts

VARIABLES
  env,            \* of the process: "production" if isProductionLike, "key" if WORKSTACEAN_API_KEY is set
  phase,          \* "off", "core", "loading", "serving", "draining"
  loaded,         \* entries of the registry gone through
  installed, failed,
  weighted,       \* the health of the fleet weighs in the registry of executors
  fate,           \* of each schedule: "due", "unheard", "unasked", "dropped", "running", "done", "cut"
  overdue,        \* schedules that came due while no process was up
  sockets,        \* clients connected and subscribed
  starts

plugins == <<loaded, installed, failed, weighted>>
vars == <<env, phase, plugins, fate, overdue, sockets, starts>>

\* The registry in its order; the entries without a part here are left out, and the condition of
\* the others always holds.
DispatcherFirst ==
  <<"router", "skill-dispatcher", "agent-runtime", "skill-broker", "agent-fleet-health", "fleet-alerts-evaluator">>
Registry ==
  <<"router", "agent-runtime", "skill-broker", "skill-dispatcher", "agent-fleet-health", "fleet-alerts-evaluator">>

Init ==
  /\ env = {} /\ phase = "off" /\ loaded = 0 /\ installed = {} /\ failed = {} /\ weighted = FALSE
  /\ fate = [s \in Schedules |-> "due"] /\ overdue = {} /\ sockets = {} /\ starts = 0

\* What becomes of a schedule that fires now.
Heard(s) ==
  CASE "router" \notin installed -> "unheard"
    [] "router" \in installed /\ "skill-dispatcher" \notin installed -> "unasked"
    [] {"router", "skill-dispatcher"} \subseteq installed /\ ServedBy(s) \notin installed -> "dropped"
    [] OTHER -> "running"

\* A process has the environment it is deployed with.  The core plugins, fail-fast: the scheduler fires what it has missed as it is installed.
Start ==
  /\ phase = "off" /\ starts < MaxStarts /\ starts' = starts + 1 /\ env' \in SUBSET {"production", "key"}
  /\ phase' = "loading" /\ loaded' = 0 /\ installed' = {} /\ failed' = {} /\ weighted' = FALSE
  /\ fate' = [s \in Schedules |-> IF s \in overdue /\ fate[s] = "due" THEN "unheard" ELSE fate[s]]
  /\ overdue' = {} /\ UNCHANGED sockets

\* A timer of the scheduler's fires, while the plugin is installed.
Fire(s) ==
  /\ phase \in {"loading", "serving"} /\ fate[s] = "due"
  /\ fate' = [fate EXCEPT ![s] = Heard(s)]
  /\ UNCHANGED <<env, phase, plugins, overdue, sockets, starts>>

ComesDue(s) ==
  /\ phase = "off" /\ starts < MaxStarts /\ fate[s] = "due" /\ s \notin overdue
  /\ overdue' = overdue \union {s} /\ UNCHANGED <<env, phase, plugins, fate, sockets, starts>>

\* factory and install of the next entry: a throw skips it.  The alerts' factory throws unless
\* the fleet's health is there.
Throws(p) == p = "fleet-alerts-evaluator" /\ "agent-fleet-health" \notin installed

Load ==
  /\ phase = "loading" /\ loaded < Len(Registry) /\ loaded' = loaded + 1
  /\ LET p == Registry[loaded + 1]
     IN \/ ~Throws(p) /\ installed' = installed \union {p} /\ UNCHANGED failed
        \/ failed' = failed \union {p} /\ UNCHANGED installed
  /\ UNCHANGED <<env, phase, weighted, fate, overdue, sockets, starts>>

\* Whatever ends the process, runs under way are cut off.
Ended ==
  /\ phase' = "off" /\ sockets' = {}
  /\ fate' = [s \in Schedules |-> IF fate[s] = "running" THEN "cut" ELSE fate[s]]

\* Without a key a server that looks like production exits instead of listening.
Guarded == "production" \in env => "key" \in env
ServesAlways == TRUE
Serves == Guarded

Serve ==
  /\ phase = "loading" /\ loaded = Len(Registry)
  /\ \/ Serves /\ phase' = "serving" /\ UNCHANGED <<fate, sockets>>
     \/ ~Serves /\ Ended
  /\ UNCHANGED <<env, loaded, installed, failed, weighted, overdue, starts>>

Weigh ==
  /\ phase = "serving" /\ ~weighted /\ "agent-fleet-health" \in installed /\ weighted' = TRUE
  /\ UNCHANGED <<env, phase, loaded, installed, failed, fate, overdue, sockets, starts>>

Finish(s) ==
  /\ fate[s] = "running" /\ phase # "off" /\ fate' = [fate EXCEPT ![s] = "done"]
  /\ UNCHANGED <<env, phase, plugins, overdue, sockets, starts>>

Connect(c) ==
  /\ phase = "serving" /\ c \notin sockets /\ sockets' = sockets \union {c}
  /\ UNCHANGED <<env, phase, plugins, fate, overdue, starts>>

Disconnect(c) ==
  /\ c \in sockets /\ sockets' = sockets \ {c} /\ UNCHANGED <<env, phase, plugins, fate, overdue, starts>>

\* gracefulShutdown up to its await; a second signal finds shuttingDown set.
Signal ==
  /\ phase = "serving" /\ phase' = "draining" /\ installed' = {}
  /\ UNCHANGED <<env, loaded, failed, weighted, fate, overdue, sockets, starts>>

\* The tracer is flushed and the stores are closed, whatever still runs.
Exit == phase = "draining" /\ Ended /\ UNCHANGED <<env, plugins, overdue, starts>>

\* An uncaught exception, or a kill.
Crash == phase # "off" /\ Ended /\ UNCHANGED <<env, plugins, overdue, starts>>

Next ==
  \/ Start \/ Load \/ Serve \/ Weigh \/ Signal \/ Exit \/ Crash
  \/ \E s \in Schedules : Fire(s) \/ ComesDue(s) \/ Finish(s)
  \/ \E c \in Clients : Connect(c) \/ Disconnect(c)

Spec == Init /\ [][Next]_vars

-----------------------------------------------------------------------------

\* The variables have their types.
TypeOK ==
  /\ env \subseteq {"production", "key"} /\ phase \in {"off", "loading", "serving", "draining"}
  /\ loaded \in 0 .. Len(Registry) /\ installed \subseteq ToSet(Registry) /\ failed \subseteq ToSet(Registry)
  /\ weighted \in BOOLEAN /\ overdue \subseteq Schedules /\ sockets \subseteq Clients
  /\ \A s \in Schedules : fate[s] \in {"due", "unheard", "unasked", "dropped", "running", "done", "cut"}
  /\ starts \in 0 .. MaxStarts

\* Booting in the registry's order, a request the dispatcher hears is dropped only if the
\* registrar of its agent has failed, the alerts are evaluated on a health that is there, and
\* no client is connected to a server that looks like production and has no key.
BootOrder ==
  /\ [][\A s \in Schedules : fate[s] = "due" /\ fate'[s] = "dropped" => ServedBy(s) \in failed]_vars
  /\ [](phase = "loading" /\ "fleet-alerts-evaluator" \in installed => "agent-fleet-health" \in installed)
  /\ [](sockets # {} => phase \in {"serving", "draining"} /\ Guarded)

=============================================================================
