---------------------------- MODULE FleetHealth ----------------------------
(***************************************************************************)
(* What the operator is told of the fleet, by two watchers that share no   *)
(* state. The health of one agent: its outcomes in the rolling windows     *)
(* (agent-fleet-health-plugin.ts) and in the database (fleet-state.ts),    *)
(* and the alerts the evaluator fires at its thresholds                    *)
(* (fleet-alerts-evaluator-plugin.ts), published by the alert skills       *)
(* (alert-skill-executor-plugin.ts). And storms of dispatches that are     *)
(* dropped again and again (dispatch-drop-escalator-plugin.ts).            *)
(*                                                                         *)
(* A tick is the ceremony's five minutes, and at most one outcome a tick   *)
(* is followed, so the database prunes nothing.  Costs and latencies are   *)
(* left out, and with them the third alert.                                *)
(***************************************************************************)
EXTENDS Naturals, FiniteSets

Hour == 2       \* WINDOW_1H_MS, twelve ticks
Day == 3        \* WINDOW_MS
Cooldown == 2   \* ALERT_COOLDOWN_MS_DEFAULT, three ticks

Keys == {"cooldown:triage", "no_skill:?"}   \* two of _dropKey's
StormWindow == 2     \* STORM_WINDOW_MS, in ticks
Threshold == 2       \* STORM_THRESHOLD, of ten
EscalationRest == 3  \* ESCALATION_COOLDOWN_MS, in ticks

VARIABLES
  window,      \* the outcome of each tick of the last day, or None
  registered,  \* the registry knows the agent
  lastFired,   \* ticks since each alert was fired, up to Cooldown
  due,         \* the ceremony's evaluation is due
  asked,       \* alert skills requested
  told,        \* the alert published by the last step, or "none"
  settled,     \* no restart and no change of the registry any more
  drops,       \* each key's drops by the ticks since, counted up to Threshold
  escalated,   \* ticks since each key's last escalation, up to EscalationRest
  dropped,     \* the key of the last step's drop, or "none"
  dropTold     \* the key it told the operator of, or "none"

health == <<window, registered>>
fleetVars == <<health, lastFired, due, asked, told, settled>>
dropVars == <<drops, escalated, dropped, dropTold>>
vars == <<fleetVars, dropVars>>

Alerts == {"fleet_agent_stuck", "fleet_skill_orphaned"}
None == [success |-> FALSE, bucket |-> "none"]
Outcomes == [success : BOOLEAN, bucket : {"agents", "systemActors"}]

TypeOK ==
  /\ window \in [0 .. Day - 1 -> Outcomes \cup {None}] /\ registered \in BOOLEAN
  /\ lastFired \in [Alerts -> 0 .. Cooldown] /\ due \in BOOLEAN
  /\ asked \subseteq Alerts /\ told \in Alerts \cup {"none"} /\ settled \in BOOLEAN
  /\ drops \in [Keys -> [0 .. StormWindow - 1 -> 0 .. Threshold]]
  /\ escalated \in [Keys -> 0 .. EscalationRest]
  /\ dropped \in Keys \cup {"none"} /\ dropTold \in Keys \cup {"none"}

FleetInit ==
  /\ window = [t \in 0 .. Day - 1 |-> None] /\ registered \in BOOLEAN
  /\ lastFired = [a \in Alerts |-> Cooldown] /\ due = FALSE
  /\ asked = {} /\ told = "none" /\ settled = FALSE

DropInit ==
  /\ drops = [k \in Keys |-> [t \in 0 .. StormWindow - 1 |-> 0]]
  /\ escalated = [k \in Keys |-> EscalationRest]
  /\ dropped = "none" /\ dropTold = "none"

Init == FleetInit /\ DropInit

-----------------------------------------------------------------------------
(* Outcomes. *)

\* _isRegisteredAgent: anybody else is a system actor.
Bucket == IF registered THEN "agents" ELSE "systemActors"

Record ==
  /\ window[0] = None
  /\ \E success \in BOOLEAN :
       window' = [window EXCEPT ![0] = [success |-> success, bucket |-> Bucket]]
  /\ told' = "none"
  /\ UNCHANGED <<registered, lastFired, due, asked, settled>>

\* recordOutcome: any of them may have failed, as the database may.
Stored == SUBSET {t \in DOMAIN window : window[t] # None}

\* hydrateRecords and _addToWindow: what was stored, in the bucket of today.
Hydrated(t, stored, bucket) == IF t \in stored THEN [window[t] EXCEPT !.bucket = bucket] ELSE None

\* Remote agents are registered by their discovery only, after the install.
Restart ==
  /\ ~settled
  /\ registered' \in BOOLEAN
  /\ \E stored \in Stored :
       window' = [t \in DOMAIN window |->
                    Hydrated(t, stored, IF registered' THEN "agents" ELSE "systemActors")]
  /\ lastFired' = [a \in Alerts |-> Cooldown] /\ asked' = {} /\ due' = FALSE
  /\ told' = "none" /\ UNCHANGED settled

Discover ==
  /\ ~registered /\ registered' = TRUE /\ told' = "none"
  /\ UNCHANGED <<window, lastFired, due, asked, settled>>

Unregister ==
  /\ registered /\ ~settled /\ registered' = FALSE /\ told' = "none"
  /\ UNCHANGED <<window, lastFired, due, asked, settled>>

Settle == ~settled /\ settled' = TRUE /\ told' = "none" /\ UNCHANGED <<health, lastFired, due, asked>>

-----------------------------------------------------------------------------
(* Alerts. *)

\* Of the outcomes in a set of ticks: more than half failed; all failed.
Fails(ticks) == {t \in ticks : window[t] # None /\ ~window[t].success}
Succeeds(ticks) == {t \in ticks : window[t] # None /\ window[t].success}
Stuck(ticks) == Cardinality(Fails(ticks)) > Cardinality(Succeeds(ticks))
Orphaned(ticks) == Fails(ticks) # {} /\ Succeeds(ticks) = {}

\* getFleetHealth counts the agents only.
Counted == {t \in DOMAIN window : window[t].bucket = "agents"}

\* _evaluate.
Violations ==
  {a \in Alerts : IF a = "fleet_agent_stuck" THEN Stuck(Counted \cap 0 .. Hour - 1)
                                             ELSE Orphaned(Counted)}

\* The alerts whose cooldown starts with the evaluation.  Mutant: one that is
\* suppressed starts it again.
AllStart(violations) == violations
Fired(violations) == {a \in violations : lastFired[a] = Cooldown}

\* The cooldown starts before the request is handled.
Evaluate ==
  /\ due /\ due' = FALSE
  /\ asked' = asked \cup {a \in Violations : lastFired[a] = Cooldown}
  /\ lastFired' = [a \in Alerts |-> IF a \in Fired(Violations) THEN 0 ELSE lastFired[a]]
  /\ told' = "none"
  /\ UNCHANGED <<health, settled>>

\* The skill publishes the alert.
Alert(a) ==
  /\ a \in asked /\ asked' = asked \ {a} /\ told' = a
  /\ UNCHANGED <<health, lastFired, due, settled>>

Tick ==
  /\ window' = [t \in DOMAIN window |-> IF t = 0 THEN None ELSE window[t - 1]]
  /\ lastFired' = [a \in Alerts |-> IF lastFired[a] = Cooldown THEN Cooldown ELSE lastFired[a] + 1]
  /\ due' = TRUE /\ told' = "none"
  /\ UNCHANGED <<registered, asked, settled>>

FleetNext ==
  \/ Record \/ Restart \/ Discover \/ Unregister \/ Settle
  \/ Evaluate \/ Tick \/ \E a \in Alerts : Alert(a)

-----------------------------------------------------------------------------
(* Storms of drops. *)

Storm(d) == d[0] + d[1] >= Threshold

\* _onDrop: the drop is recorded, then counted.  The sweeps, which forget what
\* is as old as the window or the cooldown, change nothing here.
Escalates(k) == Storm(drops'[k]) /\ escalated[k] = EscalationRest

Drop(k) ==
  /\ drops' = [drops EXCEPT ![k][0] = IF @ = Threshold THEN @ ELSE @ + 1]
  /\ dropped' = k
  /\ IF Escalates(k) THEN dropTold' = k /\ escalated' = [escalated EXCEPT ![k] = 0]
                     ELSE dropTold' = "none" /\ UNCHANGED escalated

DropTick ==
  /\ drops' = [k \in Keys |-> [t \in 0 .. StormWindow - 1 |-> IF t = 0 THEN 0 ELSE drops[k][t - 1]]]
  /\ escalated' = [k \in Keys |->
                     IF escalated[k] = EscalationRest THEN EscalationRest ELSE escalated[k] + 1]
  /\ dropped' = "none" /\ dropTold' = "none"

DropNext == DropTick \/ \E k \in Keys : Drop(k)

-----------------------------------------------------------------------------
Next ==
  \/ FleetNext /\ UNCHANGED dropVars
  \/ DropNext /\ UNCHANGED fleetVars

Spec == Init /\ [][Next]_vars

\* Time passes, the ceremony runs, requests are handled, agents are discovered.
FairSpec ==
  /\ Spec /\ WF_fleetVars(Tick) /\ WF_fleetVars(Evaluate) /\ WF_fleetVars(Discover)
  /\ \A a \in Alerts : WF_fleetVars(Alert(a))
  /\ WF_dropVars(DropTick)

-----------------------------------------------------------------------------
(* Properties *)

\* Of an agent that keeps failing, or whose skill never succeeds, the operator
\* is told again and again, whichever bucket its outcomes were hydrated into.
FailingIsTold ==
  /\ <>[](settled /\ Stuck(0 .. Hour - 1)) => []<>(told = "fleet_agent_stuck")
  /\ <>[](settled /\ Orphaned(DOMAIN window)) => []<>(told = "fleet_skill_orphaned")

\* Of a storm that goes on the operator is told again and again, whatever else
\* is dropped meanwhile.
StormIsTold ==
  \A k \in Keys : []<>(dropped = k /\ Storm(drops[k])) => []<>(dropTold = k)

=============================================================================
