----------------------------- MODULE SkillBroker -----------------------------
(***************************************************************************)
(* Remote agents: how a registration travels from the control-plane API    *)
(* (src/api/agents-crud.ts) through ControlPlaneRegistrarPlugin (a file in *)
(* agents.d/ and a durable row) to SkillBrokerPlugin, which registers an   *)
(* executor for every skill declared in the entry or advertised on the     *)
(* agent's card.                                                           *)
(*                                                                         *)
(* The card is fetched asynchronously: everything before the await is the  *)
(* start of a discovery, everything after it its return.  An executor is   *)
(* identified with the entry it was built from.                            *)
(***************************************************************************)
EXTENDS FiniteSets, Naturals

CONSTANTS Agent,       \* the names an agent may have
          Skill,
          Entry,       \* what can be registered: a url, auth and a skills block
          NameOf,      \* [Entry -> Agent]
          SkillsOf,    \* [Entry -> SUBSET Skill]: the declared skills block
          Offer,       \* [Entry -> SUBSET Skill]: what its card may ever show
          Base,        \* [Agent -> Entry or None]: agents.yaml
          Safe,        \* [Agent -> Agent]: safeFileName, the name the API files it under
          Unfiled,     \* the names with a separator, which name no file of agents.d/
          None,
          MaxFetches   \* bound on the discoveries in flight

Optional == Entry \union {None}

ASSUME BrokerAssumption ==
  /\ None \notin Entry
  /\ NameOf \in [Entry -> Agent]
  /\ SkillsOf \in [Entry -> SUBSET Skill]
  /\ Offer \in [Entry -> SUBSET Skill]
  /\ Base \in [Agent -> Optional]
  /\ \A a \in Agent : Base[a] # None => NameOf[Base[a]] = a
  /\ Safe \in [Agent -> Agent \ Unfiled]
  /\ \A a \in Agent : Safe[Safe[a]] = Safe[a]
  /\ MaxFetches \in Nat

VARIABLES up,       \* whether the process runs
          quiet,    \* the operator, the agents and the network have settled
          files,    \* agents.d/: the entry in the file <name>.yaml, for every name
          rows,     \* registrations.db: the entry stored under every name
          live,     \* agentDefs and executors
          regs,     \* ExecutorRegistry._registrations of remote agents
          tracked,  \* registeredSkills: the card skills of each agent
          card,     \* what the server behind each entry advertises now
          fetches,  \* discoveries awaiting _fetchCard
          may       \* history: the entries an agent may have, given what the
                    \* API acknowledged and what a crash interrupted

durable == <<files, rows, may>>
memory == <<live, regs, tracked, fetches>>
vars == <<up, quiet, durable, memory, card>>

Registration == [skill : Skill, agent : Agent, entry : Entry]
Discovery == [entry : Entry, seen : SUBSET Skill]

TypeOK ==
  /\ up \in BOOLEAN /\ quiet \in BOOLEAN
  /\ files \in [Agent -> Optional]
  /\ rows \in [Agent -> Optional]
  /\ live \in [Agent -> Optional]
  /\ regs \subseteq Registration
  /\ tracked \in [Agent -> SUBSET Skill]
  /\ card \in [Entry -> SUBSET Skill]
  /\ fetches \subseteq Discovery
  /\ may \in [Agent -> SUBSET Optional]

Nobody == [a \in Agent |-> None]
NoSkills == [a \in Agent |-> {}]

\* The yaml overrides of an agent; `?? new Set()` for one that is not live.
Declared(a) == IF live[a] = None THEN {} ELSE SkillsOf[live[a]]

\* Mutant: the agent's name is not passed to register().
Anonymous(e, skills) == [skill : skills, agent : {None}, entry : {e}]

Registrations(e, skills) == [skill : skills, agent : {NameOf[e]}, entry : {e}]

Without(a) == {r \in regs : r.agent # a}

\* _discoverSkills up to its await, for the executors of these entries.
Discoveries(entries) == {[entry |-> e, seen |-> card[e]] : e \in entries}

StartDiscoveries(entries) ==
  /\ fetches' = fetches \union Discoveries(entries)
  /\ Cardinality(fetches') <= MaxFetches

\* The managed entries of an agent, whichever files they are in.
Filed(fs, a) == {e \in {fs[n] : n \in Agent} \ {None} : NameOf[e] = a}

\* Managed wins over agents.yaml, and of two files that name one agent the one
\* readdirSync lists last.
Managed(fs, a) == IF Filed(fs, a) = {} THEN {Base[a]} ELSE Filed(fs, a)

------------------------------------------------------------------------------
(* Commands of the control plane.  The bus delivers to the registrar, then *)
(* to the broker, before publish returns.                                  *)

\* POST refuses a name that is known, PUT one whose file is not there.
MayUpsert(a) == \/ Base[a] = None /\ Filed(files, a) = {}
                \/ files[Safe[a]] # None

\* _registerAgent sweeps the agent's registrations only if it is live.
UpsertRecording(e, recorded) ==
  LET a == NameOf[e] IN
  /\ up /\ ~quiet /\ MayUpsert(a)
  /\ files' = [files EXCEPT ![Safe[a]] = e]
  /\ rows' = [rows EXCEPT ![a] = e]
  /\ may' = [may EXCEPT ![a] = {e}]
  /\ live' = [live EXCEPT ![a] = e]
  /\ regs' = (IF live[a] # None THEN Without(a) ELSE regs)
             \union Registrations(e, SkillsOf[e])
  /\ tracked' = recorded
  /\ StartDiscoveries({e})
  /\ UNCHANGED <<up, quiet, card>>

\* Mutant: the card skills registered for the old entry stay recorded.
UpsertKeepsTracked(e) == UpsertRecording(e, tracked)

Upsert(e) == UpsertRecording(e, [tracked EXCEPT ![NameOf[e]] = {}])

RemoveFrom(a, stored) ==
  /\ up /\ ~quiet /\ files[Safe[a]] # None
  /\ files' = [files EXCEPT ![Safe[a]] = None]
  /\ rows' = stored
  /\ may' = [may EXCEPT ![a] = {None}]
  /\ live' = [live EXCEPT ![a] = None]
  /\ regs' = Without(a)
  /\ tracked' = [tracked EXCEPT ![a] = {}]
  /\ UNCHANGED <<up, quiet, card, fetches>>

\* Mutant: only the file is removed.
RemoveFileOnly(a) == RemoveFrom(a, rows)

Remove(a) == RemoveFrom(a, [rows EXCEPT ![a] = None])

------------------------------------------------------------------------------
(* Discovery.                                                              *)

\* The refresh timer: one discovery for every live agent.
Refresh ==
  /\ up
  /\ StartDiscoveries({live[a] : a \in Agent} \ {None})
  /\ UNCHANGED <<up, quiet, durable, live, regs, tracked, card>>

\* Mutant: declared skills are pruned like the others.
ToRemoveDeclared(previous, overrides, current) ==
  (previous \union overrides) \ current

\* reconcileCardSkills
ToAdd(previous, overrides, current) == current \ (previous \union overrides)
ToRemove(previous, overrides, current) == previous \ (current \union overrides)

\* Mutant: the set is replaced before it is compared.
DiscoveryReturnsUncompared(f, current) ==
  /\ f \in fetches
  /\ fetches' = fetches \ {f}
  /\ tracked' = [tracked EXCEPT ![NameOf[f.entry]] = current]
  /\ UNCHANGED <<up, quiet, durable, live, card, regs>>

\* _discoverSkills after its await: the agent's sets are read now, whatever
\* became of the agent since the fetch began.
DiscoveryReturns(f, current) ==
  LET a == NameOf[f.entry]
      added == ToAdd(tracked[a], Declared(a), current)
      dropped == ToRemove(tracked[a], Declared(a), current)
  IN
  /\ f \in fetches
  /\ fetches' = fetches \ {f}
  /\ regs' = {r \in regs \union Registrations(f.entry, added) :
                ~(r.agent = a /\ r.skill \in dropped)}
  /\ tracked' = [tracked EXCEPT ![a] = current]
  /\ UNCHANGED <<up, quiet, durable, live, card>>

\* The server answers with its card as it was when asked, or as it is now.
Discovered == \E f \in fetches : \E current \in {f.seen, card[f.entry]} :
                DiscoveryReturns(f, current)

\* _fetchCard returns null: both paths of the card failed.
DiscoveryFails(f) ==
  /\ ~quiet /\ f \in fetches
  /\ fetches' = fetches \ {f}
  /\ UNCHANGED <<up, quiet, durable, live, regs, tracked, card>>

------------------------------------------------------------------------------
(* Crashes and restarts.                                                   *)

Down ==
  /\ up /\ ~quiet
  /\ up' = FALSE
  /\ live' = Nobody /\ regs' = {} /\ tracked' = NoSkills /\ fetches' = {}
  /\ UNCHANGED <<quiet, card>>

Stop == Down /\ UNCHANGED durable

\* The process dies between renameSync and store.upsert.
CrashInWrite(e) ==
  LET a == NameOf[e] IN
  /\ Down /\ MayUpsert(a)
  /\ files' = [files EXCEPT ![Safe[a]] = e]
  /\ may' = [may EXCEPT ![a] = @ \union {e}]
  /\ UNCHANGED rows

\* The process dies between unlinkSync and store.remove.
CrashInDelete(a) ==
  /\ Down /\ files[Safe[a]] # None
  /\ files' = [files EXCEPT ![Safe[a]] = None]
  /\ may' = [may EXCEPT ![a] = @ \union {None}]
  /\ UNCHANGED rows

\* Mutant: rows are not read back.
NotRematerialized(fs) == fs

\* _rematerialize: a row whose file is missing is written to <name>.yaml, the
\* name as it is, which is another file than the API's where safeFileName
\* changes the name.
Rematerialized(fs) ==
  [n \in Agent |-> IF fs[n] = None /\ n \notin Unfiled THEN rows[n] ELSE fs[n]]

\* The registrar installs before the broker.  A redeploy starts from a fresh
\* clone, without agents.d/.
Boot(redeployed) ==
  /\ ~up
  /\ up' = TRUE
  /\ files' = Rematerialized(IF redeployed THEN Nobody ELSE files)
  /\ live' \in [Agent -> Optional]
  /\ \A a \in Agent : live'[a] \in Managed(files', a)
  /\ regs' = UNION {Registrations(e, SkillsOf[e]) :
                      e \in {live'[a] : a \in Agent} \ {None}}
  /\ tracked' = NoSkills
  /\ StartDiscoveries({live'[a] : a \in Agent} \ {None})
  /\ UNCHANGED <<quiet, rows, may, card>>

CardChanges(e) ==
  /\ ~quiet
  /\ \E skills \in SUBSET Offer[e] : card' = [card EXCEPT ![e] = skills]
  /\ UNCHANGED <<up, quiet, durable, memory>>

Settle == ~quiet /\ quiet' = TRUE /\ UNCHANGED <<up, durable, memory, card>>

Init ==
  /\ up = FALSE /\ quiet = FALSE
  /\ files = Nobody /\ rows = Nobody
  /\ may = [a \in Agent |-> {None}]
  /\ live = Nobody /\ regs = {} /\ tracked = NoSkills /\ fetches = {}
  /\ card = [e \in Entry |-> {}]

Next ==
  \/ \E e \in Entry : Upsert(e) \/ CrashInWrite(e) \/ CardChanges(e)
  \/ \E a \in Agent : Remove(a) \/ CrashInDelete(a)
  \/ Refresh \/ Discovered
  \/ \E f \in fetches : DiscoveryFails(f)
  \/ Stop \/ Settle
  \/ \E redeployed \in BOOLEAN : Boot(redeployed)

\* A stopped process is started again, the refresh timer recurs, and a fetch
\* is answered or fails.
Fairness ==
  /\ WF_vars(\E redeployed \in BOOLEAN : Boot(redeployed))
  /\ WF_vars(Refresh)
  /\ \A e \in Entry : \A seen \in SUBSET Skill :
       LET f == [entry |-> e, seen |-> seen] IN
       WF_vars(\E current \in {seen, card[e]} : DiscoveryReturns(f, current))

Spec == Init /\ [][Next]_vars /\ Fairness

------------------------------------------------------------------------------
(* Properties.                                                             *)

Served(a) == {r.skill : r \in {x \in regs : x.agent = a}}

\* The skills declared in a live agent's entry are always registered with the
\* executor built from that entry, whatever its card shows and whichever
\* earlier discovery returns late (registeredSkills against yamlSkills).
DeclaredServed ==
  \A a \in Agent : live[a] # None =>
    Registrations(live[a], SkillsOf[live[a]]) \subseteq regs

\* A card skill the broker has recorded is in the registry: were it not, no
\* later refresh would add it, since only the difference is registered.
RecordedIsRegistered == \A a \in Agent : tracked[a] \subseteq Served(a)

\* Names that are the name of their own file and of no other agent's.
Plain == {a \in Agent : \A b \in Agent : (Safe[b] = a) <=> (b = a)}

\* Whatever crashes, restarts and redeploys happen, the stored entry of an agent
\* is the one last acknowledged, or one whose command a crash cut off, and so is
\* what its file holds and what any file says of it.  The files of other names
\* are exempt: the registrar writes them beside the API's, which a later DELETE
\* or PUT does not touch.
AcknowledgedKept ==
  /\ \A a \in Agent : rows[a] \in may[a]
  /\ \A a \in Plain : files[a] \in may[a] /\ Filed(files, a) \subseteq {files[a]}

\* Once cards and operators have settled, every skill on a live agent's card
\* is served and stays served: refreshes mend what late or failed discoveries
\* left behind.
EventuallyServed ==
  <>[](quiet => \A a \in Agent : live[a] # None => card[live[a]] \subseteq Served(a))

\* "Unregister an A2A agent and every skill it owns": once all has settled
\* every registration belongs to the entry its agent has now.
EventuallyOnlyLive == <>[](quiet => \A r \in regs : r.entry = live[r.agent])
==============================================================================
