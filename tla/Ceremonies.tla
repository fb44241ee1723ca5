----------------------------- MODULE Ceremonies -----------------------------
(***************************************************************************)
(* One ceremony: its YAML file, what the plugin has registered of it       *)
(* (src/plugins/CeremonyPlugin.ts with ceremonyYamlLoader.ts), its timer,  *)
(* its runs, the outcomes stored (ceremonyOutcomes.ts) and the status      *)
(* shown (CeremonyStateExtension.ts).                                      *)
(*                                                                         *)
(* The hot-reload compares sizes, and a size stands for a content here: an *)
(* edit that keeps the size is not one to the plugin.  The skill's         *)
(* dispatch is external, known by the reply it may publish.                *)
(***************************************************************************)
EXTENDS Naturals, FiniteSets

MaxStarted == 3    \* bounds the runs followed
MaxOutcomes == 2   \* MAX_OUTCOMES_PER_CEREMONY

VARIABLES
  file,      \* "absent", "on", "off", "broken"
  snapshot,  \* fileSnapshots: the content last seen, or "none"
  known,     \* the plugin and the state extension hold the ceremony
  timer,     \* it has a timer
  started,   \* runs so far: a run is its number
  waiting,   \* runs whose reply topic has a subscriber
  saved,     \* runs with an outcome in the database
  status,    \* what the extension shows: "none", "idle", "running", "failed"
  edits      \* somebody edits the file or restarts the process

registry == <<snapshot, known, timer>>
runs == <<started, waiting, saved>>
vars == <<file, registry, runs, status, edits>>

Contents == {"absent", "on", "off", "broken"}

TypeOK ==
  /\ file \in Contents /\ snapshot \in (Contents \ {"absent"}) \cup {"none"}
  /\ known \in BOOLEAN /\ timer \in BOOLEAN
  /\ started \in 0 .. MaxStarted /\ waiting \subseteq 1 .. started /\ saved \subseteq 1 .. started
  /\ Cardinality(saved) <= MaxOutcomes
  /\ status \in {"none", "idle", "running", "failed"} /\ edits \in BOOLEAN

\* _deployDefaults and _loadAndScheduleAll; a file that does not parse is left
\* out, as a disabled ceremony is.  The snapshots are empty.
Loads(content) ==
  [known |-> content = "on", status |-> IF content = "on" THEN "idle" ELSE "none"]

Init ==
  /\ file \in Contents /\ snapshot = "none"
  /\ known = Loads(file).known /\ timer = known /\ status = Loads(file).status
  /\ started = 0 /\ waiting = {} /\ saved = {} /\ edits = TRUE

-----------------------------------------------------------------------------
(* Runs. *)

\* _fireCeremony, and the dispatch up to its await.
Fire ==
  IF started < MaxStarted
    THEN /\ started' = started + 1 /\ waiting' = waiting \cup {started + 1}
         /\ status' = "running"
    ELSE UNCHANGED <<started, waiting, status>>

\* The cron: fired, then scheduled again while it is registered.
Cron ==
  /\ timer /\ Fire /\ timer' = known
  /\ UNCHANGED <<file, snapshot, known, saved, edits>>

\* ceremony.<id>.execute from elsewhere, as from ceremony-skill-executor.
Trigger ==
  /\ known /\ Fire
  /\ UNCHANGED <<file, registry, saved, edits>>

\* Mutant: only a success is shown.
ShowsSuccess(outcome) == IF outcome = "success" THEN "idle" ELSE status
Shows(outcome) == IF outcome = "success" THEN "idle" ELSE "failed"

Newest(S) == {r \in S : Cardinality({q \in S : q > r}) < MaxOutcomes}

\* The completed event: the extension shows it whether or not the ceremony is
\* still registered or has another run, and its outcome is stored if the
\* database takes it.
Complete(r, outcome) ==
  /\ waiting' = waiting \ {r}
  /\ status' = Shows(outcome)
  /\ saved' \in {saved, Newest(saved \cup {r})}
  /\ UNCHANGED <<file, registry, started, edits>>

\* A reply with neither a content nor an error is taken for a timeout.
Reply(r) ==
  /\ r \in waiting
  /\ \E outcome \in {"success", "failure", "timeout"} : Complete(r, outcome)

\* Mutant: a ceremony without timeoutMs has no timer.
TimesOutIfSet(r) == FALSE
TimesOut(r) == r \in waiting
Timeout(r) == TimesOut(r) /\ Complete(r, "timeout")

-----------------------------------------------------------------------------
(* Files. *)

Register ==
  /\ known' = TRUE /\ timer' = TRUE
  /\ status' = IF status = "none" THEN "idle" ELSE status

Unregister == known' = FALSE /\ timer' = FALSE /\ status' = "none"

\* _checkForChanges.  A file that is new to the snapshots is only looked at for
\* ceremonies not registered; the first sweep after a start finds them all new.
NewFile ==
  /\ snapshot = "none"
  /\ IF file = "on" /\ ~known THEN Register ELSE UNCHANGED <<known, timer, status>>

ChangedFile ==
  /\ snapshot # "none"
  /\ CASE file = "off" /\ known -> Unregister
       [] file = "on" /\ ~known -> Register
       [] OTHER -> UNCHANGED <<known, timer, status>>

Sweep ==
  /\ file # "absent" /\ snapshot # file
  /\ snapshot' = file
  /\ NewFile \/ ChangedFile
  /\ UNCHANGED <<file, runs, edits>>

Edit ==
  /\ edits /\ file' \in Contents \ {file}
  /\ UNCHANGED <<registry, runs, status, edits>>

\* Runs under way leave no outcome.
Restart ==
  /\ edits
  /\ known' = Loads(file).known /\ timer' = known' /\ status' = Loads(file).status
  /\ snapshot' = "none" /\ waiting' = {}
  /\ UNCHANGED <<file, started, saved, edits>>

Settle == edits /\ edits' = FALSE /\ UNCHANGED <<file, registry, runs, status>>

Next ==
  \/ Cron \/ Trigger \/ \E r \in waiting : Reply(r) \/ Timeout(r)
  \/ Sweep \/ Edit \/ Restart \/ Settle

Spec == Init /\ [][Next]_vars

\* The interval sweeps; timers elapse.
FairSpec == Spec /\ WF_vars(Sweep) /\ \A r \in 1 .. MaxStarted : WF_vars(Timeout(r))

-----------------------------------------------------------------------------
(* Properties *)

\* A ceremony shown as running has a run under way, whatever was reloaded,
\* disabled or restarted in between.
RunningIsTrue == status = "running" => waiting # {}

\* Every run ends with an outcome, answered or not, also of a ceremony that is
\* disabled meanwhile; only a restart leaves one without.
RunsEnd == \A r \in 1 .. MaxStarted : []<>(r \notin waiting)

=============================================================================
