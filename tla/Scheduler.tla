------------------------------ MODULE Scheduler ------------------------------
(***************************************************************************)
(* One schedule of the scheduler plugin (lib/plugins/scheduler.ts): its    *)
(* YAML file, the timer it has in this process, the watcher that loads new *)
(* files, the commands of command.schedule, and the process's restarts.    *)
(*                                                                         *)
(* Time is what the code compares: when is the distance of the schedule's  *)
(* next occurrence from now, "far" beyond the longest delay of setTimeout, *)
(* "missed" by at most a day, "old" by more.  Nothing that subscribes to a *)
(* schedule's topic sends a command before publish returns, so firing and  *)
(* scheduling again are one step.  Deleting a file may fail; writing and   *)
(* reading one do not.                                                     *)
(***************************************************************************)
EXTENDS Naturals

VARIABLES
  up,        \* the process runs
  kind,      \* "once" or "cron"
  file,      \* "absent", "on", or "paused": enabled is false
  named,     \* the file is called <id>.yaml
  when,      \* "far", "soon", "due", "missed", "old"
  timer,     \* "none", "set", or "capped" at the longest delay
  existing,  \* the watcher knows the file's name
  fired,     \* the last step published the schedule's message
  shots,     \* how often this one-shot was published without leaving its file
  left,      \* it was published last with its file left behind
  stopped,   \* removed or paused, and not asked for since
  unread,    \* the file is not read before the next start
  settled    \* nobody writes files, sends commands or restarts any more

clock == <<kind, when, timer>>
ghosts == <<stopped, unread>>
vars == <<up, clock, file, named, existing, fired, shots, left, ghosts, settled>>

Kinds == {"once", "cron"}
Upcoming == {"far", "soon"}
Whens == {"far", "soon", "due", "missed", "old"}

TypeOK ==
  /\ up \in BOOLEAN /\ kind \in Kinds
  /\ file \in {"absent", "on", "paused"} /\ named \in BOOLEAN
  /\ when \in Whens /\ timer \in {"none", "set", "capped"} /\ (timer # "none" => up)
  /\ existing \in BOOLEAN /\ fired \in BOOLEAN /\ shots \in 0 .. 2
  /\ left \in BOOLEAN
  /\ stopped \in BOOLEAN /\ unread \in BOOLEAN /\ settled \in BOOLEAN

Init ==
  /\ up = FALSE /\ kind \in Kinds /\ when \in Whens /\ timer = "none"
  /\ file \in {"absent", "on", "paused"} /\ named \in BOOLEAN /\ existing = FALSE
  /\ fired = FALSE /\ shots = 0 /\ left = FALSE
  /\ stopped = (file = "paused") /\ unread = FALSE /\ settled = FALSE

-----------------------------------------------------------------------------
(* fire and schedule. *)

\* A one-shot's file goes with it, unless unlinkSync throws, which is logged: it
\* is loaded again at the next start.  A cron's is written with lastFired.
\* Mutant: the one-shot's file is written as the cron's is.
Rewritten(k) == "on"
FileAfterFire(k) == IF k = "once" THEN "absent" ELSE "on"

\* Publishing a schedule with its file in state f, for the n-th time before.
Fire(k, f, n) ==
  /\ fired' = TRUE
  /\ \/ /\ file' = FileAfterFire(k) /\ left' = FALSE
        /\ shots' = IF k = "once" THEN n + 1 ELSE 0
     \/ k = "once" /\ f = "on" /\ file' = f /\ left' = TRUE /\ shots' = n

Quiet == fired' = FALSE /\ UNCHANGED <<shots, left>>

Delayed(w) == IF w = "far" THEN "capped" ELSE "set"

\* A cron's next occurrence is after now, whatever was missed.  Mutant: the
\* timer that has elapsed is not replaced.
NotReplaced == timer' = "none" /\ \E next \in Upcoming : when' = next
Advance == \E next \in Upcoming : when' = next /\ timer' = Delayed(next)

\* An enabled schedule, published n times.  A one-shot missed by at most a day
\* fires here and has no timer; an older one has a timer without delay.
Schedule(k, w, n) ==
  IF k = "once" /\ w = "missed"
    THEN Fire(k, "on", n) /\ when' = w /\ timer' = "none"
    ELSE /\ fired' = FALSE /\ shots' = n /\ left' = FALSE /\ file' = "on"
         /\ IF k = "cron" THEN Advance ELSE when' = w /\ timer' = Delayed(w)

\* A file is read.
Load ==
  IF file = "on" THEN Schedule(kind, when, shots)
                 ELSE timer' = "none" /\ Quiet /\ UNCHANGED <<file, when>>

\* The timer's callback.  A capped one fires too.
Elapse ==
  /\ timer = "capped" \/ (timer = "set" /\ when \notin Upcoming)
  /\ Fire(kind, file, shots)
  /\ IF kind = "cron" THEN Advance ELSE timer' = "none" /\ UNCHANGED when
  /\ UNCHANGED <<up, kind, named, existing, ghosts, settled>>

-----------------------------------------------------------------------------
(* The process, the clock and the directory. *)

Start ==
  /\ ~up /\ up' = TRUE
  /\ Load
  /\ existing' = (file' # "absent") /\ unread' = FALSE
  /\ UNCHANGED <<kind, named, stopped, settled>>

Stop ==
  /\ up /\ ~settled
  /\ up' = FALSE /\ timer' = "none" /\ existing' = FALSE /\ Quiet
  /\ UNCHANGED <<kind, file, named, when, ghosts, settled>>

Later(w) == CASE w = "far" -> "soon" [] w = "soon" -> "due" [] w = "due" -> "missed" [] OTHER -> "old"

Tick ==
  /\ when # "old" /\ when' = Later(when) /\ Quiet
  /\ UNCHANGED <<up, kind, file, named, timer, existing, ghosts, settled>>

\* The watcher's sweep: only names it does not know are read.
Watch ==
  /\ up /\ file # "absent" /\ ~existing
  /\ existing' = TRUE
  /\ Load
  /\ UNCHANGED <<up, kind, named, ghosts, settled>>

\* Someone writes the file of a new schedule, or deletes one.
Drop ==
  /\ ~settled /\ file = "absent" /\ timer = "none"
  /\ kind' \in Kinds /\ when' \in Whens \ {"due"}
  /\ file' = "on" /\ named' \in BOOLEAN
  /\ fired' = FALSE /\ shots' = 0 /\ left' = FALSE
  /\ stopped' = FALSE /\ unread' = existing
  /\ UNCHANGED <<up, timer, existing, settled>>

Erase ==
  /\ ~settled /\ file # "absent" /\ file' = "absent" /\ Quiet
  /\ UNCHANGED <<up, clock, named, existing, ghosts, settled>>

-----------------------------------------------------------------------------
(* command.schedule. *)

\* One file for an id: an id whose file has another name is not added again.
Add ==
  /\ up /\ ~settled /\ (named \/ file = "absent")
  /\ \E w \in Whens \ {"due"} : kind' \in Kinds /\ Schedule(kind', w, 0)
  /\ named' = TRUE /\ stopped' = FALSE /\ unread' = FALSE
  /\ UNCHANGED <<up, existing, settled>>

\* Only <id>.yaml is deleted, and unlinkSync may throw.
Remove ==
  /\ up /\ ~settled
  /\ timer' = "none" /\ Quiet
  /\ \/ named /\ file' = "absent" /\ stopped' = TRUE /\ UNCHANGED unread
     \/ UNCHANGED <<file, stopped>> /\ unread' = TRUE
  /\ UNCHANGED <<up, kind, named, when, existing, settled>>

\* A schedule without a timer is not paused.  Mutant: the file is not written.
PausedInMemory == file
PausedFile == "paused"
Pause ==
  /\ up /\ ~settled /\ timer # "none"
  /\ timer' = "none" /\ file' = PausedFile /\ stopped' = TRUE /\ Quiet
  /\ UNCHANGED <<up, kind, named, when, existing, unread, settled>>

Resume ==
  /\ up /\ ~settled /\ named /\ file # "absent"
  /\ Schedule(kind, when, shots)
  /\ stopped' = FALSE /\ unread' = FALSE
  /\ UNCHANGED <<up, kind, named, existing, settled>>

Settle ==
  /\ ~settled /\ settled' = TRUE /\ Quiet
  /\ UNCHANGED <<up, clock, file, named, existing, ghosts>>

Next ==
  \/ Start \/ Stop \/ Tick \/ Elapse \/ Watch
  \/ Drop \/ Erase \/ Add \/ Remove \/ Pause \/ Resume \/ Settle

Spec == Init /\ [][Next]_vars

\* The process is started, timers elapse, the watcher's interval runs.
FairSpec == Spec /\ WF_vars(Start) /\ WF_vars(Tick) /\ WF_vars(Elapse) /\ WF_vars(Watch)

-----------------------------------------------------------------------------
(* Properties *)

\* A one-shot is published once, also by a process that reads the directory
\* again, unless its file could not be deleted: then every start that finds the
\* file publishes it, until the deletion succeeds.
FiresOnce == shots <= 1

\* What was removed or paused says nothing until it is asked for again, through
\* sweeps and restarts.
StoppedIsSilent == fired => ~stopped

\* An enabled schedule whose file is read fires, a cron again and again; a file
\* that a published one-shot left behind waits for the next start.
EnabledFires == []<>(settled /\ file = "on" /\ ~unread => fired \/ left)

=============================================================================
