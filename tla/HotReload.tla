----------------------------- MODULE HotReload -----------------------------
(***************************************************************************)
(* The in-process agents and their definitions in workspace/agents/: the   *)
(* loader (src/agent-runtime/agent-definition-loader.ts), the watcher      *)
(* (lib/workspace-watcher.ts), the plugin that reconciles the registry     *)
(* with the files (src/agent-runtime/agent-runtime-plugin.ts) and the      *)
(* write API (src/api/agents-crud.ts).  People edit the files as well.     *)
(*                                                                         *)
(* Files are numbered in the order of readdir.  A definition is the name   *)
(* it declares and its version, which fixes its skills; an executor is     *)
(* known by the definition and the file it was built from.                 *)
(***************************************************************************)
EXTENDS Naturals, FiniteSetsExt

CONSTANTS Names, Files, Versions, SkillsOf, FileFor

VARIABLES
  content,    \* of each file: Absent, Broken or a definition
  dirty,      \* a signature differs from the watcher's snapshot
  running,    \* the registered map: of each name its definition and file, or None
  regs,       \* the registrations in the executor registry
  quiet       \* nobody edits any more

vars == <<content, dirty, running, regs, quiet>>

Defs == [name : Names, version : Versions]
Absent == [name |-> "absent", version |-> 0]
Broken == [name |-> "broken", version |-> 0]
None == [version |-> 0, file |-> 0]
Running == [version : Versions, file : Files]

\* loadAgentEntries skips what does not parse; of two files that declare a name
\* the last one counts.
Declares(f, n) == content[f] \in Defs /\ content[f].name = n
Loaded(n) == \E f \in Files : Declares(f, n)
Entry(n) ==
  LET f == Max({g \in Files : Declares(g, n)}) IN [version |-> content[f].version, file |-> f]

\* What _register puts into the registry for an entry.
Registered(n, e) == {[skill |-> s, name |-> n, by |-> e] : s \in SkillsOf[e.version]}

\* install registers every entry.
Installed ==
  UNION {Registered(content[f].name, [version |-> content[f].version, file |-> f]) :
           f \in {g \in Files : content[g] \in Defs}}

Init ==
  /\ content \in [Files -> {Absent, Broken} \union Defs]
  /\ running = [n \in Names |-> IF Loaded(n) THEN Entry(n) ELSE None] /\ regs = Installed
  /\ dirty = FALSE /\ quiet = FALSE

-----------------------------------------------------------------------------
(* Edits. *)

Write(f, c) == content' = [content EXCEPT ![f] = c] /\ dirty' = TRUE /\ UNCHANGED <<running, regs, quiet>>

\* POST /api/agents: 409 for a name that is loaded; the file of the name is
\* written, whatever it holds.
Create(n, v) ==
  /\ ~quiet /\ ~Loaded(n) /\ Write(FileFor[n], [name |-> n, version |-> v])

\* PUT and DELETE look for the file that declares the name, 404 without one.
Source(n) == CHOOSE f \in Files : Declares(f, n) /\ \A g \in Files : Declares(g, n) => f <= g
Update(n, v) == ~quiet /\ Loaded(n) /\ Write(Source(n), [name |-> n, version |-> v])
Delete(n) == ~quiet /\ Loaded(n) /\ Write(Source(n), Absent)

\* An editor: a mistake, a deletion, another definition, another name.
Edit(f) == ~quiet /\ \E c \in {Absent, Broken} \union Defs : c # content[f] /\ Write(f, c)

Rest == ~quiet /\ quiet' = TRUE /\ UNCHANGED <<content, dirty, running, regs>>

-----------------------------------------------------------------------------
(* The watcher's poll, every 5 s, and the plugin's _applyAgentChanges. *)

\* computeAgentDiff
Added(n) == Loaded(n) /\ running[n] = None
\* Mutant: the files are compared, not the contents.
OtherFile(n) == Loaded(n) /\ running[n] # None /\ running[n].file # Entry(n).file
Changed(n) == Loaded(n) /\ running[n] # None /\ running[n].version # Entry(n).version
Removed(n) == ~Loaded(n) /\ running[n] # None

\* An agent whose file is still there has vanished in a mistake, and is kept.
Gone(n) == Removed(n) /\ content[running[n].file] = Absent

\* The registrations to take out, and those that come in.
Old == UNION {{r \in regs : r.name = n /\ r.skill \in SkillsOf[running[n].version]} :
                n \in {m \in Names : Gone(m) \/ Changed(m)}}
New == UNION {Registered(n, Entry(n)) : n \in {m \in Names : Added(m) \/ Changed(m)}}

\* Mutant: the old skills are taken out after the new ones are in.
NewFirst ==
  {r \in regs \union New :
     \A q \in Old : ~(r.name = q.name /\ r.skill = q.skill)}
Reconciled == (regs \ Old) \union New

Poll ==
  /\ dirty /\ dirty' = FALSE
  /\ running' = [n \in Names |->
       IF Added(n) \/ Changed(n) THEN Entry(n) ELSE IF Gone(n) THEN None ELSE running[n]]
  /\ regs' = Reconciled
  /\ UNCHANGED <<content, quiet>>

Restart ==
  /\ running' = [n \in Names |-> IF Loaded(n) THEN Entry(n) ELSE None] /\ regs' = Installed
  /\ dirty' = FALSE /\ UNCHANGED <<content, quiet>>

Next ==
  \/ Poll \/ Restart \/ Rest
  \/ \E n \in Names : Delete(n) \/ \E v \in Versions : Create(n, v) \/ Update(n, v)
  \/ \E f \in Files : Edit(f)

\* The poll is a timer.
Fairness == WF_vars(Poll)
Spec == Init /\ [][Next]_vars /\ Fairness

-----------------------------------------------------------------------------
(* Properties. *)

TypeOK ==
  /\ content \in [Files -> {Absent, Broken} \union Defs]
  /\ running \in [Names -> {None} \union Running]
  /\ regs \subseteq [skill : UNION {SkillsOf[v] : v \in Versions}, name : Names, by : Running]
  /\ dirty \in BOOLEAN /\ quiet \in BOOLEAN

\* A running agent answers for every skill of its definition with its newest
\* executor: no reload, mistake, renaming or removal of another takes one away.
LiveServed == \A n \in Names : running[n] # None => Registered(n, running[n]) \subseteq regs

\* Once the files rest, every definition that loads is the one that runs, and no
\* agent runs from a file that is gone unless another file declares it.
EditsTakeEffect ==
  <>[](quiet => \A n \in Names :
         /\ Loaded(n) => running[n].version = Entry(n).version
         /\ ~Loaded(n) /\ running[n] # None => content[running[n].file] # Absent)

=============================================================================
