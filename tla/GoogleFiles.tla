----------------------------- MODULE GoogleFiles -----------------------------
(***************************************************************************)
(* What the agents write in Google Workspace: a Drive file replaced or     *)
(* appended to, an append being a read and a write with an await between   *)
(* them; a document created and then filled; a draft that answers the      *)
(* thread as it was read.  Each call is answered once, with what Google    *)
(* said last.                                                              *)
(***************************************************************************)
EXTENDS Naturals, Sequences, FiniteSets, SequencesExt

CONSTANTS
  Writes, Appends, \* requests to the Drive file, those of them that append
  Drafts,          \* requests for a draft that name the thread only
  MaxMails         \* messages the thread may come to hold

VARIABLES
  at,        \* of each write: "new", "read", "write", "done", "failed"
  existing,  \* what an append has read
  file,      \* the writes whose content the file holds, in order
  undone,    \* contents replaced by an update or by an append that had not read them
  document,  \* the document's request: "new", "insert", "done" or "failed"
  filled,    \* the document holds its first content
  thread,    \* messages of the thread
  draft, answers \* of each draft: "new", "post", "done" or "failed"; the message it answers

drive == <<at, existing, file, undone>>
docs == <<document, filled>>
mail == <<thread, draft, answers>>
vars == <<drive, docs, mail>>

Init ==
  /\ at = [w \in Writes |-> "new"] /\ existing = [w \in Writes |-> <<>>]
  /\ file = <<>> /\ undone = {}
  /\ document = "new" /\ filled = FALSE
  /\ thread = 1 /\ draft = [d \in Drafts |-> "new"] /\ answers = [d \in Drafts |-> 0]

\* Without a token, or with the circuit open, the call fails at once.
Refused(w) ==
  /\ at[w] = "new" /\ at' = [at EXCEPT ![w] = "failed"]
  /\ UNCHANGED <<existing, file, undone, docs, mail>>

Start(w) ==
  /\ at[w] = "new" /\ at' = [at EXCEPT ![w] = IF w \in Appends THEN "read" ELSE "write"]
  /\ UNCHANGED <<existing, file, undone, docs, mail>>

\* A read that is refused leaves the append its own content only; one that throws ends it.
Read(w) ==
  /\ at[w] = "read"
  /\ \/ /\ at' = [at EXCEPT ![w] = "write"]
        /\ \E got \in {file, <<>>} : existing' = [existing EXCEPT ![w] = got]
     \/ at' = [at EXCEPT ![w] = "failed"] /\ UNCHANGED existing
  /\ UNCHANGED <<file, undone, docs, mail>>

\* A body without what was read.
OwnOnly(w) == <<w>>
Body(w) == existing[w] \o <<w>>

\* The write is carried out; its answer may be lost on the way (the fetch times out).
Write(w) ==
  /\ at[w] = "write" /\ file' = Body(w)
  /\ undone' = undone \union
       (ToSet(file) \ (IF w \in Appends THEN ToSet(existing[w]) ELSE {}))
  /\ \E end \in {"done", "failed"} : at' = [at EXCEPT ![w] = end]
  /\ UNCHANGED <<existing, docs, mail>>

NotWritten(w) ==
  /\ at[w] = "write" /\ at' = [at EXCEPT ![w] = "failed"]
  /\ UNCHANGED <<existing, file, undone, docs, mail>>

\* The insertion's refusal is not looked at, a fetch that throws is.
Create ==
  /\ document = "new" /\ document' \in {"insert", "failed"} /\ UNCHANGED <<filled, drive, mail>>

Insert ==
  /\ document = "insert" /\ document' \in {"done", "failed"} /\ filled' \in BOOLEAN
  /\ UNCHANGED <<drive, mail>>

Arrives == thread < MaxMails /\ thread' = thread + 1 /\ UNCHANGED <<draft, answers, drive, docs>>

\* The draft answers the last message of the thread; one that cannot be read leaves the draft without a recipient.
Look(d) ==
  /\ draft[d] = "new"
  /\ \/ draft' = [draft EXCEPT ![d] = "post"] /\ answers' = [answers EXCEPT ![d] = thread]
     \/ draft' = [draft EXCEPT ![d] = "failed"] /\ UNCHANGED answers
  /\ UNCHANGED <<thread, drive, docs>>

Post(d) ==
  /\ draft[d] = "post" /\ \E end \in {"done", "failed"} : draft' = [draft EXCEPT ![d] = end]
  /\ UNCHANGED <<thread, answers, drive, docs>>

Next ==
  \/ \E w \in Writes : Refused(w) \/ Start(w) \/ Read(w) \/ Write(w) \/ NotWritten(w)
  \/ Create \/ Insert \/ Arrives
  \/ \E d \in Drafts : Look(d) \/ Post(d)

Spec == Init /\ [][Next]_vars

-----------------------------------------------------------------------------

\* The variables have their types.
TypeOK ==
  /\ \A w \in Writes :
       at[w] \in {"new", "read", "write", "done", "failed"} /\ ToSet(existing[w]) \subseteq Writes
  /\ ToSet(file) \subseteq Writes /\ undone \subseteq Writes
  /\ document \in {"new", "insert", "done", "failed"} /\ filled \in BOOLEAN
  /\ thread \in 1 .. MaxMails
  /\ \A d \in Drafts : draft[d] \in {"new", "post", "done", "failed"} /\ answers[d] \in 0 .. thread

\* What a Drive write answered as done has written is in the file unless an update or an
\* append that had not read it came after it: appends that do not overlap keep each other.
WrittenIsKept == \A w \in Writes : at[w] = "done" => w \in ToSet(file) \union undone

=============================================================================
