--------------------------- MODULE ReviewLearning ---------------------------
(***************************************************************************)
(* The write side of the review-learning loop: a merged pull request is    *)
(* cut into chunks and symbols that are embedded and stored in Qdrant, and *)
(* a reply to one of the reviewer's comments counts for or against the     *)
(* pattern of that comment. All of it is best effort: what cannot be       *)
(* embedded or stored is passed over.                                      *)
(*                                                                         *)
(* An upsert does not ask Qdrant to wait: it is acknowledged once it is in *)
(* its log and seen by searches later.  The points here are those of the   *)
(* log, in its order; what searches see of them is kept where a search is  *)
(* made (shown).                                                           *)
(***************************************************************************)
EXTENDS Integers, Sequences, FiniteSets, FiniteSetsExt, SequencesExt

CONSTANTS
  Merges,          \* merged pull requests, whose webhooks arrive once
  Diff(_),         \* the lines of the hunk of each: "+" (that defines a symbol), "-" or " "
  Large,           \* LARGE_FILE_THRESHOLD: more lines than these are cut
  ChunkSize, ChunkOverlap,
  ChunkPoint(_, _),   \* the point of a merge's k-th chunk: a 32-bit hash of repository, number,
                      \* file and k
  SymbolPoint(_, _),  \* that of a merge's symbol recorded at a line: a hash of repository, file,
                      \* name and that line, whatever the number
  Replies,         \* replies to the reviewer's comments and dismissals of its reviews
  MaxStarts        \* starts of the process

VARIABLES
  up,              \* Qdrant is reachable
  collection,      \* of each collection: "none", "old" dimension or "ready"
  boot,            \* the collections looked at since the start; 4 when they were created
  starts,
  merge,           \* of each merge: "new", "index", "over", and the item it is at
  missed,          \* merges of which an item was not embedded or not stored
  history,         \* points of quinn-pr-history: chunks of merges
  patterns,        \* points of quinn-code-patterns: symbols of merges
  reply,           \* of each reply: "new", "read", "over", and what its search found
  points,          \* points of quinn-review-learnings: the events each counts
  shown,           \* those points as searches see them
  recorded,        \* replies whose upsert succeeded and that were not dropped
  muddled          \* a reply searched while another was between its search and the time its
                   \* upsert was seen

store == <<collection, history, patterns, points, shown>>
vars == <<up, starts, boot, store, merge, missed, reply, recorded, muddled>>

Collections == <<"history", "patterns", "learnings">>
NoMerge == [step |-> "new", at |-> 1]
NoReply == [step |-> "new", point |-> 0, count |-> 0]

Init ==
  /\ up \in BOOLEAN /\ starts = 1 /\ boot = 0
  /\ collection \in {[c \in ToSet(Collections) |-> s] : s \in {"none", "old", "ready"}}
  /\ history = {} /\ patterns = {} /\ points = <<>> /\ shown = <<>>
  /\ merge = [m \in Merges |-> NoMerge] /\ missed = {}
  /\ reply = [r \in Replies |-> NoReply] /\ recorded = 0 /\ muddled = FALSE

-----------------------------------------------------------------------------
(* Diffs. *)

WholeChunk == ChunkSize
Stride == ChunkSize - ChunkOverlap

\* chunkDiff: a file of up to Large lines is one chunk; a longer one is cut every
\* Stride lines.
Chunks(m) ==
  LET n == Len(Diff(m))
  IN IF n = 0 THEN <<>>
     ELSE IF n <= Large THEN <<1 .. n>>
     ELSE [k \in 1 .. (n + Stride - 1) \div Stride |->
             (k - 1) * Stride + 1 .. Min({n, (k - 1) * Stride + ChunkSize})]

\* The line of the new file the diff's i-th line is at: removed lines take none.
LineAt(m, i) == 1 + Cardinality({j \in 1 .. i - 1 : Diff(m)[j] # "-"})

\* extractSymbols: added lines are numbered on from the first of them. The pairs
\* are the line of a symbol and the line recorded for it.
Symbols(m) ==
  LET added == {i \in DOMAIN Diff(m) : Diff(m)[i] = "+"}
      symbol(i) == <<LineAt(m, i), LineAt(m, Min(added)) + Cardinality({j \in added : j < i})>>
      place(i) == Cardinality({j \in added : j <= i})
  IN [k \in 1 .. Cardinality(added) |-> symbol(CHOOSE i \in added : place(i) = k)]

-----------------------------------------------------------------------------
(* Qdrant. *)

Ready(c) == up /\ collection[c] = "ready"

\* An upsert replaces the point of the same id.
Put(items, item) == {i \in items : i.point # item.point} \cup {item}

\* getCollectionVectorSize and deleteCollection: a collection of another
\* dimension is dropped, one that cannot be asked for is left.
LookAt ==
  /\ boot < 3 /\ boot' = boot + 1
  /\ collection' = [collection EXCEPT ![Collections[boot + 1]] = IF up /\ @ = "old" THEN "none" ELSE @]
  /\ UNCHANGED <<up, starts, history, patterns, points, shown, merge, missed, reply, recorded, muddled>>

\* ensureCollection creates one that is absent; nobody asks again when it fails.
Ensure ==
  /\ boot = 3 /\ boot' = 4
  /\ collection' = [c \in DOMAIN collection |-> IF up /\ collection[c] = "none" THEN "ready" ELSE collection[c]]
  /\ UNCHANGED <<up, starts, history, patterns, points, shown, merge, missed, reply, recorded, muddled>>

Reach == up' = ~up /\ UNCHANGED <<starts, boot, store, merge, missed, reply, recorded, muddled>>

\* The upserts in the log are applied.
Apply ==
  /\ up /\ shown # points /\ shown' = points
  /\ UNCHANGED <<up, starts, boot, collection, history, patterns, points, merge, missed, reply, recorded, muddled>>

\* Merges and replies in hand are gone with the process.
Restart ==
  /\ starts < MaxStarts /\ starts' = starts + 1 /\ boot' = 0
  /\ merge' = [m \in Merges |-> IF merge[m].step = "index" THEN [NoMerge EXCEPT !.step = "over"] ELSE merge[m]]
  /\ missed' = missed \cup {m \in Merges : merge[m].step = "index"}
  /\ reply' = [r \in Replies |-> IF reply[r].step = "read" THEN [NoReply EXCEPT !.step = "over"] ELSE reply[r]]
  /\ UNCHANGED <<up, store, recorded, muddled>>

-----------------------------------------------------------------------------
(* Merges. *)

\* handlePRMerge: diff, comments and decision are fetched at once; without a
\* token or a diff the merge is not indexed.
Fetched(m) ==
  /\ merge[m].step = "new"
  /\ \/ Diff(m) # <<>> /\ merge' = [merge EXCEPT ![m].step = "index"] /\ UNCHANGED missed
     \/ merge' = [merge EXCEPT ![m].step = "over"] /\ missed' = missed \cup {m}
  /\ UNCHANGED <<up, starts, boot, store, reply, recorded, muddled>>

AtChunk(m) == merge[m].step = "index" /\ merge[m].at <= Len(Chunks(m))
AtSymbol(m) == merge[m].at - Len(Chunks(m))

\* An item was stored, or its embedding or upsert failed.
Pass(m, stored) ==
  /\ merge' = [merge EXCEPT ![m].at = @ + 1]
  /\ missed' = IF stored THEN missed ELSE missed \cup {m}
  /\ UNCHANGED <<up, starts, boot, collection, points, shown, reply, recorded, muddled>>

ChunkOf(m, k) == [point |-> ChunkPoint(m, k), merge |-> m, lines |-> Chunks(m)[k]]
SymbolOf(m, k) == [point |-> SymbolPoint(m, Symbols(m)[k][2]), merge |-> m, line |-> Symbols(m)[k][1]]

IndexChunk(m) ==
  /\ AtChunk(m) /\ UNCHANGED patterns
  /\ \/ /\ Ready("history") /\ Pass(m, TRUE)
        /\ history' = Put(history, ChunkOf(m, merge[m].at))
     \/ Pass(m, FALSE) /\ UNCHANGED history

\* A symbol whose file could not be fetched is left out the same way.
IndexSymbol(m) ==
  /\ merge[m].step = "index" /\ AtSymbol(m) \in DOMAIN Symbols(m) /\ UNCHANGED history
  /\ \/ /\ Ready("patterns") /\ Pass(m, TRUE)
        /\ patterns' = Put(patterns, SymbolOf(m, AtSymbol(m)))
     \/ Pass(m, FALSE) /\ UNCHANGED patterns

Indexed(m) ==
  /\ merge[m].step = "index" /\ AtSymbol(m) > Len(Symbols(m))
  /\ merge' = [merge EXCEPT ![m].step = "over"]
  /\ UNCHANGED <<up, starts, boot, store, missed, reply, recorded, muddled>>

-----------------------------------------------------------------------------
(* Replies; all are about comments alike. *)

Reading == {r \in Replies : reply[r].step = "read"}

\* A reply to another's comment, one of the reviewer itself, and one whose parent
\* or embedding cannot be had are dropped.
Dropped(r) == reply' = [reply EXCEPT ![r].step = "over"] /\ UNCHANGED muddled

\* The parent comment and its embedding are fetched, and a point like it is
\* searched: 0 when there is none or the search fails, which looks the same.
Search(r) ==
  /\ reply[r].step = "new"
  /\ \/ \E p \in {0} \cup DOMAIN shown :
          /\ p # 0 => Ready("learnings")
          /\ reply' = [reply EXCEPT ![r] = [step |-> "read", point |-> p, count |-> IF p = 0 THEN 0 ELSE shown[p]]]
          /\ muddled' = (muddled \/ Reading # {} \/ shown # points)
     \/ Dropped(r)
  /\ UNCHANGED <<up, starts, boot, store, merge, missed, recorded>>

CountOne(r) == 1
Counted(r) == reply[r].count + 1

\* recordDismissalEvent: the counts read and this one, over the point found, or a
\* new one.
Record(r) ==
  /\ reply[r].step = "read" /\ reply' = [reply EXCEPT ![r].step = "over"]
  /\ \/ /\ Ready("learnings") /\ recorded' = recorded + 1
        /\ points' = IF reply[r].point = 0 THEN Append(points, 1)
                     ELSE [points EXCEPT ![reply[r].point] = Counted(r)]
     \/ UNCHANGED <<points, recorded>>
  /\ UNCHANGED <<up, starts, boot, collection, history, patterns, shown, merge, missed, muddled>>

Around == LookAt \/ Ensure \/ Reach \/ Restart
MergeNext == Around \/ \E m \in Merges : Fetched(m) \/ IndexChunk(m) \/ IndexSymbol(m) \/ Indexed(m)
ReplyNext == Around \/ Apply \/ \E r \in Replies : Search(r) \/ Record(r)
Next == MergeNext \/ ReplyNext

Spec == Init /\ [][Next]_vars

-----------------------------------------------------------------------------
TypeOK ==
  /\ up \in BOOLEAN /\ starts \in 1 .. MaxStarts /\ boot \in 0 .. 4 /\ muddled \in BOOLEAN
  /\ collection \in [ToSet(Collections) -> {"none", "old", "ready"}]
  /\ \A m \in Merges : merge[m].step \in {"new", "index", "over"}
  /\ \A r \in Replies : reply[r].step \in {"new", "read", "over"} /\ reply[r].point \in 0 .. Len(points)
  /\ DOMAIN shown \subseteq DOMAIN points
  /\ missed \subseteq Merges /\ recorded \in 0 .. Cardinality(Replies)

\* An item is stored, or one whose point has its id and replaced it.
Kept(items, item) == \E i \in items : i.point = item.point

\* No line of a merge is lost between two chunks: once a merge was indexed with
\* nothing passed over, each line of its diff is in a chunk that is kept, two
\* chunks that follow each other share ChunkOverlap lines, and each of its symbols
\* is kept. Items of one id replace each other: those whose hashes collide, and a
\* symbol of a later merge with the file, name and recorded line of an earlier.
MergesAreWhole ==
  \A m \in Merges : merge[m].step = "over" /\ m \notin missed =>
    /\ \A i \in DOMAIN Diff(m) : \E k \in DOMAIN Chunks(m) :
         i \in Chunks(m)[k] /\ Kept(history, ChunkOf(m, k))
    /\ \A k \in 2 .. Len(Chunks(m)) :
         Cardinality(Chunks(m)[k - 1] \cap Chunks(m)[k]) = Min({ChunkOverlap, Cardinality(Chunks(m)[k])})
    /\ \A i \in DOMAIN Diff(m) : Diff(m)[i] = "+" => \E k \in DOMAIN Symbols(m) :
         Symbols(m)[k][1] = LineAt(m, i) /\ Kept(patterns, SymbolOf(m, k))

\* The counts of the learnings are those of the replies recorded, whatever failed
\* between, searches too, as long as none is searched for between another's
\* search and the time its upsert is seen.
CountsAreReplies ==
  ~muddled => FoldSeq(+, 0, points) = recorded

=============================================================================
