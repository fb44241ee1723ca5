--------------------------- MODULE ResearchSearch ---------------------------
(***************************************************************************)
(* The researcher's store: a row and its words are stored at once, its     *)
(* embedding when the gateway answers, if it does; a search ranks by words *)
(* at once and by meaning when the gateway has answered, and fuses both    *)
(* lists by the reciprocals of the ranks.  The flow log, the other store   *)
(* that outlives the process: one row of each correlation id, which the    *)
(* turns of a conversation share, merged from the events of all of them    *)
(* and pruned by age.                                                      *)
(***************************************************************************)
EXTENDS Naturals, Sequences, FiniteSets, FiniteSetsExt, SequencesExt

CONSTANTS
  Rows, KindOf(_),    \* research chunks, in the order of their ids, and their kinds
  ByWords, ByMeaning, \* the rows that match the query, best first, as BM25 and the vectors rank them
  Asked,              \* the kind asked for
  Pool, K,            \* rows of each list, hits of an answer
  RrfK,               \* RRF_K
  Turns,              \* the dispatches of one correlation id
  Retention, MaxHour  \* of the flow log; bound: the hours the log is kept for

VARIABLES
  stored, embedding, vectors, \* rows; rows whose embedding is awaited; embedded rows
  words, meaning, hits,       \* of the search in progress, Open before they are known
  dispatch, began,            \* of each turn: how far it has got, and when it began
  hour,                       \* the clock of the flow log
  row                         \* of the flow log, NoRow if there is none

research == <<stored, embedding, vectors, words, meaning, hits>>
flow == <<dispatch, began, hour, row>>
vars == <<research, flow>>

\* No list yet: rows are numbered from 1.
Open == <<0>>
\* Hours are numbered from 1.
Never == 0
NoRow == [status |-> "none", created |-> Never, completed |-> Never, updated |-> Never]

Init ==
  /\ stored = {} /\ embedding = {} /\ vectors = {} /\ words = Open /\ meaning = Open /\ hits = Open
  /\ dispatch = [t \in Turns |-> "none"] /\ began = [t \in Turns |-> Never] /\ hour = 1 /\ row = NoRow

-----------------------------------------------------------------------------
(* The research store. *)

Add(r) ==
  /\ r \in Rows \ stored /\ stored' = stored \union {r} /\ embedding' = embedding \union {r}
  /\ UNCHANGED <<vectors, words, meaning, hits, flow>>

\* The gateway answers, or it is down and the row stays without a vector.
Embed(r) ==
  /\ r \in embedding /\ embedding' = embedding \ {r} /\ vectors' \in {vectors, vectors \union {r}}
  /\ UNCHANGED <<stored, words, meaning, hits, flow>>

\* A restart loses the embeddings awaited and, if their dimension has changed, all vectors.
Restart ==
  /\ embedding' = {} /\ vectors' \in {vectors, {}} /\ words' = Open /\ meaning' = Open /\ hits' = Open
  /\ UNCHANGED <<stored, flow>>

OfKind(r) == KindOf(r) = Asked

\* The first n rows of a list that are among those.
First(n, list, rows) ==
  LET found == {i \in DOMAIN list : list[i] \in rows}
      place(i) == Cardinality({j \in found : j <= i})
  IN [k \in 1 .. Min({n, Cardinality(found)}) |-> list[CHOOSE i \in found : place(i) = k]]

\* The words' list is of the kind asked for, the vectors' list of any.
Query ==
  /\ words = Open
  /\ words' = First(Pool, ByWords, {r \in stored : OfKind(r)})
  /\ UNCHANGED <<stored, embedding, vectors, meaning, hits, flow>>

Nearest ==
  /\ words # Open /\ meaning = Open
  /\ meaning' \in {<<>>, First(Pool, ByMeaning, vectors)}
  /\ UNCHANGED <<stored, embedding, vectors, words, hits, flow>>

\* Scores are fractions: <<numerator, denominator>>.
Plus(a, b) == <<a[1] * b[2] + b[1] * a[2], a[2] * b[2]>>
Exceeds(a, b) == a[1] * b[2] > b[1] * a[2]

\* 1 / (RRF_K + i) for the place i, from 0, of a row in a list.
Reciprocal(r, list) ==
  IF r \in ToSet(list) THEN <<1, RrfK + (CHOOSE i \in DOMAIN list : list[i] = r) - 1>> ELSE <<0, 1>>
\* A score from the better of the two lists alone.
BetterScore(r) ==
  IF Exceeds(Reciprocal(r, words), Reciprocal(r, meaning)) THEN Reciprocal(r, words)
  ELSE Reciprocal(r, meaning)
Score(r) == Plus(Reciprocal(r, words), Reciprocal(r, meaning))

\* The rows of the words, and then the others: the order among equals.
Found == words \o SelectSeq(meaning, LAMBDA r : r \notin ToSet(words))
Before(r, q) ==
  \/ Exceeds(Score(r), Score(q))
  \/ /\ ~Exceeds(Score(q), Score(r))
     /\ \E i, j \in DOMAIN Found : i < j /\ Found[i] = r /\ Found[j] = q
Orders ==
  {order \in SetToSeqs(ToSet(words) \union ToSet(meaning)) :
     \A i, j \in DOMAIN order : i < j => Before(order[i], order[j])}

\* The best K.
Fuse ==
  /\ words # Open /\ meaning # Open /\ hits = Open
  /\ \E order \in Orders : hits' = SubSeq(order, 1, Min({Len(order), K}))
  /\ UNCHANGED <<stored, embedding, vectors, words, meaning, flow>>

Answered ==
  /\ hits # Open /\ words' = Open /\ meaning' = Open /\ hits' = Open
  /\ UNCHANGED <<stored, embedding, vectors, flow>>

-----------------------------------------------------------------------------
(* The flow log. *)

Coalesce(a, b) == IF a # Never THEN a ELSE b
Event(status, created, completed) == [status |-> status, created |-> created, completed |-> completed]

\* A merge that keeps the first word on everything.
FirstWord(item) ==
  [status |-> IF row = NoRow THEN item.status ELSE row.status,
   created |-> Coalesce(row.created, item.created),
   completed |-> Coalesce(row.completed, item.completed), updated |-> hour]
\* upsert: the first word on the creation, the last on the status, which every event has.
Upserted(item) ==
  [status |-> item.status, created |-> Coalesce(row.created, item.created),
   completed |-> Coalesce(item.completed, row.completed), updated |-> hour]

\* _publishFlowEvent: the log has the event before the dispatcher goes on.  A later
\* turn's goes into the row of the earlier ones.
Dispatch(t) ==
  /\ dispatch[t] = "none" /\ dispatch' = [dispatch EXCEPT ![t] = "active"]
  /\ began' = [began EXCEPT ![t] = hour]
  /\ row' = Upserted(Event("active", hour, Never)) /\ UNCHANGED hour

\* A task handed to the tracker is active for good: its end publishes no flow event.
Track(t) ==
  /\ dispatch[t] = "active" /\ dispatch' = [dispatch EXCEPT ![t] = "tracked"]
  /\ row' = Upserted(Event("active", Never, Never)) /\ UNCHANGED <<began, hour>>

Block(t) ==
  /\ dispatch[t] = "active" /\ dispatch' = [dispatch EXCEPT ![t] = "blocked"]
  /\ row' = Upserted(Event("blocked", Never, Never)) /\ UNCHANGED <<began, hour>>

Complete(t) ==
  /\ dispatch[t] = "active" /\ dispatch' = [dispatch EXCEPT ![t] = "complete"]
  /\ row' = Upserted(Event("complete", Never, hour)) /\ UNCHANGED <<began, hour>>

Older == hour < MaxHour /\ hour' = hour + 1 /\ UNCHANGED <<dispatch, began, row>>

\* prune: by the creation, the first turn's, or, of a row first heard of later, by its
\* latest event.
Prune ==
  /\ row # NoRow /\ hour - Coalesce(row.created, row.updated) > Retention
  /\ row' = NoRow /\ UNCHANGED <<dispatch, began, hour>>

SearchNext ==
  \/ \E r \in Rows : Add(r) \/ Embed(r)
  \/ Restart \/ Query \/ Nearest \/ Fuse \/ Answered
FlowNext ==
  /\ (\E t \in Turns : Dispatch(t) \/ Track(t) \/ Block(t) \/ Complete(t)) \/ Older \/ Prune
  /\ UNCHANGED research

Next == SearchNext \/ FlowNext

Spec == Init /\ [][Next]_vars

-----------------------------------------------------------------------------

\* The variables have their types.
TypeOK ==
  /\ stored \subseteq Rows /\ embedding \subseteq stored /\ vectors \subseteq stored
  /\ words # Open => ToSet(words) \subseteq Rows /\ Len(words) <= Pool
  /\ meaning # Open => ToSet(meaning) \subseteq Rows /\ Len(meaning) <= Pool
  /\ hits # Open => ToSet(hits) \subseteq Rows /\ Len(hits) <= K
  /\ dispatch \in [Turns -> {"none", "active", "tracked", "blocked", "complete"}]
  /\ began \in [Turns -> 0 .. MaxHour] /\ hour \in 1 .. MaxHour
  /\ row.status \in {"none", "active", "blocked", "complete"}
  /\ {row.created, row.completed, row.updated} \subseteq 0 .. MaxHour

\* A row found by its words and by its meaning is listed before every row found by one of
\* them, at whatever places, as long as the lists are no longer than RRF_K.
BothComeFirst ==
  hits # Open /\ Pool <= RrfK =>
    \A r \in ToSet(words) \intersect ToSet(meaning), q \in ToSet(hits) :
      \/ q \in ToSet(words) \intersect ToSet(meaning)
      \/ \E i, j \in DOMAIN hits : i < j /\ hits[i] = r /\ hits[j] = q

\* The flow log shows a conversation whose turns all began within the retention, and
\* how far one of its turns has got: the only one, if there is one.  Which of several
\* it is, the log does not say, and it drops them all when the first is too old.
Begun == {t \in Turns : dispatch[t] # "none"}
Shown(t) == IF dispatch[t] = "tracked" THEN "active" ELSE dispatch[t]
ShownAsItIs ==
  Begun # {} /\ (\A t \in Begun : hour - began[t] <= Retention) =>
    \E t \in Begun : row.status = Shown(t)

=============================================================================
