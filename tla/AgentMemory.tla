----------------------------- MODULE AgentMemory -----------------------------
(***************************************************************************)
(* The memory of the in-process agents: the turns of a conversation, which *)
(* are replayed into its next call, and the searchable chunks, findings of *)
(* single answers and summaries of conversations gone idle.  A sweep lists *)
(* the idle conversations, waits for the summary of one after the other    *)
(* and deletes its turns, whatever was said meanwhile.  A sweep that lasts *)
(* beyond the next (6 hours) and statements SQLite refuses are left out.   *)
(***************************************************************************)
EXTENDS Naturals, Sequences, FiniteSets, FiniteSetsExt, SequencesExt

CONSTANTS
  Conversations,
  Calls, ContextOf(_), \* runs of an agent with memory, each in a conversation
  MaxTurns,       \* MAX_TURNS_PER_CONVERSATION
  HistoryTurns,   \* DEFAULT_HISTORY_TURNS
  MaxTranscript,  \* the turns MAX_TRANSCRIPT_CHARS has room for
  TopK,           \* DEFAULT_RECALL_TOP_K
  MaxAge, Batch,  \* the sweep's maxAgeMs and batchLimit
  MaxTime

VARIABLES
  clock,
  turns,     \* conversation_turns: of each conversation, in order
  activity,  \* conversation_meta.last_activity, Never without a row
  chunks,    \* the knowledge: findings of a call, summaries of turns
  phase,     \* of each call: "new", "asked", "done" or "failed"
  history, recall,    \* what a call was given
  todo, transcript,   \* the sweep: conversations left, the turns being summarised
  excused    \* turns over a cap, in a summary that came back empty, or said while it was written

store == <<turns, activity, chunks>>
calls == <<phase, history, recall>>
sweep == <<todo, transcript>>
vars == <<clock, store, calls, sweep, excused>>

Never == MaxTime + 1
Turn(c) == <<[call |-> c, role |-> "user"], [call |-> c, role |-> "assistant"]>>
Finding(c) == [domain |-> "finding", of |-> ToSet(Turn(c))]
Summary(said) == [domain |-> "conversation", of |-> said]

\* The last n of a sequence of turns.
Latest(s, n) == SubSeq(s, 1 + Max({0, Len(s) - n}), Len(s))
\* The turns a cap of n leaves out.
Cut(s, n) == ToSet(s) \ ToSet(Latest(s, n))

\* The tables of an empty database, which both stores keep in one file.
NoConversations == turns = [x \in Conversations |-> <<>>] /\ activity = [x \in Conversations |-> Never]
NoKnowledge == chunks = {}

Init ==
  /\ clock = 0 /\ NoConversations /\ NoKnowledge /\ todo = <<>> /\ transcript = <<>> /\ excused = {}
  /\ phase = [c \in Calls |-> "new"]
  /\ history = [c \in Calls |-> <<>>] /\ recall = [c \in Calls |-> {}]

\* recallBlock: the chunks ranked first, which may be any; none is ever stored as hot memory.
Recalls == kSubset(Min({TopK, Cardinality(chunks)}), chunks)

\* Both are read before the agent is invoked.
Execute(c) ==
  /\ phase[c] = "new" /\ phase' = [phase EXCEPT ![c] = "asked"]
  /\ history' = [history EXCEPT ![c] = Latest(turns[ContextOf(c)], HistoryTurns)]
  /\ \E found \in Recalls : recall' = [recall EXCEPT ![c] = found]
  /\ UNCHANGED <<clock, store, sweep, excused>>

\* appendTurn of both messages, each pruned to the cap.
Appended(x, all) ==
  turns' = [turns EXCEPT ![x] = Latest(all, MaxTurns)] /\ activity' = [activity EXCEPT ![x] = clock]

\* A long answer is a finding too.
Record(c) ==
  LET x == ContextOf(c)
      all == turns[x] \o Turn(c)
  IN /\ phase[c] = "asked" /\ phase' = [phase EXCEPT ![c] = "done"]
     /\ Appended(x, all)
     /\ chunks' \in {chunks, chunks \union {Finding(c)}}
     /\ excused' = excused \union Cut(all, MaxTurns)
          \union (IF transcript # <<>> /\ x = Head(todo) THEN ToSet(Turn(c)) ELSE {})
     /\ UNCHANGED <<clock, history, recall, sweep>>

\* The invocation throws: nothing is recorded.
Fail(c) ==
  /\ phase[c] = "asked" /\ phase' = [phase EXCEPT ![c] = "failed"]
  /\ UNCHANGED <<clock, store, history, recall, sweep, excused>>

-----------------------------------------------------------------------------
(* The harvester. *)

\* retirable: idle for longer than MaxAge, the most idle first, a batch of them.
Idle == {x \in Conversations : activity[x] # Never /\ activity[x] + MaxAge < clock}
Listings ==
  {s \in SetToSeqs(Idle) : \A i, j \in DOMAIN s : i < j => activity[s[i]] <= activity[s[j]]}

Sweep ==
  /\ todo = <<>> /\ Idle # {}
  /\ \E s \in Listings : todo' = SubSeq(s, 1, Min({Len(s), Batch}))
  /\ UNCHANGED <<clock, store, calls, transcript, excused>>

\* allTurns and renderTranscript of the next candidate, active again or not.
Read ==
  /\ todo # <<>> /\ transcript = <<>>
  /\ transcript' = Latest(turns[Head(todo)], MaxTranscript)
  /\ excused' = excused \union Cut(turns[Head(todo)], MaxTranscript)
  /\ UNCHANGED <<clock, store, calls, todo>>

\* deleteConversation: the turns there are now.
Deleted ==
  /\ turns' = [turns EXCEPT ![Head(todo)] = <<>>] /\ activity' = [activity EXCEPT ![Head(todo)] = Never]

Onward == todo' = Tail(todo) /\ transcript' = <<>>

\* The summariser's answer: a summary, or nothing.
Answers == {{Summary(ToSet(transcript))}, {}}

Summarised ==
  /\ transcript # <<>> /\ Deleted /\ Onward
  /\ \E answer \in Answers :
       /\ chunks' = chunks \union answer
       /\ excused' = IF answer = {} THEN excused \union ToSet(transcript) ELSE excused
  /\ UNCHANGED <<clock, calls>>

\* A sweep that deletes what it could not summarise.
ThrowsAway == transcript # <<>> /\ Deleted /\ Onward /\ UNCHANGED <<clock, chunks, calls, excused>>
\* The summariser throws: the conversation waits for the next sweep.
Throws == transcript # <<>> /\ Onward /\ UNCHANGED <<clock, store, calls, excused>>

Tick == clock < MaxTime /\ clock' = clock + 1 /\ UNCHANGED <<store, calls, sweep, excused>>

Next ==
  \/ \E c \in Calls : Execute(c) \/ Record(c) \/ Fail(c)
  \/ Sweep \/ Read \/ Summarised \/ Throws \/ Tick

Spec == Init /\ [][Next]_vars

-----------------------------------------------------------------------------

\* The variables have their types.
TypeOK ==
  LET Said == UNION {ToSet(Turn(c)) : c \in Calls}
  IN /\ clock \in 0 .. MaxTime /\ excused \subseteq Said
     /\ \A x \in Conversations :
          /\ ToSet(turns[x]) \subseteq Said /\ Len(turns[x]) <= MaxTurns
          /\ activity[x] \in 0 .. Never /\ (activity[x] = Never <=> turns[x] = <<>>)
     /\ \A k \in chunks : k.domain \in {"finding", "conversation"} /\ k.of \subseteq Said
     /\ \A c \in Calls : phase[c] \in {"new", "asked", "done", "failed"} /\ recall[c] \subseteq chunks
     /\ ToSet(todo) \subseteq Conversations /\ ToSet(transcript) \subseteq Said

\* What was said is among the turns to be replayed or in a chunk to be recalled, whatever calls
\* record between a sweep's listing, its reading and its deleting, except for turns over a cap
\* and those said while the summary that replaces their conversation was written.
NothingForgotten ==
  \A c \in Calls : phase[c] = "done" =>
    ToSet(Turn(c)) \subseteq
      ToSet(turns[ContextOf(c)]) \union (UNION {k.of : k \in chunks}) \union excused

=============================================================================
