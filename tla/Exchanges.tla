----------------------------- MODULE Exchanges -----------------------------
(***************************************************************************)
(* Who talks to whom, and what is kept of it: A2A streams, Discord         *)
(* conversations, Google files, memory, research, and the boot all of them *)
(* need. They share no state.                                              *)
(***************************************************************************)
EXTENDS Integers, Sequences, FiniteSets

CONSTANTS
  Execs, Chats, MaxEntries,  \* see A2AServer
  Messages, AuthorOf, KindOf, Mentioned, RateMax, RateWindow, Timeout, TalkTime,  \* see Conversations
  Writes, Appends, Drafts, MaxMails,  \* see GoogleFiles
  Contexts, Calls, ContextOf(_), MaxTurns, HistoryTurns, MaxTranscript, TopK, MemoryAge, Batch,
  MemoryTime,  \* see AgentMemory
  Rows, KindOfRow(_), ByWords, ByMeaning, Asked, Pool, TopHits, RrfK, Turns, Retention, MaxHour,  \* see ResearchSearch
  Schedules, ServedBy(_), Clients, MaxBoots  \* see Boot

VARIABLES
  subs, exec, hook, streamSaid, ends, owed, ask, accepted, chat, cache,
  talkNow, delivered, talkSeen, handling, hits, conv, idOf, pending, requests, late, orphaned,
  replies, pushed, passed,
  filesAt, existing, file, undone, document, filled, thread, draft, answers,
  clock, turns, activity, chunks, phase, memoryHistory, recall, todo, transcript, excused,
  stored, embedding, vectors, words, meaning, searchHits, dispatch, began, hour, row,
  env, bootPhase, loaded, installed, failed, weighted, fate, overdue, sockets, bootStarts

\* No message is the mark of none, and limits, windows and horizons are counts.
ASSUME MessagesAreMarked == "none" \notin Messages
ASSUME RatesAreCounted == RateMax \in Nat /\ RateWindow \in Nat /\ TalkTime \in Nat
\* A call runs in a conversation, and the caps on its turns are counts.
ASSUME CapsAreCounted == MaxTurns \in Nat /\ MaxTranscript \in Nat
ASSUME CallsTalk == \A c \in Calls : ContextOf(c) \in Contexts
\* Rows of the flow log are kept for some time, in hours.
ASSUME RetentionIsCounted == Retention \in Nat /\ MaxHour \in Nat
\* Both ways of ranking list a row once.
ASSUME RanksAreCounted ==
  /\ Pool \in Nat /\ TopHits \in Nat /\ RrfK \in Nat \ {0}
  /\ \A ranked \in {ByWords, ByMeaning} :
       /\ ranked \in Seq(Rows)
       /\ \A i, j \in DOMAIN ranked : ranked[i] = ranked[j] => i = j
\* The agent a schedule is for is registered by one of the two registrars.
ASSUME RegistrarsServe == \A s \in Schedules : ServedBy(s) \in {"agent-runtime", "skill-broker"}

A == INSTANCE A2AServer WITH said <- streamSaid
C == INSTANCE Conversations WITH
       Window <- RateWindow, MaxTime <- TalkTime, now <- talkNow, seen <- talkSeen
F == INSTANCE GoogleFiles WITH at <- filesAt
Q == INSTANCE AgentMemory WITH
       Conversations <- Contexts, MaxAge <- MemoryAge, MaxTime <- MemoryTime,
       history <- memoryHistory
R == INSTANCE ResearchSearch WITH
       KindOf <- KindOfRow, K <- TopHits, hits <- searchHits
T == INSTANCE Boot WITH MaxStarts <- MaxBoots, phase <- bootPhase, starts <- bootStarts

-----------------------------------------------------------------------------
\* The cancel hook of an A2A task is that of an execution still open, and an answer to an agent's
\* question that was taken with success was heard.
HookIsOpen == A!HookIsOpen /\ A!AcceptedWasHeard
\* An event stream that has ended says nothing more, and what boots in the registry's order finds
\* what it needs.
InOrder == A!SilentAfterTheEnd /\ T!BootOrder
\* A Discord message is answered once, by its own answer, and within the user's rate.
RepliesFit == C!RepliesFit /\ C!RateKept
\* What was said, written or found is kept, shown, or replaced on purpose.
MemoryKeeps == Q!NothingForgotten /\ F!WrittenIsKept /\ R!ShownAsItIs
\* What words and meaning both find comes before what one of them finds.
BothComeFirst == R!BothComeFirst

=============================================================================
