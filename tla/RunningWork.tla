---------------------------- MODULE RunningWork ----------------------------
(***************************************************************************)
(* Work under way: dispatches, schedules, agents, ceremonies, executors    *)
(* and checkouts. They share no state.                                     *)
(***************************************************************************)
EXTENDS Integers, Sequences, FiniteSets

CONSTANTS
  Dispatches, ChatEntries, MaxChatCrashes,  \* see AgentChat
  Names, Files, Versions, SkillsOf, FileFor,  \* see HotReload
  Reviews, Heads, Managed, MaxCheckoutCrashes  \* see Checkouts

VARIABLES
  caller, active, tracked, parked, chatCache, over, lost, chatCrashes,
  up, kind, file, named, when, timer, existing, fired, shots, left, stopped, unread, settled,
  content, dirty, running, regs, reloadQuiet,
  ceremonyFile, snapshot, known, ceremonyTimer, started, waiting, saved, ceremonyStatus, edits,
  executorsKind, health, circuit, failures, cooled, executorsPhase, executorsSeen, messages,
  narrated, steady, astray,
  phase, head, tree, fresh, inflight, crashes

\* The cache of responses holds at least one.
ASSUME EntriesAreKept == ChatEntries \in Nat \ {0}
\* The files of a directory are numbered as readdir lists them.
ASSUME FilesAreNumbered == IsFiniteSet(Files) /\ Files \subseteq 0 .. Cardinality(Files)

D == INSTANCE AgentChat WITH
       MaxEntries <- ChatEntries, MaxCrashes <- MaxChatCrashes, cache <- chatCache,
       crashes <- chatCrashes
S == INSTANCE Scheduler
H == INSTANCE HotReload WITH quiet <- reloadQuiet
C == INSTANCE Ceremonies WITH
       file <- ceremonyFile, timer <- ceremonyTimer, status <- ceremonyStatus
E == INSTANCE Executors WITH kind <- executorsKind, phase <- executorsPhase, seen <- executorsSeen
K == INSTANCE Checkouts WITH MaxCrashes <- MaxCheckoutCrashes

-----------------------------------------------------------------------------
\* Whoever holds a handle of a dispatch is told how it is, and nobody waits for what is over.
PollKnows == D!PollKnows /\ D!WaitsForGood
\* A one-shot schedule is published once, and one removed or paused says nothing.
FiresOnce == S!FiresOnce /\ S!StoppedIsSilent
\* What runs is known: the skills of a running agent are registered through every reload, a
\* ceremony shown as running has a run under way, a remote task still at work is followed.
RunningIsKnown == H!LiveServed /\ C!RunningIsTrue /\ E!HandedOver
\* No review is handed half a checkout.
ServedWhole == K!ServedWhole

=============================================================================
