----------------------------- MODULE DiffSummary -----------------------------
(***************************************************************************)
(* The read side of the review-learning loop: diff_summary tells the       *)
(* reviewer whether a structural pass is required, from what GitHub says   *)
(* of the pull request and from its diff, two reads with a push between    *)
(* them at times, and adds what past merges taught, trimmed to a budget.   *)
(***************************************************************************)
EXTENDS Naturals, Sequences, FiniteSets, FiniteSetsExt, SequencesExt

CONSTANTS
  MaxPushes,
  Changes(_),   \* of each head: files and lines changed, and whether a sensitive path is among them
  ManyFiles, ManyLines, \* STRUCTURAL_FILE_THRESHOLD, STRUCTURAL_LINE_THRESHOLD
  Files(_), Symbols(_), \* of each head: its files and its symbols, in order
  MaxFiles, MaxSymbols,
  Decisions(_), \* what the history holds on a file
  Patterns(_),  \* the hits among the patterns for a symbol, no hit for two of them
  Size(_),      \* the characters a decision or a pattern takes
  Score(_),     \* how alike a pattern is
  Budget        \* the tokens the context may take

VARIABLES
  head,         \* pushes so far
  step,         \* "meta", "diff", "health", "context", "answer" or "error"
  counted,      \* the head whose counts were read, Refused when they were not told
  seen,         \* the head whose diff was read
  asked,        \* files and symbols looked up
  decisions, patterns, \* found for them
  context       \* the block of the answer: its decisions and patterns

read == <<counted, seen>>
found == <<asked, decisions, patterns>>
vars == <<head, step, read, found, context>>

Refused == MaxPushes + 1

Init ==
  /\ head = 0 /\ step = "meta" /\ counted = 0 /\ seen = 0
  /\ asked = 0 /\ decisions = {} /\ patterns = {} /\ context = [decisions |-> {}, patterns |-> {}]

Push == head < MaxPushes /\ head' = head + 1 /\ UNCHANGED <<step, read, found, context>>

\* A refused read of the counts leaves them at none.
ReadMeta ==
  /\ step = "meta" /\ step' = "diff" /\ counted' \in {head, Refused}
  /\ UNCHANGED <<head, seen, found, context>>

ReadDiff ==
  /\ step = "diff" /\ step' \in {"health", "error"} /\ seen' = head
  /\ UNCHANGED <<head, counted, found, context>>

\* The sensitive paths of the whole diff; the counts of the pull request.
SensitiveOfCounted == counted # Refused /\ Changes(counted).sensitive
Sensitive == Changes(seen).sensitive

\* computeStructuralTrigger
Required ==
  \/ Sensitive
  \/ /\ counted # Refused
     /\ Changes(counted).files > ManyFiles \/ Changes(counted).lines > ManyLines

-----------------------------------------------------------------------------
(* What past merges taught. *)

First(s, n) == SubSeq(s, 1, IF Len(s) < n THEN Len(s) ELSE n)

FileLookups ==
  LET files == First(Files(seen), MaxFiles)
  IN [k \in DOMAIN files |-> [past |-> Decisions(files[k]), like |-> {}]]

SymbolLookups ==
  LET symbols == First(Symbols(seen), MaxSymbols)
  IN [k \in DOMAIN symbols |-> [past |-> {}, like |-> Patterns(symbols[k])]]

\* The files and the symbols are looked up side by side; what they find is put
\* together only at the end, so one order stands for all.
Lookups == FileLookups \o SymbolLookups

\* Without Qdrant, or when anything throws, the summary has no context.
Health ==
  /\ step = "health" /\ step' \in {"context", "answer"}
  /\ UNCHANGED <<head, read, found, context>>

\* An embedding or a search that fails finds nothing.
Lookup ==
  /\ step = "context" /\ asked < Len(Lookups) /\ asked' = asked + 1
  /\ \/ /\ decisions' = decisions \cup Lookups[asked + 1].past
        /\ patterns' = patterns \cup Lookups[asked + 1].like
     \/ UNCHANGED <<decisions, patterns>>
  /\ UNCHANGED <<head, step, read, context>>

\* estimateContextTokens, but for the one or two it adds for the digits of the number
\* of characters, which the budget stands for.
Tokens(ds, ps) == (18 + MapThenSumSet(Size, ds) + MapThenSumSet(Size, ps)) \div 4

\* removeLowestScoredPattern takes the first of the least alike; what is found has no
\* order here, so any order is that of the map among patterns as alike.
MostAlikeFirst(p, q) == Score(p) >= Score(q)
LeastAlikeFirst(p, q) == Score(p) <= Score(q)
Orders(ps) ==
  {order \in SetToSeqs(ps) : \A i, j \in DOMAIN order : i < j => LeastAlikeFirst(order[i], order[j])}

\* applyTokenBudget: patterns go in this order until the rest fits.
Rest(order, k) == {order[i] : i \in {i \in DOMAIN order : i > k}}
Trimmed(ds, order) ==
  LET all == Cardinality(DOMAIN order)
      enough == {k \in 0 .. all : Tokens(ds, Rest(order, k)) <= Budget}
  IN Rest(order, IF enough = {} THEN all ELSE Min(enough))

\* formatCodebaseContext
Block(order) == [decisions |-> decisions, patterns |-> Trimmed(decisions, order)]

Answer ==
  /\ step = "context" /\ asked = Len(Lookups) /\ step' = "answer"
  /\ \E order \in Orders(patterns) : context' = Block(order)
  /\ UNCHANGED <<head, read, found>>

Next == Push \/ ReadMeta \/ ReadDiff \/ Health \/ Lookup \/ Answer

Spec == Init /\ [][Next]_vars

-----------------------------------------------------------------------------
TypeOK ==
  /\ head \in 0 .. MaxPushes /\ counted \in 0 .. Refused /\ seen \in 0 .. head
  /\ step \in {"meta", "diff", "health", "context", "answer", "error"}
  /\ asked \in 0 .. Len(Lookups) /\ decisions \cup patterns \subseteq UNION {l.past \cup l.like : l \in ToSet(Lookups)}

\* The reviewer is told that the structural pass is optional only of a diff with
\* no sensitive path that is small, unless its counts were refused or a push came
\* between the two reads.
OptionalIsSmall ==
  step = "answer" /\ ~Required =>
    /\ ~Changes(seen).sensitive
    /\ counted = seen => Changes(seen).files <= ManyFiles /\ Changes(seen).lines <= ManyLines

\* The context keeps all decisions, and no pattern if these are over the budget alone;
\* a pattern left out is at most as alike as each that was kept, and the last to go
\* had to: with it the context was over the budget.
BestAreKept ==
  step = "answer" =>
    LET kept == context.patterns
        dropped == patterns \ kept
    IN /\ context.decisions = decisions /\ kept \subseteq patterns
       /\ Tokens(decisions, kept) > Budget => kept = {}
       /\ \A p \in dropped, q \in kept : Score(q) >= Score(p)
       /\ dropped # {} =>
            \E p \in dropped : /\ \A q \in dropped : Score(q) <= Score(p)
                              /\ Tokens(decisions, kept \cup {p}) > Budget

=============================================================================
