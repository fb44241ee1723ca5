---------------------------- MODULE ReplyContract ----------------------------
(***************************************************************************)
(* What the tracker of long-running tasks promises a caller: a call whose  *)
(* agent answered "still working" is owed one response on its reply topic, *)
(* and gets exactly one, later.  The words are those of the header of      *)
(* src/executor/task-tracker.ts; TaskTracker.tla is the implementation.    *)
(***************************************************************************)
EXTENDS Naturals

CONSTANT Call

VARIABLES owed,      \* calls accepted for a later response, not answered yet
          replies    \* number of responses published for each call

contractVars == <<owed, replies>>

Init ==
  /\ owed = {}
  /\ replies = [c \in Call |-> 0]

Accept(c) ==
  /\ c \notin owed
  /\ replies[c] = 0
  /\ owed' = owed \union {c}
  /\ UNCHANGED replies

\* One step of the tracker may settle several calls: they are a set.
Answer(S) ==
  /\ S # {}
  /\ S \subseteq owed
  /\ owed' = owed \ S
  /\ replies' = [c \in Call |-> IF c \in S THEN replies[c] + 1 ELSE replies[c]]

Next ==
  \/ \E c \in Call : Accept(c)
  \/ \E S \in SUBSET owed : Answer(S)

Spec == Init /\ [][Next]_contractVars
=============================================================================
