-------------------------- MODULE ExchangesProofs ---------------------------
(***************************************************************************)
(* Safety of what is said and kept, for any executions, messages, files,   *)
(* memories and rows. Each part is proved on its own, since the parts      *)
(* share no state, and the properties the runs check follow at the end.    *)
(***************************************************************************)
EXTENDS Exchanges, TLAPS, FiniteSetTheorems, SequenceTheorems

-----------------------------------------------------------------------------
\* A2A streams. Whoever is subscribed is open, and whoever has ended is settled.

Executions == exec \in [Execs -> {"idle", "open", "settled"}]

LEMMA EndsClear ==
  ASSUME Executions, NEW S, NEW left, NEW event, A!Ends(S, left, event)
  PROVE  hook' = "none" /\ Executions'
BY DEF A!Ends, A!HookGone, A!Settles, Executions

LEMMA HookKept ==
  ASSUME Executions, A!HookIsOpen, [A!Next]_A!vars
  PROVE  Executions' /\ A!HookIsOpen'
<1>1. ASSUME NEW e \in Execs, A!Execute(e)
      PROVE  Executions' /\ A!HookIsOpen'
  BY <1>1 DEF A!Execute, Executions, A!HookIsOpen
<1>2. ASSUME NEW S, NEW left, NEW event, A!Ends(S, left, event)
      PROVE  Executions' /\ A!HookIsOpen'
  BY <1>2, EndsClear DEF A!HookIsOpen
<1>3. CASE UNCHANGED <<exec, hook>>
  BY <1>3 DEF Executions, A!HookIsOpen
<1>4. A!Reply => UNCHANGED <<exec, hook>> \/ \E event \in {"COMPLETED", "FAILED"} :
          A!Ends(A!Hears, A!PassedOver, event)
  BY DEF A!Reply, A!stream
<1>5. A!CancelTask => A!Ends({hook}, A!Without(hook), "CANCELED")
  BY DEF A!CancelTask
<1>6. ASSUME NEW e \in Execs, A!Heartbeat(e)
      PROVE  UNCHANGED <<exec, hook>>
  BY <1>6 DEF A!Heartbeat
<1>7. ASSUME NEW c \in Chats, A!Dispatch(c) \/ A!ChatReply(c) \/ A!ChatTimeout(c)
      PROVE  UNCHANGED <<exec, hook>>
  BY <1>7 DEF A!Dispatch, A!ChatReply, A!ChatTimeout, A!stream
<1>8. ASSUME NEW id, A!Lapse(id)
      PROVE  UNCHANGED <<exec, hook>>
  BY <1>8 DEF A!Lapse, A!stream
<1>9. A!Progress \/ A!Ask \/ A!Answer \/ A!Expire \/ UNCHANGED A!vars => UNCHANGED <<exec, hook>>
  BY DEF A!Progress, A!Ask, A!Answer, A!Expire, A!vars, A!stream
<1> QED
  BY <1>1, <1>2, <1>3, <1>4, <1>5, <1>6, <1>7, <1>8, <1>9 DEF A!Next

(***************************************************************************)
(* The cancel hook of a task is never that of an execution that has ended  *)
(* (HookIsOpen), however executions replace and remove each other's hook.  *)
(***************************************************************************)
THEOREM HookAlwaysOpen == A!Spec => []A!HookIsOpen
<1>1. A!Init => Executions /\ A!HookIsOpen
  BY DEF A!Init, Executions, A!HookIsOpen
<1>2. Executions /\ A!HookIsOpen /\ [A!Next]_A!vars => Executions' /\ A!HookIsOpen'
  BY HookKept
<1> QED
  BY <1>1, <1>2, PTL DEF A!Spec

(***************************************************************************)
(* An answer taken with success was heard by the call that asked           *)
(* (AcceptedWasHeard, which the run checks as part of HookIsOpen).         *)
(***************************************************************************)
THEOREM AcceptedAlwaysHeard == A!Spec => []A!AcceptedWasHeard
<1>1. A!Init => A!AcceptedWasHeard
  BY DEF A!Init, A!AcceptedWasHeard
<1>2. ASSUME A!AcceptedWasHeard, [A!Next]_A!vars
      PROVE  A!AcceptedWasHeard'
  <2>1. CASE UNCHANGED A!question
    BY <1>2, <2>1 DEF A!question, A!AcceptedWasHeard
  <2>2. CASE A!Ask
    BY <1>2, <2>2 DEF A!Ask, A!AcceptedWasHeard
  <2>3. CASE A!Answer
    BY <2>3 DEF A!Answer, A!Held, A!AcceptedWasHeard
  <2>4. CASE A!Expire
    BY <1>2, <2>4 DEF A!Expire, A!AcceptedWasHeard
  <2>5. ASSUME NEW e \in Execs, A!Execute(e) \/ A!Heartbeat(e)
        PROVE  UNCHANGED A!question
    BY <2>5 DEF A!Execute, A!Heartbeat
  <2>6. ASSUME NEW c \in Chats, A!Dispatch(c) \/ A!ChatReply(c) \/ A!ChatTimeout(c)
        PROVE  UNCHANGED A!question
    BY <2>6 DEF A!Dispatch, A!ChatReply, A!ChatTimeout
  <2>7. ASSUME NEW id, A!Lapse(id)
        PROVE  UNCHANGED A!question
    BY <2>7 DEF A!Lapse
  <2>8. A!Reply \/ A!Progress \/ A!CancelTask \/ UNCHANGED A!vars => UNCHANGED A!question
    BY DEF A!Reply, A!Progress, A!CancelTask, A!vars
  <2> QED
    BY <1>2, <2>1, <2>2, <2>3, <2>4, <2>5, <2>6, <2>7, <2>8 DEF A!Next
<1> QED
  BY <1>1, <1>2, PTL DEF A!Spec

(***************************************************************************)
(* An execution that is still subscribed, or whose hook the task holds, is *)
(* open and has not said its last word: what may still reach an execution  *)
(* reaches none that has ended.                                            *)
(***************************************************************************)
EndedIsSettled ==
  /\ ends \in [Execs -> Nat]
  /\ \A e \in Execs : ends[e] > 0 => exec[e] = "settled"

SubscribedIsOpen ==
  /\ subs \in Seq(Execs)
  /\ \A i \in 1 .. Len(subs) : exec[subs[i]] = "open"
  /\ \A i, j \in 1 .. Len(subs) : subs[i] = subs[j] => i = j

HookIsHeld == hook # "none" => hook \in Execs /\ exec[hook] = "open"

Streams == Executions /\ EndedIsSettled /\ SubscribedIsOpen /\ HookIsHeld

Silent == \A e \in Execs : ends[e] > 0 => streamSaid'[e] = streamSaid[e] /\ ends'[e] = ends[e]

LEMMA EndsInOrder ==
  ASSUME Streams, streamSaid \in [Execs -> A!Event],
         NEW S, \A e \in S : e \in Execs /\ exec[e] = "open",
         NEW left \in Seq(Execs), NEW event,
         \A i \in 1 .. Len(left) : exec[left[i]] = "open" /\ left[i] \notin S,
         \A i, j \in 1 .. Len(left) : left[i] = left[j] => i = j,
         A!Ends(S, left, event)
  PROVE  Streams' /\ Silent
<1>1. /\ exec' = [e \in Execs |-> IF e \in S THEN "settled" ELSE exec[e]]
      /\ subs' = left /\ hook' = "none"
      /\ streamSaid' = [e \in Execs |-> IF e \in S THEN event ELSE streamSaid[e]]
      /\ ends' = [e \in Execs |-> IF e \in S /\ ends[e] < 2 THEN ends[e] + 1 ELSE ends[e]]
  BY DEF A!Ends, A!Settles, A!HookGone
<1>2. \A i \in 1 .. Len(left) : left[i] \in Execs
  OBVIOUS
<1>3. Executions' /\ HookIsHeld'
  BY <1>1 DEF Streams, Executions, HookIsHeld
<1>4. EndedIsSettled'
  BY <1>1 DEF Streams, Executions, EndedIsSettled
<1>5. SubscribedIsOpen'
  BY <1>1, <1>2 DEF Streams, Executions, SubscribedIsOpen
<1>6. Silent
  BY <1>1 DEF Silent, Streams, EndedIsSettled
<1> QED
  BY <1>3, <1>4, <1>5, <1>6 DEF Streams

LEMMA ReplyEndsTheHeard ==
  ASSUME Streams, streamSaid \in [Execs -> A!Event],
         NEW event, A!Ends(A!Hears, A!PassedOver, event)
  PROVE  Streams' /\ Silent
<1> DEFINE left == A!PassedOver
<1>1. Len(subs) \in Nat /\ Len(subs) \div 2 \in Nat /\ 2 * (Len(subs) \div 2) <= Len(subs)
  BY DEF Streams, SubscribedIsOpen
<1>2. left = [i \in 1 .. Len(subs) \div 2 |-> subs[2 * i]]
  BY DEF A!PassedOver
<1>3. \A i \in 1 .. Len(subs) \div 2 : 2 * i \in 1 .. Len(subs) /\ left[i] = subs[2 * i]
  BY <1>1, <1>2
<1>4. \A i \in 1 .. Len(subs) : subs[i] \in Execs
  BY DEF Streams, SubscribedIsOpen
<1>5. left \in Seq(Execs) /\ Len(left) = Len(subs) \div 2
  BY <1>1, <1>2, <1>3, <1>4
<1>6. \A e \in A!Hears : e \in Execs /\ exec[e] = "open"
  BY <1>4 DEF A!Hears, Streams, SubscribedIsOpen
<1>7. \A i \in 1 .. Len(left) : exec[left[i]] = "open" /\ left[i] \notin A!Hears
  <2> SUFFICES ASSUME NEW i \in 1 .. Len(left)
               PROVE  exec[left[i]] = "open" /\ left[i] \notin A!Hears
    OBVIOUS
  <2>1. 2 * i \in 1 .. Len(subs) /\ left[i] = subs[2 * i]
    BY <1>3, <1>5
  <2>2. ASSUME NEW j \in 1 .. Len(subs), subs[j] = subs[2 * i]
        PROVE  j % 2 = 0
    <3> HIDE DEF left
    <3>1. j = 2 * i
      BY <2>1, <2>2 DEF Streams, SubscribedIsOpen
    <3> QED
      BY <1>1, <3>1
  <2>3. DOMAIN subs = 1 .. Len(subs)
    BY DEF Streams, SubscribedIsOpen
  <2> HIDE DEF left
  <2> QED
    BY <2>1, <2>2, <2>3 DEF A!Hears, Streams, SubscribedIsOpen
<1>8. \A i, j \in 1 .. Len(left) : left[i] = left[j] => i = j
  <2> HIDE DEF left
  <2> SUFFICES ASSUME NEW i \in 1 .. Len(left), NEW j \in 1 .. Len(left), left[i] = left[j]
               PROVE  i = j
    OBVIOUS
  <2>1. 2 * i \in 1 .. Len(subs) /\ 2 * j \in 1 .. Len(subs) /\ subs[2 * i] = subs[2 * j]
    BY <1>3, <1>5
  <2>2. 2 * i = 2 * j
    BY <2>1 DEF Streams, SubscribedIsOpen
  <2> QED
    BY <1>1, <1>5, <2>2
<1> QED
  BY <1>5, <1>6, <1>7, <1>8, EndsInOrder

LEMMA WithoutOne ==
  ASSUME NEW S, NEW s \in Seq(S), NEW i \in 1 .. Len(s)
  PROVE  /\ A!RemoveAt(s, i) \in Seq(S) /\ Len(A!RemoveAt(s, i)) = Len(s) - 1
         /\ \A j \in 1 .. Len(s) - 1 : A!RemoveAt(s, i)[j] = s[IF j < i THEN j ELSE j + 1]
<1> DEFINE a == SubSeq(s, 1, i - 1)
           b == SubSeq(s, i + 1, Len(s))
<1>1. Len(s) \in Nat /\ i \in Nat
  OBVIOUS
<1>2. a \in Seq(S) /\ Len(a) = i - 1 /\ \A j \in 1 .. i - 1 : a[j] = s[j]
  BY <1>1
<1>3. b \in Seq(S) /\ Len(b) = Len(s) - i /\ \A j \in 1 .. Len(s) - i : b[j] = s[j + i]
  BY <1>1
<1> HIDE DEF a, b
<1>4. a \o b \in Seq(S) /\ Len(a \o b) = Len(s) - 1
  <2>1. \A t, u \in Seq(S) : t \o u \in Seq(S) /\ Len(t \o u) = Len(t) + Len(u)
    OBVIOUS
  <2>2. a \o b \in Seq(S) /\ Len(a \o b) = Len(a) + Len(b)
    BY <1>2, <1>3, <2>1, Zenon
  <2> QED
    BY <1>1, <1>2, <1>3, <2>2
<1>5. \A j \in 1 .. Len(s) - 1 : (a \o b)[j] = s[IF j < i THEN j ELSE j + 1]
  <2> SUFFICES ASSUME NEW j \in 1 .. Len(s) - 1
               PROVE  (a \o b)[j] = s[IF j < i THEN j ELSE j + 1]
    OBVIOUS
  <2>1. CASE j < i
    BY <1>1, <1>2, <1>3, <2>1
  <2>2. CASE ~(j < i)
    <3>1. (a \o b)[j] = b[j - (i - 1)]
      BY <1>1, <1>2, <1>3, <2>2
    <3>2. b[j - (i - 1)] = s[j - (i - 1) + i]
      BY <1>1, <1>3, <2>2
    <3> QED
      BY <1>1, <2>2, <3>1, <3>2
  <2> QED
    BY <2>1, <2>2
<1> QED
  BY <1>4, <1>5 DEF A!RemoveAt, a, b

LEMMA CancelEndsTheHeld ==
  ASSUME Streams, streamSaid \in [Execs -> A!Event], A!CancelTask
  PROVE  Streams' /\ Silent
<1>1. hook \in Execs /\ exec[hook] = "open" /\ A!Ends({hook}, A!Without(hook), "CANCELED")
  BY DEF A!CancelTask, Streams, HookIsHeld
<1>2. Len(subs) \in Nat /\ DOMAIN subs = 1 .. Len(subs)
  BY DEF Streams, SubscribedIsOpen
<1>3. CASE ~A!Contains(subs, hook)
  <2>1. A!Without(hook) = subs /\ \A i \in 1 .. Len(subs) : subs[i] # hook
    BY <1>3 DEF A!Without, A!Contains
  <2> QED
    BY <1>1, <2>1, EndsInOrder DEF Streams, SubscribedIsOpen
<1>4. CASE A!Contains(subs, hook)
  <2> DEFINE i == CHOOSE i \in DOMAIN subs : subs[i] = hook
             left == A!RemoveAt(subs, i)
  <2>1. i \in 1 .. Len(subs) /\ subs[i] = hook /\ A!Without(hook) = left
    BY <1>2, <1>4 DEF A!Contains, A!Without
  <2> HIDE DEF i
  <2>2. i \in Int
    BY <1>2, <2>1
  <2>3. left \in Seq(Execs) /\ Len(left) = Len(subs) - 1
    BY <2>1, WithoutOne DEF Streams, SubscribedIsOpen
  <2>4. \A j \in 1 .. Len(subs) - 1 : left[j] = subs[IF j < i THEN j ELSE j + 1]
    <3>1. subs \in Seq(Execs)
      BY DEF Streams, SubscribedIsOpen
    <3> QED
      BY <2>1, <3>1, WithoutOne
  <2> HIDE DEF left
  <2>5. \A j \in 1 .. Len(left) : exec[left[j]] = "open" /\ left[j] # hook
    BY <1>2, <2>1, <2>3, <2>4 DEF Streams, SubscribedIsOpen
  <2>6. \A j, k \in 1 .. Len(left) : left[j] = left[k] => j = k
    <3> SUFFICES ASSUME NEW j \in 1 .. Len(left), NEW k \in 1 .. Len(left), left[j] = left[k]
                 PROVE  j = k
      OBVIOUS
    <3> DEFINE a == IF j < i THEN j ELSE j + 1
               b == IF k < i THEN k ELSE k + 1
    <3>1. a \in 1 .. Len(subs) /\ b \in 1 .. Len(subs)
      BY <1>2, <2>1, <2>3
    <3>2. subs[a] = subs[b]
      BY <2>3, <2>4
    <3>3. a = b
      BY <3>1, <3>2 DEF Streams, SubscribedIsOpen
    <3> QED
      BY <1>2, <2>1, <2>3, <3>3
  <2> QED
    BY <1>1, <2>1, <2>3, <2>5, <2>6, EndsInOrder
<1> QED
  BY <1>3, <1>4

LEMMA StreamsInOrder ==
  ASSUME Streams, streamSaid \in [Execs -> A!Event], [A!Next]_A!vars
  PROVE  Streams' /\ streamSaid' \in [Execs -> A!Event] /\ Silent
<1>1. ASSUME NEW S, NEW left, NEW event \in A!Event, A!Ends(S, left, event)
      PROVE  streamSaid' \in [Execs -> A!Event]
  BY <1>1 DEF A!Ends
<1>2. {"COMPLETED", "FAILED", "CANCELED", "WORKING", "INPUT_REQUIRED"} \subseteq A!Event
  BY DEF A!Event, A!Terminal
<1>3. ASSUME NEW e \in Execs, A!Execute(e)
      PROVE  Streams' /\ streamSaid' \in [Execs -> A!Event] /\ Silent
  <2>1. /\ exec[e] = "idle" /\ exec' = [exec EXCEPT ![e] = "open"] /\ subs' = Append(subs, e)
        /\ hook' = e /\ streamSaid' = [streamSaid EXCEPT ![e] = "WORKING"] /\ ends' = ends
    BY <1>3 DEF A!Execute
  <2>2. Len(subs) \in Nat /\ \A i \in 1 .. Len(subs) : subs[i] \in Execs /\ subs[i] # e
    BY <2>1 DEF Streams, SubscribedIsOpen
  <2>3. /\ subs' \in Seq(Execs) /\ Len(subs') = Len(subs) + 1 /\ subs'[Len(subs) + 1] = e
        /\ \A i \in 1 .. Len(subs) : subs'[i] = subs[i]
    BY <2>1, <2>2 DEF Streams, SubscribedIsOpen
  <2>4. exec'[e] = "open" /\ \A f \in Execs : f # e => exec'[f] = exec[f]
    BY <2>1 DEF Streams, Executions
  <2>5. \A i \in 1 .. Len(subs') : exec'[subs'[i]] = "open"
    BY <2>2, <2>3, <2>4 DEF Streams, SubscribedIsOpen
  <2>6. \A i, j \in 1 .. Len(subs') : subs'[i] = subs'[j] => i = j
    BY <2>2, <2>3 DEF Streams, SubscribedIsOpen
  <2>7. SubscribedIsOpen'
    BY <2>3, <2>5, <2>6 DEF SubscribedIsOpen
  <2>8. Executions' /\ EndedIsSettled' /\ HookIsHeld'
    BY <2>1 DEF Streams, Executions, EndedIsSettled, HookIsHeld
  <2>9. streamSaid' \in [Execs -> A!Event] /\ Silent
    BY <1>2, <2>1 DEF Silent, Streams, EndedIsSettled
  <2> QED
    BY <2>7, <2>8, <2>9 DEF Streams
<1>4. CASE A!Reply
  <2>1. CASE UNCHANGED A!stream
    BY <2>1 DEF A!stream, Streams, Executions, EndedIsSettled, SubscribedIsOpen, HookIsHeld,
                Silent
  <2>2. ASSUME NEW event \in {"COMPLETED", "FAILED"}, A!Ends(A!Hears, A!PassedOver, event)
        PROVE  Streams' /\ streamSaid' \in [Execs -> A!Event] /\ Silent
    BY <1>1, <1>2, <2>2, ReplyEndsTheHeard
  <2> QED
    BY <1>4, <2>1, <2>2 DEF A!Reply
<1>5. CASE A!CancelTask
  BY <1>1, <1>2, <1>5, CancelEndsTheHeld DEF A!CancelTask
<1>6. CASE UNCHANGED <<subs, exec, hook, ends>>
           /\ streamSaid' \in [Execs -> A!Event]
                /\ \A e \in Execs : exec[e] # "open" => streamSaid'[e] = streamSaid[e]
  BY <1>6 DEF Streams, Executions, EndedIsSettled, SubscribedIsOpen, HookIsHeld, Silent
<1>7. ASSUME NEW e \in Execs, A!Heartbeat(e)
      PROVE  /\ UNCHANGED <<subs, exec, hook, ends>> /\ streamSaid' \in [Execs -> A!Event]
             /\ \A f \in Execs : exec[f] # "open" => streamSaid'[f] = streamSaid[f]
  BY <1>2, <1>7 DEF A!Heartbeat
<1>8. A!Progress \/ A!Ask => /\ UNCHANGED <<subs, exec, hook, ends>>
                                  /\ streamSaid' \in [Execs -> A!Event]
                             /\ \A f \in Execs :
                                  exec[f] # "open" => streamSaid'[f] = streamSaid[f]
  BY <1>2 DEF A!Progress, A!Ask
<1>9. CASE UNCHANGED A!stream
  BY <1>6, <1>9 DEF A!stream
<1>10. ASSUME NEW c \in Chats, A!Dispatch(c) \/ A!ChatReply(c) \/ A!ChatTimeout(c)
       PROVE  UNCHANGED A!stream
  BY <1>10 DEF A!Dispatch, A!ChatReply, A!ChatTimeout
<1>11. ASSUME NEW id, A!Lapse(id)
       PROVE  UNCHANGED A!stream
  BY <1>11 DEF A!Lapse
<1>12. A!Answer \/ A!Expire \/ UNCHANGED A!vars => UNCHANGED A!stream
  BY DEF A!Answer, A!Expire, A!vars
<1> QED
  BY <1>3, <1>4, <1>5, <1>6, <1>7, <1>8, <1>9, <1>10, <1>11, <1>12 DEF A!Next

(***************************************************************************)
(* A stream that has ended says nothing more and never ends twice          *)
(* (SilentAfterTheEnd): what replies, cancellations, heartbeats and        *)
(* progress reach are executions that are still open.                      *)
(***************************************************************************)
THEOREM EndedStaysSilent == A!Spec => A!SilentAfterTheEnd
<1>1. A!Init => Streams /\ streamSaid \in [Execs -> A!Event]
  BY DEF A!Init, Streams, Executions, EndedIsSettled, SubscribedIsOpen, HookIsHeld, A!Event
<1>2. Streams /\ streamSaid \in [Execs -> A!Event] /\ [A!Next]_A!vars
        => (Streams /\ streamSaid \in [Execs -> A!Event])' /\ [Silent]_A!vars
  BY StreamsInOrder
<1>3. A!Spec => [][Silent]_A!vars
  BY <1>1, <1>2, PTL DEF A!Spec
<1> QED
  BY <1>3 DEF A!SilentAfterTheEnd, Silent

-----------------------------------------------------------------------------
\* Discord conversations. A message is taken by one delivery, and what the limiter let through
\* is among its hits while it counts.

(***************************************************************************)
(* A delivery is taken from the moment its handler starts.  Of a message   *)
(* one delivery is taken, as the other finds the message recorded or is    *)
(* never delivered; a handle is that of a message nobody replied to; a     *)
(* request that has lost its handle lost it to a reply of its conversation *)
(* or in a restart.                                                        *)
(***************************************************************************)
Taken(d) == d \in handling \/ idOf[d] # C!NoId

HandlersTyped ==
  /\ delivered \subseteq C!Deliveries /\ handling \subseteq C!Deliveries
  /\ requests \subseteq C!Deliveries /\ late \subseteq C!Deliveries
  /\ idOf \in [C!Deliveries -> C!Deliveries \union {C!NoId}]
  /\ pending \in [C!Deliveries -> Messages \union {C!NoMessage}]
  /\ \A u \in C!Users : conv[u] # C!NoConversation => conv[u].id \in C!Deliveries

TakenOnce ==
  /\ \A d, e \in C!Deliveries : d[1] = e[1] /\ Taken(d) /\ Taken(e) => d = e
  /\ \A d \in handling : idOf[d] = C!NoId
  /\ \A d \in C!Deliveries :
       Taken(d) => d \in delivered /\ (d[1] \in talkSeen
           \/ {<<d[1], 1>>, <<d[1], 2>>} \subseteq delivered)
  /\ \A m \in Messages : <<m, 2>> \in delivered => <<m, 1>> \in delivered

HandleIsUnanswered ==
  \A i \in C!Deliveries :
    pending[i] # C!NoMessage =>
      /\ \E d \in C!Deliveries : d[1] = pending[i] /\ idOf[d] = i
      /\ \A a \in replies : a.to # pending[i]

RepliesAnswerTurns ==
  \A a \in replies :
    /\ \E d \in C!Deliveries : idOf[d] # C!NoId /\ d[1] = a.to
    /\ a.of \in C!Deliveries /\ idOf[a.of] # C!NoId

RequestsAreServed ==
  \A d \in requests \union late :
    /\ idOf[d] # C!NoId
    /\ \/ d \in orphaned
       \/ pending[idOf[d]] # C!NoMessage
       \/ \E a \in replies : idOf[a.of] = idOf[d]

Replying ==
  /\ HandlersTyped /\ TakenOnce /\ HandleIsUnanswered /\ RepliesAnswerTurns /\ RequestsAreServed
  /\ pushed \subseteq C!Deliveries /\ C!RepliesFit

LEMMA IdsAreProper == C!NoId \notin C!Deliveries /\ C!NoMessage \notin Messages
BY MessagesAreMarked DEF C!NoId, C!NoMessage, C!Deliveries

LEMMA DeliveriesAreTwo ==
  ASSUME NEW d \in C!Deliveries
  PROVE  d[1] \in Messages /\ (d = <<d[1], 1>> \/ d = <<d[1], 2>>) /\ C!Author(d) \in C!Users
BY DEF C!Deliveries, C!Author, C!Users

LEMMA ReceiveReplies ==
  ASSUME Replying, NEW d \in C!Deliveries, C!Receive(d)
  PROVE  Replying'
<1>1. /\ d \notin delivered /\ (d[2] = 2 => <<d[1], 1>> \in delivered)
      /\ delivered' = delivered \union {d} /\ talkSeen \subseteq talkSeen'
      /\ UNCHANGED <<conv, idOf, pending, requests, late, orphaned, replies, pushed>>
      /\ \/ handling' = handling
         \/ handling' = handling \union {d} /\ d[1] \notin talkSeen /\ d[1] \in talkSeen'
  BY DEF C!Receive, C!Unhandled
<1>2. HandlersTyped'
  BY <1>1 DEF Replying, HandlersTyped
<1>3. idOf[d] = C!NoId
  BY <1>1 DEF Replying, TakenOnce, Taken
<1>4. \A m \in Messages : <<m, 2>> \in delivered' => <<m, 1>> \in delivered'
  <2>1. d = <<d[1], 2>> => d[2] = 2
    BY DeliveriesAreTwo
  <2>2. ASSUME NEW m \in Messages, <<m, 2>> = d
        PROVE  <<m, 1>> \in delivered
    BY <1>1, <2>2
  <2> QED
    BY <1>1, <2>2 DEF Replying, TakenOnce
<1>5. \A e \in C!Deliveries : Taken(e)' => Taken(e)
          \/ (e = d /\ d[1] \notin talkSeen /\ d[1] \in talkSeen')
  BY <1>1 DEF Taken
<1>6. ASSUME NEW e \in C!Deliveries, Taken(e), d[1] = e[1]
      PROVE  d[1] \in talkSeen
  <2>1. d \in {<<d[1], 1>>, <<d[1], 2>>}
    BY DeliveriesAreTwo
  <2> QED
    BY <1>1, <1>6, <2>1 DEF Replying, TakenOnce
<1>7. TakenOnce'
  <2>1. \A e, f \in C!Deliveries : e[1] = f[1] /\ Taken(e)' /\ Taken(f)' => e = f
    BY <1>5, <1>6 DEF Replying, TakenOnce
  <2>2. \A e \in handling' : idOf'[e] = C!NoId
    BY <1>1, <1>3 DEF Replying, TakenOnce
  <2>3. \A e \in C!Deliveries :
          Taken(e)' => e \in delivered'
                        /\ (e[1] \in talkSeen' \/ {<<e[1], 1>>, <<e[1], 2>>} \subseteq delivered')
    BY <1>1, <1>5 DEF Replying, TakenOnce
  <2> QED
    BY <1>4, <2>1, <2>2, <2>3 DEF TakenOnce
<1>8. HandleIsUnanswered' /\ RepliesAnswerTurns' /\ RequestsAreServed' /\ C!RepliesFit'
      /\ (pushed \subseteq C!Deliveries)'
  BY <1>1 DEF Replying, HandleIsUnanswered, RepliesAnswerTurns, RequestsAreServed, C!RepliesFit
<1> QED
  BY <1>2, <1>7, <1>8 DEF Replying

LEMMA PublishReplies ==
  ASSUME Replying, NEW d \in C!Deliveries, C!Publish(d)
  PROVE  Replying'
<1> DEFINE c == C!Conversation(d)
           id == IF C!Talk(d) THEN c.id ELSE d
<1>1. /\ d \in handling /\ handling' = handling \ {d}
      /\ conv' = IF C!Talk(d) THEN [conv EXCEPT ![C!Author(d)] = c] ELSE conv
      /\ idOf' = [idOf EXCEPT ![d] = id] /\ pending' = [pending EXCEPT ![id] = d[1]]
      /\ requests' \in {requests \union {d}, requests}
      /\ UNCHANGED <<delivered, talkSeen, late, orphaned, replies, pushed>>
  BY DEF C!Publish, C!Routed
<1>2. id \in C!Deliveries /\ c.id \in C!Deliveries
  BY DeliveriesAreTwo DEF C!Conversation, C!Active, Replying, HandlersTyped
<1> HIDE DEF id
<1>3. idOf[d] = C!NoId /\ d[1] \in Messages /\ d[1] # C!NoMessage /\ id # C!NoId
  BY <1>1, <1>2, DeliveriesAreTwo, IdsAreProper DEF Replying, TakenOnce
<1>4. /\ idOf' \in [C!Deliveries -> C!Deliveries \union {C!NoId}]
      /\ pending' \in [C!Deliveries -> Messages \union {C!NoMessage}]
      /\ idOf'[d] = id /\ \A e \in C!Deliveries : e # d => idOf'[e] = idOf[e]
      /\ pending'[id] = d[1] /\ \A i \in C!Deliveries : i # id => pending'[i] = pending[i]
  BY <1>1, <1>2, <1>3 DEF Replying, HandlersTyped
<1>5. HandlersTyped'
  <2>1. \A u \in C!Users : conv'[u] # C!NoConversation => conv'[u].id \in C!Deliveries
    BY <1>1, <1>2 DEF Replying, HandlersTyped
  <2> QED
    BY <1>1, <1>4, <2>1 DEF Replying, HandlersTyped
<1>6. \A e \in C!Deliveries : Taken(e)' <=> Taken(e)
  BY <1>1, <1>3, <1>4 DEF Taken
<1>7. TakenOnce'
  <2>1. \A e \in handling' : idOf'[e] = C!NoId
    BY <1>1, <1>4 DEF Replying, TakenOnce, HandlersTyped
  <2>2. \A e, f \in C!Deliveries : e[1] = f[1] /\ Taken(e)' /\ Taken(f)' => e = f
    BY <1>6 DEF Replying, TakenOnce
  <2>3. \A e \in C!Deliveries :
          Taken(e)' => e \in delivered'
                        /\ (e[1] \in talkSeen' \/ {<<e[1], 1>>, <<e[1], 2>>} \subseteq delivered')
    BY <1>1, <1>6 DEF Replying, TakenOnce
  <2>4. \A m \in Messages : <<m, 2>> \in delivered' => <<m, 1>> \in delivered'
    BY <1>1 DEF Replying, TakenOnce
  <2> QED
    BY <2>1, <2>2, <2>3, <2>4 DEF TakenOnce
<1>8. \A a \in replies : a.to # d[1]
  <2> SUFFICES ASSUME NEW a \in replies, a.to = d[1]
               PROVE  FALSE
    OBVIOUS
  <2>1. PICK e \in C!Deliveries : idOf[e] # C!NoId /\ e[1] = d[1]
    BY DEF Replying, RepliesAnswerTurns
  <2>2. Taken(e) /\ Taken(d)
    BY <1>1, <2>1 DEF Taken
  <2> QED
    BY <1>3, <2>1, <2>2 DEF Replying, TakenOnce
<1>9. HandleIsUnanswered'
  <2> SUFFICES ASSUME NEW i \in C!Deliveries, pending'[i] # C!NoMessage
               PROVE  /\ \E e \in C!Deliveries : e[1] = pending'[i] /\ idOf'[e] = i
                      /\ \A a \in replies : a.to # pending'[i]
    BY <1>1 DEF HandleIsUnanswered
  <2>1. CASE i = id
    BY <1>4, <1>8, <2>1
  <2>2. CASE i # id
    <3>1. PICK e \in C!Deliveries : e[1] = pending[i] /\ idOf[e] = i
      BY <1>4, <2>2 DEF Replying, HandleIsUnanswered
    <3>2. e # d
      BY <1>3, <3>1, IdsAreProper
    <3> QED
      BY <1>4, <2>2, <3>1, <3>2 DEF Replying, HandleIsUnanswered
  <2> QED
    BY <2>1, <2>2
<1>10. \A e \in C!Deliveries : idOf[e] # C!NoId => idOf'[e] = idOf[e]
  BY <1>3, <1>4
<1>11. RepliesAnswerTurns'
  BY <1>1, <1>10 DEF Replying, RepliesAnswerTurns
<1>12. RequestsAreServed'
  <2> SUFFICES ASSUME NEW e \in (requests \union late)'
               PROVE  /\ idOf'[e] # C!NoId
                      /\ \/ e \in orphaned
                         \/ pending'[idOf'[e]] # C!NoMessage
                         \/ \E a \in replies : idOf'[a.of] = idOf'[e]
    BY <1>1 DEF RequestsAreServed
  <2>1. CASE e = d
    BY <1>3, <1>4, <2>1
  <2>2. CASE e # d
    <3>1. e \in requests \union late /\ e \in C!Deliveries /\ idOf[e] # C!NoId /\ idOf'[e] = idOf[e]
          /\ idOf[e] \in C!Deliveries
      BY <1>1, <1>10, <2>2 DEF Replying, HandlersTyped, RequestsAreServed
    <3>2. CASE pending[idOf[e]] # C!NoMessage
      BY <1>3, <1>4, <3>1, <3>2
    <3>3. CASE \E a \in replies : idOf[a.of] = idOf[e]
      <4>1. PICK a \in replies : idOf[a.of] = idOf[e]
        BY <3>3
      <4>2. a.of \in C!Deliveries /\ idOf[a.of] # C!NoId
        BY DEF Replying, RepliesAnswerTurns
      <4> QED
        BY <1>10, <3>1, <4>1, <4>2
    <3> QED
      BY <3>1, <3>2, <3>3 DEF Replying, RequestsAreServed
  <2> QED
    BY <2>1, <2>2
<1>13. C!RepliesFit'
  <2> SUFFICES ASSUME NEW e \in pushed
               PROVE  e \in orphaned \/ \E a \in replies : idOf'[a.of] = idOf'[e]
    BY <1>1 DEF Replying, C!RepliesFit
  <2> SUFFICES ASSUME e \notin orphaned
               PROVE  \E a \in replies : idOf'[a.of] = idOf'[e]
    OBVIOUS
  <2>1. PICK a \in replies : idOf[a.of] = idOf[e]
    BY DEF Replying, C!RepliesFit
  <2>2. a.of \in C!Deliveries /\ idOf[a.of] # C!NoId /\ e \in C!Deliveries
    BY DEF Replying, RepliesAnswerTurns
  <2> QED
    BY <1>10, <2>1, <2>2
<1> QED
  BY <1>1, <1>5, <1>7, <1>9, <1>11, <1>12, <1>13 DEF Replying

\* An answer, whether the first or one more of the same request.
LEMMA SendReplies ==
  ASSUME Replying, NEW d \in requests \union late, C!Send(d), UNCHANGED talkSeen,
         requests' \union late' \subseteq requests \union late
  PROVE  Replying'
<1> DEFINE i == idOf[d]
           a == [to |-> pending[i], of |-> d]
<1>1. /\ requests' \subseteq C!Deliveries /\ late' \subseteq C!Deliveries /\ d \in C!Deliveries
      /\ UNCHANGED <<delivered, talkSeen, handling, conv, idOf, orphaned>>
  BY DEF C!Send, Replying, HandlersTyped
<1>2. i # C!NoId /\ i \in C!Deliveries
  BY <1>1 DEF Replying, HandlersTyped, RequestsAreServed
<1>3. TakenOnce'
  BY <1>1 DEF Replying, TakenOnce, Taken
<1>4. CASE pending[i] = C!NoMessage
  <2>1. pushed' = pushed \union {d} /\ UNCHANGED <<replies, pending>>
    BY <1>4 DEF C!Send
  <2>2. d \in orphaned \/ \E b \in replies : idOf[b.of] = idOf[d]
    BY <1>1, <1>4 DEF Replying, RequestsAreServed
  <2>3. C!RepliesFit'
    BY <1>1, <2>1, <2>2 DEF Replying, C!RepliesFit
  <2>4. HandlersTyped' /\ HandleIsUnanswered' /\ RepliesAnswerTurns'
    BY <1>1, <2>1 DEF Replying, HandlersTyped, HandleIsUnanswered, RepliesAnswerTurns
  <2>5. RequestsAreServed'
    BY <1>1, <2>1 DEF Replying, RequestsAreServed
  <2>6. (pushed \subseteq C!Deliveries)'
    BY <1>1, <2>1 DEF Replying
  <2> QED
    BY <1>3, <2>3, <2>4, <2>5, <2>6 DEF Replying
<1>5. CASE pending[i] # C!NoMessage
  <2>1. /\ replies' = replies \union {a} /\ pending' = [pending EXCEPT ![i] = C!NoMessage]
        /\ pushed' = pushed
    BY <1>5 DEF C!Send
  <2>2. a.to = pending[i] /\ a.of = d
    OBVIOUS
  <2> HIDE DEF a
  <2>3. /\ pending' \in [C!Deliveries -> Messages \union {C!NoMessage}]
        /\ pending'[i] = C!NoMessage /\ \A j \in C!Deliveries : j # i => pending'[j] = pending[j]
    BY <1>2, <2>1 DEF Replying, HandlersTyped
  <2>4. HandlersTyped'
    BY <1>1, <2>3 DEF Replying, HandlersTyped
  <2>5. PICK e \in C!Deliveries : e[1] = pending[i] /\ idOf[e] = i
    BY <1>2, <1>5 DEF Replying, HandleIsUnanswered
  <2>6. \A b \in replies : b.to # pending[i]
    BY <1>2, <1>5 DEF Replying, HandleIsUnanswered
  <2>7. HandleIsUnanswered'
    <3> SUFFICES ASSUME NEW j \in C!Deliveries, pending'[j] # C!NoMessage
                 PROVE  /\ \E f \in C!Deliveries : f[1] = pending'[j] /\ idOf'[f] = j
                        /\ \A b \in replies' : b.to # pending'[j]
      BY DEF HandleIsUnanswered
    <3>1. j # i /\ pending'[j] = pending[j]
      BY <2>3
    <3>2. PICK f \in C!Deliveries : f[1] = pending[j] /\ idOf[f] = j
      BY <3>1 DEF Replying, HandleIsUnanswered
    <3>3. pending[j] # pending[i]
      <4>1. Taken(e) /\ Taken(f)
        BY <1>2, <2>5, <3>2, IdsAreProper DEF Taken
      <4> QED
        BY <2>5, <3>1, <3>2, <4>1 DEF Replying, TakenOnce
    <3> QED
      BY <1>1, <2>1, <2>2, <3>1, <3>2, <3>3 DEF Replying, HandleIsUnanswered
  <2>8. RepliesAnswerTurns'
    BY <1>1, <1>2, <2>1, <2>2, <2>5 DEF Replying, RepliesAnswerTurns
  <2>9. RequestsAreServed'
    <3> SUFFICES ASSUME NEW f \in requests \union late
                 PROVE  /\ idOf[f] # C!NoId
                        /\ \/ f \in orphaned
                           \/ pending'[idOf[f]] # C!NoMessage
                           \/ \E b \in replies' : idOf[b.of] = idOf[f]
      BY <1>1 DEF RequestsAreServed
    <3>1. idOf[f] # C!NoId /\ idOf[f] \in C!Deliveries
      BY DEF Replying, HandlersTyped, RequestsAreServed
    <3>2. CASE idOf[f] = i
      BY <2>1, <2>2, <3>1, <3>2
    <3>3. CASE idOf[f] # i
      BY <2>1, <2>3, <3>1, <3>3 DEF Replying, RequestsAreServed
    <3> QED
      BY <3>2, <3>3
  <2>10. C!RepliesFit'
    BY <1>1, <2>1, <2>2, <2>6 DEF Replying, C!RepliesFit
  <2> QED
    BY <1>3, <2>1, <2>4, <2>7, <2>8, <2>9, <2>10 DEF Replying
<1> QED
  BY <1>4, <1>5

LEMMA AnswerReplies ==
  ASSUME Replying, NEW d \in C!Deliveries, C!Answer(d) \/ C!AnswerAgain(d)
  PROVE  Replying'
<1>1. d \in requests \union late /\ requests' \union late' \subseteq requests \union late /\ C!Send(d)
  BY DEF C!Answer, C!AnswerAgain
<1>2. UNCHANGED talkSeen
  BY <1>1 DEF C!Send
<1> QED
  BY <1>1, <1>2, SendReplies

LEMMA RestartReplies ==
  ASSUME Replying, C!Restart
  PROVE  Replying'
<1>1. /\ talkSeen' = {} /\ handling' = {} /\ late' = {} /\ requests' \subseteq requests
      /\ orphaned \subseteq orphaned' /\ requests' \subseteq orphaned'
      /\ delivered' = {d \in C!Deliveries : <<d[1], 1>> \in delivered}
      /\ conv' = [u \in C!Users |-> C!NoConversation]
           /\ pending' = [d \in C!Deliveries |-> C!NoMessage]
      /\ UNCHANGED <<idOf, replies, pushed>>
  BY DEF C!Restart
<1>2. HandlersTyped'
  BY <1>1 DEF Replying, HandlersTyped
<1>3. \A d \in C!Deliveries : Taken(d)' => Taken(d)
  BY <1>1 DEF Taken
<1>4. \A m \in Messages : <<m, 1>> \in C!Deliveries /\ <<m, 2>> \in C!Deliveries
  BY DEF C!Deliveries
<1>5. \A m \in Messages : <<m, 1>>[1] = m /\ <<m, 2>>[1] = m
  OBVIOUS
<1>6. ASSUME NEW d \in C!Deliveries, Taken(d)'
      PROVE  d \in delivered' /\ {<<d[1], 1>>, <<d[1], 2>>} \subseteq delivered'
  <2>1. d \in delivered
    BY <1>3, <1>6 DEF Replying, TakenOnce
  <2>2. <<d[1], 1>> \in delivered
    BY <2>1, DeliveriesAreTwo DEF Replying, TakenOnce
  <2> QED
    BY <1>1, <1>4, <1>5, <2>2, DeliveriesAreTwo
<1>7. \A m \in Messages : <<m, 2>> \in delivered' => <<m, 1>> \in delivered'
  BY <1>1, <1>4, <1>5
<1>8. TakenOnce'
  <2>1. \A e, f \in C!Deliveries : e[1] = f[1] /\ Taken(e)' /\ Taken(f)' => e = f
    BY <1>3 DEF Replying, TakenOnce
  <2> QED
    BY <1>1, <1>6, <1>7, <2>1 DEF TakenOnce
<1>9. HandleIsUnanswered' /\ RepliesAnswerTurns' /\ RequestsAreServed' /\ C!RepliesFit'
  BY <1>1 DEF Replying, HandleIsUnanswered, RepliesAnswerTurns, RequestsAreServed, C!RepliesFit
<1> QED
  BY <1>1, <1>2, <1>8, <1>9 DEF Replying

LEMMA RepliesKept ==
  ASSUME Replying, [C!Next]_C!vars
  PROVE  Replying'
<1>1. CASE /\ UNCHANGED <<delivered, talkSeen, handling, idOf, pending, replies, pushed>>
           /\ requests' \subseteq requests /\ UNCHANGED <<late, orphaned>>
           /\ \A u \in C!Users : conv'[u] # C!NoConversation => conv'[u] = conv[u]
  BY <1>1 DEF Replying, HandlersTyped, TakenOnce, Taken, HandleIsUnanswered, RepliesAnswerTurns,
              RequestsAreServed, C!RepliesFit
<1>2. CASE C!Tick \/ UNCHANGED C!vars
  BY <1>1, <1>2 DEF C!Tick, C!vars
<1>3. CASE C!Sweep
  BY <1>1, <1>3 DEF C!Sweep, C!Kept
<1>4. ASSUME NEW d \in C!Deliveries, C!Fail(d)
      PROVE  Replying'
  BY <1>1, <1>4 DEF C!Fail
<1> QED
  BY <1>2, <1>3, <1>4, ReceiveReplies, PublishReplies, AnswerReplies, RestartReplies DEF C!Next

(***************************************************************************)
(* No message is answered by two replies, and an answer is pushed          *)
(* elsewhere only when a reply of its conversation took the handle or a    *)
(* restart lost it (RepliesFit), replays, answers that come twice and slow *)
(* agents notwithstanding.                                                 *)
(***************************************************************************)
THEOREM RepliesAlwaysFit == C!Spec => []C!RepliesFit
<1>1. C!Init => Replying
  BY DEF C!Init, Replying, HandlersTyped, TakenOnce, Taken, HandleIsUnanswered,
         RepliesAnswerTurns, RequestsAreServed, C!RepliesFit
<1>2. Replying /\ [C!Next]_C!vars => Replying'
  BY RepliesKept
<1>3. Replying => C!RepliesFit
  BY DEF Replying
<1> QED
  BY <1>1, <1>2, <1>3, PTL DEF C!Spec

(***************************************************************************)
(* The hits let through that are still in the window are in the rate       *)
(* limit's table, also after a restart: the next hit is counted with them. *)
(***************************************************************************)
HitsTyped ==
  /\ talkNow \in Nat /\ IsFiniteSet(hits) /\ IsFiniteSet(passed)
  /\ \A h \in hits \union passed : h.at \in Nat /\ h.at <= talkNow

PassedIsCounted == \A h \in passed : talkNow - h.at < RateWindow => h \in hits

Rated == HitsTyped /\ PassedIsCounted /\ C!RateKept

Passed(u, t) == {h \in passed : h.user = u /\ h.at <= t /\ t - h.at < RateWindow}

LEMMA TalkCounts == \A xs : C!Cardinality(xs) = Cardinality(xs)
BY DEF C!Cardinality, Cardinality

LEMMA PassedAreFinite ==
  ASSUME HitsTyped, NEW u, NEW t
  PROVE  /\ IsFiniteSet(Passed(u, t)) /\ Cardinality(Passed(u, t)) \in Nat
         /\ IsFiniteSet(C!Recent(u)) /\ Cardinality(C!Recent(u)) \in Nat
<1>1. Passed(u, t) \subseteq passed /\ C!Recent(u) \subseteq hits
  BY DEF Passed, C!Recent
<1>2. IsFiniteSet(Passed(u, t)) /\ IsFiniteSet(C!Recent(u))
  BY <1>1, FS_Subset DEF HitsTyped
<1> QED
  BY <1>2, FS_CardinalityType

LEMMA RateIsOfPassed ==
  /\ C!RateKept <=> \A u \in C!Users :
       \A t \in 0 .. TalkTime : Cardinality(Passed(u, t)) <= RateMax
  /\ C!RateKept' <=> \A u \in C!Users :
       \A t \in 0 .. TalkTime : Cardinality(Passed(u, t)') <= RateMax
BY TalkCounts DEF C!RateKept, Passed

\* A hit that is let through makes a full window no fuller than the limit.
LEMMA HitIsCounted ==
  ASSUME Rated, NEW d \in C!Deliveries, ~C!Unlimited(d), ~C!Limited(d),
         passed' = passed \union {[user |-> C!Author(d), at |-> talkNow, of |-> d]}
  PROVE  C!RateKept'
<1> DEFINE h0 == [user |-> C!Author(d), at |-> talkNow, of |-> d]
<1>1. h0.user = C!Author(d) /\ h0.at = talkNow
  OBVIOUS
<1> HIDE DEF h0
<1>2. passed' = passed \union {h0}
  BY DEF h0
<1> SUFFICES ASSUME NEW u \in C!Users, NEW t \in 0 .. TalkTime
             PROVE  Cardinality(Passed(u, t)') <= RateMax
  BY RateIsOfPassed
<1>3. Cardinality(Passed(u, t)) <= RateMax
  BY RateIsOfPassed DEF Rated
<1>4. CASE h0 \notin Passed(u, t)'
  <2>1. Passed(u, t)' = Passed(u, t)
    BY <1>2, <1>4 DEF Passed
  <2> QED
    BY <1>3, <2>1
<1>5. CASE h0 \in Passed(u, t)'
  <2>1. u = C!Author(d) /\ talkNow <= t /\ t \in Nat /\ talkNow \in Nat
    BY <1>1, <1>5, RatesAreCounted DEF Passed, Rated, HitsTyped
  <2>2. Passed(u, t) \subseteq C!Recent(u)
    <3> SUFFICES ASSUME NEW h \in passed, h.user = u, h.at <= t, t - h.at < RateWindow
                 PROVE  h \in hits /\ talkNow - h.at < RateWindow
      BY DEF Passed, C!Recent
    <3>1. h.at \in Nat /\ RateWindow \in Nat
      BY RatesAreCounted DEF Rated, HitsTyped
    <3>2. talkNow - h.at < RateWindow
      BY <2>1, <3>1
    <3> QED
      BY <3>2 DEF Rated, PassedIsCounted
  <2>3. Cardinality(Passed(u, t)) <= Cardinality(C!Recent(u))
    BY <2>2, PassedAreFinite, FS_Subset DEF Rated
  <2>4. Cardinality(C!Recent(u)) + 1 <= RateMax
    BY <2>1, TalkCounts, PassedAreFinite, RatesAreCounted DEF C!Limited, Rated
  <2>5. Passed(u, t)' = Passed(u, t) \union {h0}
    BY <1>2, <1>5 DEF Passed
  <2>6. Cardinality(Passed(u, t) \union {h0}) <= Cardinality(Passed(u, t)) + 1
    <3>1. IsFiniteSet(Passed(u, t)) /\ Cardinality(Passed(u, t)) \in Nat
      BY PassedAreFinite DEF Rated
    <3>2. Cardinality(Passed(u, t) \union {h0})
            = IF h0 \in Passed(u, t) THEN Cardinality(Passed(u, t))
                ELSE Cardinality(Passed(u, t)) + 1
      BY <3>1, FS_AddElement
    <3> QED
      BY <3>1, <3>2
  <2>7. Cardinality(Passed(u, t) \union {h0}) \in Nat
    BY PassedAreFinite, FS_AddElement, FS_CardinalityType DEF Rated
  <2> QED
    BY <2>3, <2>4, <2>5, <2>6, <2>7, PassedAreFinite, RatesAreCounted DEF Rated
<1> QED
  BY <1>4, <1>5

LEMMA RateStays ==
  ASSUME Rated, [C!Next]_C!vars
  PROVE  Rated'
<1>1. CASE UNCHANGED <<talkNow, hits, passed>>
  BY <1>1, RateIsOfPassed DEF Rated, HitsTyped, PassedIsCounted, Passed
<1>2. CASE C!Tick
  <2>1. talkNow' = talkNow + 1 /\ UNCHANGED <<hits, passed>>
    BY <1>2 DEF C!Tick
  <2>2. HitsTyped'
    BY <2>1 DEF Rated, HitsTyped
  <2>3. PassedIsCounted'
    BY <2>1, RatesAreCounted DEF Rated, HitsTyped, PassedIsCounted
  <2>4. C!RateKept'
    BY <2>1, RateIsOfPassed DEF Rated, Passed
  <2> QED
    BY <2>2, <2>3, <2>4 DEF Rated
<1>3. CASE C!Restart
  <2>1. hits' = {h \in hits : talkNow - h.at < RateWindow} /\ UNCHANGED <<talkNow, passed>>
    BY <1>3 DEF C!Restart, C!Loaded
  <2>2. IsFiniteSet(hits')
    BY <2>1, FS_Subset DEF Rated, HitsTyped
  <2>3. HitsTyped' /\ PassedIsCounted'
    BY <2>1, <2>2 DEF Rated, HitsTyped, PassedIsCounted
  <2>4. C!RateKept'
    BY <2>1, RateIsOfPassed DEF Rated, Passed
  <2> QED
    BY <2>3, <2>4 DEF Rated
<1>4. ASSUME NEW d \in C!Deliveries, C!Receive(d)
      PROVE  Rated'
  <2> DEFINE h0 == [user |-> C!Author(d), at |-> talkNow, of |-> d]
  <2>1. h0.at = talkNow
    OBVIOUS
  <2>2. talkNow' = talkNow
    BY <1>4 DEF C!Receive
  <2>3. CASE UNCHANGED <<hits, passed>>
    BY <1>1, <2>2, <2>3
  <2>4. CASE ~C!Unlimited(d) /\ hits' = hits \union {h0} /\ UNCHANGED passed
    <3>1. IsFiniteSet(hits')
      BY <2>4, FS_AddElement DEF Rated, HitsTyped
    <3>2. HitsTyped' /\ PassedIsCounted'
      BY <2>1, <2>2, <2>4, <3>1 DEF Rated, HitsTyped, PassedIsCounted
    <3>3. C!RateKept'
      BY <2>4, RateIsOfPassed DEF Rated, Passed
    <3> QED
      BY <3>2, <3>3 DEF Rated
  <2>5. CASE ~C!Unlimited(d) /\ ~C!Limited(d) /\ hits' = hits \union {h0}
            /\ passed' = passed \union {h0}
    <3>1. IsFiniteSet(hits') /\ IsFiniteSet(passed')
      BY <2>5, FS_AddElement DEF Rated, HitsTyped
    <3>2. HitsTyped' /\ PassedIsCounted'
      BY <2>1, <2>2, <2>5, <3>1 DEF Rated, HitsTyped, PassedIsCounted
    <3>3. C!RateKept'
      BY <2>5, HitIsCounted
    <3> QED
      BY <3>2, <3>3 DEF Rated
  <2>6. C!Hit(d) = IF C!Unlimited(d) THEN {} ELSE {h0}
    BY DEF C!Hit
  <2>7. \/ UNCHANGED <<hits, passed>>
        \/ hits' = hits \union C!Hit(d) /\ UNCHANGED passed
        \/ hits' = hits \union C!Hit(d) /\ passed' = passed \union C!Hit(d) /\ ~C!Limited(d)
    BY <1>4 DEF C!Receive
  <2> QED
    BY <2>3, <2>4, <2>5, <2>6, <2>7
<1>5. ASSUME NEW d \in C!Deliveries, C!Publish(d) \/ C!Answer(d) \/ C!AnswerAgain(d) \/ C!Fail(d)
      PROVE  UNCHANGED <<talkNow, hits, passed>>
  BY <1>5 DEF C!Publish, C!Answer, C!AnswerAgain, C!Send, C!Fail
<1>6. C!Sweep \/ UNCHANGED C!vars => UNCHANGED <<talkNow, hits, passed>>
  BY DEF C!Sweep, C!vars
<1> QED
  BY <1>1, <1>2, <1>3, <1>4, <1>5, <1>6 DEF C!Next

(***************************************************************************)
(* In no window of time more messages of a user are let through than the   *)
(* limit allows (RateKept, which the run checks as part of RepliesFit),    *)
(* whatever was refused and however often the process restarts.            *)
(***************************************************************************)
THEOREM RateAlwaysKept == C!Spec => []C!RateKept
<1>1. C!Init => Rated
  <2> SUFFICES ASSUME C!Init PROVE Rated
    OBVIOUS
  <2>1. talkNow = 0 /\ hits = {} /\ passed = {}
    BY DEF C!Init
  <2>2. HitsTyped /\ PassedIsCounted
    BY <2>1, FS_EmptySet DEF HitsTyped, PassedIsCounted
  <2>3. \A u, t : Passed(u, t) = {}
    BY <2>1 DEF Passed
  <2>4. C!RateKept
    BY <2>3, FS_EmptySet, RateIsOfPassed, RatesAreCounted
  <2> QED
    BY <2>2, <2>4 DEF Rated
<1>2. Rated /\ [C!Next]_C!vars => Rated'
  BY RateStays
<1>3. Rated => C!RateKept
  BY DEF Rated
<1> QED
  BY <1>1, <1>2, <1>3, PTL DEF C!Spec

-----------------------------------------------------------------------------
\* Google files. What an append read is put back with its own.

FilesInv ==
  /\ filesAt \in [Writes -> {"new", "read", "write", "done", "failed"}]
  /\ existing \in [Writes -> Seq(Writes)] /\ file \in Seq(Writes) /\ F!WrittenIsKept

(***************************************************************************)
(* A body holds what was read and the new content.                         *)
(***************************************************************************)
LEMMA BodyIs ==
  ASSUME NEW w \in Writes, existing[w] \in Seq(Writes)
  PROVE  F!Body(w) \in Seq(Writes) /\ F!ToSet(F!Body(w)) = F!ToSet(existing[w]) \union {w}
<1>1. ASSUME NEW q \in Seq(Writes)
      PROVE  q \o <<w>> \in Seq(Writes) /\ F!ToSet(q \o <<w>>) = F!ToSet(q) \union {w}
  <2>1. q \o <<w>> \in Seq(Writes) /\ Len(q \o <<w>>) = Len(q) + 1 /\ Len(q) \in Nat
    OBVIOUS
  <2>2. (q \o <<w>>)[Len(q) + 1] = w /\ \A i \in 1 .. Len(q) : (q \o <<w>>)[i] = q[i]
    OBVIOUS
  <2>3. DOMAIN (q \o <<w>>) = 1 .. Len(q) + 1 /\ DOMAIN q = 1 .. Len(q)
    BY <2>1
  <2>4. F!ToSet(q) \union {w} \subseteq F!ToSet(q \o <<w>>)
    BY <2>1, <2>2, <2>3 DEF F!ToSet
  <2>5. \A i \in 1 .. Len(q) + 1 : i = Len(q) + 1 \/ i \in 1 .. Len(q)
    BY <2>1
  <2>6. F!ToSet(q \o <<w>>) \subseteq F!ToSet(q) \union {w}
    BY <2>2, <2>3, <2>5 DEF F!ToSet
  <2> QED
    BY <2>1, <2>4, <2>6
<1> QED
  BY <1>1 DEF F!Body

(***************************************************************************)
(* What a Drive write answered as done has written is in the file unless   *)
(* it was replaced by one that had not read it (WrittenIsKept), however    *)
(* many agents read and write at once.                                     *)
(***************************************************************************)
THEOREM WrittenIsAlwaysKept == F!Spec => []F!WrittenIsKept
<1>1. F!Init => FilesInv
  BY DEF F!Init, FilesInv, F!WrittenIsKept
<1>2. FilesInv /\ [F!Next]_F!vars => FilesInv'
  <2> SUFFICES ASSUME FilesInv, [F!Next]_F!vars PROVE FilesInv'
    OBVIOUS
  <2>1. CASE UNCHANGED F!drive
    BY <2>1 DEF F!drive, FilesInv, F!WrittenIsKept
  <2>2. ASSUME NEW w \in Writes, F!Refused(w) \/ F!Start(w) \/ F!NotWritten(w)
        PROVE  FilesInv'
    <3>1. /\ \E p \in {"failed", "read", "write"} : filesAt' = [filesAt EXCEPT ![w] = p]
          /\ UNCHANGED <<existing, file, undone>>
      BY <2>2 DEF F!Refused, F!Start, F!NotWritten
    <3> QED
      BY <3>1 DEF FilesInv, F!WrittenIsKept
  <2>3. ASSUME NEW w \in Writes, F!Read(w)
        PROVE  FilesInv'
    <3>1. /\ \E p \in {"failed", "write"} : filesAt' = [filesAt EXCEPT ![w] = p]
          /\ UNCHANGED <<file, undone>>
      BY <2>3 DEF F!Read
    <3>2. existing' \in [Writes -> Seq(Writes)]
      <4>1. existing \in [Writes -> Seq(Writes)] /\ file \in Seq(Writes) /\ <<>> \in Seq(Writes)
        BY DEF FilesInv
      <4>2. PICK got \in Seq(Writes) :
                existing' = [existing EXCEPT ![w] = got] \/ UNCHANGED existing
        BY <2>3, <4>1 DEF F!Read
      <4> QED
        BY <4>1, <4>2
    <3> QED
      BY <3>1, <3>2 DEF FilesInv, F!WrittenIsKept
  <2>4. ASSUME NEW w \in Writes, F!Write(w)
        PROVE  FilesInv'
    <3>1. /\ file' = F!Body(w) /\ UNCHANGED existing
          /\ \E end \in {"done", "failed"} : filesAt' = [filesAt EXCEPT ![w] = end]
          /\ undone' = undone \union
               (F!ToSet(file) \ (IF w \in Appends THEN F!ToSet(existing[w]) ELSE {}))
      BY <2>4 DEF F!Write
    <3>2. file' \in Seq(Writes) /\ F!ToSet(file') = F!ToSet(existing[w]) \union {w}
      BY <3>1, BodyIs DEF FilesInv
    <3>3. F!ToSet(file) \union undone \subseteq F!ToSet(file') \union undone'
      BY <3>1, <3>2
    <3> QED
      BY <3>1, <3>2, <3>3 DEF FilesInv, F!WrittenIsKept
  <2>5. F!Create \/ F!Insert \/ F!Arrives \/ UNCHANGED F!vars => UNCHANGED F!drive
    BY DEF F!Create, F!Insert, F!Arrives, F!vars
  <2>6. ASSUME NEW d \in Drafts, F!Look(d) \/ F!Post(d)
        PROVE  UNCHANGED F!drive
    BY <2>6 DEF F!Look, F!Post
  <2> QED
    BY <2>1, <2>2, <2>3, <2>4, <2>5, <2>6 DEF F!Next
<1>3. FilesInv => F!WrittenIsKept
  BY DEF FilesInv
<1> QED
  BY <1>1, <1>2, <1>3, PTL DEF F!Spec

-----------------------------------------------------------------------------
\* Memory. The transcript of a summary covers the turns it will replace.

Said == [call : Calls, role : {"user", "assistant"}]

\* What was read for the summary under way is all there was of its conversation, but for what is
\* excused.
SummaryCovers ==
  transcript # <<>> =>
    todo # <<>> /\ Q!ToSet(turns[Head(todo)]) \subseteq Q!ToSet(transcript) \union excused

MemoryInv ==
  /\ turns \in [Contexts -> Seq(Said)] /\ SummaryCovers /\ Q!NothingForgotten

(***************************************************************************)
(* The last n turns are some of the turns.                                 *)
(***************************************************************************)
LEMMA LatestIs ==
  ASSUME NEW s \in Seq(Said), NEW n \in Nat
  PROVE  /\ Q!Latest(s, n) \in Seq(Said) /\ Q!ToSet(Q!Latest(s, n)) \subseteq Q!ToSet(s)
         /\ Q!ToSet(s) \subseteq Q!ToSet(Q!Latest(s, n)) \union Q!Cut(s, n)
<1> DEFINE k == Q!Max({0, Len(s) - n})
<1>1. k \in Nat
  <2>1. \A a \in Int : Q!Max({0, a}) \in {0, a} /\ Q!Max({0, a}) >= 0
    <3> SUFFICES ASSUME NEW a \in Int PROVE Q!Max({0, a}) \in {0, a} /\ Q!Max({0, a}) >= 0
      OBVIOUS
    <3>1. \E x \in {0, a} : \A y \in {0, a} : x >= y
      OBVIOUS
    <3> QED
      BY <3>1 DEF Q!Max
  <2>2. Len(s) - n \in Int
    OBVIOUS
  <2>3. k \in {0, Len(s) - n} /\ k >= 0
    BY <2>1, <2>2
  <2> HIDE DEF k
  <2> QED
    BY <2>2, <2>3
<1>2. Q!Latest(s, n) = SubSeq(s, 1 + k, Len(s))
  BY DEF Q!Latest
<1> HIDE DEF k
<1>3. SubSeq(s, 1 + k, Len(s)) \in Seq(Said)
  BY <1>1
<1>4. \A i \in 1 .. Len(SubSeq(s, 1 + k, Len(s))) :
        i + k \in 1 .. Len(s) /\ SubSeq(s, 1 + k, Len(s))[i] = s[i + k]
  BY <1>1
<1>5. Q!ToSet(Q!Latest(s, n)) \subseteq Q!ToSet(s)
  BY <1>2, <1>3, <1>4 DEF Q!ToSet
<1> QED
  BY <1>2, <1>3, <1>5 DEF Q!Cut

(***************************************************************************)
(* Appending the turns of a call adds them.                                *)
(***************************************************************************)
LEMMA AppendedIs ==
  ASSUME NEW s \in Seq(Said), NEW c \in Calls
  PROVE  s \o Q!Turn(c) \in Seq(Said) /\ Q!ToSet(s \o Q!Turn(c)) = Q!ToSet(s)
           \union Q!ToSet(Q!Turn(c))
<1>1. Q!Turn(c) \in Seq(Said)
  BY DEF Q!Turn, Said
<1>2. ASSUME NEW t \in Seq(Said)
      PROVE  s \o t \in Seq(Said) /\ Q!ToSet(s \o t) = Q!ToSet(s) \union Q!ToSet(t)
  <2>1. /\ s \o t \in Seq(Said) /\ Len(s \o t) = Len(s) + Len(t) /\ Len(s) \in Nat
             /\ Len(t) \in Nat
        /\ \A i \in 1 .. Len(s) : (s \o t)[i] = s[i]
        /\ \A i \in 1 .. Len(t) : (s \o t)[Len(s) + i] = t[i]
    OBVIOUS
  <2>2. /\ DOMAIN (s \o t) = 1 .. Len(s) + Len(t) /\ DOMAIN s = 1 .. Len(s)
        /\ DOMAIN t = 1 .. Len(t)
    BY <2>1
  <2>3. \A i \in 1 .. Len(t) : Len(s) + i \in 1 .. Len(s) + Len(t)
    BY <2>1
  <2>4. Q!ToSet(s) \union Q!ToSet(t) \subseteq Q!ToSet(s \o t)
    <3>1. ASSUME NEW i \in 1 .. Len(s)
          PROVE  s[i] \in Q!ToSet(s \o t)
      <4>1. i \in 1 .. Len(s) + Len(t)
        BY <2>1
      <4> QED
        BY <2>1, <2>2, <4>1 DEF Q!ToSet
    <3>2. \A i \in 1 .. Len(t) : t[i] \in Q!ToSet(s \o t)
      BY <2>1, <2>2, <2>3 DEF Q!ToSet
    <3> QED
      BY <2>2, <3>1, <3>2 DEF Q!ToSet
  <2>5. ASSUME NEW i \in 1 .. Len(s) + Len(t)
        PROVE  (s \o t)[i] \in Q!ToSet(s) \union Q!ToSet(t)
    <3>1. CASE i <= Len(s)
      BY <2>1, <2>2, <3>1 DEF Q!ToSet
    <3>2. CASE i > Len(s)
      <4>1. i - Len(s) \in 1 .. Len(t) /\ i = Len(s) + (i - Len(s))
        BY <2>1, <3>2
      <4> QED
        BY <2>1, <2>2, <4>1 DEF Q!ToSet
    <3> QED
      BY <2>1, <3>1, <3>2
  <2>6. Q!ToSet(s \o t) \subseteq Q!ToSet(s) \union Q!ToSet(t)
    BY <2>2, <2>5 DEF Q!ToSet
  <2> QED
    BY <2>1, <2>4, <2>6
<1> QED
  BY <1>1, <1>2

LEMMA RecordKept ==
  ASSUME MemoryInv, NEW c \in Calls, Q!Record(c)
  PROVE  MemoryInv'
<1> DEFINE x == ContextOf(c)
           all == turns[x] \o Q!Turn(c)
           kept == Q!Latest(all, MaxTurns)
<1>1. /\ phase' = [phase EXCEPT ![c] = "done"] /\ turns' = [turns EXCEPT ![x] = kept]
      /\ chunks \subseteq chunks' /\ UNCHANGED <<todo, transcript>>
      /\ excused' = excused \union Q!Cut(all, MaxTurns)
           \union (IF transcript # <<>> /\ x = Head(todo) THEN Q!ToSet(Q!Turn(c)) ELSE {})
  BY DEF Q!Record, Q!Appended, Q!sweep
<1>2. x \in Contexts /\ turns \in [Contexts -> Seq(Said)] /\ turns[x] \in Seq(Said)
  BY CallsTalk DEF MemoryInv
<1>3. all \in Seq(Said) /\ Q!ToSet(all) = Q!ToSet(turns[x]) \union Q!ToSet(Q!Turn(c))
  BY <1>2, AppendedIs
<1>4. kept \in Seq(Said) /\ Q!ToSet(kept) \subseteq Q!ToSet(all)
      /\ Q!ToSet(all) \subseteq Q!ToSet(kept) \union Q!Cut(all, MaxTurns)
  BY <1>3, CapsAreCounted, LatestIs
<1> HIDE DEF all, kept
<1>5. /\ turns' \in [Contexts -> Seq(Said)] /\ turns'[x] = kept
      /\ \A y \in Contexts : y # x => turns'[y] = turns[y]
  BY <1>1, <1>2, <1>4
<1>6. SummaryCovers'
  <2> SUFFICES ASSUME transcript # <<>>
               PROVE  Q!ToSet(turns'[Head(todo)]) \subseteq Q!ToSet(transcript) \union excused'
    BY <1>1 DEF MemoryInv, SummaryCovers
  <2>1. Q!ToSet(turns[Head(todo)]) \subseteq Q!ToSet(transcript) \union excused
    BY DEF MemoryInv, SummaryCovers
  <2>2. CASE x = Head(todo)
    BY <1>1, <1>3, <1>4, <1>5, <2>1, <2>2
  <2>3. CASE x # Head(todo)
    <3>1. turns'[Head(todo)] = turns[Head(todo)]
      BY <1>1, <1>2, <2>3
    <3> QED
      BY <1>1, <2>1, <3>1
  <2> QED
    BY <2>2, <2>3
<1>7. Q!NothingForgotten'
  <2> SUFFICES ASSUME NEW d \in Calls, phase'[d] = "done"
               PROVE  Q!ToSet(Q!Turn(d)) \subseteq
                        Q!ToSet(turns'[ContextOf(d)])
                            \union (UNION {k.of : k \in chunks'}) \union excused'
    BY DEF Q!NothingForgotten
  <2>1. UNION {k.of : k \in chunks} \subseteq UNION {k.of : k \in chunks'}
            /\ excused \subseteq excused'
    BY <1>1
  <2>2. \A y \in Contexts : Q!ToSet(turns[y]) \subseteq Q!ToSet(turns'[y]) \union excused'
    BY <1>1, <1>3, <1>4, <1>5
  <2>3. CASE d = c
    BY <1>1, <1>3, <1>4, <1>5, <2>3
  <2>4. CASE d # c
    <3>1. phase[d] = "done"
      BY <1>1, <2>4
    <3> QED
      BY <2>1, <2>2, <3>1, CallsTalk DEF MemoryInv, Q!NothingForgotten
  <2> QED
    BY <2>3, <2>4
<1> QED
  BY <1>5, <1>6, <1>7 DEF MemoryInv

(***************************************************************************)
(* Deleting the turns that were summarised forgets nothing.                *)
(***************************************************************************)
LEMMA SummarisedKept ==
  ASSUME MemoryInv, Q!Summarised
  PROVE  MemoryInv'
<1> DEFINE h == Head(todo)
<1>1. /\ transcript # <<>> /\ turns' = [turns EXCEPT ![h] = <<>>] /\ transcript' = <<>>
      /\ UNCHANGED phase
  BY DEF Q!Summarised, Q!Deleted, Q!Onward, Q!calls
<1>2. \E answer \in Q!Answers :
        /\ chunks' = chunks \union answer
        /\ excused' = IF answer = {} THEN excused \union Q!ToSet(transcript) ELSE excused
  BY DEF Q!Summarised
<1>3. turns' \in [Contexts -> Seq(Said)] /\ \A y \in Contexts : y # h => turns'[y] = turns[y]
  <2>1. turns \in [Contexts -> Seq(Said)] /\ <<>> \in Seq(Said)
    BY DEF MemoryInv
  <2> HIDE DEF h
  <2> QED
    BY <1>1, <2>1
<1>4. /\ chunks \subseteq chunks' /\ excused \subseteq excused'
      /\ Q!ToSet(transcript) \subseteq (UNION {k.of : k \in chunks'}) \union excused'
  <2>1. CASE chunks' = chunks /\ excused' = excused \union Q!ToSet(transcript)
    BY <2>1
  <2>2. CASE chunks' = chunks \union {Q!Summary(Q!ToSet(transcript))} /\ excused' = excused
    <3>1. Q!Summary(Q!ToSet(transcript)).of = Q!ToSet(transcript)
      BY DEF Q!Summary
    <3> QED
      BY <2>2, <3>1
  <2>3. {Q!Summary(Q!ToSet(transcript))} # {}
    OBVIOUS
  <2> QED
    BY <1>2, <2>1, <2>2, <2>3 DEF Q!Answers
<1>5. SummaryCovers'
  BY <1>1 DEF SummaryCovers
<1>6. Q!NothingForgotten'
  <2> SUFFICES ASSUME NEW d \in Calls, phase[d] = "done"
               PROVE  Q!ToSet(Q!Turn(d)) \subseteq
                        Q!ToSet(turns'[ContextOf(d)])
                            \union (UNION {k.of : k \in chunks'}) \union excused'
    BY <1>1 DEF Q!NothingForgotten
  <2>1. UNION {k.of : k \in chunks} \subseteq UNION {k.of : k \in chunks'}
    BY <1>4
  <2>2. Q!ToSet(Q!Turn(d)) \subseteq
          Q!ToSet(turns[ContextOf(d)]) \union (UNION {k.of : k \in chunks}) \union excused
    BY DEF MemoryInv, Q!NothingForgotten
  <2>3. CASE ContextOf(d) = h
    <3>1. Q!ToSet(turns[h]) \subseteq Q!ToSet(transcript) \union excused
      BY <1>1 DEF MemoryInv, SummaryCovers
    <3> QED
      BY <1>4, <2>1, <2>2, <2>3, <3>1
  <2>4. CASE ContextOf(d) # h
    BY <1>3, <1>4, <2>1, <2>2, <2>4, CallsTalk
  <2> QED
    BY <2>3, <2>4
<1> QED
  BY <1>3, <1>5, <1>6 DEF MemoryInv

(***************************************************************************)
(* What was said is among the turns to be replayed or in a chunk to be     *)
(* recalled, whatever calls record between a sweep's listing, its reading  *)
(* and its deleting (NothingForgotten).                                    *)
(***************************************************************************)
THEOREM NothingEverForgotten == Q!Spec => []Q!NothingForgotten
<1>1. Q!Init => MemoryInv
  BY DEF Q!Init, Q!NoConversations, MemoryInv, SummaryCovers, Q!NothingForgotten
<1>2. MemoryInv /\ [Q!Next]_Q!vars => MemoryInv'
  <2> SUFFICES ASSUME MemoryInv, [Q!Next]_Q!vars PROVE MemoryInv'
    OBVIOUS
  <2>1. ASSUME UNCHANGED <<turns, chunks, excused>>, SummaryCovers',
               \A c \in Calls : phase'[c] = "done" => phase[c] = "done"
        PROVE  MemoryInv'
    BY <2>1 DEF MemoryInv, Q!NothingForgotten
  <2>2. ASSUME NEW c \in Calls, Q!Execute(c) \/ Q!Fail(c)
        PROVE  MemoryInv'
    <3>1. /\ UNCHANGED <<turns, chunks, excused, todo, transcript>>
          /\ \E p \in {"asked", "failed"} : phase' = [phase EXCEPT ![c] = p]
      BY <2>2 DEF Q!Execute, Q!Fail, Q!store, Q!sweep
    <3> QED
      BY <2>1, <3>1 DEF MemoryInv, SummaryCovers
  <2>3. CASE Q!Sweep
    <3>1. /\ UNCHANGED <<turns, chunks, excused, phase, transcript>> /\ todo = <<>>
      BY <2>3 DEF Q!Sweep, Q!store, Q!calls
    <3> QED
      BY <2>1, <3>1 DEF MemoryInv, SummaryCovers
  <2>4. CASE Q!Read
    <3> DEFINE s == turns[Head(todo)]
    <3>1. /\ UNCHANGED <<turns, chunks, phase, todo>> /\ todo # <<>>
          /\ transcript' = Q!Latest(s, MaxTranscript)
               /\ excused' = excused \union Q!Cut(s, MaxTranscript)
      BY <2>4 DEF Q!Read, Q!store, Q!calls
    <3>2. Q!ToSet(s) \subseteq Q!ToSet(Q!Latest(s, MaxTranscript)) \union Q!Cut(s, MaxTranscript)
      BY DEF Q!Cut
    <3>3. SummaryCovers'
      BY <3>1, <3>2 DEF SummaryCovers
    <3> QED
      BY <3>1, <3>3 DEF MemoryInv, Q!NothingForgotten
  <2>5. CASE Q!Throws
    <3>1. UNCHANGED <<turns, chunks, excused, phase>> /\ transcript' = <<>>
      BY <2>5 DEF Q!Throws, Q!Onward, Q!store, Q!calls
    <3> QED
      BY <2>1, <3>1 DEF SummaryCovers
  <2>6. CASE Q!Tick \/ UNCHANGED Q!vars
    <3>1. UNCHANGED <<turns, chunks, excused, phase, todo, transcript>>
      BY <2>6 DEF Q!Tick, Q!vars, Q!store, Q!calls, Q!sweep
    <3> QED
      BY <2>1, <3>1 DEF MemoryInv, SummaryCovers
  <2> QED
    BY <2>2, <2>3, <2>4, <2>5, <2>6, RecordKept, SummarisedKept DEF Q!Next
<1>3. MemoryInv => Q!NothingForgotten
  BY DEF MemoryInv
<1> QED
  BY <1>1, <1>2, <1>3, PTL DEF Q!Spec

-----------------------------------------------------------------------------
\* The flow log. A row was created with one of its turns, and while all of them are young
\* it knows its creation.

AllYoung == R!Begun # {} /\ \A t \in R!Begun : hour - began[t] <= Retention

LogInv ==
  /\ hour \in Nat \ {0} /\ began \in [Turns -> Nat]
  /\ DOMAIN dispatch = Turns /\ \A t \in Turns : began[t] <= hour
  /\ row = [status |-> row.status, created |-> row.created, completed |-> row.completed,
            updated |-> row.updated]
  /\ row.created # R!Never => \E t \in R!Begun : row.created = began[t]
  /\ AllYoung => row.created # R!Never
  /\ R!ShownAsItIs

(***************************************************************************)
(* The turns that were young together before a step.                       *)
(***************************************************************************)
LEMMA YoungBefore ==
  ASSUME LogInv, AllYoung', R!Begun \subseteq R!Begun', R!Begun # {}, hour' \in Nat, hour <= hour',
         \A t \in R!Begun : began'[t] = began[t]
  PROVE  AllYoung
<1>1. ASSUME NEW t \in R!Begun
      PROVE  hour - began[t] <= Retention
  <2>1. t \in R!Begun' /\ t \in Turns /\ began'[t] = began[t]
    BY DEF R!Begun
  <2>2. hour' - began[t] <= Retention
    BY <2>1 DEF AllYoung
  <2> QED
    BY <2>1, <2>2, RetentionIsCounted DEF LogInv
<1> QED
  BY <1>1 DEF AllYoung

(***************************************************************************)
(* An event of a turn: it is merged into the row, whose status it becomes. *)
(***************************************************************************)
LEMMA EventKeeps ==
  ASSUME LogInv, NEW t \in Turns,
         R!Dispatch(t) \/ R!Track(t) \/ R!Block(t) \/ R!Complete(t)
  PROVE  LogInv'
<1>1. PICK s \in {"active", "tracked", "blocked", "complete"} :
        /\ dispatch' = [dispatch EXCEPT ![t] = s]
        /\ row'.status = (IF s = "tracked" THEN "active" ELSE s)
  BY DEF R!Dispatch, R!Track, R!Block, R!Complete, R!Upserted, R!Event, R!Coalesce, R!Never
<1>2. /\ UNCHANGED hour
      /\ row' = [status |-> row'.status, created |-> row'.created, completed |-> row'.completed,
                updated |-> row'.updated]
  BY DEF R!Dispatch, R!Track, R!Block, R!Complete, R!Upserted
<1>3. DOMAIN dispatch' = Turns /\ dispatch'[t] = s /\ \A u \in Turns : u # t => dispatch'[u] = dispatch[u]
  BY <1>1 DEF LogInv
<1>4. R!Begun' = R!Begun \union {t}
  BY <1>3 DEF R!Begun
<1>5. R!ShownAsItIs'
  <2>1. t \in R!Begun' /\ row'.status = R!Shown(t)'
    BY <1>1, <1>3, <1>4 DEF R!Shown
  <2> QED
    BY <2>1 DEF R!ShownAsItIs
<1>6. CASE R!Dispatch(t)
  <2>1. /\ dispatch[t] = "none" /\ began' = [began EXCEPT ![t] = hour]
        /\ row'.created = (IF row.created # R!Never THEN row.created ELSE hour)
    BY <1>6 DEF R!Dispatch, R!Upserted, R!Event, R!Coalesce
  <2>2. t \notin R!Begun
    BY <2>1 DEF R!Begun
  <2>3. /\ began' \in [Turns -> Nat] /\ began'[t] = hour
        /\ \A u \in Turns : u # t => began'[u] = began[u]
        /\ \A u \in Turns : began'[u] <= hour'
    BY <1>2, <2>1 DEF LogInv
  <2>4. row'.created # R!Never => \E u \in R!Begun' : row'.created = began'[u]
    <3>1. CASE row.created # R!Never
      <4>1. PICK u \in R!Begun : row.created = began[u]
        BY <3>1 DEF LogInv
      <4>2. u \in Turns /\ u # t
        BY <2>2 DEF R!Begun
      <4> QED
        BY <1>4, <2>1, <2>3, <3>1, <4>1, <4>2
    <3>2. CASE row.created = R!Never
      BY <1>4, <2>1, <2>3, <3>2
    <3> QED
      BY <3>1, <3>2
  <2>5. row'.created # R!Never
    BY <2>1 DEF LogInv, R!Never
  <2> QED
    BY <1>2, <1>3, <1>5, <2>3, <2>4, <2>5 DEF LogInv
<1>7. CASE R!Track(t) \/ R!Block(t) \/ R!Complete(t)
  <2>1. /\ dispatch[t] = "active" /\ UNCHANGED began /\ row'.created = row.created
    BY <1>7 DEF R!Track, R!Block, R!Complete, R!Upserted, R!Event, R!Coalesce, R!Never
  <2>2. R!Begun' = R!Begun
    BY <1>4, <2>1 DEF R!Begun
  <2>3. AllYoung' <=> AllYoung
    BY <1>2, <2>1, <2>2 DEF AllYoung
  <2> QED
    BY <1>2, <1>3, <1>5, <2>1, <2>2, <2>3 DEF LogInv
<1> QED
  BY <1>6, <1>7

(***************************************************************************)
(* The flow log shows a conversation whose turns are young as far as one   *)
(* of them has got (ShownAsItIs): a row is pruned only when the turn it    *)
(* was created with is old, or when it does not know its creation, and     *)
(* then one of its turns is old.                                           *)
(***************************************************************************)
THEOREM AlwaysShownAsItIs == R!Spec => []R!ShownAsItIs
<1>1. R!Init => LogInv
  <2> SUFFICES ASSUME R!Init PROVE LogInv
    OBVIOUS
  <2>1. \A t \in Turns : dispatch[t] = "none" /\ began[t] = 0
    BY DEF R!Init, R!Never
  <2>2. R!Begun = {}
    BY <2>1 DEF R!Begun
  <2>3. row.created = R!Never
    BY DEF R!Init, R!NoRow
  <2>4. row = [status |-> row.status, created |-> row.created, completed |-> row.completed,
               updated |-> row.updated]
    BY DEF R!Init, R!NoRow
  <2>5. hour = 1 /\ began \in [Turns -> Nat] /\ DOMAIN dispatch = Turns
    BY DEF R!Init, R!Never
  <2> QED
    BY <2>1, <2>2, <2>3, <2>4, <2>5 DEF LogInv, AllYoung, R!ShownAsItIs
<1>2. LogInv /\ [R!Next]_R!vars => LogInv'
  <2> SUFFICES ASSUME LogInv, [R!Next]_R!vars PROVE LogInv'
    OBVIOUS
  <2>1. CASE UNCHANGED R!flow
    BY <2>1 DEF R!flow, LogInv, AllYoung, R!Begun, R!Shown, R!ShownAsItIs
  <2>2. CASE R!Older
    <3>1. hour' = hour + 1 /\ UNCHANGED <<dispatch, began, row>> /\ R!Begun' = R!Begun
      BY <2>2 DEF R!Older, R!Begun
    <3>2. hour' \in Nat \ {0} /\ hour <= hour' /\ \A t \in Turns : began[t] <= hour'
      BY <3>1 DEF LogInv
    <3>3. AllYoung' => AllYoung
      BY <3>1, <3>2, YoungBefore DEF AllYoung
    <3>4. \A t \in Turns : R!Shown(t)' = R!Shown(t)
      BY <3>1 DEF R!Shown
    <3>5. R!ShownAsItIs'
      BY <3>1, <3>3, <3>4 DEF LogInv, R!ShownAsItIs, AllYoung, R!Begun
    <3> QED
      BY <3>1, <3>2, <3>3, <3>5 DEF LogInv
  <2>3. CASE R!Prune
    <3>1. /\ row' = R!NoRow /\ UNCHANGED <<dispatch, began, hour>>
          /\ hour - R!Coalesce(row.created, row.updated) > Retention
          /\ R!Begun' = R!Begun
      BY <2>3 DEF R!Prune, R!Begun
    <3>2. ~AllYoung
      <4> SUFFICES ASSUME AllYoung PROVE FALSE
        OBVIOUS
      <4>1. PICK t \in R!Begun : row.created = began[t]
        BY DEF LogInv
      <4>2. hour - began[t] > Retention
        BY <3>1, <4>1 DEF LogInv, R!Coalesce
      <4>3. hour - began[t] <= Retention
        BY DEF AllYoung
      <4>4. began[t] \in Nat
        BY DEF LogInv, R!Begun
      <4> QED
        BY <4>2, <4>3, <4>4, RetentionIsCounted DEF LogInv
    <3>3. ~AllYoung'
      BY <3>1, <3>2 DEF AllYoung
    <3>4. R!ShownAsItIs'
      BY <3>3 DEF AllYoung, R!ShownAsItIs
    <3>5. /\ row'.created = R!Never
          /\ row' = [status |-> row'.status, created |-> row'.created, completed |-> row'.completed,
                    updated |-> row'.updated]
      BY <3>1 DEF R!NoRow
    <3> QED
      BY <3>1, <3>3, <3>4, <3>5 DEF LogInv
  <2>4. R!SearchNext \/ UNCHANGED R!vars => UNCHANGED R!flow
    BY DEF R!SearchNext, R!Add, R!Embed, R!Restart, R!Query, R!Nearest, R!Fuse, R!Answered, R!vars
  <2> QED
    BY <2>1, <2>2, <2>3, <2>4, EventKeeps DEF R!Next, R!FlowNext
<1>3. LogInv => R!ShownAsItIs
  BY DEF LogInv
<1> QED
  BY <1>1, <1>2, <1>3, PTL DEF R!Spec

-----------------------------------------------------------------------------
\* Boot. What was loaded is installed or has failed.

Entries == 1 .. 6

BootInv ==
  /\ loaded \in 0 .. 6 /\ bootPhase \in {"off", "loading", "serving", "draining"}
  /\ bootPhase \in {"loading", "serving"} =>
       /\ \A i \in 1 .. loaded : T!Registry[i] \in installed \union failed
       /\ \A p \in installed : \E i \in 1 .. loaded : p = T!Registry[i]
  /\ bootPhase \in {"serving", "draining"} => T!Guarded
  /\ sockets # {} => bootPhase \in {"serving", "draining"}
  /\ "fleet-alerts-evaluator" \in installed => "agent-fleet-health" \in installed

(***************************************************************************)
(* The registrars come before the dispatcher in the registry.              *)
(***************************************************************************)
LEMMA RegistryIs ==
  /\ Len(T!Registry) = 6
  /\ \A i \in Entries : T!Registry[i] = "skill-dispatcher" => i = 4
  /\ {"agent-runtime", "skill-broker"} \subseteq {T!Registry[i] : i \in 1 .. 4}
<1>1. /\ T!Registry[1] = "router" /\ T!Registry[2] = "agent-runtime"
           /\ T!Registry[3] = "skill-broker"
      /\ T!Registry[4] = "skill-dispatcher" /\ T!Registry[5] = "agent-fleet-health"
      /\ T!Registry[6] = "fleet-alerts-evaluator" /\ Len(T!Registry) = 6
  BY DEF T!Registry
<1>2. \A i \in Entries : i = 1 \/ i = 2 \/ i = 3 \/ i = 4 \/ i = 5 \/ i = 6
  BY DEF Entries
<1>3. {T!Registry[2], T!Registry[3]} \subseteq {T!Registry[i] : i \in 1 .. 4}
  OBVIOUS
<1> QED
  BY <1>1, <1>2, <1>3

LEMMA LoadBoots ==
  ASSUME BootInv, T!Load
  PROVE  BootInv'
<1> DEFINE p == T!Registry[loaded + 1]
<1>1. /\ bootPhase = "loading" /\ loaded < 6 /\ loaded' = loaded + 1 /\ UNCHANGED bootPhase
      /\ loaded \in 0 .. 6
      /\ \/ ~T!Throws(p) /\ installed' = installed \union {p} /\ UNCHANGED failed
         \/ failed' = failed \union {p} /\ UNCHANGED installed
  BY RegistryIs DEF T!Load, BootInv
<1>2. /\ installed \union failed \union {p} = installed' \union failed'
      /\ installed' \subseteq installed \union {p} /\ installed \subseteq installed'
  BY <1>1
<1>3. ASSUME NEW i \in 1 .. loaded'
      PROVE  T!Registry[i] \in installed' \union failed'
  <2>1. i \in 1 .. loaded \/ i = loaded + 1
    BY <1>1
  <2> QED
    BY <1>1, <1>2, <2>1 DEF BootInv
<1>4. ASSUME NEW q \in installed'
      PROVE  \E i \in 1 .. loaded' : q = T!Registry[i]
  <2>1. CASE q \in installed
    <3>1. PICK i \in 1 .. loaded : q = T!Registry[i]
      BY <1>1, <2>1 DEF BootInv
    <3>2. i \in 1 .. loaded'
      BY <1>1
    <3> QED
      BY <3>1, <3>2
  <2>2. CASE q = p
    <3>1. loaded + 1 \in 1 .. loaded'
      BY <1>1
    <3> QED
      BY <2>2, <3>1
  <2> QED
    BY <1>2, <2>1, <2>2
<1>5. "fleet-alerts-evaluator" \in installed' => "agent-fleet-health" \in installed'
  BY <1>1, <1>2 DEF T!Throws, BootInv
<1>6. loaded' \in 0 .. 6
  BY <1>1
<1>7. sockets' = {}
  BY <1>1 DEF T!Load, BootInv
<1> QED
  BY <1>1, <1>3, <1>4, <1>5, <1>6, <1>7 DEF BootInv

(***************************************************************************)
(* Booting in the registry's order, a request the dispatcher hears is      *)
(* dropped only if the registrar of its agent has failed, the alerts are   *)
(* evaluated on a health that is there, and no client is connected to a    *)
(* server that looks like production and has no key (BootOrder).           *)
(***************************************************************************)
THEOREM BootsInOrder == T!Spec => T!BootOrder
<1>1. T!Init => BootInv
  BY DEF T!Init, BootInv
<1>2. BootInv /\ [T!Next]_T!vars => BootInv'
  <2> SUFFICES ASSUME BootInv, [T!Next]_T!vars PROVE BootInv'
    OBVIOUS
  <2>1. CASE T!Start
    <3>1. bootPhase = "off" /\ sockets = {} /\ sockets' = {} /\ bootPhase' = "loading"
      BY <2>1 DEF T!Start, BootInv
    <3> QED
      BY <2>1, <3>1 DEF T!Start, BootInv
  <2>2. CASE T!Serve
    BY <2>2 DEF T!Serve, T!Serves, T!Ended, T!Guarded, BootInv
  <2>3. CASE T!Signal
    BY <2>3 DEF T!Signal, T!Guarded, BootInv
  <2>4. CASE T!Exit \/ T!Crash
    BY <2>4 DEF T!Exit, T!Crash, T!Ended, T!plugins, BootInv
  <2>5. UNCHANGED <<env, bootPhase, loaded, installed, failed, sockets>> => BootInv'
    BY DEF BootInv, T!Guarded
  <2>6. T!Weigh \/ UNCHANGED T!vars => UNCHANGED <<env, bootPhase, loaded, installed, failed, sockets>>
    BY DEF T!Weigh, T!vars, T!plugins
  <2>7. ASSUME NEW s \in Schedules, T!Fire(s) \/ T!ComesDue(s) \/ T!Finish(s)
        PROVE  UNCHANGED <<env, bootPhase, loaded, installed, failed, sockets>>
    BY <2>7 DEF T!Fire, T!ComesDue, T!Finish, T!plugins
  <2>8. ASSUME NEW c \in Clients, T!Connect(c) \/ T!Disconnect(c)
        PROVE  BootInv'
    <3>1. UNCHANGED <<env, bootPhase, loaded, installed, failed>>
      BY <2>8 DEF T!Connect, T!Disconnect, T!plugins
    <3>2. sockets' # {} => bootPhase' \in {"serving", "draining"}
      BY <2>8, <3>1 DEF T!Connect, T!Disconnect, BootInv
    <3> QED
      BY <3>1, <3>2 DEF BootInv, T!Guarded
  <2> QED
    BY <2>1, <2>2, <2>3, <2>4, <2>5, <2>6, <2>7, <2>8, LoadBoots DEF T!Next
<1>3. ASSUME BootInv, [T!Next]_T!vars, NEW s \in Schedules, fate[s] = "due", fate'[s] = "dropped"
      PROVE  ServedBy(s) \in failed
  <2>1. CASE T!Fire(s)
    <3>1. /\ bootPhase \in {"loading", "serving"}
               /\ {"router", "skill-dispatcher"} \subseteq installed
          /\ ServedBy(s) \notin installed
      <4>1. bootPhase \in {"loading", "serving"} /\ fate'[s] = T!Heard(s)
        BY <1>3, <2>1 DEF T!Fire
      <4> QED
        BY <1>3, <4>1 DEF T!Heard
    <3>2. loaded >= 4 /\ loaded \in 0 .. 6
      <4>1. PICK i \in 1 .. loaded : "skill-dispatcher" = T!Registry[i]
        BY <1>3, <3>1 DEF BootInv
      <4>2. loaded \in 0 .. 6 /\ i \in Entries
        BY <1>3 DEF BootInv, Entries
      <4> QED
        BY <4>1, <4>2, RegistryIs
    <3>3. PICK j \in 1 .. 4 : ServedBy(s) = T!Registry[j]
      BY RegistryIs, RegistrarsServe
    <3>4. j \in 1 .. loaded
      BY <3>2
    <3> QED
      BY <1>3, <3>1, <3>3, <3>4 DEF BootInv
  <2>2. CASE T!Start
    BY <1>3, <2>2 DEF T!Start
  <2>3. CASE T!Serve \/ T!Exit \/ T!Crash
    BY <1>3, <2>3 DEF T!Serve, T!Exit, T!Crash, T!Ended
  <2>4. CASE UNCHANGED fate
    BY <1>3, <2>4
  <2>5. T!Load \/ T!Weigh \/ T!Signal \/ UNCHANGED T!vars => UNCHANGED fate
    BY DEF T!Load, T!Weigh, T!Signal, T!vars
  <2>6. ASSUME NEW t \in Schedules, T!ComesDue(t)
        PROVE  UNCHANGED fate
    BY <2>6 DEF T!ComesDue
  <2>7. ASSUME NEW c \in Clients, T!Connect(c) \/ T!Disconnect(c)
        PROVE  UNCHANGED fate
    BY <2>7 DEF T!Connect, T!Disconnect
  <2>8. ASSUME NEW t \in Schedules, T!Finish(t)
        PROVE  fate'[s] # "dropped"
    BY <1>3, <2>8 DEF T!Finish
  <2>9. ASSUME NEW t \in Schedules, t # s, T!Fire(t)
        PROVE  fate'[s] # "dropped"
    BY <1>3, <2>9 DEF T!Fire
  <2> QED
    BY <1>3, <2>1, <2>2, <2>3, <2>4, <2>5, <2>6, <2>7, <2>8, <2>9 DEF T!Next
<1>4. BootInv /\ [T!Next]_T!vars =>
        [\A s \in Schedules : fate[s] = "due" /\ fate'[s] = "dropped"
            => ServedBy(s) \in failed]_T!vars
  BY <1>3
<1>5. BootInv => (sockets # {} => bootPhase \in {"serving", "draining"} /\ T!Guarded)
  BY DEF BootInv
<1>6. BootInv => (bootPhase = "loading" /\ "fleet-alerts-evaluator" \in installed
                  => "agent-fleet-health" \in installed)
  BY DEF BootInv
<1> QED
  BY <1>1, <1>2, <1>4, <1>5, <1>6, PTL DEF T!Spec, T!BootOrder

-----------------------------------------------------------------------------
\* The research store. Lists that name a row once, and what both name.

(***************************************************************************)
(* Both ways to write the size of a set agree.                             *)
(***************************************************************************)
LEMMA RowsCount == \A xs : R!Cardinality(xs) = Cardinality(xs)
BY DEF R!Cardinality, Cardinality

\* A list of rows as a search ranks them, each once.
Ranking(list) ==
  \E n \in 0 .. Pool : /\ list \in [1 .. n -> Rows]
                       /\ \A i, j \in 1 .. n : list[i] = list[j] => i = j

(***************************************************************************)
(* The least of two is the lesser.                                         *)
(***************************************************************************)
LEMMA RowsLesserIs ==
  ASSUME NEW a \in Int, NEW b \in Int
  PROVE  R!Min({a, b}) = IF a <= b THEN a ELSE b
<1> DEFINE c == IF a <= b THEN a ELSE b
<1>1. c \in {a, b} /\ \A y \in {a, b} : c <= y
  OBVIOUS
<1>2. \A x \in {a, b} : (\A y \in {a, b} : x <= y) => x = c
  OBVIOUS
<1> HIDE DEF c
<1>3. R!Min({a, b}) = CHOOSE x \in {a, b} : \A y \in {a, b} : x <= y
  BY DEF R!Min
<1>4. R!Min({a, b}) = c
  BY <1>1, <1>2, <1>3
<1> QED BY <1>4 DEF c

(***************************************************************************)
(* Each of some numbers has a place of its own among them, and each place  *)
(* up to their number is one's.                                            *)
(***************************************************************************)
LEMMA Placed ==
  ASSUME NEW set \in SUBSET Nat, IsFiniteSet(set)
  PROVE  /\ \A i \in set : Cardinality({j \in set : j <= i}) \in 1 .. Cardinality(set)
         /\ \A i, k \in set : Cardinality({j \in set : j <= k}) = Cardinality({j \in set : j <= i}) => k = i
         /\ \A k \in 1 .. Cardinality(set) : \E i \in set : Cardinality({j \in set : j <= i}) = k
<1> DEFINE upTo(k) == {j \in set : j <= k}
           n == Cardinality(set)
<1>1. \A k \in set : upTo(k) \subseteq set /\ k \in upTo(k)
  OBVIOUS
<1>2. \A k \in set : IsFiniteSet(upTo(k)) /\ Cardinality(upTo(k)) \in Nat /\ Cardinality(upTo(k)) <= n
  BY <1>1, FS_Subset, FS_CardinalityType
<1>3. n \in Nat
  BY FS_CardinalityType
<1>4. \A i \in set : Cardinality(upTo(i)) # 0
  BY <1>1, <1>2, FS_EmptySet
<1>5. ASSUME NEW i \in set, NEW k \in set, Cardinality(upTo(k)) = Cardinality(upTo(i))
      PROVE  k = i
  <2> i \in Nat /\ k \in Nat /\ \A j \in set : j \in Nat
    BY <1>5
  <2>1. upTo(k) \subseteq upTo(i) \/ upTo(i) \subseteq upTo(k)
    <3>1. CASE i <= k
      <4>1. \A j \in upTo(i) : j \in set /\ j <= k
        BY <3>1
      <4> QED BY <4>1
    <3>2. CASE k <= i
      <4>1. \A j \in upTo(k) : j \in set /\ j <= i
        BY <3>2
      <4> QED BY <4>1
    <3> QED BY <3>1, <3>2
  <2>2. upTo(k) = upTo(i)
    <3> HIDE DEF upTo
    <3> QED BY <1>2, <1>5, <2>1, FS_Subset
  <2>3. i <= k /\ k <= i
    BY <1>1, <1>5, <2>2
  <2> QED BY <1>5, <2>3
<1>6. \A i \in set : Cardinality(upTo(i)) \in 1 .. n
  <2> HIDE DEF upTo, n
  <2> QED BY <1>2, <1>3, <1>4
<1>7. \A k \in 1 .. n : \E i \in set : Cardinality(upTo(i)) = k
  <2> DEFINE place == [i \in set |-> Cardinality(upTo(i))]
  <2> HIDE DEF upTo
  <2>1. place \in Injection(set, 1 .. n)
    BY <1>5, <1>6 DEF Injection, IsInjective
  <2> HIDE DEF n
  <2>2. IsFiniteSet(1 .. n) /\ Cardinality(1 .. n) = n
    BY <1>3, FS_Interval
  <2>3. place \in Surjection(set, 1 .. n)
    BY <2>1, <2>2, FS_Injection DEF n
  <2>4. \A k \in 1 .. n : \E i \in set : place[i] = k
    BY <2>3 DEF Surjection
  <2> QED BY <2>4
<1> QED BY <1>5, <1>6, <1>7

(***************************************************************************)
(* The first rows of a list list each row once, too.                       *)
(***************************************************************************)
LEMMA FirstRanks ==
  ASSUME NEW list \in {ByWords, ByMeaning}, NEW rows
  PROVE  Ranking(R!First(Pool, list, rows))
<1> DEFINE found == {i \in DOMAIN list : list[i] \in rows}
           place(i) == R!Cardinality({j \in found : j <= i})
           size == R!Cardinality(found)
           n == R!Min({Pool, size})
           nth(k) == CHOOSE i \in found : place(i) = k
<1>1. /\ list \in Seq(Rows) /\ \A i, j \in DOMAIN list : list[i] = list[j] => i = j
      /\ Pool \in Nat
  BY RanksAreCounted
<1>2. found \in SUBSET Nat /\ IsFiniteSet(found) /\ size \in Nat
  <2>1. DOMAIN list = 1 .. Len(list) /\ Len(list) \in Nat
    BY <1>1
  <2>2. IsFiniteSet(1 .. Len(list)) /\ 1 .. Len(list) \subseteq Nat
    BY <2>1, FS_Interval
  <2>3. found \subseteq 1 .. Len(list)
    BY <2>1
  <2> HIDE DEF found
  <2> QED BY <2>2, <2>3, FS_Subset, FS_CardinalityType, RowsCount
<1>3. R!First(Pool, list, rows) = [k \in 1 .. n |-> list[nth(k)]]
  BY DEF R!First
<1>4. \A i \in found : i \in DOMAIN list
  OBVIOUS
<1> HIDE DEF found
<1>5. \A k \in 1 .. size : \E i \in found : place(i) = k
  BY <1>2, Placed, RowsCount
<1> HIDE DEF place
<1>6. \A k \in 1 .. size : nth(k) \in found /\ place(nth(k)) = k
  BY <1>5
<1> HIDE DEF nth, size
<1>7. n \in 0 .. Pool /\ n <= size
  BY <1>1, <1>2, RowsLesserIs
<1> HIDE DEF n
<1>8. \A k \in 1 .. n : k \in 1 .. size
  BY <1>1, <1>2, <1>7
<1> DEFINE f == R!First(Pool, list, rows)
<1>9. f \in [1 .. n -> Rows] /\ \A k \in 1 .. n : f[k] = list[nth(k)]
  <2>1. \A k \in 1 .. n : list[nth(k)] \in Rows
    BY <1>1, <1>4, <1>6, <1>8
  <2> QED BY <1>3, <2>1
<1>10. \A i, j \in 1 .. n : f[i] = f[j] => i = j
  BY <1>1, <1>4, <1>6, <1>8, <1>9
<1> QED BY <1>7, <1>9, <1>10 DEF Ranking

(***************************************************************************)
(* Two reciprocals of places no further than RRF_K are more than any one.  *)
(***************************************************************************)
LEMMA TwoAreMore ==
  ASSUME NEW a \in Nat, NEW b \in Nat, NEW c \in Nat, a > 0, a < 2 * c, b < 2 * c
  PROVE  (a + b) * c > a * b
<1> DEFINE d == 2 * c
<1>1. a * b + b * a = 2 * (a * b) /\ 2 * ((a + b) * c) = a * d + b * d
  OBVIOUS
<1>2. d \in Nat /\ a < d /\ b < d
  OBVIOUS
<1> HIDE DEF d
<1>3. a * d >= a * b + a /\ b * d >= b * a
  <2>1. PICK x \in Nat : d = b + 1 + x
    <3>1. d - (b + 1) \in Nat /\ d = b + 1 + (d - (b + 1))
      BY <1>2
    <3> QED BY <3>1
  <2>2. PICK y \in Nat : d = a + y
    <3>1. d - a \in Nat /\ d = a + (d - a)
      BY <1>2
    <3> QED BY <3>1
  <2>3. a * d = a * b + a + a * x /\ a * x \in Nat
    BY <2>1
  <2>4. b * d = b * a + b * y /\ b * y \in Nat
    BY <2>2
  <2>5. a * b \in Nat /\ b * a \in Nat
    OBVIOUS
  <2> QED BY <2>3, <2>4, <2>5
<1> DEFINE ab == a * b
           ad == a * d
           bd == b * d
           more == (a + b) * c
<1>4. b * a = ab /\ ab \in Nat /\ ad \in Nat /\ bd \in Nat /\ more \in Nat
  BY <1>2
<1>5. 2 * more = ad + bd /\ ad >= ab + a /\ bd >= ab
  BY <1>1, <1>3, <1>4
<1> HIDE DEF ab, ad, bd, more
<1>6. more > ab
  BY <1>4, <1>5
<1> QED BY <1>6 DEF more, ab

(***************************************************************************)
(* What a list adds to the score of a row.                                 *)
(***************************************************************************)
LEMMA ReciprocalIs ==
  ASSUME NEW list, Ranking(list), NEW r
  PROVE  /\ r \in R!ToSet(list) => \E c \in RrfK .. RrfK + Pool - 1 : R!Reciprocal(r, list) = <<1, c>>
         /\ r \notin R!ToSet(list) => R!Reciprocal(r, list) = <<0, 1>>
<1>1. PICK n \in 0 .. Pool : list \in [1 .. n -> Rows]
  BY DEF Ranking
<1>2. ASSUME r \in R!ToSet(list)
      PROVE  \E c \in RrfK .. RrfK + Pool - 1 : R!Reciprocal(r, list) = <<1, c>>
  <2> DEFINE i == CHOOSE i \in DOMAIN list : list[i] = r
  <2>1. i \in 1 .. n
    BY <1>1, <1>2 DEF R!ToSet
  <2>2. R!Reciprocal(r, list) = <<1, RrfK + i - 1>>
    BY <1>2 DEF R!Reciprocal
  <2> HIDE DEF i
  <2>3. RrfK + i - 1 \in RrfK .. RrfK + Pool - 1
    BY <2>1, RanksAreCounted
  <2> QED BY <2>2, <2>3
<1> QED BY <1>2 DEF R!Reciprocal

\* The rows both lists have, and those either has.
Both == R!ToSet(words) \intersect R!ToSet(meaning)
Either == R!ToSet(words) \union R!ToSet(meaning)

(***************************************************************************)
(* A row that both lists have outscores one that a single list has.        *)
(***************************************************************************)
LEMMA BothBeatOne ==
  ASSUME Ranking(words), Ranking(meaning), Pool <= RrfK, NEW r \in Both, NEW q \in Either \ Both
  PROVE  ~R!Before(q, r)
<1>1. Pool \in Nat /\ RrfK \in Nat /\ RrfK > 0
  BY RanksAreCounted
<1>2. PICK a \in RrfK .. RrfK + Pool - 1 : R!Reciprocal(r, words) = <<1, a>>
  BY ReciprocalIs DEF Both
<1>3. PICK b \in RrfK .. RrfK + Pool - 1 : R!Reciprocal(r, meaning) = <<1, b>>
  BY ReciprocalIs DEF Both
<1>4. R!Score(r) = <<a + b, a * b>>
  <2>1. R!Score(r) = <<1 * b + 1 * a, a * b>>
    BY <1>2, <1>3 DEF R!Score, R!Plus
  <2>2. 1 * b + 1 * a = a + b
    BY <1>1
  <2> QED BY <2>1, <2>2
<1>5. PICK c \in RrfK .. RrfK + Pool - 1 : R!Score(q) = <<1, c>>
  <2>1. CASE q \in R!ToSet(words) /\ q \notin R!ToSet(meaning)
    <3>1. PICK c \in RrfK .. RrfK + Pool - 1 : R!Reciprocal(q, words) = <<1, c>>
      BY <2>1, ReciprocalIs
    <3>2. R!Reciprocal(q, meaning) = <<0, 1>>
      BY <2>1, ReciprocalIs
    <3>3. R!Score(q) = <<1 * 1 + 0 * c, c * 1>>
      BY <3>1, <3>2 DEF R!Score, R!Plus
    <3>4. 1 * 1 + 0 * c = 1 /\ c * 1 = c
      BY <1>1
    <3> QED BY <3>3, <3>4
  <2>2. CASE q \notin R!ToSet(words) /\ q \in R!ToSet(meaning)
    <3>1. PICK c \in RrfK .. RrfK + Pool - 1 : R!Reciprocal(q, meaning) = <<1, c>>
      BY <2>2, ReciprocalIs
    <3>2. R!Reciprocal(q, words) = <<0, 1>>
      BY <2>2, ReciprocalIs
    <3>3. R!Score(q) = <<0 * c + 1 * 1, 1 * c>>
      BY <3>1, <3>2 DEF R!Score, R!Plus
    <3>4. 0 * c + 1 * 1 = 1 /\ 1 * c = c
      BY <1>1
    <3> QED BY <3>3, <3>4
  <2> QED BY <2>1, <2>2 DEF Both, Either
<1>6. a \in Nat /\ b \in Nat /\ c \in Nat /\ a > 0 /\ a < 2 * c /\ b < 2 * c
  BY <1>1
<1>7. (a + b) * c > a * b
  BY <1>6, TwoAreMore
<1> DEFINE one == a * b
           two == (a + b) * c
<1>8. one \in Nat /\ two \in Nat /\ two > one
  BY <1>6, <1>7
<1>9. R!Exceeds(R!Score(q), R!Score(r)) <=> 1 * one > two
  BY <1>4, <1>5 DEF R!Exceeds
<1>10. R!Exceeds(R!Score(r), R!Score(q)) <=> two > 1 * one
  BY <1>4, <1>5 DEF R!Exceeds
<1> HIDE DEF one, two
<1>11. ~(1 * one > two) /\ two > 1 * one
  BY <1>8
<1> QED BY <1>9, <1>10, <1>11 DEF R!Before

(***************************************************************************)
(* So the best of an order by score are those first.                       *)
(***************************************************************************)
LEMMA FusedBothFirst ==
  ASSUME Ranking(words), Ranking(meaning), Pool <= RrfK, NEW order \in R!Orders
  PROVE  LET best == SubSeq(order, 1, R!Min({Len(order), TopHits}))
         IN \A r \in Both, q \in R!ToSet(best) :
              q \in Both \/ \E i, j \in DOMAIN best : i < j /\ best[i] = r /\ best[j] = q
<1> DEFINE best == SubSeq(order, 1, R!Min({Len(order), TopHits}))
           n == Cardinality(Either)
           m == R!Min({Len(order), TopHits})
<1>1. IsFiniteSet(Either) /\ n \in Nat
  <2>1. ASSUME NEW list, Ranking(list)
        PROVE  IsFiniteSet(R!ToSet(list))
    <3>1. PICK k \in 0 .. Pool : list \in [1 .. k -> Rows]
      BY <2>1 DEF Ranking
    <3>2. R!ToSet(list) = {list[i] : i \in 1 .. k}
      BY <3>1 DEF R!ToSet
    <3>3. IsFiniteSet(1 .. k)
      BY RanksAreCounted, FS_Interval
    <3>4. list \in Surjection(1 .. k, R!ToSet(list))
      BY <3>1, <3>2 DEF Surjection
    <3> QED BY <3>3, <3>4, FS_Surjection
  <2> QED BY <2>1, FS_Union, FS_CardinalityType DEF Either
<1>2. /\ order \in [1 .. n -> Either]
      /\ \A i, j \in 1 .. n : i # j => order[i] # order[j]
      /\ \A i, j \in 1 .. n : i < j => R!Before(order[i], order[j])
  <2>1. R!SetToSeqs(Either) = {f \in [1 .. n -> Either] : \A i, j \in 1 .. n : i # j => f[i] # f[j]}
    BY RowsCount DEF R!SetToSeqs
  <2> HIDE DEF n
  <2>2. order \in R!SetToSeqs(Either) /\ \A i, j \in DOMAIN order : i < j => R!Before(order[i], order[j])
    BY DEF R!Orders, Either
  <2>3. order \in [1 .. n -> Either] /\ DOMAIN order = 1 .. n
    BY <2>1, <2>2
  <2> QED BY <2>1, <2>2, <2>3
<1>3. \A p \in Either : \E i \in 1 .. n : order[i] = p
  <2>1. order \in Injection(1 .. n, Either)
    BY <1>2 DEF Injection, IsInjective
  <2> HIDE DEF n
  <2>2. IsFiniteSet(1 .. n) /\ Cardinality(1 .. n) = n
    BY <1>1, FS_Interval
  <2>3. order \in Surjection(1 .. n, Either)
    BY <1>1, <2>1, <2>2, FS_Injection DEF n
  <2> QED BY <2>3 DEF Surjection
<1> HIDE DEF n
<1>4. m \in 0 .. n
  <2>1. Len(order) = n /\ TopHits \in Nat
    BY <1>1, <1>2, RanksAreCounted
  <2> QED BY <1>1, <2>1, RowsLesserIs
<1> HIDE DEF m
<1>5. DOMAIN best = 1 .. m /\ \A i \in 1 .. m : best[i] = order[i]
  <2>1. DOMAIN order = 1 .. n /\ m \in Nat /\ m <= n
    BY <1>1, <1>2, <1>4
  <2>2. SubSeq(order, 1, m) = [i \in 1 .. m |-> order[i]]
    BY <1>1, <1>2, <2>1
  <2> QED BY <2>2 DEF m
<1> HIDE DEF best
<1> SUFFICES ASSUME NEW r \in Both, NEW q \in R!ToSet(best)
             PROVE  q \in Both \/ \E i, j \in DOMAIN best : i < j /\ best[i] = r /\ best[j] = q
  BY DEF best
<1>6. PICK j \in 1 .. m : best[j] = q
  BY <1>5 DEF R!ToSet
<1>7. SUFFICES ASSUME q \notin Both
               PROVE  \E i \in DOMAIN best : i < j /\ best[i] = r
  BY <1>5, <1>6
<1>8. j \in 1 .. n /\ order[j] = q /\ q \in Either \ Both
  <2>1. j \in 1 .. n
    BY <1>1, <1>4, <1>6
  <2>2. order[j] = q
    BY <1>5, <1>6
  <2> QED BY <1>2, <1>7, <2>1, <2>2
<1>9. PICK i \in 1 .. n : order[i] = r
  BY <1>3 DEF Both, Either
<1>10. ~(j < i)
  <2>1. j < i => R!Before(q, r)
    BY <1>2, <1>8, <1>9
  <2> QED BY <1>8, <2>1, BothBeatOne
<1>11. i # j
  BY <1>7, <1>8, <1>9
<1>12. i < j /\ i \in 1 .. m
  BY <1>1, <1>4, <1>6, <1>8, <1>10, <1>11
<1> QED BY <1>5, <1>9, <1>12

\* The lists of a search list a row once, and what it answers follows them.
Searching ==
  /\ words # R!Open => Ranking(words)
  /\ meaning # R!Open => Ranking(meaning)
  /\ searchHits # R!Open => words # R!Open /\ meaning # R!Open
  /\ R!BothComeFirst

(***************************************************************************)
(* Whatever rows are stored, embedded or lost while a search ranks by      *)
(* words and waits for the gateway, what both find comes first.            *)
(***************************************************************************)
THEOREM BothAlwaysFirst == R!Spec => []R!BothComeFirst
<1>1. R!Init => Searching
  BY DEF R!Init, Searching, R!BothComeFirst
<1>2. Searching /\ [R!Next]_R!vars => Searching'
  <2> SUFFICES ASSUME Searching, [R!Next]_R!vars PROVE Searching'
    OBVIOUS
  <2>1. CASE UNCHANGED <<words, meaning, searchHits>>
    BY <2>1 DEF Searching, R!BothComeFirst, R!Open
  <2>2. CASE R!Restart \/ R!Answered
    <3>1. words' = R!Open /\ meaning' = R!Open /\ searchHits' = R!Open
      BY <2>2 DEF R!Restart, R!Answered
    <3> QED BY <3>1 DEF Searching, R!BothComeFirst, R!Open
  <2>3. CASE R!Query
    <3>1. /\ words = R!Open /\ UNCHANGED <<meaning, searchHits>>
          /\ words' = R!First(Pool, ByWords, {r \in stored : R!OfKind(r)})
      BY <2>3 DEF R!Query
    <3>2. Ranking(words')
      BY <3>1, FirstRanks
    <3> QED BY <3>1, <3>2 DEF Searching, R!BothComeFirst, R!Open, Ranking
  <2>4. CASE R!Nearest
    <3>1. /\ words # R!Open /\ meaning = R!Open /\ UNCHANGED <<words, searchHits>>
          /\ meaning' \in {<<>>, R!First(Pool, ByMeaning, vectors)}
      BY <2>4 DEF R!Nearest
    <3>2. Ranking(<<>>)
      <4>1. 0 \in 0 .. Pool
        BY RanksAreCounted
      <4>2. <<>> \in [1 .. 0 -> Rows]
        OBVIOUS
      <4> QED BY <4>1, <4>2 DEF Ranking
    <3>3. Ranking(meaning')
      BY <3>1, <3>2, FirstRanks
    <3> QED BY <3>1, <3>3 DEF Searching, R!BothComeFirst, R!Open, Ranking
  <2>5. CASE R!Fuse
    <3>1. /\ words # R!Open /\ meaning # R!Open /\ UNCHANGED <<words, meaning>>
      BY <2>5 DEF R!Fuse
    <3>2. PICK order \in R!Orders : searchHits' = SubSeq(order, 1, R!Min({Len(order), TopHits}))
      BY <2>5 DEF R!Fuse
    <3>3. Ranking(words) /\ Ranking(meaning)
      BY <3>1 DEF Searching
    <3>4. R!BothComeFirst'
      <4> SUFFICES ASSUME Pool <= RrfK, NEW r \in Both, NEW q \in R!ToSet(searchHits')
                   PROVE  q \in Both \/ \E i, j \in DOMAIN searchHits' :
                            i < j /\ searchHits'[i] = r /\ searchHits'[j] = q
        BY <3>1 DEF R!BothComeFirst, Both, R!ToSet
      <4> DEFINE best == SubSeq(order, 1, R!Min({Len(order), TopHits}))
      <4>1. \A p \in Both, s \in R!ToSet(best) :
              s \in Both \/ \E i, j \in DOMAIN best : i < j /\ best[i] = p /\ best[j] = s
        BY <3>3, FusedBothFirst
      <4> HIDE DEF best
      <4>2. searchHits' = best
        BY <3>2 DEF best
      <4> QED BY <4>1, <4>2
    <3> QED BY <3>1, <3>3, <3>4 DEF Searching, R!Open, Ranking
  <2> QED
    BY <2>1, <2>2, <2>3, <2>4, <2>5 DEF R!Next, R!SearchNext, R!FlowNext, R!vars, R!research,
       R!Add, R!Embed
<1>3. Searching => R!BothComeFirst
  BY DEF Searching
<1> QED BY <1>1, <1>2, <1>3, PTL DEF R!Spec

-----------------------------------------------------------------------------
\* What the runs check.

(***************************************************************************)
(* For any number of executions of a task, the cancel hook never is that   *)
(* of an ended one, and an answer taken with success reached the call that *)
(* asked, however it races the timeout.                                    *)
(***************************************************************************)
THEOREM HookAlwaysHeld == A!Spec => []HookIsOpen
BY HookAlwaysOpen, AcceptedAlwaysHeard, PTL DEF HookIsOpen

(***************************************************************************)
(* No event follows the end of a stream; and a boot in the registry's      *)
(* order drops a request only for want of a registrar that failed,         *)
(* evaluates alerts on a health that is there, and never serves an         *)
(* unguarded production.                                                   *)
(***************************************************************************)
THEOREM AlwaysInOrder == A!Spec /\ T!Spec => InOrder
BY EndedStaysSilent, BootsInOrder DEF InOrder

(***************************************************************************)
(* However deliveries, replays, answers and restarts interleave, no        *)
(* message is answered twice, an answer is pushed elsewhere only when a    *)
(* reply took its handle or a restart lost it, and no user gets past the   *)
(* limit of a window.                                                      *)
(***************************************************************************)
THEOREM AnswersAlwaysFit == C!Spec => []RepliesFit
BY RepliesAlwaysFit, RateAlwaysKept, PTL DEF RepliesFit

(***************************************************************************)
(* A turn leaves the memory only into a chunk or as excused, what a write  *)
(* answered as done has written is in the file or was replaced, and the    *)
(* flow log shows of young turns how far one of them has got.              *)
(***************************************************************************)
THEOREM MemoryAlwaysKeeps == Q!Spec /\ F!Spec /\ R!Spec => []MemoryKeeps
BY NothingEverForgotten, WrittenIsAlwaysKept, AlwaysShownAsItIs, PTL DEF MemoryKeeps

(***************************************************************************)
(* A search lists what words and meaning both find before what one of them *)
(* finds, whatever is stored, embedded or lost while it waits for the      *)
(* gateway, as long as the lists are no longer than RRF_K.                 *)
(***************************************************************************)
THEOREM BothAlwaysComeFirst == R!Spec => []BothComeFirst
BY BothAlwaysFirst, PTL DEF BothComeFirst

=============================================================================
