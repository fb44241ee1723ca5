--------------------------- MODULE DmPipelineProofs ---------------------------
(***************************************************************************)
(* Safety of DmPipeline, with the dispatcher in it, for any messages,      *)
(* conversations and buckets.  A step touches the executions through       *)
(* Dispatch only, or by ending one; a cooldown is kept because what the    *)
(* sweep of the cooldown map drops is older than every window.             *)
(***************************************************************************)
EXTENDS DmPipeline, TLAPS, FiniteSetTheorems

Cooldowns ==
  /\ lastDispatchAt \in [Key -> Time \union {None}]
  /\ sinceSweep \in 0 .. SweepEvery - 1
  /\ acceptedAt \in [Key -> Time \union {None}]

Executions ==
  /\ active \subseteq Cid
  /\ running \subseteq Request
  /\ outcome \in [Msg -> SUBSET Outcome]
  /\ Cooldowns

-----------------------------------------------------------------------------
(* Types *)

LEMMA SettleTyped ==
  ASSUME NEW out \in [Msg -> SUBSET Outcome], NEW msgs, NEW how \in Outcome
  PROVE  Settle(out, msgs, how) \in [Msg -> SUBSET Outcome]
BY DEF Settle

LEMMA SweptTyped ==
  ASSUME NEW stamps \in [Key -> Time \union {None}]
  PROVE  Swept(stamps) \in [Key -> Time \union {None}]
BY DEF Swept

LEMMA RequestTyped ==
  ASSUME NEW i \in Cid, NEW k \in Key \union {None}, NEW msgs \in SUBSET Msg
  PROVE  RequestFor(i, k, msgs) \in Request
BY DEF RequestFor, Request

LEMMA StampTyped ==
  ASSUME now \in Time, Cooldowns, NEW k \in Key, Stamp(k)
  PROVE  Cooldowns'
<1> DEFINE stamps == [lastDispatchAt EXCEPT ![k] = now]
           full == sinceSweep + 1 >= SweepEvery
<1>1. stamps \in [Key -> Time \union {None}]
  BY DEF Cooldowns
<1>2. lastDispatchAt' = IF full THEN Swept(stamps) ELSE stamps
  BY DEF Stamp
<1>3. lastDispatchAt' \in [Key -> Time \union {None}]
  <2> HIDE DEF stamps, full
  <2> QED
    BY <1>1, <1>2, SweptTyped
<1>4. sinceSweep' \in 0 .. SweepEvery - 1
  BY DispatcherAssumption DEF Stamp, Cooldowns
<1>5. acceptedAt' \in [Key -> Time \union {None}]
  BY DEF Stamp, Cooldowns
<1> QED
  BY <1>3, <1>4, <1>5 DEF Cooldowns

\* What Dispatch makes of well-typed executions is well typed.
LEMMA DispatchTyped ==
  ASSUME now \in Time, Cooldowns,
         NEW r \in Request, NEW run \in SUBSET Request, NEW act \in SUBSET Cid,
         NEW out \in [Msg -> SUBSET Outcome],
         Dispatch(r, run, act, out)
  PROVE  Executions'
<1>1. r.cid \in Cid /\ r.key \in Key \union {None}
  BY DEF Request
<1>2. CASE Refuse(r, run, act, out)
  <2>1. outcome' \in [Msg -> SUBSET Outcome]
    BY <1>2, SettleTyped DEF Refuse, Outcome
  <2> QED
    BY <1>2, <2>1 DEF Refuse, Executions, Cooldowns, cooldownVars
<1>3. CASE Accept(r, run, act, out)
  <2>1. Cooldowns'
    <3>1. CASE r.key = None
      BY <1>3, <3>1 DEF Accept, Cooldowns, cooldownVars
    <3>2. CASE r.key # None
      BY <1>1, <1>3, <3>2, StampTyped DEF Accept
    <3> QED
      BY <3>1, <3>2
  <2> QED
    BY <1>1, <1>3, <2>1 DEF Accept, Executions
<1> QED
  BY <1>2, <1>3 DEF Dispatch

LEMMA EndTurnTyped ==
  ASSUME DispatcherTypeOK, NEW r \in running, NEW out \in [Msg -> SUBSET Outcome],
         EndTurn(r, out)
  PROVE  Executions' /\ mailbox' \in [Cid -> SUBSET Msg]
<1> DEFINE i == r.cid
           drained == RequestFor(i, NextKey(r.key), mailbox[i])
<1>1. r \in Request /\ i \in Cid /\ r.key \in Key \union {None}
  BY DEF DispatcherTypeOK, Request
<1>2. mailbox' \in [Cid -> SUBSET Msg]
  BY <1>1 DEF EndTurn, DispatcherTypeOK
<1>3. CASE mailbox[i] = {}
  BY <1>3 DEF EndTurn, DispatcherTypeOK, Executions, Cooldowns, cooldownVars
<1>4. CASE mailbox[i] # {}
  <2>1. NextKey(r.key) \in Key \union {None}
    BY <1>1, DispatcherAssumption DEF NextKey
  <2>2. drained \in Request
    BY <1>1, <2>1, RequestTyped DEF DispatcherTypeOK
  <2>3. Dispatch(drained, running \ {r}, active \ {i}, out)
    BY <1>4 DEF EndTurn
  <2>4. running \ {r} \in SUBSET Request /\ active \ {i} \in SUBSET Cid
    BY DEF DispatcherTypeOK
  <2>5. now \in Time /\ Cooldowns
    BY DEF DispatcherTypeOK, Cooldowns
  <2> HIDE DEF drained
  <2> QED
    BY <1>2, <2>2, <2>3, <2>4, <2>5, DispatchTyped
<1> QED
  BY <1>2, <1>3, <1>4

LEMMA PushTyped ==
  ASSUME DispatcherTypeOK, NEW i \in Cid, NEW msgs \in SUBSET Msg, Push(i, msgs)
  PROVE  mailbox' \in [Cid -> SUBSET Msg] /\ queuedAt' \in [Msg -> Time]
BY DEF Push, DispatcherTypeOK

\* A flush carries direct messages only: without it, what a failed one leaves
\* behind could be any message.
FlushesAreDms == \A f \in flushing : f.msgs \subseteq Dms

LEMMA FlushesKept ==
  ASSUME TypeOK, FlushesAreDms, [Next]_vars
  PROVE  FlushesAreDms'
<1>1. CASE UNCHANGED flushing
  BY <1>1 DEF FlushesAreDms
<1>2. ASSUME NEW i \in Cid, FlushBegins(i)
      PROVE  FlushesAreDms'
  BY <1>2 DEF FlushBegins, FlushesAreDms, RequestFor, TypeOK
<1>3. ASSUME NEW f \in flushing, FlushPublishes(f) \/ FlushFails(f)
      PROVE  FlushesAreDms'
  BY <1>3 DEF FlushPublishes, FlushFails, FlushesAreDms
<1>4. ASSUME NEW m \in Dms, DmArrives(m)
      PROVE  UNCHANGED flushing
  BY <1>4 DEF DmArrives
<1>5. ASSUME NEW i \in Cid, FlushQueues(i)
      PROVE  UNCHANGED flushing
  BY <1>5 DEF FlushQueues
<1>6. DispatcherStep \/ UNCHANGED vars => UNCHANGED flushing
  BY DEF DispatcherStep, dmVars, vars
<1> QED
  BY <1>1, <1>2, <1>3, <1>4, <1>5, <1>6 DEF Next

LEMMA TypesKept ==
  ASSUME TypeOK, FlushesAreDms, [Next]_vars
  PROVE  TypeOK'
<1> USE DEF TypeOK
<1> DEFINE Others ==
             /\ now \in Time /\ received \subseteq Msg
             /\ tracked \in [Cid -> SUBSET Msg] /\ mailbox \in [Cid -> SUBSET Msg]
             /\ queuedAt \in [Msg -> Time]
           Pipeline ==
             batch \in [Cid -> SUBSET Dms] /\ flushing \subseteq Request /\ failed \subseteq Dms
<1>1. TypeOK <=> Others /\ Executions /\ Pipeline
  BY DEF DispatcherTypeOK, Executions, Cooldowns
<1>2. TypeOK' <=> Others' /\ Executions' /\ Pipeline'
  BY DEF DispatcherTypeOK, Executions, Cooldowns
<1>3. Dms \subseteq Msg /\ CidOf \in [Msg -> Cid] /\ KeyOf \in [Msg -> Key \union {None}]
  BY DispatcherAssumption, PipelineAssumption
<1>4. UNCHANGED cooldownVars => Cooldowns'
  BY DEF cooldownVars, Cooldowns, DispatcherTypeOK
<1>5. UNCHANGED <<active, running, cooldownVars, outcome>> => Executions'
  BY <1>1, <1>4 DEF Executions
<1>6. UNCHANGED dmVars => Pipeline'
  BY DEF dmVars
<1>7. CASE UNCHANGED vars
  BY <1>1, <1>2, <1>5, <1>6, <1>7 DEF vars, dispatcherVars, dmVars
<1>8. CASE Tick /\ UNCHANGED dmVars
  <2>1. now' \in Time
    BY <1>8, DispatcherAssumption DEF Tick, Time, DispatcherTypeOK
  <2> QED
    BY <1>1, <1>2, <1>5, <1>6, <1>8, <2>1 DEF Tick
<1>9. ASSUME NEW m \in Msg \ Dms, Receive(m), UNCHANGED dmVars
      PROVE  TypeOK'
  <2> DEFINE request == RequestFor(CidOf[m], KeyOf[m], {m})
  <2>1. request \in Request
    BY <1>3, RequestTyped
  <2>2. Dispatch(request, running, active, outcome)
    BY <1>9 DEF Receive
  <2>3. Executions'
    <3> HIDE DEF request
    <3> QED
      BY <1>1, <2>1, <2>2, DispatchTyped DEF Executions
  <2>4. Others'
    BY <1>1, <1>9 DEF Receive
  <2> QED
    BY <1>2, <1>6, <1>9, <2>3, <2>4
<1>10. ASSUME NEW m \in Msg \ Dms, PostMailbox(m), UNCHANGED dmVars
       PROVE  TypeOK'
  <2>1. mailbox' \in [Cid -> SUBSET Msg] /\ queuedAt' \in [Msg -> Time]
    BY <1>3, <1>10, PushTyped DEF PostMailbox
  <2> QED
    BY <1>1, <1>2, <1>5, <1>6, <1>10, <2>1 DEF PostMailbox
<1>11. ASSUME NEW r \in running, Finish(r), UNCHANGED dmVars
       PROVE  TypeOK'
  <2>1. Settle(outcome, r.msgs, "answered") \in [Msg -> SUBSET Outcome]
    BY SettleTyped DEF Outcome, DispatcherTypeOK
  <2>2. Executions' /\ mailbox' \in [Cid -> SUBSET Msg]
    BY <1>11, <2>1, EndTurnTyped DEF Finish
  <2> QED
    BY <1>1, <1>2, <1>6, <1>11, <2>2 DEF Finish
<1>12. ASSUME NEW r \in running, HandOff(r), UNCHANGED dmVars
       PROVE  TypeOK'
  <2>0. Settle(outcome, tracked[r.cid], "replaced") \in [Msg -> SUBSET Outcome]
    BY SettleTyped DEF Outcome, DispatcherTypeOK
  <2>1. Executions' /\ mailbox' \in [Cid -> SUBSET Msg]
    BY <1>1, <1>12, <2>0, EndTurnTyped DEF HandOff, Executions
  <2>2. r.cid \in Cid /\ r.msgs \in SUBSET Msg
    BY DEF DispatcherTypeOK, Request
  <2>3. tracked' \in [Cid -> SUBSET Msg]
    BY <1>1, <1>12, <2>2 DEF HandOff
  <2> QED
    BY <1>1, <1>2, <1>6, <1>12, <2>1, <2>3 DEF HandOff
<1>13. ASSUME NEW i \in Cid, TrackerAnswers(i), UNCHANGED dmVars
       PROVE  TypeOK'
  <2>1. outcome' \in [Msg -> SUBSET Outcome]
    BY <1>13, SettleTyped DEF TrackerAnswers, Outcome, DispatcherTypeOK
  <2> QED
    BY <1>1, <1>2, <1>4, <1>6, <1>13, <2>1 DEF TrackerAnswers, Executions
<1>21. ASSUME NEW i \in Cid, ReplacedAnswers(i), UNCHANGED dmVars
       PROVE  TypeOK'
  <2>1. outcome' \in [Msg -> SUBSET Outcome] /\ tracked' \in [Cid -> SUBSET Msg]
    BY <1>1, <1>21 DEF ReplacedAnswers, Outcome, DispatcherTypeOK
  <2> QED
    BY <1>1, <1>2, <1>4, <1>6, <1>21, <2>1 DEF ReplacedAnswers, Executions
<1>14. ASSUME NEW i \in Cid, GetMailbox(i), UNCHANGED dmVars
       PROVE  TypeOK'
  <2>1. outcome' \in [Msg -> SUBSET Outcome]
    BY <1>14, SettleTyped DEF GetMailbox, Outcome, DispatcherTypeOK
  <2> QED
    BY <1>1, <1>2, <1>4, <1>6, <1>14, <2>1 DEF GetMailbox, Executions
<1>15. CASE SweepMailbox /\ UNCHANGED dmVars
  <2>1. outcome' \in [Msg -> SUBSET Outcome]
    BY <1>15, SettleTyped DEF SweepMailbox, Outcome, DispatcherTypeOK
  <2>2. mailbox' \in [Cid -> SUBSET Msg]
    BY <1>1, <1>15 DEF SweepMailbox
  <2> QED
    BY <1>1, <1>2, <1>4, <1>6, <1>15, <2>1, <2>2 DEF SweepMailbox, Executions
<1>16. ASSUME NEW m \in Dms, DmArrives(m)
       PROVE  TypeOK'
  <2>1. batch' \in [Cid -> SUBSET Dms]
    BY <1>1, <1>3, <1>16 DEF DmArrives
  <2> QED
    BY <1>1, <1>2, <1>3, <1>5, <1>16, <2>1 DEF DmArrives
<1>17. ASSUME NEW i \in Cid, FlushQueues(i)
       PROVE  TypeOK'
  <2>1. mailbox' \in [Cid -> SUBSET Msg] /\ queuedAt' \in [Msg -> Time]
    BY <1>1, <1>3, <1>17, PushTyped DEF FlushQueues
  <2>2. batch' \in [Cid -> SUBSET Dms]
    BY <1>1, <1>17 DEF FlushQueues, Flush
  <2> QED
    BY <1>1, <1>2, <1>5, <1>17, <2>1, <2>2 DEF FlushQueues
<1>18. ASSUME NEW i \in Cid, FlushBegins(i)
       PROVE  TypeOK'
  <2>1. batch' \in [Cid -> SUBSET Dms]
    BY <1>1, <1>18 DEF FlushBegins, Flush
  <2>2. RequestFor(i, None, batch[i]) \in Request
    BY <1>1, <1>3, RequestTyped
  <2>3. flushing' \subseteq Request
    BY <1>1, <1>18, <2>2 DEF FlushBegins
  <2> QED
    BY <1>1, <1>2, <1>5, <1>18, <2>1, <2>3 DEF FlushBegins, dispatcherVars
<1>19. ASSUME NEW f \in flushing, FlushPublishes(f)
       PROVE  TypeOK'
  <2>1. Executions'
    BY <1>1, <1>19, DispatchTyped DEF FlushPublishes, Executions
  <2> QED
    BY <1>1, <1>2, <1>19, <2>1 DEF FlushPublishes
<1>20. ASSUME NEW f \in flushing, FlushFails(f)
       PROVE  TypeOK'
  <2>1. f.cid \in Cid /\ f.msgs \in SUBSET Msg
    BY <1>1 DEF Request
  <2>2. mailbox' \in [Cid -> SUBSET Msg] /\ queuedAt' \in [Msg -> Time]
    BY <1>20, <2>1, PushTyped DEF FlushFails
  <2>3. failed' \subseteq Dms
    BY <1>1, <1>20 DEF FlushFails, FlushesAreDms
  <2> QED
    BY <1>1, <1>2, <1>5, <1>20, <2>2, <2>3 DEF FlushFails
<1> QED
  BY <1>7, <1>8, <1>9, <1>10, <1>11, <1>12, <1>13, <1>14, <1>15, <1>16, <1>17, <1>18, <1>19,
     <1>20, <1>21 DEF Next, DispatcherStep

LEMMA InitTyped == Init => TypeOK /\ FlushesAreDms
BY DispatcherAssumption
DEF Init, DispatcherInit, TypeOK, DispatcherTypeOK, FlushesAreDms, Time

(***************************************************************************)
(* Every reachable state of the pipeline and its dispatcher is well typed  *)
(* (TypeOK): the counter of the sweep wraps, the clock stays bounded.      *)
(***************************************************************************)
THEOREM TypeCorrect == Spec => []TypeOK
<1>1. TypeOK /\ FlushesAreDms /\ [Next]_vars => (TypeOK /\ FlushesAreDms)'
  BY TypesKept, FlushesKept
<1> QED
  BY <1>1, InitTyped, PTL DEF Spec

-----------------------------------------------------------------------------
(* Executions and who waits behind them *)

\* An entry for a conversation whose only execution the step ends is gone, or
\* is that of the execution the step begins.
LEMMA DispatchActive ==
  ASSUME NEW r, NEW run, NEW act, NEW out, Dispatch(r, run, act, out),
         \A i \in act \ {r.cid} : \E q \in run : q.cid = i
  PROVE  ActiveMeansRunning'
BY DEF Dispatch, Refuse, Accept, ActiveMeansRunning

LEMMA EndTurnActive ==
  ASSUME ActiveMeansRunning, NEW r \in running, NEW out, EndTurn(r, out)
  PROVE  ActiveMeansRunning'
<1> DEFINE drained == RequestFor(r.cid, NextKey(r.key), mailbox[r.cid])
<1>1. \A i \in active \ {r.cid} : \E q \in running \ {r} : q.cid = i
  BY DEF ActiveMeansRunning
<1>2. CASE active' = active \ {r.cid} /\ running' = running \ {r}
  BY <1>1, <1>2 DEF ActiveMeansRunning
<1>3. CASE Dispatch(drained, running \ {r}, active \ {r.cid}, out)
  <2>1. \A i \in (active \ {r.cid}) \ {drained.cid} : \E q \in running \ {r} : q.cid = i
    BY <1>1
  <2> HIDE DEF drained
  <2> QED
    BY <1>3, <2>1, DispatchActive
<1> QED
  BY <1>2, <1>3 DEF EndTurn

LEMMA ActiveKept ==
  ASSUME ActiveMeansRunning, [Next]_vars
  PROVE  ActiveMeansRunning'
<1>1. CASE UNCHANGED <<active, running>>
  BY <1>1 DEF ActiveMeansRunning
<1>2. ASSUME NEW m, Receive(m)
      PROVE  ActiveMeansRunning'
  BY <1>2, DispatchActive DEF Receive, ActiveMeansRunning
<1>3. ASSUME NEW r \in running, Finish(r) \/ HandOff(r)
      PROVE  ActiveMeansRunning'
  BY <1>3, EndTurnActive DEF Finish, HandOff
<1>4. ASSUME NEW f \in flushing, FlushPublishes(f)
      PROVE  ActiveMeansRunning'
  BY <1>4, DispatchActive DEF FlushPublishes, ActiveMeansRunning
<1>5. ASSUME NEW m, PostMailbox(m) \/ DmArrives(m)
      PROVE  UNCHANGED <<active, running>>
  BY <1>5 DEF PostMailbox, DmArrives
<1>6. ASSUME NEW i, \/ TrackerAnswers(i) \/ ReplacedAnswers(i) \/ GetMailbox(i)
                   \/ FlushQueues(i) \/ FlushBegins(i)
      PROVE  UNCHANGED <<active, running>>
  BY <1>6 DEF TrackerAnswers, ReplacedAnswers, GetMailbox, FlushQueues, FlushBegins,
              dispatcherVars
<1>7. ASSUME NEW f \in flushing, FlushFails(f)
      PROVE  UNCHANGED <<active, running>>
  BY <1>7 DEF FlushFails
<1>8. Tick \/ SweepMailbox \/ UNCHANGED vars => UNCHANGED <<active, running>>
  BY DEF Tick, SweepMailbox, vars, dispatcherVars
<1> QED
  BY <1>1, <1>2, <1>3, <1>4, <1>5, <1>6, <1>7, <1>8 DEF Next, DispatcherStep

(***************************************************************************)
(* No entry of activeExecutions outlives the executions of its             *)
(* conversation (ActiveMeansRunning), whichever of several ends first and  *)
(* whatever the dispatcher refuses in between.                             *)
(***************************************************************************)
THEOREM ActiveAlwaysRunning == Spec => []ActiveMeansRunning
<1>1. Init => ActiveMeansRunning
  BY DEF Init, DispatcherInit, ActiveMeansRunning
<1>2. ActiveMeansRunning /\ [Next]_vars => ActiveMeansRunning'
  BY ActiveKept
<1> QED
  BY <1>1, <1>2, PTL DEF Spec

\* A step that ends no execution and adds nothing to a mailbox but what may wait
\* anywhere.
LEMMA QueueKept ==
  ASSUME QueuedBehindExecution, running \subseteq running', failed \subseteq failed',
         \A i \in Cid : mailbox'[i] \subseteq mailbox[i] \union Posted \union failed'
  PROVE  QueuedBehindExecution'
BY DEF QueuedBehindExecution

LEMMA DispatchKeeps ==
  ASSUME NEW r, NEW run, NEW act, NEW out, Dispatch(r, run, act, out)
  PROVE  run \subseteq running'
BY DEF Dispatch, Refuse, Accept

\* The finally drains the mailbox of its own conversation, so that the end of
\* its execution leaves nobody waiting.
LEMMA EndTurnQueue ==
  ASSUME TypeOK, QueuedBehindExecution, NEW r \in running, NEW out, EndTurn(r, out),
         UNCHANGED failed
  PROVE  QueuedBehindExecution'
<1>1. mailbox' = [mailbox EXCEPT ![r.cid] = {}]
  BY DEF EndTurn
<1>2. running \ {r} \subseteq running'
  BY DispatchKeeps DEF EndTurn
<1>3. mailbox \in [Cid -> SUBSET Msg]
  BY DEF TypeOK, DispatcherTypeOK
<1>4. ASSUME NEW i \in Cid, mailbox'[i] \ (Posted \union failed') # {}
      PROVE  \E q \in running' : q.cid = i
  <2>1. i # r.cid /\ mailbox'[i] = mailbox[i]
    BY <1>1, <1>3, <1>4
  <2>2. PICK q \in running : q.cid = i
    BY <1>4, <2>1 DEF QueuedBehindExecution
  <2> QED
    BY <1>2, <2>1, <2>2
<1> QED
  BY <1>4 DEF QueuedBehindExecution

LEMMA QueuesKept ==
  ASSUME TypeOK, ActiveMeansRunning, QueuedBehindExecution, [Next]_vars
  PROVE  QueuedBehindExecution'
<1>1. mailbox \in [Cid -> SUBSET Msg] /\ batch \in [Cid -> SUBSET Dms]
  BY DEF TypeOK, DispatcherTypeOK
<1>2. CASE running \subseteq running' /\ UNCHANGED <<mailbox, failed>>
  BY <1>2, QueueKept
<1>3. ASSUME NEW m \in Msg, Receive(m), UNCHANGED dmVars
      PROVE  QueuedBehindExecution'
  BY <1>3, <1>2, DispatchKeeps DEF Receive, dmVars
<1>4. ASSUME NEW m \in Msg, PostMailbox(m), UNCHANGED dmVars
      PROVE  QueuedBehindExecution'
  <2>1. \A i \in Cid : mailbox'[i] \subseteq mailbox[i] \union {m}
    BY <1>1, <1>4 DEF PostMailbox, Push
  <2>2. m \in Posted
    BY <1>4 DEF PostMailbox
  <2> QED
    BY <1>4, <2>1, <2>2, QueueKept DEF PostMailbox, dmVars
<1>5. ASSUME NEW r \in running, Finish(r) \/ HandOff(r), UNCHANGED dmVars
      PROVE  QueuedBehindExecution'
  BY <1>5, EndTurnQueue DEF Finish, HandOff, dmVars
<1>6. ASSUME NEW i \in Cid, TrackerAnswers(i) \/ ReplacedAnswers(i), UNCHANGED dmVars
      PROVE  QueuedBehindExecution'
  BY <1>2, <1>6 DEF TrackerAnswers, ReplacedAnswers, dmVars
<1>7. ASSUME NEW i \in Cid, GetMailbox(i), UNCHANGED dmVars
      PROVE  QueuedBehindExecution'
  <2>1. \A j \in Cid : mailbox'[j] \subseteq mailbox[j]
    BY <1>1, <1>7 DEF GetMailbox
  <2> QED
    BY <1>7, <2>1, QueueKept DEF GetMailbox, dmVars
<1>8. CASE SweepMailbox /\ UNCHANGED dmVars
  <2>1. \A j \in Cid : mailbox'[j] \subseteq mailbox[j]
    BY <1>1, <1>8 DEF SweepMailbox
  <2> QED
    BY <1>8, <2>1, QueueKept DEF SweepMailbox, dmVars
<1>9. ASSUME NEW m \in Dms, DmArrives(m)
      PROVE  QueuedBehindExecution'
  BY <1>2, <1>9 DEF DmArrives
<1>10. ASSUME NEW i \in Cid, FlushQueues(i)
       PROVE  QueuedBehindExecution'
  <2>1. \A j \in Cid \ {i} : mailbox'[j] = mailbox[j]
    BY <1>1, <1>10 DEF FlushQueues, Push
  <2>2. \E q \in running : q.cid = i
    BY <1>10 DEF FlushQueues, ActiveMeansRunning
  <2>3. UNCHANGED <<running, failed>>
    BY <1>10 DEF FlushQueues
  <2> QED
    BY <2>1, <2>2, <2>3 DEF QueuedBehindExecution
<1>11. ASSUME NEW i \in Cid, FlushBegins(i)
       PROVE  QueuedBehindExecution'
  BY <1>2, <1>11 DEF FlushBegins, dispatcherVars
<1>12. ASSUME NEW f \in flushing, FlushPublishes(f)
       PROVE  QueuedBehindExecution'
  BY <1>2, <1>12, DispatchKeeps DEF FlushPublishes
<1>13. ASSUME NEW f \in flushing, FlushFails(f)
       PROVE  QueuedBehindExecution'
  <2>1. \A i \in Cid : mailbox'[i] \subseteq mailbox[i] \union f.msgs
    BY <1>1, <1>13 DEF FlushFails, Push
  <2>2. failed' = failed \union f.msgs /\ UNCHANGED running
    BY <1>13 DEF FlushFails
  <2> QED
    BY <2>1, <2>2, QueueKept
<1>14. CASE (Tick /\ UNCHANGED dmVars) \/ UNCHANGED vars
  BY <1>2, <1>14 DEF Tick, vars, dispatcherVars, dmVars
<1> QED
  BY <1>3, <1>4, <1>5, <1>6, <1>7, <1>8, <1>9, <1>10, <1>11, <1>12, <1>13, <1>14
  DEF Next, DispatcherStep

(***************************************************************************)
(* What the process queued itself waits behind an execution that drains it *)
(* (QueuedBehindExecution), however many executions a conversation has and *)
(* in whichever order they end.                                            *)
(***************************************************************************)
THEOREM QueuedAlwaysBehind == Spec => []QueuedBehindExecution
<1> DEFINE Inv == TypeOK /\ FlushesAreDms /\ ActiveMeansRunning /\ QueuedBehindExecution
<1>1. Init => Inv
  BY InitTyped DEF Init, DispatcherInit, ActiveMeansRunning, QueuedBehindExecution
<1>2. Inv /\ [Next]_vars => Inv'
  BY TypesKept, FlushesKept, ActiveKept, QueuesKept
<1> QED
  BY <1>1, <1>2, PTL DEF Spec

-----------------------------------------------------------------------------
(* Cooldowns *)

\* The map holds every stamp that still cools its bucket.
StampsHeld ==
  \A k \in Key :
    Within(acceptedAt[k], Cooldown[k]) => lastDispatchAt[k] = acceptedAt[k]

\* Of the buckets whose windows are no longer than the age at which the sweep
\* drops a stamp, which holds for the default windows.
LEMMA StampHeld ==
  ASSUME TypeOK, StampsHeld, \A k \in Key : Cooldown[k] <= SweepAge,
         NEW k \in Key, Stamp(k), UNCHANGED now
  PROVE  StampsHeld'
<1> DEFINE stamps == [lastDispatchAt EXCEPT ![k] = now]
<1>1. now \in Nat /\ now # None
  BY DispatcherAssumption DEF TypeOK, DispatcherTypeOK, Time
<1>2. /\ lastDispatchAt \in [Key -> Time \union {None}]
      /\ acceptedAt \in [Key -> Time \union {None}]
  BY DEF TypeOK, DispatcherTypeOK
<1>3. acceptedAt' = [acceptedAt EXCEPT ![k] = now]
  BY DEF Stamp
<1>4. lastDispatchAt' \in {stamps, Swept(stamps)}
  BY DEF Stamp
<1>5. ASSUME NEW j \in Key, Within(acceptedAt'[j], Cooldown[j])
      PROVE  lastDispatchAt'[j] = acceptedAt'[j]
  <2>1. stamps[j] = acceptedAt'[j]
    BY <1>2, <1>3, <1>5 DEF StampsHeld
  <2>2. acceptedAt'[j] \in Nat /\ Cooldown[j] \in Nat /\ SweepAge \in Nat
    <3>1. acceptedAt'[j] \in (0 .. MaxTime) \union {None}
      BY <1>2, <1>3 DEF Time, TypeOK, DispatcherTypeOK
    <3>2. acceptedAt'[j] # None
      BY <1>5 DEF Within
    <3>3. 0 .. MaxTime \subseteq Nat
      BY DispatcherAssumption
    <3> QED
      BY <3>1, <3>2, <3>3, DispatcherAssumption
  <2>3. Within(stamps[j], SweepAge)
    BY <1>1, <1>5, <2>1, <2>2 DEF Within
  <2>4. Swept(stamps)[j] = stamps[j]
    BY <2>3 DEF Swept
  <2> QED
    BY <1>4, <2>1, <2>4
<1> QED
  BY <1>5 DEF StampsHeld, Within

LEMMA DispatchHeld ==
  ASSUME TypeOK, StampsHeld, \A k \in Key : Cooldown[k] <= SweepAge,
         NEW r \in Request, NEW run, NEW act, NEW out, Dispatch(r, run, act, out),
         UNCHANGED now
  PROVE  StampsHeld'
<1>1. CASE UNCHANGED cooldownVars
  BY <1>1 DEF cooldownVars, StampsHeld, Within
<1>2. CASE r.key # None /\ Stamp(r.key)
  <2>1. r.key \in Key
    BY <1>2 DEF Request
  <2> QED
    BY <1>2, <2>1, StampHeld
<1> QED
  BY <1>1, <1>2 DEF Dispatch, Refuse, Accept

\* What Dispatch lets through is not cooling.
LEMMA DispatchCool ==
  ASSUME StampsHeld, NEW r \in Request, NEW run, NEW act, NEW out, Dispatch(r, run, act, out)
  PROVE  \A q \in running' \ run :
           q.key # None => ~Within(acceptedAt[q.key], Cooldown[q.key])
<1>1. SUFFICES ASSUME NEW q \in running' \ run, q.key # None
               PROVE  ~Within(acceptedAt[q.key], Cooldown[q.key])
  OBVIOUS
<1>2. q = r /\ ~Cooling(r.key)
  BY <1>1 DEF Dispatch, Refuse, Accept
<1>3. r.key \in Key
  BY <1>1, <1>2 DEF Request
<1> QED
  BY <1>1, <1>2, <1>3 DEF Cooling, StampsHeld

\* The drained turn is a request of its own, in the bucket without a target.
LEMMA EndTurnCool ==
  ASSUME TypeOK, StampsHeld, \A k \in Key : Cooldown[k] <= SweepAge,
         NEW r \in running, NEW out, EndTurn(r, out), UNCHANGED now
  PROVE  /\ StampsHeld'
         /\ \A q \in running' \ running :
              q.key # None => ~Within(acceptedAt[q.key], Cooldown[q.key])
<1> DEFINE drained == RequestFor(r.cid, NextKey(r.key), mailbox[r.cid])
           run == running \ {r}
           act == active \ {r.cid}
<1>1. CASE running' = run /\ UNCHANGED cooldownVars
  BY <1>1 DEF cooldownVars, StampsHeld, Within
<1>2. CASE Dispatch(drained, run, act, out)
  <2>1. r \in Request /\ r.cid \in Cid /\ r.key \in Key \union {None}
    BY DEF TypeOK, DispatcherTypeOK, Request
  <2>2. NextKey(r.key) \in Key \union {None}
    BY <2>1, DispatcherAssumption DEF NextKey
  <2>3. drained \in Request
    BY <2>1, <2>2, RequestTyped DEF TypeOK, DispatcherTypeOK
  <2> HIDE DEF drained, run, act
  <2>4. StampsHeld'
    BY <1>2, <2>3, DispatchHeld
  <2>5. \A q \in running' \ run : q.key # None => ~Within(acceptedAt[q.key], Cooldown[q.key])
    BY <1>2, <2>3, DispatchCool
  <2> QED
    BY <2>4, <2>5 DEF run
<1> QED
  BY <1>1, <1>2 DEF EndTurn

LEMMA CooldownsKept ==
  ASSUME TypeOK, StampsHeld, \A k \in Key : Cooldown[k] <= SweepAge, [Next]_vars
  PROVE  /\ StampsHeld'
         /\ \A q \in running' \ running :
              q.key # None => ~Within(acceptedAt[q.key], Cooldown[q.key])
<1> DEFINE Cool == \A q \in running' \ running :
                     q.key # None => ~Within(acceptedAt[q.key], Cooldown[q.key])
<1>1. CASE UNCHANGED <<now, running, cooldownVars>>
  BY <1>1 DEF cooldownVars, StampsHeld, Within
<1>2. CASE Tick
  <2>1. now \in Nat /\ now' = now + 1 /\ UNCHANGED <<running, lastDispatchAt, acceptedAt>>
    BY <1>2, DispatcherAssumption DEF Tick, cooldownVars, TypeOK, DispatcherTypeOK, Time
  <2>2. ASSUME NEW k \in Key, Within(acceptedAt[k], Cooldown[k])'
        PROVE  Within(acceptedAt[k], Cooldown[k])
    <3>1. acceptedAt[k] # None /\ now' < acceptedAt[k] + Cooldown[k]
      BY <2>1, <2>2 DEF Within
    <3>2. acceptedAt[k] \in (0 .. MaxTime) \union {None} /\ 0 .. MaxTime \subseteq Nat
      BY DispatcherAssumption DEF TypeOK, DispatcherTypeOK, Time
    <3>3. acceptedAt[k] \in Nat /\ Cooldown[k] \in Nat
      BY <3>1, <3>2, DispatcherAssumption
    <3> QED
      BY <2>1, <3>1, <3>3 DEF Within
  <2> QED
    BY <2>1, <2>2 DEF StampsHeld
<1>3. ASSUME NEW m \in Msg, Receive(m)
      PROVE  StampsHeld' /\ Cool
  <2> DEFINE request == RequestFor(CidOf[m], KeyOf[m], {m})
  <2>1. request \in Request
    BY DispatcherAssumption, RequestTyped
  <2>2. Dispatch(request, running, active, outcome) /\ UNCHANGED now
    BY <1>3 DEF Receive
  <2> HIDE DEF request
  <2> QED
    BY <2>1, <2>2, DispatchHeld, DispatchCool
<1>4. ASSUME NEW r \in running, Finish(r) \/ HandOff(r)
      PROVE  StampsHeld' /\ Cool
  BY <1>4, EndTurnCool DEF Finish, HandOff
<1>5. ASSUME NEW f \in flushing, FlushPublishes(f)
      PROVE  StampsHeld' /\ Cool
  <2>1. f \in Request /\ Dispatch(f, running, active, outcome) /\ UNCHANGED now
    BY <1>5 DEF FlushPublishes, TypeOK
  <2> QED
    BY <2>1, DispatchHeld, DispatchCool
<1>6. ASSUME NEW m, PostMailbox(m) \/ DmArrives(m)
      PROVE  UNCHANGED <<now, running, cooldownVars>>
  BY <1>6 DEF PostMailbox, DmArrives
<1>7. ASSUME NEW i, \/ TrackerAnswers(i) \/ ReplacedAnswers(i) \/ GetMailbox(i)
                   \/ FlushQueues(i) \/ FlushBegins(i)
      PROVE  UNCHANGED <<now, running, cooldownVars>>
  BY <1>7 DEF TrackerAnswers, ReplacedAnswers, GetMailbox, FlushQueues, FlushBegins,
              dispatcherVars
<1>8. ASSUME NEW f, FlushFails(f)
      PROVE  UNCHANGED <<now, running, cooldownVars>>
  BY <1>8 DEF FlushFails
<1>9. SweepMailbox \/ UNCHANGED vars => UNCHANGED <<now, running, cooldownVars>>
  BY DEF SweepMailbox, vars, dispatcherVars
<1> QED
  BY <1>1, <1>2, <1>3, <1>4, <1>5, <1>6, <1>7, <1>8, <1>9 DEF Next, DispatcherStep, Tick

(***************************************************************************)
(* No bucket lets two requests through within its window                   *)
(* (CooldownRespected), if no window is longer than the age at which the   *)
(* sweep of the map drops a stamp, as it does of all those it drops.       *)
(***************************************************************************)
THEOREM CooldownsRespected ==
  ASSUME \A k \in Key : Cooldown[k] <= SweepAge
  PROVE  Spec => CooldownRespected
<1> DEFINE Inv == TypeOK /\ FlushesAreDms /\ StampsHeld
           Cool == \A r \in running' \ running :
                     r.key # None => ~Within(acceptedAt[r.key], Cooldown[r.key])
<1>1. Init => Inv
  BY InitTyped DEF Init, DispatcherInit, StampsHeld, Within
<1>2. Inv /\ [Next]_vars => Inv'
  BY TypesKept, FlushesKept, CooldownsKept
<1>3. Inv /\ [Next]_vars => [Cool]_dispatcherVars
  BY CooldownsKept
<1> QED
  BY <1>1, <1>2, <1>3, PTL DEF Spec, CooldownRespected

-----------------------------------------------------------------------------
(***************************************************************************)
(* No message of the pipeline is lost or doubled, for any messages and     *)
(* conversations, but by one turn replacing another in the tracker, which  *)
(* keeps one of each correlation id; what is replaced is counted so.       *)
(*                                                                         *)
(* Of the six kinds of place a received message is in exactly one          *)
(* (OneKind), and once in that one (Once); both need to know that whatever *)
(* is kept under a correlation id belongs to it (Filing).                  *)
(***************************************************************************)

InRunning(m) == \E r \in running : m \in r.msgs
InFlushing(m) == \E f \in flushing : m \in f.msgs
InTracked(m) == m \in tracked[CidOf[m]]
InMailbox(m) == m \in mailbox[CidOf[m]]
InBatch(m) == m \in batch[CidOf[m]]
Ended(m) == outcome[m] # {}

Filing ==
  /\ \A i \in Cid : \A m \in tracked[i] \union mailbox[i] \union batch[i] : CidOf[m] = i
  /\ \A r \in running \union flushing : r.msgs # {} /\ \A m \in r.msgs : CidOf[m] = r.cid

Apart(requests) == \A r, q \in requests : \A m \in r.msgs \intersect q.msgs : r = q

Once ==
  /\ Apart(running) /\ Apart(flushing)
  /\ \A m \in Msg : \A o, p \in outcome[m] : o = p

OneKind(m) ==
  /\ InRunning(m) \/ InFlushing(m) \/ InTracked(m) \/ InMailbox(m) \/ InBatch(m) \/ Ended(m)
  /\ InRunning(m) => ~InFlushing(m) /\ ~InTracked(m) /\ ~InMailbox(m) /\ ~InBatch(m) /\ ~Ended(m)
  /\ InFlushing(m) => ~InTracked(m) /\ ~InMailbox(m) /\ ~InBatch(m) /\ ~Ended(m)
  /\ InTracked(m) => ~InMailbox(m) /\ ~InBatch(m) /\ ~Ended(m)
  /\ InMailbox(m) => ~InBatch(m) /\ ~Ended(m)
  /\ InBatch(m) => ~Ended(m)

Nowhere(m) ==
  /\ ~InRunning(m) /\ ~InFlushing(m) /\ ~InTracked(m) /\ ~InMailbox(m) /\ ~InBatch(m)
  /\ ~Ended(m)

Placed == \A m \in Msg : IF m \in received THEN OneKind(m) ELSE Nowhere(m)

Located == TypeOK /\ FlushesAreDms /\ Filing /\ Once /\ Placed

-----------------------------------------------------------------------------
(* What the dispatcher does to a message. *)

LEMMA DispatchMoves ==
  ASSUME NEW r \in Request, NEW run \in SUBSET Request, NEW act,
         NEW out \in [Msg -> SUBSET Outcome],
         Dispatch(r, run, act, out),
         Apart(run), \A m \in Msg : \A o, p \in out[m] : o = p,
         \A m \in r.msgs : out[m] = {} /\ \A q \in run : m \notin q.msgs
  PROVE  /\ Apart(running') /\ running' \subseteq run \union {r}
         /\ \A m \in Msg : \A o, p \in outcome'[m] : o = p
         /\ \A m \in Msg \ r.msgs : /\ outcome'[m] = out[m]
                                    /\ InRunning(m)' <=> \E q \in run : m \in q.msgs
         /\ \A m \in r.msgs : InRunning(m)' <=> outcome'[m] = {}
<1>0. r.msgs \subseteq Msg
  BY DEF Request
<1>1. CASE Refuse(r, run, act, out)
  <2>1. running' = run /\ outcome' = Settle(out, r.msgs, "refused")
    BY <1>1 DEF Refuse
  <2>2. \A m \in Msg : outcome'[m] = IF m \in r.msgs THEN {"refused"} ELSE out[m]
    BY <2>1 DEF Settle
  <2> QED
    BY <1>0, <2>1, <2>2 DEF InRunning
<1>2. CASE Accept(r, run, act, out)
  <2>1. running' = run \union {r} /\ outcome' = out
    BY <1>2 DEF Accept
  <2>2. Apart(running')
    BY <2>1 DEF Apart
  <2>3. \A m \in Msg \ r.msgs : InRunning(m)' <=> \E q \in run : m \in q.msgs
    BY <2>1 DEF InRunning
  <2>4. \A m \in r.msgs : InRunning(m)'
    BY <2>1 DEF InRunning
  <2> QED
    BY <1>0, <2>1, <2>2, <2>3, <2>4
<1> QED
  BY <1>1, <1>2 DEF Dispatch

\* The end of a turn: its messages leave, those of the mailbox are dispatched.
LEMMA EndTurnMoves ==
  ASSUME Located, NEW r \in running, NEW out \in [Msg -> SUBSET Outcome],
         EndTurn(r, out),
         \A m \in Msg \ r.msgs : out[m] = outcome[m] \/ InTracked(m),
         \A m \in Msg : \A o, p \in out[m] : o = p
  PROVE  /\ Apart(running')
         /\ \A q \in running' : \/ q \in running
                                \/ /\ q.cid = r.cid
                                   /\ q.msgs = mailbox[r.cid] /\ q.msgs # {}
         /\ \A m \in Msg : \A o, p \in outcome'[m] : o = p
         /\ \A i \in Cid : mailbox'[i] = IF i = r.cid THEN {} ELSE mailbox[i]
         /\ \A m \in mailbox[r.cid] : InRunning(m)' <=> outcome'[m] = {}
         /\ \A m \in r.msgs : ~InRunning(m)' /\ outcome'[m] = out[m]
         /\ \A m \in Msg \ (r.msgs \union mailbox[r.cid]) :
              outcome'[m] = out[m] /\ (InRunning(m)' <=> InRunning(m))
<1> DEFINE i == r.cid
           drained == RequestFor(i, NextKey(r.key), mailbox[i])
           run == running \ {r}
<1>1. /\ r \in Request /\ i \in Cid /\ r.key \in Key \union {None} /\ r.msgs \subseteq Msg
      /\ running \in SUBSET Request /\ mailbox \in [Cid -> SUBSET Msg]
  BY DEF Located, TypeOK, DispatcherTypeOK, Request
<1>2. mailbox' = [mailbox EXCEPT ![i] = {}]
  BY DEF EndTurn
<1>3. Apart(run) /\ \A m \in Msg : \A o, p \in out[m] : o = p
  BY <1>1 DEF Located, Once, Apart
<1>4. \A m \in r.msgs : \A q \in run : m \notin q.msgs
  BY DEF Located, Once, Apart
<1>5. \A m \in mailbox[i] : m \in Msg /\ InMailbox(m) /\ m \in received
  BY <1>1 DEF Located, Filing, InMailbox, Placed, Nowhere
<1>6. \A m \in mailbox[i] :
        m \notin r.msgs /\ outcome[m] = {} /\ ~InRunning(m) /\ ~InTracked(m)
  BY <1>5 DEF Located, Placed, OneKind, Ended, InRunning
<1>7. \A m \in mailbox[i] : out[m] = {} /\ \A q \in run : m \notin q.msgs
  BY <1>5, <1>6 DEF InRunning
<1>8. \A m \in Msg \ r.msgs : (\E q \in run : m \in q.msgs) <=> InRunning(m)
  BY DEF InRunning
<1>9. CASE mailbox[i] = {}
  <2>1. running' = run /\ outcome' = out
    BY <1>9 DEF EndTurn
  <2> QED
    BY <1>1, <1>2, <1>3, <1>4, <1>8, <1>9, <2>1 DEF InRunning
<1>10. CASE mailbox[i] # {}
  <2>1. NextKey(r.key) \in Key \union {None}
    BY <1>1, DispatcherAssumption DEF NextKey
  <2>2. drained \in Request /\ drained.cid = i /\ drained.msgs = mailbox[i]
    BY <1>1, <2>1, RequestTyped DEF RequestFor
  <2>3. Dispatch(drained, run, active \ {i}, out)
    BY <1>10 DEF EndTurn
  <2>4. run \in SUBSET Request
    BY <1>1
  <2> HIDE DEF drained
  <2>5. /\ Apart(running') /\ running' \subseteq run \union {drained}
        /\ \A m \in Msg : \A o, p \in outcome'[m] : o = p
        /\ \A m \in Msg \ mailbox[i] : /\ outcome'[m] = out[m]
                                       /\ InRunning(m)' <=> \E q \in run : m \in q.msgs
        /\ \A m \in mailbox[i] : InRunning(m)' <=> outcome'[m] = {}
    <3> HIDE DEF run
    <3> QED
      BY <1>3, <1>7, <2>2, <2>3, <2>4, DispatchMoves
  <2>6. \A m \in r.msgs : ~InRunning(m)' /\ outcome'[m] = out[m]
    BY <1>1, <1>4, <1>6, <2>5
  <2>7. \A m \in Msg \ (r.msgs \union mailbox[i]) :
          outcome'[m] = out[m] /\ (InRunning(m)' <=> InRunning(m))
    BY <1>8, <2>5
  <2> QED
    BY <1>1, <1>2, <1>10, <2>2, <2>5, <2>6, <2>7
<1> QED
  BY <1>9, <1>10

-----------------------------------------------------------------------------
(* Every step keeps Filing, Once and Placed. *)

LEMMA InitLocated == Init => Located
<1> SUFFICES ASSUME Init PROVE Located
  OBVIOUS
<1>1. TypeOK /\ FlushesAreDms
  BY InitTyped
<1>2. Filing /\ Once
  BY DEF Init, DispatcherInit, Filing, Once, Apart
<1>3. \A m \in Msg : m \notin received /\ CidOf[m] \in Cid
  BY DispatcherAssumption DEF Init, DispatcherInit
<1>4. \A m \in Msg : Nowhere(m)
  BY <1>3 DEF Init, DispatcherInit, Nowhere, InRunning, InFlushing, InTracked, InMailbox,
              InBatch, Ended
<1> QED
  BY <1>1, <1>2, <1>3, <1>4 DEF Located, Placed

\* A message that comes in.
LEMMA ArrivalsLocated ==
  ASSUME Located, NEW n \in Msg,
         \/ Receive(n) /\ UNCHANGED dmVars
         \/ PostMailbox(n) /\ UNCHANGED dmVars
         \/ n \in Dms /\ DmArrives(n)
  PROVE  Filing' /\ Once' /\ Placed'
<1>1. /\ CidOf[n] \in Cid /\ KeyOf[n] \in Key \union {None} /\ \A m \in Msg : CidOf[m] \in Cid
      /\ running \in SUBSET Request /\ outcome \in [Msg -> SUBSET Outcome]
      /\ mailbox \in [Cid -> SUBSET Msg] /\ batch \in [Cid -> SUBSET Dms]
      /\ flushing \subseteq Request
  BY DispatcherAssumption DEF Located, TypeOK, DispatcherTypeOK
<1>2. n \notin received /\ received' = received \union {n} /\ Nowhere(n)
  BY DEF Receive, PostMailbox, DmArrives, Located, Placed
<1>3. CASE Receive(n) /\ UNCHANGED dmVars
  <2> DEFINE r == RequestFor(CidOf[n], KeyOf[n], {n})
  <2>1. r \in Request /\ r.msgs = {n} /\ r.cid = CidOf[n]
    BY <1>1, RequestTyped DEF RequestFor
  <2>2. Dispatch(r, running, active, outcome)
    BY <1>3 DEF Receive
  <2>3. \A m \in r.msgs : outcome[m] = {} /\ \A q \in running : m \notin q.msgs
    BY <1>2, <2>1 DEF Nowhere, Ended, InRunning
  <2>4. Apart(running) /\ \A m \in Msg : \A o, p \in outcome[m] : o = p
    BY DEF Located, Once
  <2>5. UNCHANGED <<tracked, mailbox, batch, flushing>>
    BY <1>3 DEF Receive, dmVars
  <2> HIDE DEF r
  <2>6. /\ Apart(running') /\ running' \subseteq running \union {r}
        /\ \A m \in Msg : \A o, p \in outcome'[m] : o = p
        /\ \A m \in Msg \ r.msgs : /\ outcome'[m] = outcome[m]
                                   /\ InRunning(m)' <=> \E q \in running : m \in q.msgs
        /\ \A m \in r.msgs : InRunning(m)' <=> outcome'[m] = {}
    BY <1>1, <2>1, <2>2, <2>3, <2>4, DispatchMoves
  <2>7. Filing'
    BY <2>1, <2>5, <2>6 DEF Located, Filing
  <2>8. Once'
    BY <2>5, <2>6 DEF Located, Once
  <2>9. OneKind(n)'
    BY <1>2, <2>1, <2>5, <2>6
    DEF Nowhere, OneKind, InFlushing, InTracked, InMailbox, InBatch, Ended
  <2>10. ASSUME NEW m \in Msg, m # n
         PROVE  (OneKind(m)' <=> OneKind(m)) /\ (Nowhere(m)' <=> Nowhere(m))
    <3>1. (InRunning(m)' <=> InRunning(m)) /\ outcome'[m] = outcome[m]
      BY <2>1, <2>6, <2>10 DEF InRunning
    <3> QED
      BY <2>5, <3>1 DEF OneKind, Nowhere, InFlushing, InTracked, InMailbox, InBatch, Ended
  <2>11. Placed'
    BY <1>2, <2>9, <2>10 DEF Located, Placed
  <2> QED
    BY <2>7, <2>8, <2>11
<1>4. CASE PostMailbox(n) /\ UNCHANGED dmVars
  <2>1. /\ mailbox' = [mailbox EXCEPT ![CidOf[n]] = @ \union {n}]
        /\ UNCHANGED <<running, tracked, outcome, batch, flushing>>
    BY <1>4 DEF PostMailbox, Push, dmVars
  <2>2. \A i \in Cid : mailbox'[i] = IF i = CidOf[n] THEN mailbox[i] \union {n} ELSE mailbox[i]
    BY <1>1, <2>1
  <2>3. Filing'
    BY <2>1, <2>2 DEF Located, Filing
  <2>4. Once'
    BY <2>1 DEF Located, Once
  <2>5. \A m \in Msg : InMailbox(m)' <=> m = n \/ InMailbox(m)
    BY <1>1, <2>2 DEF InMailbox
  <2>6. Placed'
    BY <1>2, <2>1, <2>5
    DEF Located, Placed, Nowhere, OneKind, InRunning, InFlushing, InTracked, InBatch, Ended
  <2> QED
    BY <2>3, <2>4, <2>6
<1>5. CASE n \in Dms /\ DmArrives(n)
  <2>1. /\ batch' = [batch EXCEPT ![CidOf[n]] = @ \union {n}]
        /\ UNCHANGED <<running, tracked, mailbox, outcome, flushing>>
    BY <1>5 DEF DmArrives
  <2>2. \A i \in Cid : batch'[i] = IF i = CidOf[n] THEN batch[i] \union {n} ELSE batch[i]
    BY <1>1, <2>1
  <2>3. Filing'
    BY <2>1, <2>2 DEF Located, Filing
  <2>4. Once'
    BY <2>1 DEF Located, Once
  <2>5. \A m \in Msg : InBatch(m)' <=> m = n \/ InBatch(m)
    BY <1>1, <2>2 DEF InBatch
  <2>6. Placed'
    BY <1>2, <2>1, <2>5
    DEF Located, Placed, Nowhere, OneKind, InRunning, InFlushing, InTracked, InMailbox, Ended
  <2> QED
    BY <2>3, <2>4, <2>6
<1> QED
  BY <1>3, <1>4, <1>5

-----------------------------------------------------------------------------
(* The end of a turn *)

\* Its messages go where `out` or the tracker says; those that waited for it are
\* taken or refused; the others stay.
LEMMA TurnLocated ==
  ASSUME Located, NEW r \in running, NEW out \in [Msg -> SUBSET Outcome],
         EndTurn(r, out), UNCHANGED <<received, batch, flushing>>,
         \A m \in Msg \ r.msgs : \/ out[m] = outcome[m] /\ (InTracked(m)' <=> InTracked(m))
                                 \/ out[m] = {"replaced"} /\ InTracked(m) /\ ~InTracked(m)',
         \A m \in r.msgs : \/ out[m] = {"answered"} /\ ~InTracked(m)'
                           \/ out[m] = {} /\ InTracked(m)',
         \A i \in Cid : tracked'[i] \in {tracked[i], {}} \union
                                        {q.msgs : q \in {p \in running : p.cid = i}}
  PROVE  Filing' /\ Once' /\ Placed'
<1>1. /\ r \in Request /\ r.cid \in Cid /\ r.msgs \subseteq Msg
      /\ \A m \in Msg : CidOf[m] \in Cid
      /\ mailbox \in [Cid -> SUBSET Msg] /\ mailbox[r.cid] \subseteq Msg
  BY DispatcherAssumption DEF Located, TypeOK, DispatcherTypeOK, Request
<1>2. /\ Apart(running')
      /\ \A q \in running' : \/ q \in running
                             \/ /\ q.cid = r.cid
                                /\ q.msgs = mailbox[r.cid] /\ q.msgs # {}
      /\ \A m \in Msg : \A o, p \in outcome'[m] : o = p
      /\ \A i \in Cid : mailbox'[i] = IF i = r.cid THEN {} ELSE mailbox[i]
      /\ \A m \in mailbox[r.cid] : InRunning(m)' <=> outcome'[m] = {}
      /\ \A m \in r.msgs : ~InRunning(m)' /\ outcome'[m] = out[m]
      /\ \A m \in Msg \ (r.msgs \union mailbox[r.cid]) :
           outcome'[m] = out[m] /\ (InRunning(m)' <=> InRunning(m))
  <2>1. \A m \in Msg \ r.msgs : out[m] = outcome[m] \/ InTracked(m)
    OBVIOUS
  <2>2. \A m \in Msg : \A o, p \in out[m] : o = p
    BY DEF Located, Once
  <2> QED
    BY <2>1, <2>2, EndTurnMoves
<1>3. Filing'
  <2>1. \A i \in Cid : \A m \in tracked'[i] \union mailbox'[i] \union batch'[i] : CidOf[m] = i
    BY <1>2 DEF Located, Filing
  <2>2. \A q \in running' \union flushing' :
          q.msgs # {} /\ \A m \in q.msgs : CidOf[m] = q.cid
    BY <1>1, <1>2 DEF Located, Filing
  <2> QED
    BY <2>1, <2>2 DEF Filing
<1>4. Once'
  BY <1>2 DEF Located, Once
<1>5. \A m \in Msg : InBatch(m)' = InBatch(m) /\ InFlushing(m)' = InFlushing(m)
  BY DEF InBatch, InFlushing
<1>6. \A m \in Msg : InMailbox(m) => m \in received
  BY DEF Located, Placed, Nowhere
<1>7. ASSUME NEW m \in r.msgs
      PROVE  m \in received /\ OneKind(m)'
  <2>1. m \in Msg /\ InRunning(m)
    BY <1>1 DEF InRunning
  <2>2. m \in received /\ OneKind(m)
    BY <2>1 DEF Located, Placed, Nowhere
  <2>3. ~InMailbox(m)'
    BY <1>1, <1>2, <2>1, <2>2 DEF OneKind, InMailbox
  <2> QED
    BY <1>2, <1>5, <1>7, <2>1, <2>2, <2>3 DEF OneKind, Ended
<1>8. ASSUME NEW m \in mailbox[r.cid]
      PROVE  m \in received /\ OneKind(m)'
  <2>1. m \in Msg /\ CidOf[m] = r.cid /\ InMailbox(m)
    BY <1>1 DEF Located, Filing, InMailbox
  <2>2. m \in received /\ OneKind(m)
    BY <1>6, <2>1 DEF Located, Placed
  <2>3. m \notin r.msgs
    BY <2>1, <2>2 DEF OneKind, InRunning
  <2>4. ~InMailbox(m)'
    BY <1>1, <1>2, <2>1 DEF InMailbox
  <2>5. InRunning(m)' <=> ~Ended(m)'
    BY <1>2 DEF Ended
  <2>6. ~InTracked(m)' /\ ~InBatch(m)' /\ ~InFlushing(m)'
    BY <1>5, <2>1, <2>2, <2>3 DEF OneKind
  <2> QED
    BY <2>2, <2>4, <2>5, <2>6 DEF OneKind
<1>9. ASSUME NEW m \in Msg \ (r.msgs \union mailbox[r.cid])
      PROVE  IF m \in received THEN OneKind(m)' ELSE Nowhere(m)'
  <2>0. IF m \in received THEN OneKind(m) ELSE Nowhere(m)
    BY DEF Located, Placed
  <2>1. InMailbox(m)' <=> InMailbox(m)
    BY <1>1, <1>2 DEF InMailbox
  <2>2. outcome'[m] = out[m] /\ (InRunning(m)' <=> InRunning(m))
    BY <1>2
  <2>3. CASE out[m] = outcome[m] /\ (InTracked(m)' <=> InTracked(m))
    BY <1>5, <2>0, <2>1, <2>2, <2>3 DEF OneKind, Nowhere, Ended
  <2>4. CASE out[m] = {"replaced"} /\ InTracked(m) /\ ~InTracked(m)'
    <3>1. m \in received /\ OneKind(m)
      BY <2>0, <2>4 DEF Nowhere
    <3> QED
      BY <1>5, <2>1, <2>2, <2>4, <3>1 DEF OneKind, Ended
  <2> QED
    BY <2>3, <2>4
<1>10. Placed'
  BY <1>7, <1>8, <1>9 DEF Placed
<1> QED
  BY <1>3, <1>4, <1>10

LEMMA FinishLocated ==
  ASSUME Located, NEW r \in running, Finish(r), UNCHANGED dmVars
  PROVE  Filing' /\ Once' /\ Placed'
<1> DEFINE out == Settle(outcome, r.msgs, "answered")
<1>1. outcome \in [Msg -> SUBSET Outcome] /\ r.msgs \subseteq Msg
  BY DEF Located, TypeOK, DispatcherTypeOK, Request
<1>2. out \in [Msg -> SUBSET Outcome]
  BY <1>1, SettleTyped DEF Outcome
<1>3. EndTurn(r, out) /\ UNCHANGED <<received, tracked, batch, flushing>>
  BY DEF Finish, dmVars
<1>4. \A m \in Msg : out[m] = IF m \in r.msgs THEN outcome[m] \union {"answered"}
                                            ELSE outcome[m]
  BY DEF Settle
<1>5. \A m \in Msg : InTracked(m)' <=> InTracked(m)
  BY <1>3 DEF InTracked
<1>6. \A m \in r.msgs : outcome[m] = {} /\ ~InTracked(m)
  BY <1>1 DEF Located, Placed, OneKind, Nowhere, InRunning, Ended
<1>7. \A m \in r.msgs : out[m] = {"answered"} /\ ~InTracked(m)'
  BY <1>1, <1>4, <1>5, <1>6
<1>8. \A m \in Msg \ r.msgs : out[m] = outcome[m]
  BY <1>4
<1> HIDE DEF out
<1> QED
  BY <1>2, <1>3, <1>5, <1>7, <1>8, TurnLocated

\* The tracker keeps one turn of each correlation id: those of the turn it had
\* are replaced.
LEMMA HandOffLocated ==
  ASSUME Located, NEW r \in running, HandOff(r), UNCHANGED dmVars
  PROVE  Filing' /\ Once' /\ Placed'
<1> DEFINE out == Settle(outcome, tracked[r.cid], "replaced")
<1>1. /\ outcome \in [Msg -> SUBSET Outcome] /\ r.msgs \subseteq Msg /\ r.cid \in Cid
      /\ tracked \in [Cid -> SUBSET Msg] /\ \A m \in Msg : CidOf[m] \in Cid
  BY DispatcherAssumption DEF Located, TypeOK, DispatcherTypeOK, Request
<1>2. EndTurn(r, out) /\ UNCHANGED <<received, batch, flushing>>
  BY DEF HandOff, dmVars
<1>3. \A i \in Cid : tracked'[i] = IF i = r.cid THEN r.msgs ELSE tracked[i]
  BY <1>1 DEF HandOff
<1>4. out \in [Msg -> SUBSET Outcome]
  BY <1>1, SettleTyped DEF Outcome
<1>5. \A m \in Msg : out[m] = IF m \in tracked[r.cid] THEN outcome[m] \union {"replaced"}
                                                    ELSE outcome[m]
  BY DEF Settle
<1>6. \A m \in r.msgs : CidOf[m] = r.cid
  BY DEF Located, Filing
<1>7. \A m \in tracked[r.cid] : CidOf[m] = r.cid /\ InTracked(m)
  BY <1>1 DEF Located, Filing, InTracked
<1>8. \A m \in r.msgs : ~InTracked(m) /\ outcome[m] = {}
  BY <1>1 DEF Located, Placed, OneKind, Nowhere, InRunning, Ended
<1>9. \A m \in r.msgs : out[m] = {} /\ InTracked(m)'
  BY <1>1, <1>3, <1>5, <1>6, <1>7, <1>8 DEF InTracked
<1>10. ASSUME NEW m \in Msg \ r.msgs
       PROVE  \/ out[m] = outcome[m] /\ (InTracked(m)' <=> InTracked(m))
              \/ out[m] = {"replaced"} /\ InTracked(m) /\ ~InTracked(m)'
  <2>1. CASE m \in tracked[r.cid]
    <3>1. CidOf[m] = r.cid /\ InTracked(m)
      BY <1>7, <2>1
    <3>2. outcome[m] = {}
      BY <3>1 DEF Located, Placed, OneKind, Nowhere, Ended
    <3> QED
      BY <1>1, <1>3, <1>5, <2>1, <3>1, <3>2 DEF InTracked
  <2>2. CASE m \notin tracked[r.cid]
    BY <1>1, <1>3, <1>5, <2>2 DEF InTracked
  <2> QED
    BY <2>1, <2>2
<1>11. \A i \in Cid : tracked'[i] \in {tracked[i], {}} \union
                                     {q.msgs : q \in {p \in running : p.cid = i}}
  BY <1>3
<1> HIDE DEF out
<1> QED
  BY <1>2, <1>4, <1>9, <1>10, <1>11, TurnLocated

-----------------------------------------------------------------------------
(* Answers of the tracker, reads and sweeps of the mailbox *)

LEMMA LeaveLocated ==
  ASSUME Located, UNCHANGED <<received, running, batch, flushing>>,
         NEW gone, NEW how, outcome' = Settle(outcome, gone, how),
         \A i \in Cid : tracked'[i] \subseteq tracked[i] /\ mailbox'[i] \subseteq mailbox[i],
         \A m \in gone \intersect Msg : /\ InTracked(m) \/ InMailbox(m)
                                        /\ ~InTracked(m)' /\ ~InMailbox(m)',
         \A m \in Msg \ gone : (InTracked(m)' <=> InTracked(m)) /\ (InMailbox(m)' <=> InMailbox(m))
  PROVE  Filing' /\ Once' /\ Placed'
<1>1. \A m \in Msg : outcome'[m] = IF m \in gone THEN outcome[m] \union {how} ELSE outcome[m]
  BY DEF Settle
<1>2. \A m \in gone \intersect Msg : m \in received /\ OneKind(m)
  BY DEF Located, Placed, Nowhere
<1>3. Filing'
  BY DEF Located, Filing
<1>4. \A m \in gone \intersect Msg : outcome[m] = {}
  BY <1>2 DEF OneKind, Ended
<1>5. Once'
  BY <1>1, <1>4 DEF Located, Once
<1>6. \A m \in Msg : /\ InRunning(m)' = InRunning(m) /\ InFlushing(m)' = InFlushing(m)
                     /\ InBatch(m)' = InBatch(m)
  BY DEF InRunning, InFlushing, InBatch
<1>7. \A m \in gone \intersect Msg : OneKind(m)'
  BY <1>1, <1>2, <1>6 DEF OneKind, Ended
<1>8. \A m \in Msg \ gone : (OneKind(m)' <=> OneKind(m)) /\ (Nowhere(m)' <=> Nowhere(m))
  BY <1>1, <1>6 DEF OneKind, Nowhere, Ended
<1>9. Placed'
  BY <1>2, <1>7, <1>8 DEF Located, Placed
<1> QED
  BY <1>3, <1>5, <1>9

\* A replaced turn is answered after all, and the one tracked by now replaced.
LEMMA ReplacedLocated ==
  ASSUME Located, NEW i \in Cid, ReplacedAnswers(i), UNCHANGED dmVars
  PROVE  Filing' /\ Once' /\ Placed'
<1>1. /\ tracked \in [Cid -> SUBSET Msg] /\ outcome \in [Msg -> SUBSET Outcome]
      /\ \A m \in Msg : CidOf[m] \in Cid
      /\ UNCHANGED <<received, running, mailbox, batch, flushing>>
  BY DispatcherAssumption DEF Located, TypeOK, DispatcherTypeOK, ReplacedAnswers, dmVars
<1>2. PICK turn \in SUBSET {m \in Msg : CidOf[m] = i /\ outcome[m] = {"replaced"}} :
        outcome' = [m \in Msg |-> IF m \in turn THEN {"answered"}
                                 ELSE IF m \in tracked[i] THEN {"replaced"} ELSE outcome[m]]
  BY DEF ReplacedAnswers
<1>3. \A j \in Cid : tracked'[j] = IF j = i THEN {} ELSE tracked[j]
  BY <1>1 DEF ReplacedAnswers
<1>4. \A m \in tracked[i] : m \in Msg /\ CidOf[m] = i /\ InTracked(m)
  BY <1>1 DEF Located, Filing, InTracked
<1>5. Filing'
  BY <1>1, <1>3 DEF Located, Filing
<1>6. Once'
  BY <1>1, <1>2 DEF Located, Once
<1>7. \A m \in Msg : /\ InTracked(m)' <=> InTracked(m) /\ m \notin tracked[i]
                     /\ Ended(m)' <=> Ended(m) \/ m \in tracked[i]
  BY <1>1, <1>2, <1>3, <1>4 DEF InTracked, Ended
<1>8. \A m \in Msg : /\ InRunning(m)' = InRunning(m) /\ InFlushing(m)' = InFlushing(m)
                     /\ InBatch(m)' = InBatch(m) /\ InMailbox(m)' = InMailbox(m)
  BY <1>1 DEF InRunning, InFlushing, InBatch, InMailbox
<1>9. ASSUME NEW m \in Msg
      PROVE  IF m \in received THEN OneKind(m)' ELSE Nowhere(m)'
  <2>1. IF m \in received THEN OneKind(m) ELSE Nowhere(m)
    BY DEF Located, Placed
  <2> QED
    BY <1>4, <1>7, <1>8, <2>1 DEF OneKind, Nowhere
<1>10. Placed'
  BY <1>1, <1>9 DEF Placed
<1> QED
  BY <1>5, <1>6, <1>10

LEMMA ExitsLocated ==
  ASSUME Located, UNCHANGED dmVars,
         (\E i \in Cid : TrackerAnswers(i) \/ GetMailbox(i)) \/ SweepMailbox
  PROVE  Filing' /\ Once' /\ Placed'
<1>1. /\ tracked \in [Cid -> SUBSET Msg] /\ mailbox \in [Cid -> SUBSET Msg]
      /\ \A m \in Msg : CidOf[m] \in Cid
  BY DispatcherAssumption DEF Located, TypeOK, DispatcherTypeOK
<1>2. \A m \in Msg : \A i \in Cid : /\ m \in tracked[i] => CidOf[m] = i /\ InTracked(m)
                                    /\ m \in mailbox[i] => CidOf[m] = i /\ InMailbox(m)
  BY DEF Located, Filing, InTracked, InMailbox
<1>3. \A m \in Msg : InTracked(m) => ~InMailbox(m)
  BY DEF Located, Placed, OneKind, Nowhere
<1>4. ASSUME NEW i \in Cid, TrackerAnswers(i)
      PROVE  Filing' /\ Once' /\ Placed'
  <2>1. /\ outcome' = Settle(outcome, tracked[i], "answered")
        /\ UNCHANGED <<received, running, mailbox, batch, flushing>>
    BY <1>4 DEF TrackerAnswers, dmVars
  <2>2. \A j \in Cid : tracked'[j] = IF j = i THEN {} ELSE tracked[j]
    BY <1>1, <1>4 DEF TrackerAnswers
  <2>3. \A m \in tracked[i] \intersect Msg :
          InTracked(m) /\ ~InTracked(m)' /\ ~InMailbox(m)'
    BY <1>1, <1>2, <1>3, <2>1, <2>2 DEF InTracked, InMailbox
  <2>4. \A m \in Msg \ tracked[i] :
          (InTracked(m)' <=> InTracked(m)) /\ (InMailbox(m)' <=> InMailbox(m))
    BY <1>1, <2>1, <2>2 DEF InTracked, InMailbox
  <2> QED
    BY <2>1, <2>2, <2>3, <2>4, LeaveLocated
<1>5. ASSUME NEW i \in Cid, GetMailbox(i)
      PROVE  Filing' /\ Once' /\ Placed'
  <2>1. /\ outcome' = Settle(outcome, mailbox[i], "fetched")
        /\ UNCHANGED <<received, running, tracked, batch, flushing>>
    BY <1>5 DEF GetMailbox, dmVars
  <2>2. \A j \in Cid : mailbox'[j] = IF j = i THEN {} ELSE mailbox[j]
    BY <1>1, <1>5 DEF GetMailbox
  <2>3. \A m \in mailbox[i] \intersect Msg :
          InMailbox(m) /\ ~InTracked(m)' /\ ~InMailbox(m)'
    BY <1>1, <1>2, <1>3, <2>1, <2>2 DEF InTracked, InMailbox
  <2>4. \A m \in Msg \ mailbox[i] :
          (InTracked(m)' <=> InTracked(m)) /\ (InMailbox(m)' <=> InMailbox(m))
    BY <1>1, <2>1, <2>2 DEF InTracked, InMailbox
  <2> QED
    BY <2>1, <2>2, <2>3, <2>4, LeaveLocated
<1>6. CASE SweepMailbox
  <2> DEFINE gone == Expired \intersect UNION {mailbox[i] : i \in Cid}
  <2>1. /\ outcome' = Settle(outcome, gone, "expired")
        /\ UNCHANGED <<received, running, tracked, batch, flushing>>
    BY <1>6 DEF SweepMailbox, dmVars
  <2>2. \A j \in Cid : mailbox'[j] = mailbox[j] \ gone
    BY <1>6 DEF SweepMailbox
  <2>3. \A m \in gone \intersect Msg : InMailbox(m)
    BY <1>2
  <2> HIDE DEF gone
  <2>4. \A m \in gone \intersect Msg :
          InMailbox(m) /\ ~InTracked(m)' /\ ~InMailbox(m)'
    BY <1>1, <1>3, <2>1, <2>2, <2>3 DEF InTracked, InMailbox
  <2>5. \A m \in Msg \ gone :
          (InTracked(m)' <=> InTracked(m)) /\ (InMailbox(m)' <=> InMailbox(m))
    BY <1>1, <2>1, <2>2 DEF InTracked, InMailbox
  <2> QED
    BY <2>1, <2>2, <2>4, <2>5, LeaveLocated
<1> QED
  BY <1>4, <1>5, <1>6

-----------------------------------------------------------------------------
(* Flushes *)

LEMMA FlushesLocated ==
  ASSUME Located, NEW i \in Cid, FlushQueues(i) \/ FlushBegins(i)
  PROVE  Filing' /\ Once' /\ Placed'
<1>1. /\ mailbox \in [Cid -> SUBSET Msg] /\ batch \in [Cid -> SUBSET Dms]
      /\ \A m \in Msg : CidOf[m] \in Cid
      /\ batch[i] # {} /\ batch' = [batch EXCEPT ![i] = {}]
      /\ UNCHANGED <<received, running, tracked, outcome>>
  BY DispatcherAssumption
  DEF Located, TypeOK, DispatcherTypeOK, FlushQueues, FlushBegins, Flush, dispatcherVars
<1>2. \A j \in Cid : batch'[j] = IF j = i THEN {} ELSE batch[j]
  BY <1>1
<1>3. \A m \in batch[i] : m \in Msg /\ CidOf[m] = i /\ InBatch(m)
  BY <1>1, PipelineAssumption DEF Located, Filing, InBatch
<1>4. \A m \in batch[i] : m \in received /\ OneKind(m)
  BY <1>3 DEF Located, Placed, Nowhere
<1>5. \A m \in Msg : InBatch(m)' <=> InBatch(m) /\ m \notin batch[i]
  BY <1>1, <1>2, <1>3 DEF InBatch
<1>6. \A m \in Msg : /\ InRunning(m)' = InRunning(m) /\ InTracked(m)' = InTracked(m)
                     /\ Ended(m)' = Ended(m)
  BY <1>1 DEF InRunning, InTracked, Ended
<1>7. CASE FlushQueues(i)
  <2>1. /\ mailbox' = [mailbox EXCEPT ![i] = @ \union batch[i]]
        /\ UNCHANGED flushing
    BY <1>7 DEF FlushQueues, Push
  <2>2. \A j \in Cid : mailbox'[j] = IF j = i THEN mailbox[j] \union batch[i] ELSE mailbox[j]
    BY <1>1, <2>1
  <2>3. Filing'
    BY <1>1, <1>2, <1>3, <2>1, <2>2 DEF Located, Filing
  <2>4. Once'
    BY <1>1, <2>1 DEF Located, Once
  <2>5. \A m \in Msg : /\ InMailbox(m)' <=> InMailbox(m) \/ m \in batch[i]
                       /\ InFlushing(m)' = InFlushing(m)
    BY <1>1, <1>3, <2>1, <2>2 DEF InMailbox, InFlushing
  <2>6. Placed'
    BY <1>1, <1>3, <1>4, <1>5, <1>6, <2>5 DEF Located, Placed, OneKind, Nowhere
  <2> QED
    BY <2>3, <2>4, <2>6
<1>8. CASE FlushBegins(i)
  <2> DEFINE f == RequestFor(i, None, batch[i])
  <2>1. flushing' = flushing \union {f} /\ UNCHANGED mailbox
    BY <1>8 DEF FlushBegins, dispatcherVars
  <2>2. f.cid = i /\ f.msgs = batch[i]
    BY DEF RequestFor
  <2> HIDE DEF f
  <2>3. Filing'
    BY <1>1, <1>2, <1>3, <2>1, <2>2 DEF Located, Filing
  <2>4. \A m \in f.msgs : \A g \in flushing : m \notin g.msgs
    BY <1>3, <1>4, <2>2 DEF OneKind, InFlushing
  <2>5. Apart(flushing')
    BY <2>1, <2>4 DEF Located, Once, Apart
  <2>6. Once'
    BY <1>1, <2>5 DEF Located, Once
  <2>7. \A m \in Msg : /\ InFlushing(m)' <=> InFlushing(m) \/ m \in batch[i]
                       /\ InMailbox(m)' = InMailbox(m)
    BY <2>1, <2>2 DEF InMailbox, InFlushing
  <2>8. Placed'
    BY <1>1, <1>3, <1>4, <1>5, <1>6, <2>7 DEF Located, Placed, OneKind, Nowhere
  <2> QED
    BY <2>3, <2>6, <2>8
<1> QED
  BY <1>7, <1>8

LEMMA FlushEndsLocated ==
  ASSUME Located, NEW f \in flushing, FlushPublishes(f) \/ FlushFails(f)
  PROVE  Filing' /\ Once' /\ Placed'
<1>1. /\ f \in Request /\ f.msgs \subseteq Msg /\ f.cid \in Cid
      /\ mailbox \in [Cid -> SUBSET Msg] /\ \A m \in Msg : CidOf[m] \in Cid
      /\ outcome \in [Msg -> SUBSET Outcome] /\ running \in SUBSET Request
      /\ flushing' = flushing \ {f}
      /\ UNCHANGED <<received, tracked, batch>>
  BY DispatcherAssumption
  DEF Located, TypeOK, DispatcherTypeOK, FlushPublishes, FlushFails, Request
<1>2. \A m \in f.msgs : CidOf[m] = f.cid /\ InFlushing(m)
  BY DEF Located, Filing, InFlushing
<1>3. \A m \in f.msgs : m \in Msg /\ m \in received /\ OneKind(m)
  BY <1>1, <1>2 DEF Located, Placed, Nowhere
<1>4. \A m \in Msg : InFlushing(m)' <=> InFlushing(m) /\ m \notin f.msgs
  BY <1>1 DEF Located, Once, Apart, InFlushing
<1>5. \A m \in Msg : InTracked(m)' = InTracked(m) /\ InBatch(m)' = InBatch(m)
  BY <1>1 DEF InTracked, InBatch
<1>6. Apart(flushing')
  BY <1>1 DEF Located, Once, Apart
<1>7. CASE FlushPublishes(f)
  <2>1. Dispatch(f, running, active, outcome) /\ UNCHANGED mailbox
    BY <1>7 DEF FlushPublishes
  <2>2. \A m \in f.msgs : outcome[m] = {} /\ \A q \in running : m \notin q.msgs
    BY <1>2, <1>3 DEF OneKind, Ended, InRunning
  <2>3. Apart(running) /\ \A m \in Msg : \A o, p \in outcome[m] : o = p
    BY DEF Located, Once
  <2>4. /\ Apart(running') /\ running' \subseteq running \union {f}
        /\ \A m \in Msg : \A o, p \in outcome'[m] : o = p
        /\ \A m \in Msg \ f.msgs : /\ outcome'[m] = outcome[m]
                                   /\ InRunning(m)' <=> \E q \in running : m \in q.msgs
        /\ \A m \in f.msgs : InRunning(m)' <=> outcome'[m] = {}
    BY <1>1, <2>1, <2>2, <2>3, DispatchMoves
  <2>5. Filing'
    BY <1>1, <2>1, <2>4 DEF Located, Filing
  <2>6. Once'
    BY <1>6, <2>4 DEF Once
  <2>7. \A m \in Msg : InMailbox(m)' = InMailbox(m)
    BY <2>1 DEF InMailbox
  <2>8. \A m \in f.msgs : OneKind(m)'
    BY <1>2, <1>3, <1>4, <1>5, <2>4, <2>7 DEF OneKind, Ended
  <2>9. \A m \in Msg \ f.msgs : (InRunning(m)' <=> InRunning(m)) /\ Ended(m)' = Ended(m)
    BY <2>4 DEF InRunning, Ended
  <2>10. \A m \in Msg \ f.msgs : (OneKind(m)' <=> OneKind(m)) /\ (Nowhere(m)' <=> Nowhere(m))
    BY <1>4, <1>5, <2>7, <2>9 DEF OneKind, Nowhere
  <2>11. Placed'
    BY <1>1, <1>3, <2>8, <2>10 DEF Located, Placed
  <2> QED
    BY <2>5, <2>6, <2>11
<1>8. CASE FlushFails(f)
  <2>1. /\ mailbox' = [mailbox EXCEPT ![f.cid] = @ \union f.msgs]
        /\ UNCHANGED <<running, outcome>>
    BY <1>8 DEF FlushFails, Push
  <2>2. \A j \in Cid : mailbox'[j] = IF j = f.cid THEN mailbox[j] \union f.msgs
                                                  ELSE mailbox[j]
    BY <1>1, <2>1
  <2>3. Filing'
    BY <1>1, <1>2, <2>1, <2>2 DEF Located, Filing
  <2>4. Once'
    BY <1>6, <2>1 DEF Located, Once
  <2>5. \A m \in Msg : InMailbox(m)' <=> InMailbox(m) \/ m \in f.msgs
    BY <1>1, <1>2, <2>2 DEF InMailbox
  <2>6. \A m \in Msg : InRunning(m)' = InRunning(m) /\ Ended(m)' = Ended(m)
    BY <2>1 DEF InRunning, Ended
  <2>7. Placed'
    BY <1>1, <1>2, <1>3, <1>4, <1>5, <2>5, <2>6 DEF Located, Placed, OneKind, Nowhere
  <2> QED
    BY <2>3, <2>4, <2>7
<1> QED
  BY <1>7, <1>8

-----------------------------------------------------------------------------
(* One place *)

LEMMA LocatedKept ==
  ASSUME Located, [Next]_vars
  PROVE  Located'
<1>1. TypeOK' /\ FlushesAreDms'
  BY TypesKept, FlushesKept DEF Located
<1>2. CASE UNCHANGED <<received, running, tracked, mailbox, outcome, batch, flushing>>
  BY <1>1, <1>2
  DEF Located, Filing, Once, Placed, OneKind, Nowhere, InRunning, InFlushing, InTracked,
      InMailbox, InBatch, Ended
<1>3. ASSUME NEW m \in Msg, (Receive(m) \/ PostMailbox(m)) /\ UNCHANGED dmVars
      PROVE  Located'
  BY <1>1, <1>3, ArrivalsLocated DEF Located
<1>4. ASSUME NEW r \in running, (Finish(r) \/ HandOff(r)) /\ UNCHANGED dmVars
      PROVE  Located'
  BY <1>1, <1>4, FinishLocated, HandOffLocated DEF Located
<1>5. CASE /\ (\E i \in Cid : TrackerAnswers(i) \/ GetMailbox(i)) \/ SweepMailbox
           /\ UNCHANGED dmVars
  BY <1>1, <1>5, ExitsLocated DEF Located
<1>11. ASSUME NEW i \in Cid, ReplacedAnswers(i) /\ UNCHANGED dmVars
       PROVE  Located'
  BY <1>1, <1>11, ReplacedLocated DEF Located
<1>6. CASE DispatcherStep
  BY <1>2, <1>3, <1>4, <1>5, <1>6, <1>11 DEF DispatcherStep, Tick, dmVars
<1>7. ASSUME NEW m \in Dms, DmArrives(m)
      PROVE  Located'
  BY <1>1, <1>7, PipelineAssumption, ArrivalsLocated DEF Located
<1>8. ASSUME NEW i \in Cid, FlushQueues(i) \/ FlushBegins(i)
      PROVE  Located'
  BY <1>1, <1>8, FlushesLocated DEF Located
<1>9. ASSUME NEW f \in flushing, FlushPublishes(f) \/ FlushFails(f)
      PROVE  Located'
  BY <1>1, <1>9, FlushEndsLocated DEF Located
<1>10. UNCHANGED vars =>
         UNCHANGED <<received, running, tracked, mailbox, outcome, batch, flushing>>
  BY DEF vars, dispatcherVars, dmVars
<1> QED
  BY <1>2, <1>6, <1>7, <1>8, <1>9, <1>10 DEF Next

LEMMA LocatedInOnePlace == Located => EachDmInOnePlace
<1> SUFFICES ASSUME Located, NEW m \in received
             PROVE  Cardinality(DmPlaces(m)) = 1
  BY DEF EachDmInOnePlace
<1>1. m \in Msg /\ CidOf[m] \in Cid /\ OneKind(m)
  BY DispatcherAssumption DEF Located, Placed, TypeOK, DispatcherTypeOK
<1>2. /\ \A i \in Cid : m \in tracked[i] <=> i = CidOf[m] /\ InTracked(m)
      /\ \A i \in Cid : m \in mailbox[i] <=> i = CidOf[m] /\ InMailbox(m)
      /\ \A i \in Cid : m \in batch[i] <=> i = CidOf[m] /\ InBatch(m)
  BY DEF Located, Filing, InTracked, InMailbox, InBatch
<1> DEFINE inRunning == {q \in running : m \in q.msgs}
           inTracked == {j \in Cid : m \in tracked[j]}
           inMailbox == {j \in Cid : m \in mailbox[j]}
           inBatch == {j \in Cid : m \in batch[j]}
           inFlushing == {g \in flushing : m \in g.msgs}
<1>3. \A q \in inRunning : inRunning = {q}
  BY DEF Located, Once, Apart
<1>4. \A g \in inFlushing : inFlushing = {g}
  BY DEF Located, Once, Apart
<1>5. \A o \in outcome[m] : outcome[m] = {o}
  BY <1>1 DEF Located, Once
<1>6. /\ inTracked = IF InTracked(m) THEN {CidOf[m]} ELSE {}
      /\ inMailbox = IF InMailbox(m) THEN {CidOf[m]} ELSE {}
      /\ inBatch = IF InBatch(m) THEN {CidOf[m]} ELSE {}
  BY <1>1, <1>2
<1>7. /\ InRunning(m) <=> inRunning # {}
      /\ InFlushing(m) <=> inFlushing # {}
      /\ Ended(m) <=> outcome[m] # {}
  BY DEF InRunning, InFlushing, Ended
<1>8. DmPlaces(m) = {<<"running", r>> : r \in inRunning}
                      \union {<<"tracked", i>> : i \in inTracked}
                      \union {<<"mailbox", i>> : i \in inMailbox}
                      \union {<<"outcome", o>> : o \in outcome[m]}
                      \union {<<"batch", i>> : i \in inBatch}
                      \union {<<"flushing", f>> : f \in inFlushing}
  BY DEF DmPlaces, Places
<1> HIDE DEF inRunning, inTracked, inMailbox, inBatch, inFlushing
<1>9. \E place : DmPlaces(m) = {place}
  <2>1. CASE InRunning(m)
    <3>1. PICK q \in inRunning : TRUE
      BY <1>7, <2>1
    <3>2. /\ inRunning = {q} /\ inTracked = {} /\ inMailbox = {} /\ outcome[m] = {}
          /\ inBatch = {} /\ inFlushing = {}
      BY <1>1, <1>3, <1>6, <1>7, <2>1, <3>1 DEF OneKind
    <3>3. DmPlaces(m) = {<<"running", q>>}
      BY <1>8, <3>2
    <3> QED
      BY <3>3
  <2>2. CASE InFlushing(m)
    <3>1. PICK g \in inFlushing : TRUE
      BY <1>7, <2>2
    <3>2. /\ inRunning = {} /\ inTracked = {} /\ inMailbox = {} /\ outcome[m] = {}
          /\ inBatch = {} /\ inFlushing = {g}
      BY <1>1, <1>4, <1>6, <1>7, <2>2, <3>1 DEF OneKind
    <3>3. DmPlaces(m) = {<<"flushing", g>>}
      BY <1>8, <3>2
    <3> QED
      BY <3>3
  <2>3. CASE InTracked(m)
    <3>1. /\ inRunning = {} /\ inTracked = {CidOf[m]} /\ inMailbox = {} /\ outcome[m] = {}
          /\ inBatch = {} /\ inFlushing = {}
      BY <1>1, <1>6, <1>7, <2>3 DEF OneKind
    <3>2. DmPlaces(m) = {<<"tracked", CidOf[m]>>}
      BY <1>8, <3>1
    <3> QED
      BY <3>2
  <2>4. CASE InMailbox(m)
    <3>1. /\ inRunning = {} /\ inTracked = {} /\ inMailbox = {CidOf[m]} /\ outcome[m] = {}
          /\ inBatch = {} /\ inFlushing = {}
      BY <1>1, <1>6, <1>7, <2>4 DEF OneKind
    <3>2. DmPlaces(m) = {<<"mailbox", CidOf[m]>>}
      BY <1>8, <3>1
    <3> QED
      BY <3>2
  <2>5. CASE InBatch(m)
    <3>1. /\ inRunning = {} /\ inTracked = {} /\ inMailbox = {} /\ outcome[m] = {}
          /\ inBatch = {CidOf[m]} /\ inFlushing = {}
      BY <1>1, <1>6, <1>7, <2>5 DEF OneKind
    <3>2. DmPlaces(m) = {<<"batch", CidOf[m]>>}
      BY <1>8, <3>1
    <3> QED
      BY <3>2
  <2>6. CASE Ended(m)
    <3>1. PICK o \in outcome[m] : TRUE
      BY <1>7, <2>6
    <3>2. /\ inRunning = {} /\ inTracked = {} /\ inMailbox = {} /\ outcome[m] = {o}
          /\ inBatch = {} /\ inFlushing = {}
      BY <1>1, <1>5, <1>6, <1>7, <2>6, <3>1 DEF OneKind
    <3>3. DmPlaces(m) = {<<"outcome", o>>}
      BY <1>8, <3>2
    <3> QED
      BY <3>3
  <2> QED
    BY <1>1, <2>1, <2>2, <2>3, <2>4, <2>5, <2>6 DEF OneKind
<1> QED
  BY <1>9, FS_Singleton

(***************************************************************************)
(* Between the debounce and its end each message is in exactly one place   *)
(* (EachDmInOnePlace), whichever turns of its conversation run, drain the  *)
(* mailbox, are handed to the tracker or replaced there.                   *)
(***************************************************************************)
THEOREM EachAlwaysInOnePlace == Spec => []EachDmInOnePlace
<1>1. Located /\ [Next]_vars => Located'
  BY LocatedKept
<1> QED
  BY <1>1, InitLocated, LocatedInOnePlace, PTL DEF Spec

=============================================================================
