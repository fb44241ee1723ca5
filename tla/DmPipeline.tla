------------------------------ MODULE DmPipeline ------------------------------
(***************************************************************************)
(* Discord direct messages on their way to the dispatcher: the debounce of *)
(* lib/dm/dm-accumulator.ts and the flush of lib/plugins/discord/          *)
(* inbound.ts, composed with SkillDispatcher.                              *)
(*                                                                         *)
(* handleDMFlush asks isExecutionActive first, then awaits Discord for the *)
(* message to reply to, then publishes.  The debounce timer is abstracted: *)
(* a batch may be flushed at any time after its last message.              *)
(***************************************************************************)
EXTENDS SkillDispatcher

CONSTANTS Dms,          \* the messages that are direct messages
          FlushMayFail  \* whether onFlush can throw or reject

ASSUME PipelineAssumption ==
  /\ Dms \subseteq Msg \ Posted
  /\ FlushMayFail \in BOOLEAN
  /\ \A m \in Dms : KeyOf[m] = None    \* the chat skill has no cooldown

VARIABLES batch,     \* DmAccumulator.entries: the messages of each batch
          flushing,  \* flushes awaiting Discord
          failed     \* messages of the flushes that failed

dmVars == <<batch, flushing, failed>>
vars == <<dispatcherVars, dmVars>>

TypeOK ==
  /\ DispatcherTypeOK
  /\ batch \in [Cid -> SUBSET Dms]
  /\ flushing \subseteq Request
  /\ failed \subseteq Dms

Init ==
  /\ DispatcherInit
  /\ batch = [i \in Cid |-> {}]
  /\ flushing = {}
  /\ failed = {}

\* handleDM: the message joins the batch and resets its timer.
DmArrives(m) ==
  /\ m \in Dms \ received
  /\ received' = received \union {m}
  /\ batch' = [batch EXCEPT ![CidOf[m]] = @ \union {m}]
  /\ UNCHANGED <<now, active, running, tracked, mailbox, queuedAt, cooldownVars,
                 outcome, flushing, failed>>

\* The timer fires: _flush deletes the entry and calls handleDMFlush.
Flush(i) ==
  /\ batch[i] # {}
  /\ batch' = [batch EXCEPT ![i] = {}]

\* The conversation has a turn in progress: the batch goes to the mailbox.
\* Mutant: the check is inverted.
FlushQueuesIdle(i) ==
  /\ Flush(i)
  /\ i \notin active
  /\ Push(i, batch[i])
  /\ UNCHANGED <<now, received, active, running, tracked, cooldownVars, outcome,
                 flushing, failed>>
FlushQueues(i) ==
  /\ Flush(i)
  /\ i \in active
  /\ Push(i, batch[i])
  /\ UNCHANGED <<now, received, active, running, tracked, cooldownVars, outcome,
                 flushing, failed>>

FlushBegins(i) ==
  /\ Flush(i)
  /\ i \notin active
  /\ flushing' = flushing \union {RequestFor(i, None, batch[i])}
  /\ UNCHANGED <<dispatcherVars, failed>>

\* The message and its context have been fetched: publish.
FlushPublishes(f) ==
  /\ f \in flushing
  /\ flushing' = flushing \ {f}
  /\ Dispatch(f, running, active, outcome)
  /\ UNCHANGED <<now, received, tracked, mailbox, queuedAt, batch, failed>>

\* _handleFlushError: the batch goes to the fallback mailbox.  Bounded so
\* that its time to live can pass.
FlushFails(f) ==
  /\ FlushMayFail
  /\ f \in flushing
  /\ now + MailboxTtl <= MaxTime
  /\ flushing' = flushing \ {f}
  /\ failed' = failed \union f.msgs
  /\ Push(f.cid, f.msgs)
  /\ UNCHANGED <<now, received, active, running, tracked, cooldownVars, outcome, batch>>

\* Requests that are not direct messages reach the dispatcher as they do in
\* SkillDispatcher.
DispatcherStep ==
  /\ \/ Tick
     \/ \E m \in Msg \ Dms : Receive(m) \/ PostMailbox(m)
     \/ \E r \in running : Finish(r) \/ HandOff(r)
     \/ \E i \in Cid : TrackerAnswers(i) \/ ReplacedAnswers(i) \/ GetMailbox(i)
     \/ SweepMailbox
  /\ UNCHANGED dmVars

Next ==
  \/ DispatcherStep
  \/ \E m \in Dms : DmArrives(m)
  \/ \E i \in Cid : FlushQueues(i) \/ FlushBegins(i)
  \/ \E f \in flushing : FlushPublishes(f) \/ FlushFails(f)

\* The timers fire and Discord's REST calls return.
Fairness ==
  /\ WF_vars(Tick /\ UNCHANGED dmVars)
  /\ \A m \in Msg :
       WF_vars(/\ \E r \in running : m \in r.msgs /\ (Finish(r) \/ HandOff(r))
               /\ UNCHANGED dmVars)
  /\ \A i \in Cid : /\ WF_vars(TrackerAnswers(i) /\ UNCHANGED dmVars)
                    /\ WF_vars(FlushQueues(i) \/ FlushBegins(i))
  /\ \A m \in Dms :
       WF_vars(\E f \in flushing : m \in f.msgs /\ (FlushPublishes(f) \/ FlushFails(f)))
  /\ WF_vars(SweepMailbox /\ UNCHANGED dmVars)

Spec == Init /\ [][Next]_vars /\ Fairness

-----------------------------------------------------------------------------
(* Properties *)

DmPlaces(m) ==
  Places(m) \union {<<"batch", i>> : i \in {j \in Cid : m \in batch[j]}}
            \union {<<"flushing", f>> : f \in {g \in flushing : m \in g.msgs}}

\* A message that the process queued itself waits behind a running execution
\* of its conversation, whose `finally` will drain it, even when several
\* executions of the conversation run and some are dropped.  (A posted message
\* and the batch of a failed flush may wait in an idle conversation.)
QueuedBehindExecution ==
  \A i \in Cid :
    mailbox[i] \ (Posted \union failed) # {} => \E r \in running : r.cid = i

\* From the debounce to the answer a message is in exactly one place, although
\* the tracker keeps one turn of a conversation and drops the one it held.
EachDmInOnePlace == \A m \in received : Cardinality(DmPlaces(m)) = 1

\* A direct message, whatever turn it meets on its way, ends answered, refused
\* with an error response, fetched by the agent, or expired; but a turn that was
\* handed to the tracker is lost if a later one of its conversation replaces it.
EveryMessageSettles == \A m \in Msg : m \in received ~> outcome[m] # {}

\* skill-dispatcher-plugin.ts:238: no competing execution is dispatched for a
\* conversation that has one.
OneTurnAtATime == \A r, q \in running : r.cid = q.cid => r = q
=============================================================================
