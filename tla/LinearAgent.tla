----------------------------- MODULE LinearAgent -----------------------------
(***************************************************************************)
(* An agent session of Linear and this process: the webhook that announces *)
(* a prompt (lib/plugins/linear.ts), the poller that recovers sessions     *)
(* Linear has given up on (lib/plugins/linear-agent-session-poller.ts),    *)
(* the run that answers, and the OAuth tokens both need                    *)
(* (lib/linear/ava-oauth-token-manager.ts, src/api/linear-oauth.ts).       *)
(*                                                                         *)
(* One session: sessions share only the order in which a sweep visits      *)
(* them, so an entry a sweep has fetched may wait.  The keys of the        *)
(* poller's map hold updatedAt: an entry is kept for the session's present *)
(* state, and every change of the session makes what was fetched old.  A   *)
(* sweep lists the newest sessions only, of any status: those begun after  *)
(* this one may leave no place for it.                                     *)
(* Linear is external, known by how the code uses it.                      *)
(***************************************************************************)
EXTENDS Naturals

CONSTANTS
  Polls,     \* sweeps under way at once: the interval waits for none
  PollPage   \* the sessions one query lists (25)

VARIABLES
  session,   \* at Linear: "none", "pending", "active", "stale", "complete"
  newer,     \* sessions begun since it, up to a page
  assigned,  \* is its issue assigned to the agent
  answers,   \* responses to the present prompt
  hook,      \* a delivery of the webhook is under way
  seen,      \* DeliveryDedup holds its id
  gate,      \* a handler of the webhook awaits isAssignedToAva
  runs,      \* runs of linear_agent_respond for the session
  poll,      \* where each sweep stands with the session
  handled,   \* LinearAgentSessionPoller.handled holds its present key
  tokens,    \* StoredTokens, in memory and on disk alike
  refreshing,\* the one refresh in flight
  callback,  \* a token exchange of handleCallback in flight
  quiet      \* Linear answers, and nobody prompts, assigns or restarts any more

linear == <<session, newer, assigned, answers>>
webhook == <<hook, seen, gate>>
poller == <<poll, handled>>
oauth == <<tokens, refreshing, callback>>
vars == <<linear, webhook, runs, poller, oauth, quiet>>

MaxRuns == 2       \* bounds runs and answers

TypeOK ==
  /\ session \in {"none", "pending", "active", "stale", "complete"}
  /\ newer \in 0 .. PollPage /\ assigned \in BOOLEAN /\ answers \in 0 .. MaxRuns
  /\ hook \in BOOLEAN /\ seen \in BOOLEAN /\ gate \in BOOLEAN
  /\ runs \in 0 .. MaxRuns
  /\ poll \in [Polls -> [at : {"idle", "fetched", "gate"}, old : BOOLEAN]]
  /\ handled \in BOOLEAN
  /\ tokens \in [refresh : BOOLEAN, fresh : BOOLEAN, pending : BOOLEAN]
  /\ refreshing \in BOOLEAN /\ callback \in BOOLEAN /\ quiet \in BOOLEAN

Idle == [at |-> "idle", old |-> FALSE]

Init ==
  /\ session = "none" /\ newer = 0 /\ assigned \in BOOLEAN /\ answers = 0
  /\ hook = FALSE /\ seen = FALSE /\ gate = FALSE
  /\ runs = 0
  /\ poll = [p \in Polls |-> Idle] /\ handled = FALSE
  /\ tokens \in [refresh : BOOLEAN, fresh : {FALSE}, pending : {FALSE}]
  /\ refreshing = FALSE /\ callback = FALSE /\ quiet = FALSE

\* Calls as the agent need a fresh access token and Linear's answer.
Ready == tokens.refresh /\ tokens.fresh
Succeeds == IF quiet THEN {Ready} ELSE {Ready, FALSE}

\* linear_agent_respond is published: counted up to the bound.  Mutant: the end
\* of a run is counted in its place.
OneRunLess == runs - 1
OneMoreRun == IF runs = MaxRuns THEN MaxRuns ELSE runs + 1

\* Linear changes the session: its updatedAt is new.
Touches(state) ==
  /\ session' = state
  /\ handled' = FALSE
  /\ poll' = [p \in Polls |-> [poll[p] EXCEPT !.old = poll[p].at # "idle"]]

-----------------------------------------------------------------------------
(* Linear and its users. *)

Prompt ==
  /\ ~quiet /\ session \in {"none", "active", "stale", "complete"}
  /\ Touches("pending")
  /\ answers' = 0 /\ hook' = TRUE /\ seen' = FALSE
  /\ UNCHANGED <<newer, assigned, gate, runs, oauth, quiet>>

\* Another session begins, on another issue.
OtherBegins ==
  /\ ~quiet /\ session # "none" /\ newer < PollPage /\ newer' = newer + 1
  /\ UNCHANGED <<session, assigned, answers, webhook, runs, poller, oauth, quiet>>

Assign ==
  /\ ~quiet /\ assigned' = ~assigned
  /\ UNCHANGED <<session, newer, answers, webhook, runs, poller, oauth, quiet>>

\* Deliveries are intermittent.
LoseHook ==
  /\ hook /\ hook' = FALSE
  /\ UNCHANGED <<linear, seen, gate, runs, poller, oauth, quiet>>

\* No activity in time.
GoStale ==
  /\ session \in {"pending", "active"}
  /\ Touches("stale")
  /\ UNCHANGED <<newer, assigned, answers, webhook, runs, oauth, quiet>>

-----------------------------------------------------------------------------
(* The webhook, a run, and what the process says to Linear. *)

\* An id that is known is answered and dropped.
Deliver ==
  /\ hook
  /\ hook' \in (IF quiet THEN {FALSE} ELSE BOOLEAN)
  /\ seen' = TRUE
  /\ gate' = (gate \/ ~seen)
  /\ UNCHANGED <<linear, runs, poller, oauth, quiet>>

\* _publishAgentSession: a failed assignment check lets the event through.  It
\* starts a run and a thought, which makes the session active or fails.
HookGated ==
  /\ gate /\ gate' = FALSE
  /\ \E checked \in Succeeds :
       IF checked /\ ~assigned
         THEN UNCHANGED <<linear, runs, poller>>
         ELSE /\ runs' = OneMoreRun
              /\ \E acked \in Succeeds :
                   IF acked /\ session # "complete" THEN Touches("active")
                                                    ELSE UNCHANGED <<session, poller>>
              /\ UNCHANGED <<newer, assigned, answers>>
  /\ UNCHANGED <<hook, seen, oauth, quiet>>

\* The run's reply is posted as a response; a run that failed has no text, and
\* a post that fails is reported on the bus and not repeated.
Respond ==
  /\ runs > 0 /\ runs' = runs - 1
  /\ \E posted \in Succeeds :
       IF posted THEN Touches("complete") /\ answers' = (IF answers = MaxRuns THEN MaxRuns ELSE answers + 1)
                 ELSE UNCHANGED <<session, answers, poller>>
  /\ UNCHANGED <<newer, assigned, webhook, oauth, quiet>>

-----------------------------------------------------------------------------
(* LinearAgentSessionPoller._poll. *)

\* fetchStaleSessions asks for a page of sessions and looks for the stale among them.
Listed == newer < PollPage
Poll(p) ==
  /\ poll[p].at = "idle" /\ session = "stale" /\ Listed
  /\ poll' = [poll EXCEPT ![p] = [at |-> "fetched", old |-> FALSE]]
  /\ UNCHANGED <<linear, webhook, runs, handled, oauth, quiet>>

\* The loop reaches the session: passed over when its key is handled.
Visit(p) ==
  /\ poll[p].at = "fetched"
  /\ poll' = [poll EXCEPT ![p] = IF handled /\ ~poll[p].old THEN Idle
                                 ELSE [at |-> "gate", old |-> poll[p].old]]
  /\ UNCHANGED <<linear, webhook, runs, handled, oauth, quiet>>

Marks(p) == handled \/ ~poll[p].old

\* A failed check leaves the session to the next sweep; an unassigned one is
\* handled; any other is handled and published again.
Gated(p) ==
  /\ poll[p].at = "gate"
  /\ \E checked \in Succeeds :
       \/ /\ ~checked
          /\ poll' = [poll EXCEPT ![p] = Idle]
          /\ UNCHANGED <<linear, runs, handled>>
       \/ /\ checked /\ ~assigned
          /\ poll' = [poll EXCEPT ![p] = Idle] /\ handled' = Marks(p)
          /\ UNCHANGED <<linear, runs>>
       \/ /\ checked /\ assigned
          /\ runs' = OneMoreRun
          /\ \E acked \in Succeeds :
               IF acked /\ session # "complete"
                 THEN /\ session' = "active" /\ handled' = FALSE
                      /\ poll' = [q \in Polls |-> IF q = p THEN Idle
                                                  ELSE [poll[q] EXCEPT !.old = poll[q].at # "idle"]]
                 ELSE /\ handled' = Marks(p) /\ poll' = [poll EXCEPT ![p] = Idle]
                      /\ UNCHANGED session
          /\ UNCHANGED <<newer, assigned, answers>>
  /\ UNCHANGED <<webhook, oauth, quiet>>

\* HANDLED_TTL_MS.  Mutant: the keys stay.
NeverExpires == FALSE
Expires == handled
Prune ==
  /\ Expires /\ handled' = FALSE
  /\ UNCHANGED <<linear, webhook, runs, poll, oauth, quiet>>

-----------------------------------------------------------------------------
(* LinearAvaTokenManager. *)

StartAuthorization ==
  /\ ~quiet /\ tokens' = [tokens EXCEPT !.pending = TRUE]
  /\ UNCHANGED <<linear, webhook, runs, poller, refreshing, callback, quiet>>

\* The state is compared before the exchange, and only when one is pending.
Callback ==
  /\ ~callback /\ ~quiet /\ callback' = TRUE
  /\ UNCHANGED <<linear, webhook, runs, poller, tokens, refreshing, quiet>>

\* _store keeps the refresh token when the answer brings none.  Mutant: it
\* takes what the answer brings.
KeptAsAnswered(brought) == brought
Kept(brought) == brought \/ tokens.refresh
Store(brought) == tokens' = [refresh |-> Kept(brought), fresh |-> TRUE, pending |-> FALSE]

\* An exchange without a refresh token is refused.
Exchanged ==
  /\ callback /\ callback' = FALSE
  /\ Store(TRUE) \/ (~quiet /\ UNCHANGED tokens)
  /\ UNCHANGED <<linear, webhook, runs, poller, refreshing, quiet>>

\* getAccessToken, from any of the calls: callers share the refresh in flight.
Refresh ==
  /\ tokens.refresh /\ ~tokens.fresh /\ ~refreshing
  /\ refreshing' = TRUE
  /\ UNCHANGED <<linear, webhook, runs, poller, tokens, callback, quiet>>

Refreshed ==
  /\ refreshing /\ refreshing' = FALSE
  /\ (\E brought \in BOOLEAN : Store(brought)) \/ (~quiet /\ UNCHANGED tokens)
  /\ UNCHANGED <<linear, webhook, runs, poller, callback, quiet>>

TokenAges ==
  /\ tokens.fresh /\ ~quiet /\ tokens' = [tokens EXCEPT !.fresh = FALSE]
  /\ UNCHANGED <<linear, webhook, runs, poller, refreshing, callback, quiet>>

\* The tokens are on disk.
Restart ==
  /\ ~quiet
  /\ seen' = FALSE /\ gate' = FALSE /\ runs' = 0
  /\ poll' = [p \in Polls |-> Idle] /\ handled' = FALSE
  /\ refreshing' = FALSE /\ callback' = FALSE
  /\ UNCHANGED <<linear, hook, tokens, quiet>>

Settle ==
  /\ ~quiet /\ quiet' = TRUE
  /\ UNCHANGED <<linear, webhook, runs, poller, oauth>>

PollStep(p) == Visit(p) \/ Gated(p)

Next ==
  \/ Prompt \/ OtherBegins \/ Assign \/ LoseHook \/ GoStale
  \/ Deliver \/ HookGated \/ Respond
  \/ \E p \in Polls : Poll(p) \/ PollStep(p)
  \/ Prune
  \/ StartAuthorization \/ Callback \/ Exchanged \/ Refresh \/ Refreshed \/ TokenAges
  \/ Restart \/ Settle

\* The interval polls, requests are answered or time out, runs end, and Linear
\* gives up on a session that hears nothing.
Fairness ==
  /\ WF_vars(GoStale) /\ WF_vars(HookGated) /\ WF_vars(Respond)
  /\ \A p \in Polls : WF_vars(Poll(p)) /\ WF_vars(PollStep(p))
  /\ WF_vars(Prune) /\ WF_vars(Refresh) /\ WF_vars(Refreshed)

Spec == Init /\ [][Next]_vars
FairSpec == Spec /\ Fairness

-----------------------------------------------------------------------------
(* Properties *)

\* Once authorised, the agent stays so: through refreshes that rotate the token
\* or do not, failures, a new authorisation and restarts.
StaysAuthorized == [][tokens.refresh => tokens'.refresh]_vars

\* Whatever the webhook lost, a check or a post failed, or a run left unsaid, a
\* prompt on an issue of the agent's is answered in the end, in a session that is among
\* the newest: behind a page of newer ones the poller does not see that it is stale.
PromptIsAnswered ==
  []<>(quiet /\ assigned /\ tokens.refresh /\ session # "none" /\ Listed => session = "complete")

=============================================================================
