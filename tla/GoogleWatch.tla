----------------------------- MODULE GoogleWatch -----------------------------
(***************************************************************************)
(* The Google plugin's pollers, lib/plugins/google.ts and google/gmail.ts, *)
(* calendar.ts, auth.ts: unread mail of the watched labels and the week's  *)
(* events are published on the bus, under a configuration that is read     *)
(* again when its file changes and a token that expires.                   *)
(***************************************************************************)
EXTENDS Naturals, Sequences, FiniteSets, SequencesExt

CONSTANTS
  Mails,
  Page,      \* the messages a list returns, the latest first
  Remembers, \* maxProcessedIds
  Polls,     \* polls that may be under way at once
  Configs,   \* what google.yaml may say: whether labels are watched, whether a
             \* calendar is, and whether the poll interval is the short one
  MaxEdits

VARIABLES
  yaml, config, \* google.yaml, and as it was last read
  edits,
  service,      \* how many Gmail services there were, the last one has the timer
  timer, calendar, \* the Gmail poll and the Calendar poll are armed
  token,        \* the access token is "good", or "old": none yet, or almost over
  inbox,        \* the unread mails, oldest first
  poll,         \* of each poll: its service, its step and the mails still to look at
  processed,    \* of each service: the mails it published, oldest first
  published,    \* of each service: how often it published a mail
  shared        \* mails two polls of one service had before them at once, or
                \* that a service has forgotten

settings == <<yaml, config, edits, service, timer, calendar>>
vars == <<settings, token, inbox, poll, processed, published, shared>>

Services == 1 .. MaxEdits + 1
Idle == [of |-> 1, step |-> "next", queue |-> <<>>]

Init ==
  /\ yaml \in {c \in Configs : c.labels /\ ~c.often} /\ config = yaml /\ edits = 0
  /\ service = 1 /\ timer = config.labels /\ calendar = config.calendar
  /\ token = "old" /\ inbox = <<>> /\ poll = [p \in Polls |-> Idle]
  /\ processed = [s \in Services |-> <<>>] /\ shared = {}
  /\ published = [s \in Services |-> [m \in Mails |-> 0]]

(* The file. *)

Edit ==
  /\ edits < MaxEdits /\ yaml' \in Configs /\ edits' = edits + 1
  /\ UNCHANGED <<config, service, timer, calendar, token, inbox, poll, processed, published, shared>>

\* Gmail starts anew when its labels or the interval changed, the calendar when
\* the interval did; start() arms nothing where nothing is watched.
IntervalOnly == config.often # yaml.often
GmailChanged == config.labels # yaml.labels \/ config.often # yaml.often
CalendarChanged == config.often # yaml.often

Reload ==
  /\ config # yaml /\ config' = yaml
  /\ service' = (IF GmailChanged THEN service + 1 ELSE service)
  /\ timer' = (IF GmailChanged THEN yaml.labels ELSE timer)
  /\ calendar' = (IF CalendarChanged THEN yaml.calendar ELSE calendar)
  /\ UNCHANGED <<yaml, edits, token, inbox, poll, processed, published, shared>>

(* The token. *)

\* getGoogleAccessToken: the cached one until five minutes before its end, else
\* three attempts.
Refreshed == token' = "good"

\* The hourly check asks for a token in time, and when it gets none publishes
\* auth.token_refresh_failed, which nobody subscribes to.
Refresher == token = "old" /\ Refreshed /\ UNCHANGED <<settings, inbox, poll, processed, published, shared>>

Expire ==
  /\ token = "good" /\ token' = "old"
  /\ UNCHANGED <<settings, inbox, poll, processed, published, shared>>

(* Mail. *)

Arrive(m) ==
  /\ ~Contains(inbox, m) /\ \A s \in Services : published[s][m] = 0
  /\ \A p \in Polls : ~Contains(poll[p].queue, m)
  /\ inbox' = Append(inbox, m)
  /\ UNCHANGED <<settings, token, poll, processed, published, shared>>

ReadByUser(m) ==
  /\ \E i \in DOMAIN inbox : inbox[i] = m /\ inbox' = RemoveAt(inbox, i)
  /\ UNCHANGED <<settings, token, poll, processed, published, shared>>

Newest ==
  IF Len(inbox) <= Page THEN Reverse(inbox)
  ELSE Reverse(SubSeq(inbox, Len(inbox) - Page + 1, Len(inbox)))

\* The timer fires whether the poll before has ended or not. Token and list come
\* in one step, as nothing between them reads what others write; without either
\* the poll is over.
Start(p) ==
  /\ poll[p].queue = <<>> /\ timer /\ config.labels /\ Refreshed
  /\ poll' = [poll EXCEPT ![p] = [of |-> service, step |-> "next", queue |-> Newest]]
  /\ UNCHANGED <<settings, inbox, processed, published, shared>>

KnowsNone(p, m) == FALSE
Knows(p, m) == Contains(processed[poll[p].of], m)

\* The polls of p's service that have m before them.
Others(p, m) ==
  {q \in Polls \ {p} : poll[q].of = poll[p].of /\ poll[q].step = "fetch" /\ Head(poll[q].queue) = m}

\* A mail processed before is passed over; any other is fetched.
Look(p) ==
  /\ poll[p].step = "next" /\ poll[p].queue # <<>>
  /\ LET m == Head(poll[p].queue)
     IN IF Knows(p, m)
        THEN poll' = [poll EXCEPT ![p].queue = Tail(@)] /\ UNCHANGED shared
        ELSE /\ poll' = [poll EXCEPT ![p].step = "fetch"]
             /\ shared' = IF Others(p, m) = {} THEN shared ELSE shared \cup {<<poll[p].of, m>>}
  /\ UNCHANGED <<settings, token, inbox, processed, published>>

\* processedIds.add and the oldest beyond the limit out.
Kept(s, m) ==
  LET all == IF Contains(processed[s], m) THEN processed[s] ELSE Append(processed[s], m)
  IN IF Len(all) > Remembers THEN Tail(all) ELSE all

\* The mail is published, or could not be fetched and is tried by the next poll.
Fetch(p) ==
  /\ poll[p].step = "fetch"
  /\ poll' = [poll EXCEPT ![p].step = "next", ![p].queue = Tail(@)]
  /\ LET m == Head(poll[p].queue)
         s == poll[p].of
     IN \/ /\ processed' = [processed EXCEPT ![s] = Kept(s, m)]
           /\ published' = [published EXCEPT ![s][m] = IF @ = 2 THEN 2 ELSE @ + 1]
           /\ shared' = shared \cup ({s} \X (ToSet(processed[s]) \ ToSet(Kept(s, m))))
        \/ UNCHANGED <<processed, published, shared>>
  /\ UNCHANGED <<settings, token, inbox>>

Next ==
  \/ Edit \/ Reload \/ Refresher \/ Expire
  \/ \E m \in Mails : Arrive(m) \/ ReadByUser(m)
  \/ \E p \in Polls : Start(p) \/ Look(p) \/ Fetch(p)

Spec == Init /\ [][Next]_vars

-----------------------------------------------------------------------------
TypeOK ==
  /\ yaml \in Configs /\ config \in Configs /\ edits \in 0 .. MaxEdits
  /\ service \in Services /\ timer \in BOOLEAN /\ calendar \in BOOLEAN
  /\ token \in {"good", "old"} /\ inbox \in Seq(Mails) /\ IsInjective(inbox)
  /\ \A p \in Polls : poll[p].of \in Services /\ Len(poll[p].queue) <= Page
  /\ \A s \in Services : processed[s] \in Seq(Mails) /\ Len(processed[s]) <= Remembers
  /\ published \in [Services -> [Mails -> 0 .. 2]]

\* A mail stays unread, so every poll lists it again: a service publishes it a
\* second time only when two of its polls were fetching it at once or it fell
\* out of the last Remembers.
MailsOnce ==
  \A s \in Services, m \in Mails : published[s][m] > 1 => <<s, m>> \in shared

\* Mail is polled exactly when the configuration in force watches a label.
WatchedIsPolled == timer = config.labels

=============================================================================
