-------------------------- MODULE TaskTrackerProofs --------------------------
(***************************************************************************)
(* Proofs about TaskTracker, for every set of calls, agents and sweeps and *)
(* every bound.  The inductive invariant adds to the two properties that   *)
(* the maps file every call under its own correlation id, that only calls  *)
(* handed over are filed, polled or answered.                              *)
(***************************************************************************)
EXTENDS TaskTracker, FiniteSetTheorems, TLAPS

Filed(m) == \A i \in Cid : m[i] # None => CidOf[m[i]] = i /\ m[i] \in handed

Filing ==
  /\ Filed(tasks) /\ Filed(pending) /\ Filed(store)
  /\ \A c \in Call : replies[c] > 0 => c \in handed
  /\ \A s \in Sweepers : sweep[s].at # "idle" => sweep[s].call \in handed

Inv == TypeOK /\ Filing /\ OwedIsHeld /\ SettledIsForgotten

CidMap == [Cid -> Call \union {None}]

(***************************************************************************)
(* Forgetting ids keeps a map a map, and only removes entries.             *)
(***************************************************************************)
LEMMA ForgetType ==
  ASSUME NEW m \in CidMap, NEW gone
  PROVE  /\ Forget(m, gone) \in CidMap
         /\ \A i \in Cid : Forget(m, gone)[i] = IF i \in gone THEN None ELSE m[i]
BY DEF Forget, CidMap

LEMMA AddOneType ==
  ASSUME NEW count \in [Call -> Nat], NEW calls
  PROVE  /\ AddOne(count, calls) \in [Call -> Nat]
         /\ \A c \in Call : AddOne(count, calls)[c] =
                              IF c \in calls THEN count[c] + 1 ELSE count[c]
BY DEF AddOne

(***************************************************************************)
(* What a stretch of the sweep loop does to the state, whatever it began   *)
(* with: the types are kept, and the calls it settled on the way (`out`)   *)
(* are answered and forgotten.                                             *)
(***************************************************************************)
LEMMA WalkEffect ==
  ASSUME TypeOK, NEW s \in Sweepers, NEW at \in Time,
         NEW live \in CidMap, NEW rows \in CidMap,
         NEW polled \in [Call -> Time], NEW settled, NEW gone,
         Walk(s, at, live, rows, polled, settled, gone)
  PROVE  \E out \in SUBSET Entries(live) :
           /\ tasks' = Forget(live, CidsOf(out))
           /\ pending' = Forget(rows, CidsOf(out))
           /\ store' = RowsWithout(gone \union CidsOf(out))
           /\ replies' = AddOne(replies, settled \union out)
           /\ lastPolledAt' \in [Call -> Time]
           /\ sweep' \in [Sweepers -> [at : {"idle", "poll", "record"},
                                       call : Call \union {None}, now : Time]]
           /\ \A r \in Sweepers : sweep'[r] = sweep[r] \/ sweep'[r].at = "idle"
                                  \/ sweep'[r].call \in Entries(live)
<1> DEFINE aged == {c \in Entries(live) : AgedOut(c, at)}
           due == {c \in Entries(live) \ aged : Due(c, at, polled)}
<1>1. PICK stop \in due \union {None}, out \in SUBSET aged :
         /\ tasks' = Forget(live, CidsOf(out))
         /\ pending' = Forget(rows, CidsOf(out))
         /\ store' = RowsWithout(gone \union CidsOf(out))
         /\ replies' = AddOne(replies, settled \union out)
         /\ lastPolledAt' = [c \in Call |-> IF c = stop THEN at ELSE polled[c]]
         /\ sweep' = [sweep EXCEPT ![s] =
                        IF stop = None THEN Idle
                        ELSE [at |-> "poll", call |-> stop, now |-> at]]
  BY DEF Walk
<1>2. stop \in Entries(live) \union {None} /\ Entries(live) \subseteq Call
  BY DEF Entries, CidMap
<1>3. lastPolledAt' \in [Call -> Time]
  BY <1>1
<1>4. 0 \in Time
  BY TrackerAssumption DEF Time, TrackerAssumption
<1>5. /\ sweep' \in [Sweepers -> [at : {"idle", "poll", "record"},
                                  call : Call \union {None}, now : Time]]
      /\ \A r \in Sweepers : sweep'[r] = sweep[r] \/ sweep'[r].at = "idle"
                             \/ sweep'[r].call \in Entries(live)
  <2>1. CASE stop = None
    BY <1>1, <1>4, <2>1 DEF TypeOK, Idle
  <2>2. CASE stop # None
    BY <1>1, <1>2, <2>2 DEF TypeOK
  <2> QED BY <2>1, <2>2
<1> QED BY <1>1, <1>3, <1>5

(***************************************************************************)
(* The heart of the argument.  A step that leaves the maps `live` and      *)
(* `rows`, has answered `settled` and forgotten exactly their ids, and     *)
(* then answers and forgets the calls `out`, keeps every owed call filed   *)
(* and every answered call forgotten.                                      *)
(***************************************************************************)
Leaves(live, rows, settled, gone) ==
  /\ settled \subseteq handed
  /\ gone = CidsOf(settled)
  /\ \A i \in gone : live[i] = None /\ rows[i] = None
  /\ \A i \in Cid : /\ live[i] \in {tasks[i], pending[i], None}
                    /\ rows[i] \in {tasks[i], pending[i], None}
  /\ \A c \in handed : CidOf[c] \notin gone /\ Unshared(c)
                       /\ c \in {tasks[CidOf[c]], pending[CidOf[c]]}
                       => c \in {live[CidOf[c]], rows[CidOf[c]]}

Settles(live, rows, settled, gone, out) ==
  /\ out \subseteq Entries(live)
  /\ tasks' = Forget(live, CidsOf(out))
  /\ pending' = Forget(rows, CidsOf(out))
  /\ store' = RowsWithout(gone \union CidsOf(out))
  /\ replies' = AddOne(replies, settled \union out)

LEMMA SettleKeeps ==
  ASSUME Inv, handed' = handed,
         NEW live \in CidMap, NEW rows \in CidMap, NEW settled, NEW gone, NEW out,
         Leaves(live, rows, settled, gone),
         Settles(live, rows, settled, gone, out)
  PROVE  /\ Filed(tasks)' /\ Filed(pending)' /\ Filed(store)'
         /\ \A c \in Call : replies'[c] > 0 => c \in handed'
         /\ OwedIsHeld' /\ SettledIsForgotten'
         /\ Entries(live) \subseteq handed
         /\ tasks' \in CidMap /\ pending' \in CidMap /\ store' \in CidMap
         /\ replies' \in [Call -> Nat]
<1>0. /\ handed \subseteq Call /\ replies \in [Call -> Nat]
      /\ tasks \in CidMap /\ pending \in CidMap /\ store \in CidMap
  BY DEF Inv, TypeOK, CidMap
<1>1. /\ tasks' \in CidMap /\ pending' \in CidMap /\ store' \in CidMap
      /\ \A i \in Cid : tasks'[i] = IF i \in CidsOf(out) THEN None ELSE live[i]
      /\ \A i \in Cid : pending'[i] = IF i \in CidsOf(out) THEN None ELSE rows[i]
      /\ \A i \in Cid : store'[i] = IF i \in gone \union CidsOf(out) THEN None ELSE store[i]
  BY <1>0, ForgetType DEF Settles, RowsWithout
<1>2. /\ replies' \in [Call -> Nat]
      /\ \A c \in Call : replies'[c] = IF c \in settled \union out THEN replies[c] + 1
                                       ELSE replies[c]
  BY <1>0, AddOneType DEF Settles
<1>4. \A i \in Cid : /\ live[i] # None => CidOf[live[i]] = i /\ live[i] \in handed
                     /\ rows[i] # None => CidOf[rows[i]] = i /\ rows[i] \in handed
                     /\ store[i] # None => CidOf[store[i]] = i /\ store[i] \in handed
  BY DEF Inv, Filing, Filed, Leaves
<1>3. \A i \in Cid : /\ tasks'[i] # None => CidOf[tasks'[i]] = i /\ tasks'[i] \in handed'
                     /\ pending'[i] # None => CidOf[pending'[i]] = i /\ pending'[i] \in handed'
                     /\ store'[i] # None => CidOf[store'[i]] = i /\ store'[i] \in handed'
  BY <1>1, <1>4
<1>5. Entries(live) \subseteq handed
  <2> SUFFICES ASSUME NEW i \in Cid, live[i] # None PROVE live[i] \in handed
    BY DEF Entries
  <2> QED BY <1>4
<1>6. out \subseteq handed /\ settled \subseteq handed
  BY <1>5 DEF Settles, Leaves
<1>7. \A c \in Call : replies'[c] > 0 => c \in handed'
  BY <1>0, <1>2, <1>6 DEF Inv, Filing
<1>8. OwedIsHeld'
  <2> SUFFICES ASSUME NEW c \in handed, replies'[c] = 0, Unshared(c)
               PROVE  /\ store'[CidOf[c]] = c
                      /\ c \in {tasks'[CidOf[c]], pending'[CidOf[c]]}
    BY DEF OwedIsHeld, Unshared
  <2>1. c \in Call /\ CidOf[c] \in Cid
    BY <1>0, TrackerAssumption DEF TrackerAssumption
  <2>2. replies[c] = 0 /\ c \notin settled \union out
    BY <1>0, <1>2, <2>1
  <2>3. CidOf[c] \notin gone /\ CidOf[c] \notin CidsOf(out)
    BY <1>0, <1>6, <2>1, <2>2 DEF CidsOf, Unshared, Leaves
  <2>4. store[CidOf[c]] = c /\ c \in {tasks[CidOf[c]], pending[CidOf[c]]}
    BY <2>2 DEF Inv, OwedIsHeld
  <2>5. c \in {live[CidOf[c]], rows[CidOf[c]]}
    BY <2>3, <2>4 DEF Leaves
  <2> QED BY <1>1, <2>1, <2>3, <2>4, <2>5
<1>9. SettledIsForgotten'
  <2> SUFFICES ASSUME NEW c \in Call, replies'[c] > 0, NEW i \in Cid
               PROVE  c # tasks'[i] /\ c # pending'[i] /\ c # store'[i]
    BY DEF SettledIsForgotten, Entries
  <2>0. c # None
    BY TrackerAssumption DEF TrackerAssumption
  <2>1. CASE replies[c] > 0
    <3>1. c # tasks[i] /\ c # pending[i] /\ c # store[i]
      BY <2>0, <2>1 DEF Inv, SettledIsForgotten, Entries
    <3>2. c # live[i] /\ c # rows[i]
      BY <2>0, <3>1 DEF Leaves
    <3> QED BY <1>1, <2>0, <3>1, <3>2
  <2>2. CASE ~(replies[c] > 0)
    <3>1. c \in settled \union out
      BY <1>2, <2>2
    <3>2. CidOf[c] \in gone \union CidsOf(out)
      BY <3>1 DEF CidsOf, Leaves
    <3>3. CASE i = CidOf[c]
      BY <1>1, <2>0, <3>2, <3>3 DEF Leaves
    <3>4. CASE i # CidOf[c]
      BY <1>3, <2>0, <3>4
    <3> QED BY <3>3, <3>4
  <2> QED BY <2>1, <2>2
<1>10. Filed(tasks)' /\ Filed(pending)' /\ Filed(store)'
  BY <1>3 DEF Filed
<1> QED BY <1>1, <1>2, <1>5, <1>7, <1>8, <1>9, <1>10

LEMMA WalkKeeps ==
  ASSUME Inv, NEW s \in Sweepers, NEW at \in Time,
         NEW live \in CidMap, NEW rows \in CidMap,
         NEW polled \in [Call -> Time], NEW settled, NEW gone,
         Leaves(live, rows, settled, gone),
         Walk(s, at, live, rows, polled, settled, gone),
         UNCHANGED <<environment, handed, registeredAt, posts, deltas>>,
         via' \in [Call -> Agent]
  PROVE  Inv'
<1>1. TypeOK
  BY DEF Inv
<1>2. PICK out \in SUBSET Entries(live) :
         /\ tasks' = Forget(live, CidsOf(out))
         /\ pending' = Forget(rows, CidsOf(out))
         /\ store' = RowsWithout(gone \union CidsOf(out))
         /\ replies' = AddOne(replies, settled \union out)
         /\ lastPolledAt' \in [Call -> Time]
         /\ sweep' \in [Sweepers -> [at : {"idle", "poll", "record"},
                                     call : Call \union {None}, now : Time]]
         /\ \A r \in Sweepers : sweep'[r] = sweep[r] \/ sweep'[r].at = "idle"
                                \/ sweep'[r].call \in Entries(live)
  BY <1>1, WalkEffect
<1>3. Settles(live, rows, settled, gone, out)
  BY <1>2 DEF Settles
<1>4. /\ Filed(tasks)' /\ Filed(pending)' /\ Filed(store)'
      /\ \A c \in Call : replies'[c] > 0 => c \in handed'
      /\ OwedIsHeld' /\ SettledIsForgotten'
      /\ Entries(live) \subseteq handed
      /\ tasks' \in CidMap /\ pending' \in CidMap /\ store' \in CidMap
      /\ replies' \in [Call -> Nat]
  BY <1>3, SettleKeeps
<1>5. \A r \in Sweepers : sweep'[r].at # "idle" => sweep'[r].call \in handed'
  BY <1>2, <1>4 DEF Inv, Filing
<1>6. Filing'
  BY <1>4, <1>5 DEF Filing
<1>7. TypeOK'
  BY <1>1, <1>2, <1>4 DEF TypeOK, CidMap, environment
<1> QED BY <1>4, <1>6, <1>7 DEF Inv

LEMMA ForgetNothing ==
  ASSUME NEW m \in CidMap
  PROVE  Forget(m, CidsOf({})) = m
BY DEF Forget, CidsOf, CidMap

(***************************************************************************)
(* A sweep that comes back from an await has settled its own task, or none *)
(* (`settled` is empty or the call it polled), before it walks on.         *)
(***************************************************************************)
LEMMA WalkOnKeeps ==
  ASSUME Inv, NEW s \in Sweepers, sweep[s].at # "idle",
         NEW settled, settled = {} \/ settled = {sweep[s].call},
         WalkOn(s, settled),
         UNCHANGED <<environment, handed, registeredAt, via, posts, deltas>>
  PROVE  Inv'
<1> DEFINE gone == CidsOf(settled)
           live == Forget(tasks, gone)
           rows == Forget(pending, gone)
<1>1. /\ tasks \in CidMap /\ pending \in CidMap
      /\ sweep[s].now \in Time /\ lastPolledAt \in [Call -> Time]
      /\ via \in [Call -> Agent] /\ sweep[s].call \in handed
  BY DEF Inv, TypeOK, Filing, CidMap
<1>2. /\ live \in CidMap /\ rows \in CidMap
      /\ \A i \in Cid : live[i] = IF i \in gone THEN None ELSE tasks[i]
      /\ \A i \in Cid : rows[i] = IF i \in gone THEN None ELSE pending[i]
  BY <1>1, ForgetType
<1>3. settled \subseteq handed
  BY <1>1
<1>4. gone \subseteq Cid /\ \A c \in handed : CidOf[c] \in Cid
  BY <1>3, TrackerAssumption DEF CidsOf, TrackerAssumption, Inv, TypeOK
<1>5. Leaves(live, rows, settled, gone)
  BY <1>2, <1>3, <1>4 DEF Leaves
<1>6. Walk(s, sweep[s].now, live, rows, lastPolledAt, settled, gone)
  BY DEF WalkOn
<1>7. via' \in [Call -> Agent]
  BY <1>1
<1> HIDE DEF gone, live, rows
<1> QED BY <1>1, <1>2, <1>5, <1>6, <1>7, WalkKeeps

(***************************************************************************)
(* A new sweep first moves resumable rows from `pending` to `tasks` and    *)
(* answers the interrupted ones.                                           *)
(***************************************************************************)
LEMMA SweepStartKeeps ==
  ASSUME Inv, NEW s \in Sweepers, SweepStart(s)
  PROVE  Inv'
<1> DEFINE live == [i \in Cid |-> IF pending[i] \in Resumed THEN pending[i]
                                  ELSE IF pending[i] \in Interrupted THEN None
                                  ELSE tasks[i]]
           rows == Forget(pending, CidsOf(Resumed \union Interrupted))
           polled == [c \in Call |-> IF c \in Resumed THEN 0 ELSE lastPolledAt[c]]
           gone == CidsOf(Interrupted)
<1>1. /\ Walk(s, now, live, rows, polled, Interrupted, gone)
      /\ UNCHANGED <<environment, handed, registeredAt, posts, deltas>>
      /\ \E pick \in [Resumed -> Agent] :
           via' = [c \in Call |-> IF c \in Resumed THEN pick[c] ELSE via[c]]
  BY DEF SweepStart
<1>2. /\ tasks \in CidMap /\ pending \in CidMap /\ now \in Time
      /\ lastPolledAt \in [Call -> Time] /\ via \in [Call -> Agent]
      /\ handed \subseteq Call
  BY DEF Inv, TypeOK, CidMap
<1>3. via' \in [Call -> Agent]
  BY <1>1, <1>2
<1>4. /\ Resumed \subseteq Entries(pending) /\ Interrupted \subseteq Entries(pending)
      /\ Resumed \intersect Interrupted = {}
  BY DEF Resumed, Interrupted
<1>5. \A c \in Entries(pending) : c \in handed /\ CidOf[c] \in Cid /\ pending[CidOf[c]] = c
  <2> SUFFICES ASSUME NEW i \in Cid, pending[i] # None
               PROVE  /\ pending[i] \in handed /\ CidOf[pending[i]] \in Cid
                      /\ pending[CidOf[pending[i]]] = pending[i]
    BY DEF Entries
  <2> QED BY DEF Inv, Filing, Filed
<1>6. live \in CidMap /\ polled \in [Call -> Time]
  <2>1. 0 \in Time
    BY TrackerAssumption DEF Time, TrackerAssumption
  <2> QED BY <1>2, <2>1 DEF CidMap
<1>7. /\ rows \in CidMap
      /\ \A i \in Cid : rows[i] = IF i \in CidsOf(Resumed \union Interrupted)
                                  THEN None ELSE pending[i]
  BY <1>2, ForgetType
<1>8. Leaves(live, rows, Interrupted, gone)
  <2>1. Interrupted \subseteq handed
    BY <1>4, <1>5
  <2>2. \A i \in gone : i \in Cid /\ pending[i] \in Interrupted
    BY <1>4, <1>5 DEF CidsOf
  <2>3. \A i \in gone : live[i] = None /\ rows[i] = None
    <3> SUFFICES ASSUME NEW i \in gone PROVE live[i] = None /\ rows[i] = None
      OBVIOUS
    <3>1. i \in Cid /\ pending[i] \in Interrupted /\ pending[i] \notin Resumed
      BY <1>4, <2>2
    <3>2. i \in CidsOf(Resumed \union Interrupted)
      BY DEF CidsOf
    <3> QED BY <1>7, <3>1, <3>2
  <2>4. \A i \in Cid : /\ live[i] \in {tasks[i], pending[i], None}
                       /\ rows[i] \in {tasks[i], pending[i], None}
    BY <1>7
  <2>5. ASSUME NEW c \in handed, CidOf[c] \notin gone, Unshared(c),
               c \in {tasks[CidOf[c]], pending[CidOf[c]]}
        PROVE  c \in {live[CidOf[c]], rows[CidOf[c]]}
    <3>1. CidOf[c] \in Cid /\ c # None
      BY <1>2, TrackerAssumption DEF TrackerAssumption
    <3>2. \A d \in Resumed \union Interrupted : CidOf[d] = CidOf[c] => d = c
      BY <1>2, <1>4, <1>5, <2>5 DEF Unshared
    <3>3. c \notin Interrupted
      BY <2>5 DEF CidsOf
    <3>4. CASE c \in Resumed
      <4>1. pending[CidOf[c]] = c
        BY <1>4, <1>5, <3>4
      <4> QED BY <3>1, <3>4, <4>1
    <3>5. CASE c \notin Resumed
      <4>1. CidOf[c] \notin CidsOf(Resumed \union Interrupted)
        BY <3>2, <3>3, <3>5 DEF CidsOf
      <4>2. pending[CidOf[c]] \notin Resumed \union Interrupted
        <5> SUFFICES ASSUME pending[CidOf[c]] \in Resumed \union Interrupted
                     PROVE  FALSE
          OBVIOUS
        <5>1. CidOf[pending[CidOf[c]]] = CidOf[c]
          BY <1>4, <1>5, <3>1, TrackerAssumption DEF Inv, Filing, Filed, TrackerAssumption, Entries
        <5> QED BY <3>2, <3>3, <3>5, <5>1
      <4>3. live[CidOf[c]] = tasks[CidOf[c]] /\ rows[CidOf[c]] = pending[CidOf[c]]
        BY <1>7, <3>1, <4>1, <4>2
      <4> QED BY <2>5, <4>3
    <3> QED BY <3>4, <3>5
  <2> QED BY <2>1, <2>3, <2>4, <2>5 DEF Leaves
<1> HIDE DEF live, rows, polled, gone
<1> QED BY <1>1, <1>2, <1>3, <1>6, <1>7, <1>8, WalkKeeps

LEMMA AddNothing ==
  ASSUME NEW count \in [Call -> Nat]
  PROVE  AddOne(count, {}) = count
BY DEF AddOne

(***************************************************************************)
(* A callback moves its holder into `tasks` if need be, and then settles   *)
(* it or leaves it tracked.                                                *)
(***************************************************************************)
LEMMA HandleCallbackKeeps ==
  ASSUME Inv, NEW p \in posts, HandleCallback(p)
  PROVE  Inv'
<1> DEFINE i == CidOf[p.call]
           t == Holder(i)
           gone == IF p.state # "working" THEN {i} ELSE {}
           settled == IF p.state # "working" THEN {t} ELSE {}
           moved == [tasks EXCEPT ![i] = t]
           left == [pending EXCEPT ![i] = IF @ = t THEN None ELSE @]
           live == Forget(moved, gone)
           rows == Forget(left, gone)
<1>1. /\ handed' = handed /\ t # None
      /\ UNCHANGED <<environment, registeredAt, sweep>>
      /\ posts' = posts \ {p}
      /\ tasks' = live /\ pending' = rows /\ store' = RowsWithout(gone)
      /\ lastPolledAt' = [lastPolledAt EXCEPT ![t] = now]
      /\ \/ \E a \in Resolvable(t) : via' = [via EXCEPT ![t] = a]
         \/ via' = via
      /\ replies' = IF gone # {} THEN AddOne(replies, {t}) ELSE replies
      /\ deltas' = IF p.state = "terminal" THEN AddOne(deltas, {t}) ELSE deltas
  BY DEF HandleCallback, ApplyCallback
<1>2. /\ tasks \in CidMap /\ pending \in CidMap /\ store \in CidMap
      /\ handed \subseteq Call /\ replies \in [Call -> Nat]
      /\ deltas \in [Call -> Nat]
      /\ posts \subseteq [call : Call, state : RemoteState]
  BY DEF Inv, TypeOK, CidMap
<1>3. i \in Cid /\ t \in {tasks[i], pending[i]}
  BY <1>2, TrackerAssumption DEF Holder, TrackerAssumption
<1>4. t \in handed /\ CidOf[t] = i
  BY <1>1, <1>3 DEF Inv, Filing, Filed
<1> HIDE DEF t
<1>5. /\ moved \in CidMap /\ left \in CidMap
      /\ \A j \in Cid : moved[j] = IF j = i THEN t ELSE tasks[j]
      /\ \A j \in Cid : left[j] = IF j = i /\ pending[j] = t THEN None ELSE pending[j]
  BY <1>2, <1>3, <1>4 DEF CidMap
<1>6. /\ live \in CidMap /\ rows \in CidMap
      /\ \A j \in Cid : live[j] = IF j \in gone THEN None ELSE moved[j]
      /\ \A j \in Cid : rows[j] = IF j \in gone THEN None ELSE left[j]
  <2> HIDE DEF moved, left, gone
  <2> QED BY <1>5, ForgetType
<1>7. gone = CidsOf(settled)
  BY <1>4 DEF CidsOf
<1>8. Leaves(live, rows, settled, gone)
  <2>1. settled \subseteq handed /\ gone \subseteq Cid
    BY <1>3, <1>4
  <2>2. \A j \in Cid : /\ live[j] \in {tasks[j], pending[j], None}
                       /\ rows[j] \in {tasks[j], pending[j], None}
    <3> HIDE DEF live, rows, moved, left, gone
    <3> QED BY <1>3, <1>5, <1>6
  <2>3. ASSUME NEW c \in handed, CidOf[c] \notin gone, Unshared(c),
               c \in {tasks[CidOf[c]], pending[CidOf[c]]}
        PROVE  c \in {live[CidOf[c]], rows[CidOf[c]]}
    <3>1. CidOf[c] \in Cid
      BY <1>2, TrackerAssumption DEF TrackerAssumption
    <3>2. CASE CidOf[c] = i
      <4>1. t = c
        BY <1>2, <1>4, <2>3, <3>2 DEF Unshared
      <4> HIDE DEF live, rows, moved, left, gone
      <4> QED BY <1>3, <1>5, <1>6, <2>3, <3>1, <3>2, <4>1
    <3>3. CASE CidOf[c] # i
      <4> HIDE DEF live, rows, moved, left, gone
      <4> QED BY <1>3, <1>5, <1>6, <2>3, <3>1, <3>3
    <3> QED BY <3>2, <3>3
  <2>4. \A j \in gone : live[j] = None /\ rows[j] = None
    <3> HIDE DEF live, rows, moved, left, gone
    <3> QED BY <1>6, <2>1
  <2> HIDE DEF live, rows, gone, settled
  <2> QED BY <1>7, <2>1, <2>2, <2>3, <2>4 DEF Leaves
<1>9. Settles(live, rows, settled, gone, {})
  <2>1. Forget(live, CidsOf({})) = live /\ Forget(rows, CidsOf({})) = rows
    <3> HIDE DEF live, rows
    <3> QED BY <1>6, ForgetNothing
  <2>2. gone \union CidsOf({}) = gone /\ settled \union {} = settled
    BY DEF CidsOf
  <2>3. replies' = AddOne(replies, settled)
    BY <1>1, <1>2, AddNothing
  <2> HIDE DEF live, rows, gone, settled
  <2> QED BY <1>1, <2>1, <2>2, <2>3 DEF Settles
<1>10. /\ Filed(tasks)' /\ Filed(pending)' /\ Filed(store)'
       /\ \A c \in Call : replies'[c] > 0 => c \in handed'
       /\ OwedIsHeld' /\ SettledIsForgotten'
       /\ tasks' \in CidMap /\ pending' \in CidMap /\ store' \in CidMap
       /\ replies' \in [Call -> Nat]
  <2> HIDE DEF live, rows, gone, settled
  <2> QED BY <1>1, <1>6, <1>8, <1>9, SettleKeeps
<1>11. Filing'
  <2>1. sweep' = sweep /\ handed' = handed
    BY <1>1
  <2> QED BY <1>10, <2>1 DEF Filing, Inv
<1>12. TypeOK'
  <2> HIDE DEF live, rows, gone, settled
  <2>1. deltas' \in [Call -> Nat]
    BY <1>1, <1>2, AddOneType
  <2>3. now \in Time /\ lastPolledAt' \in [Call -> Time] /\ via' \in [Call -> Agent]
    <3>1. now \in Time /\ lastPolledAt \in [Call -> Time] /\ via \in [Call -> Agent]
      BY DEF Inv, TypeOK
    <3>2. Resolvable(t) \subseteq Agent
      BY <1>2, <1>4, TrackerAssumption DEF Resolvable, TrackerAssumption, Inv, TypeOK
    <3> QED BY <1>1, <3>1, <3>2
  <2>4. posts' \subseteq posts
    BY <1>1
  <2> QED BY <1>1, <1>2, <1>10, <2>1, <2>3, <2>4 DEF Inv, TypeOK, CidMap, environment
<1> QED BY <1>10, <1>11, <1>12 DEF Inv

-----------------------------------------------------------------------------
THEOREM InitEstablishesInv == Init => Inv
<1> SUFFICES ASSUME Init PROVE Inv
  OBVIOUS
<1> USE TrackerAssumption DEF TrackerAssumption
<1>0. 0 \in Time
  BY DEF Time
<1>1. TypeOK
  BY <1>0 DEF Init, TypeOK, RemoteState, Idle, Time
<1>2. Filing
  BY DEF Init, Filing, Filed, Idle
<1>3. OwedIsHeld
  BY DEF Init, OwedIsHeld
<1>4. SettledIsForgotten
  BY DEF Init, SettledIsForgotten
<1> QED BY <1>1, <1>2, <1>3, <1>4 DEF Inv

THEOREM NextKeepsInv == Inv /\ [Next]_vars => Inv'
<1> SUFFICES ASSUME Inv, [Next]_vars PROVE Inv'
  OBVIOUS
<1>0. TypeOK /\ Filing /\ OwedIsHeld /\ SettledIsForgotten
  BY DEF Inv
<1>1. ASSUME Tick PROVE Inv'
  <2>1. now' \in Time
    BY <1>0, <1>1, TrackerAssumption DEF Tick, Time, TypeOK, TrackerAssumption
  <2>2. /\ TypeOK' 
        /\ UNCHANGED <<handed, trackerMaps, sweep, outputs>>
    BY <1>0, <1>1, <2>1 DEF Tick, TypeOK, trackerMaps, outputs
  <2> QED BY <1>0, <2>2 DEF Inv, Filing, Filed, OwedIsHeld, SettledIsForgotten,
                            Entries, Unshared, trackerMaps, outputs
<1>2. ASSUME Restart PROVE Inv'
  <2>1. 0 \in Time
    BY TrackerAssumption DEF Time, TrackerAssumption
  <2>2. TypeOK'
    BY <1>0, <1>2, <2>1, TrackerAssumption
    DEF Restart, TypeOK, Idle, outputs, TrackerAssumption
  <2>3. Filing'
    BY <1>0, <1>2 DEF Restart, Filing, Filed, Idle, outputs
  <2>4. OwedIsHeld'
    BY <1>0, <1>2 DEF Restart, OwedIsHeld, Unshared, outputs
  <2>5. SettledIsForgotten'
    <3>1. ASSUME NEW c \in Call, replies'[c] > 0, NEW i \in Cid
          PROVE  c # tasks'[i] /\ c # pending'[i] /\ c # store'[i]
      <4>1. c # None
        BY TrackerAssumption DEF TrackerAssumption
      <4>2. c # store[i]
        BY <1>0, <1>2, <3>1, <4>1 DEF Restart, SettledIsForgotten, Entries, outputs
      <4> QED BY <1>2, <4>1, <4>2 DEF Restart
    <3> QED BY <3>1 DEF SettledIsForgotten, Entries
  <2> QED BY <2>2, <2>3, <2>4, <2>5 DEF Inv
<1>3. ASSUME NEW a \in Agent, Register(a) PROVE Inv'
  <2>1. /\ TypeOK' 
        /\ UNCHANGED <<handed, trackerMaps, sweep, outputs>>
    BY <1>0, <1>3 DEF Register, TypeOK, trackerMaps, outputs
  <2> QED BY <1>0, <2>1 DEF Inv, Filing, Filed, OwedIsHeld, SettledIsForgotten,
                            Entries, Unshared, trackerMaps, outputs
<1>4. ASSUME NEW c \in Call, RemoteMoves(c) PROVE Inv'
  <2>1. /\ TypeOK' 
        /\ UNCHANGED <<handed, trackerMaps, sweep, outputs>>
    BY <1>0, <1>4 DEF RemoteMoves, TypeOK, trackerMaps, outputs
  <2> QED BY <1>0, <2>1 DEF Inv, Filing, Filed, OwedIsHeld, SettledIsForgotten,
                            Entries, Unshared, trackerMaps, outputs
<1>5. ASSUME NEW c \in Call, Track(c) PROVE Inv'
  <2> USE TrackerAssumption DEF TrackerAssumption
  <2>1. TypeOK'
    BY <1>0, <1>5 DEF Track, TypeOK, environment, outputs
  <2>2. Filing'
    BY <1>0, <1>5 DEF Track, Filing, Filed, TypeOK, outputs
  <2>3. OwedIsHeld'
    <3> SUFFICES ASSUME NEW d \in handed', replies'[d] = 0, Unshared(d)
                 PROVE  /\ store'[CidOf[d]] = d
                        /\ d \in {tasks'[CidOf[d]], pending'[CidOf[d]]}
      BY DEF OwedIsHeld, Unshared
    <3>0. tasks \in CidMap /\ store \in CidMap /\ handed \subseteq Call
      BY <1>0 DEF TypeOK, CidMap
    <3>1. CASE d = c
      BY <1>5, <3>0, <3>1 DEF Track, CidMap
    <3>2. CASE d # c
      <4>1. d \in handed /\ CidOf[d] # CidOf[c]
        BY <1>5, <3>2 DEF Track, Unshared
      <4>2. CidOf[d] \in Cid /\ replies[d] = 0
        BY <1>5, <3>0, <4>1 DEF Track, outputs
      <4>3. store[CidOf[d]] = d /\ d \in {tasks[CidOf[d]], pending[CidOf[d]]}
        BY <1>0, <4>1, <4>2 DEF OwedIsHeld
      <4> QED BY <1>5, <3>0, <4>1, <4>2, <4>3 DEF Track, CidMap
    <3> QED BY <3>1, <3>2
  <2>4. SettledIsForgotten'
    <3>1. ASSUME NEW d \in Call, replies'[d] > 0, NEW i \in Cid
          PROVE  d # tasks'[i] /\ d # pending'[i] /\ d # store'[i]
      <4>1. d \in handed /\ d # c /\ replies[d] > 0
        BY <1>0, <1>5, <3>1 DEF Track, Filing, outputs
      <4>2. d # tasks[i] /\ d # pending[i] /\ d # store[i]
        BY <1>0, <4>1 DEF SettledIsForgotten, Entries
      <4>3. tasks \in CidMap /\ store \in CidMap
        BY <1>0 DEF TypeOK, CidMap
      <4> QED BY <1>5, <4>1, <4>2, <4>3 DEF Track, CidMap
    <3> QED BY <3>1 DEF SettledIsForgotten, Entries
  <2> QED BY <2>1, <2>2, <2>3, <2>4 DEF Inv
<1>6. ASSUME NEW c \in Call, PushAccepted(c) PROVE Inv'
  <2>1. /\ TypeOK' 
        /\ UNCHANGED <<handed, trackerMaps, sweep, outputs>>
    BY <1>0, <1>6 DEF PushAccepted, TypeOK, environment, trackerMaps, outputs
  <2> QED BY <1>0, <2>1 DEF Inv, Filing, Filed, OwedIsHeld, SettledIsForgotten,
                            Entries, Unshared, trackerMaps, outputs
<1>7. ASSUME NEW s \in Sweepers, SweepStart(s) PROVE Inv'
  BY <1>7, SweepStartKeeps
<1>8. ASSUME NEW s \in Sweepers, PollNoNews(s) PROVE Inv'
  BY <1>8, WalkOnKeeps DEF PollNoNews, Polling
<1>9. ASSUME NEW s \in Sweepers, PollInput(s) PROVE Inv'
  BY <1>9, WalkOnKeeps DEF PollInput, Polling
<1>10. ASSUME NEW s \in Sweepers, PollTerminal(s) PROVE Inv'
  <2>1. deltas' \in [Call -> Nat]
    BY <1>0, <1>10, AddOneType DEF PollTerminal, TypeOK
  <2>2. /\ sweep' \in [Sweepers -> [at : {"idle", "poll", "record"},
                                    call : Call \union {None}, now : Time]]
        /\ \A r \in Sweepers : /\ sweep'[r].call = sweep[r].call
                               /\ sweep'[r].at # "idle" => sweep[r].at # "idle"
    BY <1>0, <1>10 DEF PollTerminal, Polling, TypeOK
  <2>3. UNCHANGED <<handed, trackerMaps, replies>>
    BY <1>10 DEF PollTerminal
  <2>4. TypeOK'
    BY <1>0, <1>10, <2>1, <2>2 DEF PollTerminal, TypeOK, environment, trackerMaps
  <2> QED BY <1>0, <2>2, <2>3, <2>4 DEF Inv, Filing, Filed, OwedIsHeld,
             SettledIsForgotten, Entries, Unshared, trackerMaps
<1>15. ASSUME NEW s \in Sweepers, PollStalls(s) PROVE Inv'
  <2>1. /\ sweep' \in [Sweepers -> [at : {"idle", "poll", "record"},
                                    call : Call \union {None}, now : Time]]
        /\ \A r \in Sweepers : sweep'[r].at # "idle" => sweep'[r] = sweep[r]
    BY <1>0, <1>15, TrackerAssumption DEF PollStalls, TypeOK, Idle, Time, TrackerAssumption
  <2>2. UNCHANGED <<handed, trackerMaps, outputs>>
    BY <1>15 DEF PollStalls
  <2>3. TypeOK'
    BY <1>0, <1>15, <2>1, <2>2
    DEF PollStalls, TypeOK, environment, trackerMaps, outputs
  <2> QED BY <1>0, <2>1, <2>2, <2>3 DEF Inv, Filing, Filed, OwedIsHeld, SettledIsForgotten,
                            Entries, Unshared, trackerMaps, outputs
<1>11. ASSUME NEW s \in Sweepers, RecordReturn(s) PROVE Inv'
  BY <1>11, WalkOnKeeps DEF RecordReturn
<1>12. ASSUME NEW p \in posts, HandleCallback(p) PROVE Inv'
  BY <1>12, HandleCallbackKeeps
<1>13. ASSUME NEW p \in posts, CallbackTooLate(p) \/ PushAborted(p) PROVE Inv'
  <2>1. /\ TypeOK' 
        /\ UNCHANGED <<handed, trackerMaps, sweep, outputs>>
    BY <1>0, <1>13 DEF CallbackTooLate, PushAborted, TypeOK, environment, trackerMaps, outputs
  <2> QED BY <1>0, <2>1 DEF Inv, Filing, Filed, OwedIsHeld, SettledIsForgotten,
                            Entries, Unshared, trackerMaps, outputs
<1>14. CASE UNCHANGED vars
  <2>1. /\ TypeOK' 
        /\ UNCHANGED <<handed, trackerMaps, sweep, outputs>>
    BY <1>0, <1>14 DEF vars, TypeOK, trackerMaps, outputs
  <2> QED BY <1>0, <2>1 DEF Inv, Filing, Filed, OwedIsHeld, SettledIsForgotten,
                            Entries, Unshared, trackerMaps, outputs
<1> QED BY <1>1, <1>2, <1>3, <1>4, <1>5, <1>6, <1>7, <1>8, <1>9, <1>10, <1>11,
           <1>12, <1>13, <1>14, <1>15 DEF Next, PollReturn

(***************************************************************************)
(* Type correctness of the tracker.                                        *)
(***************************************************************************)
THEOREM TypeCorrect == Spec => []TypeOK
<1>1. Inv => TypeOK
  BY DEF Inv
<1> QED BY InitEstablishesInv, NextKeepsInv, <1>1, PTL DEF Spec

(***************************************************************************)
(* No call that is owed a reply is ever missing from both maps or from the *)
(* database, whatever sweeps, callbacks and restarts do (#793).            *)
(***************************************************************************)
THEOREM OwedAlwaysHeld == Spec => []OwedIsHeld
<1>1. Inv => OwedIsHeld
  BY DEF Inv
<1> QED BY InitEstablishesInv, NextKeepsInv, <1>1, PTL DEF Spec

(***************************************************************************)
(* An answered call is forgotten everywhere, for good.                     *)
(***************************************************************************)
THEOREM SettledAlwaysForgotten == Spec => []SettledIsForgotten
<1>1. Inv => SettledIsForgotten
  BY DEF Inv
<1> QED BY InitEstablishesInv, NextKeepsInv, <1>1, PTL DEF Spec

(***************************************************************************)
(* The loop answers nothing but entries of the map it walks.               *)
(***************************************************************************)
LEMMA WalkAnswers ==
  ASSUME TypeOK, NEW s, NEW at, NEW live, NEW rows, NEW polled,
         NEW settled, NEW gone, NEW c \in Call,
         Walk(s, at, live, rows, polled, settled, gone), replies'[c] > replies[c]
  PROVE  c \in settled \union Entries(live)
<1>1. PICK out \in SUBSET Entries(live) : replies' = AddOne(replies, settled \union out)
  BY DEF Walk
<1>2. replies \in [Call -> Nat]
  BY DEF TypeOK
<1> QED BY <1>1, <1>2, AddOneType

(***************************************************************************)
(* Whatever overlaps with what, a response that repeats an earlier one is  *)
(* published by a sweep whose poll of that call was already in flight.     *)
(***************************************************************************)
THEOREM DuplicatesNeedAPoll == Spec => DuplicatesComeFromPollsInFlight
<1>1. ASSUME Inv, [Next]_vars, NEW c \in Call,
             replies[c] > 0, replies'[c] > replies[c]
      PROVE  \E s \in Sweepers : sweep[s].call = c
  <2>0. /\ TypeOK /\ replies \in [Call -> Nat] /\ c # None
        /\ c \notin Entries(tasks) \union Entries(pending)
        /\ tasks \in CidMap /\ pending \in CidMap
    BY <1>1, TrackerAssumption DEF Inv, TypeOK, SettledIsForgotten, CidMap, TrackerAssumption
  <2>1. ASSUME NEW s \in Sweepers, NEW settled, WalkOn(s, settled),
               settled \subseteq {sweep[s].call}
        PROVE  sweep[s].call = c
    <3>1. c \in settled \union Entries(Forget(tasks, CidsOf(settled)))
      BY <1>1, <2>0, <2>1, WalkAnswers DEF WalkOn
    <3>2. Entries(Forget(tasks, CidsOf(settled))) \subseteq Entries(tasks)
      BY <2>0, ForgetType DEF Entries
    <3> QED BY <2>0, <2>1, <3>1, <3>2
  <2>2. ASSUME NEW s \in Sweepers, SweepStart(s) PROVE FALSE
    <3> DEFINE live == [i \in Cid |-> IF pending[i] \in Resumed THEN pending[i]
                                      ELSE IF pending[i] \in Interrupted THEN None
                                      ELSE tasks[i]]
    <3>1. PICK rows, polled, gone :
            Walk(s, now, live, rows, polled, Interrupted, gone)
      BY <2>2 DEF SweepStart
    <3>2. Entries(live) \subseteq Entries(tasks) \union Entries(pending)
      BY DEF Entries
    <3>3. Interrupted \subseteq Entries(pending)
      BY DEF Interrupted
    <3> HIDE DEF live
    <3>4. c \in Interrupted \union Entries(live)
      BY <1>1, <2>0, <3>1, WalkAnswers
    <3> QED BY <2>0, <3>2, <3>3, <3>4
  <2>3. ASSUME NEW p \in posts, HandleCallback(p) PROVE FALSE
    <3>1. Holder(CidOf[p.call]) # None
          /\ Holder(CidOf[p.call]) \in {tasks[CidOf[p.call]], pending[CidOf[p.call]]}
      BY <2>3 DEF HandleCallback, ApplyCallback, Holder
    <3>2. CidOf[p.call] \in Cid
      BY <2>0, TrackerAssumption DEF TypeOK, TrackerAssumption
    <3>3. c # Holder(CidOf[p.call])
      BY <2>0, <3>1, <3>2 DEF Entries
    <3>4. replies' = replies \/ replies' = AddOne(replies, {Holder(CidOf[p.call])})
      BY <2>3 DEF HandleCallback, ApplyCallback
    <3> QED BY <1>1, <2>0, <3>3, <3>4, AddOneType
  <2>4. replies' # replies
    BY <1>1, <2>0
  <2>5. CASE \E s \in Sweepers : PollNoNews(s) \/ PollInput(s) \/ RecordReturn(s)
    BY <2>1, <2>5 DEF PollNoNews, PollInput, RecordReturn
  <2> QED BY <1>1, <2>2, <2>3, <2>4, <2>5
    DEF Next, PollReturn, Tick, Restart, Register, RemoteMoves, Track, PushAccepted,
        PollTerminal, PollStalls, CallbackTooLate, PushAborted, outputs, vars
<1>2. Inv /\ [Next]_vars =>
        [\A c \in Call : replies[c] > 0 /\ replies'[c] > replies[c] =>
           \E s \in Sweepers : sweep[s].call = c]_vars
  BY <1>1
<1> QED BY InitEstablishesInv, NextKeepsInv, <1>2, PTL
    DEF Spec, DuplicatesComeFromPollsInFlight
-----------------------------------------------------------------------------
(***************************************************************************)
(* Two properties that need facts about the clocks and about the pushes    *)
(* being read: no time the tracker has stored lies ahead of the clock, no  *)
(* call is in both maps at once, and the id of a push being read has a row *)
(* waiting only while it also has a live task.                             *)
(***************************************************************************)
Clocks ==
  /\ \A c \in Call : lastPolledAt[c] <= now
  /\ \A s \in Sweepers : sweep[s].now <= now

Apart == \A i \in Cid : tasks[i] # None => tasks[i] # pending[i]

PushCovered ==
  \A p \in posts : tasks[CidOf[p.call]] = None => pending[CidOf[p.call]] = None

Polls == Clocks /\ Apart /\ PushCovered

(***************************************************************************)
(* The loop forgets the same ids in both maps, and stamps a call only with *)
(* its sweep's time, which is past the stamp it replaces.                  *)
(***************************************************************************)
LEMMA WalkStamps ==
  ASSUME TypeOK, NEW s \in Sweepers, NEW at \in Time,
         NEW live \in CidMap, NEW rows \in CidMap,
         NEW polled \in [Call -> Time], NEW settled, NEW gone,
         Walk(s, at, live, rows, polled, settled, gone)
  PROVE  /\ \A i \in Cid : \/ tasks'[i] = live[i] /\ pending'[i] = rows[i]
                           \/ tasks'[i] = None /\ pending'[i] = None
         /\ \A c \in Call : \/ lastPolledAt'[c] = polled[c]
                            \/ lastPolledAt'[c] = at /\ at >= polled[c]
         /\ \A r \in Sweepers : sweep'[r].now \in {sweep[r].now, 0, at}
<1>1. PICK stop, out :
         /\ stop # None => Due(stop, at, polled)
         /\ stop \in Entries(live) \union {None}
         /\ tasks' = Forget(live, CidsOf(out))
         /\ pending' = Forget(rows, CidsOf(out))
         /\ lastPolledAt' = [c \in Call |-> IF c = stop THEN at ELSE polled[c]]
         /\ sweep' = [sweep EXCEPT ![s] =
                        IF stop = None THEN Idle
                        ELSE [at |-> "poll", call |-> stop, now |-> at]]
  BY DEF Walk
<1>2. \A i \in Cid : \/ tasks'[i] = live[i] /\ pending'[i] = rows[i]
                     \/ tasks'[i] = None /\ pending'[i] = None
  BY <1>1, ForgetType
<1>3. \A c \in Call : \/ lastPolledAt'[c] = polled[c]
                      \/ lastPolledAt'[c] = at /\ at >= polled[c]
  <2> SUFFICES ASSUME NEW c \in Call, c = stop
               PROVE  lastPolledAt'[c] = at /\ at >= polled[c]
    BY <1>1
  <2>1. Due(c, at, polled)
    BY <1>1, TrackerAssumption DEF TrackerAssumption
  <2> QED BY <1>1, <2>1, TrackerAssumption DEF Due, Time, TrackerAssumption
<1>4. \A r \in Sweepers : sweep'[r].now \in {sweep[r].now, 0, at}
  BY <1>1 DEF TypeOK, Idle
<1> QED BY <1>2, <1>3, <1>4

(***************************************************************************)
(* So a stretch of the loop keeps Polls, provided what it starts from does.*)
(***************************************************************************)
LEMMA WalkKeepsPolls ==
  ASSUME Inv, Polls, NEW s \in Sweepers, NEW at \in Time, at <= now,
         NEW live \in CidMap, NEW rows \in CidMap,
         NEW polled \in [Call -> Time], NEW settled, NEW gone,
         Walk(s, at, live, rows, polled, settled, gone),
         UNCHANGED <<now, posts>>,
         \A c \in Call : polled[c] <= now,
         \A i \in Cid : live[i] # None => live[i] # rows[i],
         \A i \in Cid : live[i] = None => rows[i] = None \/ tasks[i] = None,
         \A i \in Cid : rows[i] \in {pending[i], None}
  PROVE  Polls'
<1>1. /\ \A c \in Call : \/ lastPolledAt'[c] = polled[c]
                         \/ lastPolledAt'[c] = at
      /\ \A r \in Sweepers : sweep'[r].now \in {sweep[r].now, 0, at}
  BY WalkStamps DEF Inv
<1>2. \A i \in Cid : \/ tasks'[i] = live[i] /\ pending'[i] = rows[i]
                     \/ tasks'[i] = None /\ pending'[i] = None
  BY WalkStamps DEF Inv
<1>3. Clocks'
  <2>1. now \in Nat /\ now' = now /\ 0 <= now
    BY DEF Inv, TypeOK, Time
  <2>2. \A c \in Call : lastPolledAt'[c] <= now'
    BY ONLY <1>1, <2>1, at <= now, \A c \in Call : polled[c] <= now
  <2>3. \A r \in Sweepers : sweep[r].now <= now
    BY DEF Polls, Clocks
  <2>4. \A r \in Sweepers : sweep'[r].now <= now'
    BY ONLY <1>1, <2>1, <2>3, at <= now
  <2> QED BY <2>2, <2>4 DEF Clocks
<1>4. Apart'
  BY <1>2 DEF Apart
<1>5. PushCovered'
  <2> SUFFICES ASSUME NEW p \in posts, tasks'[CidOf[p.call]] = None
               PROVE  pending'[CidOf[p.call]] = None
    BY DEF PushCovered
  <2>1. CidOf[p.call] \in Cid
    BY TrackerAssumption DEF Inv, TypeOK, TrackerAssumption
  <2>2. tasks[CidOf[p.call]] = None => pending[CidOf[p.call]] = None
    BY DEF Polls, PushCovered
  <2> QED BY <1>2, <2>1, <2>2
<1> QED BY <1>3, <1>4, <1>5 DEF Polls

LEMMA WalkOnKeepsPolls ==
  ASSUME Inv, Polls, NEW s \in Sweepers, NEW settled,
         WalkOn(s, settled), UNCHANGED <<now, posts>>
  PROVE  Polls'
<1> DEFINE gone == CidsOf(settled)
           live == Forget(tasks, gone)
           rows == Forget(pending, gone)
<1>1. /\ tasks \in CidMap /\ pending \in CidMap
      /\ sweep[s].now \in Time /\ lastPolledAt \in [Call -> Time]
  BY DEF Inv, TypeOK, CidMap
<1>2. /\ live \in CidMap /\ rows \in CidMap
      /\ \A i \in Cid : live[i] = IF i \in gone THEN None ELSE tasks[i]
      /\ \A i \in Cid : rows[i] = IF i \in gone THEN None ELSE pending[i]
  BY <1>1, ForgetType
<1>3. Walk(s, sweep[s].now, live, rows, lastPolledAt, settled, gone)
  BY DEF WalkOn
<1>4. /\ sweep[s].now <= now /\ \A c \in Call : lastPolledAt[c] <= now
      /\ \A i \in Cid : live[i] # None => live[i] # rows[i]
      /\ \A i \in Cid : live[i] = None => rows[i] = None \/ tasks[i] = None
      /\ \A i \in Cid : rows[i] \in {pending[i], None}
  BY <1>2 DEF Polls, Clocks, Apart
<1> HIDE DEF gone, live, rows
<1> QED BY <1>1, <1>2, <1>3, <1>4, WalkKeepsPolls

(***************************************************************************)
(* What a starting sweep walks: a resumed row is due at once, and leaves   *)
(* `pending` as it enters the map; an escalated one leaves both.           *)
(***************************************************************************)
LEMMA SweepStartWalks ==
  ASSUME Inv, Polls, NEW s \in Sweepers, SweepStart(s)
  PROVE  \E live \in CidMap, rows \in CidMap, polled \in [Call -> Time] :
           /\ Walk(s, now, live, rows, polled, Interrupted, CidsOf(Interrupted))
           /\ \A c \in Call : polled[c] <= now
           /\ \A i \in Cid : live[i] # None => live[i] # rows[i]
           /\ \A i \in Cid : live[i] = None => rows[i] = None \/ tasks[i] = None
           /\ \A i \in Cid : rows[i] \in {pending[i], None}
           /\ \A i \in Cid : tasks[i] # None /\ live[i] = tasks[i] =>
                               polled[tasks[i]] = lastPolledAt[tasks[i]]
<1> DEFINE live == [i \in Cid |-> IF pending[i] \in Resumed THEN pending[i]
                                  ELSE IF pending[i] \in Interrupted THEN None
                                  ELSE tasks[i]]
           moved == CidsOf(Resumed \union Interrupted)
           rows == Forget(pending, moved)
           polled == [c \in Call |-> IF c \in Resumed THEN 0 ELSE lastPolledAt[c]]
<1>1. /\ tasks \in CidMap /\ pending \in CidMap /\ now \in Time
      /\ lastPolledAt \in [Call -> Time] /\ 0 \in Time
  BY TrackerAssumption DEF Inv, TypeOK, CidMap, Time, TrackerAssumption
<1>2. /\ Resumed \subseteq Entries(pending) /\ Interrupted \subseteq Entries(pending)
      /\ Resumed \intersect Interrupted = {} /\ None \notin Resumed \union Interrupted
  BY DEF Resumed, Interrupted, Entries
<1>3. live \in CidMap /\ polled \in [Call -> Time]
  BY <1>1 DEF CidMap
<1>4. /\ rows \in CidMap
      /\ \A i \in Cid : rows[i] = IF i \in moved THEN None ELSE pending[i]
  BY <1>1, ForgetType
<1>5. \A i \in Cid : pending[i] \in Resumed \union Interrupted => i \in moved
  <2> SUFFICES ASSUME NEW i \in Cid, pending[i] \in Resumed \union Interrupted
               PROVE  CidOf[pending[i]] = i
    BY DEF CidsOf
  <2>1. pending[i] # None
    BY <1>2
  <2> QED BY <2>1 DEF Inv, Filing, Filed
<1>6. Walk(s, now, live, rows, polled, Interrupted, CidsOf(Interrupted))
  BY DEF SweepStart
<1>7. \A c \in Call : polled[c] <= now
  BY <1>1 DEF Polls, Clocks, Time
<1>8. \A i \in Cid : live[i] # None => live[i] # rows[i]
  <2> SUFFICES ASSUME NEW i \in Cid, live[i] # None PROVE live[i] # rows[i]
    OBVIOUS
  <2>1. CASE pending[i] \in Resumed
    BY <1>4, <1>5, <2>1
  <2>2. CASE pending[i] \notin Resumed
    <3>1. live[i] = tasks[i] /\ tasks[i] # pending[i]
      BY <2>2 DEF Polls, Apart
    <3> QED BY <1>4, <3>1
  <2> QED BY <2>1, <2>2
<1>9. \A i \in Cid : live[i] = None => rows[i] = None \/ tasks[i] = None
  <2> SUFFICES ASSUME NEW i \in Cid, live[i] = None, tasks[i] # None
               PROVE  rows[i] = None
    OBVIOUS
  <2>1. pending[i] \in Interrupted
    BY <1>2
  <2> QED BY <1>4, <1>5, <2>1
<1>10. \A i \in Cid : tasks[i] # None /\ live[i] = tasks[i] =>
                        polled[tasks[i]] = lastPolledAt[tasks[i]]
  <2> SUFFICES ASSUME NEW i \in Cid, tasks[i] # None, live[i] = tasks[i]
               PROVE  tasks[i] \in Call /\ tasks[i] \notin Resumed
    OBVIOUS
  <2>1. tasks[i] \in Call /\ CidOf[tasks[i]] = i /\ tasks[i] # pending[i]
    BY <1>1 DEF Inv, Filing, Filed, CidMap, Polls, Apart
  <2>2. ASSUME tasks[i] \in Resumed PROVE FALSE
    <3>1. PICK j \in Cid : pending[j] = tasks[i]
      BY <1>2, <2>2 DEF Entries
    <3>2. CidOf[pending[j]] = j
      BY <3>1 DEF Inv, Filing, Filed
    <3> QED BY <2>1, <3>1, <3>2
  <2> QED BY <2>1, <2>2
<1>11. \A i \in Cid : rows[i] \in {pending[i], None}
  BY <1>4
<1> HIDE DEF live, rows, polled, moved
<1> QED BY <1>3, <1>4, <1>6, <1>7, <1>8, <1>9, <1>10, <1>11

(***************************************************************************)
(* A callback moves its holder out of `pending`, and stamps it with now.   *)
(***************************************************************************)
LEMMA HandleCallbackKeepsPolls ==
  ASSUME Inv, Polls, NEW p \in posts, HandleCallback(p)
  PROVE  Polls'
<1> DEFINE i == CidOf[p.call]
           t == Holder(i)
           gone == IF p.state # "working" THEN {i} ELSE {}
           moved == [tasks EXCEPT ![i] = t]
           left == [pending EXCEPT ![i] = IF @ = t THEN None ELSE @]
<1>1. /\ t # None /\ posts' \subseteq posts /\ now' = now /\ sweep' = sweep
      /\ tasks' = Forget(moved, gone) /\ pending' = Forget(left, gone)
      /\ lastPolledAt' = [lastPolledAt EXCEPT ![t] = now]
  BY DEF HandleCallback, ApplyCallback, environment
<1>2. /\ tasks \in CidMap /\ pending \in CidMap /\ i \in Cid
      /\ lastPolledAt \in [Call -> Time] /\ now \in Time
  BY TrackerAssumption DEF Inv, TypeOK, CidMap, TrackerAssumption
<1> HIDE DEF t
<1>3. \A j \in Cid : /\ moved[j] = IF j = i THEN t ELSE tasks[j]
                     /\ left[j] = IF j = i /\ pending[j] = t THEN None ELSE pending[j]
  BY <1>2 DEF CidMap
<1>4. \A j \in Cid : /\ tasks'[j] = IF j \in gone THEN None ELSE moved[j]
                     /\ pending'[j] = IF j \in gone THEN None ELSE left[j]
  <2> HIDE DEF moved, left, gone
  <2> QED BY <1>1 DEF Forget
<1> HIDE DEF moved, left, gone, i
<1>5. Clocks'
  BY <1>1, <1>2 DEF Polls, Clocks, Time
<1>6. Apart'
  <2> SUFFICES ASSUME NEW j \in Cid, tasks'[j] # None PROVE tasks'[j] # pending'[j]
    BY DEF Apart
  <2>1. tasks[j] # None => tasks[j] # pending[j]
    BY DEF Polls, Apart
  <2>2. j \notin gone /\ tasks'[j] = moved[j] /\ pending'[j] = left[j]
    BY <1>4
  <2>3. CASE j = i
    BY <1>1, <1>3, <2>2, <2>3
  <2>4. CASE j # i
    BY <1>3, <2>1, <2>2, <2>4
  <2> QED BY <2>3, <2>4
<1>7. PushCovered'
  <2> SUFFICES ASSUME NEW q \in posts, tasks'[CidOf[q.call]] = None
               PROVE  pending'[CidOf[q.call]] = None
    BY <1>1 DEF PushCovered
  <2>1. CidOf[q.call] \in Cid
    BY TrackerAssumption DEF Inv, TypeOK, TrackerAssumption
  <2> DEFINE j == CidOf[q.call]
  <2>2. tasks[j] = None => pending[j] = None
    BY <1>1 DEF Polls, PushCovered
  <2> HIDE DEF j
  <2>3. CASE j \in gone
    BY <1>4, <2>1, <2>3 DEF j
  <2>4. CASE j \notin gone
    <3>1. moved[j] = None
      BY <1>4, <2>1, <2>4 DEF j
    <3>2. left[j] = None
      BY <1>1, <1>3, <2>1, <2>2, <3>1 DEF j
    <3> QED BY <1>4, <2>1, <2>4, <3>2 DEF j
  <2> QED BY <2>3, <2>4
<1> QED BY <1>5, <1>6, <1>7 DEF Polls

THEOREM NextKeepsPolls == Inv /\ Polls /\ [Next]_vars => Polls'
<1> SUFFICES ASSUME Inv, Polls, [Next]_vars PROVE Polls'
  OBVIOUS
<1>0. /\ now \in Time /\ lastPolledAt \in [Call -> Time]
      /\ tasks \in CidMap /\ pending \in CidMap
      /\ posts \subseteq [call : Call, state : RemoteState]
      /\ \A s \in Sweepers : sweep[s].now \in Time
  BY DEF Inv, TypeOK, CidMap
<1> USE DEF Polls
<1>1. CASE Tick
  BY <1>0, <1>1 DEF Tick, Clocks, Apart, PushCovered, trackerMaps, Time
<1>2. CASE Restart
  <2>1. Clocks'
    BY <1>0, <1>2, TrackerAssumption
    DEF Restart, Clocks, Idle, Time, TrackerAssumption
  <2>2. Apart' /\ PushCovered'
    BY <1>2 DEF Restart, Apart, PushCovered
  <2> QED BY <2>1, <2>2
<1>3. CASE \/ \E a \in Agent : Register(a)
           \/ \E c \in Call : RemoteMoves(c)
           \/ \E p \in posts : CallbackTooLate(p) \/ PushAborted(p)
           \/ UNCHANGED vars
  <2>1. /\ UNCHANGED <<now, tasks, pending, lastPolledAt, sweep>>
        /\ posts' \subseteq posts
    BY <1>3 DEF Register, RemoteMoves, CallbackTooLate, PushAborted, environment,
                trackerMaps, vars
  <2> QED BY <2>1 DEF Clocks, Apart, PushCovered
<1>4. ASSUME NEW c \in Call, Track(c) PROVE Polls'
  <2>1. /\ UNCHANGED <<now, pending, sweep, posts>> /\ CidOf[c] \in Cid /\ c # None
        /\ \A i \in Cid : tasks'[i] = IF i = CidOf[c] THEN c ELSE tasks[i]
        /\ \A d \in Call : lastPolledAt'[d] = IF d = c THEN now ELSE lastPolledAt[d]
    BY <1>0, <1>4, TrackerAssumption DEF Track, environment, CidMap, TrackerAssumption
  <2>2. \A i \in Cid : pending[i] # c
    BY <1>4, <2>1 DEF Track, Inv, Filing, Filed
  <2>3. Clocks'
    BY <1>0, <2>1 DEF Clocks, Time
  <2>4. Apart'
    BY <2>1, <2>2 DEF Apart
  <2>5. PushCovered'
    <3> SUFFICES ASSUME NEW p \in posts, tasks'[CidOf[p.call]] = None
                 PROVE  pending[CidOf[p.call]] = None
      BY <2>1 DEF PushCovered
    <3>1. CidOf[p.call] \in Cid
      BY <1>0, TrackerAssumption DEF TrackerAssumption
    <3> QED BY <2>1, <3>1 DEF PushCovered
  <2> QED BY <2>3, <2>4, <2>5
<1>5. ASSUME NEW c \in Call, PushAccepted(c) PROVE Polls'
  <2>1. /\ UNCHANGED <<now, tasks, pending, lastPolledAt, sweep>>
        /\ posts' = posts \union {[call |-> c, state |-> remote[c]]}
        /\ tasks[CidOf[c]] = c /\ c # None
    BY <1>5, TrackerAssumption
    DEF PushAccepted, KnownToRoute, environment, trackerMaps, TrackerAssumption
  <2> QED BY <2>1 DEF Clocks, Apart, PushCovered
<1>6. ASSUME NEW s \in Sweepers, SweepStart(s) PROVE Polls'
  <2>1. UNCHANGED <<now, posts>> /\ now <= now
    BY <1>0, <1>6 DEF SweepStart, environment, Time
  <2> QED BY <1>0, <1>6, <2>1, SweepStartWalks, WalkKeepsPolls
<1>7. ASSUME NEW s \in Sweepers, PollNoNews(s) \/ PollInput(s) \/ RecordReturn(s)
      PROVE  Polls'
  BY <1>7, WalkOnKeepsPolls DEF PollNoNews, PollInput, RecordReturn, environment
<1>8. ASSUME NEW s \in Sweepers, PollTerminal(s) PROVE Polls'
  <2>1. /\ UNCHANGED <<now, tasks, pending, lastPolledAt, posts>>
        /\ \A r \in Sweepers : sweep'[r].now = sweep[r].now
    BY <1>8 DEF PollTerminal, environment, trackerMaps, Inv, TypeOK
  <2> QED BY <2>1 DEF Clocks, Apart, PushCovered
<1>9. ASSUME NEW p \in posts, HandleCallback(p) PROVE Polls'
  BY <1>9, HandleCallbackKeepsPolls
<1>10. ASSUME NEW s \in Sweepers, PollStalls(s) PROVE Polls'
  <2>1. /\ UNCHANGED <<now, tasks, pending, lastPolledAt, posts>>
        /\ \A r \in Sweepers : sweep'[r].now \in {sweep[r].now, 0}
    BY <1>10 DEF PollStalls, Idle, environment, trackerMaps, Inv, TypeOK
  <2> QED BY <1>0, <2>1 DEF Clocks, Apart, PushCovered, Time
<1> QED BY <1>1, <1>2, <1>3, <1>4, <1>5, <1>6, <1>7, <1>8, <1>9, <1>10
    DEF Next, PollReturn

LEMMA InitEstablishesPolls == Init => Polls
<1> SUFFICES ASSUME Init PROVE Polls
  OBVIOUS
<1>1. Clocks
  BY TrackerAssumption DEF Init, Clocks, Idle, Time, TrackerAssumption
<1> QED BY <1>1 DEF Init, Polls, Apart, PushCovered

(***************************************************************************)
(* Whatever is settled, resumed or restarted while a push body is read,    *)
(* the branch of handleCallback that rehydrates a row is never reached.    *)
(***************************************************************************)
THEOREM RehydrationUnreachable == Spec => []PushNeverRehydrates
<1>1. Polls => PushNeverRehydrates
  BY DEF Polls, PushCovered, PushNeverRehydrates, Rehydrates
<1>2. Inv /\ Polls /\ [Next]_vars => (Inv /\ Polls)'
  BY NextKeepsInv, NextKeepsPolls
<1> QED BY InitEstablishesInv, InitEstablishesPolls, <1>1, <1>2, PTL DEF Spec

(***************************************************************************)
(* However long a sweep's earlier polls took, the time it writes is never  *)
(* older than the one it replaces while the task stays tracked.            *)
(***************************************************************************)
THEOREM PollClockNeverReturns == Spec => PollClockIsMonotone
<1>1. ASSUME Inv, Polls, [Next]_vars, NEW i \in Cid, tasks[i] # None, tasks'[i] = tasks[i]
      PROVE  lastPolledAt'[tasks[i]] >= lastPolledAt[tasks[i]]
  <2> DEFINE c == tasks[i]
  <2>0. /\ TypeOK /\ now \in Time /\ lastPolledAt \in [Call -> Time]
        /\ tasks \in CidMap /\ pending \in CidMap /\ c \in Call
        /\ lastPolledAt[c] <= now /\ lastPolledAt[c] \in Nat
    BY <1>1 DEF Inv, TypeOK, CidMap, Polls, Clocks, Time
  <2>1. ASSUME NEW s \in Sweepers, NEW settled, WalkOn(s, settled)
        PROVE  lastPolledAt'[c] >= lastPolledAt[c]
    <3> DEFINE live == Forget(tasks, CidsOf(settled))
               rows == Forget(pending, CidsOf(settled))
    <3>1. live \in CidMap /\ rows \in CidMap
      BY <2>0, ForgetType
    <3>2. Walk(s, sweep[s].now, live, rows, lastPolledAt, settled, CidsOf(settled))
      BY <2>1 DEF WalkOn
    <3>3. sweep[s].now \in Time
      BY <2>0 DEF TypeOK
    <3> HIDE DEF live, rows, c
    <3>4. \/ lastPolledAt'[c] = lastPolledAt[c]
          \/ lastPolledAt'[c] = sweep[s].now /\ sweep[s].now >= lastPolledAt[c]
      BY <2>0, <3>1, <3>2, <3>3, WalkStamps
    <3> QED BY <2>0, <3>4
  <2>2. ASSUME NEW s \in Sweepers, SweepStart(s)
        PROVE  lastPolledAt'[c] >= lastPolledAt[c]
    <3>1. PICK live \in CidMap, rows \in CidMap, polled \in [Call -> Time] :
            /\ Walk(s, now, live, rows, polled, Interrupted, CidsOf(Interrupted))
            /\ \A j \in Cid : tasks[j] # None /\ live[j] = tasks[j] =>
                                polled[tasks[j]] = lastPolledAt[tasks[j]]
      BY <1>1, <2>2, SweepStartWalks
    <3>2. /\ \A j \in Cid : \/ tasks'[j] = live[j] /\ pending'[j] = rows[j]
                            \/ tasks'[j] = None /\ pending'[j] = None
          /\ \A d \in Call : \/ lastPolledAt'[d] = polled[d]
                             \/ lastPolledAt'[d] = now /\ now >= polled[d]
      BY <2>0, <3>1, WalkStamps
    <3>3. live[i] = tasks[i]
      BY <1>1, <3>2
    <3>4. polled[c] = lastPolledAt[c]
      BY <1>1, <3>1, <3>3
    <3> QED BY <2>0, <3>2, <3>4
  <2>3. ASSUME NEW p \in posts, HandleCallback(p)
        PROVE  lastPolledAt'[c] >= lastPolledAt[c]
    <3>1. lastPolledAt' = [lastPolledAt EXCEPT ![Holder(CidOf[p.call])] = now]
      BY <2>3 DEF HandleCallback, ApplyCallback
    <3> QED BY <2>0, <3>1
  <2>4. ASSUME NEW d \in Call, Track(d)
        PROVE  lastPolledAt'[c] >= lastPolledAt[c]
    <3>1. lastPolledAt' = [lastPolledAt EXCEPT ![d] = now]
      BY <2>4 DEF Track
    <3> QED BY <2>0, <3>1
  <2>5. CASE Restart
    BY <1>1, <2>5 DEF Restart
  <2>6. CASE lastPolledAt' = lastPolledAt
    BY <2>0, <2>6
  <2>7. \/ lastPolledAt' = lastPolledAt \/ Restart
        \/ \E d \in Call : Track(d)
        \/ \E s \in Sweepers : SweepStart(s) \/ (\E settled : WalkOn(s, settled))
        \/ \E p \in posts : HandleCallback(p)
    BY <1>1 DEF Next, PollReturn, Tick, Register, RemoteMoves, PushAccepted, PollNoNews,
                PollInput, PollTerminal, PollStalls, RecordReturn, CallbackTooLate, PushAborted,
                trackerMaps, vars
  <2> QED BY <2>1, <2>2, <2>3, <2>4, <2>5, <2>6, <2>7
<1>2. Inv /\ Polls /\ [Next]_vars =>
        [\A i \in Cid : tasks[i] # None /\ tasks'[i] = tasks[i] =>
           lastPolledAt'[tasks[i]] >= lastPolledAt[tasks[i]]]_vars
  BY <1>1
<1>3. Inv /\ Polls /\ [Next]_vars => (Inv /\ Polls)'
  BY NextKeepsInv, NextKeepsPolls
<1> QED BY InitEstablishesInv, InitEstablishesPolls, <1>2, <1>3, PTL
    DEF Spec, PollClockIsMonotone

-----------------------------------------------------------------------------
(***************************************************************************)
(* What is answered. Calls that are filed are owed an answer, and so a     *)
(* step answers what is owed, or with it the call whose poll it awaited.   *)
(***************************************************************************)
Owed == {c \in handed : replies[c] = 0}

Answers ==
  \E first \in SUBSET Owed, again \in SUBSET Call :
    /\ \A c \in again : replies[c] > 0 /\ \E s \in Sweepers : sweep[s].call = c
    /\ replies' = AddOne(replies, first \union again)

(***************************************************************************)
(* What is filed is owed an answer.                                        *)
(***************************************************************************)
LEMMA FiledIsOwed ==
  ASSUME Inv
  PROVE  Entries(tasks) \union Entries(pending) \subseteq Owed
<1>1. Entries(tasks) \union Entries(pending) \subseteq handed
  BY DEF Inv, Filing, Filed, Entries
<1>2. handed \subseteq Call /\ replies \in [Call -> Nat]
  BY DEF Inv, TypeOK
<1> QED
  BY <1>1, <1>2 DEF Inv, SettledIsForgotten, Owed

(***************************************************************************)
(* The loop answers, beside what it was given as settled, owed calls only. *)
(***************************************************************************)
LEMMA WalkAnswersOwed ==
  ASSUME Inv, NEW s \in Sweepers, NEW at, NEW live, NEW rows, NEW polled,
         NEW settled \in SUBSET Call, NEW gone,
         \A c \in settled : c \in Owed \/ (replies[c] > 0 /\ sweep[s].call = c),
         Entries(live) \subseteq Owed,
         Walk(s, at, live, rows, polled, settled, gone)
  PROVE  Answers
<1>1. PICK out \in SUBSET Entries(live) : replies' = AddOne(replies, settled \union out)
  BY DEF Walk
<1> DEFINE first == (settled \intersect Owed) \union out
           again == settled \ Owed
<1>2. first \union again = settled \union out
  OBVIOUS
<1>3. first \in SUBSET Owed /\ again \in SUBSET Call
  BY <1>1
<1>4. \A c \in again : replies[c] > 0 /\ \E r \in Sweepers : sweep[r].call = c
  OBVIOUS
<1> HIDE DEF first, again
<1> QED
  BY <1>1, <1>2, <1>3, <1>4 DEF Answers

(***************************************************************************)
(* A sweep that comes back from its await answers its own call, or none,   *)
(* and walks on among the others.                                          *)
(***************************************************************************)
LEMMA WalkOnAnswersOwed ==
  ASSUME Inv, NEW s \in Sweepers, sweep[s].at # "idle",
         NEW settled, settled = {} \/ settled = {sweep[s].call}, WalkOn(s, settled)
  PROVE  Answers
<1> DEFINE gone == CidsOf(settled)
           live == Forget(tasks, gone)
<1>1. tasks \in CidMap /\ replies \in [Call -> Nat] /\ handed \subseteq Call
  BY DEF Inv, TypeOK, CidMap
<1>2. sweep[s].call \in handed
  BY DEF Inv, Filing
<1>3. /\ settled \in SUBSET Call
      /\ \A c \in settled : c \in Owed \/ (replies[c] > 0 /\ sweep[s].call = c)
  BY <1>1, <1>2 DEF Owed
<1>4. Entries(live) \subseteq Owed
  BY <1>1, ForgetType, FiledIsOwed DEF Entries
<1>5. Walk(s, sweep[s].now, live, Forget(pending, gone), lastPolledAt, settled, gone)
  BY DEF WalkOn
<1> HIDE DEF live, gone
<1> QED
  BY <1>3, <1>4, <1>5, WalkAnswersOwed

(***************************************************************************)
(* A sweep that starts escalates rows it does not resume.                  *)
(***************************************************************************)
LEMMA SweepStartAnswersOwed ==
  ASSUME Inv, NEW s \in Sweepers, SweepStart(s)
  PROVE  Answers
<1> DEFINE live == [i \in Cid |-> IF pending[i] \in Resumed THEN pending[i]
                                  ELSE IF pending[i] \in Interrupted THEN None
                                  ELSE tasks[i]]
           rows == Forget(pending, CidsOf(Resumed \union Interrupted))
           polled == [c \in Call |-> IF c \in Resumed THEN 0 ELSE lastPolledAt[c]]
<1>1. Walk(s, now, live, rows, polled, Interrupted, CidsOf(Interrupted))
  BY DEF SweepStart
<1>2. Interrupted \subseteq Owed /\ Owed \subseteq Call
  BY FiledIsOwed DEF Interrupted, Owed, Inv, TypeOK
<1>3. Entries(live) \subseteq Owed
  <2>1. \A i \in Cid : live[i] \in {tasks[i], pending[i], None}
    OBVIOUS
  <2>2. \A i \in Cid : {tasks[i], pending[i]} \ {None} \subseteq Owed
    BY FiledIsOwed DEF Entries
  <2> HIDE DEF live
  <2> QED
    BY <2>1, <2>2 DEF Entries
<1> HIDE DEF live, rows, polled
<1> QED
  BY <1>1, <1>2, <1>3, WalkAnswersOwed

(***************************************************************************)
(* A callback answers the call it finds under the correlation id.          *)
(***************************************************************************)
LEMMA HandleCallbackAnswersOwed ==
  ASSUME Inv, NEW p \in posts, HandleCallback(p)
  PROVE  Answers
<1> DEFINE t == Holder(CidOf[p.call])
<1>1. CidOf[p.call] \in Cid
  BY TrackerAssumption DEF TrackerAssumption, Inv, TypeOK
<1>2. t \in {tasks[CidOf[p.call]], pending[CidOf[p.call]]} /\ t # None
  BY DEF HandleCallback, Holder
<1>3. t \in Owed
  BY <1>1, <1>2, FiledIsOwed DEF Entries
<1>4. replies' = AddOne(replies, {t}) \/ replies' = replies
  BY DEF HandleCallback, ApplyCallback
<1>5. replies = AddOne(replies, {})
  BY AddNothing DEF Inv, TypeOK
<1> HIDE DEF t
<1>6. PICK first \in SUBSET Owed : replies' = AddOne(replies, first \union {})
  BY <1>3, <1>4, <1>5
<1> QED
  BY <1>6 DEF Answers

(***************************************************************************)
(* task-tracker.ts:12, callers receive exactly one response, in the form   *)
(* that holds whatever pushes arrive and however many sweeps overlap.      *)
(***************************************************************************)
THEOREM OnlyOwedIsAnswered == Spec => AnswersAreOwed
<1>1. ASSUME Inv, [Next]_vars PROVE Answers \/ UNCHANGED vars
  <2>1. CASE replies' = replies
    <3>1. replies' = AddOne(replies, {} \union {})
      BY <1>1, <2>1, AddNothing DEF Inv, TypeOK
    <3> QED
      BY <3>1 DEF Answers
  <2>2. ASSUME NEW s \in Sweepers, SweepStart(s) PROVE Answers
    BY <1>1, <2>2, SweepStartAnswersOwed
  <2>3. ASSUME NEW s \in Sweepers, PollNoNews(s) \/ PollInput(s) \/ RecordReturn(s)
        PROVE  Answers
    <3>1. sweep[s].at # "idle" /\ (WalkOn(s, {}) \/ WalkOn(s, {sweep[s].call}))
      BY <2>3 DEF PollNoNews, PollInput, RecordReturn, Polling
    <3> QED
      BY <1>1, <3>1, WalkOnAnswersOwed
  <2>4. ASSUME NEW p \in posts, HandleCallback(p) PROVE Answers
    BY <1>1, <2>4, HandleCallbackAnswersOwed
  <2>5. \/ replies' = replies \/ UNCHANGED vars
        \/ \E s \in Sweepers : \/ SweepStart(s) \/ PollNoNews(s)
                               \/ PollInput(s) \/ RecordReturn(s)
        \/ \E p \in posts : HandleCallback(p)
    BY <1>1 DEF Next, PollReturn, Tick, Restart, Register, RemoteMoves, Track, PushAccepted,
                PollTerminal, PollStalls, CallbackTooLate, PushAborted, outputs
  <2> QED
    BY <2>1, <2>2, <2>3, <2>4, <2>5
<1>2. Inv /\ [Next]_vars =>
        [\E first \in SUBSET {c \in handed : replies[c] = 0}, again \in SUBSET Call :
           /\ \A c \in again : replies[c] > 0 /\ \E s \in Sweepers : sweep[s].call = c
           /\ replies' = AddOne(replies, first \union again)]_vars
  BY <1>1 DEF Answers, Owed
<1> QED
  BY InitEstablishesInv, NextKeepsInv, <1>2, PTL DEF Spec, AnswersAreOwed
=============================================================================
