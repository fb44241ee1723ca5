------------------------- MODULE RunningWorkProofs --------------------------
(***************************************************************************)
(* Safety of the work under way, for any dispatches, files, calls and      *)
(* reviews. Each part is proved on its own, since the parts share no       *)
(* state, and the properties the runs check follow at the end.             *)
(***************************************************************************)
EXTENDS RunningWork, TLAPS, FiniteSetTheorems, WellFoundedInduction, NaturalsInduction

-----------------------------------------------------------------------------
\* Dispatches of a chat. What was not answered is at work or lost, what was is cached or lost.

(***************************************************************************)
(* What the cache holds was answered, and what was answered is there       *)
(* unless it was lost; what was not answered is at work or was lost.       *)
(***************************************************************************)
ChatTyped ==
  /\ chatCache \in Seq(Dispatches) /\ Len(chatCache) <= ChatEntries
  /\ caller \in [Dispatches -> {"none", "refused", "waiting", "handle", "answer", "cut off"}]
  /\ active \subseteq Dispatches /\ tracked \subseteq Dispatches /\ parked \subseteq Dispatches

CachedIsOver == \A d \in Dispatches : D!Contains(chatCache, d) => d \in over

OverIsCached == \A d \in Dispatches : d \in over /\ d \notin lost => D!Contains(chatCache, d)

DispatchedIsAtWork ==
  \A d \in Dispatches :
    /\ caller[d] \in {"none", "refused"} => d \notin over \cup active \cup tracked \cup parked
    /\ caller[d] \in {"waiting", "handle", "answer"} /\ d \notin over =>
         d \in active \cup tracked \cup parked \cup lost

\* What is at work is so in one way, and was not answered.
AtWorkInOneWay ==
  \A d \in Dispatches :
    /\ d \in parked => d \notin active \cup tracked \cup over
    /\ d \in tracked => d \notin active \cup over
    /\ d \in active => d \notin over

Chatty ==
  ChatTyped /\ CachedIsOver /\ OverIsCached /\ DispatchedIsAtWork /\ AtWorkInOneWay /\ D!WaitsForGood

LEMMA WithoutOne ==
  ASSUME NEW Kind, NEW s \in Seq(Kind), NEW i \in 1 .. Len(s)
  PROVE  /\ D!RemoveAt(s, i) \in Seq(Kind) /\ Len(D!RemoveAt(s, i)) = Len(s) - 1
         /\ \A j \in 1 .. Len(s) - 1 : D!RemoveAt(s, i)[j] = s[IF j < i THEN j ELSE j + 1]
<1> DEFINE a == SubSeq(s, 1, i - 1)
           b == SubSeq(s, i + 1, Len(s))
<1>1. Len(s) \in Nat /\ i \in Nat
  OBVIOUS
<1>2. a \in Seq(Kind) /\ Len(a) = i - 1 /\ \A j \in 1 .. i - 1 : a[j] = s[j]
  BY <1>1
<1>3. b \in Seq(Kind) /\ Len(b) = Len(s) - i /\ \A j \in 1 .. Len(s) - i : b[j] = s[j + i]
  BY <1>1
<1> HIDE DEF a, b
<1>4. a \o b \in Seq(Kind) /\ Len(a \o b) = Len(s) - 1
  <2>1. \A t, u \in Seq(Kind) : t \o u \in Seq(Kind) /\ Len(t \o u) = Len(t) + Len(u)
    OBVIOUS
  <2>2. a \o b \in Seq(Kind) /\ Len(a \o b) = Len(a) + Len(b)
    BY <1>2, <1>3, <2>1, Zenon
  <2> QED
    BY <1>1, <1>2, <1>3, <2>2
<1>5. \A j \in 1 .. Len(s) - 1 : (a \o b)[j] = s[IF j < i THEN j ELSE j + 1]
  <2> SUFFICES ASSUME NEW j \in 1 .. Len(s) - 1
               PROVE  (a \o b)[j] = s[IF j < i THEN j ELSE j + 1]
    OBVIOUS
  <2>1. CASE j < i
    BY <1>1, <1>2, <1>3, <2>1
  <2>2. CASE ~(j < i)
    <3>1. (a \o b)[j] = b[j - (i - 1)]
      BY <1>1, <1>2, <1>3, <2>2
    <3>2. b[j - (i - 1)] = s[j - (i - 1) + i]
      BY <1>1, <1>3, <2>2
    <3> QED
      BY <1>1, <2>2, <3>1, <3>2
  <2> QED
    BY <2>1, <2>2
<1> QED
  BY <1>4, <1>5 DEF D!RemoveAt, a, b

LEMMA CacheIsASequence ==
  ASSUME ChatTyped
  PROVE  /\ chatCache \in Seq(Dispatches) /\ Len(chatCache) \in Nat
              /\ Len(chatCache) <= ChatEntries
         /\ DOMAIN chatCache = 1 .. Len(chatCache) /\ ChatEntries \in Nat /\ ChatEntries # 0
<1>1. chatCache \in Seq(Dispatches) /\ Len(chatCache) <= ChatEntries
  BY Zenon DEF ChatTyped
<1>2. ChatEntries \in Nat /\ ChatEntries # 0
  BY EntriesAreKept
<1> QED
  BY <1>1, <1>2

LEMMA CacheTakesTheLast ==
  ASSUME ChatTyped, NEW d \in Dispatches
  PROVE  /\ D!Recorded(d) \in Seq(Dispatches) /\ Len(D!Recorded(d)) <= ChatEntries
         /\ D!Contains(D!Recorded(d), d)
         /\ \A e \in Dispatches :
              D!Contains(D!Recorded(d), e) => e = d \/ D!Contains(chatCache, e)
<1> DEFINE more == Append(chatCache, d)
<1>1. chatCache \in Seq(Dispatches) /\ Len(chatCache) \in Nat /\ Len(chatCache) <= ChatEntries
      /\ ChatEntries \in Nat /\ ChatEntries # 0
  BY CacheIsASequence
<1>2. CASE D!Contains(chatCache, d)
  <2>1. D!Recorded(d) = chatCache
    BY <1>1, <1>2 DEF D!Recorded
  <2> QED
    BY <1>1, <1>2, <2>1
<1>3. CASE ~D!Contains(chatCache, d)
  <2>1. D!Recorded(d) = IF Len(more) > ChatEntries THEN Tail(more) ELSE more
    BY <1>3 DEF D!Recorded
  <2>2. /\ more \in Seq(Dispatches) /\ Len(more) = Len(chatCache) + 1
             /\ more[Len(chatCache) + 1] = d
        /\ \A i \in 1 .. Len(chatCache) : more[i] = chatCache[i]
    BY <1>1
  <2> HIDE DEF more
  <2>3. CASE Len(more) > ChatEntries
    <3>1. /\ Tail(more) \in Seq(Dispatches) /\ Len(Tail(more)) = Len(chatCache)
          /\ \A i \in 1 .. Len(chatCache) : Tail(more)[i] = more[i + 1]
      BY <1>1, <2>2
    <3>2. Len(chatCache) = ChatEntries /\ Len(chatCache) \in 1 .. Len(chatCache)
      BY <1>1, <2>2, <2>3
    <3>3. Tail(more)[Len(chatCache)] = d
      BY <2>2, <3>1, <3>2
    <3>4. \A i \in 1 .. Len(chatCache) :
            Tail(more)[i] = d \/ \E j \in 1 .. Len(chatCache) : Tail(more)[i] = chatCache[j]
      <4> SUFFICES ASSUME NEW i \in 1 .. Len(chatCache), i # Len(chatCache)
                   PROVE  \E j \in 1 .. Len(chatCache) : Tail(more)[i] = chatCache[j]
        BY <3>3
      <4>1. i + 1 \in 1 .. Len(chatCache)
        BY <1>1
      <4> QED
        BY <2>2, <3>1, <4>1
    <3>5. D!Recorded(d) = Tail(more)
      BY <2>1, <2>3
    <3> QED
      BY <1>1, <3>1, <3>2, <3>3, <3>4, <3>5 DEF D!Contains
  <2>4. CASE ~(Len(more) > ChatEntries)
    <3>1. D!Recorded(d) = more /\ Len(more) <= ChatEntries
      BY <1>1, <2>1, <2>2, <2>4
    <3>2. D!Contains(more, d)
      BY <1>1, <2>2 DEF D!Contains
    <3>3. \A e \in Dispatches : D!Contains(more, e) => e = d \/ D!Contains(chatCache, e)
      <4> SUFFICES ASSUME NEW i \in 1 .. Len(more), more[i] # d
                   PROVE  \E j \in 1 .. Len(chatCache) : more[i] = chatCache[j]
        BY DEF D!Contains
      <4>1. i \in 1 .. Len(chatCache)
        BY <1>1, <2>2
      <4> QED
        BY <2>2, <4>1
    <3> QED
      BY <2>2, <3>1, <3>2, <3>3
  <2> QED
    BY <2>3, <2>4
<1> QED
  BY <1>2, <1>3

\* A response that is published leaves the dispatches in order, its caller having waited or not.
LEMMA RespondKeeps ==
  ASSUME Chatty, NEW d \in Dispatches, NEW c \in {"waiting", "handle", "answer", "cut off"},
         D!Respond(d, c), active' = active \ {d}, tracked' = tracked \ {d},
         parked' = parked \ {d}
  PROVE  Chatty'
<1>1. /\ caller' = [caller EXCEPT ![d] = IF c = "waiting" THEN "answer" ELSE c]
      /\ chatCache' = D!Recorded(d) /\ over' = over \cup {d}
      /\ lost' = (lost \ {d}) \cup {e \in Dispatches :
           D!Contains(chatCache, e) /\ ~D!Contains(D!Recorded(d), e)}
  BY DEF D!Respond, D!Hears
<1>2. /\ D!Recorded(d) \in Seq(Dispatches) /\ Len(D!Recorded(d)) <= ChatEntries
      /\ D!Contains(D!Recorded(d), d)
      /\ \A e \in Dispatches : D!Contains(D!Recorded(d), e) => e = d \/ D!Contains(chatCache, e)
  BY CacheTakesTheLast DEF Chatty
<1>3. /\ caller'[d] \in {"answer", "handle", "cut off"}
      /\ \A e \in Dispatches : e # d => caller'[e] = caller[e]
      /\ caller' \in [Dispatches -> {"none", "refused", "waiting", "handle", "answer", "cut off"}]
  BY <1>1 DEF Chatty, ChatTyped
<1>4. ChatTyped'
  BY <1>1, <1>2, <1>3 DEF Chatty, ChatTyped
<1>5. CachedIsOver'
  BY <1>1, <1>2 DEF Chatty, CachedIsOver
<1>6. OverIsCached'
  BY <1>1, <1>2 DEF Chatty, OverIsCached
<1>7. DispatchedIsAtWork' /\ AtWorkInOneWay' /\ D!WaitsForGood'
  BY <1>1, <1>3 DEF Chatty, DispatchedIsAtWork, AtWorkInOneWay, D!WaitsForGood
<1> QED
  BY <1>4, <1>5, <1>6, <1>7 DEF Chatty

LEMMA PublishKeeps ==
  ASSUME Chatty, NEW d \in Dispatches, NEW c \in {"waiting", "handle"}, caller[d] = "none",
         D!Publish(d, c)
  PROVE  Chatty'
<1>1. CASE D!Respond(d, c) /\ UNCHANGED <<active, tracked, parked, chatCrashes>>
  <2>1. active' = active \ {d} /\ tracked' = tracked \ {d} /\ parked' = parked \ {d}
    BY <1>1 DEF Chatty, DispatchedIsAtWork
  <2> QED
    BY <1>1, <2>1, RespondKeeps
<1>2. CASE /\ caller' = [caller EXCEPT ![d] = c] /\ active' = active \cup {d}
           /\ UNCHANGED <<tracked, parked, chatCache, over, lost, chatCrashes>>
  <2>1. /\ caller'[d] = c /\ \A e \in Dispatches : e # d => caller'[e] = caller[e]
        /\ caller' \in [Dispatches -> {"none", "refused", "waiting", "handle", "answer",
             "cut off"}]
    BY <1>2 DEF Chatty, ChatTyped
  <2>2. d \notin over
    BY DEF Chatty, DispatchedIsAtWork
  <2>3. ChatTyped' /\ CachedIsOver' /\ OverIsCached'
    BY <1>2, <2>1 DEF Chatty, ChatTyped, CachedIsOver, OverIsCached
  <2>4. DispatchedIsAtWork' /\ AtWorkInOneWay' /\ D!WaitsForGood'
    BY <1>2, <2>1, <2>2 DEF Chatty, DispatchedIsAtWork, AtWorkInOneWay, D!WaitsForGood
  <2> QED
    BY <2>3, <2>4 DEF Chatty
<1> QED
  BY <1>1, <1>2 DEF D!Publish

LEMMA EndKeeps ==
  ASSUME Chatty, NEW d \in Dispatches, D!Finish(d) \/ D!TaskEnds(d) \/ D!Promote(d)
  PROVE  Chatty'
<1>1. d \in active \cup tracked \cup parked
  BY DEF D!Finish, D!TaskEnds, D!Promote
<1>2. caller[d] \in {"waiting", "handle", "answer", "cut off"}
  BY <1>1 DEF Chatty, ChatTyped, DispatchedIsAtWork
<1>3. CASE /\ D!Respond(d, caller[d]) /\ active' = active \ {d} /\ tracked' = tracked \ {d}
           /\ parked' = parked \ {d}
  BY <1>2, <1>3, RespondKeeps
<1>4. CASE /\ active' = active \ {d} /\ tracked' = tracked \cup {d} /\ parked' = parked \ {d}
           /\ UNCHANGED <<caller, chatCache, over, lost>>
  <2>1. ChatTyped' /\ CachedIsOver' /\ OverIsCached'
    BY <1>4 DEF Chatty, ChatTyped, CachedIsOver, OverIsCached
  <2>2. d \notin over
    BY <1>1 DEF Chatty, AtWorkInOneWay
  <2>3. DispatchedIsAtWork' /\ D!WaitsForGood'
    BY <1>1, <1>2, <1>4 DEF Chatty, DispatchedIsAtWork, D!WaitsForGood
  <2>4. AtWorkInOneWay'
    BY <1>4, <2>2 DEF Chatty, AtWorkInOneWay
  <2> QED
    BY <2>1, <2>3, <2>4 DEF Chatty
<1>5. CASE D!Finish(d)
  <2>1. active' = active \ {d} /\ parked' = parked \ {d} /\ (UNCHANGED tracked => tracked' = tracked \ {d})
    BY <1>5 DEF D!Finish, Chatty, AtWorkInOneWay
  <2> QED
    BY <1>3, <1>4, <1>5, <2>1 DEF D!Finish, D!TrackedToo
<1>6. CASE D!TaskEnds(d)
  <2>1. active' = active \ {d} /\ tracked' = tracked \ {d} /\ parked' = parked \ {d}
    BY <1>6 DEF D!TaskEnds, Chatty, AtWorkInOneWay
  <2> QED
    BY <1>3, <1>6, <2>1 DEF D!TaskEnds
<1>7. CASE D!Promote(d)
  <2>1. active' = active \ {d} /\ parked' = parked \ {d} /\ (UNCHANGED tracked => tracked' = tracked \ {d})
    BY <1>7 DEF D!Promote, Chatty, AtWorkInOneWay
  <2> QED
    BY <1>3, <1>4, <1>7, <2>1 DEF D!Promote
<1> QED
  BY <1>5, <1>6, <1>7

LEMMA LapseKeeps ==
  ASSUME Chatty, NEW d \in Dispatches, D!Lapse(d)
  PROVE  Chatty'
<1>1. PICK i \in DOMAIN chatCache : chatCache[i] = d /\ chatCache' = D!RemoveAt(chatCache, i)
  BY DEF D!Lapse
<1>2. /\ chatCache \in Seq(Dispatches) /\ Len(chatCache) \in Nat /\ Len(chatCache) <= ChatEntries
      /\ ChatEntries \in Nat /\ i \in 1 .. Len(chatCache)
  BY <1>1, CacheIsASequence DEF Chatty
<1>3. /\ chatCache' \in Seq(Dispatches) /\ Len(chatCache') = Len(chatCache) - 1
      /\ \A j \in 1 .. Len(chatCache) - 1 : chatCache'[j] = chatCache[IF j < i THEN j ELSE j + 1]
  BY <1>1, <1>2, WithoutOne
<1>4. \A e \in Dispatches : D!Contains(chatCache', e) => D!Contains(chatCache, e)
  <2> SUFFICES ASSUME NEW j \in 1 .. Len(chatCache')
               PROVE  \E k \in 1 .. Len(chatCache) : chatCache[k] = chatCache'[j]
    BY DEF D!Contains
  <2>1. (IF j < i THEN j ELSE j + 1) \in 1 .. Len(chatCache) /\ j \in 1 .. Len(chatCache) - 1
    BY <1>2, <1>3
  <2> QED
    BY <1>3, <2>1
<1>5. \A e \in Dispatches : e # d /\ D!Contains(chatCache, e) => D!Contains(chatCache', e)
  <2> SUFFICES ASSUME NEW k \in 1 .. Len(chatCache), chatCache[k] # d
               PROVE  \E j \in 1 .. Len(chatCache') : chatCache'[j] = chatCache[k]
    BY DEF D!Contains
  <2> DEFINE j == IF k < i THEN k ELSE k - 1
  <2>1. k # i
    BY <1>1
  <2>2. j \in 1 .. Len(chatCache) - 1 /\ (IF j < i THEN j ELSE j + 1) = k
    BY <1>2, <2>1
  <2>3. chatCache'[j] = chatCache[k]
    BY <1>3, <2>2
  <2> QED
    BY <1>3, <2>2, <2>3
<1>6. lost' = lost \cup {d} /\ UNCHANGED <<caller, active, tracked, parked, over>>
  BY DEF D!Lapse
<1>7. ChatTyped'
  <2>1. Len(chatCache') <= ChatEntries
    BY <1>2, <1>3
  <2> QED
    BY <1>3, <1>6, <2>1 DEF Chatty, ChatTyped
<1>8. CachedIsOver' /\ OverIsCached'
  BY <1>4, <1>5, <1>6 DEF Chatty, CachedIsOver, OverIsCached
<1>9. DispatchedIsAtWork' /\ AtWorkInOneWay' /\ D!WaitsForGood'
  BY <1>6 DEF Chatty, DispatchedIsAtWork, AtWorkInOneWay, D!WaitsForGood
<1> QED
  BY <1>7, <1>8, <1>9 DEF Chatty

LEMMA ChatKept ==
  ASSUME Chatty, [D!Next]_D!vars
  PROVE  Chatty'
<1>1. CASE D!Crash
  <2>1. /\ caller' = [d \in Dispatches |-> IF caller[d] = "waiting" THEN "cut off" ELSE caller[d]]
        /\ active' = {} /\ chatCache' = << >> /\ lost' = lost \cup active \cup D!ToSet(chatCache)
        /\ tracked' = {} /\ parked' = parked \cup tracked /\ UNCHANGED over
    BY <1>1 DEF D!Crash
  <2>2. \A d \in Dispatches : D!Contains(chatCache, d) => d \in D!ToSet(chatCache)
    BY CacheIsASequence DEF Chatty, D!Contains, D!ToSet
  <2>3. \A d \in Dispatches : ~D!Contains(<< >>, d)
    BY DEF D!Contains
  <2>4. ChatTyped'
    <3>1. << >> \in Seq(Dispatches) /\ Len(<< >>) = 0 /\ 0 <= ChatEntries
      BY CacheIsASequence DEF Chatty
    <3> QED
      BY <2>1, <3>1 DEF Chatty, ChatTyped
  <2>5. CachedIsOver' /\ OverIsCached'
    BY <2>1, <2>2, <2>3 DEF Chatty, CachedIsOver, OverIsCached
  <2>6. DispatchedIsAtWork' /\ AtWorkInOneWay' /\ D!WaitsForGood'
    BY <2>1 DEF Chatty, DispatchedIsAtWork, AtWorkInOneWay, D!WaitsForGood
  <2> QED
    BY <2>4, <2>5, <2>6 DEF Chatty
<1>2. ASSUME NEW d \in Dispatches, D!Chat(d) \/ D!Delegate(d)
      PROVE  Chatty'
  <2>1. CASE caller' = [caller EXCEPT ![d] = "refused"] /\ caller[d] = "none"
             /\ UNCHANGED <<active, tracked, parked, chatCache, over, lost>>
    BY <2>1 DEF Chatty, ChatTyped, CachedIsOver, OverIsCached, DispatchedIsAtWork, AtWorkInOneWay, D!WaitsForGood
  <2>2. ASSUME NEW c \in {"waiting", "handle"}, caller[d] = "none", D!Publish(d, c)
        PROVE  Chatty'
    BY <2>2, PublishKeeps
  <2> QED
    BY <1>2, <2>1, <2>2 DEF D!Chat, D!Delegate
<1>3. ASSUME NEW d \in Dispatches, D!Timeout(d)
      PROVE  Chatty'
  <2>1. /\ caller[d] = "waiting" /\ caller' = [caller EXCEPT ![d] = "handle"]
        /\ UNCHANGED <<active, tracked, parked, chatCache, over, lost>>
    BY <1>3 DEF D!Timeout
  <2>2. /\ caller'[d] = "handle" /\ \A e \in Dispatches : e # d => caller'[e] = caller[e]
        /\ caller' \in [Dispatches -> {"none", "refused", "waiting", "handle", "answer",
             "cut off"}]
    BY <2>1 DEF Chatty, ChatTyped
  <2>3. ChatTyped' /\ CachedIsOver' /\ OverIsCached'
    BY <2>1, <2>2 DEF Chatty, ChatTyped, CachedIsOver, OverIsCached
  <2>4. DispatchedIsAtWork' /\ AtWorkInOneWay' /\ D!WaitsForGood'
    BY <2>1, <2>2 DEF Chatty, DispatchedIsAtWork, AtWorkInOneWay, D!WaitsForGood
  <2> QED
    BY <2>3, <2>4 DEF Chatty
<1>4. CASE UNCHANGED D!vars
  BY <1>4
    DEF D!vars, Chatty, ChatTyped, CachedIsOver, OverIsCached, DispatchedIsAtWork, AtWorkInOneWay, D!WaitsForGood
<1> QED
  BY <1>1, <1>2, <1>3, <1>4, EndKeeps, LapseKeeps DEF D!Next

LEMMA ChatStarts == D!Init => Chatty
<1> SUFFICES ASSUME D!Init PROVE Chatty
  OBVIOUS
<1>1. \A d \in Dispatches : ~D!Contains(<< >>, d)
  BY DEF D!Contains
<1> QED
  BY <1>1, EntriesAreKept
    DEF D!Init, Chatty, ChatTyped, CachedIsOver, OverIsCached, DispatchedIsAtWork, AtWorkInOneWay, D!WaitsForGood

(***************************************************************************)
(* Whoever holds a handle is told how its dispatch is (PollKnows), however *)
(* answers, timeouts, evictions and crashes fall: between the active       *)
(* executions, the tracker, its rows and the cache nothing is forgotten.   *)
(***************************************************************************)
THEOREM PollAlwaysKnows == D!Spec => []D!PollKnows
<1>1. Chatty /\ [D!Next]_D!vars => Chatty'
  BY ChatKept
<1>2. Chatty => D!PollKnows
  BY DEF Chatty, CachedIsOver, OverIsCached, DispatchedIsAtWork, AtWorkInOneWay, D!PollKnows, D!Poll
<1> QED
  BY <1>1, <1>2, ChatStarts, PTL DEF D!Spec

(***************************************************************************)
(* A caller that waits has not missed the answer (WaitsForGood, which the  *)
(* run checks as part of PollKnows).                                       *)
(***************************************************************************)
THEOREM WaitersAlwaysHear == D!Spec => []D!WaitsForGood
<1>1. Chatty /\ [D!Next]_D!vars => Chatty'
  BY ChatKept
<1>2. Chatty => D!WaitsForGood
  BY DEF Chatty
<1> QED
  BY <1>1, <1>2, ChatStarts, PTL DEF D!Spec

-----------------------------------------------------------------------------
\* Schedules. A one-shot that has fired leaves neither a file nor a timer of itself.

\* A one-shot that was published and deleted is gone; a cron is not counted.
Spent ==
  /\ kind \in S!Kinds
  /\ \/ shots = 0
     \/ shots = 1 /\ kind = "once" /\ file = "absent" /\ timer = "none"

\* What is stopped has no timer and no file that a start or a sweep would load.
Disarmed ==
  /\ stopped => timer = "none" /\ file # "on"
  /\ S!StoppedIsSilent

(***************************************************************************)
(* Scheduling counts a publication that leaves nothing behind.             *)
(***************************************************************************)
LEMMA ScheduleSpends ==
  ASSUME NEW k \in S!Kinds, NEW w, S!Schedule(k, w, 0), kind' = k
  PROVE  Spent'
BY DEF S!Schedule, S!Fire, S!FileAfterFire, Spent, S!Kinds

LEMMA LoadSpends ==
  ASSUME Spent, S!Load, UNCHANGED kind
  PROVE  Spent'
<1>1. CASE file = "on"
  BY <1>1, ScheduleSpends DEF S!Load, Spent
<1>2. CASE file # "on"
  BY <1>2 DEF S!Load, S!Quiet, Spent
<1> QED
  BY <1>1, <1>2

LEMMA SpentKept ==
  ASSUME Spent, [S!Next]_S!vars
  PROVE  Spent'
<1>1. CASE S!Start \/ S!Watch
  BY <1>1, LoadSpends DEF S!Start, S!Watch
<1>2. CASE S!Stop \/ S!Tick \/ S!Erase \/ S!Settle
  BY <1>2 DEF S!Stop, S!Tick, S!Erase, S!Settle, S!Quiet, S!clock, Spent
<1>3. CASE S!Elapse
  BY <1>3 DEF S!Elapse, S!Fire, S!FileAfterFire, Spent, S!Kinds
<1>4. CASE S!Drop
  BY <1>4 DEF S!Drop, Spent
<1>5. CASE S!Add
  BY <1>5, ScheduleSpends DEF S!Add
<1>6. CASE S!Remove \/ S!Pause
  BY <1>6 DEF S!Remove, S!Pause, S!Quiet, Spent
<1>7. CASE S!Resume
  BY <1>7, ScheduleSpends DEF S!Resume, Spent
<1>8. CASE UNCHANGED S!vars
  BY <1>8 DEF S!vars, S!clock, Spent
<1> QED
  BY <1>1, <1>2, <1>3, <1>4, <1>5, <1>6, <1>7, <1>8 DEF S!Next

(***************************************************************************)
(* A file is loaded into a timer or a publication only when it is on.      *)
(***************************************************************************)
LEMMA LoadArms ==
  ASSUME Disarmed, S!Load, UNCHANGED stopped
  PROVE  Disarmed'
<1>1. CASE file = "on"
  BY <1>1 DEF Disarmed, S!StoppedIsSilent
<1>2. CASE file # "on"
  BY <1>2 DEF S!Load, S!Quiet, Disarmed, S!StoppedIsSilent
<1> QED
  BY <1>1, <1>2

LEMMA DisarmedKept ==
  ASSUME Disarmed, [S!Next]_S!vars
  PROVE  Disarmed'
<1>1. CASE S!Start \/ S!Watch
  BY <1>1, LoadArms DEF S!Start, S!Watch, S!ghosts
<1>2. CASE S!Stop \/ S!Tick \/ S!Erase \/ S!Settle
  BY <1>2
    DEF S!Stop, S!Tick, S!Erase, S!Settle, S!Quiet, S!clock, S!ghosts, Disarmed,
        S!StoppedIsSilent
<1>3. CASE S!Elapse
  BY <1>3 DEF S!Elapse, Disarmed, S!StoppedIsSilent, S!ghosts
<1>4. CASE S!Drop \/ S!Add \/ S!Resume
  BY <1>4 DEF S!Drop, S!Add, S!Resume, Disarmed, S!StoppedIsSilent
<1>5. CASE S!Remove
  BY <1>5 DEF S!Remove, S!Quiet, Disarmed, S!StoppedIsSilent
<1>6. CASE S!Pause
  BY <1>6 DEF S!Pause, S!PausedFile, S!Quiet, Disarmed, S!StoppedIsSilent
<1>7. CASE UNCHANGED S!vars
  BY <1>7 DEF S!vars, S!clock, S!ghosts, Disarmed, S!StoppedIsSilent
<1> QED
  BY <1>1, <1>2, <1>3, <1>4, <1>5, <1>6, <1>7 DEF S!Next

(***************************************************************************)
(* A one-shot is published at most once, whatever restarts, sweeps and     *)
(* commands come between (FiresOnce).                                      *)
(***************************************************************************)
THEOREM FiresAtMostOnce == S!Spec => []S!FiresOnce
<1>1. S!Init => Spent
  BY DEF S!Init, Spent
<1>2. Spent /\ [S!Next]_S!vars => Spent'
  BY SpentKept
<1>3. Spent => S!FiresOnce
  BY DEF Spent, S!FiresOnce
<1> QED
  BY <1>1, <1>2, <1>3, PTL DEF S!Spec

(***************************************************************************)
(* What was removed or paused publishes nothing until it is asked for      *)
(* again (StoppedIsSilent, which the run checks as part of FiresOnce).     *)
(***************************************************************************)
THEOREM StoppedAlwaysSilent == S!Spec => []S!StoppedIsSilent
<1>1. S!Init => Disarmed
  BY DEF S!Init, Disarmed, S!StoppedIsSilent
<1>2. Disarmed /\ [S!Next]_S!vars => Disarmed'
  BY DisarmedKept
<1>3. Disarmed => S!StoppedIsSilent
  BY DEF Disarmed
<1> QED
  BY <1>1, <1>2, <1>3, PTL DEF S!Spec

-----------------------------------------------------------------------------
\* Agents reloaded. A reload touches the registrations of the agents it changes only.

(***************************************************************************)
(* Of the files that declare a name there is a last one, and install       *)
(* registers its definition as it does the others'.                        *)
(***************************************************************************)
LEMMA LastFile ==
  ASSUME NEW T \in SUBSET Files, T # {}
  PROVE  H!Max(T) \in T
<1>1. PICK n \in Nat : Files \subseteq 0 .. n
  BY FilesAreNumbered, FS_CardinalityType
<1> DEFINE below == {n - x : x \in T}
<1>2. /\ \A x \in T : x \in Nat /\ n - x \in Nat
      /\ below \subseteq Nat /\ below # {}
  <2>1. \A x \in T : x \in 0 .. n
    BY <1>1
  <2> QED
    BY <2>1
<1>3. IsWellFoundedOn(OpToRel(<, Nat), Nat)
  BY NatLessThanWellFounded, Zenon
<1>4. PICK b \in below : \A c \in below : ~(<<c, b>> \in OpToRel(<, Nat))
  BY <1>2, <1>3, WFMin, Zenon
<1>5. \A b0, c0 \in Nat : c0 < b0 => <<c0, b0>> \in OpToRel(<, Nat)
  BY Zenon DEF OpToRel
<1>6. PICK x \in T : b = n - x
  BY <1>4
<1>7. \A y \in T : ~(n - y < n - x)
  BY <1>2, <1>4, <1>5, <1>6
<1>8. \A y \in T : x >= y
  BY <1>1, <1>2, <1>7
<1> QED
  BY <1>8 DEF H!Max

LEMMA EntryIsInstalled ==
  ASSUME NEW n \in Names, H!Loaded(n)
  PROVE  H!Registered(n, H!Entry(n)) \subseteq H!Installed
<1> DEFINE mine == {g \in Files : H!Declares(g, n)}
           f == H!Max(mine)
<1>1. f \in mine
  BY LastFile DEF H!Loaded
<1>2. f \in {g \in Files : content[g] \in H!Defs} /\ content[f].name = n
  BY <1>1 DEF H!Declares
<1>3. H!Entry(n) = [version |-> content[f].version, file |-> f]
  BY DEF H!Entry
<1> HIDE DEF f
<1> QED
  BY <1>2, <1>3 DEF H!Installed

LEMMA ReloadServes ==
  ASSUME H!LiveServed, H!Poll
  PROVE  H!LiveServed'
<1> SUFFICES ASSUME NEW n \in Names, running'[n] # H!None
             PROVE  H!Registered(n, running'[n]) \subseteq regs'
  BY DEF H!LiveServed, H!Registered
<1>1. /\ regs' = (regs \ H!Old) \union H!New
      /\ running'[n] = IF H!Added(n) \/ H!Changed(n) THEN H!Entry(n)
                       ELSE IF H!Gone(n) THEN H!None ELSE running[n]
  BY DEF H!Poll, H!Reconciled
<1>2. CASE H!Added(n) \/ H!Changed(n)
  <2>1. H!Registered(n, H!Entry(n)) \subseteq H!New
    BY <1>2 DEF H!New
  <2> QED
    BY <1>1, <1>2, <2>1
<1>3. CASE ~(H!Added(n) \/ H!Changed(n))
  <2>1. ~H!Gone(n) /\ running'[n] = running[n]
    BY <1>1, <1>3
  <2>2. H!Registered(n, running[n]) \subseteq regs
    BY <2>1 DEF H!LiveServed
  <2>3. \A r \in H!Registered(n, running[n]) : r.name = n
    BY DEF H!Registered
  <2>4. \A r \in H!Old : r.name # n
    BY <1>3, <2>1 DEF H!Old
  <2> QED
    BY <1>1, <2>1, <2>2, <2>3, <2>4
<1> QED
  BY <1>2, <1>3

LEMMA RestartServes ==
  ASSUME H!LiveServed, H!Restart
  PROVE  H!LiveServed'
<1> SUFFICES ASSUME NEW n \in Names, running'[n] # H!None
             PROVE  H!Registered(n, running'[n]) \subseteq regs'
  BY DEF H!LiveServed, H!Registered
<1>1. regs' = H!Installed /\ running'[n] = IF H!Loaded(n) THEN H!Entry(n) ELSE H!None
  BY DEF H!Restart
<1> QED
  BY <1>1, EntryIsInstalled


(***************************************************************************)
(* A running agent answers for every skill of its definition with its      *)
(* newest executor (LiveServed), whatever is written, reloaded, broken or  *)
(* removed: a poll takes out what was registered for the agents that       *)
(* changed or are gone, and only then registers the new.                   *)
(***************************************************************************)
THEOREM LiveAlwaysServed == H!Spec => []H!LiveServed
<1>1. H!Init => H!LiveServed
  BY EntryIsInstalled DEF H!Init, H!LiveServed
<1>2. ASSUME H!LiveServed, [H!Next]_H!vars
      PROVE  H!LiveServed'
  <2>1. CASE UNCHANGED <<running, regs>>
    BY <1>2, <2>1 DEF H!LiveServed, H!Registered
  <2>2. H!Rest \/ UNCHANGED H!vars => UNCHANGED <<running, regs>>
    BY DEF H!Rest, H!vars
  <2>3. ASSUME NEW n \in Names, NEW v, H!Delete(n) \/ H!Create(n, v) \/ H!Update(n, v)
        PROVE  UNCHANGED <<running, regs>>
    BY <2>3 DEF H!Delete, H!Create, H!Update, H!Write
  <2>4. ASSUME NEW f \in Files, H!Edit(f)
        PROVE  UNCHANGED <<running, regs>>
    BY <2>4 DEF H!Edit, H!Write
  <2> QED
    BY <1>2, <2>1, <2>2, <2>3, <2>4, ReloadServes, RestartServes DEF H!Next
<1> QED
  BY <1>1, <1>2, PTL DEF H!Spec

-----------------------------------------------------------------------------
\* Ceremonies. A run that ends takes the status with it.

(***************************************************************************)
(* A ceremony shown as running has a run under way (RunningIsTrue),        *)
(* whatever is edited, disabled or restarted in between: a run that ends   *)
(* takes the status with it, also while another is under way.              *)
(***************************************************************************)
THEOREM RunningAlwaysTrue == C!Spec => []C!RunningIsTrue
<1>1. C!Init => C!RunningIsTrue
  BY DEF C!Init, C!Loads, C!RunningIsTrue
<1>2. ASSUME C!RunningIsTrue, [C!Next]_C!vars
      PROVE  C!RunningIsTrue'
  <2>1. CASE C!Fire
    BY <1>2, <2>1 DEF C!Fire, C!RunningIsTrue
  <2>2. ASSUME NEW r, NEW outcome, C!Complete(r, outcome)
        PROVE  C!RunningIsTrue'
    BY <2>2 DEF C!Complete, C!Shows, C!RunningIsTrue
  <2>3. CASE C!Sweep
    <3>1. UNCHANGED waiting /\ (ceremonyStatus' = ceremonyStatus
              \/ ceremonyStatus' \in {"idle", "none"})
      BY <2>3 DEF C!Sweep, C!NewFile, C!ChangedFile, C!Register, C!Unregister, C!runs
    <3> QED
      BY <1>2, <3>1 DEF C!RunningIsTrue
  <2>4. CASE C!Restart
    BY <2>4 DEF C!Restart, C!Loads, C!RunningIsTrue
  <2>5. CASE C!Edit \/ C!Settle \/ UNCHANGED C!vars
    BY <1>2, <2>5 DEF C!Edit, C!Settle, C!vars, C!runs, C!RunningIsTrue
  <2>6. C!Cron \/ C!Trigger => C!Fire
    BY DEF C!Cron, C!Trigger
  <2>7. ASSUME NEW r \in waiting, C!Reply(r) \/ C!Timeout(r)
        PROVE  \E outcome \in {"success", "failure", "timeout"} : C!Complete(r, outcome)
    BY <2>7 DEF C!Reply, C!Timeout
  <2> QED
    BY <1>2, <2>1, <2>2, <2>3, <2>4, <2>5, <2>6, <2>7 DEF C!Next
<1> QED
  BY <1>1, <1>2, PTL DEF C!Spec

-----------------------------------------------------------------------------
\* Executors. What a stream has shown names its task.

(***************************************************************************)
(* What a stream has shown names its task, and a call whose stream is read *)
(* is one of an agent that streams, unless its capabilities have changed.  *)
(***************************************************************************)
ExecutorsTyped ==
  /\ executorsPhase \in [E!Calls -> E!Awaits] /\ steady \in [E!Calls -> BOOLEAN]
  /\ executorsSeen \in [E!Calls -> SUBSET {"id", "text"}]

ShownIsNamed == \A c \in E!Calls : executorsSeen[c] # {} => "id" \in executorsSeen[c]

StreamsAreRead == \A c \in E!Calls :
  executorsPhase[c] = "streaming" => executorsKind = "stream" \/ ~steady[c]

Followed == ExecutorsTyped /\ ShownIsNamed /\ StreamsAreRead /\ E!HandedOver

LEMMA ReturnFollows ==
  ASSUME Followed, NEW c \in E!Calls, NEW shown,
         NEW r, E!Return(c, shown, r), executorsKind' = executorsKind,
         r = "working" => "id" \in shown \/ ~steady[c]
  PROVE  Followed'
<1>1. /\ executorsPhase' = [executorsPhase EXCEPT ![c] = "idle"]
           /\ executorsSeen' = [executorsSeen EXCEPT ![c] = {}]
      /\ steady' = [steady EXCEPT ![c] = TRUE] /\ astray' = astray
  BY DEF E!Return, E!Forget
<1> QED
  BY <1>1 DEF Followed, ExecutorsTyped, E!Awaits, ShownIsNamed, StreamsAreRead, E!HandedOver

LEMMA EndFollows ==
  ASSUME Followed, NEW c \in E!Calls, E!End(c), executorsKind' = executorsKind
  PROVE  Followed'
BY ReturnFollows DEF E!End

LEMMA AwaitFollows ==
  ASSUME Followed, NEW c \in E!Calls, NEW p \in E!Awaits, E!Await(c, p),
         executorsKind' = executorsKind,
         p = "streaming" => executorsKind = "stream"
  PROVE  Followed'
<1>1. executorsPhase' = [executorsPhase EXCEPT ![c] = p]
          /\ UNCHANGED <<executorsSeen, steady, astray>>
  BY DEF E!Await
<1> QED
  BY <1>1 DEF Followed, ExecutorsTyped, ShownIsNamed, StreamsAreRead, E!HandedOver

LEMMA GuardedFollows ==
  ASSUME Followed, NEW c \in E!Calls, NEW p \in {"running", "sent"}, E!Guarded(c, p),
         executorsKind' = executorsKind
  PROVE  Followed'
<1>1. CASE \E q \in E!Arrives(p, "lost") : E!Await(c, q)
  <2>1. \A q \in E!Arrives(p, "lost") : q \in E!Awaits /\ q # "streaming"
    BY DEF E!Arrives, E!Awaits
  <2> QED
    BY <1>1, <2>1, AwaitFollows
<1>2. CASE E!End(c)
  BY <1>2, EndFollows
<1> QED
  BY <1>1, <1>2 DEF E!Guarded

LEMMA StreamFollows ==
  ASSUME Followed, NEW c \in E!Calls, executorsPhase[c] = "streaming", NEW shown,
         NEW r, E!EndStream(c, shown, r),
         r = "working" => shown = {} \/ "id" \in shown
  PROVE  Followed'
<1>1. executorsKind' = executorsKind
  BY DEF E!EndStream
<1>2. CASE E!Empty(shown)
  BY <1>1, <1>2, GuardedFollows DEF E!EndStream, E!Blocking
<1>3. CASE ~E!Empty(shown)
  <2>1. shown # {} \/ ~steady[c]
    BY <1>3 DEF E!Empty, Followed, StreamsAreRead
  <2> QED
    BY <1>1, <1>3, <2>1, ReturnFollows DEF E!EndStream
<1> QED
  BY <1>2, <1>3

LEMMA StepFollows ==
  ASSUME Followed, NEW c \in E!Calls, E!Step(c)
  PROVE  Followed'
<1>1. executorsKind' = executorsKind
  BY DEF E!Step, E!FetchCard, E!Ask, E!Told, E!Send, E!Answer, E!Break, E!EndStream, E!Update,
         E!Close, E!Yield, E!Chatted, E!Finish, E!Distil, E!Fail
<1>2. \A q \in {"ready", "legacy", "distilled", "repaired", "running"} :
          q \in E!Awaits /\ q # "streaming"
  BY DEF E!Awaits
<1>3. CASE E!FetchCard(c)
  BY <1>1, <1>2, <1>3, AwaitFollows, EndFollows DEF E!FetchCard
<1>4. CASE E!Ask(c)
  <2>1. \A q \in E!Arrives("asked", "missed") : q \in E!Awaits /\ q # "streaming"
    BY DEF E!Arrives, E!Awaits
  <2> QED
    BY <1>1, <1>4, <2>1, AwaitFollows DEF E!Ask
<1>5. CASE E!Told(c) \/ E!Fail(c)
  BY <1>1, <1>5, EndFollows DEF E!Told, E!Fail
<1>6. CASE E!Send(c)
  <2>1. \A q \in E!Arrives("streaming", "missed") : q \in E!Awaits
    BY DEF E!Arrives, E!Awaits
  <2>2. CASE executorsKind = "stream"
    BY <1>1, <1>6, <2>1, <2>2, AwaitFollows DEF E!Send, E!Stream
  <2>3. CASE executorsKind # "stream"
    BY <1>1, <1>6, <2>3, GuardedFollows DEF E!Send, E!Blocking
  <2> QED
    BY <2>2, <2>3
<1>7. CASE E!Answer(c)
  BY <1>1, <1>7, EndFollows, ReturnFollows DEF E!Answer
<1>8. CASE E!Break(c)
  BY <1>8, StreamFollows DEF E!Break
<1>9. CASE E!Close(c)
  BY <1>9, StreamFollows DEF E!Close, Followed, ShownIsNamed
<1>10. CASE E!Update(c)
  <2>1. PICK text \in SUBSET {"text"} :
            executorsSeen' = [executorsSeen EXCEPT ![c] = @ \cup text \cup {"id"}]
    BY <1>10 DEF E!Update
  <2>2. UNCHANGED <<executorsKind, executorsPhase, steady, astray>>
    BY <1>10 DEF E!Update
  <2>3. /\ executorsSeen' \in [E!Calls -> SUBSET {"id", "text"}] /\ "id" \in executorsSeen'[c]
        /\ \A d \in E!Calls : d # c => executorsSeen'[d] = executorsSeen[d]
    BY <2>1 DEF Followed, ExecutorsTyped
  <2> QED
    BY <2>2, <2>3 DEF Followed, ExecutorsTyped, ShownIsNamed, StreamsAreRead, E!HandedOver
<1>11. CASE E!Yield(c)
  BY <1>11 DEF E!Yield, Followed, ExecutorsTyped, ShownIsNamed, StreamsAreRead, E!HandedOver
<1>12. CASE E!Chatted(c)
  <2>1. executorsPhase' = [executorsPhase EXCEPT ![c] = "running"]
            /\ UNCHANGED <<executorsKind, executorsSeen, steady, astray>>
    BY <1>12 DEF E!Chatted
  <2> QED
    BY <1>2, <2>1 DEF Followed, ExecutorsTyped, ShownIsNamed, StreamsAreRead, E!HandedOver
<1>13. CASE E!Finish(c) \/ E!Distil(c)
  BY <1>1, <1>2, <1>13, EndFollows, AwaitFollows DEF E!Finish, E!Distil
<1> QED
  BY <1>3, <1>4, <1>5, <1>6, <1>7, <1>8, <1>9, <1>10, <1>11, <1>12, <1>13 DEF E!Step

LEMMA CallsKept ==
  ASSUME Followed, [E!Next]_E!vars
  PROVE  Followed'
<1>1. CASE UNCHANGED <<executorsKind, executorsPhase, executorsSeen, steady, astray>>
  BY <1>1 DEF Followed, ExecutorsTyped, ShownIsNamed, StreamsAreRead, E!HandedOver
<1>2. E!Cool \/ E!Turn \/ UNCHANGED E!vars => UNCHANGED <<executorsKind, executorsPhase,
          executorsSeen, steady, astray>>
  BY DEF E!Cool, E!Turn, E!vars
<1>3. CASE E!SetCapabilities
  BY <1>3
    DEF E!SetCapabilities, Followed, ExecutorsTyped, ShownIsNamed, StreamsAreRead, E!HandedOver
<1>4. ASSUME NEW c \in E!Calls, E!Execute(c)
      PROVE  Followed'
  <2>1. /\ executorsPhase' = [executorsPhase EXCEPT ![c] = "card"]
             /\ executorsSeen' = [executorsSeen EXCEPT ![c] = {}]
        /\ steady' = [steady EXCEPT ![c] = TRUE] /\ UNCHANGED <<executorsKind, astray>>
    BY <1>4 DEF E!Execute, E!Forget
  <2> QED
    BY <2>1 DEF Followed, ExecutorsTyped, E!Awaits, ShownIsNamed, StreamsAreRead, E!HandedOver
<1>5. ASSUME NEW c \in E!Calls, E!Run(c)
      PROVE  Followed'
  BY <1>5, GuardedFollows DEF E!Run
<1>6. ASSUME NEW c \in E!Calls, NEW p \in {"chatting", "missed", "stalled", "lost"},
             E!Await(c, p), executorsKind' = executorsKind
      PROVE  Followed'
  <2>1. p \in E!Awaits /\ p # "streaming"
    BY DEF E!Awaits
  <2> QED
    BY <1>6, <2>1, AwaitFollows
<1>7. ASSUME NEW c \in E!Calls, E!Chat(c) \/ E!Hang(c)
      PROVE  Followed'
  BY <1>6, <1>7 DEF E!Chat, E!Hang
<1> QED
  BY <1>1, <1>2, <1>3, <1>4, <1>5, <1>7, StepFollows DEF E!Next

(***************************************************************************)
(* A call answered with a task still at work names it (HandedOver),        *)
(* whatever part of the stream was seen: a stream that ends early with     *)
(* nothing shown is followed by a blocking call.                           *)
(***************************************************************************)
THEOREM TasksAlwaysHandedOver == E!Spec => []E!HandedOver
<1>1. E!Init => Followed
  BY DEF E!Init, Followed, ExecutorsTyped, E!Awaits, ShownIsNamed, StreamsAreRead, E!HandedOver
<1>2. Followed /\ [E!Next]_E!vars => Followed'
  BY CallsKept
<1>3. Followed => E!HandedOver
  BY DEF Followed
<1> QED
  BY <1>1, <1>2, <1>3, PTL DEF E!Spec

-----------------------------------------------------------------------------
\* Checkouts. A tree that grows has its clone under way.

(***************************************************************************)
(* A tree that grows has its clone under way, so that no later review of   *)
(* the head takes it for a hit.                                            *)
(***************************************************************************)
CheckoutsTyped ==
  /\ phase \in [Reviews -> {"idle", "lookup", "waiting", "review", "findings", "answered",
       "failed", "hung"}]
  /\ head \in [Reviews -> Heads]
  /\ tree \in [Heads -> {"absent", "growing", "whole", "torn"}]
  /\ inflight \in [Heads -> {"none", "token", "clone", "fetch", "checkout", "hung"}]

GrowingIsCloned ==
  \A h \in Heads : tree[h] = "growing" => inflight[h] \in {"clone", "fetch", "checkout"}

Cloned == CheckoutsTyped /\ GrowingIsCloned

ServesWhole ==
  \A r \in Reviews :
    phase'[r] = "review" /\ phase[r] # "review" => tree'[head'[r]] \in {"whole", "torn"}

LEMMA GoesTyped ==
  ASSUME CheckoutsTyped, NEW R, NEW p \in {"lookup", "waiting", "review", "findings", "answered",
         "failed", "hung"},
         K!Goes(R, p)
  PROVE  /\ phase' \in [Reviews -> {"idle", "lookup", "waiting", "review", "findings",
              "answered", "failed", "hung"}]
         /\ \A r \in Reviews : phase'[r] = IF r \in R THEN p ELSE phase[r]
BY DEF K!Goes, CheckoutsTyped

LEMMA LookupServes ==
  ASSUME Cloned, NEW r \in Reviews, K!Lookup(r)
  PROVE  Cloned' /\ ServesWhole
<1>1. CASE K!Goes({r}, "failed") /\ UNCHANGED <<head, tree, fresh, inflight>>
  BY <1>1, GoesTyped DEF Cloned, CheckoutsTyped, GrowingIsCloned, ServesWhole
<1>2. ASSUME NEW h \in Heads, head' = [head EXCEPT ![r] = h], K!Resolve(r, h)
      PROVE  Cloned' /\ ServesWhole
  <2>1. head' \in [Reviews -> Heads] /\ head'[r] = h
    BY <1>2 DEF Cloned, CheckoutsTyped
  <2>2. CASE K!Joins(h) /\ K!Goes({r}, "waiting") /\ UNCHANGED <<tree, fresh, inflight>>
    BY <2>1, <2>2, GoesTyped DEF Cloned, CheckoutsTyped, GrowingIsCloned, ServesWhole
  <2>3. CASE K!Hit(h) /\ K!Goes({r}, "review") /\ UNCHANGED <<tree, fresh, inflight>>
    <3>1. tree[h] \in {"whole", "torn"}
      BY <2>3 DEF K!Hit, K!Joins, Cloned, CheckoutsTyped, GrowingIsCloned
    <3> QED
      BY <2>1, <2>3, <3>1, GoesTyped DEF Cloned, CheckoutsTyped, GrowingIsCloned, ServesWhole
  <2>4. CASE /\ K!Goes({r}, "waiting")
             /\ tree' = [tree EXCEPT ![h] = "absent"]
                  /\ inflight' = [inflight EXCEPT ![h] = "token"]
    BY <2>1, <2>4, GoesTyped DEF Cloned, CheckoutsTyped, GrowingIsCloned, ServesWhole
  <2> QED
    BY <1>2, <2>2, <2>3, <2>4 DEF K!Resolve
<1> QED
  BY <1>1, <1>2 DEF K!Lookup

LEMMA GitServes ==
  ASSUME Cloned, NEW h \in Heads, K!Git(h)
  PROVE  Cloned' /\ ServesWhole
<1> USE DEF Cloned, CheckoutsTyped, GrowingIsCloned, ServesWhole
<1>1. CASE K!Token(h)
  <2>1. CASE K!Refuse(h) /\ UNCHANGED <<tree, fresh>> /\ UNCHANGED <<head, crashes>>
    <3>1. inflight[h] = "token" /\ K!Goes(K!Waiting(h), "failed")
          /\ inflight' = [inflight EXCEPT ![h] = "none"]
      BY <1>1, <2>1 DEF K!Token, K!Refuse
    <3> QED
      BY <2>1, <3>1, GoesTyped
  <2>2. CASE /\ inflight' = [inflight EXCEPT ![h] = "clone"]
                  /\ tree' = [tree EXCEPT ![h] = "growing"]
             /\ UNCHANGED <<phase, head>>
    BY <2>2
  <2> QED
    BY <1>1, <2>1, <2>2 DEF K!Token
<1>2. CASE K!Clone(h) \/ K!Fetch(h)
  BY <1>2 DEF K!Clone, K!Fetch
<1>3. CASE K!Checkout(h)
  <2>1. /\ tree' = [tree EXCEPT ![h] = "whole"] /\ K!Goes(K!Waiting(h), "review")
        /\ inflight' = [inflight EXCEPT ![h] = "none"] /\ head' = head
    BY <1>3 DEF K!Checkout
  <2>2. \A r \in K!Waiting(h) : head[r] = h
    BY DEF K!Waiting
  <2> QED
    BY <2>1, <2>2, GoesTyped
<1>4. CASE K!GitFails(h)
  <2>1. /\ tree' = [tree EXCEPT ![h] = "absent"] /\ K!Goes(K!Waiting(h), "failed")
        /\ inflight' = [inflight EXCEPT ![h] = "none"] /\ head' = head
    BY <1>4 DEF K!GitFails, K!Discarded, K!Refuse
  <2> QED
    BY <2>1, GoesTyped
<1> QED
  BY <1>1, <1>2, <1>3, <1>4 DEF K!Git

LEMMA StepServes ==
  ASSUME Cloned, [K!Next]_K!vars
  PROVE  Cloned' /\ [ServesWhole]_K!vars
<1> USE DEF Cloned, CheckoutsTyped, GrowingIsCloned, ServesWhole
<1>1. CASE K!Cleanup
  BY <1>1 DEF K!Cleanup, K!Pruned
<1>2. CASE K!Crash
  BY <1>2 DEF K!Crash
<1>3. ASSUME NEW r \in Reviews, K!Request(r)
      PROVE  Cloned' /\ ServesWhole
  <2>1. \E p \in {"lookup", "failed"} : K!Goes({r}, p)
    BY <1>3 DEF K!Request
  <2> QED
    BY <1>3, <2>1, GoesTyped DEF K!Request
<1>4. ASSUME NEW r \in Reviews, K!Review(r) \/ K!Findings(r) \/ K!LookupHangs(r)
      PROVE  Cloned' /\ ServesWhole
  <2>1. \E p \in {"findings", "failed", "answered", "hung"} : K!Goes({r}, p)
    BY <1>4 DEF K!Review, K!Findings, K!LookupHangs
  <2>2. UNCHANGED <<head, tree, inflight>>
    BY <1>4 DEF K!Review, K!Findings, K!LookupHangs
  <2> QED
    BY <2>1, <2>2, GoesTyped
<1>5. ASSUME NEW h \in Heads, K!Age(h)
      PROVE  Cloned' /\ ServesWhole
  BY <1>5 DEF K!Age
<1>6. CASE UNCHANGED K!vars
  BY <1>6 DEF K!vars
<1>7. ASSUME NEW h \in Heads, K!TokenHangs(h)
      PROVE  Cloned' /\ ServesWhole
  BY <1>7 DEF K!TokenHangs
<1> QED
  BY <1>1, <1>2, <1>3, <1>4, <1>5, <1>6, <1>7, LookupServes, GitServes DEF K!Next, K!Work

(***************************************************************************)
(* No review is handed a tree that is still being cloned (ServedWhole).    *)
(***************************************************************************)
THEOREM AlwaysServedWhole == K!Spec => ServedWhole
<1>1. K!Init => Cloned
  BY DEF K!Init, Cloned, CheckoutsTyped, GrowingIsCloned
<1>2. Cloned /\ [K!Next]_K!vars => Cloned' /\ [ServesWhole]_K!vars
  BY StepServes
<1>3. K!Spec => [][ServesWhole]_K!vars
  BY <1>1, <1>2, PTL DEF K!Spec
<1> QED
  BY <1>3 DEF ServedWhole, K!ServedWhole, ServesWhole

-----------------------------------------------------------------------------
\* What the runs check.

(***************************************************************************)
(* Whatever crashes and whatever leaves the cache, whoever holds a handle  *)
(* of a dispatch is told how it is until its answer has aged out or the    *)
(* process stopped, a task parked since a restart aside, and nobody waits  *)
(* for one that is over.                                                   *)
(***************************************************************************)
THEOREM PollsAlwaysKnow == D!Spec => []PollKnows
BY PollAlwaysKnows, WaitersAlwaysHear, PTL DEF PollKnows

(***************************************************************************)
(* A one-shot is published at most once and a schedule removed or paused   *)
(* says nothing more, whatever restarts, edits and commands interleave.    *)
(***************************************************************************)
THEOREM FiresAlwaysOnce == S!Spec => []FiresOnce
BY FiresAtMostOnce, StoppedAlwaysSilent, PTL DEF FiresOnce

(***************************************************************************)
(* Every reload keeps the skills of a running agent registered, a ceremony *)
(* shown as running has a run under way, and a call answered with a task   *)
(* still at work names it.                                                 *)
(***************************************************************************)
THEOREM RunningAlwaysKnown == H!Spec /\ C!Spec /\ E!Spec => []RunningIsKnown
BY LiveAlwaysServed, RunningAlwaysTrue, TasksAlwaysHandedOver, PTL DEF RunningIsKnown

=============================================================================
