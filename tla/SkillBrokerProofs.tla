-------------------------- MODULE SkillBrokerProofs --------------------------
(***************************************************************************)
(* Safety of SkillBroker for every set of agents, skills and entries and   *)
(* any number of discoveries in flight.  RecordedIsRegistered is not       *)
(* inductive alone: a recorded skill that the entry declares is registered *)
(* because DeclaredServed holds, and that in turn needs every entry to be  *)
(* stored and live under its own name (Named).  A plain name is found in   *)
(* its own file only (Home), which AcknowledgedKept alone does not say of  *)
(* two files that hold the same entry.                                     *)
(***************************************************************************)
EXTENDS SkillBroker, TLAPS

Files(m) == \A a \in Agent : m[a] # None => NameOf[m[a]] = a

Home(fs) == \A n \in Agent : fs[n] # None /\ NameOf[fs[n]] \in Plain => NameOf[fs[n]] = n

Named == Home(files) /\ Files(rows) /\ Files(live)

EntryMap == [Agent -> Optional]

Accounted(fs, rs, m) ==
  (\A a \in Agent : rs[a] \in m[a]) /\ (\A a \in Plain : fs[a] \in m[a])

Inv == /\ TypeOK
       /\ Named
       /\ DeclaredServed
       /\ RecordedIsRegistered
       /\ AcknowledgedKept

(***************************************************************************)
(* A plain name's file is the one the API writes, and no other name's is.  *)
(***************************************************************************)
LEMMA PlainIsSafe ==
  ASSUME NEW a \in Agent
  PROVE  /\ Safe[a] \in Agent
         /\ a \in Plain => Safe[a] = a
         /\ Safe[a] \in Plain => Safe[a] = a
BY BrokerAssumption DEF BrokerAssumption, Plain

(***************************************************************************)
(* AcknowledgedKept in terms of Home and Accounted, for the states before  *)
(* and after a step.                                                       *)
(***************************************************************************)
LEMMA HomeIsFiled ==
  ASSUME NEW fs \in EntryMap, Home(fs), NEW a \in Plain
  PROVE  Filed(fs, a) \subseteq {fs[a]}
<1> SUFFICES ASSUME NEW n \in Agent, fs[n] # None, NameOf[fs[n]] = a
             PROVE  fs[n] = fs[a]
  BY DEF Filed
<1> QED
  BY DEF Home

LEMMA KeptIsAccounted ==
  /\ AcknowledgedKept => Accounted(files, rows, may)
  /\ files \in EntryMap /\ Home(files) /\ Accounted(files, rows, may) => AcknowledgedKept
  /\ (files \in EntryMap /\ Home(files) /\ Accounted(files, rows, may) => AcknowledgedKept)'
<1>1. AcknowledgedKept => Accounted(files, rows, may)
  BY DEF AcknowledgedKept, Accounted
<1>2. ASSUME files \in EntryMap, Home(files), Accounted(files, rows, may)
      PROVE  AcknowledgedKept
  BY <1>2, HomeIsFiled DEF AcknowledgedKept, Accounted
<1>3. ASSUME files' \in EntryMap, Home(files'), Accounted(files', rows', may')
      PROVE  AcknowledgedKept'
  <2>1. \A a \in Plain : Filed(files', a) \subseteq {files'[a]}
    BY <1>3, HomeIsFiled
  <2> QED
    BY <1>3, <2>1 DEF AcknowledgedKept, Accounted, Plain, Filed
<1> QED
  BY <1>1, <1>2, <1>3 DEF Home, Accounted, Plain

(***************************************************************************)
(* Writing an entry to its agent's file, or removing that file.            *)
(***************************************************************************)
LEMMA FileWritten ==
  ASSUME TypeOK, Home(files), NEW a \in Agent,
         NEW e \in Optional, e # None => NameOf[e] = a,
         NEW rs, NEW m,
         \A b \in Agent : rs[b] \in m[b], e \in m[a],
         \A b \in Agent \ {a} : may[b] \subseteq m[b],
         Accounted(files, rows, may)
  PROVE  LET fs == [files EXCEPT ![Safe[a]] = e]
         IN fs \in EntryMap /\ Home(fs) /\ Accounted(fs, rs, m)
<1> DEFINE fs == [files EXCEPT ![Safe[a]] = e]
<1>0. files \in EntryMap /\ Safe[a] \in Agent
  BY PlainIsSafe DEF TypeOK, EntryMap
<1>1. /\ fs \in EntryMap /\ fs[Safe[a]] = e
      /\ \A n \in Agent : n # Safe[a] => fs[n] = files[n]
  BY <1>0 DEF EntryMap
<1> HIDE DEF fs
<1>2. Home(fs)
  <2> SUFFICES ASSUME NEW n \in Agent, fs[n] # None, NameOf[fs[n]] \in Plain
               PROVE  NameOf[fs[n]] = n
    BY DEF Home
  <2> QED
    BY <1>1, PlainIsSafe DEF Home
<1>3. Accounted(fs, rs, m)
  <2> SUFFICES ASSUME NEW b \in Plain PROVE fs[b] \in m[b]
    BY DEF Accounted
  <2>0. b \in Agent
    BY DEF Plain
  <2>1. CASE b = Safe[a]
    BY <1>1, <2>1, PlainIsSafe
  <2>2. CASE b # Safe[a]
    <3>1. b # a /\ fs[b] = files[b]
      BY <1>1, <2>0, <2>2, PlainIsSafe
    <3> QED
      BY <2>0, <3>1 DEF Accounted
  <2> QED
    BY <2>1, <2>2
<1> QED
  BY <1>1, <1>2, <1>3 DEF fs

(***************************************************************************)
(* Registering skills of an entry gives registrations of its agent.        *)
(***************************************************************************)
LEMMA RegistrationsType ==
  ASSUME NEW e \in Entry, NEW skills \in SUBSET Skill
  PROVE  /\ Registrations(e, skills) \subseteq Registration
         /\ \A s \in skills :
              [skill |-> s, agent |-> NameOf[e], entry |-> e] \in Registrations(e, skills)
         /\ \A r \in Registrations(e, skills) :
              r.agent = NameOf[e] /\ r.entry = e /\ r.skill \in skills
BY BrokerAssumption DEF BrokerAssumption, Registrations, Registration

(***************************************************************************)
(* A skill is served as soon as one registration of the agent has it.      *)
(***************************************************************************)
LEMMA ServedByRegistration ==
  ASSUME NEW a, NEW s
  PROVE  (s \in Served(a)) <=> \E r \in regs : r.agent = a /\ r.skill = s
BY DEF Served

(***************************************************************************)
(* The starting of discoveries keeps the set of discoveries typed.         *)
(***************************************************************************)
LEMMA DiscoveriesType ==
  ASSUME TypeOK, NEW entries \in SUBSET Entry
  PROVE  Discoveries(entries) \subseteq Discovery
BY DEF TypeOK, Discoveries, Discovery

THEOREM InitEstablishesInv == Init => Inv
<1> SUFFICES ASSUME Init PROVE Inv
  OBVIOUS
<1>1. TypeOK
  BY DEF Init, TypeOK, Nobody, NoSkills, Optional
<1>2. Named
  BY DEF Init, Named, Home, Files, Nobody
<1>3. DeclaredServed
  BY DEF Init, DeclaredServed, Nobody
<1>4. RecordedIsRegistered
  BY DEF Init, RecordedIsRegistered, NoSkills
<1>5. AcknowledgedKept
  BY DEF Init, AcknowledgedKept, Nobody, Plain, Filed
<1> QED
  BY <1>1, <1>2, <1>3, <1>4, <1>5 DEF Inv

(***************************************************************************)
(* The commands.                                                           *)
(***************************************************************************)
LEMMA UpsertKeeps ==
  ASSUME Inv, NEW e \in Entry, Upsert(e)
  PROVE  Inv'
<1> DEFINE a == NameOf[e]
<1> DEFINE kept == IF live[a] # None THEN Without(a) ELSE regs
<1>0. TypeOK /\ Named /\ DeclaredServed /\ RecordedIsRegistered /\ AcknowledgedKept
  BY DEF Inv
<1>1. a \in Agent /\ SkillsOf[e] \in SUBSET Skill /\ e \in Optional
  BY BrokerAssumption DEF BrokerAssumption, Optional
<1>2. /\ files' = [files EXCEPT ![Safe[a]] = e]
      /\ rows' = [rows EXCEPT ![a] = e]
      /\ may' = [may EXCEPT ![a] = {e}]
      /\ live' = [live EXCEPT ![a] = e]
      /\ regs' = kept \union Registrations(e, SkillsOf[e])
      /\ tracked' = [tracked EXCEPT ![a] = {}]
      /\ fetches' = fetches \union Discoveries({e})
      /\ up' = up /\ quiet' = quiet /\ card' = card
  BY DEF Upsert, UpsertRecording, StartDiscoveries
<1>3. kept \subseteq regs /\ \A r \in regs : r.agent # a => r \in kept
  BY DEF Without
<1>4. /\ Registrations(e, SkillsOf[e]) \subseteq Registration
      /\ \A r \in Registrations(e, SkillsOf[e]) : r.agent = a
  BY <1>1, RegistrationsType
<1>40. files' \in EntryMap /\ Home(files') /\ Accounted(files', rows', may')
  <2>1. /\ \A b \in Agent : rows'[b] \in may'[b]
        /\ e \in may'[a]
        /\ \A b \in Agent \ {a} : may[b] \subseteq may'[b]
    BY <1>0, <1>1, <1>2 DEF TypeOK, AcknowledgedKept
  <2> QED
    BY <1>0, <1>1, <1>2, <2>1, KeptIsAccounted, FileWritten DEF Named
<1> HIDE DEF a, kept
<1>5. TypeOK'
  <2>1. fetches' \subseteq Discovery
    BY <1>0, <1>2, DiscoveriesType DEF TypeOK
  <2> QED
    BY <1>0, <1>1, <1>2, <1>3, <1>4, <1>40, <2>1 DEF TypeOK, EntryMap
<1>6. Named'
  BY <1>0, <1>1, <1>2, <1>40 DEF TypeOK, Named, Home, Files, a, Plain
<1>7. DeclaredServed'
  <2> SUFFICES ASSUME NEW b \in Agent, live'[b] # None
               PROVE  Registrations(live'[b], SkillsOf[live'[b]]) \subseteq regs'
    BY DEF DeclaredServed, Registrations
  <2>1. CASE b = a
    BY <2>1, <1>0, <1>1, <1>2 DEF TypeOK
  <2>2. CASE b # a
    <3>1. live'[b] = live[b] /\ live[b] \in Entry /\ NameOf[live[b]] = b
      BY <2>2, <1>0, <1>2 DEF TypeOK, Optional, Named, Files
    <3>2. Registrations(live[b], SkillsOf[live[b]]) \subseteq regs
      BY <1>0, <3>1 DEF DeclaredServed
    <3>3. \A r \in Registrations(live[b], SkillsOf[live[b]]) : r.agent = b
      BY <3>1, RegistrationsType, BrokerAssumption DEF BrokerAssumption
    <3> QED
      BY <1>2, <1>3, <2>2, <3>1, <3>2, <3>3
  <2> QED
    BY <2>1, <2>2
<1>8. RecordedIsRegistered'
  <2> SUFFICES ASSUME NEW b \in Agent, NEW s \in tracked'[b]
               PROVE  \E r \in regs' : r.agent = b /\ r.skill = s
    BY DEF RecordedIsRegistered, Served
  <2>1. b # a /\ s \in tracked[b]
    BY <1>0, <1>1, <1>2 DEF TypeOK
  <2>2. PICK r \in regs : r.agent = b /\ r.skill = s
    BY <1>0, <2>1 DEF RecordedIsRegistered, Served
  <2> QED
    BY <1>2, <1>3, <2>1, <2>2
<1>9. AcknowledgedKept'
  BY <1>40, KeptIsAccounted DEF Home, Accounted, Plain
<1> QED
  BY <1>5, <1>6, <1>7, <1>8, <1>9 DEF Inv

LEMMA RemoveKeeps ==
  ASSUME Inv, NEW a \in Agent, Remove(a)
  PROVE  Inv'
<1>0. TypeOK /\ Named /\ DeclaredServed /\ RecordedIsRegistered /\ AcknowledgedKept
  BY DEF Inv
<1>2. /\ files' = [files EXCEPT ![Safe[a]] = None]
      /\ rows' = [rows EXCEPT ![a] = None]
      /\ may' = [may EXCEPT ![a] = {None}]
      /\ live' = [live EXCEPT ![a] = None]
      /\ regs' = Without(a)
      /\ tracked' = [tracked EXCEPT ![a] = {}]
      /\ up' = up /\ quiet' = quiet /\ card' = card /\ fetches' = fetches
  BY DEF Remove, RemoveFrom
<1>3. regs' \subseteq regs /\ \A r \in regs : r.agent # a => r \in regs'
  BY <1>2 DEF Without
<1>4. files' \in EntryMap /\ Home(files') /\ Accounted(files', rows', may')
  <2>1. /\ None \in Optional
        /\ \A b \in Agent : rows'[b] \in may'[b]
        /\ None \in may'[a]
        /\ \A b \in Agent \ {a} : may[b] \subseteq may'[b]
    BY <1>0, <1>2 DEF TypeOK, AcknowledgedKept, Optional
  <2> QED
    BY <1>0, <1>2, <2>1, KeptIsAccounted, FileWritten DEF Named
<1>5. TypeOK'
  BY <1>0, <1>2, <1>3, <1>4 DEF TypeOK, Optional, EntryMap
<1>6. Named'
  BY <1>0, <1>2, <1>4 DEF TypeOK, Named, Home, Files, Plain
<1>7. DeclaredServed'
  <2> SUFFICES ASSUME NEW b \in Agent, live'[b] # None
               PROVE  Registrations(live'[b], SkillsOf[live'[b]]) \subseteq regs'
    BY DEF DeclaredServed, Registrations
  <2>1. b # a /\ live'[b] = live[b] /\ live[b] \in Entry /\ NameOf[live[b]] = b
    BY <1>0, <1>2 DEF TypeOK, Optional, Named, Files
  <2>2. Registrations(live[b], SkillsOf[live[b]]) \subseteq regs
    BY <1>0, <2>1 DEF DeclaredServed
  <2>3. \A r \in Registrations(live[b], SkillsOf[live[b]]) : r.agent = b
    BY <2>1, RegistrationsType, BrokerAssumption DEF BrokerAssumption
  <2> QED
    BY <1>3, <2>1, <2>2, <2>3
<1>8. RecordedIsRegistered'
  <2> SUFFICES ASSUME NEW b \in Agent, NEW s \in tracked'[b]
               PROVE  \E r \in regs' : r.agent = b /\ r.skill = s
    BY DEF RecordedIsRegistered, Served
  <2>1. b # a /\ s \in tracked[b]
    BY <1>0, <1>2 DEF TypeOK
  <2>2. PICK r \in regs : r.agent = b /\ r.skill = s
    BY <1>0, <2>1 DEF RecordedIsRegistered, Served
  <2> QED
    BY <1>3, <2>1, <2>2
<1>9. AcknowledgedKept'
  BY <1>4, KeptIsAccounted DEF Home, Accounted, Plain
<1> QED
  BY <1>5, <1>6, <1>7, <1>8, <1>9 DEF Inv

(***************************************************************************)
(* A discovery returns, possibly for an agent that was removed or replaced *)
(* since: what the entry declares is never dropped, and a skill that is    *)
(* not added is one already registered.                                    *)
(***************************************************************************)
LEMMA DiscoveryKeeps ==
  ASSUME Inv, NEW f \in fetches, NEW current \in SUBSET Skill,
         DiscoveryReturns(f, current)
  PROVE  Inv'
<1> DEFINE a == NameOf[f.entry]
<1> DEFINE added == ToAdd(tracked[a], Declared(a), current)
<1> DEFINE dropped == ToRemove(tracked[a], Declared(a), current)
<1>0. TypeOK /\ Named /\ DeclaredServed /\ RecordedIsRegistered /\ AcknowledgedKept
  BY DEF Inv
<1>1. f.entry \in Entry /\ a \in Agent
  BY <1>0, BrokerAssumption DEF TypeOK, Discovery, BrokerAssumption
<1>2. /\ fetches' = fetches \ {f}
      /\ regs' = {r \in regs \union Registrations(f.entry, added) :
                    ~(r.agent = a /\ r.skill \in dropped)}
      /\ tracked' = [tracked EXCEPT ![a] = current]
      /\ up' = up /\ quiet' = quiet /\ card' = card
      /\ files' = files /\ rows' = rows /\ may' = may /\ live' = live
  BY DEF DiscoveryReturns, durable
<1>3. /\ added = current \ (tracked[a] \union Declared(a))
      /\ dropped = tracked[a] \ (current \union Declared(a))
      /\ added \in SUBSET Skill
  BY DEF ToAdd, ToRemove
<1>4. /\ Registrations(f.entry, added) \subseteq Registration
      /\ \A s \in added :
           [skill |-> s, agent |-> a, entry |-> f.entry] \in Registrations(f.entry, added)
  BY <1>1, <1>3, RegistrationsType
<1> HIDE DEF a, added, dropped
<1>5. \A r \in regs : ~(r.agent = a /\ r.skill \in dropped) => r \in regs'
  BY <1>2
<1>6. \A r \in Registrations(f.entry, added) : r.skill \notin dropped => r \in regs'
  BY <1>2
<1>7. TypeOK'
  BY <1>0, <1>1, <1>2, <1>4 DEF TypeOK
<1>8. Named'
  BY <1>0, <1>2 DEF Named, Home, Files, Plain
<1>9. DeclaredServed'
  <2> SUFFICES ASSUME NEW b \in Agent, live'[b] # None
               PROVE  Registrations(live'[b], SkillsOf[live'[b]]) \subseteq regs'
    BY DEF DeclaredServed, Registrations
  <2>1. live'[b] = live[b] /\ live[b] \in Entry /\ NameOf[live[b]] = b
    BY <1>0, <1>2 DEF TypeOK, Optional, Named, Files
  <2>2. Registrations(live[b], SkillsOf[live[b]]) \subseteq regs
    BY <1>0, <2>1 DEF DeclaredServed
  <2>3. \A r \in Registrations(live[b], SkillsOf[live[b]]) :
          r.agent = b /\ r.skill \in SkillsOf[live[b]]
    BY <2>1, RegistrationsType, BrokerAssumption DEF BrokerAssumption
  <2>4. b = a => Declared(a) = SkillsOf[live[b]]
    BY <1>2, <2>1 DEF Declared
  <2>5. \A r \in Registrations(live[b], SkillsOf[live[b]]) :
          ~(r.agent = a /\ r.skill \in dropped)
    BY <1>3, <2>3, <2>4
  <2> QED
    BY <1>5, <2>1, <2>2, <2>5
<1>10. RecordedIsRegistered'
  <2> SUFFICES ASSUME NEW b \in Agent, NEW s \in tracked'[b]
               PROVE  \E r \in regs' : r.agent = b /\ r.skill = s
    BY DEF RecordedIsRegistered, Served
  <2>1. CASE b # a
    <3>1. s \in tracked[b]
      BY <1>0, <1>2, <2>1 DEF TypeOK
    <3>2. PICK r \in regs : r.agent = b /\ r.skill = s
      BY <1>0, <3>1 DEF RecordedIsRegistered, Served
    <3> QED
      BY <1>5, <2>1, <3>2
  <2>2. CASE b = a
    <3>1. s \in current /\ s \notin dropped
      BY <1>0, <1>1, <1>2, <1>3, <2>2 DEF TypeOK
    <3>2. CASE s \in added
      BY <1>4, <1>6, <2>2, <3>1, <3>2
    <3>3. CASE s \in tracked[a]
      <4>1. PICK r \in regs : r.agent = a /\ r.skill = s
        BY <1>0, <1>1, <3>3 DEF RecordedIsRegistered, Served
      <4> QED
        BY <1>5, <2>2, <3>1, <4>1
    <3>4. CASE s \in Declared(a)
      <4>1. live[a] # None /\ s \in SkillsOf[live[a]]
        BY <3>4 DEF Declared
      <4>2. live[a] \in Entry /\ NameOf[live[a]] = a
        BY <1>0, <1>1, <4>1 DEF TypeOK, Optional, Named, Files
      <4>3. [skill |-> s, agent |-> a, entry |-> live[a]]
              \in Registrations(live[a], SkillsOf[live[a]])
        BY <4>1, <4>2, RegistrationsType, BrokerAssumption DEF BrokerAssumption
      <4>4. [skill |-> s, agent |-> a, entry |-> live[a]] \in regs
        BY <1>0, <1>1, <4>1, <4>3 DEF DeclaredServed
      <4> QED
        BY <1>5, <2>2, <3>1, <4>4
    <3> QED
      BY <1>3, <3>1, <3>2, <3>3, <3>4
  <2> QED
    BY <2>1, <2>2
<1>11. AcknowledgedKept'
  BY <1>0, <1>2 DEF AcknowledgedKept, Filed, Plain
<1> QED
  BY <1>7, <1>8, <1>9, <1>10, <1>11 DEF Inv

(***************************************************************************)
(* Crashes leave nothing in memory, and files and rows the API or the      *)
(* interrupted command accounts for.                                       *)
(***************************************************************************)
LEMMA DownKeeps ==
  ASSUME Inv, Down, Home(files'), Files(rows'),
         files' \in EntryMap, rows' \in EntryMap, may' \in [Agent -> SUBSET Optional],
         Accounted(files', rows', may')
  PROVE  Inv'
<1>0. TypeOK
  BY DEF Inv
<1>1. /\ up' = FALSE /\ live' = Nobody /\ regs' = {} /\ tracked' = NoSkills
      /\ fetches' = {} /\ quiet' = quiet /\ card' = card
  BY DEF Down
<1>2. TypeOK'
  BY <1>0, <1>1 DEF TypeOK, EntryMap, Nobody, NoSkills, Optional
<1>3. Named'
  BY <1>1 DEF Named, Home, Files, Nobody, Plain
<1>4. DeclaredServed' /\ RecordedIsRegistered'
  BY <1>1 DEF DeclaredServed, RecordedIsRegistered, Nobody, NoSkills
<1>5. AcknowledgedKept'
  BY KeptIsAccounted DEF Home, Accounted, Plain
<1> QED
  BY <1>2, <1>3, <1>4, <1>5 DEF Inv

LEMMA CrashKeeps ==
  ASSUME Inv,
         Stop \/ (\E e \in Entry : CrashInWrite(e)) \/ (\E a \in Agent : CrashInDelete(a))
  PROVE  Inv'
<1>0. TypeOK /\ Named /\ AcknowledgedKept
  BY DEF Inv
<1>1. CASE Stop
  <2>1. Down /\ files' = files /\ rows' = rows /\ may' = may
    BY <1>1 DEF Stop, durable
  <2>2. Home(files') /\ Files(rows') /\ Accounted(files', rows', may')
    BY <1>0, <2>1, KeptIsAccounted DEF Named
  <2> QED
    BY <1>0, <2>1, <2>2, DownKeeps DEF TypeOK, EntryMap
<1>2. ASSUME NEW e \in Entry, CrashInWrite(e) PROVE Inv'
  <2>0. NameOf[e] \in Agent /\ e \in Optional
    BY BrokerAssumption DEF BrokerAssumption, Optional
  <2>1. /\ Down /\ rows' = rows
        /\ files' = [files EXCEPT ![Safe[NameOf[e]]] = e]
        /\ may' = [may EXCEPT ![NameOf[e]] = @ \union {e}]
    BY <1>2 DEF CrashInWrite
  <2>2. rows' \in EntryMap /\ may' \in [Agent -> SUBSET Optional] /\ Files(rows')
    BY <1>0, <2>0, <2>1 DEF TypeOK, EntryMap, Named, Files
  <2>3. /\ \A b \in Agent : rows'[b] \in may'[b] /\ may[b] \subseteq may'[b]
        /\ e \in may'[NameOf[e]]
    BY <1>0, <2>0, <2>1 DEF AcknowledgedKept, TypeOK
  <2>4. files' \in EntryMap /\ Home(files') /\ Accounted(files', rows', may')
    BY <1>0, <2>0, <2>1, <2>3, KeptIsAccounted, FileWritten DEF Named
  <2> QED
    BY <2>1, <2>2, <2>3, <2>4, DownKeeps
<1>3. ASSUME NEW a \in Agent, CrashInDelete(a) PROVE Inv'
  <2>1. /\ Down /\ rows' = rows
        /\ files' = [files EXCEPT ![Safe[a]] = None]
        /\ may' = [may EXCEPT ![a] = @ \union {None}]
    BY <1>3 DEF CrashInDelete
  <2>2. rows' \in EntryMap /\ may' \in [Agent -> SUBSET Optional] /\ Files(rows')
    BY <1>0, <2>1 DEF TypeOK, EntryMap, Optional, Named, Files
  <2>3. /\ \A b \in Agent : rows'[b] \in may'[b] /\ may[b] \subseteq may'[b]
        /\ None \in may'[a] /\ None \in Optional
    BY <1>0, <2>1 DEF AcknowledgedKept, TypeOK, Optional
  <2>4. files' \in EntryMap /\ Home(files') /\ Accounted(files', rows', may')
    BY <1>0, <2>1, <2>3, KeptIsAccounted, FileWritten DEF Named
  <2> QED
    BY <2>1, <2>2, <2>3, <2>4, DownKeeps
<1> QED
  BY <1>1, <1>2, <1>3

(***************************************************************************)
(* At boot the files are those that survived or those of the rows.         *)
(***************************************************************************)
LEMMA BootKeeps ==
  ASSUME Inv, NEW redeployed \in BOOLEAN, Boot(redeployed)
  PROVE  Inv'
<1> DEFINE found == IF redeployed THEN Nobody ELSE files
<1> DEFINE entries == {live'[a] : a \in Agent} \ {None}
<1>0. TypeOK /\ Named /\ AcknowledgedKept
  BY DEF Inv
<1>1. /\ up' = TRUE /\ quiet' = quiet /\ rows' = rows /\ may' = may /\ card' = card
      /\ files' = Rematerialized(found)
      /\ live' \in EntryMap
      /\ \A a \in Agent : live'[a] \in Managed(files', a)
      /\ regs' = UNION {Registrations(e, SkillsOf[e]) : e \in entries}
      /\ tracked' = NoSkills
      /\ fetches' = fetches \union Discoveries(entries)
  BY DEF Boot, StartDiscoveries, EntryMap
<1>2. /\ found \in EntryMap
      /\ files' = [n \in Agent |-> IF found[n] = None /\ n \notin Unfiled THEN rows[n] ELSE found[n]]
      /\ \A n \in Agent : found[n] \in {None, files[n]}
  BY <1>0, <1>1 DEF Rematerialized, Nobody, TypeOK, EntryMap, Optional
<1>20. Accounted(files, rows, may)
  BY <1>0, KeptIsAccounted
<1>21. Safe \in [Agent -> Agent \ Unfiled] /\ \A a \in Plain : a \in Agent /\ Safe[a] = a
  BY BrokerAssumption DEF BrokerAssumption, Plain
<1> HIDE DEF found
<1>3. files' \in EntryMap /\ Home(files') /\ Accounted(files', rows', may')
  <2>1. files' \in EntryMap
    BY <1>0, <1>2 DEF TypeOK, EntryMap
  <2>2. \A n \in Agent : files'[n] \in {None, rows[n], files[n]}
    BY <1>2
  <2>3. Home(files')
    BY <1>0, <2>2 DEF Named, Home, Files
  <2>4. \A a \in Plain : files'[a] \in may[a]
    <3> SUFFICES ASSUME NEW a \in Plain PROVE files'[a] \in may[a]
      OBVIOUS
    <3>1. a \in Agent /\ a \notin Unfiled
      BY <1>21
    <3>2. files'[a] \in {rows[a], files[a]}
      BY <1>2, <3>1
    <3> QED
      BY <1>20, <3>1, <3>2 DEF Accounted
  <2> QED
    BY <1>1, <1>20, <2>1, <2>3, <2>4 DEF Accounted
<1>5. live' \in EntryMap /\ Files(live')
  BY <1>1, BrokerAssumption DEF Managed, Filed, Files, BrokerAssumption
<1>6. entries \in SUBSET Entry /\ \A a \in Agent : live'[a] # None => live'[a] \in entries
  BY <1>5 DEF EntryMap, Optional
<1> HIDE DEF entries
<1>7. \A e \in entries : Registrations(e, SkillsOf[e]) \subseteq Registration
  BY <1>6, RegistrationsType, BrokerAssumption DEF BrokerAssumption
<1>8. Discoveries(entries) \subseteq Discovery
  BY <1>0, <1>6, DiscoveriesType
<1>9. TypeOK'
  <2>1. regs' \subseteq Registration
    BY <1>1, <1>7
  <2>2. tracked' \in [Agent -> SUBSET Skill]
    BY <1>1 DEF NoSkills
  <2> QED
    BY <1>0, <1>1, <1>3, <1>5, <1>8, <2>1, <2>2 DEF TypeOK, EntryMap
<1>10. Named'
  BY <1>0, <1>1, <1>3, <1>5 DEF Named, Home, Files, Plain
<1>11. DeclaredServed'
  <2> SUFFICES ASSUME NEW a \in Agent, live'[a] # None
               PROVE  Registrations(live'[a], SkillsOf[live'[a]]) \subseteq regs'
    BY DEF DeclaredServed, Registrations
  <2> QED
    BY <1>1, <1>6
<1>12. RecordedIsRegistered'
  BY <1>1 DEF RecordedIsRegistered, NoSkills
<1>13. AcknowledgedKept'
  BY <1>3, KeptIsAccounted DEF Home, Accounted, Plain
<1> QED
  BY <1>9, <1>10, <1>11, <1>12, <1>13 DEF Inv

(***************************************************************************)
(* The remaining steps leave the registry, the files and the rows alone.   *)
(***************************************************************************)
LEMMA QuietStepKeeps ==
  ASSUME Inv, UNCHANGED <<durable, live, regs, tracked>>,
         up' \in BOOLEAN, quiet' \in BOOLEAN,
         card' \in [Entry -> SUBSET Skill], fetches' \subseteq Discovery
  PROVE  Inv'
<1>1. TypeOK /\ Named /\ DeclaredServed /\ RecordedIsRegistered /\ AcknowledgedKept
  BY DEF Inv
<1>2. /\ files' = files /\ rows' = rows /\ may' = may
      /\ live' = live /\ regs' = regs /\ tracked' = tracked
  BY DEF durable
<1>3. TypeOK'
  BY <1>1, <1>2 DEF TypeOK
<1>4. Named' /\ DeclaredServed' /\ RecordedIsRegistered' /\ AcknowledgedKept'
  BY <1>1, <1>2 DEF Named, Home, Files, DeclaredServed, Registrations,
                    RecordedIsRegistered, Served, AcknowledgedKept, Plain, Filed
<1> QED
  BY <1>3, <1>4 DEF Inv

THEOREM NextKeepsInv == Inv /\ [Next]_vars => Inv'
<1> SUFFICES ASSUME Inv, [Next]_vars PROVE Inv'
  OBVIOUS
<1>0. TypeOK /\ Named
  BY DEF Inv
<1>1. ASSUME NEW e \in Entry, Upsert(e) PROVE Inv'
  BY <1>1, UpsertKeeps
<1>2. ASSUME NEW a \in Agent, Remove(a) PROVE Inv'
  BY <1>2, RemoveKeeps
<1>3. ASSUME Discovered PROVE Inv'
  <2>1. PICK f \in fetches : \E current \in {f.seen, card[f.entry]} :
                               DiscoveryReturns(f, current)
    BY <1>3 DEF Discovered
  <2>2. f.seen \in SUBSET Skill /\ card[f.entry] \in SUBSET Skill
    BY <1>0 DEF TypeOK, Discovery
  <2> QED
    BY <2>1, <2>2, DiscoveryKeeps
<1>4. ASSUME Stop \/ (\E e \in Entry : CrashInWrite(e)) \/ (\E a \in Agent : CrashInDelete(a))
      PROVE Inv'
  BY <1>4, CrashKeeps
<1>5. ASSUME NEW redeployed \in BOOLEAN, Boot(redeployed) PROVE Inv'
  BY <1>5, BootKeeps
<1>6. ASSUME Refresh PROVE Inv'
  <2>1. {live[a] : a \in Agent} \ {None} \in SUBSET Entry
    BY <1>0 DEF TypeOK, Optional
  <2>2. Discoveries({live[a] : a \in Agent} \ {None}) \subseteq Discovery
    BY <1>0, <2>1, DiscoveriesType
  <2>3. /\ UNCHANGED <<up, quiet, durable, live, regs, tracked, card>>
        /\ fetches' = fetches \union Discoveries({live[a] : a \in Agent} \ {None})
    BY <1>6 DEF Refresh, StartDiscoveries
  <2> QED
    BY <1>0, <2>2, <2>3, QuietStepKeeps DEF TypeOK
<1>7. ASSUME NEW f \in fetches, DiscoveryFails(f) PROVE Inv'
  BY <1>0, <1>7, QuietStepKeeps DEF DiscoveryFails, TypeOK
<1>8. ASSUME NEW e \in Entry, CardChanges(e) PROVE Inv'
  <2>1. PICK skills \in SUBSET Offer[e] : card' = [card EXCEPT ![e] = skills]
    BY <1>8 DEF CardChanges
  <2>2. card' \in [Entry -> SUBSET Skill]
    BY <1>0, <2>1, BrokerAssumption DEF TypeOK, BrokerAssumption
  <2>3. UNCHANGED <<up, quiet, durable, live, regs, tracked, fetches>>
    BY <1>8 DEF CardChanges, memory
  <2> QED
    BY <1>0, <2>2, <2>3, QuietStepKeeps DEF TypeOK
<1>9. ASSUME Settle PROVE Inv'
  BY <1>0, <1>9, QuietStepKeeps DEF Settle, memory, TypeOK
<1>10. ASSUME UNCHANGED vars PROVE Inv'
  BY <1>0, <1>10, QuietStepKeeps DEF vars, memory, TypeOK
<1> QED
  BY <1>1, <1>2, <1>3, <1>4, <1>5, <1>6, <1>7, <1>8, <1>9, <1>10 DEF Next

THEOREM InvAlways == Spec => []Inv
<1> QED
  BY InitEstablishesInv, NextKeepsInv, PTL DEF Spec

(***************************************************************************)
(* Every reachable state of the registry, files, rows and discoveries is   *)
(* well typed.                                                             *)
(***************************************************************************)
THEOREM TypeCorrect == Spec => []TypeOK
<1>1. Inv => TypeOK
  BY DEF Inv
<1> QED
  BY <1>1, InvAlways, PTL

(***************************************************************************)
(* No order of commands, late discoveries, crashes and boots takes a       *)
(* declared skill away from the live executor of its agent.                *)
(***************************************************************************)
THEOREM DeclaredAlwaysServed == Spec => []DeclaredServed
<1>1. Inv => DeclaredServed
  BY DEF Inv
<1> QED
  BY <1>1, InvAlways, PTL

(***************************************************************************)
(* A card skill the broker has recorded is always in the registry.         *)
(***************************************************************************)
THEOREM RecordedAlwaysRegistered == Spec => []RecordedIsRegistered
<1>1. Inv => RecordedIsRegistered
  BY DEF Inv
<1> QED
  BY <1>1, InvAlways, PTL

(***************************************************************************)
(* Rows, and the files of plain names, only ever hold what the API         *)
(* acknowledged or a crash cut off, and no other file names them.          *)
(***************************************************************************)
THEOREM AcknowledgedAlwaysKept == Spec => []AcknowledgedKept
<1>1. Inv => AcknowledgedKept
  BY DEF Inv
<1> QED
  BY <1>1, InvAlways, PTL
==============================================================================
