------------------------- MODULE IntegrationsProofs -------------------------
(***************************************************************************)
(* Safety of the tools that act on other systems, for any requests,        *)
(* agents, servers and mails. Each part is proved on its own, since the    *)
(* parts share no state, and the properties the runs check follow at the   *)
(* end.                                                                    *)
(***************************************************************************)
EXTENDS Integrations, TLAPS, FiniteSetTheorems, WellFoundedInduction, NaturalsInduction

-----------------------------------------------------------------------------
\* Issues. Whoever is about to file has not seen what it would repeat, and what was filed since
\* lies behind its listing.

Filed == [title : {TitleOf[c] : c \in Creates}, at : Nat, open : BOOLEAN, by : Creates]

IssuesTyped ==
  /\ now \in Nat /\ issues \in Seq(Filed)
  /\ pc \in [Creates -> {"unsent", "refused", "list", "create", "done"}]
  /\ issueListed \in [Creates -> Nat] /\ answer \in [Creates -> Nat]
  /\ \A c \in Creates : answer[c] <= Len(issues) /\ issueListed[c] <= Len(issues)

\* A listing of the first k issues has not shown issue m.
Unseen(k, m) == k < m \/ k >= m + IssuePage

\* Whoever is about to file has not seen an issue it would repeat; whoever filed is done, so
\* that what its listing showed does not change.
UnseenSoFar ==
  /\ \A c \in Creates : pc[c] \in {"unsent", "list"} => issueListed[c] = 0
  /\ \A c \in Creates, m \in DOMAIN issues :
       pc[c] = "create" /\ I!Matching(c, m) => Unseen(issueListed[c], m)
  /\ \A n \in DOMAIN issues : pc[issues[n].by] = "done"

IssuesInv == IssuesTyped /\ UnseenSoFar /\ I!RepeatsWereUnseen /\ I!AnswersFit

(***************************************************************************)
(* An issue that is filed comes last and leaves the earlier ones alone.    *)
(***************************************************************************)
LEMMA FiledIsLast ==
  ASSUME IssuesTyped, NEW e \in Filed, issues' = Append(issues, e)
  PROVE  /\ issues' \in Seq(Filed) /\ Len(issues') = Len(issues) + 1
         /\ DOMAIN issues = 1 .. Len(issues) /\ DOMAIN issues' = 1 .. Len(issues) + 1
         /\ issues'[Len(issues) + 1] = e
         /\ \A n \in DOMAIN issues : issues'[n] = issues[n]
BY DEF IssuesTyped

LEMMA FiledIs ==
  ASSUME IssuesTyped
  PROVE  \A n \in DOMAIN issues : issues[n] \in Filed /\ issues[n].by \in Creates /\ n \in Nat
                                  /\ issues[n].at \in Nat
<1>1. \A n \in DOMAIN issues : issues[n] \in Filed /\ n \in Nat
  BY DEF IssuesTyped
<1> QED
  BY <1>1 DEF Filed

(***************************************************************************)
(* Issues that are only closed, as time passes, make no repeat.            *)
(***************************************************************************)
LEMMA ClosingRepeatsNothing ==
  ASSUME IssuesInv, UNCHANGED <<pc, issueListed, answer>>, now' \in Nat, now' >= now,
         issues' \in Seq(Filed), Len(issues') = Len(issues),
         \A n \in DOMAIN issues :
           /\ issues'[n].title = issues[n].title /\ issues'[n].at = issues[n].at
           /\ issues'[n].by = issues[n].by /\ (issues'[n].open => issues[n].open)
  PROVE  IssuesInv'
<1>1. IssuesTyped /\ IssuesTyped' /\ DOMAIN issues' = DOMAIN issues
  BY DEF IssuesInv, IssuesTyped
<1>2. ASSUME NEW c \in Creates, NEW m \in DOMAIN issues, I!Matching(c, m)'
      PROVE  I!Matching(c, m)
  <2>1. issues[m].at \in Nat /\ now \in Nat
    BY <1>1, FiledIs DEF IssuesTyped
  <2> QED
    BY <1>2, <2>1, WindowsAreCounted DEF I!Matching
<1>3. UnseenSoFar'
  BY <1>1, <1>2 DEF IssuesInv, UnseenSoFar, Unseen
<1>4. I!RepeatsWereUnseen' /\ I!AnswersFit'
  <2>1. \A c \in Creates : answer[c] # 0 => answer[c] \in DOMAIN issues
    BY <1>1 DEF IssuesTyped
  <2> QED
    BY <1>1, <2>1 DEF IssuesInv, I!RepeatsWereUnseen, I!AnswersFit
<1> QED
  BY <1>1, <1>3, <1>4 DEF IssuesInv

LEMMA AskUnseen ==
  ASSUME IssuesInv, NEW c \in Creates, I!Ask(c)
  PROVE  IssuesInv'
<1>1. UNCHANGED <<now, issues, issueListed, answer>> /\ pc[c] = "unsent" /\ IssuesTyped
      /\ pc' = [pc EXCEPT ![c] = IF I!Allowed(c) THEN "list" ELSE "refused"]
  BY DEF I!Ask, IssuesInv
<1>2. IssuesTyped' /\ pc'[c] \in {"list", "refused"} /\ \A d \in Creates : d # c => pc'[d] = pc[d]
  BY <1>1 DEF IssuesTyped
<1>3. UnseenSoFar'
  BY <1>1, <1>2, FiledIs DEF IssuesInv, UnseenSoFar, I!Matching
<1> QED
  BY <1>1, <1>2, <1>3 DEF IssuesInv, I!RepeatsWereUnseen, I!AnswersFit

(***************************************************************************)
(* A listing without a match shows that no issue within its page repeats.  *)
(***************************************************************************)
LEMMA ListRecentUnseen ==
  ASSUME IssuesInv, NEW c \in Creates, I!ListRecent(c)
  PROVE  IssuesInv'
<1>1. UNCHANGED <<now, issues>> /\ pc[c] = "list" /\ IssuesTyped
  BY DEF I!ListRecent, IssuesInv
<1>2. \A n \in DOMAIN issues : issues[n].by \in Creates /\ n \in Nat
  BY <1>1, FiledIs
<1>3. CASE UNCHANGED issueListed /\ \E n \in I!Recent(c) : I!Answered(c, n)
  <2>1. PICK n \in I!Recent(c) :
            pc' = [pc EXCEPT ![c] = "done"] /\ answer' = [answer EXCEPT ![c] = n]
    BY <1>3 DEF I!Answered
  <2>2. n \in DOMAIN issues /\ n \in Nat /\ n <= Len(issues) /\ issues[n].title = TitleOf[c]
    BY <1>1, <1>2 DEF I!Recent, I!Matching, IssuesTyped
  <2>3. IssuesTyped' /\ pc'[c] = "done" /\ \A d \in Creates : d # c => pc'[d] = pc[d]
    BY <1>1, <1>3, <2>1, <2>2 DEF IssuesTyped
  <2>4. UnseenSoFar'
    BY <1>1, <1>2, <1>3, <2>3 DEF IssuesInv, UnseenSoFar, I!Matching
  <2>5. I!AnswersFit' /\ I!RepeatsWereUnseen'
    BY <1>1, <1>3, <2>1, <2>2 DEF IssuesInv, I!AnswersFit, I!RepeatsWereUnseen, IssuesTyped
  <2> QED
    BY <2>3, <2>4, <2>5 DEF IssuesInv
<1>4. CASE /\ pc' = [pc EXCEPT ![c] = "create"] /\ UNCHANGED answer
           /\ UNCHANGED issueListed \/ (I!Recent(c) = {}
                /\ issueListed' = [issueListed EXCEPT ![c] = Len(issues)])
  <2>1. IssuesTyped'
    <3>1. Len(issues) \in Nat
      BY <1>1 DEF IssuesTyped
    <3>2. issueListed' \in [Creates -> Nat] /\ \A d \in Creates : issueListed'[d] <= Len(issues)
      <4>1. CASE UNCHANGED issueListed
        BY <1>1, <4>1 DEF IssuesTyped
      <4>2. CASE issueListed' = [issueListed EXCEPT ![c] = Len(issues)]
        BY <1>1, <3>1, <4>2 DEF IssuesTyped
      <4> QED
        BY <1>4, <4>1, <4>2
    <3> QED
      BY <1>1, <1>4, <3>2 DEF IssuesTyped
  <2>2. pc'[c] = "create" /\ \A d \in Creates :
            d # c => pc'[d] = pc[d] /\ issueListed'[d] = issueListed[d]
    BY <1>1, <1>4 DEF IssuesTyped
  <2>3. ASSUME NEW m \in DOMAIN issues, I!Matching(c, m)
        PROVE  Unseen(issueListed'[c], m)
    <3>1. m \in Nat /\ m >= 1 /\ Len(issues) \in Nat
      BY <1>1, <1>2 DEF IssuesTyped
    <3>2. CASE UNCHANGED issueListed
      BY <1>1, <3>1, <3>2 DEF IssuesInv, UnseenSoFar, Unseen
    <3>3. CASE I!Recent(c) = {} /\ issueListed' = [issueListed EXCEPT ![c] = Len(issues)]
      <4>1. ~(m > Len(issues) - IssuePage) /\ issueListed'[c] = Len(issues)
        BY <1>1, <2>3, <3>3 DEF I!Recent, IssuesTyped
      <4> QED
        BY <3>1, <4>1, WindowsAreCounted DEF Unseen
    <3> QED
      BY <1>4, <3>2, <3>3
  <2>4. UnseenSoFar'
    <3>1. \A d \in Creates : pc'[d] \in {"unsent", "list"} => issueListed'[d] = 0
      BY <2>2 DEF IssuesInv, UnseenSoFar
    <3>2. \A d \in Creates, m \in DOMAIN issues :
            pc'[d] = "create" /\ I!Matching(d, m) => Unseen(issueListed'[d], m)
      BY <2>2, <2>3 DEF IssuesInv, UnseenSoFar
    <3>3. \A n \in DOMAIN issues : pc'[issues[n].by] = "done"
      BY <1>1, <1>2, <2>2 DEF IssuesInv, UnseenSoFar
    <3> QED
      BY <1>1, <3>1, <3>2, <3>3 DEF UnseenSoFar, I!Matching, Unseen
  <2>5. I!AnswersFit' /\ I!RepeatsWereUnseen'
    <3>1. \A n \in DOMAIN issues : issueListed'[issues[n].by] = issueListed[issues[n].by]
      BY <1>1, <1>2, <2>2 DEF IssuesInv, UnseenSoFar
    <3> QED
      BY <1>1, <1>4, <3>1 DEF IssuesInv, I!AnswersFit, I!RepeatsWereUnseen
  <2> QED
    BY <2>1, <2>4, <2>5 DEF IssuesInv
<1> QED
  BY <1>3, <1>4 DEF I!ListRecent

(***************************************************************************)
(* A new issue repeats none its request had seen.                          *)
(***************************************************************************)
LEMMA CreateIssueUnseen ==
  ASSUME IssuesInv, NEW c \in Creates, I!CreateIssue(c)
  PROVE  IssuesInv'
<1>1. /\ UNCHANGED <<now, issueListed>> /\ pc[c] = "create" /\ pc' = [pc EXCEPT ![c] = "done"]
      /\ IssuesTyped
  BY DEF I!CreateIssue, I!Answered, IssuesInv
<1> DEFINE e == [title |-> TitleOf[c], at |-> now, open |-> TRUE, by |-> c]
           newest == Len(issues) + 1
<1>2. e \in Filed /\ newest \in Nat /\ newest > 0 /\ DOMAIN issues = 1 .. Len(issues)
  BY <1>1 DEF Filed, IssuesTyped
<1>3. pc' \in [Creates -> {"unsent", "refused", "list", "create", "done"}] /\ pc'[c] = "done"
      /\ \A d \in Creates : d # c => pc'[d] = pc[d]
  BY <1>1 DEF IssuesTyped
<1>4. CASE UNCHANGED issues /\ answer' = [answer EXCEPT ![c] = 0]
  <2>1. IssuesTyped'
    BY <1>1, <1>3, <1>4 DEF IssuesTyped
  <2>2. UnseenSoFar'
    <3>1. \A n \in DOMAIN issues : issues[n].by \in Creates
      BY <1>1, FiledIs
    <3> QED
      BY <1>1, <1>3, <1>4, <3>1 DEF IssuesInv, UnseenSoFar, I!Matching
  <2>3. I!RepeatsWereUnseen' /\ I!AnswersFit'
    BY <1>1, <1>4 DEF IssuesInv, I!RepeatsWereUnseen, I!AnswersFit, IssuesTyped
  <2> QED
    BY <2>1, <2>2, <2>3 DEF IssuesInv
<1>5. CASE issues' = Append(issues, e) /\ \E n \in {0, newest} :
          answer' = [answer EXCEPT ![c] = n]
  <2>1. /\ issues' \in Seq(Filed) /\ Len(issues') = newest
        /\ DOMAIN issues' = 1 .. newest /\ issues'[newest] = e
        /\ \A n \in DOMAIN issues : issues'[n] = issues[n] /\ issues[n] \in Filed
    BY <1>1, <1>2, <1>5, FiledIsLast DEF IssuesTyped
  <2>2. PICK k \in {0, newest} : answer' = [answer EXCEPT ![c] = k]
    BY <1>5
  <2> HIDE DEF e
  <2>3. IssuesTyped'
    <3>1. answer' \in [Creates -> Nat] /\ \A d \in Creates : answer'[d] <= newest
      BY <1>1, <1>2, <2>2 DEF IssuesTyped
    <3> QED
      BY <1>1, <1>3, <2>1, <3>1 DEF IssuesTyped
  <2>4. e.title = TitleOf[c] /\ e.at = now /\ e.open = TRUE /\ e.by = c
    BY DEF e
  <2>5. UnseenSoFar'
    <3>1. \A d \in Creates : pc'[d] \in {"unsent", "list"} => issueListed'[d] = 0
      BY <1>1, <1>3 DEF IssuesInv, UnseenSoFar
    <3>2. ASSUME NEW d \in Creates, NEW m \in DOMAIN issues', pc'[d] = "create", I!Matching(d, m)'
          PROVE  Unseen(issueListed'[d], m)
      <4>1. d # c /\ pc[d] = "create"
        BY <1>3, <3>2
      <4>2. CASE m = newest
        BY <1>1, <4>2 DEF IssuesTyped, Unseen
      <4>3. CASE m # newest
        <5>1. m \in DOMAIN issues
          BY <1>1, <1>2, <2>1, <4>3 DEF IssuesTyped
        <5>2. I!Matching(d, m)
          BY <1>1, <2>1, <3>2, <5>1 DEF I!Matching
        <5> QED
          BY <1>1, <4>1, <5>1, <5>2 DEF IssuesInv, UnseenSoFar
      <4> QED
        BY <4>2, <4>3
    <3>3. ASSUME NEW n \in DOMAIN issues'
          PROVE  pc'[issues'[n].by] = "done"
      <4>1. CASE n \in DOMAIN issues
        BY <1>1, <1>3, <2>1, <4>1, FiledIs DEF IssuesInv, UnseenSoFar
      <4>2. CASE n = newest
        BY <1>3, <2>1, <2>4, <4>2
      <4> QED
        BY <1>1, <2>1, <4>1, <4>2 DEF IssuesTyped
    <3> QED
      BY <3>1, <3>2, <3>3 DEF UnseenSoFar, Unseen
  <2>6. I!RepeatsWereUnseen'
    <3> SUFFICES ASSUME NEW m \in DOMAIN issues', NEW n \in DOMAIN issues', m < n,
                        issues'[m].title = issues'[n].title,
                        issues'[m].open \/ issues'[n].at - issues'[m].at < IssueWindow
                 PROVE  Unseen(issueListed[issues'[n].by], m)
      BY <1>1 DEF I!RepeatsWereUnseen, Unseen
    <3>1. m \in DOMAIN issues /\ issues'[m] = issues[m]
      BY <1>1, <2>1 DEF IssuesTyped
    <3>2. CASE n \in DOMAIN issues
      BY <2>1, <3>1, <3>2 DEF IssuesInv, I!RepeatsWereUnseen, Unseen
    <3>3. CASE n = newest
      <4>1. I!Matching(c, m)
        BY <2>1, <2>4, <3>1, <3>3 DEF I!Matching
      <4> QED
        BY <1>1, <2>1, <2>4, <3>1, <3>3, <4>1 DEF IssuesInv, UnseenSoFar
    <3> QED
      BY <1>1, <2>1, <3>2, <3>3 DEF IssuesTyped
  <2>7. I!AnswersFit'
    BY <1>1, <1>2, <2>1, <2>2, <2>4 DEF IssuesInv, I!AnswersFit, IssuesTyped
  <2> QED
    BY <2>3, <2>5, <2>6, <2>7 DEF IssuesInv
<1> QED
  BY <1>4, <1>5 DEF I!CreateIssue, I!Answered

(***************************************************************************)
(* A title is filed twice within the window only by a request whose        *)
(* listing did not show the first issue (RepeatsWereUnseen), and a request *)
(* is answered with an issue of its title (AnswersFit), however many       *)
(* requests file and close issues meanwhile.                               *)
(***************************************************************************)
THEOREM RepeatsAlwaysUnseen == I!ToolsSpec => [](I!RepeatsWereUnseen /\ I!AnswersFit)
<1>1. I!ToolsInit => IssuesInv
  BY DEF I!ToolsInit, IssuesInv, IssuesTyped, UnseenSoFar, I!RepeatsWereUnseen, I!AnswersFit, Filed
<1>2. IssuesInv /\ [I!ToolsNext]_I!tools => IssuesInv'
  <2> SUFFICES ASSUME IssuesInv, [I!ToolsNext]_I!tools PROVE IssuesInv'
    OBVIOUS
  <2>1. IssuesTyped /\ now \in Nat /\ issues \in Seq(Filed)
    BY DEF IssuesInv, IssuesTyped
  <2>2. CASE I!Tick
    BY <2>1, <2>2, ClosingRepeatsNothing DEF I!Tick
  <2>3. ASSUME NEW n \in DOMAIN issues, I!CloseIssue(n)
        PROVE  IssuesInv'
    <3> DEFINE closed == [issues[n] EXCEPT !.open = FALSE]
    <3>1. issues' = [issues EXCEPT ![n] = closed] /\ UNCHANGED <<now, pc, issueListed, answer>>
      BY <2>3 DEF I!CloseIssue
    <3>2. /\ closed \in Filed /\ closed.title = issues[n].title /\ closed.at = issues[n].at
          /\ closed.by = issues[n].by /\ closed.open = FALSE
      <4>1. issues[n] \in Filed
        BY <2>1, FiledIs
      <4> QED
        BY <4>1 DEF Filed
    <3> HIDE DEF closed
    <3>3. /\ issues' \in Seq(Filed) /\ Len(issues') = Len(issues) /\ issues'[n] = closed
          /\ \A m \in DOMAIN issues : m # n => issues'[m] = issues[m]
      BY <2>1, <3>1, <3>2
    <3> QED
      BY <2>1, <3>1, <3>2, <3>3, ClosingRepeatsNothing
  <2>4. CASE UNCHANGED I!tools
    BY <2>1, <2>4, ClosingRepeatsNothing DEF I!tools
  <2> QED
    BY <2>2, <2>3, <2>4, AskUnseen, ListRecentUnseen, CreateIssueUnseen DEF I!ToolsNext
<1>3. IssuesInv => I!RepeatsWereUnseen /\ I!AnswersFit
  BY DEF IssuesInv
<1> QED
  BY <1>1, <1>2, <1>3, PTL DEF I!ToolsSpec

-----------------------------------------------------------------------------
\* Projects. A refresh keeps the first project of each slug, and there is a first.

AnswerTyped ==
  /\ DOMAIN fetched \subseteq DOMAIN Listed
  /\ \A i \in DOMAIN fetched :
       fetched[i] = [project |-> Listed[i], repo |-> fetched[i].repo]

(***************************************************************************)
(* Of the places with a property there is a first.                         *)
(***************************************************************************)
LEMMA FirstPlace ==
  ASSUME NEW T \in SUBSET Nat, T # {}
  PROVE  \E i \in T : \A j \in T : ~(j < i)
<1>1. IsWellFoundedOn(OpToRel(<, Nat), Nat)
  BY NatLessThanWellFounded, Zenon
<1>2. PICK i \in T : \A j \in T : ~(<<j, i>> \in OpToRel(<, Nat))
  BY <1>1, WFMin, Zenon
<1>3. \A m, n \in Nat : m < n => <<m, n>> \in OpToRel(<, Nat)
  BY Zenon DEF OpToRel
<1> QED
  BY <1>2, <1>3

(***************************************************************************)
(* dedupeBySlug keeps one project of every slug.                           *)
(***************************************************************************)
LEMMA FirstOfSlugIs ==
  ASSUME NEW es, DOMAIN es \subseteq Nat
  PROVE  /\ \A i, j \in DOMAIN I!FirstOfSlug(es) :
              SlugOfProject(I!FirstOfSlug(es)[i].project)
                  = SlugOfProject(I!FirstOfSlug(es)[j].project) => i = j
         /\ \A i \in DOMAIN I!FirstOfSlug(es) : i \in DOMAIN es /\ I!FirstOfSlug(es)[i] = es[i]
         /\ \A i \in DOMAIN es : \E j \in DOMAIN I!FirstOfSlug(es) :
              SlugOfProject(I!FirstOfSlug(es)[j].project) = SlugOfProject(es[i].project)
<1> DEFINE first == {i \in DOMAIN es : \A j \in DOMAIN es : j < i =>
                       SlugOfProject(es[j].project) # SlugOfProject(es[i].project)}
<1>1. I!FirstOfSlug(es) = [i \in first |-> es[i]]
  BY DEF I!FirstOfSlug, I!Restrict
<1>2. DOMAIN I!FirstOfSlug(es) = first /\ \A i \in first : I!FirstOfSlug(es)[i] = es[i]
  BY <1>1
<1>3. ASSUME NEW i \in first, NEW j \in first,
             SlugOfProject(es[i].project) = SlugOfProject(es[j].project)
      PROVE  i = j
  <2>1. ~(j < i) /\ ~(i < j) /\ i \in Nat /\ j \in Nat
    BY <1>3
  <2> QED
    BY <2>1
<1>4. ASSUME NEW i \in DOMAIN es
      PROVE  \E j \in first : SlugOfProject(es[j].project) = SlugOfProject(es[i].project)
  <2> DEFINE same == {j \in DOMAIN es :
          SlugOfProject(es[j].project) = SlugOfProject(es[i].project)}
  <2>1. PICK j \in same : \A k \in same : ~(k < j)
    <3>1. same \in SUBSET Nat /\ same # {}
      BY <1>4
    <3> HIDE DEF same
    <3> QED
      BY <3>1, FirstPlace
  <2> QED
    BY <2>1
<1> HIDE DEF first
<1>5. first \subseteq DOMAIN es
  BY DEF first
<1>6. \A i, j \in first :
          SlugOfProject(I!FirstOfSlug(es)[i].project)
              = SlugOfProject(I!FirstOfSlug(es)[j].project) => i = j
  BY <1>2, <1>3
<1>7. \A i \in DOMAIN es : \E j \in first :
          SlugOfProject(I!FirstOfSlug(es)[j].project) = SlugOfProject(es[i].project)
  BY <1>2, <1>4
<1> QED
  BY <1>2, <1>5, <1>6, <1>7

(***************************************************************************)
(* A slug is that of one project, each project of the last answer is known *)
(* under its slug or the first that shares it is, and none is known that   *)
(* the answer left out (OneProjectEach), whatever the sidecar serves.      *)
(***************************************************************************)
THEOREM AlwaysOneProjectEach == I!RegistrySpec => []I!OneProjectEach
<1>1. I!RegistryInit => AnswerTyped /\ I!OneProjectEach
  BY DEF I!RegistryInit, AnswerTyped, I!OneProjectEach
<1>2. AnswerTyped /\ I!OneProjectEach /\ [I!RegistryNext]_I!registry
      => (AnswerTyped /\ I!OneProjectEach)'
  <2> SUFFICES ASSUME AnswerTyped, I!OneProjectEach, [I!RegistryNext]_I!registry
               PROVE  (AnswerTyped /\ I!OneProjectEach)'
    OBVIOUS
  <2>1. CASE I!Change \/ UNCHANGED I!registry
    BY <2>1 DEF I!Change, I!registry, AnswerTyped, I!OneProjectEach
  <2>2. CASE I!Fetch
    BY <2>2 DEF I!Fetch, AnswerTyped, I!OneProjectEach
  <2>3. CASE I!Refresh
    <3> DEFINE es == [i \in DOMAIN fetched |-> I!Enriched(fetched[i])]
    <3>1. fetched' = <<>> /\ known' = I!FirstOfSlug(es)
              /\ last' = {e.project : e \in I!Range(fetched)}
      BY <2>3 DEF I!Refresh
    <3>2. DOMAIN es = DOMAIN fetched /\ DOMAIN es \subseteq Nat
      BY ProjectsAreListed DEF AnswerTyped
    <3>3. \A i \in DOMAIN es : es[i].project = fetched[i].project
      <4>1. \A p, r : I!Enriched([project |-> p, repo |-> r]).project = p
        BY DEF I!Enriched
      <4>2. \A i \in DOMAIN es :
                es[i] = I!Enriched([project |-> Listed[i], repo |-> fetched[i].repo])
        BY DEF AnswerTyped
      <4> QED
        BY <4>1, <4>2 DEF AnswerTyped
    <3>4. last' = {fetched[i].project : i \in DOMAIN fetched}
      BY <3>1 DEF I!Range
    <3> HIDE DEF es
    <3>5. /\ \A i, j \in DOMAIN I!FirstOfSlug(es) :
               SlugOfProject(I!FirstOfSlug(es)[i].project)
                   = SlugOfProject(I!FirstOfSlug(es)[j].project) => i = j
          /\ \A i \in DOMAIN I!FirstOfSlug(es) : i \in DOMAIN es /\ I!FirstOfSlug(es)[i] = es[i]
          /\ \A i \in DOMAIN es : \E j \in DOMAIN I!FirstOfSlug(es) :
               SlugOfProject(I!FirstOfSlug(es)[j].project) = SlugOfProject(es[i].project)
      BY <3>2, FirstOfSlugIs
    <3>6. \A i, j \in DOMAIN known' :
              SlugOfProject(known'[i].project) = SlugOfProject(known'[j].project) => i = j
      BY <3>1, <3>5
    <3>7. ASSUME NEW i \in DOMAIN known'
          PROVE  known'[i].project \in last'
      <4>1. i \in DOMAIN es /\ known'[i] = es[i]
        BY <3>1, <3>5
      <4> QED
        BY <3>2, <3>3, <3>4, <4>1
    <3>8. ASSUME NEW p \in last'
          PROVE  \E j \in DOMAIN known' : SlugOfProject(known'[j].project) = SlugOfProject(p)
      <4>1. PICK i \in DOMAIN es : p = es[i].project
        BY <3>2, <3>3, <3>4
      <4> QED
        BY <3>1, <3>5, <4>1
    <3>9. {SlugOfProject(p) : p \in last'} = {SlugOfProject(known'[i].project) :
              i \in DOMAIN known'}
      BY <3>7, <3>8
    <3>10. AnswerTyped'
      BY <3>1 DEF AnswerTyped
    <3> QED
      BY <3>6, <3>7, <3>9, <3>10 DEF I!OneProjectEach
  <2>4. CASE I!Fail
    BY <2>4 DEF I!Fail, AnswerTyped, I!OneProjectEach
  <2> QED
    BY <2>1, <2>2, <2>3, <2>4 DEF I!RegistryNext
<1> QED
  BY <1>1, <1>2, PTL DEF I!RegistrySpec

-----------------------------------------------------------------------------
\* Onboarding. One request runs for a slug, and one between listing and creating is counted as
\* a webhook of its repository.

OnboardingTyped ==
  onboardingPc \in [Requests -> {"unsent", "refused", "webhook", "hung", "create", "folder",
      "notify", "done", "thrown", "lost"}]

\* No two requests for one project run at once.
RunAlone ==
  \A q, r \in Requests : O!Running(q) /\ O!Running(r) /\ SlugOf[q] = SlugOf[r] => q = r

OnboardingInv == OnboardingTyped /\ RunAlone /\ O!TakenWhileRunning

LEMMA TakenKept ==
  ASSUME OnboardingInv, [O!Next]_O!vars
  PROVE  OnboardingInv'
<1> USE DEF OnboardingInv, OnboardingTyped, RunAlone, O!TakenWhileRunning, O!Running
<1>1. ASSUME NEW r \in Requests, O!Receive(r)
      PROVE  OnboardingInv'
  <2>1. CASE O!Parses(r) /\ ~O!Busy(r)
    BY <1>1, <2>1 DEF O!Receive, O!Busy, O!Goes
  <2>2. CASE ~(O!Parses(r) /\ ~O!Busy(r))
    BY <1>1, <2>2 DEF O!Receive, O!Goes
  <2> QED
    BY <2>1, <2>2
<1>2. ASSUME NEW r \in Requests, O!Throws(r) \/ O!Complete(r)
      PROVE  OnboardingInv'
  BY <1>2 DEF O!Throws, O!Complete, O!Goes
<1>3. ASSUME NEW r \in Requests, \/ O!List(r) \/ O!TokenHangs(r) \/ O!CreateHook(r)
                                \/ O!MakeFolder(r)
      PROVE  OnboardingInv'
  <2>1. /\ O!Running(r) /\ UNCHANGED inFlight
        /\ \E p \in {"hung", "create", "folder", "notify"} :
             onboardingPc' = [onboardingPc EXCEPT ![r] = p]
    BY <1>3 DEF O!List, O!TokenHangs, O!CreateHook, O!MakeFolder, O!Goes
  <2> QED
    BY <2>1
<1>4. CASE O!Crash
  BY <1>4 DEF O!Crash
<1>5. CASE UNCHANGED O!vars
  BY <1>5 DEF O!vars
<1> QED
  BY <1>1, <1>2, <1>3, <1>4, <1>5 DEF O!Next, O!Step

(***************************************************************************)
(* A project's slug is taken exactly while a request for it is at work,    *)
(* whatever throws or crashes (TakenWhileRunning): freeing a slug frees it *)
(* of no other request, as requests for one project never run together.    *)
(***************************************************************************)
THEOREM TakenAlwaysWhileRunning == O!Spec => []O!TakenWhileRunning
<1>1. O!Init => OnboardingInv
  BY DEF O!Init, OnboardingInv, OnboardingTyped, RunAlone, O!TakenWhileRunning, O!Running
<1>2. OnboardingInv /\ [O!Next]_O!vars => OnboardingInv'
  BY TakenKept
<1>3. OnboardingInv => O!TakenWhileRunning
  BY DEF OnboardingInv
<1> QED
  BY <1>1, <1>2, <1>3, PTL DEF O!Spec

SlugsOf(p) == {SlugOf[r] : r \in {x \in Requests : RepoOf[x] = p}}

\* The projects about to create a webhook on p.
Creating(p) == {SlugOf[r] : r \in {x \in Requests : RepoOf[x] = p /\ onboardingPc[x] = "create"}}

HooksCounted ==
  /\ hooks \in [O!Repos -> Nat] /\ blind \in [O!Repos -> Nat]
  /\ \A p \in O!Repos : hooks[p] + Cardinality(Creating(p)) <= Cardinality(SlugsOf(p)) + blind[p]

(***************************************************************************)
(* The projects of a repository are finitely many.                         *)
(***************************************************************************)
LEMMA SlugsAreFinite ==
  ASSUME NEW p
  PROVE  /\ IsFiniteSet(SlugsOf(p)) /\ Creating(p) \subseteq SlugsOf(p)
         /\ IsFiniteSet(Creating(p)) /\ Cardinality(Creating(p)) <= Cardinality(SlugsOf(p))
         /\ Cardinality(SlugsOf(p)) \in Nat /\ Cardinality(Creating(p)) \in Nat
<1> DEFINE mine == {x \in Requests : RepoOf[x] = p}
           f == [r \in mine |-> SlugOf[r]]
<1>1. IsFiniteSet(mine)
  BY RequestsAreFinite, FS_Subset
<1>2. f \in Surjection(mine, SlugsOf(p))
  BY DEF Surjection, SlugsOf
<1>3. IsFiniteSet(SlugsOf(p))
  BY <1>1, <1>2, FS_Surjection
<1>4. Creating(p) \subseteq SlugsOf(p)
  BY DEF Creating, SlugsOf
<1> QED
  BY <1>3, <1>4, FS_Subset, FS_CardinalityType

(***************************************************************************)
(* A listing that shows no webhook, or none at all, is what lets a project *)
(* create one.                                                             *)
(***************************************************************************)
LEMMA ListCounted ==
  ASSUME OnboardingTyped, HooksCounted, NEW r \in Requests, O!List(r)
  PROVE  HooksCounted'
<1> DEFINE p == RepoOf[r]
<1>1. p \in O!Repos /\ UNCHANGED hooks /\ onboardingPc[r] = "webhook"
  BY DEF O!List, O!Repos
<1>2. ASSUME NEW q, q # p \/ onboardingPc'[r] = "folder", \E w \in {"create", "folder"} :
             O!Goes(r, w)
      PROVE  Creating(q)' = Creating(q)
  BY <1>1, <1>2 DEF O!Goes, Creating, OnboardingTyped
<1>3. CASE O!Goes(r, "folder") /\ UNCHANGED blind
  <2>1. onboardingPc'[r] = "folder"
    BY <1>3 DEF O!Goes, OnboardingTyped
  <2> QED
    BY <1>1, <1>2, <1>3, <2>1 DEF HooksCounted, SlugsOf
<1>4. CASE O!Goes(r, "create") /\ O!NothingListed(r) /\ UNCHANGED blind
  <2>1. hooks[p] = 0
    BY <1>4 DEF O!NothingListed
  <2>2. Cardinality(Creating(p)') <= Cardinality(SlugsOf(p)) /\ Cardinality(Creating(p)') \in Nat
    <3>1. Creating(p)' \subseteq SlugsOf(p)
      BY DEF Creating, SlugsOf
    <3> QED
      BY <3>1, SlugsAreFinite, FS_Subset, FS_CardinalityType
  <2>3. Cardinality(SlugsOf(p)) \in Nat
    BY SlugsAreFinite
  <2>4. blind \in [O!Repos -> Nat] /\ blind[p] \in Nat
    BY <1>1 DEF HooksCounted
  <2>5. hooks'[p] + Cardinality(Creating(p)') <= Cardinality(SlugsOf(p)) + blind'[p]
    BY <1>1, <1>4, <2>1, <2>2, <2>3, <2>4
  <2>6. \A q \in O!Repos : hooks'[q] + Cardinality(Creating(q)') <= Cardinality(SlugsOf(q))
            + blind'[q]
    BY <1>1, <1>2, <1>4, <2>5 DEF HooksCounted
  <2> QED
    BY <1>1, <1>4, <2>6 DEF HooksCounted, SlugsOf
<1>5. CASE O!Goes(r, "create") /\ blind' = [blind EXCEPT ![p] = @ + 1]
  <2>1. Creating(p)' = Creating(p) \cup {SlugOf[r]}
    BY <1>1, <1>5 DEF O!Goes, Creating, OnboardingTyped
  <2>2. Cardinality(Creating(p)') <= Cardinality(Creating(p)) + 1
            /\ Cardinality(Creating(p)') \in Nat
    BY <2>1, SlugsAreFinite, FS_AddElement, FS_CardinalityType
  <2>3. Cardinality(SlugsOf(p)) \in Nat /\ Cardinality(Creating(p)) \in Nat
    BY SlugsAreFinite
  <2>4. /\ blind' \in [O!Repos -> Nat] /\ blind'[p] = blind[p] + 1
        /\ blind[p] \in Nat /\ hooks[p] \in Nat
        /\ \A q \in O!Repos : q # p => blind'[q] = blind[q]
    BY <1>1, <1>5 DEF HooksCounted
  <2>5. hooks'[p] + Cardinality(Creating(p)') <= Cardinality(SlugsOf(p)) + blind'[p]
    <3>1. hooks[p] + Cardinality(Creating(p)) <= Cardinality(SlugsOf(p)) + blind[p]
      BY <1>1 DEF HooksCounted
    <3> QED
      BY <1>1, <2>2, <2>3, <2>4, <3>1
  <2>6. \A q \in O!Repos : hooks'[q] + Cardinality(Creating(q)') <= Cardinality(SlugsOf(q))
            + blind'[q]
    BY <1>1, <1>2, <1>5, <2>4, <2>5 DEF HooksCounted
  <2> QED
    BY <1>1, <2>4, <2>6 DEF HooksCounted, SlugsOf
<1>6. O!NothingListed(r) \/ ~O!NothingListed(r)
  OBVIOUS
<1> QED
  BY <1>3, <1>4, <1>5, <1>6 DEF O!List

(***************************************************************************)
(* Creating a webhook uses up what the listing allowed.                    *)
(***************************************************************************)
LEMMA CreateHookCounted ==
  ASSUME OnboardingTyped, RunAlone, HooksCounted, NEW r \in Requests, O!CreateHook(r)
  PROVE  HooksCounted'
<1> DEFINE p == RepoOf[r]
<1>1. p \in O!Repos /\ UNCHANGED blind /\ onboardingPc[r] = "create"
          /\ onboardingPc' = [onboardingPc EXCEPT ![r] = "folder"]
  BY DEF O!CreateHook, O!Repos, O!Goes
<1>2. PICK made \in {0, 1} : hooks' = [hooks EXCEPT ![p] = @ + made]
  BY DEF O!CreateHook
<1>3. /\ hooks' \in [O!Repos -> Nat] /\ hooks'[p] = hooks[p] + made /\ hooks[p] \in Nat
      /\ blind[p] \in Nat /\ \A q \in O!Repos : q # p => hooks'[q] = hooks[q]
  BY <1>1, <1>2 DEF HooksCounted
<1>4. ASSUME NEW q, q # p
      PROVE  Creating(q)' = Creating(q)
  BY <1>1, <1>4 DEF Creating, OnboardingTyped
<1>5. Creating(p)' = Creating(p) \ {SlugOf[r]} /\ SlugOf[r] \in Creating(p)
  BY <1>1 DEF Creating, OnboardingTyped, RunAlone, O!Running
<1>6. Cardinality(Creating(p)') = Cardinality(Creating(p)) - 1
  BY <1>5, SlugsAreFinite, FS_RemoveElement
<1>7. Cardinality(SlugsOf(p)) \in Nat /\ Cardinality(Creating(p)) \in Nat
  BY SlugsAreFinite
<1>8. hooks'[p] + Cardinality(Creating(p)') <= Cardinality(SlugsOf(p)) + blind'[p]
  <2>1. hooks[p] + Cardinality(Creating(p)) <= Cardinality(SlugsOf(p)) + blind[p]
    BY <1>1 DEF HooksCounted
  <2> QED
    BY <1>1, <1>2, <1>3, <1>6, <1>7, <2>1
<1>9. \A q \in O!Repos : hooks'[q] + Cardinality(Creating(q)') <= Cardinality(SlugsOf(q))
          + blind'[q]
  BY <1>1, <1>3, <1>4, <1>8 DEF HooksCounted
<1> QED
  BY <1>1, <1>3, <1>9 DEF HooksCounted, SlugsOf

(***************************************************************************)
(* The number of elements is the same wherever the module names it.        *)
(***************************************************************************)
LEMMA SameCardinality ==
  \A xs : O!Cardinality(xs) = Cardinality(xs)
BY DEF O!Cardinality, Cardinality

(***************************************************************************)
(* A repository has no more of our webhooks than it has projects, and one  *)
(* more for each listing GitHub did not answer (HooksAreFew): a request    *)
(* creates one only when it saw none, and those that may have seen none    *)
(* together are for different projects.                                    *)
(***************************************************************************)
THEOREM HooksAreAlwaysFew == O!Spec => []O!HooksAreFew
<1>1. O!Init => OnboardingInv /\ HooksCounted
  <2> SUFFICES ASSUME O!Init PROVE OnboardingInv /\ HooksCounted
    OBVIOUS
  <2>1. \A p : Creating(p) = {}
    BY DEF O!Init, Creating
  <2>2. \A p : Cardinality(SlugsOf(p)) \in Nat
    BY SlugsAreFinite
  <2>3. \A p \in O!Repos : hooks[p] + Cardinality(Creating(p)) <= Cardinality(SlugsOf(p))
            + blind[p]
    <3> SUFFICES ASSUME NEW p \in O!Repos
                 PROVE  hooks[p] + Cardinality(Creating(p)) <= Cardinality(SlugsOf(p)) + blind[p]
      OBVIOUS
    <3>1. hooks[p] = 0 /\ blind[p] = 0
      BY DEF O!Init
    <3> QED
      BY <2>1, <2>2, <3>1, FS_EmptySet
  <2>4. hooks \in [O!Repos -> Nat] /\ blind \in [O!Repos -> Nat]
    BY DEF O!Init
  <2> QED
    BY <2>3, <2>4
      DEF O!Init, OnboardingInv, OnboardingTyped, RunAlone, O!TakenWhileRunning, O!Running,
          HooksCounted
<1>2. OnboardingInv /\ HooksCounted /\ [O!Next]_O!vars => (OnboardingInv /\ HooksCounted)'
  <2> SUFFICES ASSUME OnboardingInv, HooksCounted, [O!Next]_O!vars PROVE HooksCounted'
    BY TakenKept
  <2>1. OnboardingTyped /\ RunAlone
    BY DEF OnboardingInv
  <2>2. ASSUME UNCHANGED <<hooks, blind>>, \A p : Creating(p)' \subseteq Creating(p)
        PROVE  HooksCounted'
    <3> SUFFICES ASSUME NEW p \in O!Repos
                 PROVE  hooks[p] + Cardinality(Creating(p)') <= Cardinality(SlugsOf(p)) + blind[p]
      BY <2>2 DEF HooksCounted, SlugsOf
    <3>1. Cardinality(Creating(p)') <= Cardinality(Creating(p))
              /\ Cardinality(Creating(p)') \in Nat
      BY <2>2, SlugsAreFinite, FS_Subset, FS_CardinalityType
    <3>2. Cardinality(Creating(p)) \in Nat /\ Cardinality(SlugsOf(p)) \in Nat
      BY SlugsAreFinite
    <3> QED
      BY <3>1, <3>2 DEF HooksCounted
  <2>3. ASSUME NEW r \in Requests, \/ O!Receive(r) \/ O!Throws(r) \/ O!TokenHangs(r)
                                  \/ O!MakeFolder(r) \/ O!Complete(r)
        PROVE  HooksCounted'
    <3>1. /\ UNCHANGED <<hooks, blind>>
          /\ \E w \in {"webhook", "refused", "thrown", "hung", "notify", "done"} : O!Goes(r, w)
      BY <2>3 DEF O!Receive, O!Throws, O!TokenHangs, O!MakeFolder, O!Complete
    <3>2. \A p : Creating(p)' \subseteq Creating(p)
      BY <2>1, <3>1 DEF O!Goes, Creating, OnboardingTyped
    <3> QED
      BY <2>2, <3>1, <3>2
  <2>4. CASE O!Crash
    <3>1. UNCHANGED <<hooks, blind>> /\ \A p : Creating(p)' \subseteq Creating(p)
      BY <2>4 DEF O!Crash, Creating
    <3> QED
      BY <2>2, <3>1
  <2>5. CASE UNCHANGED O!vars
    <3>1. UNCHANGED <<hooks, blind>> /\ \A p : Creating(p)' \subseteq Creating(p)
      BY <2>5 DEF O!vars, Creating
    <3> QED
      BY <2>2, <3>1
  <2> QED
    BY <2>1, <2>3, <2>4, <2>5, ListCounted, CreateHookCounted DEF O!Next, O!Step
<1>3. OnboardingInv /\ HooksCounted => O!HooksAreFew
  <2> SUFFICES ASSUME HooksCounted, NEW p \in O!Repos
               PROVE  hooks[p] <= Cardinality(SlugsOf(p)) + blind[p]
    BY SameCardinality DEF O!HooksAreFew, SlugsOf
  <2> QED
    BY SlugsAreFinite DEF HooksCounted
<1> QED
  BY <1>1, <1>2, <1>3, PTL DEF O!Spec

-----------------------------------------------------------------------------
\* MCP servers. Only the next edit, a removal or a start takes tools away.

McpTyped ==
  /\ saved \in 0 .. MaxSaves /\ edits \in 0 .. MaxSaves /\ tools \subseteq M!Edits
  /\ at \in [M!Edits -> {"none", "closing", "off", "connect", "list", "done", "failed"}]

(***************************************************************************)
(* The tools of the saved edit, once listed, stay registered: only the     *)
(* next edit, a removal or a start takes tools away, and each of them      *)
(* begins the registration of what is saved afresh.                        *)
(***************************************************************************)
LEMMA CurrentKept ==
  ASSUME McpTyped, M!CurrentServed, [M!Next]_M!vars
  PROVE  McpTyped' /\ M!CurrentServed'
<1>0. saved # 0 => saved \in M!Edits
  BY EditsAreCounted DEF McpTyped, M!Edits
<1>1. CASE M!Upsert
  <2>1. edits' \in M!Edits /\ saved' = edits' /\ edits' \in 0 .. MaxSaves
    BY <1>1, EditsAreCounted DEF M!Upsert, M!Edits, McpTyped
  <2> QED
    BY <1>1, <2>1 DEF M!Upsert, M!Unregister, McpTyped, M!CurrentServed
<1>2. CASE M!Remove
  BY <1>2, EditsAreCounted DEF M!Remove, M!Unregister, McpTyped, M!CurrentServed
<1>3. CASE M!Restart
  BY <1>3, EditsAreCounted DEF M!Restart, M!Edits, McpTyped, M!CurrentServed
<1>4. ASSUME NEW n \in M!Edits, M!Begin(n)
      PROVE  McpTyped' /\ M!CurrentServed'
  BY <1>4, EditsAreCounted DEF M!Begin, M!Edits, McpTyped, M!CurrentServed
<1>5. ASSUME NEW n \in M!Edits, M!Connect(n)
      PROVE  McpTyped' /\ M!CurrentServed'
  <2>1. \E p \in {"list", "failed"} : at' = [at EXCEPT ![n] = p]
    BY <1>5 DEF M!Connect
  <2> QED
    BY <1>5, <1>0, <2>1 DEF M!Connect, M!Fail, McpTyped, M!CurrentServed
<1>6. ASSUME NEW n \in M!Edits, M!ListTools(n)
      PROVE  McpTyped' /\ M!CurrentServed'
  <2>1. CASE at' = [at EXCEPT ![n] = "done"] /\ tools' = tools \union {n}
    BY <1>6, <1>0, <2>1 DEF M!ListTools, McpTyped, M!CurrentServed
  <2>2. CASE at' = [at EXCEPT ![n] = "failed"] /\ M!Fail(n)
    BY <1>6, <1>0, <2>2 DEF M!ListTools, M!Fail, McpTyped, M!CurrentServed
  <2> QED
    BY <1>6, <2>1, <2>2 DEF M!ListTools
<1>7. CASE UNCHANGED M!vars
  BY <1>7 DEF M!vars, McpTyped, M!CurrentServed
<1> QED
  BY <1>1, <1>2, <1>3, <1>4, <1>5, <1>6, <1>7 DEF M!Next, M!Register

(***************************************************************************)
(* An MCP server serves the tools of the edit that was saved last, however *)
(* slowly the connections of earlier edits come to an end (CurrentServed). *)
(***************************************************************************)
THEOREM CurrentAlwaysServed == M!Spec => []M!CurrentServed
<1>1. M!Init => McpTyped /\ M!CurrentServed
  BY EditsAreCounted DEF M!Init, McpTyped, M!CurrentServed
<1>2. McpTyped /\ M!CurrentServed /\ [M!Next]_M!vars => McpTyped' /\ M!CurrentServed'
  BY CurrentKept
<1> QED
  BY <1>1, <1>2, PTL DEF M!Spec

-----------------------------------------------------------------------------
\* Discord clients. Every step treats the pool and its clients alike, so that they keep
\* pointing at each other.

Client ==
  [agent : Agents, hears : BOOLEAN, state : {"login", "in", "failed", "destroyed", "aborted"}]

PoolTyped ==
  /\ poolListed \subseteq Agents /\ filed \subseteq Agents
  /\ poolClient \in Seq(Client) /\ pool \in [Agents -> 0 .. Len(poolClient)]

\* The two halves of PoolIsAlive, of any clients, pool and displaced clients.
EntriesAlive(cs, p) ==
  \A a \in Agents : p[a] # 0 => cs[p[a]].agent = a /\ cs[p[a]].state \in {"login", "in"}
LiveInPool(cs, p, away) ==
  \A c \in DOMAIN cs : cs[c].state \in {"login", "in"} => p[cs[c].agent] = c \/ c \in away

PoolInv == PoolTyped /\ EntriesAlive(poolClient, pool) /\ LiveInPool(poolClient, pool, displaced)

LEMMA SameCount == \A xs : B!Cardinality(xs) = Cardinality(xs)
BY DEF B!Cardinality, Cardinality

\* An order of as: each of its agents once.
Order(as) ==
  CHOOSE s \in [1 .. B!Cardinality(as) -> as] : \A a \in as : \E i \in DOMAIN s : s[i] = a

(***************************************************************************)
(* The order in which clients are created has each agent once.             *)
(***************************************************************************)
LEMMA OrderIs ==
  ASSUME NEW as \in SUBSET Agents
  PROVE  /\ Cardinality(as) \in Nat /\ Order(as) \in [1 .. Cardinality(as) -> as]
         /\ \A a \in as : \E i \in 1 .. Cardinality(as) : Order(as)[i] = a
         /\ \A i, j \in 1 .. Cardinality(as) : Order(as)[i] = Order(as)[j] => i = j
<1>0. PICK n \in Nat : n = Cardinality(as)
  BY AgentsAreKnown, FS_Subset, FS_CardinalityType
<1>1. IsFiniteSet(as) /\ n \in Nat /\ ExistsBijection(1 .. n, as)
  BY <1>0, AgentsAreKnown, FS_Subset, FS_CardinalityType
<1>2. \E s \in [1 .. n -> as] : \A a \in as : \E i \in DOMAIN s : s[i] = a
  <2>1. PICK s \in Bijection(1 .. n, as) : TRUE
    BY <1>1 DEF ExistsBijection
  <2> QED
    BY <2>1 DEF Bijection, Surjection
<1>3. Order(as) \in [1 .. n -> as] /\ \A a \in as : \E i \in DOMAIN Order(as) : Order(as)[i] = a
  BY <1>0, <1>2, SameCount DEF Order
<1>4. Order(as) \in Surjection(1 .. n, as)
  BY <1>3 DEF Surjection
<1>5. IsFiniteSet(1 .. n) /\ Cardinality(1 .. n) = n
  BY <1>1, FS_Interval
<1>6. Order(as) \in Injection(1 .. n, as)
  BY <1>0, <1>4, <1>5, FS_SurjSameCardinalityImpliesInj
<1>7. \A i, j \in 1 .. n : Order(as)[i] = Order(as)[j] => i = j
  BY <1>6 DEF Injection, IsInjective
<1> QED
  BY <1>0, <1>1, <1>3, <1>7

\* Clients made of cs and the pool p for the agents as: they come after those there are, one for
\* each agent, and are in the pool.
MadeFor(as, cs, p, made) ==
  /\ made.clients \in Seq(Client) /\ Len(made.clients) >= Len(cs)
  /\ made.pool \in [Agents -> 0 .. Len(made.clients)]
  /\ \A c \in DOMAIN cs : made.clients[c] = cs[c]
  /\ \A c \in DOMAIN made.clients :
       c \notin DOMAIN cs => made.clients[c].agent \in as /\ made.pool[made.clients[c].agent] = c
  /\ \A a \in Agents \ as : made.pool[a] = p[a]
  /\ \A a \in as : /\ made.pool[a] \in DOMAIN made.clients
                   /\ made.clients[made.pool[a]].agent = a
                   /\ made.clients[made.pool[a]].state = "login"

LEMMA CreatedIs ==
  ASSUME NEW as \in SUBSET Agents, NEW hears \in BOOLEAN, NEW cs \in Seq(Client),
         NEW p \in [Agents -> 0 .. Len(cs)]
  PROVE  MadeFor(as, cs, p, B!Created(as, hears, cs, p))
<1>0. PICK n \in Nat : n = Cardinality(as)
  BY OrderIs
<1> DEFINE order == Order(as)
           new == [i \in DOMAIN order |->
                     [agent |-> order[i], hears |-> hears, state |-> "login"]]
           place == [a \in Agents |->
                       IF a \in as THEN Len(cs) + CHOOSE i \in DOMAIN order : order[i] = a
                                   ELSE p[a]]
           all == cs \o new
<1>1. /\ n \in Nat /\ order \in [1 .. n -> as] /\ DOMAIN order = 1 .. n
      /\ \A a \in as : \E i \in 1 .. n : order[i] = a
      /\ \A i, j \in 1 .. n : order[i] = order[j] => i = j
  BY <1>0, OrderIs
<1>2. B!Created(as, hears, cs, p) = [clients |-> all, pool |-> place]
  BY Zenon DEF B!Created, Order
<1> HIDE DEF order
<1>3. new \in Seq(Client) /\ Len(new) = n /\ \A i \in 1 .. n : new[i].agent = order[i]
  <2>1. \A i \in 1 .. n : new[i] \in Client /\ new[i].agent = order[i]
    BY <1>1 DEF Client
  <2> QED
    BY <1>1, <2>1
<1>4. \A i \in 1 .. n : new[i].state = "login"
  BY <1>1
<1> HIDE DEF new
<1>5. /\ all \in Seq(Client) /\ Len(all) = Len(cs) + n /\ Len(cs) \in Nat
      /\ \A c \in 1 .. Len(cs) : all[c] = cs[c]
      /\ \A i \in 1 .. n : all[Len(cs) + i] = new[i]
  <2>1. \A xs, ys \in Seq(Client) :
          /\ xs \o ys \in Seq(Client) /\ Len(xs \o ys) = Len(xs) + Len(ys) /\ Len(xs) \in Nat
          /\ \A c \in 1 .. Len(xs) : (xs \o ys)[c] = xs[c]
          /\ \A i \in 1 .. Len(ys) : (xs \o ys)[Len(xs) + i] = ys[i]
    OBVIOUS
  <2> QED
    BY <1>3, <2>1
<1>6. \A a \in as : \E i \in 1 .. n : place[a] = Len(cs) + i /\ order[i] = a
  <2> SUFFICES ASSUME NEW a \in as PROVE \E i \in 1 .. n : place[a] = Len(cs) + i /\ order[i] = a
    OBVIOUS
  <2> DEFINE k == CHOOSE i \in DOMAIN order : order[i] = a
  <2>1. k \in 1 .. n /\ order[k] = a
    BY <1>1
  <2>2. place[a] = Len(cs) + k
    OBVIOUS
  <2> QED
    BY <2>1, <2>2
<1>7. place \in [Agents -> 0 .. Len(cs) + n] /\ \A a \in Agents \ as : place[a] = p[a]
  <2>1. \A a \in Agents \ as : place[a] = p[a] /\ place[a] \in 0 .. Len(cs) + n
    BY <1>1, <1>5
  <2>2. ASSUME NEW a \in as
        PROVE  place[a] \in 0 .. Len(cs) + n
    <3>1. PICK i \in 1 .. n : place[a] = Len(cs) + i
      BY <1>6
    <3>2. Len(cs) + i \in 0 .. Len(cs) + n
      BY <1>5
    <3> QED
      BY <3>1, <3>2
  <2>3. place = [a \in Agents |-> place[a]]
    OBVIOUS
  <2> HIDE DEF place
  <2> QED
    BY <2>1, <2>2, <2>3
<1> HIDE DEF place, all
<1>8. ASSUME NEW c \in DOMAIN all, c \notin DOMAIN cs
      PROVE  all[c].agent \in as /\ place[all[c].agent] = c
  <2>1. PICK i \in 1 .. n : c = Len(cs) + i
    <3>1. c \in 1 .. Len(cs) + n /\ ~(c \in 1 .. Len(cs))
      BY <1>5, <1>8
    <3>2. c - Len(cs) \in 1 .. n
      BY <1>1, <1>5, <3>1
    <3>3. c = Len(cs) + (c - Len(cs))
      BY <1>5, <3>1
    <3> QED
      BY <3>2, <3>3
  <2>2. all[c].agent = order[i] /\ order[i] \in as
    BY <1>1, <1>3, <1>5, <2>1
  <2>3. PICK j \in 1 .. n : place[order[i]] = Len(cs) + j /\ order[j] = order[i]
    BY <1>6, <2>2
  <2>4. j = i
    BY <1>1, <2>3
  <2> QED
    BY <2>1, <2>2, <2>3, <2>4
<1>9. ASSUME NEW a \in as
      PROVE  place[a] \in DOMAIN all /\ all[place[a]].agent = a /\ all[place[a]].state = "login"
  <2>1. PICK i \in 1 .. n : place[a] = Len(cs) + i /\ order[i] = a
    BY <1>6
  <2>2. all[place[a]] = new[i] /\ place[a] \in 1 .. Len(all)
    BY <1>1, <1>5, <2>1
  <2> QED
    BY <1>3, <1>4, <1>5, <2>1, <2>2
<1>10. Len(all) >= Len(cs) /\ DOMAIN cs = 1 .. Len(cs)
  BY <1>1, <1>5
<1>11. /\ B!Created(as, hears, cs, p).clients = all /\ B!Created(as, hears, cs, p).pool = place
       /\ Len(all) = Len(cs) + n
  BY <1>2, <1>5
<1> QED
  BY <1>5, <1>7, <1>8, <1>9, <1>10, <1>11 DEF MadeFor

LEMMA ClientsAre ==
  ASSUME PoolTyped, NEW c \in DOMAIN poolClient
  PROVE  poolClient[c] \in Client /\ poolClient[c].agent \in Agents /\ c \in Nat /\ c # 0
<1>1. poolClient[c] \in Client /\ c \in Nat /\ c # 0
  BY DEF PoolTyped
<1> QED
  BY <1>1 DEF Client

(***************************************************************************)
(* A login that fails, of whichever client, takes its agent's entry away   *)
(* and displaces the client it was.                                        *)
(***************************************************************************)
LEMMA LoginFailedAlive ==
  ASSUME PoolInv, NEW c \in DOMAIN poolClient, B!LoginFailed(c)
  PROVE  PoolInv'
<1> DEFINE mine == poolClient[c].agent
           over == [poolClient[c] EXCEPT !.state = "failed"]
<1>1. /\ poolClient' = [poolClient EXCEPT ![c] = over] /\ pool' = [pool EXCEPT ![mine] = 0]
      /\ displaced' = displaced \cup ({pool[mine]} \ {0, c})
      /\ UNCHANGED <<poolListed, filed>> /\ PoolTyped
  BY DEF B!LoginFailed, B!config, PoolInv
<1>2. poolClient[c] \in Client /\ mine \in Agents /\ c \in Nat /\ c # 0
  BY <1>1, ClientsAre
<1>3. over \in Client /\ over.agent = mine /\ over.state = "failed"
  BY <1>2 DEF Client
<1> HIDE DEF over
<1>4. /\ poolClient' \in Seq(Client) /\ Len(poolClient') = Len(poolClient)
           /\ DOMAIN poolClient' = DOMAIN poolClient
      /\ poolClient'[c] = over /\ \A d \in DOMAIN poolClient :
           d # c => poolClient'[d] = poolClient[d]
  BY <1>1, <1>3 DEF PoolTyped
<1>5. /\ pool' \in [Agents -> 0 .. Len(poolClient)] /\ pool'[mine] = 0
      /\ \A a \in Agents : a # mine => pool'[a] = pool[a]
  BY <1>1, <1>2 DEF PoolTyped
<1>6. PoolTyped'
  BY <1>1, <1>4, <1>5 DEF PoolTyped
<1>7. EntriesAlive(poolClient', pool')
  <2> SUFFICES ASSUME NEW a \in Agents, pool'[a] # 0
               PROVE  poolClient'[pool'[a]].agent = a
                        /\ poolClient'[pool'[a]].state \in {"login", "in"}
    BY DEF EntriesAlive
  <2>1. a # mine /\ pool'[a] = pool[a] /\ pool[a] \in DOMAIN poolClient
    BY <1>1, <1>5 DEF PoolTyped
  <2>2. poolClient[pool[a]].agent = a /\ poolClient[pool[a]].state \in {"login", "in"}
    BY <2>1 DEF PoolInv, EntriesAlive
  <2> QED
    BY <1>4, <2>1, <2>2
<1>8. LiveInPool(poolClient', pool', displaced')
  <2> SUFFICES ASSUME NEW d \in DOMAIN poolClient, poolClient'[d].state \in {"login", "in"}
               PROVE  pool'[poolClient'[d].agent] = d \/ d \in displaced'
    BY <1>4 DEF LiveInPool
  <2>1. d # c /\ poolClient'[d] = poolClient[d] /\ poolClient[d].agent \in Agents /\ d # 0
    BY <1>1, <1>3, <1>4, ClientsAre
  <2>2. pool[poolClient[d].agent] = d \/ d \in displaced
    BY <2>1 DEF PoolInv, LiveInPool
  <2> QED
    BY <1>1, <1>5, <2>1, <2>2
<1> QED
  BY <1>6, <1>7, <1>8 DEF PoolInv

LEMMA LoggedInAlive ==
  ASSUME PoolInv, NEW c \in DOMAIN poolClient, B!LoggedIn(c)
  PROVE  PoolInv'
<1> DEFINE up == [poolClient[c] EXCEPT !.state = "in"]
<1>1. /\ poolClient' = [poolClient EXCEPT ![c] = up] /\ poolClient[c].state = "login"
      /\ UNCHANGED <<poolListed, filed, pool, displaced>> /\ PoolTyped
  BY DEF B!LoggedIn, B!config, PoolInv
<1>2. up \in Client /\ up.agent = poolClient[c].agent /\ up.state = "in"
  BY <1>1, ClientsAre DEF Client
<1> HIDE DEF up
<1>3. /\ poolClient' \in Seq(Client) /\ Len(poolClient') = Len(poolClient)
           /\ DOMAIN poolClient' = DOMAIN poolClient
      /\ poolClient'[c] = up /\ \A d \in DOMAIN poolClient :
           d # c => poolClient'[d] = poolClient[d]
  BY <1>1, <1>2 DEF PoolTyped
<1>4. PoolTyped'
  BY <1>1, <1>3 DEF PoolTyped
<1>5. \A a \in Agents : pool[a] # 0 => pool[a] \in DOMAIN poolClient
  BY <1>1 DEF PoolTyped
<1>6. EntriesAlive(poolClient', pool') /\ LiveInPool(poolClient', pool', displaced')
  BY <1>1, <1>2, <1>3, <1>5 DEF PoolInv, EntriesAlive, LiveInPool
<1> QED
  BY <1>4, <1>6 DEF PoolInv

(***************************************************************************)
(* Clients created for agents without one leave every entry alive.         *)
(***************************************************************************)
LEMMA CreatedAlive ==
  ASSUME NEW as \in SUBSET Agents, NEW hears \in BOOLEAN, NEW cs \in Seq(Client),
         NEW p \in [Agents -> 0 .. Len(cs)], NEW away,
         EntriesAlive(cs, p), LiveInPool(cs, p, away), \A a \in as : p[a] = 0
  PROVE  LET made == B!Created(as, hears, cs, p)
         IN /\ made.clients \in Seq(Client) /\ made.pool \in [Agents -> 0 .. Len(made.clients)]
            /\ EntriesAlive(made.clients, made.pool)
            /\ LiveInPool(made.clients, made.pool, away)
<1>0. PICK made : made = B!Created(as, hears, cs, p)
  OBVIOUS
<1>1. MadeFor(as, cs, p, made)
  BY <1>0, CreatedIs
<1>2. \A a \in Agents : p[a] # 0 => p[a] \in DOMAIN cs
  OBVIOUS
<1>3. \A c \in DOMAIN cs : cs[c].agent \in Agents /\ c # 0
  <2>1. \A c \in DOMAIN cs : cs[c] \in Client /\ c # 0
    OBVIOUS
  <2> QED
    BY <2>1 DEF Client
<1>4. EntriesAlive(made.clients, made.pool)
  <2> SUFFICES ASSUME NEW a \in Agents, made.pool[a] # 0
               PROVE  /\ made.clients[made.pool[a]].agent = a
                      /\ made.clients[made.pool[a]].state \in {"login", "in"}
    BY DEF EntriesAlive
  <2>1. CASE a \in as
    BY <1>1, <2>1 DEF MadeFor
  <2>2. CASE a \notin as
    <3>1. made.pool[a] = p[a]
      BY <1>1, <2>2 DEF MadeFor
    <3>2. p[a] \in DOMAIN cs /\ cs[p[a]].agent = a /\ cs[p[a]].state \in {"login", "in"}
      BY <1>2, <3>1 DEF EntriesAlive
    <3>3. made.clients[p[a]] = cs[p[a]]
      BY <1>1, <3>2 DEF MadeFor
    <3> QED
      BY <3>1, <3>2, <3>3
  <2> QED
    BY <2>1, <2>2
<1>5. LiveInPool(made.clients, made.pool, away)
  <2> SUFFICES ASSUME NEW c \in DOMAIN made.clients, made.clients[c].state \in {"login", "in"}
               PROVE  made.pool[made.clients[c].agent] = c \/ c \in away
    BY DEF LiveInPool
  <2>1. CASE c \in DOMAIN cs
    <3>1. made.clients[c] = cs[c] /\ cs[c].agent \in Agents /\ c # 0
      BY <1>1, <1>3, <2>1 DEF MadeFor
    <3>2. p[cs[c].agent] = c \/ c \in away
      BY <2>1, <3>1 DEF LiveInPool
    <3>3. p[cs[c].agent] = c => cs[c].agent \notin as
      BY <3>1
    <3>4. CASE p[cs[c].agent] = c
      <4>1. made.pool[cs[c].agent] = p[cs[c].agent]
        BY <1>1, <3>1, <3>3, <3>4 DEF MadeFor
      <4> QED
        BY <3>1, <3>4, <4>1
    <3> QED
      BY <3>2, <3>4
  <2>2. CASE c \notin DOMAIN cs
    BY <1>1, <2>2 DEF MadeFor
  <2> QED
    BY <2>1, <2>2
<1> QED
  BY <1>0, <1>1, <1>4, <1>5 DEF MadeFor

(***************************************************************************)
(* Destroying the clients of the agents that are gone frees their entries. *)
(***************************************************************************)
LEMMA DestroyedAlive ==
  ASSUME PoolInv
  PROVE  /\ B!Destroyed \in Seq(Client) /\ B!GoneRemoved \in [Agents -> 0 .. Len(B!Destroyed)]
         /\ EntriesAlive(B!Destroyed, B!GoneRemoved)
              /\ LiveInPool(B!Destroyed, B!GoneRemoved, displaced)
<1>1. PoolTyped
  BY DEF PoolInv
<1>2. ASSUME NEW c \in DOMAIN poolClient
      PROVE  /\ B!Destroyed[c] \in Client /\ B!Destroyed[c].agent = poolClient[c].agent
             /\ (\E a \in B!Gone : pool[a] = c) => B!Destroyed[c].state \notin {"login", "in"}
             /\ ~(\E a \in B!Gone : pool[a] = c) => B!Destroyed[c] = poolClient[c]
  <2> DEFINE over(w) == [poolClient[c] EXCEPT !.state = w]
  <2>1. \A w \in {"aborted", "destroyed"} :
          over(w) \in Client /\ over(w).agent = poolClient[c].agent /\ over(w).state = w
    BY <1>1, ClientsAre DEF Client
  <2>2. B!Destroyed[c] = IF \E a \in B!Gone : pool[a] = c
                         THEN over(IF poolClient[c].state = "login" THEN "aborted"
                             ELSE "destroyed")
                         ELSE poolClient[c]
    BY DEF B!Destroyed
  <2>3. poolClient[c] \in Client
    BY <1>1, ClientsAre
  <2> HIDE DEF over
  <2> QED
    BY <2>1, <2>2, <2>3
<1>3. B!Destroyed \in Seq(Client) /\ Len(B!Destroyed) = Len(poolClient)
          /\ DOMAIN B!Destroyed = DOMAIN poolClient
  <2>1. DOMAIN B!Destroyed = 1 .. Len(poolClient) /\ Len(poolClient) \in Nat
    BY <1>1 DEF PoolTyped, B!Destroyed
  <2>2. B!Destroyed = [c \in 1 .. Len(poolClient) |-> B!Destroyed[c]]
    BY <2>1 DEF B!Destroyed
  <2>3. \A c \in 1 .. Len(poolClient) : B!Destroyed[c] \in Client
    BY <1>1, <1>2 DEF PoolTyped
  <2>4. \A n \in Nat : \A f : f \in [1 .. n -> Client] => f \in Seq(Client) /\ Len(f) = n
    OBVIOUS
  <2>5. B!Destroyed \in [1 .. Len(poolClient) -> Client]
    BY <2>2, <2>3
  <2> QED
    BY <1>1, <2>1, <2>4, <2>5 DEF PoolTyped
<1>4. /\ B!GoneRemoved \in [Agents -> 0 .. Len(poolClient)]
      /\ \A a \in Agents : B!GoneRemoved[a] = IF a \in B!Gone THEN 0 ELSE pool[a]
  BY <1>1 DEF PoolTyped, B!GoneRemoved
<1>5. \A a \in Agents : pool[a] # 0 => pool[a] \in DOMAIN poolClient
  BY <1>1 DEF PoolTyped
<1>6. EntriesAlive(B!Destroyed, B!GoneRemoved)
  <2> SUFFICES ASSUME NEW a \in Agents, B!GoneRemoved[a] # 0
               PROVE  /\ B!Destroyed[B!GoneRemoved[a]].agent = a
                      /\ B!Destroyed[B!GoneRemoved[a]].state \in {"login", "in"}
    BY DEF EntriesAlive
  <2>1. a \notin B!Gone /\ B!GoneRemoved[a] = pool[a] /\ pool[a] # 0
            /\ pool[a] \in DOMAIN poolClient
    BY <1>4, <1>5
  <2>2. poolClient[pool[a]].agent = a /\ poolClient[pool[a]].state \in {"login", "in"}
    BY <2>1 DEF PoolInv, EntriesAlive
  <2>3. ~\E b \in B!Gone : pool[b] = pool[a]
    BY <2>1, <2>2 DEF PoolInv, EntriesAlive, B!Gone
  <2> QED
    BY <1>2, <2>1, <2>2, <2>3
<1>7. LiveInPool(B!Destroyed, B!GoneRemoved, displaced)
  <2> SUFFICES ASSUME NEW c \in DOMAIN poolClient, B!Destroyed[c].state \in {"login", "in"}
               PROVE  B!GoneRemoved[B!Destroyed[c].agent] = c \/ c \in displaced
    BY <1>3 DEF LiveInPool
  <2>1. B!Destroyed[c] = poolClient[c] /\ ~\E a \in B!Gone : pool[a] = c
    BY <1>2
  <2>2. pool[poolClient[c].agent] = c \/ c \in displaced
    BY <2>1 DEF PoolInv, LiveInPool
  <2>3. poolClient[c].agent \in Agents /\ c # 0
    BY <1>1, ClientsAre
  <2> QED
    BY <1>4, <2>1, <2>2, <2>3
<1> QED
  BY <1>3, <1>4, <1>6, <1>7

LEMMA ReloadAlive ==
  ASSUME PoolInv, B!Reload
  PROVE  PoolInv'
<1> DEFINE new == {a \in B!Loaded : pool[a] = 0}
           made == B!Created(new, FALSE, B!Destroyed, B!GoneRemoved)
<1>1. poolClient' = made.clients /\ pool' = made.pool
          /\ UNCHANGED <<poolListed, filed, displaced>>
  BY DEF B!Reload
<1>2. new \in SUBSET Agents /\ \A a \in new : B!GoneRemoved[a] = 0
  BY DEF PoolInv, PoolTyped, B!Loaded, B!GoneRemoved
<1>3. /\ made.clients \in Seq(Client) /\ made.pool \in [Agents -> 0 .. Len(made.clients)]
      /\ EntriesAlive(made.clients, made.pool) /\ LiveInPool(made.clients, made.pool, displaced)
  <2> HIDE DEF new
  <2> QED
    BY <1>2, DestroyedAlive, CreatedAlive
<1> HIDE DEF made
<1> QED
  BY <1>1, <1>3 DEF PoolInv, PoolTyped

(***************************************************************************)
(* Whoever writes for an agent finds a client that is up or coming up, and *)
(* a client that is up is the one of its agent or was displaced by a late  *)
(* failure (PoolIsAlive), however reloads and logins interleave.           *)
(***************************************************************************)
THEOREM PoolIsAlwaysAlive == B!Spec => []B!PoolIsAlive
<1>1. B!Init => PoolInv
  <2> SUFFICES ASSUME B!Init PROVE PoolInv
    OBVIOUS
  <2> DEFINE none == [a \in Agents |-> 0]
             start == B!Created(B!Loaded \cup bound, TRUE, <<>>, none)
  <2>1. /\ poolClient = start.clients /\ pool = start.pool
             /\ B!Loaded \cup bound \in SUBSET Agents
        /\ poolListed \subseteq Agents /\ filed \subseteq Agents
    BY AgentsAreKnown DEF B!Init, B!Loaded
  <2>2. /\ <<>> \in Seq(Client) /\ none \in [Agents -> 0 .. Len(<<>>)]
        /\ EntriesAlive(<<>>, none) /\ LiveInPool(<<>>, none, displaced)
        /\ \A a \in B!Loaded \cup bound : none[a] = 0
    BY <2>1 DEF EntriesAlive, LiveInPool
  <2>3. /\ start.clients \in Seq(Client) /\ start.pool \in [Agents -> 0 .. Len(start.clients)]
        /\ EntriesAlive(start.clients, start.pool)
        /\ LiveInPool(start.clients, start.pool, displaced)
    <3> HIDE DEF none
    <3> QED
      BY <2>1, <2>2, CreatedAlive
  <2> HIDE DEF start
  <2> QED
    BY <2>1, <2>3 DEF PoolInv, PoolTyped
<1>2. PoolInv /\ [B!Next]_B!vars => PoolInv'
  <2> SUFFICES ASSUME PoolInv, [B!Next]_B!vars PROVE PoolInv'
    OBVIOUS
  <2>1. CASE B!EditAgents
    BY <2>1 DEF B!EditAgents, PoolInv, PoolTyped, EntriesAlive, LiveInPool
  <2>2. CASE B!EditChannels \/ B!LoadChannels \/ UNCHANGED B!vars
    BY <2>2
      DEF B!EditChannels, B!LoadChannels, B!vars, B!config, PoolInv, PoolTyped, EntriesAlive,
          LiveInPool
  <2> QED
    BY <2>1, <2>2, ReloadAlive, LoggedInAlive, LoginFailedAlive DEF B!Next
<1>3. PoolInv => B!PoolIsAlive
  BY DEF PoolInv, EntriesAlive, LiveInPool, B!PoolIsAlive
<1> QED
  BY <1>1, <1>2, <1>3, PTL DEF B!Spec

-----------------------------------------------------------------------------
\* Google mail. A mail that was published is remembered or shared.

(***************************************************************************)
(* A reload arms the Gmail poll anew whenever what it goes by changed.     *)
(***************************************************************************)
THEOREM WatchedIsAlwaysPolled == E!Spec => []E!WatchedIsPolled
<1>1. E!Init => E!WatchedIsPolled
  BY DEF E!Init, E!WatchedIsPolled
<1>2. E!WatchedIsPolled /\ [E!Next]_E!vars => E!WatchedIsPolled'
  <2> SUFFICES ASSUME E!WatchedIsPolled, [E!Next]_E!vars PROVE E!WatchedIsPolled'
    OBVIOUS
  <2>1. CASE E!Reload
    BY <2>1 DEF E!Reload, E!GmailChanged, E!WatchedIsPolled
  <2>2. CASE UNCHANGED <<timer, config>>
    BY <2>2 DEF E!WatchedIsPolled
  <2>3. E!Edit \/ E!Refresher \/ E!Expire \/ UNCHANGED E!vars => UNCHANGED <<timer, config>>
    BY DEF E!Edit, E!Refresher, E!Expire, E!settings, E!vars
  <2>4. ASSUME NEW m \in Mails, E!Arrive(m) \/ E!ReadByUser(m)
        PROVE  UNCHANGED <<timer, config>>
    BY <2>4 DEF E!Arrive, E!ReadByUser, E!settings
  <2>5. ASSUME NEW p \in Polls, E!Start(p) \/ E!Look(p) \/ E!Fetch(p)
        PROVE  UNCHANGED <<timer, config>>
    BY <2>5 DEF E!Start, E!Look, E!Fetch, E!settings
  <2> QED
    BY <2>1, <2>2, <2>3, <2>4, <2>5 DEF E!Next
<1> QED
  BY <1>1, <1>2, PTL DEF E!Spec

MailTyped ==
  /\ service \in Nat \ {0} /\ service + (IF config = yaml THEN 0 ELSE 1) <= mailEdits + 1
  /\ mailEdits \in 0 .. MaxYamlEdits
  /\ inbox \in Seq(Mails)
  /\ poll \in [Polls -> [of : E!Services, step : {"next", "fetch"}, queue : Seq(Mails)]]
  /\ \A p \in Polls : poll[p].step = "fetch" => poll[p].queue # <<>>
  /\ processed \in [E!Services -> Seq(Mails)]
  /\ \A s \in E!Services : Len(processed[s]) <= MailsKept
  /\ published \in [E!Services -> [Mails -> 0 .. 2]]

Fetches(p, s, m) == poll[p].step = "fetch" /\ poll[p].of = s /\ Head(poll[p].queue) = m

\* What was published is remembered; a mail being fetched that is remembered, and one that
\* two polls fetch, is shared.
MailKnown ==
  \A s \in E!Services, m \in Mails :
    <<s, m>> \notin shared =>
      /\ published[s][m] > 0 => E!Contains(processed[s], m)
      /\ \A p \in Polls : Fetches(p, s, m) => ~E!Contains(processed[s], m)
      /\ \A p, q \in Polls : Fetches(p, s, m) /\ Fetches(q, s, m) => p = q

MailInv == MailTyped /\ MailKnown /\ E!MailsOnce

(***************************************************************************)
(* The list of a poll is a sequence of mails.                              *)
(***************************************************************************)
LEMMA NewestTyped ==
  ASSUME inbox \in Seq(Mails)
  PROVE  E!Newest \in Seq(Mails)
<1>1. ASSUME NEW q \in Seq(Mails)
      PROVE  E!Reverse(q) \in Seq(Mails)
  <2>1. \A i \in 1 .. Len(q) : q[(Len(q) - i) + 1] \in Mails
    BY <1>1
  <2> QED
    BY <1>1, <2>1 DEF E!Reverse
<1>2. Len(inbox) > MailPage => SubSeq(inbox, Len(inbox) - MailPage + 1, Len(inbox)) \in Seq(Mails)
  BY PagesAreCounted
<1>3. Len(inbox) <= MailPage \/ Len(inbox) > MailPage
  BY PagesAreCounted
<1>4. CASE Len(inbox) <= MailPage
  BY <1>1, <1>4 DEF E!Newest
<1>5. CASE Len(inbox) > MailPage
  <2>1. E!Newest = E!Reverse(SubSeq(inbox, Len(inbox) - MailPage + 1, Len(inbox)))
    BY <1>5, PagesAreCounted DEF E!Newest
  <2> QED
    BY <1>1, <1>2, <1>5, <2>1
<1> QED
  BY <1>3, <1>4, <1>5

(***************************************************************************)
(* processed keeps the mail just published and at most Remembers of all.   *)
(***************************************************************************)
LEMMA KeptIs ==
  ASSUME NEW s \in E!Services, NEW m \in Mails, processed[s] \in Seq(Mails),
         Len(processed[s]) <= MailsKept
  PROVE  /\ E!Kept(s, m) \in Seq(Mails) /\ Len(E!Kept(s, m)) <= MailsKept
         /\ E!Contains(E!Kept(s, m), m)
         /\ \A n : E!Contains(E!Kept(s, m), n) => n = m \/ E!Contains(processed[s], n)
<1> DEFINE old == processed[s]
           all == Append(old, m)
<1>1. CASE E!Contains(old, m)
  BY <1>1, PagesAreCounted DEF E!Kept
<1>2. CASE ~E!Contains(old, m) /\ Len(all) <= MailsKept
  <2>1. E!Kept(s, m) = all
    BY <1>2, PagesAreCounted DEF E!Kept
  <2> QED
    BY <1>2, <2>1 DEF E!Contains
<1>3. CASE ~E!Contains(old, m) /\ Len(all) > MailsKept
  <2>1. E!Kept(s, m) = Tail(all) /\ Len(all) = Len(old) + 1 /\ Len(old) >= 1
    BY <1>3, PagesAreCounted DEF E!Kept
  <2>2. Tail(all) \in Seq(Mails) /\ Len(Tail(all)) = Len(old)
    BY <2>1
  <2>3. \A i \in 1 .. Len(old) : Tail(all)[i] = all[i + 1]
    BY <2>1
  <2>4. Tail(all)[Len(old)] = m
    BY <2>1, <2>3
  <2>5. \A i \in 1 .. Len(old) :
            Tail(all)[i] = m \/ \E j \in 1 .. Len(old) : Tail(all)[i] = old[j]
    BY <2>3
  <2> QED
    BY <2>1, <2>2, <2>4, <2>5 DEF E!Contains
<1>4. Len(all) \in Nat
  OBVIOUS
<1> HIDE DEF all
<1> QED
  BY <1>1, <1>2, <1>3, <1>4, PagesAreCounted

(***************************************************************************)
(* A reload starts a service, and each needs an edit of its own.           *)
(***************************************************************************)
LEMMA ServicesAreFew ==
  ASSUME MailTyped
  PROVE  service \in E!Services
BY EditsAreCounted DEF MailTyped, E!Services

(***************************************************************************)
(* Steps that leave the polls and what was published alone.                *)
(***************************************************************************)
LEMMA MailRests ==
  ASSUME MailInv, MailTyped', UNCHANGED <<poll, processed, published, shared>>
  PROVE  MailInv'
BY DEF MailInv, MailKnown, E!MailsOnce, Fetches

(***************************************************************************)
(* A new poll of a service fetches nothing yet.                            *)
(***************************************************************************)
LEMMA StartKnown ==
  ASSUME MailInv, NEW p \in Polls, E!Start(p)
  PROVE  MailInv'
<1> DEFINE new == [of |-> service, step |-> "next", queue |-> E!Newest]
<1>1. /\ poll' = [poll EXCEPT ![p] = new]
      /\ UNCHANGED <<yaml, config, mailEdits, service, inbox, processed, published, shared>>
  BY DEF E!Start, E!settings
<1>2. new \in [of : E!Services, step : {"next", "fetch"}, queue : Seq(Mails)]
  <2>1. service \in E!Services
    BY ServicesAreFew DEF MailInv
  <2> QED
    BY <2>1, NewestTyped DEF MailInv, MailTyped
<1>3. MailTyped'
  BY <1>1, <1>2 DEF MailInv, MailTyped
<1>4. \A q \in Polls : \A s, m : Fetches(q, s, m)' => Fetches(q, s, m)
  BY <1>1 DEF Fetches, MailInv, MailTyped
<1> QED
  BY <1>1, <1>3, <1>4 DEF MailInv, MailKnown, E!MailsOnce

LEMMA LookKnown ==
  ASSUME MailInv, NEW p \in Polls, E!Look(p)
  PROVE  MailInv'
<1> DEFINE m == Head(poll[p].queue)
           s == poll[p].of
<1>1. /\ UNCHANGED <<yaml, config, mailEdits, service, inbox, processed, published>>
      /\ poll[p].step = "next" /\ poll[p].queue # <<>>
  BY DEF E!Look, E!settings
<1>2. m \in Mails /\ s \in E!Services /\ Tail(poll[p].queue) \in Seq(Mails)
  BY <1>1 DEF MailInv, MailTyped
<1>3. CASE E!Knows(p, m)
  <2>1. poll' = [poll EXCEPT ![p].queue = Tail(@)] /\ UNCHANGED shared
    BY <1>3 DEF E!Look
  <2>2. MailTyped'
    BY <1>1, <1>2, <2>1 DEF MailInv, MailTyped
  <2>3. \A q \in Polls : \A t, n : Fetches(q, t, n)' => Fetches(q, t, n)
    BY <1>1, <2>1 DEF Fetches, MailInv, MailTyped
  <2> QED
    BY <1>1, <2>1, <2>2, <2>3 DEF MailInv, MailKnown, E!MailsOnce
<1>4. CASE ~E!Knows(p, m)
  <2>1. /\ poll' = [poll EXCEPT ![p].step = "fetch"]
        /\ shared' = IF E!Others(p, m) = {} THEN shared ELSE shared \cup {<<s, m>>}
    BY <1>4 DEF E!Look
  <2>2. MailTyped'
    BY <1>1, <2>1 DEF MailInv, MailTyped
  <2>3. shared \subseteq shared' /\ \A t, n :
            <<t, n>> # <<s, m>> => (<<t, n>> \in shared' <=> <<t, n>> \in shared)
    BY <2>1
  <2>4. \A q \in Polls : \A t, n :
          Fetches(q, t, n)' => (q = p /\ t = s /\ n = m) \/ Fetches(q, t, n)
    BY <1>1, <2>1 DEF Fetches, MailInv, MailTyped
  <2>5. ~E!Contains(processed[s], m)
    BY <1>4 DEF E!Knows
  <2>6. <<s, m>> \notin shared' => \A q \in Polls : Fetches(q, s, m) => q = p
    BY <2>1 DEF E!Others, Fetches
  <2>7. MailKnown'
    <3> SUFFICES ASSUME NEW t \in E!Services, NEW n \in Mails, <<t, n>> \notin shared'
                 PROVE  /\ published[t][n] > 0 => E!Contains(processed[t], n)
                        /\ \A q \in Polls : Fetches(q, t, n)' => ~E!Contains(processed[t], n)
                        /\ \A q, r \in Polls : Fetches(q, t, n)' /\ Fetches(r, t, n)' => q = r
      BY <1>1 DEF MailKnown
    <3>1. <<t, n>> \notin shared
      BY <2>3
    <3>2. /\ published[t][n] > 0 => E!Contains(processed[t], n)
          /\ \A q \in Polls : Fetches(q, t, n) => ~E!Contains(processed[t], n)
          /\ \A q, r \in Polls : Fetches(q, t, n) /\ Fetches(r, t, n) => q = r
      BY <3>1 DEF MailInv, MailKnown
    <3> QED
      BY <2>4, <2>5, <2>6, <3>2
  <2>8. E!MailsOnce'
    BY <1>1, <2>3 DEF MailInv, E!MailsOnce
  <2> QED
    BY <2>2, <2>7, <2>8 DEF MailInv
<1> QED
  BY <1>3, <1>4

(***************************************************************************)
(* A mail published a second time by a service was forgotten, or fetched   *)
(* by two polls, and is shared either way.                                 *)
(***************************************************************************)
LEMMA FetchKnown ==
  ASSUME MailInv, NEW p \in Polls, E!Fetch(p)
  PROVE  MailInv'
<1> DEFINE m == Head(poll[p].queue)
           s == poll[p].of
           more == IF published[s][m] = 2 THEN 2 ELSE published[s][m] + 1
<1>1. /\ UNCHANGED <<yaml, config, mailEdits, service, inbox>> /\ poll[p].step = "fetch"
      /\ poll' = [poll EXCEPT ![p].step = "next", ![p].queue = Tail(@)]
  BY DEF E!Fetch, E!settings
<1>2. m \in Mails /\ s \in E!Services /\ Tail(poll[p].queue) \in Seq(Mails) /\ Fetches(p, s, m)
  BY <1>1 DEF MailInv, MailTyped, Fetches
<1>3. poll' \in [Polls -> [of : E!Services, step : {"next", "fetch"}, queue : Seq(Mails)]]
      /\ \A q \in Polls : poll'[q].step = "fetch" => poll'[q].queue # <<>>
  <2> DEFINE new == [poll[p] EXCEPT !.step = "next", !.queue = Tail(poll[p].queue)]
  <2>1. poll[p] \in [of : E!Services, step : {"next", "fetch"}, queue : Seq(Mails)]
    BY DEF MailInv, MailTyped
  <2>2. new \in [of : E!Services, step :
            {"next", "fetch"}, queue : Seq(Mails)] /\ new.step = "next"
    BY <1>2, <2>1
  <2>3. poll' = [poll EXCEPT ![p] = new]
    BY <1>1
  <2> HIDE DEF new
  <2> QED
    BY <2>2, <2>3 DEF MailInv, MailTyped
<1>4. \A q \in Polls : \A t, n : Fetches(q, t, n)' => q # p /\ Fetches(q, t, n)
  BY <1>1, <1>2 DEF Fetches, MailInv, MailTyped
<1>5. CASE UNCHANGED <<processed, published, shared>>
  <2>1. MailTyped'
    BY <1>1, <1>3, <1>5 DEF MailInv, MailTyped
  <2> QED
    BY <1>4, <1>5, <2>1 DEF MailInv, MailKnown, E!MailsOnce
<1>6. CASE /\ processed' = [processed EXCEPT ![s] = E!Kept(s, m)]
           /\ published' = [published EXCEPT ![s][m] = more]
           /\ shared' = shared \cup ({s} \X (E!ToSet(processed[s]) \ E!ToSet(E!Kept(s, m))))
  <2>1. /\ E!Kept(s, m) \in Seq(Mails) /\ Len(E!Kept(s, m)) <= MailsKept
        /\ E!Contains(E!Kept(s, m), m)
        /\ \A n : E!Contains(E!Kept(s, m), n) => n = m \/ E!Contains(processed[s], n)
    BY <1>2, KeptIs DEF MailInv, MailTyped
  <2>2. published[s][m] \in 0 .. 2 /\ more \in 0 .. 2
    BY <1>2 DEF MailInv, MailTyped
  <2>3. /\ processed' \in [E!Services -> Seq(Mails)]
        /\ processed'[s] = E!Kept(s, m) /\ \A t \in E!Services \ {s} :
             processed'[t] = processed[t]
    BY <1>2, <1>6, <2>1 DEF MailInv, MailTyped
  <2>4. /\ published' \in [E!Services -> [Mails -> 0 .. 2]] /\ published'[s][m] = more
        /\ \A t \in E!Services, n \in Mails :
             <<t, n>> # <<s, m>> => published'[t][n] = published[t][n]
    BY <1>2, <1>6, <2>2 DEF MailInv, MailTyped
  <2>5. MailTyped'
    BY <1>1, <1>3, <2>1, <2>3, <2>4 DEF MailInv, MailTyped
  <2>6. shared \subseteq shared'
    BY <1>6
  <2>7. \A n : E!Contains(processed[s], n) /\ <<s, n>> \notin shared'
            => E!Contains(E!Kept(s, m), n)
    <3>0. processed[s] \in Seq(Mails)
      BY <1>2 DEF MailInv, MailTyped
    <3>1. \A n : E!Contains(processed[s], n) <=> n \in E!ToSet(processed[s])
      BY <3>0 DEF E!Contains, E!ToSet
    <3>2. \A n : E!Contains(E!Kept(s, m), n) <=> n \in E!ToSet(E!Kept(s, m))
      BY <2>1 DEF E!Contains, E!ToSet
    <3> QED
      BY <1>6, <3>1, <3>2
  <2>8. MailKnown'
    <3> SUFFICES ASSUME NEW t \in E!Services, NEW n \in Mails, <<t, n>> \notin shared'
                 PROVE  /\ published'[t][n] > 0 => E!Contains(processed'[t], n)
                        /\ \A q \in Polls : Fetches(q, t, n)' => ~E!Contains(processed'[t], n)
                        /\ \A q, r \in Polls : Fetches(q, t, n)' /\ Fetches(r, t, n)' => q = r
      BY DEF MailKnown
    <3>1. <<t, n>> \notin shared
      BY <2>6
    <3>2. /\ published[t][n] > 0 => E!Contains(processed[t], n)
          /\ \A q \in Polls : Fetches(q, t, n) => ~E!Contains(processed[t], n)
          /\ \A q, r \in Polls : Fetches(q, t, n) /\ Fetches(r, t, n) => q = r
      BY <3>1 DEF MailInv, MailKnown
    <3>3. CASE t # s
      BY <1>4, <2>3, <2>4, <3>2, <3>3
    <3>4. CASE t = s
      <4>1. published'[t][n] > 0 => E!Contains(processed'[t], n)
        BY <2>1, <2>3, <2>4, <2>7, <3>2, <3>4
      <4>2. ASSUME NEW q \in Polls, Fetches(q, t, n)'
            PROVE  ~E!Contains(processed'[t], n)
        BY <1>2, <1>4, <2>1, <2>3, <3>2, <3>4, <4>2
      <4> QED
        BY <1>4, <3>2, <4>1, <4>2
    <3> QED
      BY <3>3, <3>4
  <2>9. E!MailsOnce'
    <3> SUFFICES ASSUME NEW t \in E!Services, NEW n \in Mails, published'[t][n] > 1
                 PROVE  <<t, n>> \in shared'
      BY DEF E!MailsOnce
    <3>1. CASE <<t, n>> = <<s, m>>
      <4>1. published'[t][n] = more
        BY <2>4, <3>1
      <4>2. published[s][m] > 0
        <5> HIDE DEF s, m
        <5> QED
          BY <2>2, <4>1
      <4> QED
        BY <1>2, <2>6, <3>1, <4>2 DEF MailInv, MailKnown
    <3>2. CASE <<t, n>> # <<s, m>>
      BY <2>4, <2>6, <3>2 DEF MailInv, E!MailsOnce
    <3> QED
      BY <3>1, <3>2
  <2> QED
    BY <2>5, <2>8, <2>9 DEF MailInv
<1> QED
  BY <1>5, <1>6 DEF E!Fetch

(***************************************************************************)
(* A Gmail service publishes a mail once, however its polls overlap and    *)
(* the configuration changes, unless two of them were fetching it at once  *)
(* or it has been forgotten (MailsOnce).                                   *)
(***************************************************************************)
THEOREM MailsPublishedOnce == E!Spec => []E!MailsOnce
<1>1. E!Init => MailInv
  BY PagesAreCounted, EditsAreCounted
    DEF E!Init, E!Idle, E!Services, MailInv, MailTyped, MailKnown, E!MailsOnce, Fetches
<1>2. MailInv /\ [E!Next]_E!vars => MailInv'
  <2> SUFFICES ASSUME MailInv, [E!Next]_E!vars PROVE MailInv'
    OBVIOUS
  <2>1. CASE E!Edit
    BY <2>1, EditsAreCounted, MailRests DEF E!Edit, MailInv, MailTyped
  <2>2. CASE E!Reload
    BY <2>2, MailRests DEF E!Reload, MailInv, MailTyped
  <2>3. CASE E!Refresher \/ E!Expire \/ UNCHANGED E!vars
    BY <2>3, MailRests DEF E!Refresher, E!Expire, E!settings, E!vars, MailInv, MailTyped
  <2>4. ASSUME NEW m \in Mails, E!Arrive(m)
        PROVE  MailInv'
    BY <2>4, MailRests DEF E!Arrive, E!settings, MailInv, MailTyped
  <2>5. ASSUME NEW m \in Mails, E!ReadByUser(m)
        PROVE  MailInv'
    <3>1. PICK i \in DOMAIN inbox : inbox' = E!RemoveAt(inbox, i)
      BY <2>5 DEF E!ReadByUser
    <3>2. inbox \in Seq(Mails) /\ i \in 1 .. Len(inbox)
      BY <3>1 DEF MailInv, MailTyped
    <3>3. SubSeq(inbox, 1, i - 1) \in Seq(Mails)
              /\ SubSeq(inbox, i + 1, Len(inbox)) \in Seq(Mails)
      BY <3>2
    <3>4. inbox' \in Seq(Mails)
      BY <3>1, <3>3 DEF E!RemoveAt
    <3> QED
      BY <2>5, <3>4, MailRests DEF E!ReadByUser, E!settings, MailInv, MailTyped
  <2> QED
    BY <2>1, <2>2, <2>3, <2>4, <2>5, StartKnown, LookKnown, FetchKnown DEF E!Next
<1>3. MailInv => E!MailsOnce
  BY DEF MailInv
<1> QED
  BY <1>1, <1>2, <1>3, PTL DEF E!Spec

-----------------------------------------------------------------------------
\* What the runs check.

(***************************************************************************)
(* However requests, polls and restarts overlap: an issue is repeated only *)
(* where none was seen or guarded, a project is known once, a mail is      *)
(* published again only when two polls fetched it at once or it was        *)
(* forgotten, webhooks are no more than the projects that could list at    *)
(* once, and a slug is taken exactly while a request for it runs.          *)
(***************************************************************************)
THEOREM OneAlwaysOfEach == I!ToolsSpec /\ I!RegistrySpec /\ E!Spec /\ O!Spec => []OneOfEach
BY RepeatsAlwaysUnseen, AlwaysOneProjectEach, MailsPublishedOnce, HooksAreAlwaysFew,
   TakenAlwaysWhileRunning, PTL
  DEF OneOfEach

(***************************************************************************)
(* Whatever is saved, reloaded or restarted: the tools of the MCP server   *)
(* saved last, once listed, stay; whoever writes for an agent finds a      *)
(* client that is up or coming up; and mail is polled exactly while a      *)
(* label is watched.                                                       *)
(***************************************************************************)
THEOREM ConfiguredAlwaysServes == M!Spec /\ B!Spec /\ E!Spec => []ConfiguredServes
BY CurrentAlwaysServed, PoolIsAlwaysAlive, WatchedIsAlwaysPolled, PTL DEF ConfiguredServes

=============================================================================
