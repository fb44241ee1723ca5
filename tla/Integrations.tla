---------------------------- MODULE Integrations ----------------------------
(***************************************************************************)
(* The tools that act on other systems: issues, projects, onboarding, MCP  *)
(* servers, Discord clients and Google mail. They share no state.          *)
(***************************************************************************)
EXTENDS Integers, Sequences, FiniteSets

CONSTANTS
  Creates, TitleOf, Managed, IssueWindow, IssueTime, IssuePage,
  Listed, SlugOfProject(_), ProjectRepos, MaxChanges,  \* see IssueTools
  Requests, SlugOf, RepoOf, From, MaxCrashes,  \* see Onboarding
  MaxSaves, MaxRestarts,  \* see McpServers
  Agents, ChannelFiles, MaxClients, MaxPoolEdits,  \* see AgentPool
  Mails, MailPage, MailsKept, Polls, Configs, MaxYamlEdits  \* see GoogleWatch

VARIABLES
  now, issues, pc, issueListed, answer,
  served, clone, changes, fetched, waiting, known, last,
  auth, google, onboardingPc, inFlight, hooks, folders, said, announced, blind, crashes,
  saved, on, edits, at, client, open, tools, restarts,
  poolListed, filed, watched, changed, channelFile, bound, poolEdits, poolClient, pool,
  displaced,
  yaml, config, mailEdits, service, timer, calendar, token, inbox, poll, processed, published,
  shared

\* The bounds are counts.
ASSUME EditsAreCounted == MaxSaves \in Nat /\ MaxYamlEdits \in Nat
\* A list returns some messages, and some processed ones are remembered.
ASSUME PagesAreCounted == MailPage \in Nat \ {0} /\ MailsKept \in Nat \ {0}
\* A listing of issues returns some number of them, and a title is guarded for some time.
ASSUME WindowsAreCounted == IssuePage \in Nat /\ IssueWindow \in Nat
\* The agents are finitely many, and channels.yaml gives tokens to some of them.
ASSUME AgentsAreKnown == IsFiniteSet(Agents) /\ \A f \in ChannelFiles : f \subseteq Agents
\* The sidecar lists the projects in some order.
ASSUME ProjectsAreListed == Len(Listed) \in Nat /\ DOMAIN Listed = 1 .. Len(Listed)
\* Only so many onboarding requests arrive.
ASSUME RequestsAreFinite == IsFiniteSet(Requests)

I == INSTANCE IssueTools WITH
       Window <- IssueWindow, MaxTime <- IssueTime, Page <- IssuePage, listed <- issueListed
O == INSTANCE Onboarding WITH pc <- onboardingPc
M == INSTANCE McpServers WITH MaxEdits <- MaxSaves
B == INSTANCE AgentPool WITH
       MaxEdits <- MaxPoolEdits, listed <- poolListed, edits <- poolEdits, client <- poolClient
E == INSTANCE GoogleWatch WITH
       Page <- MailPage, Remembers <- MailsKept, MaxEdits <- MaxYamlEdits, edits <- mailEdits

-----------------------------------------------------------------------------
\* Issues are filed, projects known, mails published, webhooks created and projects onboarded no
\* oftener than said, however their requests overlap.
OneOfEach ==
  /\ I!RepeatsWereUnseen /\ I!AnswersFit /\ I!OneProjectEach /\ E!MailsOnce
  /\ O!HooksAreFew /\ O!TakenWhileRunning
\* What is configured serves: the tools of an MCP server as it was saved last, a Discord client for
\* whoever writes, a poll of mail while a label is watched.
ConfiguredServes == M!CurrentServed /\ B!PoolIsAlive /\ E!WatchedIsPolled

=============================================================================
