CONSTANTS
  Hooks = {"hook"}
  SweepEval = "sweep"
  Runs = {"run"}
  Registered = TRUE
  Reviewers = {"p"}
  SurveyPushes = 1
  ReviewPage = 1
  MaxReviews = 2
  SummaryPushes = 2
  Changes <- ChangesOf
  ManyFiles = 3
  ManyLines = 4
  Files <- FilesOf
  SymbolsIn <- SymbolsOf
  MaxFiles = 2
  MaxSymbols = 2
  Decisions <- DecisionsOn
  Patterns <- PatternsFor
  Size <- SizeOf
  Alike <- ScoreOf
  Budget = 50
  Merges = {"m", "n"}
  Diff <- DiffOf
  Large = 3
  ChunkSize = 3
  ChunkOverlap = 1
  ChunkPoint <- PointOfChunk
  SymbolPoint <- PointOfSymbol
  Replies = {"r", "s"}
  LearningStarts = 2
  Creates = {"a1", "a2", "b"}
  TitleOf <- Titles
  Managed = {"a1", "a2", "b"}
  IssueWindow = 1
  IssueTime = 2
  IssuePage = 1
  Listed <- ThreeProjects
  SlugOfProject <- ProjectSlug
  ProjectRepos = {"r", "none"}
  MaxChanges = 1
  Requests = {"a1", "a2", "b", "r"}
  SlugOf <- RequestSlugs
  RepoOf <- RequestRepos
  From <- Senders
  MaxCrashes = 1
  MaxSaves = 3
  MaxRestarts = 1
  Agents = {"a", "b"}
  ChannelFiles = {{}, {"a"}}
  MaxClients = 4
  MaxPoolEdits = 2
  Mails = {"m", "n"}
  MailPage = 1
  MailsKept = 1
  Polls = {1, 2}
  Configs <- GoogleYaml
  MaxYamlEdits = 1
  Execs = {"e1", "e2", "e3"}
  Chats = {"c"}
  MaxEntries = 1
  Messages = {"m1", "m2", "m3"}
  AuthorOf <- Authors
  KindOf <- Kinds
  Mentioned = {"m1"}
  RateMax = 1
  RateWindow = 2
  Timeout = 3
  TalkTime = 3
  Writes = {"u", "a", "b"}
  Appends = {"a", "b"}
  Drafts = {"d"}
  MaxMails = 2
  Contexts = {"x", "y"}
  Calls = {1, 2, 3}
  ContextOf <- CallContext
  MaxTurns = 2
  HistoryTurns = 2
  MaxTranscript = 2
  TopK = 1
  MemoryAge = 0
  Batch = 2
  MemoryTime = 2
  Rows = {1, 2, 3}
  KindOfRow <- SortOf
  ByWords <- WordHits
  ByMeaning <- MeaningHits
  Asked = "x"
  Pool = 2
  TopHits = 3
  RrfK = 4
  Turns = {1, 2}
  Retention = 1
  MaxHour = 4
  Schedules = {"x", "y"}
  ServedBy <- Registrar
  Clients = {"c"}
  MaxBoots = 2
SPECIFICATION Spec
INVARIANTS
  TypeOK ApprovedWasReviewed OneApprovalInFlight ReviewsKnow OneOfEach HookIsOpen
  ConfiguredServes RepliesFit MemoryKeeps BothComeFirst
PROPERTY InOrder
CHECK_DEADLOCK FALSE
