SPECIFICATION Spec
CONSTANTS
  a1 = a1
  b1 = b1
  c1 = c1
  e1 = e1
  e2 = e2
  e3 = e3
  e4 = e4
  s = s
  None = None
  Agent = {a1, b1, c1}
  Skill = {s}
  Entry = {e1, e2, e3, e4}
  NameOf <- Names
  SkillsOf <- Blocks
  Offer <- Offers
  Base <- AgentsYaml
  Safe <- FileNames
  Unfiled = {}
  MaxFetches = 3
INVARIANTS
  TypeOK
  DeclaredServed
  RecordedIsRegistered
  AcknowledgedKept
PROPERTIES
  EventuallyServed
