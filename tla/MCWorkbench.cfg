SPECIFICATION SpecAll
CONSTANTS
  Parts = {"terminal", "keys", "tabs", "editor", "tree", "previews", "ports", "ide", "secrets", "settings", "resources", "tasks", "session", "forms", "cli", "checkpoints", "user"}
  m1 = m1
  m2 = m2
  f1 = f1
  f2 = f2
  NoFile = NoFile
  Cap = 3
  MaxItems = 6
  Nobody = Nobody
  Users = {m1, m2}
  MaxLogins = 2
  MaxCalls = 2
  MaxMoves = 1
  MaxErrors = 2
  Sizes = {1, 2}
  NumConns = 2
  MaxShows = 2
  MaxResizes = 1
  MaxFaults = 1
  MaxTabs = 4
INVARIANTS
  TerminalSound
  NewestKept
  SandboxTrue
  SettingsAgree
  SessionIsOneUsers
PROPERTIES
  Implements
CHECK_DEADLOCK FALSE
