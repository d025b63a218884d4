SPECIFICATION InterfaceSpec
CONSTANTS
  Mail = {1, 2}
  NoMail = 0
  Age <- MCAge
  Elements <- MCElements
  Alternatives <- MCAlternatives
  Flagged = {}
  Draft = {2}
  Lost = {2}
  MaxEvents = 2
  Page = {1, 2, 3}
  List = {1}
  Nobody = 0
  Command = {"next", "label", "open"}
  Registered <- MCRegistered
  RunHook = "run"
  KeyCode = {1, 2, 3, 4, 5}
  Unbound = 0
  MaxLines = 3
  Query = {"a", "b"}
  StartupQueries <- MCStartupQueries
  history_lines = 1
  history_lines_to_show = 1
  page_jump_rows = 3
  MaxSearches = 2
  MaxMail = 2
  MaxEmitted = 2
  Thread = {1, 2}
  NoThread = 0
  JumpRows = 2
  MaxOpened = 2
  MaxChanges = 2
  Account = {1, 2}
  DefaultAccount = 1
  HasSignature = {2}
  SignatureOn = {2}
  AttachedSignature = {2}
  HasGpg = {2}
  AlwaysSign = {}
  Receivers = {1, 2}
  MarkdownOn = {}
  MaxTexts = 1
  MaxEdits = 2
  Letter = {" ", "+", "a"}
  TagNames <- MCTagNames
  TagbarMove = "Tags"
  MaxText = 5
  MaxQuery = 1
  MaxPast = 2
  PipeCapacity = 1
  MaxInput = 3
  MaxPer = 1
  MaxWarnings = 2
INVARIANTS AckAccounting PageShowsState PageBeforeContent KeysReachPage AskerAlive KeysRunTheirCommand StatsFresh
PROPERTIES ReadHasFocus RenderedAtLast ListActsOnView ComposeKeepsText BarKeepsInput PipeReturns
CHECK_DEADLOCK FALSE
