SPECIFICATION MCSpec
CONSTANTS
  Topic = {"ingress", "attachments", "turns", "jobs", "evidence", "account", "inputs", "reads"}
  Keyed = {"message"}
  Bare = {}
  Wake = {"wake"}
  Utterance <- Utterances
  Capture = {"capture"}
  CaptureInput <- CaptureInputs
  Trim <- Trims
  Blank = {""}
  TooLong = {"long"}
  WebUrl = {"url"}
  MaxUrls = 2
  MaxAttempts = 2
  Attachment = {"first", "copy", "other", "virus"}
  Bytes <- BytesOf
  DeclaredType <- DeclaredAs
  Magic <- MagicOf
  Oversized = {}
  Infected = {"v"}
  FailClosed = FALSE
  Intent = {"summarize"}
  Research = {"r1", "r2"}
  Memory = {"encode"}
  MaxTries = 2
  MaxEdits = 2
  Run = {"a"}
  Event = {"e1", "e2", "beat"}
  About <- EventAbout
  MaxRetries = 2
  ObjectContent = {"x", "y"}
  Textless = {"y"}
  Raw = "raw"
  Cancelled = "cancelled"
  WebRetries = 1
  MapsAttempts = 2
  MaxBlocks = 3
  MaxBlock = 3
  MaxTotal = 6
  MaxResults = 2
  MaxRoutes = 1
  MaxHours = 2
  Question <- Questions
  Body <- Bodies
  RawInput <- RawInputs
  Times <- TimesInOrder
  Mails = {"m1", "m2"}
  Urls = {"url"}
  Slashed = {"slash"}
  Polls = {"poll"}
  Unsafe = {"unsafe"}
  MaxItems = 3
  SearchEndpoint <- SearchSetting
  WeatherEndpoint <- WeatherSetting
  Account = {"a", "b"}
  None = None
  Scope = {"gmail", "write"}
  State = {s1, s2}
  Runner = {"p"}
  MaxGrants = 2
  MaxConnections = 2
SYMMETRY Symmetric
INVARIANTS IngressSound OwnContentOnly FindingReturnsOnce JobsSound AccountSound ApprovedInputsStand WebReadsSound
PROPERTIES AnswersStand EvidenceIsCurrent ConnectsOnlyByConsent RefreshStaysInItsConnection BlockingErrorsStick
CHECK_DEADLOCK FALSE
