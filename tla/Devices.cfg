SPECIFICATION Spec
CONSTANTS
  MaxAttempts = 2
  MaxNet = 2
  MaxInputs = 1
  MaxBreaks = 1
  Capacity = 1
  MaxRows = 2
  MaxJoins = 2
  MaxDevices = 2
  PhoneSockets = {s1}
  MaxMessages = 2
  NoController = NoController
  Codes = {a, b}
  WrongCode = WrongCode
  NoCode = NoCode
  Seats = 1
  MaxPages = 2
  MaxCalls = 2
  MaxTyping = 1
  Fingers = {f1, f2, f3}
  Steps = 2
  Langs = {en, ar}
  English = en
  NoLang = NoLang
  MaxPreviews = 2
  Players = {p, q, r}
  Viewer = p
  Found = {p, r}
  PageSize = 1
  Events = {d, e}
  NoEvent = NoEvent
  MaxRequests = 2
INVARIANTS
  NoFalseFate
  LockedInThisRound
  CatchesUp
  SeatsAndNumbers
  StaleDevicePowerless
  ConfirmedIsSaved
  TapPlaces
  ChoiceKept
  PageHasRows
  OneDesk
CHECK_DEADLOCK FALSE
