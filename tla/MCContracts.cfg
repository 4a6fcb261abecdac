SPECIFICATION Spec
CONSTANTS
  Clients = {c1, c2}
  Editors = {c1}
  Runs = {r1}
  NoRun = none
  Slots = {exec}
  Channels = {email}
  Configured <- AllPairs
  Permitted <- AllPairs
  ManualSlots = {}
  MissionSlots = {}
  MissionChannels = {email}
  Reviewers = {"orchestrator"}
  Grades = {"pass"}
  Patchable = {}
  GivenPacks <- Elsewhere
  RenderOutcomes = {"pass"}
  MaxVersion = 40
  MaxPacks = 2
  MaxOverlaps = 1
VIEW Shape
INVARIANTS TypeOK ReviewHasAutoVerdict DeliveredWasRendered DispatchedWasSent SentOnce ClosedWasSent
PROPERTIES KeepsPromise
CHECK_DEADLOCK FALSE
