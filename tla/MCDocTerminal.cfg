SPECIFICATION Spec
CONSTANTS
  Clients = {c1, c2}
  Editors = {c1, c2}
  Runs = {r1}
  NoRun = none
  Slots = {exec}
  Channels = {email}
  Configured <- AllPairs
  Permitted <- AllPairs
  ManualSlots = {}
  MissionSlots = {}
  MissionChannels = {email}
  Reviewers = {"orchestrator"}
  Grades = {"pass"}
  Patchable = {"mission"}
  GivenPacks <- Elsewhere
  RenderOutcomes = {"pass"}
  MaxVersion = 4
  MaxPacks = 2
  MaxOverlaps = 4
PROPERTIES TerminalIsFinal
CHECK_DEADLOCK FALSE
