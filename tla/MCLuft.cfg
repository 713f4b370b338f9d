SPECIFICATION Spec
CONSTANTS
  AppHorizon = 2
  MaxStepsPerFrame = 1
  MaxSimTimes = {0, 2}
  TelemetryInterval = 1
  MaxCommands = 2
  Peers = {n1, n2}
  MaxClients = 1
  HeaderUnits = 2
  MaxMessage = 3
  FrameLength = 2
  Messages <- MCMessages
  MaxSent = 2
  MaxPublished = 2
INVARIANTS TelemetryWhole CommandsInOrder
PROPERTIES AppExits CommandsArrive
CHECK_DEADLOCK FALSE
