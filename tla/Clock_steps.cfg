SPECIFICATION Spec
CONSTANTS
  Width = 32
  KeepAlive = 6
  MaxTurn = 1
  Patience = 4
  Periods = {0, 4}
  Shifts <- StepsOfTheClock
  MaxSteps = 2
  MaxBreaks = 1
INVARIANTS
  SilenceNoticed
  FalseAlarms
  BusyNeverPings
