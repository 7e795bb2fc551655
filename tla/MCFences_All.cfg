SPECIFICATION LiveSpec
CONSTANTS
  c0 = c0
  c1 = c1
  none = none
  Contexts <- Two
  Ctx0 = c0
  NoContext = none
  MaxFences = 3
INVARIANTS OwnersLive Accounted SignalReachesFd
PROPERTIES Retirement AnswerComes
