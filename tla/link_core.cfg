SPECIFICATION Spec
CONSTANTS
  Ids = {1, 2, 3}
  Levels = {0, 1}
  Default = 0
  None = None
  MaxBackoff = 2
  MaxChanges = 1
  MaxSlides = 1
  MaxFaults = 1
INVARIANTS
  OneWayToTheDaemon
  AnswerIsOfItsCall
  QuietListIsCurrent
PROPERTIES
  EveryCallSettles
  BrightnessSettles
