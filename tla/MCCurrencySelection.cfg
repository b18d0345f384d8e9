SPECIFICATION Spec
CONSTANTS
  Lists <- ModelLists
  MaxCurrencies = 2
  Modes = {"MDC", "SDC"}
  MaxClicks = 2
  FirstMode = "MDC"
  MaxEvents = 1
  MaxInFlight = 2
INVARIANTS
  ListSound
  IndexAgrees
  SelectionTrue
PROPERTY SelectionEnds
\* The user and the controller may come to an end.
CHECK_DEADLOCK FALSE
