CONSTANTS
  Paths = {p1, p2}
  Movable = {p1}
  Backlog = 1
  MaxPlugs = 3
  Width = 2
  MaxEvent = 2
  MaxInput = 3
  Events = {"led", "rel", "wheel", "abs", "finger", "scroll", "button", "tap", "modifier", "letter"}
SPECIFICATION Spec
INVARIANTS PresentIsPolled InputIsShown
PROPERTIES InputArrives
CHECK_DEADLOCK FALSE
