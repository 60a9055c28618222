CONSTANTS
  Disks = {d1, d2}
  None = None
  MaxPlugs = 2
  Items = {i1, i2, i3, i4}
  Shown = 2
  Groups = {g1}
  Luns = 3
  MaxFrames = 2
  MaxSwitches = 2
  Areas = {top, bottom}
  MaxDraws = 1
  MaxTurns = 2
  Controllers = {c1, c2}
  Virtual = {c2}
SPECIFICATION Spec
INVARIANTS ChoiceIsTrue LeftSafely NothingRemains NoTearing ScreenIsTrue
CHECK_DEADLOCK FALSE
