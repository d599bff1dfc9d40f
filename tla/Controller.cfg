SPECIFICATION Spec
CONSTANTS
  c1 = c1
  c2 = c2
  mouse = mouse
  Devices = {c1, c2, mouse}
  Gamepads = {c1, c2}
  Idle = Idle
  Reports = {Idle, Held}
  NoPad = NoPad
SYMMETRY Symmetry
INVARIANTS TypeOK NoPhantomController OpenUnlessUpdating
PROPERTY NobodyJoinsAnUpdate
