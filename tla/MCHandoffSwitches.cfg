SPECIFICATION Spec
CONSTANTS
  Hosts = {A, B}
  Local = Local
  Reports = {kbd}
  Mouse = mouse
  Pressed = {down}
  Idle = idle
  FrameCap = 2
  BufferCap = 2
  Setups <- BothModes
INVARIANTS NoStuckKey CaughtUp HeldForActive
PROPERTIES ReleasedBeforeDropped
SYMMETRY HostSymmetry
CONSTRAINT FewAtOnce
