SPECIFICATION Spec
CONSTANTS
  Hosts = {A}
  Local = Local
  Reports = {kbd, mouse}
  Mouse = mouse
  Pressed = {down}
  Idle = idle
  FrameCap = 1
  BufferCap = 1
  Setups <- Unreliable
INVARIANTS TypeOK NoStuckKey CaughtUp
CONSTRAINT FewAtOnce
