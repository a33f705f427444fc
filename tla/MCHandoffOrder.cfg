SPECIFICATION Spec
CONSTANTS
  Hosts = {A}
  Local = Local
  Reports = {kbd}
  Mouse = mouse
  Pressed = {down}
  Idle = idle
  FrameCap = 3
  BufferCap = 2
  Setups <- Reliable
INVARIANTS HeldInOrder
