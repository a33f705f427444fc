SPECIFICATION Spec
CONSTANTS
  None = None
  Ctrls <- MCCtrls
  Alts <- MCAlts
  Shifts <- MCShifts
  Supers <- MCSupers
  FkeySlot <- ThreeSlots
  Macros <- NoMacros
  PlainKeys = {}
  MediaKeys = {"mute", "stop"}
  ButtonBit <- OneButton
  LeftAlt = "lalt"
  LeftGui = "lmeta"
  Rollover = 6
  Chunk = 1
  Devices = {"kbd", "mouse"}
  KeysOf <- ReportDesk
  Movers = {"mouse"}
  Deltas <- Steps
  LocalSlot = 1
  MacSlots = {3}
  FrameCap = 2
  CmdCap = 0
  HookCap = 0
  RepaintCap = 0
  HoldTicks = 0
  SinkMayFail = FALSE
  MaxMotion = 2
CONSTRAINT HostActive
INVARIANTS
  ActiveHostShowsTracked
  HandsOff
  MotionKept
  MotionScheduled
