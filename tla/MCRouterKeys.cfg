SPECIFICATION Spec
CONSTANTS
  None = None
  Ctrls <- MCCtrls
  Alts <- MCAlts
  Shifts <- MCShifts
  Supers <- MCSupers
  FkeySlot <- ThreeSlots
  Macros <- NoMacros
  PlainKeys = {"f1", "f2", "f3"}
  MediaKeys = {}
  ButtonBit <- NoButtons
  LeftAlt = "lalt"
  LeftGui = "lmeta"
  Rollover = 1
  Chunk = 127
  Devices = {"kbd"}
  KeysOf <- OneKeyboard
  Movers = {}
  Deltas <- NoSteps
  LocalSlot = 1
  MacSlots = {3}
  FrameCap = 1
  CmdCap = 0
  HookCap = 0
  RepaintCap = 1
  HoldTicks = 0
  SinkMayFail = FALSE
  MaxMotion = 0
CONSTRAINT NothingExcused
INVARIANTS
  TypeOK
  LocalIsIdle
  InactiveHostsReleased
  ActiveHostShowsTracked
PROPERTIES
  HotkeySpec
