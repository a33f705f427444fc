SPECIFICATION Spec
CONSTANTS
  None = None
  Ctrls <- MCCtrls
  Alts <- MCAlts
  Shifts <- MCShifts
  Supers <- MCSupers
  FkeySlot <- TwoSlots
  Macros <- NoMacros
  PlainKeys = {}
  MediaKeys = {}
  ButtonBit <- OneButton
  LeftAlt = "lalt"
  LeftGui = "lmeta"
  Rollover = 6
  Chunk = 127
  Devices = {"kbd", "mouse"}
  KeysOf <- KeyboardAndMouse
  Movers = {}
  Deltas <- NoSteps
  LocalSlot = 1
  MacSlots = {}
  FrameCap = 4
  CmdCap = 0
  HookCap = 0
  RepaintCap = 0
  HoldTicks = 0
  SinkMayFail = FALSE
  MaxMotion = 0
INVARIANT
  LeavingReleases
