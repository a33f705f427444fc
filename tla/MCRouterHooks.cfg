SPECIFICATION Spec
CONSTANTS
  None = None
  Ctrls <- MCCtrls
  Alts <- MCAlts
  Shifts <- MCShifts
  Supers <- MCSupers
  FkeySlot <- TwoSlots
  Macros <- OneMacro
  PlainKeys = {}
  MediaKeys = {}
  ButtonBit <- NoButtons
  LeftAlt = "lalt"
  LeftGui = "lmeta"
  Rollover = 6
  Chunk = 127
  Devices = {"kbd"}
  KeysOf <- HookKeyboard
  Movers = {}
  Deltas <- NoSteps
  LocalSlot = 1
  MacSlots = {}
  FrameCap = 1
  CmdCap = 0
  HookCap = 1
  RepaintCap = 0
  HoldTicks = 0
  SinkMayFail = TRUE
  MaxMotion = 0
CONSTRAINT FewLosses
INVARIANT
  LocalReleased
PROPERTIES
  HooksForActiveSlot
