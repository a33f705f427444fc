SPECIFICATION Spec
CONSTANTS
  None = None
  Ctrls <- MCCtrls
  Alts <- MCAlts
  Shifts <- MCShifts
  Supers <- MCSupers
  FkeySlot <- TwoSlots
  Macros <- NoMacros
  PlainKeys = {"f1", "f2", "f3"}
  MediaKeys = {}
  ButtonBit <- NoButtons
  LeftAlt = "lalt"
  LeftGui = "lmeta"
  Rollover = 6
  Chunk = 127
  Devices = {"kbd"}
  KeysOf <- LocalKeyboard
  Movers = {}
  Deltas <- NoSteps
  LocalSlot = 1
  MacSlots = {2}
  FrameCap = 2
  CmdCap = 1
  HookCap = 0
  RepaintCap = 0
  HoldTicks = 0
  SinkMayFail = FALSE
  MaxMotion = 0
PROPERTY
  UnboundComboPairs
