SPECIFICATION FairSpec
CONSTANTS
  None = None
  Ctrls <- MCCtrls
  Alts <- MCAlts
  Shifts <- MCShifts
  Supers <- MCSupers
  FkeySlot <- ThreeSlots
  Macros <- NoMacros
  PlainKeys = {}
  MediaKeys = {}
  ButtonBit <- NoButtons
  LeftAlt = "lalt"
  LeftGui = "lmeta"
  Rollover = 6
  Chunk = 127
  Devices = {"kbd", "kbd2"}
  KeysOf <- TwoKeyboards
  Movers = {}
  Deltas <- NoSteps
  LocalSlot = 1
  MacSlots = {}
  FrameCap = 2
  CmdCap = 1
  HookCap = 0
  RepaintCap = 0
  HoldTicks = 2
  SinkMayFail = FALSE
  MaxMotion = 0
CONSTRAINT NoneBound
PROPERTIES
  RepairOnlyAfterHold
  HoldFires
