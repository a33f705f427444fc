SPECIFICATION Spec
CONSTANTS
  None = None
  Devices = {"kbd", "kbd2"}
  KeysOf <- TwoKeyboards
  Ctrls <- MCCtrls
  Alts <- MCAlts
  Shifts <- MCShifts
  Supers <- MCSupers
  FkeySlot <- MCFkeySlot
  Macros <- MCMacros
INVARIANTS
  TypeOK
  SwallowedAreHeld
  NoStuckKeys
  NoPhantomKeys
