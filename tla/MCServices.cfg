SPECIFICATION Spec
CONSTANTS
  Keyboard = Keyboard
  Mouse = Mouse
  Devices = {Keyboard, Mouse}
  PerLed = {Keyboard}
  Dimmable = {Keyboard}
  Slots <- MCSlots
  Brightness <- MCBrightness
  Full = 2
  OutStep = 1
  InStep = 2
  Flashes = 3
  EventCap = 2
  MaxInFlight = 3
  HookCap = 2
  CommandsOf <- MCCommandsOf
  Hosts = {h}
  NoHost = NoHost
  Setups <- MCSetups
INVARIANTS
  LightsShown
  BlinksWhileOpen
PROPERTIES
  ComesToRest
  Reconnects
  HooksResume
CHECK_DEADLOCK FALSE
