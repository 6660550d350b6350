CONSTANTS
  zygote = zygote  media = media
  p1 = p1  p2 = p2  p3 = p3
  NoPid = NoPid
  Svc = {zygote, media}
  Pids = {p1, p2, p3}
  RcFlags <- PlainRc
  ClassOf <- PlainClass
  OnRestart <- PlainOnRestart
  Keyed = {}
  Adbd = {}
  Debuggable = FALSE
  HaveConsole = TRUE
  Faults = {"missing"}
  Scripts = {"start", "stop", "restart", "class_reset"}
  Messages = {"start", "stop"}
  BootCommands = 1
  RestartDelay = 1
  CrashWindow = 1
  CrashThreshold = 1
SPECIFICATION MixSpec
SYMMETRY PidSymmetry
INVARIANTS
  MixProcessTable MixStopHolds MixNoLostExit MixNeverDropped MixNotifiedState
  MixRecoveryJustified
PROPERTY MixImplementsSupervisor
