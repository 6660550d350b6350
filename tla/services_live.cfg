CONSTANTS
  zygote = zygote  media = media
  p1 = p1  p2 = p2  p3 = p3
  NoPid = NoPid
  Svc = {zygote, media}
  Pids = {p1, p2}
  RcFlags <- PlainRc
  ClassOf <- PlainClass
  OnRestart <- PlainOnRestart
  Keyed = {}
  Adbd = {}
  Debuggable = FALSE
  HaveConsole = TRUE
  Faults = {"missing"}
  Scripts = {"class_start", "stop", "restart"}
  Messages = {}
  BootCommands = 0
  RestartDelay = 1
  CrashWindow = 1
  CrashThreshold = 1
SPECIFICATION PlainSpec
PROPERTIES ComesBack NoEndlessWait
