SPECIFICATION SafetySpec
CONSTANTS
  MaxGen = 2
  StartNow = FALSE
  Notify = TRUE
  Payloads <- ReadyOnly
  Helpers = {}
  Inputs = {"traffic", "control"}
  NotifyQMax = 1
  StartReqCap = 1
  CmdExitCap = 1
  WatchdogCap = 1
INVARIANTS OneBackend WaitersReleased  CleanExitReaps
 
