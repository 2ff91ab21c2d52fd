SPECIFICATION LiveSpec
CONSTANTS
  MaxGen = 1
  StartNow = FALSE
  Notify = TRUE
  Payloads <- Handover
  Helpers = {1}
  Inputs = {"control", "sigterm"}
  NotifyQMax = 1
  StartReqCap = 1
  CmdExitCap = 1
  WatchdogCap = 1
PROPERTIES   PlainTrafficServed
