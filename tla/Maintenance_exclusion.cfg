SPECIFICATION RunsFairSpec
CONSTANTS
  publish = publish
  purge = purge
  Jobs <- BothJobs
  Runners = {r1, r2}
  Requests <- AllRequests
  RunLeaseTicks = 3
  CooldownTicks = 3
  SecondTicks = 2
  MaxSkew = 1
  MaxRunnerCrashes = 2
INVARIANT OneRunnerPerJob
PROPERTY ExecutionsAreSpaced
PROPERTY DueJobsAreExecuted
