CONSTANTS
  MaxQueueSize = 10
  MaxPlan = 5
  MaxPasses = 3
  MaxInfraRed = 2
  MaxDue = 2
SPECIFICATION QueueSpec
INVARIANTS QueueAssertions PlanDiscardsNothing
PROPERTIES RulesRun QueueIsFlushed
