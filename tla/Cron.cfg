SPECIFICATION Spec
CONSTANTS
  Jobs <- MCJobs
  OneShot <- MCOneShot
  NewJobs <- MCNewJobs
  Tasks <- MCTasks
  NoJob = NoJob
  NoTask = NoTask
  MaxAttempts = 1
  MaxOps = 2
  MaxCrashes = 1
INVARIANTS
  TypeOK
  ScheduledRunsDisjoint
  SchedulerAlive
  AnswersAreDurable
PROPERTIES
  NeverStartsRetired
  NoSlotSkipped
  DueJobRuns
CHECK_DEADLOCK FALSE
