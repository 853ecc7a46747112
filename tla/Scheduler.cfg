\* Three tasks, one with hard timing, one-shot or periodic; two of them retrigger
\* and deregister each other while they run.
SPECIFICATION FairSpec
CONSTANTS
  soft = soft
  hard = hard
  extra = extra
  HardTiming = {hard}
  Delay = {0}
  NoTask = NoTask
  Task = {soft, hard, extra}
  Period <- WithOneShot
  TriggerOffset = {0}
  CallsOn <- Meddling
  MaxTime = 3
INVARIANTS QueueHoldsRegistered QueueSorted
PROPERTIES NeverSleepsPastATask HardTimingKeepsGrid DueTaskRuns
