SPECIFICATION Spec
CONSTANTS
  sh = sh
  job = job
  c1 = c1
  Users = {sh, job}
  Slot <- Table
  Parent <- Family
  Events = {c1}
  Signals = {"HUP", "KILL", "TSTP", "CONT", "CHLD"}
  Sent <- ToJob
  Caught <- NoneOf
  Held <- NoneOf
  Ignored <- NoneOf
  Untraced = TRUE
  Swapping = TRUE
  SCHED = SCHED
  PROC1 = PROC1
  NONE = NONE
INVARIANTS
  NoPanic
  QueuesSound
  NothingMissed
  NoneForgotten
PROPERTIES
  StaysStopped
CHECK_DEADLOCK FALSE
