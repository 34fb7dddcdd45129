\* The keyboard submits the form while the status is THROTTLED.
CONSTANTS
  HasHandler = FALSE
  Death = "never"
  MaxTasks = 3
  MaxStops = 2
SPECIFICATION Spec
PROPERTY NoSubmissionWhileThrottled
CHECK_DEADLOCK FALSE
