SPECIFICATION Spec
CONSTANTS
  gsm = gsm
  fly = fly
  event = event
  x = x
  y = y
  Task = {gsm, fly}
  Idle = idle
  Started = {gsm}
  Priority <- Equal
  Queue = {event}
  TickModulus = 4
  OverflowModulus = 2
  Item = {x, y}
  Length <- One
  Calls <- Asks
  Delays <- Pauses
  Suspends <- Suspending
  PostsTo = {event}
  Posted = {y}
  PostsInUnlock = TRUE
  MaxMissed = 1
INVARIANTS NoLostWakeup
