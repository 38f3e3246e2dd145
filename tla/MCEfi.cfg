\* Four applications whose notification functions may call two services each
\* time the application calls one.
SPECIFICATION ConsoleSpec
CONSTANTS
  wait_for_key = wait_for_key
  timer_event = timer_event
  alarm = alarm
  tick = tick
  low = low
  high = high
  exit = exit
  exit_member = exit_member
  before = before
  NoEvent = NoEvent
  NoGroup = NoGroup
  Events <- AllEvents
  TypeOf <- Types
  NotifyTpl <- Levels
  WithFunction <- Functions
  GroupOf <- GroupsOf
  Registration <- Console
  Programs <- Apps
  MaxCalls = 2
  MaxRaised = 1
INVARIANTS NoneHeldBack LevelsNest ExitToldAll
PROPERTIES SignalsAreServed NoSpuriousWake PeriodicIsServed KeyWaitEnds
