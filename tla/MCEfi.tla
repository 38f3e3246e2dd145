-------------------------------- MODULE MCEfi -------------------------------
(* Instances of EfiConsole, with the event services, for TLC. *)
EXTENDS EfiConsole

CONSTANTS alarm, tick, low, high, exit, exit_member, before

AllEvents == {wait_for_key, timer_event, alarm, tick, low, high, exit, exit_member, before}

Types == [e \in AllEvents |->
  CASE e = wait_for_key -> {"NOTIFY_WAIT"}
    [] e \in {timer_event, tick} -> {"TIMER", "NOTIFY_SIGNAL"}
    [] e = alarm -> {"TIMER"}
    [] e = exit -> {"NOTIFY_SIGNAL", "EXIT"}
    [] OTHER -> {"NOTIFY_SIGNAL"}]

Levels == [e \in AllEvents |->
  CASE e = alarm -> TPL_APPLICATION
    [] e \in {high, tick, exit_member} -> TPL_NOTIFY
    [] OTHER -> TPL_CALLBACK]

GroupsOf == [e \in AllEvents |->
  CASE e \in {low, high} -> "other"
    [] e = exit_member -> "exit_boot_services"
    [] e = before -> "before_exit_boot_services"
    [] OTHER -> NoGroup]

\* The alarm is no event to be notified of, and yet has a function.
Functions == AllEvents

Console == <<wait_for_key, timer_event>>

\* An application that waits for keys and a timer; one with a function of a
\* higher level than the console's; a group of two levels with a timer; and the
\* groups of ExitBootServices().
Apps == {{wait_for_key, timer_event, alarm}, {wait_for_key, timer_event, high},
         {low, high, tick}, {exit, exit_member, before}}
=============================================================================
