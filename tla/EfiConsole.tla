----------------------------- MODULE EfiConsole -----------------------------
(***************************************************************************)
(* Console input of the EFI loader (lib/efi_loader/efi_console.c) on top   *)
(* of the event services.  A key goes from the input device (pressed) to   *)
(* a one-key buffer (available); the event wait_for_key tells applications *)
(* that it is there.  Nobody is interrupted by a key: it is looked for by  *)
(* the notification functions of wait_for_key and of a periodic timer, and *)
(* by ReadKeyStroke().                                                     *)
(***************************************************************************)
EXTENDS EfiEvents

CONSTANTS wait_for_key, timer_event

\* efi_console_register()
ASSUME ConsoleAssumption ==
  /\ Registration = <<wait_for_key, timer_event>>
  /\ TypeOf[wait_for_key] = {"NOTIFY_WAIT"} /\ TypeOf[timer_event] = {"TIMER", "NOTIFY_SIGNAL"}
  /\ \A e \in Internal : NotifyTpl[e] = TPL_CALLBACK /\ GroupOf[e] = NoGroup

VARIABLES pressed,      \* the input device has a key
          available     \* key_available

con == <<pressed, available>>
cvars == <<vars, con>>

ConsoleInit == Init /\ pressed = FALSE /\ available = FALSE

\* Someone types.
KeyPressed ==
  /\ boottime /\ wait_for_key \in Live
  /\ ~pressed /\ pressed' = TRUE
  /\ UNCHANGED <<vars, available>>

SignalKey(rest) == efi_signal_event(wait_for_key, signaled, group, rest)

\* Mutated form: a key that is in the buffer already is not signaled again
StillAvailable_silent(rest) == stack' = rest /\ UNCHANGED <<signaled, event_queue>>

\* What efi_cin_check() does with a key that is in the buffer already
StillAvailable(rest) == SignalKey(rest)

\* A key may be part of a sequence that is read and ignored.
efi_cin_check(rest) ==
  \/ available /\ StillAvailable(rest) /\ UNCHANGED con
  \/ /\ ~available /\ pressed
     /\ pressed' = FALSE
     /\ \/ available' = TRUE /\ SignalKey(rest)
        \/ available' = FALSE /\ stack' = rest /\ UNCHANGED <<signaled, event_queue>>
  \/ /\ ~available /\ ~pressed
     /\ stack' = rest
     /\ UNCHANGED <<signaled, event_queue, con>>

\* efi_key_notify() and efi_console_timer_notify()
ConsoleNotify ==
  /\ IsTop("notify") /\ Top.ev \in Internal
  /\ efi_cin_check(<<Code("notified", Top.ev, Top.base, Top.raised)>> \o Tail(stack))
  /\ UNCHANGED <<prog, events, group, trigger, tpl, timers_enabled, boottime, calls, untold>>

efi_cin_read_key_stroke ==
  /\ Caller /\ wait_for_key \in Live
  /\ stack' = <<TimerCheck, [op |-> "read"]>> \o stack
  /\ UNCHANGED <<prog, events, group, signaled, trigger, event_queue, tpl,
                 timers_enabled, boottime, untold, con>>

ReadChecks ==
  /\ IsTop("read")
  /\ efi_cin_check(<<[op |-> "reading"]>> \o Tail(stack))
  /\ UNCHANGED <<prog, events, group, trigger, tpl, timers_enabled, boottime, calls, untold>>

\* Mutated form: taking the key leaves the event signaled
KeyTaken_kept == signaled

\* The signaled state once the key has been taken
KeyTaken == signaled \ {wait_for_key}

ReadReturns ==
  /\ IsTop("reading")
  /\ available' = FALSE
  /\ signaled' = IF available THEN KeyTaken ELSE signaled
  /\ stack' = Tail(stack)
  /\ UNCHANGED <<prog, events, group, trigger, event_queue, tpl, timers_enabled,
                 boottime, calls, untold, pressed>>

efi_cin_reset ==
  /\ Caller /\ wait_for_key \in Live
  /\ pressed' = FALSE /\ available' = FALSE
  /\ UNCHANGED <<prog, events, group, signaled, trigger, event_queue, tpl,
                 timers_enabled, boottime, stack, untold>>

ConsoleStart == Reset /\ pressed' = FALSE /\ available' = FALSE

ConsoleInternals ==
  \/ Internals /\ UNCHANGED con
  \/ ConsoleNotify
  \/ ReadChecks
  \/ ReadReturns

ConsoleNext ==
  \/ (Service \/ NotifyReturns) /\ UNCHANGED con
  \/ ConsoleInternals
  \/ efi_cin_read_key_stroke
  \/ efi_cin_reset
  \/ KeyPressed
  \/ ConsoleStart

\* As in EfiEvents
ConsoleFairness ==
  /\ WF_cvars(ConsoleInternals)
  /\ WF_cvars(NotifyReturns /\ UNCHANGED con)
  /\ \A e \in Timers : SF_cvars(TimerFires(e) /\ UNCHANGED con)

ConsoleSpec == ConsoleInit /\ [][ConsoleNext]_cvars /\ ConsoleFairness

-----------------------------------------------------------------------------
WaitFor(e) == \E i \in DOMAIN stack : stack[i].op = "wait" /\ e \in ToSet(stack[i].evs)

\* Who waits for a key gets it: a wait for wait_for_key does not go on for ever
\* while there is a key, whether it was typed before or during the wait, and
\* also if an earlier wait was told of it and it was not read (efi_cin_check()).
KeyWaitEnds == ~<>[](WaitFor(wait_for_key) /\ (pressed \/ available))

\* wait_for_key is signaled only while there is a key, unless the application
\* empties the buffer, which leaves the event as it is: what was queued or
\* signaled on behalf of a key is undone when the key is taken
\* (efi_cin_read_key_stroke()).
Spurious == wait_for_key \in signaled /\ ~available
NoSpuriousWake == [][Spurious' => Spurious \/ efi_cin_reset]_cvars
=============================================================================
