------------------------------ MODULE EfiEvents -----------------------------
(***************************************************************************)
(* The event, timer and task priority services of the EFI loader           *)
(* (lib/efi_loader/efi_boottime.c).  There are no interrupts: timers are   *)
(* looked at, and notification functions run, inside calls of services.    *)
(* Notification functions may call services themselves, so every list walk *)
(* and every check can be overtaken.  `stack' holds what is in progress,   *)
(* the innermost first; each action runs the code up to the next call of a *)
(* notification function.                                                  *)
(***************************************************************************)
EXTENDS Integers, Sequences, FiniteSets, SequencesExt

CONSTANTS Events,       \* the events that may be created
          TypeOf,       \* the bits of an event's type
          NotifyTpl,    \* its notify_tpl
          WithFunction, \* the events created with a notification function
          GroupOf,      \* the group it is created in, or NoGroup
          Programs,     \* the sets of events that an application may use
          Registration, \* U-Boot's own events, in the order it creates them
          NoEvent, NoGroup,
          MaxRaised,    \* bound: levels that code raises and has yet to restore
          MaxCalls      \* bound: services that notification functions call
                        \* while the application waits for one of its own

TPL_APPLICATION == 4
TPL_CALLBACK == 8
TPL_NOTIFY == 16
TPL_HIGH_LEVEL == 31
TplLevels == {TPL_APPLICATION, TPL_CALLBACK, TPL_NOTIFY, TPL_HIGH_LEVEL}

Internal == ToSet(Registration)
Groups == {"before_exit_boot_services", "exit_boot_services", "other"}
Triggers == {"stop", "periodic", "relative"}

ASSUME EventsAssumption ==
  /\ NoEvent \notin Events /\ NoGroup \notin Groups
  /\ TypeOf \in [Events -> SUBSET {"TIMER", "NOTIFY_WAIT", "NOTIFY_SIGNAL", "EXIT"}]
  /\ NotifyTpl \in [Events -> TplLevels] /\ WithFunction \subseteq Events
  /\ GroupOf \in [Events -> Groups \cup {NoGroup}]
  /\ Registration \in Seq(Events)
  /\ \A p \in Programs : p \subseteq Events /\ p \cap Internal \in {{}, Internal}
ASSUME BoundAssumption == MaxCalls \in Nat /\ MaxRaised \in Nat
\* What efi_create_event() and efi_create_event_ex() demand.  An event of another
\* type may have a notification function too, and of any level: one of
\* TPL_APPLICATION is queued and never called.
ASSUME CreateAssumption == \A e \in Events :
  /\ TypeOf[e] \cap {"NOTIFY_WAIT", "NOTIFY_SIGNAL"} # {} =>
       e \in WithFunction /\ NotifyTpl[e] \in {TPL_CALLBACK, TPL_NOTIFY}
  /\ "EXIT" \in TypeOf[e] => TypeOf[e] = {"NOTIFY_SIGNAL", "EXIT"} /\ GroupOf[e] = NoGroup

VARIABLES prog,            \* the events this application uses
          events,          \* the list of existing events
          group,           \* group[e] of an existing event
          signaled,        \* events with is_signaled
          trigger,         \* trigger_type of each event's timer
          event_queue,     \* notification functions to be called
          tpl,             \* the task priority level
          timers_enabled,
          boottime,        \* boot services are available
          stack,           \* the calls in progress, innermost first
          calls,           \* services called by notification functions
          untold           \* history: the events that ExitBootServices() has
                           \* yet to notify

vars == <<prog, events, group, signaled, trigger, event_queue, tpl,
          timers_enabled, boottime, stack, calls, untold>>

Live == ToSet(events)
Timers == {e \in Events : "TIMER" \in TypeOf[e]}
HasFunction(e) == e \in WithFunction
Callable(e) == HasFunction(e) /\ NotifyTpl[e] > TPL_APPLICATION
Top == stack[1]
IsTop(op) == stack # <<>> /\ Top.op = op

Process == [op |-> "process"]
\* A walk of the list of events, which has come to the event `at'
TimerWalk(at) == [op |-> "timer", at |-> at]
TimerCheck == TimerWalk(NoEvent)
GroupWalk(e, at) == [op |-> "group", ev |-> e, at |-> at]
Waiting(evs, i) == [op |-> "wait", evs |-> evs, i |-> i]
\* Code that may call services: the application, or a notification function,
\* which starts at level `base' of the code it interrupts.  It has raised the
\* level from those in `raised'.
Code(op, e, base, raised) == [op |-> op, ev |-> e, base |-> base, raised |-> raised]
App == Code("app", NoEvent, TPL_APPLICATION, <<>>)
Notify(e, base) == Code("notify", e, base, <<>>)

\* The list has e after the event `at'.
After(at, e) ==
  at = NoEvent \/ \E i, j \in DOMAIN events : i < j /\ events[i] = at /\ events[j] = e
\* The events of S that a walk of the list has yet to come to
Ahead(at, S) == {e \in Live \cap S : After(at, e)}
FirstOf(S) == events[SelectInSeq(events, LAMBDA e : e \in S)]
Members(grp, g) == {e \in Live : grp[e] = g}

-----------------------------------------------------------------------------
(* Queueing and signaling: queue and stack after the call, with the frames *)
(* `rest' to go on with                                                    *)

\* Mutated form: new events go to the end of the queue
Inserted_last(e) == Append(event_queue, e)

\* Sorted by decreasing level, in the order of arrival on the same level
Inserted(e) ==
  LET at == SelectInSeq(event_queue, LAMBDA i : NotifyTpl[i] < NotifyTpl[e])
  IN  IF at = 0 THEN Append(event_queue, e) ELSE InsertAt(event_queue, at, e)

efi_queue_event(e, rest) ==
  IF ~HasFunction(e) \/ e \in ToSet(event_queue)
  THEN event_queue' = event_queue /\ stack' = rest
  ELSE event_queue' = Inserted(e) /\ stack' = <<Process>> \o rest

efi_signal_event(e, sig, grp, rest) ==
  \/ /\ e \in sig
     /\ signaled' = sig /\ stack' = rest
     /\ UNCHANGED event_queue
  \/ /\ e \notin sig /\ grp[e] # NoGroup
     /\ signaled' = sig \cup Members(grp, grp[e])
     /\ stack' = <<GroupWalk(e, NoEvent)>> \o rest
     /\ UNCHANGED event_queue
  \/ /\ e \notin sig /\ grp[e] = NoGroup
     /\ signaled' = sig \cup {e}
     /\ efi_queue_event(e, rest)

\* The second loop of efi_signal_event()
GroupLoop ==
  /\ IsTop("group")
  /\ LET rest == Ahead(Top.at, Members(group, group[Top.ev]))
     IN  IF rest = {} THEN stack' = Tail(stack) /\ UNCHANGED event_queue
         ELSE LET e == FirstOf(rest)
              IN  efi_queue_event(e, <<GroupWalk(Top.ev, e)>> \o Tail(stack))
  /\ UNCHANGED <<prog, events, group, signaled, trigger, tpl, timers_enabled,
                 boottime, calls, untold>>

\* Mutated form: notification functions interrupt their own level
MayRun_same(e) == tpl <= NotifyTpl[e]

\* The level at which the queue may be served for e
MayRun(e) == tpl < NotifyTpl[e]

efi_process_event_queue ==
  /\ IsTop("process")
  /\ IF event_queue = <<>> \/ ~MayRun(Head(event_queue))
     THEN stack' = Tail(stack) /\ UNCHANGED <<event_queue, tpl, untold>>
     ELSE LET e == Head(event_queue)
          IN  /\ event_queue' = Tail(event_queue)
              /\ tpl' = NotifyTpl[e]
              /\ stack' = <<Notify(e, tpl)>> \o stack
              /\ untold' = untold \ {e}
  /\ UNCHANGED <<prog, events, group, signaled, trigger, timers_enabled, boottime, calls>>

\* Mutated form: a signal is never over
SignalOver_never(e) == {}

\* After the notification function: a signal is over for EVT_NOTIFY_SIGNAL only
SignalOver(e) == IF TypeOf[e] = {"NOTIFY_SIGNAL"} THEN {e} ELSE {}

NotifyReturns ==
  /\ \/ IsTop("notify") /\ Top.ev \notin Internal
     \/ IsTop("notified")
  /\ tpl' = Top.base
  /\ signaled' = signaled \ SignalOver(Top.ev)
  /\ stack' = Tail(stack)
  /\ UNCHANGED <<prog, events, group, trigger, event_queue, timers_enabled,
                 boottime, calls, untold>>

-----------------------------------------------------------------------------
(* efi_timer_check(): whether a timer that is set has elapsed when the walk *)
(* comes to it is up to the clock                                           *)

Running(e) == timers_enabled /\ "TIMER" \in TypeOf[e] /\ trigger[e] # "stop"

\* Mutated form: the event stays in the signaled state
SignalOff_kept(e) == signaled

\* The signaled state before a timer signals its event once more
SignalOff(e) == signaled \ {e}

AfterFiring(e) == IF trigger[e] = "relative" THEN "stop" ELSE trigger[e]

TimerFires(e) ==
  /\ IsTop("timer")
  /\ e \in Ahead(Top.at, {x \in Live : Running(x)})
  /\ trigger' = [trigger EXCEPT ![e] = AfterFiring(e)]
  /\ efi_signal_event(e, SignalOff(e), group, <<TimerWalk(e)>> \o Tail(stack))
  /\ UNCHANGED <<prog, events, group, tpl, timers_enabled, boottime, calls, untold>>

TimerCheckEnds ==
  /\ IsTop("timer")
  /\ stack' = <<Process>> \o Tail(stack)
  /\ UNCHANGED <<prog, events, group, signaled, trigger, event_queue, tpl,
                 timers_enabled, boottime, calls, untold>>

-----------------------------------------------------------------------------
(* The services *)

\* Code that calls a service is on top, and the call is counted.
Caller ==
  /\ boottime
  /\ \/ IsTop("app")
     \/ IsTop("notify") /\ Top.ev \notin Internal /\ calls < MaxCalls
  /\ calls' = IF IsTop("app") THEN 0 ELSE calls + 1

\* The events a frame uses again once notification functions have returned
Refers(f) ==
  CASE f.op \in {"notify", "notified", "checking"} -> {f.ev}
    [] f.op = "timer" -> {f.at}
    [] f.op = "group" -> {f.ev, f.at}
    [] f.op = "wait" -> ToSet(f.evs)
    [] OTHER -> {}
InUse == UNION {Refers(stack[i]) : i \in DOMAIN stack}

efi_create_event(e) ==
  /\ Caller
  /\ e \in prog \ Live
  /\ events' = Append(events, e)
  /\ group' = [group EXCEPT ![e] = GroupOf[e]]
  /\ trigger' = [trigger EXCEPT ![e] = "stop"]
  /\ UNCHANGED <<prog, signaled, event_queue, tpl, timers_enabled, boottime, stack, untold>>

\* The queue once e has been closed
QueueWithout(e) == RemoveFirst(event_queue, e)

\* Callers do not close an event that a call in progress goes on to use.
efi_close_event(e) ==
  /\ Caller
  /\ e \in Live \ (InUse \cup Internal)
  /\ events' = RemoveFirst(events, e)
  /\ event_queue' = QueueWithout(e)
  /\ signaled' = signaled \ {e}
  /\ group' = [group EXCEPT ![e] = NoGroup]
  /\ trigger' = [trigger EXCEPT ![e] = "stop"]
  /\ untold' = untold \ {e}
  /\ UNCHANGED <<prog, tpl, timers_enabled, boottime, stack>>

efi_signal_event_ext(e) ==
  /\ Caller
  /\ e \in Live \ Internal
  /\ efi_signal_event(e, signaled, group, stack)
  /\ UNCHANGED <<prog, events, group, trigger, tpl, timers_enabled, boottime, untold>>

efi_set_timer(e, type) ==
  /\ Caller
  /\ e \in Live \ Internal /\ "TIMER" \in TypeOf[e]
  /\ trigger' = [trigger EXCEPT ![e] = type]
  /\ signaled' = signaled \ {e}
  /\ UNCHANGED <<prog, events, group, event_queue, tpl, timers_enabled, boottime, stack, untold>>

efi_raise_tpl(new) ==
  /\ Caller
  /\ new >= tpl
  /\ Len(Top.raised) < MaxRaised
  /\ tpl' = new
  /\ stack' = <<Code(Top.op, Top.ev, Top.base, <<tpl>> \o Top.raised)>> \o Tail(stack)
  /\ UNCHANGED <<prog, events, group, signaled, trigger, event_queue,
                 timers_enabled, boottime, untold>>

efi_restore_tpl ==
  /\ Caller
  /\ Top.raised # <<>>
  /\ tpl' = Head(Top.raised)
  /\ stack' = <<TimerCheck, Code(Top.op, Top.ev, Top.base, Tail(Top.raised))>> \o Tail(stack)
  /\ UNCHANGED <<prog, events, group, signaled, trigger, event_queue,
                 timers_enabled, boottime, untold>>

\* CheckEvent: the timers first, then the event itself
efi_check_event(e) ==
  /\ Caller
  /\ e \in Live
  /\ stack' = <<TimerCheck, [op |-> "check", ev |-> e]>> \o stack
  /\ UNCHANGED <<prog, events, group, signaled, trigger, event_queue, tpl,
                 timers_enabled, boottime, untold>>

CheckQueues ==
  /\ IsTop("check")
  /\ LET e == Top.ev
     IN  IF e \notin Live \/ "NOTIFY_SIGNAL" \in TypeOf[e]
         THEN stack' = Tail(stack) /\ UNCHANGED event_queue
         ELSE LET rest == <<[op |-> "checking", ev |-> e]>> \o Tail(stack)
              IN  IF e \in signaled THEN stack' = rest /\ UNCHANGED event_queue
                  ELSE efi_queue_event(e, rest)
  /\ UNCHANGED <<prog, events, group, signaled, trigger, tpl, timers_enabled,
                 boottime, calls, untold>>

CheckReturns ==
  /\ IsTop("checking")
  /\ signaled' = signaled \ {Top.ev}
  /\ stack' = Tail(stack)
  /\ UNCHANGED <<prog, events, group, trigger, event_queue, tpl, timers_enabled,
                 boottime, calls, untold>>

\* WaitForEvent: each event's function is queued once, and then the events are
\* looked at in turn with timer checks in between.
efi_wait_for_event(evs) ==
  /\ Caller
  /\ tpl = TPL_APPLICATION
  /\ stack' = <<Waiting(evs, 1)>> \o stack
  /\ UNCHANGED <<prog, events, group, signaled, trigger, event_queue, tpl,
                 timers_enabled, boottime, untold>>

WaitQueues ==
  /\ IsTop("wait")
  /\ Top.i <= Len(Top.evs)
  /\ LET e == Top.evs[Top.i]
         rest == <<Waiting(Top.evs, Top.i + 1)>> \o Tail(stack)
     IN  IF TypeOf[e] = {} \/ "NOTIFY_SIGNAL" \in TypeOf[e]
         THEN stack' = Tail(stack) /\ UNCHANGED event_queue
         ELSE IF e \in signaled THEN stack' = rest /\ UNCHANGED event_queue
              ELSE efi_queue_event(e, rest)
  /\ UNCHANGED <<prog, events, group, signaled, trigger, tpl, timers_enabled,
                 boottime, calls, untold>>

WaitLooks ==
  /\ IsTop("wait")
  /\ Top.i > Len(Top.evs)
  /\ LET at == SelectInSeq(Top.evs, LAMBDA e : e \in signaled)
     IN  IF at = 0 THEN stack' = <<TimerCheck>> \o stack /\ UNCHANGED signaled
         ELSE stack' = Tail(stack) /\ signaled' = signaled \ {Top.evs[at]}
  /\ UNCHANGED <<prog, events, group, trigger, event_queue, tpl, timers_enabled,
                 boottime, calls, untold>>

-----------------------------------------------------------------------------
(* ExitBootServices, called with the current key of the memory map on      *)
(* TPL_APPLICATION                                                         *)

\* Signal a group by the first of its events
SignalGroup(g, grp, rest) ==
  IF Members(grp, g) = {} THEN stack' = rest /\ UNCHANGED <<signaled, event_queue>>
  ELSE efi_signal_event(FirstOf(Members(grp, g)), signaled, grp, rest)

efi_exit_boot_services ==
  /\ Caller
  /\ IsTop("app") /\ Top.raised = <<>>
  /\ SignalGroup("before_exit_boot_services", group, <<[op |-> "exit_group"]>> \o stack)
  /\ UNCHANGED <<prog, events, group, trigger, tpl, timers_enabled, boottime, untold>>

\* Mutated form: exit events are not added to the group
ExitGroups_none == group

\* The groups once the exit events are in theirs
ExitGroups ==
  [e \in Events |-> IF e \in Live /\ "EXIT" \in TypeOf[e] THEN "exit_boot_services"
                    ELSE group[e]]

\* The events that ExitBootServices() is to notify
ExitEvents == {e \in Live : "EXIT" \in TypeOf[e] \/ group[e] = "exit_boot_services"}

ExitNotify ==
  /\ IsTop("exit_group")
  /\ timers_enabled' = FALSE
  /\ group' = ExitGroups
  /\ SignalGroup("exit_boot_services", ExitGroups, <<[op |-> "exit_end"]>> \o Tail(stack))
  /\ untold' = IF ExitEvents # {} /\ FirstOf(ExitEvents) \in signaled THEN {}
               ELSE {e \in ExitEvents : Callable(e)}
  /\ UNCHANGED <<prog, events, trigger, tpl, boottime, calls>>

ExitEnds ==
  /\ IsTop("exit_end")
  /\ tpl' = TPL_HIGH_LEVEL
  /\ events' = <<>>
  /\ boottime' = FALSE
  /\ stack' = <<>>
  /\ UNCHANGED <<prog, group, signaled, trigger, event_queue, timers_enabled, calls, untold>>

-----------------------------------------------------------------------------
\* U-Boot has set up its own events and starts an application.
Own == prog \cap Internal
OwnEvents == IF Own = {} THEN <<>> ELSE Registration
OwnGroups == [e \in Events |-> IF e \in Own THEN GroupOf[e] ELSE NoGroup]
OwnTimers == [e \in Events |-> IF e \in Own /\ "TIMER" \in TypeOf[e] THEN "periodic" ELSE "stop"]

Init ==
  /\ prog \in Programs
  /\ events = OwnEvents /\ group = OwnGroups /\ trigger = OwnTimers
  /\ signaled = {} /\ event_queue = <<>>
  /\ tpl = TPL_APPLICATION
  /\ timers_enabled = TRUE /\ boottime = TRUE
  /\ stack = <<App>> /\ calls = 0 /\ untold = {}

\* The operating system has taken over; later U-Boot starts again.
Reset ==
  /\ ~boottime
  /\ events' = OwnEvents /\ group' = OwnGroups /\ trigger' = OwnTimers
  /\ signaled' = {} /\ event_queue' = <<>>
  /\ tpl' = TPL_APPLICATION
  /\ timers_enabled' = TRUE /\ boottime' = TRUE
  /\ stack' = <<App>> /\ calls' = 0 /\ untold' = {}
  /\ UNCHANGED prog

WaitLists == {<<e>> : e \in Live} \cup {w \in Live \X Live : w[1] # w[2]}

Service ==
  \/ \E e \in prog :
       \/ efi_create_event(e)
       \/ efi_close_event(e)
       \/ efi_signal_event_ext(e)
       \/ efi_check_event(e)
       \/ \E type \in Triggers : efi_set_timer(e, type)
  \/ \E new \in TplLevels : efi_raise_tpl(new)
  \/ efi_restore_tpl
  \/ \E evs \in WaitLists : efi_wait_for_event(evs)
  \/ efi_exit_boot_services

\* The code of U-Boot between two calls of notification functions
Internals ==
  \/ GroupLoop
  \/ efi_process_event_queue
  \/ \E e \in prog : TimerFires(e)
  \/ TimerCheckEnds
  \/ CheckQueues
  \/ CheckReturns
  \/ WaitQueues
  \/ WaitLooks
  \/ ExitNotify
  \/ ExitEnds

Next == Service \/ Internals \/ NotifyReturns \/ Reset

\* U-Boot's code goes on, notification functions return, and timers that are
\* looked at again and again elapse.
Fairness ==
  /\ WF_vars(Internals)
  /\ WF_vars(NotifyReturns)
  /\ \A e \in Timers : SF_vars(TimerFires(e))

Spec == Init /\ [][Next]_vars /\ Fairness

-----------------------------------------------------------------------------
(* Properties *)

\* The calls in progress, those of EfiConsole included
EventOrNone == Events \cup {NoEvent}
Frames ==
  [op : {"app"}, ev : {NoEvent}, base : TplLevels, raised : Seq(TplLevels)]
    \cup [op : {"notify", "notified"}, ev : Events, base : TplLevels, raised : Seq(TplLevels)]
    \cup [op : {"process", "exit_group", "exit_end", "read", "reading"}]
    \cup [op : {"timer"}, at : EventOrNone]
    \cup [op : {"group"}, ev : Events, at : EventOrNone]
    \cup [op : {"check", "checking"}, ev : Events]
    \cup [op : {"wait"}, evs : Seq(Events), i : Nat \ {0}]

\* Only existing events are queued, signaled or in use, each at most once in
\* the queue.
TypeOK ==
  /\ prog \in Programs
  /\ events \in Seq(prog) /\ IsInjective(events)
  /\ group \in [Events -> Groups \cup {NoGroup}]
  /\ trigger \in [Events -> Triggers]
  /\ event_queue \in Seq(prog) /\ IsInjective(event_queue)
  /\ tpl \in TplLevels
  /\ timers_enabled \in BOOLEAN /\ boottime \in BOOLEAN
  /\ stack \in Seq(Frames)
  /\ boottime => /\ event_queue \in Seq(Live) /\ signaled \subseteq Live
                 /\ InUse \subseteq Live \cup {NoEvent}
  /\ calls \in 0..MaxCalls
  /\ untold \subseteq Events

\* Code runs only while no notification function of a higher level is queued, however
\* signals, group signals, checks, waits and changes of the level are mixed:
\* efi_process_event_queue() stops at the first event that may not run, so it
\* depends on the order efi_queue_event() keeps, and on being called wherever
\* the level goes down.
NoneHeldBack ==
  stack # <<>> /\ Top.op \in {"app", "notify"} =>
    \A e \in ToSet(event_queue) : NotifyTpl[e] <= tpl

\* A notification function only interrupts code of a lower level, and code runs
\* on the level it started with unless it raised it: what a notification
\* function does to the level is undone before the code it interrupted goes on
\* (efi_process_event_queue()).
LevelsNest ==
  /\ \A i, j \in DOMAIN stack :
       i < j /\ {stack[i].op, stack[j].op} \subseteq {"notify", "notified"} =>
         NotifyTpl[stack[i].ev] > NotifyTpl[stack[j].ev]
  /\ stack # <<>> /\ Top.op \in {"app", "notify"} =>
       LET own == IF Top.ev = NoEvent THEN TPL_APPLICATION ELSE NotifyTpl[Top.ev]
       IN  IF Top.raised = <<>> THEN tpl = own
           ELSE Last(Top.raised) = own /\ Head(Top.raised) <= tpl

InFunction(e) == \E i \in DOMAIN stack : stack[i].op \in {"notify", "notified"} /\ stack[i].ev = e

\* The notification function of e is queued, or will be by a group signal that is
\* in progress.
Pending(e) ==
  \/ e \in ToSet(event_queue)
  \/ \E i \in DOMAIN stack :
       stack[i].op = "group" /\ group[stack[i].ev] = group[e] /\ e \in Ahead(stack[i].at, Live)

\* A step that signals e, or finds it signaled but not by its own function
Signals(e) ==
  \/ e \in signaled' \ signaled
  \/ TimerFires(e)
  \/ efi_signal_event_ext(e) /\ TypeOf[e] = {"NOTIFY_SIGNAL"} /\ ~InFunction(e)

\* A signal is followed by a call of the notification function that starts after
\* it, although efi_signal_event() ignores events in the signaled state: the
\* function is pending once its event, or its group, gets into that state or its
\* timer elapses, also after a signal that finds an EVT_NOTIFY_SIGNAL event in
\* that state already, and it stays so until it is called or the event is closed.
\* The exception is a signal during the event's own function, which is lost: the
\* state is reset only when the function returns.
SignalsAreServed ==
  [][boottime /\ boottime' => \A e \in {x \in Events : HasFunction(x)} :
       /\ Signals(e) => Pending(e)'
       /\ Pending(e) => Pending(e)' \/ stack' = <<Notify(e, tpl)>> \o stack \/ e \notin Live']_vars

\* Each exit event, and each event of the group, that has a function of a level
\* above TPL_APPLICATION and exists
\* when ExitBootServices() signals the group has been notified, or closed,
\* before the boot services end, whatever the notification functions themselves
\* signal, create or close; unless the first of them was in the signaled state
\* already, in which case none is (efi_exit_boot_services()).
ExitToldAll == ~boottime => untold = {}

\* A periodic timer with a notification function keeps being served as long as
\* timers are checked on TPL_APPLICATION again and again, although its event
\* stays in the signaled state between two periods (efi_timer_check()).
Checking == IsTop("timer") /\ Top.at = NoEvent /\ tpl = TPL_APPLICATION
PeriodicIsServed ==
  \A e \in {x \in Timers : Callable(x)} :
    (([]<>Checking /\ <>[](trigger[e] = "periodic" /\ timers_enabled)) =>
       []<>(stack # <<>> /\ Top.op \in {"notify", "notified"} /\ Top.ev = e))
=============================================================================
