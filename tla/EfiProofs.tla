------------------------------ MODULE EfiProofs -----------------------------
(***************************************************************************)
(* Proofs about the event services and the console of the EFI loader, for  *)
(* any events, groups, levels and nesting of notification functions:       *)
(* levels nest, no function of a higher level is held back, signals are    *)
(* served, ExitBootServices() reaches all its events, and the event of the *)
(* console is signaled for keys only.                                      *)
(***************************************************************************)
EXTENDS EfiConsole, WellFoundedInduction, TLAPS

CodeOps == {"app", "notify", "notified"}
ExitOps == {"exit_group", "exit_end"}
IsCode(f) == f.op \in CodeOps
\* The level on which code starts
OwnLevel(f) == IF f.op = "app" THEN TPL_APPLICATION ELSE NotifyTpl[f.ev]

-----------------------------------------------------------------------------
(* The frames of the stack S *)

\* The application is at the bottom; ExitBootServices() is called by it, on
\* the level it started with.  A notification function is called from the
\* loop over the queue.
Bottom(S) ==
  /\ \A i \in 1..Len(S) : S[i].op = "app" <=> i = Len(S)
  /\ \A i \in 1..Len(S) : S[i].op \in ExitOps => i + 1 = Len(S) /\ S[i + 1].raised = <<>>
  /\ \A i \in 1..Len(S) : S[i].op \in {"notify", "notified"} =>
       S[i].ev \in Events /\ i < Len(S) /\ S[i + 1].op = "process"

\* On level t, code f has undone what it has raised, or will.
OnLevel(f, t) ==
  /\ f.raised = <<>> => t = OwnLevel(f)
  /\ f.raised # <<>> => f.raised[1] <= t /\ f.raised[Len(f.raised)] = OwnLevel(f)
  /\ \A i, j \in 1..Len(f.raised) : i < j => f.raised[j] <= f.raised[i]

\* The innermost code is on level t, and code that was interrupted on the
\* level which the notification function above it returns to.
Nested(S, t) ==
  /\ \A j \in 1..Len(S) : IsCode(S[j]) =>
       /\ OwnLevel(S[j]) <= t
       /\ (\A k \in 1..(j - 1) : ~IsCode(S[k])) => OnLevel(S[j], t)
  /\ \A i, j \in 1..Len(S) : i < j /\ IsCode(S[i]) /\ IsCode(S[j]) =>
       /\ OwnLevel(S[j]) <= S[i].base /\ S[i].base < OwnLevel(S[i])
       /\ (\A k \in (i + 1)..(j - 1) : ~IsCode(S[k])) => OnLevel(S[j], S[i].base)

\* A function of a level above t that is queued is about to be called.
Served(S, q, t) ==
  \/ \A e \in ToSet(q) : NotifyTpl[e] <= t
  \/ \E i \in 1..Len(S) : S[i].op \in {"process", "timer"} /\ \A k \in 1..i : ~IsCode(S[k])

-----------------------------------------------------------------------------
(* The queue and the events *)

\* The queue is sorted, and holds events with functions only.
Sorted(q) ==
  /\ \A i, j \in 1..Len(q) : i < j => NotifyTpl[q[j]] <= NotifyTpl[q[i]]
  /\ \A i \in 1..Len(q) : HasFunction(q[i])

\* U-Boot's events are not closed, and the console's is in no group.
OwnInv ==
  /\ boottime /\ Internal \subseteq prog => Internal \subseteq Live
  /\ group[wait_for_key] = NoGroup

\* Of each frame, what it goes on to use exists; reading a key uses the event
\* of the console.
Needs(f) == Refers(f) \cup (IF f.op = "read" THEN Internal ELSE {})
Uses(S, L) == \A i \in 1..Len(S) : Needs(S[i]) \subseteq L \cup {NoEvent}

\* The calls in progress, with the events L and on level t
StackOK(S, L, t) ==
  /\ S \in Seq(Frames) /\ S # <<>>
  /\ Bottom(S) /\ Nested(S, t) /\ Uses(S, L)

LevelInv ==
  /\ boottime => tpl \in TplLevels /\ StackOK(stack, Live, tpl)
  /\ ~boottime => stack = <<>>
  /\ Sorted(event_queue) /\ Served(stack, event_queue, tpl)

CoreInv == TypeOK /\ OwnInv /\ LevelInv

-----------------------------------------------------------------------------
(* Signals: of the groups grp and the events evs *)

\* The list q has x before y.
Before(q, x, y) == \E i, j \in 1..Len(q) : i < j /\ q[i] = x /\ q[j] = y

\* The frame f is a walk over the group of e that has yet to come to e,
Walks(f, e, grp, evs) ==
  /\ f.op = "group" /\ grp[f.ev] = grp[e] /\ e \in ToSet(evs)
  /\ f.at = NoEvent \/ Before(evs, f.at, e)
Walked(S, e, grp, evs) == \E i \in 1..Len(S) : Walks(S[i], e, grp, evs)
\* or its notification function.
Called(S, e) == \E i \in 1..Len(S) : S[i].op \in {"notify", "notified"} /\ S[i].ev = e
Exiting(S) == \E i \in 1..Len(S) : S[i].op = "exit_end"

\* The function of e is queued, or a group signal in progress will queue it.
Due(e) == e \in ToSet(event_queue) \/ Walked(stack, e, group, events)

\* The function of an EVT_NOTIFY_SIGNAL event that is signaled is due or running,
PendInv ==
  \A e \in Events : e \in signaled /\ boottime /\ TypeOf[e] = {"NOTIFY_SIGNAL"} =>
    Due(e) \/ Called(stack, e)
\* and what ExitBootServices() has yet to notify is due.
TellInv ==
  /\ untold # {} => boottime /\ Exiting(stack)
  /\ \A e \in untold : Callable(e) /\ e \in Live /\ Due(e)
SignalInv == PendInv /\ TellInv

\* A step that signals an event makes its function due, and what is due stays so
\* until it is called or its event is closed.
Steady ==
  boottime /\ boottime' => \A e \in Events : HasFunction(e) =>
    /\ e \in signaled' /\ e \notin signaled => Due(e)'
    /\ Due(e) => Due(e)' \/ stack' = <<Notify(e, tpl)>> \o stack \/ e \notin Live'
SignalStep == SignalInv' /\ Steady

\* Events that notify when they are signaled have a function, of a level on which
\* it is called (efi_create_event()).
LEMMA NotifiersCallable ==
  ASSUME NEW e \in Events, TypeOf[e] = {"NOTIFY_SIGNAL"}
  PROVE  HasFunction(e) /\ Callable(e) /\ ~(NotifyTpl[e] <= TPL_APPLICATION)
<1>1. e \in WithFunction /\ NotifyTpl[e] \in {TPL_CALLBACK, TPL_NOTIFY}
  <2>1. TypeOf[e] \cap {"NOTIFY_WAIT", "NOTIFY_SIGNAL"} # {}
    OBVIOUS
  <2> QED BY <2>1, CreateAssumption
<1> QED BY <1>1 DEF HasFunction, Callable, TPL_APPLICATION, TPL_CALLBACK, TPL_NOTIFY

-----------------------------------------------------------------------------
(* Sequences and frames *)

\* A set of numbers has a smallest one.
LEMMA SmallestIndex ==
  ASSUME NEW I, I \subseteq Nat, I # {}
  PROVE  Min(I) \in I /\ \A y \in I : Min(I) <= y
<1> DEFINE R == OpToRel(<, Nat)
<1>1. \A y, x \in Nat : y < x => <<y, x>> \in R
  <2>1. R = {ss \in Nat \X Nat : ss[1] < ss[2]}
    BY DEF OpToRel
  <2> HIDE DEF R
  <2> SUFFICES ASSUME NEW y \in Nat, NEW x \in Nat, y < x PROVE <<y, x>> \in R
    OBVIOUS
  <2>2. <<y, x>> \in Nat \X Nat /\ <<y, x>>[1] = y /\ <<y, x>>[2] = x
    OBVIOUS
  <2>3. <<y, x>>[1] < <<y, x>>[2]
    BY <2>2
  <2> QED BY <2>1, <2>2, <2>3, Zenon
<1>2. IsWellFoundedOn(R, Nat)
  BY NatLessThanWellFounded
<1> HIDE DEF R
<1>3. PICK x \in I : \A y \in I : ~(<<y, x>> \in R)
  BY <1>2, WFMin
<1>4. \A y \in I : x <= y
  <2> SUFFICES ASSUME NEW y \in I, ~(x <= y) PROVE FALSE
    OBVIOUS
  <2>1. x \in Nat /\ y \in Nat /\ y < x
    OBVIOUS
  <2> QED BY <1>1, <1>3, <2>1, Zenon
<1> QED BY <1>4 DEF Min

\* What has been pushed is on top of the rest,
LEMMA Pushed ==
  ASSUME NEW T, NEW S \in Seq(T), NEW g \in T
  PROVE  /\ <<g>> \o S \in Seq(T) /\ <<g>> \o S # <<>>
         /\ Len(<<g>> \o S) = Len(S) + 1
         /\ (<<g>> \o S)[1] = g
         /\ \A i \in 2..(Len(S) + 1) : (<<g>> \o S)[i] = S[i - 1]
         /\ Tail(<<g>> \o S) = S
  OBVIOUS

\* and what is popped was.
LEMMA Popped ==
  ASSUME NEW T, NEW S \in Seq(T), S # <<>>
  PROVE  /\ S[1] \in T /\ Len(S) \in Nat /\ Len(S) >= 1
         /\ Tail(S) \in Seq(T)
         /\ Len(Tail(S)) = Len(S) - 1
         /\ \A i \in 1..(Len(S) - 1) : Tail(S)[i] = S[i + 1]
  OBVIOUS

\* The fields of frames have their types.
LEMMA FrameFields ==
  ASSUME NEW f \in Frames
  PROVE  /\ IsCode(f) => /\ f.ev \in EventOrNone /\ f.base \in TplLevels
                         /\ f.raised \in Seq(TplLevels)
         /\ f.op = "app" => f.ev = NoEvent
         /\ f.op \in {"notify", "notified"} => f.ev \in Events
         /\ f.op = "timer" => f.at \in EventOrNone
         /\ f.op = "group" => f.ev \in Events /\ f.at \in EventOrNone
         /\ f.op \in {"check", "checking"} => f.ev \in Events
         /\ f.op = "wait" => f.evs \in Seq(Events) /\ f.i \in Nat \ {0}
  BY DEF Frames, IsCode, CodeOps, EventOrNone

\* The frames that the code pushes are frames.
LEMMA FramesMade ==
  /\ Process \in Frames /\ Process.op = "process"
  /\ \A a \in EventOrNone : TimerWalk(a) \in Frames /\ TimerWalk(a).op = "timer" /\ TimerWalk(a).at = a
  /\ \A e \in Events, a \in EventOrNone :
       /\ GroupWalk(e, a) \in Frames /\ GroupWalk(e, a).op = "group"
       /\ GroupWalk(e, a).ev = e /\ GroupWalk(e, a).at = a
  /\ \A evs \in Seq(Events), i \in Nat \ {0} :
       /\ Waiting(evs, i) \in Frames /\ Waiting(evs, i).op = "wait"
       /\ Waiting(evs, i).evs = evs /\ Waiting(evs, i).i = i
  /\ \A o \in {"check", "checking"}, e \in Events : [op |-> o, ev |-> e] \in Frames
  /\ \A o \in {"exit_group", "exit_end", "read", "reading"} : [op |-> o] \in Frames
<1>1. Process \in Frames /\ Process.op = "process"
  BY DEF Frames, Process
<1>2. \A a \in EventOrNone : TimerWalk(a) \in Frames /\ TimerWalk(a).op = "timer" /\ TimerWalk(a).at = a
  BY DEF Frames, TimerWalk
<1>3. \A e \in Events, a \in EventOrNone :
       /\ GroupWalk(e, a) \in Frames /\ GroupWalk(e, a).op = "group"
       /\ GroupWalk(e, a).ev = e /\ GroupWalk(e, a).at = a
  BY DEF Frames, GroupWalk
<1>4. \A evs \in Seq(Events), i \in Nat \ {0} :
       /\ Waiting(evs, i) \in Frames /\ Waiting(evs, i).op = "wait"
       /\ Waiting(evs, i).evs = evs /\ Waiting(evs, i).i = i
  BY DEF Frames, Waiting
<1>5. \A o \in {"check", "checking"}, e \in Events : [op |-> o, ev |-> e] \in Frames
  BY DEF Frames
<1>6. \A o \in {"exit_group", "exit_end", "read", "reading"} : [op |-> o] \in Frames
  BY DEF Frames
<1> QED BY <1>1, <1>2, <1>3, <1>4, <1>5, <1>6

-----------------------------------------------------------------------------
(* What pushing and popping frames does to the levels *)

LevelFacts == TplLevels \subseteq Nat /\ NotifyTpl \in [Events -> TplLevels]

\* Levels are numbers, and every event has one (efi_create_event()).
LEMMA Levels4816 == LevelFacts
  BY EventsAssumption
  DEF LevelFacts, TplLevels, TPL_APPLICATION, TPL_CALLBACK, TPL_NOTIFY, TPL_HIGH_LEVEL

\* What is below a lower level is below.
LEMMA LevelChain ==
  ASSUME NEW a \in TplLevels, NEW b \in TplLevels, NEW c \in TplLevels, NEW u \in Nat,
         a <= b, b < c, c <= u
  PROVE  a <= u
  BY Levels4816 DEF LevelFacts

\* Code of a good stack starts on some level.
LEMMA OwnLevels ==
  ASSUME NEW S \in Seq(Frames), Bottom(S), NEW i \in 1..Len(S), IsCode(S[i])
  PROVE  OwnLevel(S[i]) \in TplLevels
  BY Levels4816 DEF Bottom, IsCode, CodeOps, OwnLevel, LevelFacts, TplLevels

\* Pushing a frame that is not code,
LEMMA PushStack ==
  ASSUME NEW S, NEW L, NEW t, StackOK(S, L, t),
         NEW g \in Frames, ~IsCode(g), g.op \notin ExitOps,
         Needs(g) \subseteq L \cup {NoEvent}
  PROVE  StackOK(<<g>> \o S, L, t)
<1> DEFINE R == <<g>> \o S
<1>1. S \in Seq(Frames) /\ S # <<>> /\ Bottom(S) /\ Nested(S, t) /\ Uses(S, L)
  BY DEF StackOK
<1>2. /\ R \in Seq(Frames) /\ R # <<>> /\ Len(R) = Len(S) + 1 /\ R[1] = g
      /\ \A i \in 2..Len(R) : R[i] = S[i - 1]
  BY <1>1, Pushed
<1>3. Len(S) \in Nat /\ Len(S) >= 1
  BY <1>1, Popped
<1> HIDE DEF R
<1>4. Bottom(R)
  <2>1. \A i \in 1..Len(R) : R[i].op = "app" <=> i = Len(R)
    BY <1>1, <1>2, <1>3 DEF Bottom, IsCode, CodeOps
  <2>2. ASSUME NEW i \in 1..Len(R), R[i].op \in ExitOps
        PROVE  i + 1 = Len(R) /\ R[i + 1].raised = <<>>
    <3>1. i - 1 \in 1..Len(S) /\ R[i] = S[i - 1]
      BY <1>2, <1>3, <2>2
    <3>2. i = Len(S) /\ S[i].raised = <<>>
      BY <1>1, <1>3, <2>2, <3>1 DEF Bottom
    <3> QED BY <1>2, <1>3, <3>2
  <2>3. ASSUME NEW i \in 1..Len(R), R[i].op \in {"notify", "notified"}
        PROVE  R[i].ev \in Events /\ i < Len(R) /\ R[i + 1].op = "process"
    <3>1. i - 1 \in 1..Len(S) /\ R[i] = S[i - 1]
      BY <1>2, <1>3, <2>3 DEF IsCode, CodeOps
    <3>2. S[i - 1].ev \in Events /\ i - 1 < Len(S) /\ S[i].op = "process"
      BY <1>1, <1>3, <2>3, <3>1 DEF Bottom
    <3> QED BY <1>2, <1>3, <3>1, <3>2
  <2> QED BY <2>1, <2>2, <2>3 DEF Bottom
<1>5. Nested(R, t)
  <2>1. ASSUME NEW j \in 1..Len(R), IsCode(R[j])
        PROVE  /\ OwnLevel(R[j]) <= t
               /\ (\A k \in 1..(j - 1) : ~IsCode(R[k])) => OnLevel(R[j], t)
    <3>1. j - 1 \in 1..Len(S) /\ R[j] = S[j - 1]
      BY <1>2, <1>3, <2>1
    <3>2. OwnLevel(S[j - 1]) <= t /\ ((\A k \in 1..(j - 2) : ~IsCode(S[k])) => OnLevel(S[j - 1], t))
      BY <1>1, <2>1, <3>1 DEF Nested
    <3>3. ASSUME \A k \in 1..(j - 1) : ~IsCode(R[k]) PROVE \A k \in 1..(j - 2) : ~IsCode(S[k])
      <4> SUFFICES ASSUME NEW k \in 1..(j - 2) PROVE ~IsCode(S[k])
        OBVIOUS
      <4>1. k + 1 \in 1..(j - 1) /\ k + 1 \in 2..Len(R)
        BY <1>2, <1>3, <3>1
      <4>2. R[k + 1] = S[k]
        BY <1>2, <4>1
      <4> QED BY <4>1, <4>2, <3>3
    <3> QED BY <3>1, <3>2, <3>3
  <2>2. ASSUME NEW i \in 1..Len(R), NEW j \in 1..Len(R), i < j, IsCode(R[i]), IsCode(R[j])
        PROVE  /\ OwnLevel(R[j]) <= R[i].base /\ R[i].base < OwnLevel(R[i])
               /\ (\A k \in (i + 1)..(j - 1) : ~IsCode(R[k])) => OnLevel(R[j], R[i].base)
    <3>1. i - 1 \in 1..Len(S) /\ R[i] = S[i - 1] /\ j - 1 \in 1..Len(S) /\ R[j] = S[j - 1]
      BY <1>2, <1>3, <2>2
    <3>2. /\ OwnLevel(S[j - 1]) <= S[i - 1].base /\ S[i - 1].base < OwnLevel(S[i - 1])
          /\ (\A k \in i..(j - 2) : ~IsCode(S[k])) => OnLevel(S[j - 1], S[i - 1].base)
      BY <1>1, <2>2, <3>1 DEF Nested
    <3>3. ASSUME \A k \in (i + 1)..(j - 1) : ~IsCode(R[k]) PROVE \A k \in i..(j - 2) : ~IsCode(S[k])
      <4> SUFFICES ASSUME NEW k \in i..(j - 2) PROVE ~IsCode(S[k])
        OBVIOUS
      <4>1. k + 1 \in (i + 1)..(j - 1) /\ R[k + 1] = S[k]
        BY <1>2, <1>3
      <4> QED BY <4>1, <3>3
    <3> QED BY <3>1, <3>2, <3>3
  <2> QED BY <2>1, <2>2 DEF Nested
<1>6. Uses(R, L)
  <2> SUFFICES ASSUME NEW i \in 1..Len(R) PROVE Needs(R[i]) \subseteq L \cup {NoEvent}
    BY DEF Uses
  <2>1. CASE i = 1
    BY <1>2, <2>1
  <2>2. CASE i # 1
    <3>1. i - 1 \in 1..Len(S) /\ R[i] = S[i - 1]
      BY <1>2, <1>3, <2>2
    <3> QED BY <1>1, <3>1 DEF Uses
  <2> QED BY <2>1, <2>2
<1> QED BY <1>2, <1>4, <1>5, <1>6 DEF StackOK, R

\* and popping one, keeps the levels nested;
LEMMA PopStack ==
  ASSUME NEW S, NEW L, NEW t, StackOK(S, L, t), ~IsCode(S[1])
  PROVE  StackOK(Tail(S), L, t)
<1> DEFINE R == Tail(S)
<1>1. S \in Seq(Frames) /\ S # <<>> /\ Bottom(S) /\ Nested(S, t) /\ Uses(S, L)
  BY DEF StackOK
<1>2. /\ R \in Seq(Frames) /\ Len(R) = Len(S) - 1
      /\ \A i \in 1..Len(R) : R[i] = S[i + 1]
      /\ Len(S) \in Nat /\ Len(S) >= 1
  BY <1>1, Popped
<1>3. Len(S) >= 2
  <2>1. 1 \in 1..Len(S) /\ S[1].op # "app"
    BY <1>2 DEF IsCode, CodeOps
  <2>2. 1 # Len(S)
    BY <1>1, <2>1 DEF Bottom
  <2> QED BY <1>2, <2>2
<1> HIDE DEF R
<1>4. Bottom(R)
  <2>1. ASSUME NEW i \in 1..Len(R) PROVE R[i].op = "app" <=> i = Len(R)
    <3>1. i + 1 \in 1..Len(S) /\ R[i] = S[i + 1]
      BY <1>2, <1>3
    <3>2. S[i + 1].op = "app" <=> i + 1 = Len(S)
      BY <1>1, <3>1 DEF Bottom
    <3> QED BY <1>2, <3>1, <3>2
  <2>2. ASSUME NEW i \in 1..Len(R), R[i].op \in ExitOps
        PROVE  i + 1 = Len(R) /\ R[i + 1].raised = <<>>
    <3>1. i + 1 \in 1..Len(S) /\ R[i] = S[i + 1]
      BY <1>2, <1>3
    <3>2. i + 2 = Len(S) /\ S[i + 2].raised = <<>>
      BY <1>1, <2>2, <3>1 DEF Bottom
    <3>3. R[i + 1] = S[i + 2]
      BY <1>2, <3>2
    <3> QED BY <1>2, <3>2, <3>3
  <2>3. ASSUME NEW i \in 1..Len(R), R[i].op \in {"notify", "notified"}
        PROVE  R[i].ev \in Events /\ i < Len(R) /\ R[i + 1].op = "process"
    <3>1. i + 1 \in 1..Len(S) /\ R[i] = S[i + 1]
      BY <1>2, <1>3
    <3>2. S[i + 1].ev \in Events /\ i + 1 < Len(S) /\ S[i + 2].op = "process"
      BY <1>1, <2>3, <3>1 DEF Bottom
    <3>3. R[i + 1] = S[i + 2]
      BY <1>2, <3>2
    <3> QED BY <1>2, <3>1, <3>2, <3>3
  <2> QED BY <2>1, <2>2, <2>3 DEF Bottom
<1>5. Nested(R, t)
  <2>1. ASSUME NEW j \in 1..Len(R), IsCode(R[j])
        PROVE  /\ OwnLevel(R[j]) <= t
               /\ (\A k \in 1..(j - 1) : ~IsCode(R[k])) => OnLevel(R[j], t)
    <3>1. j + 1 \in 1..Len(S) /\ R[j] = S[j + 1]
      BY <1>2, <1>3, <2>1
    <3>2. OwnLevel(S[j + 1]) <= t /\ ((\A k \in 1..j : ~IsCode(S[k])) => OnLevel(S[j + 1], t))
      BY <1>1, <2>1, <3>1 DEF Nested
    <3>3. ASSUME \A k \in 1..(j - 1) : ~IsCode(R[k]) PROVE \A k \in 1..j : ~IsCode(S[k])
      <4> SUFFICES ASSUME NEW k \in 1..j PROVE ~IsCode(S[k])
        OBVIOUS
      <4>1. CASE k = 1
        BY <4>1
      <4>2. CASE k # 1
        <5>1. k - 1 \in 1..(j - 1) /\ R[k - 1] = S[k]
          BY <1>2, <4>2
        <5> QED BY <5>1, <3>3
      <4> QED BY <4>1, <4>2
    <3> QED BY <3>1, <3>2, <3>3
  <2>2. ASSUME NEW i \in 1..Len(R), NEW j \in 1..Len(R), i < j, IsCode(R[i]), IsCode(R[j])
        PROVE  /\ OwnLevel(R[j]) <= R[i].base /\ R[i].base < OwnLevel(R[i])
               /\ (\A k \in (i + 1)..(j - 1) : ~IsCode(R[k])) => OnLevel(R[j], R[i].base)
    <3>1. i + 1 \in 1..Len(S) /\ R[i] = S[i + 1] /\ j + 1 \in 1..Len(S) /\ R[j] = S[j + 1]
      BY <1>2, <1>3, <2>2
    <3>2. /\ OwnLevel(S[j + 1]) <= S[i + 1].base /\ S[i + 1].base < OwnLevel(S[i + 1])
          /\ (\A k \in (i + 2)..j : ~IsCode(S[k])) => OnLevel(S[j + 1], S[i + 1].base)
      BY <1>1, <2>2, <3>1 DEF Nested
    <3>3. ASSUME \A k \in (i + 1)..(j - 1) : ~IsCode(R[k]) PROVE \A k \in (i + 2)..j : ~IsCode(S[k])
      <4> SUFFICES ASSUME NEW k \in (i + 2)..j PROVE ~IsCode(S[k])
        OBVIOUS
      <4>1. k - 1 \in (i + 1)..(j - 1) /\ R[k - 1] = S[k]
        BY <1>2
      <4> QED BY <4>1, <3>3
    <3> QED BY <3>1, <3>2, <3>3
  <2> QED BY <2>1, <2>2 DEF Nested
<1>6. Uses(R, L)
  BY <1>1, <1>2, <1>3 DEF Uses
<1>7. R # <<>>
  BY <1>2, <1>3
<1> QED BY <1>2, <1>4, <1>5, <1>6, <1>7 DEF StackOK, R

\* calling a notification function of a higher level goes up one level,
LEMMA CallStack ==
  ASSUME NEW S, NEW L, NEW t \in TplLevels, StackOK(S, L, t), S[1].op = "process",
         NEW e \in Events, e \in L, t < NotifyTpl[e]
  PROVE  StackOK(<<Notify(e, t)>> \o S, L, NotifyTpl[e])
<1> DEFINE g == Notify(e, t)
           R == <<g>> \o S
           u == NotifyTpl[e]
<1>1. S \in Seq(Frames) /\ S # <<>> /\ Bottom(S) /\ Nested(S, t) /\ Uses(S, L)
  BY DEF StackOK
<1>2. /\ g \in Frames /\ g.op = "notify" /\ g.ev = e /\ g.base = t /\ g.raised = <<>>
  <2>1. "notify" \in CodeOps /\ e \in EventOrNone /\ <<>> \in Seq(TplLevels)
    BY DEF CodeOps, EventOrNone
  <2> QED BY <2>1 DEF Notify, Code, Frames
<1> HIDE DEF g
<1>3. /\ R \in Seq(Frames) /\ R # <<>> /\ Len(R) = Len(S) + 1 /\ R[1] = g
      /\ \A i \in 2..Len(R) : R[i] = S[i - 1]
  BY <1>1, <1>2, Pushed
<1>4. Len(S) \in Nat /\ Len(S) >= 1
  BY <1>1, Popped
<1>5. u \in Nat /\ t \in Nat /\ t < u
  BY Levels4816 DEF LevelFacts
<1>6. OwnLevel(g) = u /\ OnLevel(g, u) /\ IsCode(g)
  BY <1>2 DEF OwnLevel, OnLevel, IsCode, CodeOps
<1> HIDE DEF R, u
<1>7. Bottom(R)
  <2>1. \A i \in 1..Len(R) : R[i].op = "app" <=> i = Len(R)
    BY <1>1, <1>2, <1>3, <1>4 DEF Bottom
  <2>2. ASSUME NEW i \in 1..Len(R), R[i].op \in ExitOps
        PROVE  i + 1 = Len(R) /\ R[i + 1].raised = <<>>
    <3>1. i - 1 \in 1..Len(S) /\ R[i] = S[i - 1]
      BY <1>2, <1>3, <1>4, <2>2 DEF ExitOps
    <3>2. i = Len(S) /\ S[i].raised = <<>>
      BY <1>1, <1>4, <2>2, <3>1 DEF Bottom
    <3> QED BY <1>3, <1>4, <3>2
  <2>3. ASSUME NEW i \in 1..Len(R), R[i].op \in {"notify", "notified"}
        PROVE  R[i].ev \in Events /\ i < Len(R) /\ R[i + 1].op = "process"
    <3>1. CASE i = 1
      BY <1>2, <1>3, <1>4, <3>1
    <3>2. CASE i # 1
      <4>1. i - 1 \in 1..Len(S) /\ R[i] = S[i - 1]
        BY <1>3, <1>4, <3>2
      <4>2. S[i - 1].ev \in Events /\ i - 1 < Len(S) /\ S[i].op = "process"
        BY <1>1, <1>4, <2>3, <4>1 DEF Bottom
      <4>3. i < Len(R) /\ R[i + 1] = S[i]
        BY <1>3, <1>4, <4>1, <4>2
      <4> QED BY <4>1, <4>2, <4>3
    <3> QED BY <3>1, <3>2
  <2> QED BY <2>1, <2>2, <2>3 DEF Bottom
<1>8. ASSUME NEW j \in 2..Len(R), IsCode(R[j])
      PROVE  j - 1 \in 1..Len(S) /\ R[j] = S[j - 1] /\ OwnLevel(R[j]) <= t
  BY <1>1, <1>3, <1>4, <1>8 DEF Nested
<1>9. Nested(R, u)
  <2>1. ASSUME NEW j \in 1..Len(R), IsCode(R[j])
        PROVE  /\ OwnLevel(R[j]) <= u
               /\ (\A k \in 1..(j - 1) : ~IsCode(R[k])) => OnLevel(R[j], u)
    <3>1. CASE j = 1
      BY <1>3, <1>5, <1>6, <3>1
    <3>2. CASE j # 1
      <4>1. j \in 2..Len(R) /\ 1 \in 1..(j - 1)
        BY <1>3, <1>4, <3>2
      <4>2. j - 1 \in 1..Len(S) /\ R[j] = S[j - 1] /\ OwnLevel(R[j]) <= t
        BY <1>8, <2>1, <4>1
      <4>3. OwnLevel(S[j - 1]) \in TplLevels
        BY <1>1, <2>1, <4>2, OwnLevels
      <4>4. OwnLevel(R[j]) <= u
        BY <1>5, <4>2, <4>3, Levels4816 DEF LevelFacts
      <4> QED BY <1>3, <1>6, <4>1, <4>4
    <3> QED BY <3>1, <3>2
  <2>2. ASSUME NEW i \in 1..Len(R), NEW j \in 1..Len(R), i < j, IsCode(R[i]), IsCode(R[j])
        PROVE  /\ OwnLevel(R[j]) <= R[i].base /\ R[i].base < OwnLevel(R[i])
               /\ (\A k \in (i + 1)..(j - 1) : ~IsCode(R[k])) => OnLevel(R[j], R[i].base)
    <3>1. j \in 2..Len(R)
      BY <1>3, <1>4, <2>2
    <3>2. j - 1 \in 1..Len(S) /\ R[j] = S[j - 1] /\ OwnLevel(R[j]) <= t
      BY <1>8, <2>2, <3>1
    <3>3. CASE i = 1
      <4>1. R[i].base = t /\ OwnLevel(R[i]) = u
        BY <1>2, <1>3, <1>6, <3>3
      <4>2. ASSUME \A k \in (i + 1)..(j - 1) : ~IsCode(R[k]) PROVE OnLevel(S[j - 1], t)
        <5>1. ASSUME NEW k \in 1..(j - 2) PROVE ~IsCode(S[k])
          <6>1. k + 1 \in (i + 1)..(j - 1) /\ k + 1 \in 2..Len(R)
            BY <1>3, <1>4, <3>1, <3>3
          <6>2. R[k + 1] = S[k]
            BY <1>3, <6>1
          <6> QED BY <4>2, <6>1, <6>2
        <5> QED BY <1>1, <2>2, <3>2, <5>1 DEF Nested
      <4> QED BY <1>5, <3>2, <4>1, <4>2
    <3>4. CASE i # 1
      <4>1. i - 1 \in 1..Len(S) /\ R[i] = S[i - 1]
        BY <1>3, <1>4, <3>4
      <4>2. /\ OwnLevel(S[j - 1]) <= S[i - 1].base /\ S[i - 1].base < OwnLevel(S[i - 1])
            /\ (\A k \in i..(j - 2) : ~IsCode(S[k])) => OnLevel(S[j - 1], S[i - 1].base)
        BY <1>1, <2>2, <3>2, <4>1 DEF Nested
      <4>3. ASSUME \A k \in (i + 1)..(j - 1) : ~IsCode(R[k]) PROVE \A k \in i..(j - 2) : ~IsCode(S[k])
        <5> SUFFICES ASSUME NEW k \in i..(j - 2) PROVE ~IsCode(S[k])
          OBVIOUS
        <5>1. k + 1 \in (i + 1)..(j - 1) /\ R[k + 1] = S[k]
          BY <1>3, <1>4
        <5> QED BY <5>1, <4>3
      <4> QED BY <3>2, <4>1, <4>2, <4>3
    <3> QED BY <3>3, <3>4
  <2> QED BY <2>1, <2>2 DEF Nested
<1>10. Uses(R, L)
  <2>1. Needs(g) \subseteq L
    BY <1>2 DEF Needs, Refers
  <2>2. ASSUME NEW i \in 2..Len(R) PROVE Needs(R[i]) \subseteq L \cup {NoEvent}
    <3>1. i - 1 \in 1..Len(S) /\ R[i] = S[i - 1]
      BY <1>3, <1>4
    <3> QED BY <1>1, <3>1 DEF Uses
  <2> QED BY <1>3, <2>1, <2>2 DEF Uses
<1> QED BY <1>3, <1>7, <1>9, <1>10 DEF StackOK, R, u, g

\* and its return goes back to the level of what it interrupted.
LEMMA ReturnStack ==
  ASSUME NEW S, NEW L, NEW t, StackOK(S, L, t), S[1].op \in {"notify", "notified"}
  PROVE  StackOK(Tail(S), L, S[1].base) /\ Tail(S)[1].op = "process" /\ S[1].base \in TplLevels
<1> DEFINE R == Tail(S)
           u == S[1].base
<1>1. S \in Seq(Frames) /\ S # <<>> /\ Bottom(S) /\ Nested(S, t) /\ Uses(S, L)
  BY DEF StackOK
<1>2. /\ R \in Seq(Frames) /\ Len(R) = Len(S) - 1
      /\ \A i \in 1..Len(R) : R[i] = S[i + 1]
      /\ Len(S) \in Nat /\ Len(S) >= 1 /\ S[1] \in Frames
  BY <1>1, Popped
<1>3. Len(S) >= 2 /\ S[2].op = "process" /\ IsCode(S[1])
  <2>1. 1 \in 1..Len(S)
    BY <1>2
  <2>2. 1 < Len(S) /\ S[1 + 1].op = "process"
    BY <1>1, <2>1 DEF Bottom
  <2> QED BY <1>2, <2>2 DEF IsCode, CodeOps
<1>4. R # <<>> /\ R[1].op = "process"
  <2>1. 1 \in 1..Len(R) /\ R[1] = S[1 + 1]
    BY <1>2, <1>3
  <2> QED BY <1>3, <2>1
<1>5. u \in TplLevels
  BY <1>2, <1>3, FrameFields
<1> HIDE DEF R, u
<1>6. Bottom(R)
  <2>1. ASSUME NEW i \in 1..Len(R) PROVE R[i].op = "app" <=> i = Len(R)
    <3>1. i + 1 \in 1..Len(S) /\ R[i] = S[i + 1]
      BY <1>2, <1>3
    <3>2. S[i + 1].op = "app" <=> i + 1 = Len(S)
      BY <1>1, <3>1 DEF Bottom
    <3> QED BY <1>2, <3>1, <3>2
  <2>2. ASSUME NEW i \in 1..Len(R), R[i].op \in ExitOps
        PROVE  i + 1 = Len(R) /\ R[i + 1].raised = <<>>
    <3>1. i + 1 \in 1..Len(S) /\ R[i] = S[i + 1]
      BY <1>2, <1>3
    <3>2. i + 2 = Len(S) /\ S[i + 2].raised = <<>>
      BY <1>1, <2>2, <3>1 DEF Bottom
    <3>3. R[i + 1] = S[i + 2]
      BY <1>2, <3>2
    <3> QED BY <1>2, <3>2, <3>3
  <2>3. ASSUME NEW i \in 1..Len(R), R[i].op \in {"notify", "notified"}
        PROVE  R[i].ev \in Events /\ i < Len(R) /\ R[i + 1].op = "process"
    <3>1. i + 1 \in 1..Len(S) /\ R[i] = S[i + 1]
      BY <1>2, <1>3
    <3>2. S[i + 1].ev \in Events /\ i + 1 < Len(S) /\ S[i + 2].op = "process"
      BY <1>1, <2>3, <3>1 DEF Bottom
    <3>3. R[i + 1] = S[i + 2]
      BY <1>2, <3>2
    <3> QED BY <1>2, <3>1, <3>2, <3>3
  <2> QED BY <2>1, <2>2, <2>3 DEF Bottom
<1>7. Nested(R, u)
  <2>1. ASSUME NEW j \in 1..Len(R), IsCode(R[j])
        PROVE  /\ OwnLevel(R[j]) <= u
               /\ (\A k \in 1..(j - 1) : ~IsCode(R[k])) => OnLevel(R[j], u)
    <3>1. j + 1 \in 1..Len(S) /\ R[j] = S[j + 1] /\ 1 \in 1..Len(S) /\ 1 < j + 1
      BY <1>2, <1>3, <2>1
    <3>2. OwnLevel(S[j + 1]) <= u /\ ((\A k \in 2..j : ~IsCode(S[k])) => OnLevel(S[j + 1], u))
      BY <1>1, <1>3, <2>1, <3>1 DEF Nested, u
    <3>3. ASSUME \A k \in 1..(j - 1) : ~IsCode(R[k]) PROVE \A k \in 2..j : ~IsCode(S[k])
      <4> SUFFICES ASSUME NEW k \in 2..j PROVE ~IsCode(S[k])
        OBVIOUS
      <4>1. k - 1 \in 1..(j - 1) /\ R[k - 1] = S[k]
        BY <1>2
      <4> QED BY <4>1, <3>3
    <3> QED BY <3>1, <3>2, <3>3
  <2>2. ASSUME NEW i \in 1..Len(R), NEW j \in 1..Len(R), i < j, IsCode(R[i]), IsCode(R[j])
        PROVE  /\ OwnLevel(R[j]) <= R[i].base /\ R[i].base < OwnLevel(R[i])
               /\ (\A k \in (i + 1)..(j - 1) : ~IsCode(R[k])) => OnLevel(R[j], R[i].base)
    <3>1. i + 1 \in 1..Len(S) /\ R[i] = S[i + 1] /\ j + 1 \in 1..Len(S) /\ R[j] = S[j + 1]
      BY <1>2, <1>3, <2>2
    <3>2. /\ OwnLevel(S[j + 1]) <= S[i + 1].base /\ S[i + 1].base < OwnLevel(S[i + 1])
          /\ (\A k \in (i + 2)..j : ~IsCode(S[k])) => OnLevel(S[j + 1], S[i + 1].base)
      BY <1>1, <2>2, <3>1 DEF Nested
    <3>3. ASSUME \A k \in (i + 1)..(j - 1) : ~IsCode(R[k]) PROVE \A k \in (i + 2)..j : ~IsCode(S[k])
      <4> SUFFICES ASSUME NEW k \in (i + 2)..j PROVE ~IsCode(S[k])
        OBVIOUS
      <4>1. k - 1 \in (i + 1)..(j - 1) /\ R[k - 1] = S[k]
        BY <1>2
      <4> QED BY <4>1, <3>3
    <3> QED BY <3>1, <3>2, <3>3
  <2> QED BY <2>1, <2>2 DEF Nested
<1>8. Uses(R, L)
  BY <1>1, <1>2, <1>3 DEF Uses
<1> QED BY <1>2, <1>4, <1>5, <1>6, <1>7, <1>8 DEF StackOK, R, u

\* Code may change its own level,
LEMMA CodeStack ==
  ASSUME NEW S, NEW L, NEW t, StackOK(S, L, t), IsCode(S[1]),
         NEW g \in Frames, g.ev = S[1].ev, g.base = S[1].base,
         g.op = S[1].op \/ {g.op, S[1].op} \subseteq {"notify", "notified"},
         NEW u \in Nat, OnLevel(g, u), OwnLevel(g) <= u
  PROVE  StackOK(<<g>> \o Tail(S), L, u)
<1> DEFINE R == <<g>> \o Tail(S)
<1>1. S \in Seq(Frames) /\ S # <<>> /\ Bottom(S) /\ Nested(S, t) /\ Uses(S, L)
  BY DEF StackOK
<1>2. /\ Tail(S) \in Seq(Frames) /\ Len(Tail(S)) = Len(S) - 1
      /\ \A i \in 1..(Len(S) - 1) : Tail(S)[i] = S[i + 1]
      /\ Len(S) \in Nat /\ Len(S) >= 1 /\ S[1] \in Frames
  BY <1>1, Popped
<1>3. /\ R \in Seq(Frames) /\ R # <<>> /\ Len(R) = Len(S) /\ R[1] = g
      /\ \A i \in 2..Len(R) : R[i] = S[i]
  BY <1>2, Pushed
<1> HIDE DEF R
<1>4. IsCode(g) /\ OwnLevel(g) = OwnLevel(S[1]) /\ g.op \notin ExitOps
      /\ (g.op = "app" <=> S[1].op = "app")
      /\ (g.op \in {"notify", "notified"} <=> S[1].op \in {"notify", "notified"})
  BY DEF IsCode, CodeOps, OwnLevel, ExitOps
<1>5. Bottom(R)
  <2>1. ASSUME NEW i \in 1..Len(R) PROVE R[i].op = "app" <=> i = Len(R)
    <3>1. R[i].op = "app" <=> S[i].op = "app"
      BY <1>3, <1>4
    <3>2. S[i].op = "app" <=> i = Len(S)
      BY <1>1, <1>3 DEF Bottom
    <3> QED BY <1>3, <3>1, <3>2
  <2>2. ASSUME NEW i \in 1..Len(R), R[i].op \in ExitOps
        PROVE  i + 1 = Len(R) /\ R[i + 1].raised = <<>>
    <3>1. i \in 2..Len(R) /\ R[i] = S[i]
      BY <1>3, <1>4, <2>2
    <3>2. i + 1 = Len(S) /\ S[i + 1].raised = <<>>
      BY <1>1, <1>3, <2>2, <3>1 DEF Bottom
    <3>3. R[i + 1] = S[i + 1]
      BY <1>3, <3>1, <3>2
    <3> QED BY <1>3, <3>2, <3>3
  <2>3. ASSUME NEW i \in 1..Len(R), R[i].op \in {"notify", "notified"}
        PROVE  R[i].ev \in Events /\ i < Len(R) /\ R[i + 1].op = "process"
    <3>1. S[i].op \in {"notify", "notified"} /\ R[i].ev = S[i].ev
      BY <1>3, <1>4, <2>3
    <3>2. S[i].ev \in Events /\ i < Len(S) /\ S[i + 1].op = "process"
      BY <1>1, <1>3, <3>1 DEF Bottom
    <3>3. R[i + 1] = S[i + 1]
      BY <1>3, <3>2
    <3> QED BY <1>3, <3>1, <3>2, <3>3
  <2> QED BY <2>1, <2>2, <2>3 DEF Bottom
<1>6. \A j \in 1..Len(R) : /\ IsCode(R[j]) <=> IsCode(S[j])
                           /\ OwnLevel(R[j]) = OwnLevel(S[j]) /\ R[j].base = S[j].base
  BY <1>3, <1>4
<1>7. Nested(R, u)
  <2>1. ASSUME NEW j \in 1..Len(R), IsCode(R[j])
        PROVE  /\ OwnLevel(R[j]) <= u
               /\ (\A k \in 1..(j - 1) : ~IsCode(R[k])) => OnLevel(R[j], u)
    <3>1. CASE j = 1
      BY <1>3, <3>1
    <3>2. CASE j # 1
      <4>1. 1 \in 1..Len(S) /\ j \in 1..Len(S) /\ 1 < j /\ 1 \in 1..(j - 1)
        BY <1>2, <1>3, <3>2
      <4>2. OwnLevel(S[j]) <= S[1].base /\ S[1].base < OwnLevel(S[1])
        BY <1>1, <1>6, <2>1, <4>1 DEF Nested
      <4>3. /\ OwnLevel(S[j]) \in TplLevels /\ OwnLevel(S[1]) \in TplLevels
            /\ S[1].base \in TplLevels
        BY <1>1, <1>2, <1>6, <2>1, <4>1, OwnLevels, FrameFields
      <4>4. OwnLevel(R[j]) = OwnLevel(S[j]) /\ OwnLevel(S[1]) <= u
        BY <1>4, <1>6
      <4>5. OwnLevel(S[j]) <= u
        BY <4>2, <4>3, <4>4, LevelChain
      <4> QED BY <1>3, <1>4, <4>1, <4>4, <4>5
    <3> QED BY <3>1, <3>2
  <2>2. ASSUME NEW i \in 1..Len(R), NEW j \in 1..Len(R), i < j, IsCode(R[i]), IsCode(R[j])
        PROVE  /\ OwnLevel(R[j]) <= R[i].base /\ R[i].base < OwnLevel(R[i])
               /\ (\A k \in (i + 1)..(j - 1) : ~IsCode(R[k])) => OnLevel(R[j], R[i].base)
    <3>1. i \in 1..Len(S) /\ j \in 1..Len(S) /\ IsCode(S[i]) /\ IsCode(S[j]) /\ R[j] = S[j]
      BY <1>2, <1>3, <1>6, <2>2
    <3>2. /\ OwnLevel(S[j]) <= S[i].base /\ S[i].base < OwnLevel(S[i])
          /\ (\A k \in (i + 1)..(j - 1) : ~IsCode(S[k])) => OnLevel(S[j], S[i].base)
      BY <1>1, <2>2, <3>1 DEF Nested
    <3>3. ASSUME \A k \in (i + 1)..(j - 1) : ~IsCode(R[k]) PROVE \A k \in (i + 1)..(j - 1) : ~IsCode(S[k])
      <4> SUFFICES ASSUME NEW k \in (i + 1)..(j - 1) PROVE ~IsCode(S[k])
        OBVIOUS
      <4>1. k \in 1..Len(R)
        BY <1>2, <1>3
      <4> QED BY <1>6, <3>3, <4>1
    <3> QED BY <1>6, <3>1, <3>2, <3>3
  <2> QED BY <2>1, <2>2 DEF Nested
<1>8. Uses(R, L)
  <2>1. 1 \in 1..Len(S) /\ Needs(S[1]) \subseteq L \cup {NoEvent}
    BY <1>1, <1>2 DEF Uses
  <2>2. Needs(g) \subseteq L \cup {NoEvent}
    BY <2>1 DEF Needs, Refers, IsCode, CodeOps
  <2> QED BY <1>1, <1>3, <2>2 DEF Uses
<1> QED BY <1>3, <1>5, <1>7, <1>8 DEF StackOK, R

\* and the application may call ExitBootServices().
LEMMA ExitStack ==
  ASSUME NEW S, NEW L, NEW t, StackOK(S, L, t), S[1].op = "app", S[1].raised = <<>>,
         NEW o \in ExitOps
  PROVE  StackOK(<<[op |-> o]>> \o S, L, t) /\ Len(S) = 1
<1> DEFINE g == [op |-> o]
           R == <<g>> \o S
<1>1. S \in Seq(Frames) /\ S # <<>> /\ Bottom(S) /\ Nested(S, t) /\ Uses(S, L)
  BY DEF StackOK
<1>2. Len(S) = 1
  <2>1. 1 \in 1..Len(S)
    BY <1>1, Popped
  <2> QED BY <1>1, <2>1 DEF Bottom
<1>3. g \in Frames /\ g.op = o
  BY FramesMade DEF ExitOps
<1> HIDE DEF g
<1>4. /\ R \in Seq(Frames) /\ R # <<>> /\ Len(R) = 2 /\ R[1] = g /\ R[2] = S[1]
  BY <1>1, <1>2, <1>3, Pushed
<1> HIDE DEF R
<1>5. ~IsCode(g) /\ g.op # "app" /\ g.op \notin {"notify", "notified"}
  BY <1>3 DEF IsCode, CodeOps, ExitOps
<1>6. 1..Len(R) = {1, 2} /\ 1..Len(S) = {1}
  BY <1>2, <1>4
<1>7. Bottom(R)
  BY <1>4, <1>5, <1>6 DEF Bottom, ExitOps
<1>8. Nested(R, t)
  <2>1. IsCode(S[1]) /\ OwnLevel(S[1]) <= t /\ OnLevel(S[1], t)
    BY <1>1, <1>6 DEF Nested, IsCode, CodeOps
  <2> QED BY <1>4, <1>5, <1>6, <2>1 DEF Nested
<1>9. Uses(R, L)
  <2>1. Needs(g) = {}
    BY <1>3 DEF Needs, Refers, ExitOps
  <2> QED BY <1>1, <1>4, <1>6, <2>1 DEF Uses
<1> QED BY <1>2, <1>4, <1>7, <1>8, <1>9 DEF StackOK, R, g

\* What is about to be called stays so under another frame,
LEMMA PushServed ==
  ASSUME NEW S \in Seq(Frames), NEW g \in Frames, ~IsCode(g), NEW q, NEW t,
         Served(S, q, t) \/ g.op \in {"process", "timer"}
  PROVE  Served(<<g>> \o S, q, t)
<1> DEFINE R == <<g>> \o S
<1>1. /\ Len(R) = Len(S) + 1 /\ R[1] = g
      /\ \A i \in 2..(Len(S) + 1) : R[i] = S[i - 1]
      /\ Len(S) \in Nat
  BY Pushed
<1> HIDE DEF R
<1>2. CASE g.op \in {"process", "timer"}
  <2>1. 1 \in 1..Len(R) /\ 1..1 = {1}
    BY <1>1
  <2> QED BY <1>1, <1>2, <2>1 DEF Served, R
<1>3. CASE \A e \in ToSet(q) : NotifyTpl[e] <= t
  BY <1>3 DEF Served
<1>4. ASSUME NEW i \in 1..Len(S), S[i].op \in {"process", "timer"}, \A k \in 1..i : ~IsCode(S[k])
      PROVE  Served(R, q, t)
  <2>1. i + 1 \in 1..Len(R) /\ R[i + 1] = S[i]
    BY <1>1
  <2>2. ASSUME NEW k \in 1..(i + 1) PROVE ~IsCode(R[k])
    <3>1. CASE k = 1
      BY <1>1, <3>1
    <3>2. CASE k # 1
      <4>1. k - 1 \in 1..i /\ k \in 2..(Len(S) + 1)
        BY <1>1, <3>2
      <4> QED BY <1>1, <1>4, <4>1
    <3> QED BY <3>1, <3>2
  <2> QED BY <1>4, <2>1, <2>2 DEF Served
<1> QED BY <1>2, <1>3, <1>4 DEF Served, R

\* and once that frame is gone.
LEMMA PopServed ==
  ASSUME NEW S \in Seq(Frames), S # <<>>, NEW q, NEW t, Served(S, q, t),
         S[1].op \notin {"process", "timer"}
  PROVE  Served(Tail(S), q, t)
<1> DEFINE R == Tail(S)
<1>1. /\ Len(R) = Len(S) - 1 /\ \A i \in 1..(Len(S) - 1) : R[i] = S[i + 1]
      /\ Len(S) \in Nat
  BY Popped
<1> HIDE DEF R
<1>2. CASE \A e \in ToSet(q) : NotifyTpl[e] <= t
  BY <1>2 DEF Served
<1>3. ASSUME NEW i \in 1..Len(S), S[i].op \in {"process", "timer"}, \A k \in 1..i : ~IsCode(S[k])
      PROVE  Served(R, q, t)
  <2>1. i - 1 \in 1..Len(R) /\ R[i - 1] = S[i]
    BY <1>1, <1>3
  <2>2. ASSUME NEW k \in 1..(i - 1) PROVE ~IsCode(R[k])
    <3>1. k + 1 \in 1..i /\ R[k + 1 - 1] = S[k + 1]
      BY <1>1, <2>1
    <3>2. k + 1 - 1 = k
      OBVIOUS
    <3> QED BY <1>3, <3>1, <3>2
  <2> QED BY <1>3, <2>1, <2>2 DEF Served
<1> QED BY <1>2, <1>3 DEF Served, R

-----------------------------------------------------------------------------
(* The queue and the list of events *)

\* The elements of two sequences that are joined
LEMMA Joined ==
  ASSUME NEW T, NEW s \in Seq(T), NEW r \in Seq(T)
  PROVE  /\ s \o r \in Seq(T) /\ Len(s \o r) = Len(s) + Len(r)
         /\ \A i \in 1..Len(s) : (s \o r)[i] = s[i]
         /\ \A i \in 1..(Len(s) + Len(r)) : i > Len(s) => (s \o r)[i] = r[i - Len(s)]
  OBVIOUS

\* What inserting an element at position a,
LEMMA InsertedAt ==
  ASSUME NEW T, NEW q \in Seq(T), NEW a \in 1..Len(q), NEW e \in T
  PROVE  /\ InsertAt(q, a, e) \in Seq(T) /\ Len(InsertAt(q, a, e)) = Len(q) + 1
         /\ \A i \in 1..(Len(q) + 1) :
              InsertAt(q, a, e)[i] = IF i < a THEN q[i] ELSE IF i = a THEN e ELSE q[i - 1]
<1> DEFINE s == SubSeq(q, 1, a - 1)
           r == SubSeq(q, a, Len(q))
<1>1. Len(q) \in Nat /\ a \in Nat
  OBVIOUS
<1>2. s \in Seq(T) /\ Len(s) = a - 1 /\ \A i \in 1..(a - 1) : s[i] = q[i]
  OBVIOUS
<1>3. r \in Seq(T) /\ Len(r) = Len(q) - a + 1 /\ \A i \in 1..(Len(q) - a + 1) : r[i] = q[a + i - 1]
  OBVIOUS
<1>4. InsertAt(q, a, e) = s \o <<e>> \o r
  BY DEF InsertAt
<1> HIDE DEF s, r
<1>5. s \o <<e>> \in Seq(T) /\ Len(s \o <<e>>) = a /\ (s \o <<e>>)[a] = e
      /\ \A i \in 1..(a - 1) : (s \o <<e>>)[i] = s[i]
  BY <1>1, <1>2
<1> DEFINE p == s \o <<e>>
<1> HIDE DEF p
<1>6. p \o r \in Seq(T) /\ Len(p \o r) = Len(q) + 1
      /\ (\A i \in 1..a : (p \o r)[i] = p[i])
      /\ \A i \in (a + 1)..(Len(q) + 1) : (p \o r)[i] = r[i - a]
  <2>1. p \in Seq(T) /\ Len(p) = a
    BY <1>5 DEF p
  <2>2. /\ p \o r \in Seq(T) /\ Len(p \o r) = Len(p) + Len(r)
        /\ \A i \in 1..Len(p) : (p \o r)[i] = p[i]
        /\ \A i \in 1..(Len(p) + Len(r)) : i > Len(p) => (p \o r)[i] = r[i - Len(p)]
    BY <1>3, <2>1, Joined, Zenon
  <2>3. Len(p) + Len(r) = Len(q) + 1
    BY <1>1, <1>3, <2>1
  <2>4. ASSUME NEW i \in (a + 1)..(Len(q) + 1) PROVE (p \o r)[i] = r[i - a]
    <3>1. i \in 1..(Len(p) + Len(r)) /\ i > Len(p) /\ i - Len(p) = i - a
      BY <1>1, <2>1, <2>3
    <3> QED BY <2>2, <3>1
  <2> QED BY <2>1, <2>2, <2>3, <2>4
<1>7. \A i \in (a + 1)..(Len(q) + 1) : r[i - a] = q[i - 1]
  BY <1>1, <1>3
<1> QED BY <1>1, <1>2, <1>4, <1>5, <1>6, <1>7 DEF p

\* and removing the one at position a, makes of a sequence.
LEMMA RemovedAt ==
  ASSUME NEW T, NEW q \in Seq(T), NEW a \in 1..Len(q)
  PROVE  /\ RemoveAt(q, a) \in Seq(T) /\ Len(RemoveAt(q, a)) = Len(q) - 1
         /\ \A i \in 1..(Len(q) - 1) : RemoveAt(q, a)[i] = IF i < a THEN q[i] ELSE q[i + 1]
<1> DEFINE s == SubSeq(q, 1, a - 1)
           r == SubSeq(q, a + 1, Len(q))
<1>1. Len(q) \in Nat /\ a \in Nat
  OBVIOUS
<1>2. s \in Seq(T) /\ Len(s) = a - 1 /\ \A i \in 1..(a - 1) : s[i] = q[i]
  OBVIOUS
<1>3. r \in Seq(T) /\ Len(r) = Len(q) - a /\ \A i \in 1..(Len(q) - a) : r[i] = q[a + i]
  OBVIOUS
<1>4. RemoveAt(q, a) = s \o r
  BY DEF RemoveAt
<1> HIDE DEF s, r
<1>5. s \o r \in Seq(T) /\ Len(s \o r) = Len(q) - 1
      /\ (\A i \in 1..(a - 1) : (s \o r)[i] = s[i])
      /\ \A i \in a..(Len(q) - 1) : (s \o r)[i] = r[i - (a - 1)]
  <2>2. /\ s \o r \in Seq(T) /\ Len(s \o r) = Len(s) + Len(r)
        /\ \A i \in 1..Len(s) : (s \o r)[i] = s[i]
        /\ \A i \in 1..(Len(s) + Len(r)) : i > Len(s) => (s \o r)[i] = r[i - Len(s)]
    BY <1>2, <1>3, Joined, Zenon
  <2>3. Len(s) + Len(r) = Len(q) - 1
    BY <1>1, <1>2, <1>3
  <2>4. ASSUME NEW i \in a..(Len(q) - 1) PROVE (s \o r)[i] = r[i - (a - 1)]
    <3>1. i \in 1..(Len(s) + Len(r)) /\ i > Len(s) /\ i - Len(s) = i - (a - 1)
      BY <1>1, <1>2, <2>3
    <3> QED BY <2>2, <3>1
  <2> QED BY <1>2, <2>2, <2>3, <2>4
<1>6. ASSUME NEW i \in a..(Len(q) - 1) PROVE r[i - (a - 1)] = q[i + 1]
  <2>1. i - (a - 1) \in 1..(Len(q) - a) /\ a + (i - (a - 1)) = i + 1
    BY <1>1
  <2> QED BY <1>3, <2>1
<1> QED BY <1>1, <1>2, <1>4, <1>5, <1>6

\* Removing an element leaves the others in their order.
LEMMA Removed ==
  ASSUME NEW T, NEW q \in Seq(T), IsInjective(q), NEW e, NEW r, r = RemoveFirst(q, e)
  PROVE  /\ r \in Seq(T \ {e}) /\ IsInjective(r)
         /\ ToSet(r) = ToSet(q) \ {e}
         /\ \A x, y : Before(r, x, y) <=> Before(q, x, y) /\ x # e /\ y # e
<1> DEFINE I == {i \in 1..Len(q) : q[i] = e}
<1>1. Len(q) \in Nat /\ DOMAIN q = 1..Len(q)
  OBVIOUS
<1>2. \A i, j \in 1..Len(q) : q[i] = q[j] => i = j
  BY <1>1 DEF IsInjective
<1>3. CASE I = {}
  <2>1. r = q /\ \A i \in 1..Len(q) : q[i] # e
    BY <1>3 DEF RemoveFirst
  <2>2. q \in Seq(T \ {e})
    <3>1. \A i \in 1..Len(q) : q[i] \in T \ {e}
      BY <2>1
    <3> QED BY <1>1, <3>1
  <2>3. ToSet(q) = ToSet(q) \ {e}
    BY <1>1, <2>1 DEF ToSet
  <2>4. \A x, y : Before(q, x, y) <=> Before(q, x, y) /\ x # e /\ y # e
    BY <2>1 DEF Before
  <2> QED BY <2>1, <2>2, <2>3, <2>4
<1>4. CASE I # {}
  <2>1. I \subseteq Nat
    BY <1>1
  <2>2. Min(I) \in I
    BY <1>4, <2>1, SmallestIndex
  <2>3. PICK a \in 1..Len(q) : a = Min(I) /\ q[a] = e
    BY <2>2
  <2>4. r = RemoveAt(q, a)
    <3>1. SelectInSeq(q, LAMBDA v : v = e) = Min(I)
      BY <1>4 DEF SelectInSeq
    <3> QED BY <1>4, <2>3, <3>1 DEF RemoveFirst
  <2>5. /\ r \in Seq(T) /\ Len(r) = Len(q) - 1
        /\ \A i \in 1..(Len(q) - 1) : r[i] = IF i < a THEN q[i] ELSE q[i + 1]
    BY <2>4, RemovedAt
  <2>6. DOMAIN r = 1..(Len(q) - 1) /\ Len(r) \in Nat
    BY <2>5
  <2> DEFINE up(i) == IF i < a THEN i ELSE i + 1
             down(i) == IF i < a THEN i ELSE i - 1
  <2>7. \A i \in 1..(Len(q) - 1) : up(i) \in 1..Len(q) /\ up(i) # a /\ r[i] = q[up(i)]
    BY <1>1, <2>5
  <2>8. \A i \in 1..Len(q) : i # a => down(i) \in 1..(Len(q) - 1) /\ r[down(i)] = q[i]
    BY <1>1, <2>5
  <2>9. \A i, j \in 1..(Len(q) - 1) : (i < j <=> up(i) < up(j)) /\ (up(i) = up(j) => i = j)
    BY <1>1
  <2>10. \A i, j \in 1..Len(q) : i # a /\ j # a /\ i < j => down(i) < down(j)
    BY <1>1
  <2>11. \A i \in 1..(Len(q) - 1) : r[i] # e
    BY <1>2, <2>3, <2>7
  <2> HIDE DEF up, down
  <2>12. r \in Seq(T \ {e})
    BY <2>5, <2>6, <2>11
  <2>13. IsInjective(r)
    <3> SUFFICES ASSUME NEW i \in 1..(Len(q) - 1), NEW j \in 1..(Len(q) - 1), r[i] = r[j] PROVE i = j
      BY <2>6 DEF IsInjective
    <3>1. up(i) = up(j)
      BY <1>2, <2>7
    <3> QED BY <2>9, <3>1
  <2>14. ToSet(r) = ToSet(q) \ {e}
    <3>1. ASSUME NEW x \in ToSet(r) PROVE x \in ToSet(q) \ {e}
      BY <1>1, <2>6, <2>7, <2>11, <3>1 DEF ToSet
    <3>2. ASSUME NEW x \in ToSet(q) \ {e} PROVE x \in ToSet(r)
      <4>1. PICK i \in 1..Len(q) : q[i] = x
        BY <1>1 DEF ToSet
      <4>2. i # a
        BY <2>3, <4>1
      <4> QED BY <2>6, <2>8, <4>1, <4>2 DEF ToSet
    <3> QED BY <3>1, <3>2
  <2>15. ASSUME NEW x, NEW y, Before(r, x, y) PROVE Before(q, x, y) /\ x # e /\ y # e
    <3>1. PICK i, j \in 1..(Len(q) - 1) : i < j /\ r[i] = x /\ r[j] = y
      BY <2>5, <2>15 DEF Before
    <3>2. up(i) \in 1..Len(q) /\ up(j) \in 1..Len(q) /\ up(i) < up(j) /\ q[up(i)] = x /\ q[up(j)] = y
      BY <2>7, <2>9, <3>1
    <3> QED BY <2>11, <3>1, <3>2 DEF Before
  <2>16. ASSUME NEW x, NEW y, Before(q, x, y), x # e, y # e PROVE Before(r, x, y)
    <3>1. PICK i, j \in 1..Len(q) : i < j /\ q[i] = x /\ q[j] = y
      BY <2>16 DEF Before
    <3>2. i # a /\ j # a
      BY <2>3, <2>16, <3>1
    <3>3. down(i) \in 1..Len(r) /\ down(j) \in 1..Len(r) /\ down(i) < down(j) /\ r[down(i)] = x /\ r[down(j)] = y
      BY <2>5, <2>8, <2>10, <3>1, <3>2
    <3> QED BY <3>3 DEF Before
  <2> QED BY <2>12, <2>13, <2>14, <2>15, <2>16
<1> QED BY <1>3, <1>4

\* A queue of events of L
QueueOK(q, L) == q \in Seq(L) /\ IsInjective(q) /\ Sorted(q)

\* efi_queue_event() keeps the queue sorted, and adds the event to it.
LEMMA QueueInserted ==
  ASSUME NEW L, L \subseteq Events, QueueOK(event_queue, L),
         NEW e \in L, HasFunction(e), e \notin ToSet(event_queue)
  PROVE  QueueOK(Inserted(e), L) /\ ToSet(Inserted(e)) = ToSet(event_queue) \cup {e}
<1> DEFINE q == event_queue
           r == Inserted(e)
           I == {i \in 1..Len(q) : NotifyTpl[q[i]] < NotifyTpl[e]}
<1>1. Len(q) \in Nat /\ DOMAIN q = 1..Len(q) /\ q \in Seq(L) /\ IsInjective(q) /\ Sorted(q)
  BY DEF QueueOK
<1>2. ASSUME NEW i \in 1..Len(q) PROVE q[i] \in L /\ q[i] # e /\ NotifyTpl[q[i]] \in Nat
  <2>1. q[i] \in L
    BY <1>1
  <2>2. q[i] # e
    BY <1>1 DEF ToSet
  <2>3. NotifyTpl[q[i]] \in Nat
    <3> HIDE DEF q
    <3> QED BY <2>1, Levels4816 DEF LevelFacts
  <2> QED BY <2>1, <2>2, <2>3
<1>3. NotifyTpl[e] \in Nat
  BY Levels4816 DEF LevelFacts
<1>4. \E a \in 1..(Len(q) + 1) :
        /\ r \in Seq(L) /\ Len(r) = Len(q) + 1
        /\ \A i \in 1..(Len(q) + 1) : r[i] = IF i < a THEN q[i] ELSE IF i = a THEN e ELSE q[i - 1]
        /\ \A i \in 1..Len(q) : i < a => NotifyTpl[e] <= NotifyTpl[q[i]]
        /\ \A i \in 1..Len(q) : a <= i => NotifyTpl[q[i]] <= NotifyTpl[e]
  <2>1. SelectInSeq(q, LAMBDA i : NotifyTpl[i] < NotifyTpl[e]) = IF I # {} THEN Min(I) ELSE 0
    BY DEF SelectInSeq
  <2>2. CASE I = {}
    <3>1. r = Append(q, e)
      BY <2>1, <2>2 DEF Inserted
    <3> HIDE DEF r, q
    <3>2. /\ r \in Seq(L) /\ Len(r) = Len(q) + 1
          /\ \A i \in 1..(Len(q) + 1) :
               r[i] = IF i < Len(q) + 1 THEN q[i] ELSE IF i = Len(q) + 1 THEN e ELSE q[i - 1]
      BY <1>1, <3>1
    <3>3. \A i \in 1..Len(q) : NotifyTpl[e] <= NotifyTpl[q[i]]
      BY <1>2, <1>3, <2>2
    <3>4. Len(q) + 1 \in 1..(Len(q) + 1) /\ \A i \in 1..Len(q) : ~(Len(q) + 1 <= i)
      BY <1>1
    <3> QED BY <3>2, <3>3, <3>4
  <2>3. CASE I # {}
    <3>1. I \subseteq Nat
      BY <1>1
    <3>2. Min(I) \in I /\ \A y \in I : Min(I) <= y
      BY <2>3, <3>1, SmallestIndex
    <3>3. PICK a \in 1..Len(q) : a = Min(I) /\ NotifyTpl[q[a]] < NotifyTpl[e]
      BY <3>2
    <3>4. r = InsertAt(q, a, e)
      <4>1. a # 0
        BY <1>1
      <4> QED BY <2>1, <2>3, <3>3, <4>1 DEF Inserted
    <3> HIDE DEF r, q
    <3>5. /\ r \in Seq(L) /\ Len(r) = Len(q) + 1
          /\ \A i \in 1..(Len(q) + 1) : r[i] = IF i < a THEN q[i] ELSE IF i = a THEN e ELSE q[i - 1]
      <4>1. /\ InsertAt(q, a, e) \in Seq(L) /\ Len(InsertAt(q, a, e)) = Len(q) + 1
            /\ \A i \in 1..(Len(q) + 1) :
                 InsertAt(q, a, e)[i] = IF i < a THEN q[i] ELSE IF i = a THEN e ELSE q[i - 1]
        <5>1. q \in Seq(L) /\ a \in 1..Len(q) /\ e \in L
          BY <1>1
        <5> QED BY <5>1, InsertedAt
      <4> QED BY <3>4, <4>1
    <3>6. ASSUME NEW i \in 1..Len(q), i < a PROVE NotifyTpl[e] <= NotifyTpl[q[i]]
      <4>1. i \notin I
        BY <1>1, <3>2, <3>3, <3>6
      <4> QED BY <1>2, <1>3, <4>1
    <3>7. ASSUME NEW i \in 1..Len(q), a <= i PROVE NotifyTpl[q[i]] <= NotifyTpl[e]
      <4>1. NotifyTpl[q[i]] <= NotifyTpl[q[a]]
        BY <1>1, <1>2, <3>7 DEF Sorted
      <4> QED BY <1>2, <1>3, <3>3, <4>1
    <3>8. a \in 1..(Len(q) + 1)
      BY <1>1
    <3> QED BY <3>5, <3>6, <3>7, <3>8
  <2> QED BY <2>2, <2>3
<1>5. PICK a \in 1..(Len(q) + 1) :
        /\ r \in Seq(L) /\ Len(r) = Len(q) + 1
        /\ \A i \in 1..(Len(q) + 1) : r[i] = IF i < a THEN q[i] ELSE IF i = a THEN e ELSE q[i - 1]
        /\ \A i \in 1..Len(q) : i < a => NotifyTpl[e] <= NotifyTpl[q[i]]
        /\ \A i \in 1..Len(q) : a <= i => NotifyTpl[q[i]] <= NotifyTpl[e]
  BY <1>4
<1> HIDE DEF r, q
<1>6. DOMAIN r = 1..(Len(q) + 1)
  BY <1>1, <1>5
<1>7. IsInjective(r)
  <2>1. \A i, j \in 1..Len(q) : q[i] = q[j] => i = j
    BY <1>1 DEF IsInjective
  <2> SUFFICES ASSUME NEW i \in 1..(Len(q) + 1), NEW j \in 1..(Len(q) + 1), r[i] = r[j], i < j
               PROVE  FALSE
    BY <1>1, <1>6 DEF IsInjective
  <2>2. CASE i = a
    BY <1>1, <1>2, <1>5, <2>2
  <2>3. CASE j = a
    BY <1>1, <1>2, <1>5, <2>3
  <2>4. CASE i # a /\ j # a
    <3>1. PICK k \in 1..Len(q) : r[i] = q[k] /\ ((i < a /\ k = i) \/ (a < i /\ k = i - 1))
      <4>1. CASE i < a
        <5>1. i \in 1..Len(q) /\ r[i] = q[i]
          BY <1>1, <1>5, <4>1
        <5> QED BY <4>1, <5>1
      <4>2. CASE a < i
        <5>1. i - 1 \in 1..Len(q) /\ r[i] = q[i - 1]
          BY <1>1, <1>5, <4>2
        <5> QED BY <4>2, <5>1
      <4> QED BY <2>4, <4>1, <4>2
    <3>2. PICK l \in 1..Len(q) : r[j] = q[l] /\ ((j < a /\ l = j) \/ (a < j /\ l = j - 1))
      <4>1. CASE j < a
        <5>1. j \in 1..Len(q) /\ r[j] = q[j]
          BY <1>1, <1>5, <4>1
        <5> QED BY <4>1, <5>1
      <4>2. CASE a < j
        <5>1. j - 1 \in 1..Len(q) /\ ~(j < a) /\ j # a
          BY <1>1, <4>2
        <5>2. r[j] = q[j - 1]
          BY <1>5, <5>1
        <5> QED BY <4>2, <5>1, <5>2
      <4> QED BY <2>4, <4>1, <4>2
    <3>3. k = l
      BY <2>1, <3>1, <3>2
    <3> QED BY <3>1, <3>2, <3>3
  <2> QED BY <2>2, <2>3, <2>4
<1>8. Sorted(r)
  <2>1. ASSUME NEW i \in 1..(Len(q) + 1) PROVE HasFunction(r[i])
    BY <1>1, <1>5 DEF Sorted, q
  <2>2. \A i, j \in 1..Len(q) : i < j => NotifyTpl[q[j]] <= NotifyTpl[q[i]]
    BY <1>1 DEF Sorted
  <2>3. ASSUME NEW i \in 1..(Len(q) + 1), NEW j \in 1..(Len(q) + 1), i < j
        PROVE  NotifyTpl[r[j]] <= NotifyTpl[r[i]]
    <3>1. CASE i = a
      <4>1. j - 1 \in 1..Len(q) /\ a <= j - 1 /\ r[j] = q[j - 1] /\ r[i] = e
        BY <1>1, <1>5, <2>3, <3>1
      <4> QED BY <1>5, <4>1
    <3>2. CASE j = a
      <4>1. i \in 1..Len(q) /\ r[i] = q[i] /\ r[j] = e
        BY <1>1, <1>5, <2>3, <3>2
      <4> QED BY <1>5, <2>3, <3>2, <4>1
    <3>3. CASE i < a /\ j < a
      <4>1. i \in 1..Len(q) /\ j \in 1..Len(q) /\ r[i] = q[i] /\ r[j] = q[j]
        BY <1>1, <1>5, <2>3, <3>3
      <4> QED BY <2>2, <2>3, <4>1
    <3>4. CASE i < a /\ a < j
      <4>1. i < j - 1 \/ i = j - 1
        BY <1>1, <1>5, <2>3, <3>4
      <4>2. i \in 1..Len(q) /\ j - 1 \in 1..Len(q) /\ r[i] = q[i] /\ r[j] = q[j - 1]
        BY <1>1, <1>5, <2>3, <3>4
      <4>3. NotifyTpl[q[i]] \in Nat
        BY <1>2, <4>2
      <4> QED BY <2>2, <4>1, <4>2, <4>3
    <3>5. CASE a < i
      <4>1. i - 1 \in 1..Len(q) /\ j - 1 \in 1..Len(q) /\ r[i] = q[i - 1] /\ r[j] = q[j - 1] /\ i - 1 < j - 1
        BY <1>1, <1>5, <2>3, <3>5
      <4> QED BY <2>2, <4>1
    <3> QED BY <1>5, <2>3, <3>1, <3>2, <3>3, <3>4, <3>5
  <2> QED BY <1>5, <2>1, <2>3 DEF Sorted
<1>9. ToSet(r) = ToSet(q) \cup {e}
  <2>1. ASSUME NEW x \in ToSet(r) PROVE x \in ToSet(q) \cup {e}
    <3>1. PICK i \in 1..(Len(q) + 1) : r[i] = x
      BY <1>6 DEF ToSet
    <3>2. CASE i = a
      BY <1>5, <3>1, <3>2
    <3>3. CASE i # a
      <4>1. (i \in 1..Len(q) /\ x = q[i]) \/ (i - 1 \in 1..Len(q) /\ x = q[i - 1])
        BY <1>1, <1>5, <3>1, <3>3
      <4> QED BY <1>1, <4>1 DEF ToSet
    <3> QED BY <3>2, <3>3
  <2>2. ASSUME NEW x \in ToSet(q) PROVE x \in ToSet(r)
    <3>1. PICK i \in 1..Len(q) : q[i] = x
      BY <1>1 DEF ToSet
    <3>2. (i \in 1..(Len(q) + 1) /\ r[i] = x) \/ (i + 1 \in 1..(Len(q) + 1) /\ r[i + 1] = x)
      BY <1>1, <1>5, <3>1
    <3> QED BY <1>6, <3>2 DEF ToSet
  <2>3. e \in ToSet(r)
    BY <1>5, <1>6 DEF ToSet
  <2> QED BY <2>1, <2>2, <2>3
<1> QED BY <1>5, <1>7, <1>8, <1>9 DEF QueueOK, q, r

\* The queue without its first event, whose level is the highest.
LEMMA QueueTail ==
  ASSUME NEW q, NEW L, L \subseteq Events, QueueOK(q, L), q # <<>>
  PROVE  /\ QueueOK(Tail(q), L) /\ Head(q) \in L /\ HasFunction(Head(q))
         /\ ToSet(q) = {Head(q)} \cup ToSet(Tail(q))
         /\ \A x \in ToSet(q) : NotifyTpl[x] <= NotifyTpl[Head(q)]
<1> DEFINE r == Tail(q)
<1>1. Len(q) \in Nat /\ DOMAIN q = 1..Len(q) /\ q \in Seq(L) /\ IsInjective(q) /\ Sorted(q) /\ Len(q) >= 1
  BY DEF QueueOK
<1>2. r \in Seq(L) /\ Len(r) = Len(q) - 1 /\ (\A i \in 1..(Len(q) - 1) : r[i] = q[i + 1]) /\ Head(q) = q[1]
  BY <1>1
<1> HIDE DEF r
<1>3. DOMAIN r = 1..(Len(q) - 1)
  BY <1>1, <1>2
<1>4. IsInjective(r)
  <2>1. \A i, j \in 1..Len(q) : q[i] = q[j] => i = j
    BY <1>1 DEF IsInjective
  <2> SUFFICES ASSUME NEW i \in 1..(Len(q) - 1), NEW j \in 1..(Len(q) - 1), r[i] = r[j] PROVE i = j
    BY <1>3 DEF IsInjective
  <2>2. i + 1 \in 1..Len(q) /\ j + 1 \in 1..Len(q) /\ q[i + 1] = q[j + 1]
    BY <1>1, <1>2
  <2> QED BY <2>1, <2>2
<1>5. Sorted(r)
  <2>1. ASSUME NEW i \in 1..(Len(q) - 1) PROVE HasFunction(r[i])
    <3>1. i + 1 \in 1..Len(q) /\ r[i] = q[i + 1]
      BY <1>1, <1>2
    <3> QED BY <1>1, <3>1 DEF Sorted
  <2>2. ASSUME NEW i \in 1..(Len(q) - 1), NEW j \in 1..(Len(q) - 1), i < j
        PROVE  NotifyTpl[r[j]] <= NotifyTpl[r[i]]
    <3>1. i + 1 \in 1..Len(q) /\ r[i] = q[i + 1] /\ j + 1 \in 1..Len(q) /\ r[j] = q[j + 1] /\ i + 1 < j + 1
      BY <1>1, <1>2, <2>2
    <3> QED BY <1>1, <3>1 DEF Sorted
  <2> QED BY <1>2, <2>1, <2>2 DEF Sorted
<1>6. ToSet(q) = {Head(q)} \cup ToSet(r)
  <2>1. ASSUME NEW x \in ToSet(q) PROVE x \in {Head(q)} \cup ToSet(r)
    <3>1. PICK i \in 1..Len(q) : q[i] = x
      BY <1>1 DEF ToSet
    <3>2. CASE i = 1
      BY <1>2, <3>1, <3>2
    <3>3. CASE i # 1
      <4>1. i - 1 \in 1..(Len(q) - 1) /\ r[i - 1] = x
        BY <1>1, <1>2, <3>1, <3>3
      <4> QED BY <1>3, <4>1 DEF ToSet
    <3> QED BY <3>2, <3>3
  <2>2. ASSUME NEW x \in ToSet(r) PROVE x \in ToSet(q)
    <3>1. PICK i \in 1..(Len(q) - 1) : r[i] = x
      BY <1>3 DEF ToSet
    <3>2. i + 1 \in 1..Len(q) /\ q[i + 1] = x
      BY <1>1, <1>2, <3>1
    <3> QED BY <1>1, <3>2 DEF ToSet
  <2>3. Head(q) \in ToSet(q)
    <3>1. 1 \in 1..Len(q)
      BY <1>1
    <3> QED BY <1>1, <1>2, <3>1 DEF ToSet
  <2> QED BY <2>1, <2>2, <2>3
<1>7. Head(q) \in L /\ HasFunction(Head(q))
  <2>1. 1 \in 1..Len(q)
    BY <1>1
  <2> QED BY <1>1, <1>2, <2>1 DEF Sorted
<1>8. ASSUME NEW x \in ToSet(q) PROVE NotifyTpl[x] <= NotifyTpl[Head(q)]
  <2>1. PICK i \in 1..Len(q) : q[i] = x
    BY <1>1 DEF ToSet
  <2>2. CASE i = 1
    <3>1. NotifyTpl[x] \in Nat /\ x = Head(q)
      BY <1>2, <1>7, <2>1, <2>2, Levels4816 DEF LevelFacts
    <3> QED BY <3>1
  <2>3. CASE i # 1
    <3>1. 1 \in 1..Len(q) /\ 1 < i
      BY <1>1, <2>3
    <3> QED BY <1>1, <1>2, <2>1, <3>1 DEF Sorted
  <2> QED BY <2>2, <2>3
<1> QED BY <1>2, <1>4, <1>5, <1>6, <1>7, <1>8 DEF QueueOK, r

\* efi_close_event() takes the event out of the queue.
LEMMA QueueRemoved ==
  ASSUME NEW q, NEW L, QueueOK(q, L), NEW e, NEW r, r = RemoveFirst(q, e)
  PROVE  QueueOK(r, L \ {e}) /\ ToSet(r) = ToSet(q) \ {e}
<1>1. q \in Seq(L) /\ IsInjective(q) /\ Sorted(q)
  BY DEF QueueOK
<1>2. /\ r \in Seq(L \ {e}) /\ IsInjective(r)
      /\ ToSet(r) = ToSet(q) \ {e}
      /\ \A x, y : Before(r, x, y) <=> Before(q, x, y) /\ x # e /\ y # e
  BY <1>1, Removed
<1>3. DOMAIN q = 1..Len(q) /\ DOMAIN r = 1..Len(r)
  BY <1>1, <1>2
<1>4. ASSUME NEW i \in 1..Len(r) PROVE HasFunction(r[i])
  <2>1. r[i] \in ToSet(q)
    BY <1>2, <1>3 DEF ToSet
  <2>2. PICK j \in 1..Len(q) : q[j] = r[i]
    BY <1>3, <2>1 DEF ToSet
  <2> QED BY <1>1, <2>2 DEF Sorted
<1>5. ASSUME NEW i \in 1..Len(r), NEW j \in 1..Len(r), i < j
      PROVE  NotifyTpl[r[j]] <= NotifyTpl[r[i]]
  <2>1. Before(r, r[i], r[j])
    BY <1>5 DEF Before
  <2>2. Before(q, r[i], r[j])
    BY <1>2, <2>1, Zenon
  <2>3. PICK k, l \in 1..Len(q) : k < l /\ q[k] = r[i] /\ q[l] = r[j]
    BY <2>2 DEF Before
  <2> QED BY <1>1, <2>3 DEF Sorted
<1> QED BY <1>2, <1>4, <1>5 DEF QueueOK, Sorted

\* efi_create_event() puts the event at the end of the list.
LEMMA Appended ==
  ASSUME NEW T, NEW q \in Seq(T), IsInjective(q), NEW e \in T, e \notin ToSet(q),
         NEW r \in Seq(T), Len(r) = Len(q) + 1, \A i \in 1..Len(q) : r[i] = q[i], r[Len(q) + 1] = e
  PROVE  /\ r \in Seq(T) /\ IsInjective(r) /\ ToSet(r) = ToSet(q) \cup {e}
         /\ \A x, y : Before(q, x, y) => Before(r, x, y)
<1>1. /\ r \in Seq(T) /\ Len(r) = Len(q) + 1 /\ Len(q) \in Nat
      /\ \A i \in 1..Len(q) : r[i] = q[i]
      /\ r[Len(q) + 1] = e
  OBVIOUS
<1>2. DOMAIN q = 1..Len(q) /\ DOMAIN r = 1..(Len(q) + 1)
  BY <1>1
<1>3. \A i \in 1..Len(q) : q[i] # e
  BY <1>2 DEF ToSet
<1>4. IsInjective(r)
  <2> SUFFICES ASSUME NEW i \in 1..(Len(q) + 1), NEW j \in 1..(Len(q) + 1), r[i] = r[j] PROVE i = j
    BY <1>2 DEF IsInjective
  <2>1. CASE i = Len(q) + 1
    <3>1. j \in 1..Len(q) \/ j = Len(q) + 1
      BY <1>1
    <3> QED BY <1>1, <1>3, <2>1, <3>1
  <2>2. CASE i # Len(q) + 1
    <3>1. i \in 1..Len(q) /\ (j \in 1..Len(q) \/ j = Len(q) + 1)
      BY <1>1, <2>2
    <3>2. j \in 1..Len(q)
      BY <1>1, <1>3, <3>1
    <3>3. q[i] = q[j]
      BY <1>1, <3>1, <3>2
    <3> QED BY <1>2, <3>1, <3>2, <3>3 DEF IsInjective
  <2> QED BY <2>1, <2>2
<1>5. ToSet(r) = ToSet(q) \cup {e}
  <2>1. ASSUME NEW x \in ToSet(r) PROVE x \in ToSet(q) \cup {e}
    <3>1. PICK i \in 1..(Len(q) + 1) : r[i] = x
      BY <1>2 DEF ToSet
    <3>2. i \in 1..Len(q) \/ i = Len(q) + 1
      BY <1>1
    <3> QED BY <1>1, <1>2, <3>1, <3>2 DEF ToSet
  <2>2. ASSUME NEW x \in ToSet(q) PROVE x \in ToSet(r)
    <3>1. PICK i \in 1..Len(q) : q[i] = x
      BY <1>2 DEF ToSet
    <3>2. i \in 1..(Len(q) + 1) /\ r[i] = x
      BY <1>1, <3>1
    <3> QED BY <1>2, <3>2 DEF ToSet
  <2>3. e \in ToSet(r)
    <3>1. Len(q) + 1 \in 1..(Len(q) + 1)
      BY <1>1
    <3> QED BY <1>1, <1>2, <3>1 DEF ToSet
  <2> QED BY <2>1, <2>2, <2>3
<1>6. ASSUME NEW x, NEW y, Before(q, x, y) PROVE Before(r, x, y)
  <2>1. PICK i, j \in 1..Len(q) : i < j /\ q[i] = x /\ q[j] = y
    BY <1>6 DEF Before
  <2>2. i \in 1..Len(r) /\ j \in 1..Len(r) /\ r[i] = x /\ r[j] = y
    BY <1>1, <2>1
  <2> QED BY <2>1, <2>2 DEF Before
<1> QED BY <1>1, <1>4, <1>5, <1>6

\* The first event of S on the list comes before the others.
LEMMA FirstIn ==
  ASSUME NEW T, events \in Seq(T), IsInjective(events), NEW S, S \subseteq Live, S # {}
  PROVE  FirstOf(S) \in S /\ \A x \in S : x = FirstOf(S) \/ Before(events, FirstOf(S), x)
<1> DEFINE I == {i \in 1..Len(events) : events[i] \in S}
<1>1. Len(events) \in Nat /\ DOMAIN events = 1..Len(events)
  OBVIOUS
<1>2. I \subseteq Nat
  BY <1>1
<1>3. \A x \in S : \E i \in I : events[i] = x
  BY <1>1 DEF Live, ToSet
<1>4. I # {}
  BY <1>3
<1>5. Min(I) \in I /\ \A y \in I : Min(I) <= y
  BY <1>2, <1>4, SmallestIndex
<1>6. FirstOf(S) = events[Min(I)]
  <2>1. SelectInSeq(events, LAMBDA e : e \in S) = Min(I)
    BY <1>4 DEF SelectInSeq
  <2> QED BY <2>1 DEF FirstOf
<1> DEFINE m == Min(I)
<1>7. m \in 1..Len(events) /\ m \in Nat /\ events[m] \in S
  BY <1>2, <1>5
<1> HIDE DEF m
<1>8. ASSUME NEW x \in S PROVE x = events[m] \/ Before(events, events[m], x)
  <2>1. PICK i \in I : events[i] = x
    BY <1>3
  <2>2. i \in 1..Len(events) /\ m <= i
    BY <1>5, <2>1 DEF m
  <2>3. CASE m = i
    BY <2>1, <2>3
  <2>4. CASE m # i
    <3>1. m < i
      BY <1>7, <2>2, <2>4
    <3> QED BY <1>7, <2>1, <2>2, <3>1 DEF Before
  <2> QED BY <2>3, <2>4
<1> QED BY <1>6, <1>7, <1>8 DEF m

-----------------------------------------------------------------------------
(* Queueing and signaling *)

\* efi_queue_event(e) with the frames `rest' to go on with
LEMMA QueueGood ==
  ASSUME NEW L, L \subseteq Events, NEW e \in L, NEW t, NEW rest,
         QueueOK(event_queue, L), StackOK(rest, L, t), Served(rest, event_queue, t),
         efi_queue_event(e, rest)
  PROVE  /\ QueueOK(event_queue', L) /\ StackOK(stack', L, t) /\ Served(stack', event_queue', t)
         /\ ToSet(event_queue') = ToSet(event_queue) \cup (IF HasFunction(e) THEN {e} ELSE {})
         /\ stack' = rest \/ stack' = <<Process>> \o rest
<1>1. CASE ~HasFunction(e) \/ e \in ToSet(event_queue)
  BY <1>1 DEF efi_queue_event
<1>2. CASE ~(~HasFunction(e) \/ e \in ToSet(event_queue))
  <2>1. event_queue' = Inserted(e) /\ stack' = <<Process>> \o rest /\ HasFunction(e)
    BY <1>2 DEF efi_queue_event
  <2>2. QueueOK(event_queue', L) /\ ToSet(event_queue') = ToSet(event_queue) \cup {e}
    BY <1>2, <2>1, QueueInserted
  <2>3. Process \in Frames /\ Process.op = "process"
    BY FramesMade
  <2>4. ~IsCode(Process) /\ Process.op \notin ExitOps /\ Needs(Process) = {} /\ rest \in Seq(Frames)
    BY <2>3 DEF IsCode, CodeOps, ExitOps, Needs, Refers, StackOK
  <2>5. StackOK(stack', L, t)
    BY <2>1, <2>3, <2>4, PushStack
  <2>6. Served(stack', event_queue', t)
    BY <2>1, <2>3, <2>4, PushServed
  <2> QED BY <2>1, <2>2, <2>5, <2>6
<1> QED BY <1>1, <1>2

\* efi_signal_event(e)
LEMMA SignalGood ==
  ASSUME Live \subseteq Events, NEW e \in Live, NEW t, NEW rest, NEW sig, NEW grp,
         QueueOK(event_queue, Live), StackOK(rest, Live, t), Served(rest, event_queue, t),
         efi_signal_event(e, sig, grp, rest)
  PROVE  /\ QueueOK(event_queue', Live) /\ StackOK(stack', Live, t) /\ Served(stack', event_queue', t)
         /\ ToSet(event_queue) \subseteq ToSet(event_queue')
         /\ stack' \in {rest, <<Process>> \o rest, <<GroupWalk(e, NoEvent)>> \o rest}
         /\ \/ signaled' = sig
            \/ /\ e \notin sig /\ grp[e] # NoGroup /\ signaled' = sig \cup Members(grp, grp[e])
               /\ stack' = <<GroupWalk(e, NoEvent)>> \o rest
            \/ /\ e \notin sig /\ grp[e] = NoGroup /\ signaled' = sig \cup {e}
               /\ HasFunction(e) => e \in ToSet(event_queue')
<1>1. CASE e \in sig /\ signaled' = sig /\ stack' = rest /\ UNCHANGED event_queue
  BY <1>1
<1>2. CASE /\ e \notin sig /\ grp[e] # NoGroup
           /\ signaled' = sig \cup Members(grp, grp[e])
           /\ stack' = <<GroupWalk(e, NoEvent)>> \o rest
           /\ UNCHANGED event_queue
  <2> DEFINE g == GroupWalk(e, NoEvent)
  <2>1. e \in Events /\ NoEvent \in EventOrNone
    BY DEF EventOrNone
  <2>2. g \in Frames /\ g.op = "group" /\ g.ev = e /\ g.at = NoEvent
    BY <2>1, FramesMade
  <2> HIDE DEF g
  <2>3. ~IsCode(g) /\ g.op \notin ExitOps /\ Needs(g) \subseteq Live \cup {NoEvent} /\ rest \in Seq(Frames)
    BY <2>2 DEF IsCode, CodeOps, ExitOps, Needs, Refers, StackOK
  <2>4. StackOK(<<g>> \o rest, Live, t)
    BY <2>2, <2>3, PushStack
  <2>5. Served(<<g>> \o rest, event_queue, t)
    BY <2>2, <2>3, PushServed
  <2> QED BY <1>2, <2>4, <2>5 DEF g
<1>3. CASE e \notin sig /\ grp[e] = NoGroup /\ signaled' = sig \cup {e} /\ efi_queue_event(e, rest)
  <2>1. /\ QueueOK(event_queue', Live) /\ StackOK(stack', Live, t) /\ Served(stack', event_queue', t)
        /\ ToSet(event_queue') = ToSet(event_queue) \cup (IF HasFunction(e) THEN {e} ELSE {})
        /\ stack' = rest \/ stack' = <<Process>> \o rest
    BY <1>3, QueueGood
  <2> QED BY <1>3, <2>1
<1> QED BY <1>1, <1>2, <1>3 DEF efi_signal_event

-----------------------------------------------------------------------------
(* The levels: every step keeps CoreInv *)

\* What holds while there are boot services,
LEMMA BootFacts ==
  ASSUME CoreInv, boottime
  PROVE  /\ prog \in Programs /\ prog \subseteq Events /\ prog \cap Internal \in {{}, Internal}
         /\ events \in Seq(prog) /\ IsInjective(events)
         /\ Live \subseteq prog /\ Live \subseteq Events /\ NoEvent \notin Live
         /\ group \in [Events -> Groups \cup {NoGroup}] /\ group[wait_for_key] = NoGroup
         /\ trigger \in [Events -> Triggers] /\ timers_enabled \in BOOLEAN
         /\ QueueOK(event_queue, Live) /\ Served(stack, event_queue, tpl)
         /\ StackOK(stack, Live, tpl) /\ tpl \in TplLevels
         /\ stack \in Seq(Frames) /\ stack # <<>> /\ Top \in Frames
         /\ signaled \subseteq Live /\ calls \in 0..MaxCalls /\ untold \subseteq Events
         /\ (Internal \subseteq prog => Internal \subseteq Live)
<1>1. /\ prog \in Programs /\ events \in Seq(prog) /\ IsInjective(events)
      /\ group \in [Events -> Groups \cup {NoGroup}] /\ trigger \in [Events -> Triggers]
      /\ timers_enabled \in BOOLEAN
      /\ event_queue \in Seq(Live) /\ IsInjective(event_queue)
      /\ signaled \subseteq Live /\ calls \in 0..MaxCalls /\ untold \subseteq Events
  BY DEF CoreInv, TypeOK
<1>2. prog \subseteq Events /\ prog \cap Internal \in {{}, Internal} /\ NoEvent \notin Events
  BY <1>1, EventsAssumption
<1>3. Live \subseteq prog
  BY <1>1 DEF Live, ToSet
<1>4. /\ Sorted(event_queue) /\ Served(stack, event_queue, tpl)
      /\ StackOK(stack, Live, tpl) /\ tpl \in TplLevels
  BY DEF CoreInv, LevelInv
<1>5. stack \in Seq(Frames) /\ stack # <<>>
  BY <1>4 DEF StackOK
<1>6. Top \in Frames
  BY <1>5 DEF Top
<1>7. (Internal \subseteq prog => Internal \subseteq Live) /\ group[wait_for_key] = NoGroup
  BY DEF CoreInv, OwnInv
<1> QED BY <1>1, <1>2, <1>3, <1>4, <1>5, <1>6, <1>7 DEF QueueOK

\* which is as long as calls are in progress,
LEMMA TopBoots ==
  ASSUME CoreInv, NEW o, IsTop(o)
  PROVE  boottime /\ stack # <<>> /\ Top.op = o
  BY DEF CoreInv, LevelInv, IsTop

\* and for the callers of services.
LEMMA CallerFacts ==
  ASSUME CoreInv, Caller
  PROVE  boottime /\ Top.op \in {"app", "notify"} /\ IsCode(Top) /\ calls' \in 0..MaxCalls
<1>1. calls \in 0..MaxCalls /\ MaxCalls \in Nat
  BY BoundAssumption DEF CoreInv, TypeOK
<1>2. boottime /\ Top.op \in {"app", "notify"} /\ (IsTop("app") \/ calls < MaxCalls)
  BY DEF Caller, IsTop
<1>3. calls' \in 0..MaxCalls
  BY <1>1, <1>2 DEF Caller
<1> QED BY <1>2, <1>3 DEF IsCode, CodeOps

\* A step after which there are boot services keeps the invariant if it keeps
\* each part.
LEMMA Rebuilt ==
  ASSUME prog' \in Programs, events' \in Seq(prog'), IsInjective(events'),
         group' \in [Events -> Groups \cup {NoGroup}], group'[wait_for_key] = NoGroup,
         trigger' \in [Events -> Triggers], timers_enabled' \in BOOLEAN, boottime' = TRUE,
         tpl' \in TplLevels, calls' \in 0..MaxCalls, untold' \subseteq Events,
         signaled' \subseteq Live', QueueOK(event_queue', Live'),
         StackOK(stack', Live', tpl'), Served(stack', event_queue', tpl'),
         Internal \subseteq prog' => Internal \subseteq Live'
  PROVE  CoreInv'
<1>1. event_queue' \in Seq(Live') /\ IsInjective(event_queue') /\ Sorted(event_queue')
  BY DEF QueueOK
<1>2. stack' \in Seq(Frames) /\ Uses(stack', Live')
  BY DEF StackOK
<1>3. InUse' \subseteq Live' \cup {NoEvent}
  <2> SUFFICES ASSUME NEW i \in DOMAIN stack' PROVE Refers(stack'[i]) \subseteq Live' \cup {NoEvent}
    BY DEF InUse
  <2>1. i \in 1..Len(stack')
    BY <1>2
  <2> QED BY <1>2, <2>1 DEF Uses, Needs
<1>4. TypeOK'
  <2>1. Live' \subseteq prog'
    BY DEF Live, ToSet
  <2>2. event_queue' \in Seq(prog')
    BY <1>1, <2>1
  <2> QED BY <1>1, <1>2, <1>3, <2>2 DEF TypeOK
<1>5. OwnInv'
  BY DEF OwnInv
<1>6. LevelInv'
  BY <1>1 DEF LevelInv
<1> QED BY <1>4, <1>5, <1>6 DEF CoreInv

\* A step that keeps the list of events
LEMMA Stepped ==
  ASSUME CoreInv, boottime, UNCHANGED <<prog, events, boottime>>,
         group' \in [Events -> Groups \cup {NoGroup}], group'[wait_for_key] = NoGroup,
         trigger' \in [Events -> Triggers], timers_enabled' \in BOOLEAN,
         tpl' \in TplLevels, calls' \in 0..MaxCalls, untold' \subseteq Events,
         signaled' \subseteq Live, QueueOK(event_queue', Live),
         StackOK(stack', Live, tpl'), Served(stack', event_queue', tpl')
  PROVE  CoreInv'
<1>1. /\ prog' \in Programs /\ events' \in Seq(prog') /\ IsInjective(events')
      /\ (Internal \subseteq prog => Internal \subseteq Live) /\ boottime' = TRUE
  BY BootFacts
<1>2. Live' = Live /\ prog' = prog
  BY DEF Live
<1> QED BY <1>1, <1>2, Rebuilt

\* One that only calls, returns, signals or queues
LEMMA Moved ==
  ASSUME CoreInv, boottime, UNCHANGED <<prog, events, group, trigger, tpl, timers_enabled, boottime, untold>>,
         calls' \in 0..MaxCalls, signaled' \subseteq Live, QueueOK(event_queue', Live),
         StackOK(stack', Live, tpl), Served(stack', event_queue', tpl)
  PROVE  CoreInv'
<1>1. /\ group' \in [Events -> Groups \cup {NoGroup}] /\ group'[wait_for_key] = NoGroup
      /\ trigger' \in [Events -> Triggers] /\ timers_enabled' \in BOOLEAN
      /\ tpl' \in TplLevels /\ untold' \subseteq Events /\ tpl' = tpl
  BY BootFacts
<1> QED BY <1>1, Stepped

\* A frame of U-Boot's code that may be pushed on any other
Plain(g, L) == g \in Frames /\ ~IsCode(g) /\ g.op \notin ExitOps /\ Needs(g) \subseteq L \cup {NoEvent}
Fits(S, L, q, t) == StackOK(S, L, t) /\ Served(S, q, t)

\* A plain frame may be pushed on calls that fit,
LEMMA PushFits ==
  ASSUME NEW S, NEW L, NEW q, NEW t, Fits(S, L, q, t), NEW g, Plain(g, L)
  PROVE  Fits(<<g>> \o S, L, q, t)
  BY PushStack, PushServed DEF Fits, Plain, StackOK

\* and popped from them.
LEMMA PopFits ==
  ASSUME NEW S, NEW L, NEW q, NEW t, Fits(S, L, q, t), ~IsCode(S[1]), S[1].op \notin {"process", "timer"}
  PROVE  Fits(Tail(S), L, q, t)
  BY PopStack, PopServed DEF Fits, StackOK

\* The frames that U-Boot's code pushes, given the events L
LEMMA PlainMade ==
  ASSUME NEW L, L \subseteq Events
  PROVE  /\ Plain(Process, L) /\ Plain(TimerCheck, L) /\ Plain([op |-> "reading"], L)
         /\ \A e \in L : Plain(TimerWalk(e), L) /\ Plain([op |-> "checking", ev |-> e], L)
         /\ \A e \in Events : Plain([op |-> "check", ev |-> e], L)
         /\ \A e \in L, a \in L \cup {NoEvent} : Plain(GroupWalk(e, a), L)
         /\ \A evs \in Seq(L), i \in Nat \ {0} : Plain(Waiting(evs, i), L)
         /\ Internal \subseteq L => Plain([op |-> "read"], L)
<1> USE DEF Plain, IsCode, CodeOps, ExitOps, Needs, Refers
<1>0. L \cup {NoEvent} \subseteq EventOrNone
  BY DEF EventOrNone
<1>1. Plain(Process, L)
  BY FramesMade
<1>2. \A a \in L \cup {NoEvent} : Plain(TimerWalk(a), L)
  BY <1>0, FramesMade
<1>3. Plain(TimerCheck, L)
  BY <1>2 DEF TimerCheck
<1>4. \A o \in {"reading", "read"} : [op |-> o] \in Frames /\ [op |-> o].op = o
  BY FramesMade
<1>5. Plain([op |-> "reading"], L) /\ (Internal \subseteq L => Plain([op |-> "read"], L))
  BY <1>4
<1>6. \A o \in {"check", "checking"}, e \in Events :
        [op |-> o, ev |-> e] \in Frames /\ [op |-> o, ev |-> e].op = o /\ [op |-> o, ev |-> e].ev = e
  BY FramesMade
<1>7. \A e \in L : Plain([op |-> "checking", ev |-> e], L)
  BY <1>6
<1>8. \A e \in Events : Plain([op |-> "check", ev |-> e], L)
  BY <1>6
<1>9. \A e \in L, a \in L \cup {NoEvent} : Plain(GroupWalk(e, a), L)
  BY <1>0, FramesMade
<1>10. ASSUME NEW evs \in Seq(L), NEW i \in Nat \ {0} PROVE Plain(Waiting(evs, i), L)
  <2>1. evs \in Seq(Events) /\ ToSet(evs) \subseteq L
    BY DEF ToSet
  <2>2. Waiting(evs, i) \in Frames /\ Waiting(evs, i).op = "wait" /\ Waiting(evs, i).evs = evs
    BY <2>1, FramesMade
  <2> QED BY <2>1, <2>2
<1> QED BY <1>1, <1>2, <1>3, <1>5, <1>7, <1>8, <1>9, <1>10

\* The frame on top uses what exists,
LEMMA TopUses ==
  ASSUME CoreInv, boottime
  PROVE  /\ Fits(stack, Live, event_queue, tpl) /\ Needs(Top) \subseteq Live \cup {NoEvent}
         /\ 1 \in 1..Len(stack) /\ Bottom(stack) /\ Nested(stack, tpl)
<1>1. StackOK(stack, Live, tpl) /\ Served(stack, event_queue, tpl) /\ stack \in Seq(Frames) /\ stack # <<>>
  BY BootFacts
<1>2. 1 \in 1..Len(stack)
  BY <1>1, Popped
<1> QED BY <1>1, <1>2 DEF Fits, StackOK, Uses, Top

\* and may be popped if it is not code.
LEMMA TopPopped ==
  ASSUME CoreInv, boottime, ~IsCode(Top)
  PROVE  /\ StackOK(Tail(stack), Live, tpl)
         /\ Top.op \notin {"process", "timer"} => Fits(Tail(stack), Live, event_queue, tpl)
<1>1. StackOK(stack, Live, tpl) /\ Fits(stack, Live, event_queue, tpl)
  BY BootFacts, TopUses
<1>2. StackOK(Tail(stack), Live, tpl)
  BY <1>1, PopStack DEF Top
<1>3. ASSUME Top.op \notin {"process", "timer"} PROVE Fits(Tail(stack), Live, event_queue, tpl)
  BY <1>1, <1>3, PopFits DEF Top
<1> QED BY <1>2, <1>3

\* Steps that queue,
LEMMA QueueFits ==
  ASSUME CoreInv, boottime, NEW e \in Live, NEW rest, Fits(rest, Live, event_queue, tpl),
         efi_queue_event(e, rest), calls' \in 0..MaxCalls,
         UNCHANGED <<prog, events, group, signaled, trigger, tpl, timers_enabled, boottime, untold>>
  PROVE  CoreInv'
<1>1. /\ Live \subseteq Events /\ QueueOK(event_queue, Live) /\ signaled' \subseteq Live
      /\ StackOK(rest, Live, tpl) /\ Served(rest, event_queue, tpl)
  BY BootFacts DEF Fits
<1>2. QueueOK(event_queue', Live) /\ StackOK(stack', Live, tpl) /\ Served(stack', event_queue', tpl)
  BY <1>1, QueueGood
<1> QED BY <1>1, <1>2, Moved

\* signal,
LEMMA SignalFits ==
  ASSUME CoreInv, boottime, NEW e \in Live, NEW rest, Fits(rest, Live, event_queue, tpl),
         NEW sig, sig \subseteq Live, NEW grp, efi_signal_event(e, sig, grp, rest), calls' \in 0..MaxCalls,
         group' \in [Events -> Groups \cup {NoGroup}], group'[wait_for_key] = NoGroup,
         trigger' \in [Events -> Triggers], timers_enabled' \in BOOLEAN, untold' \subseteq Events,
         UNCHANGED <<prog, events, tpl, boottime>>
  PROVE  CoreInv'
<1>1. /\ Live \subseteq Events /\ QueueOK(event_queue, Live) /\ tpl' \in TplLevels /\ tpl' = tpl
      /\ StackOK(rest, Live, tpl) /\ Served(rest, event_queue, tpl)
  BY BootFacts DEF Fits
<1>2. /\ QueueOK(event_queue', Live) /\ StackOK(stack', Live, tpl) /\ Served(stack', event_queue', tpl)
      /\ \/ signaled' = sig
         \/ signaled' = sig \cup Members(grp, grp[e])
         \/ signaled' = sig \cup {e}
  BY <1>1, SignalGood
<1>3. signaled' \subseteq Live
  BY <1>2 DEF Members
<1> QED BY <1>1, <1>2, <1>3, Stepped

\* and only call or return
LEMMA StackFits ==
  ASSUME CoreInv, boottime, Fits(stack', Live, event_queue, tpl),
         calls' \in 0..MaxCalls, signaled' \subseteq Live,
         UNCHANGED <<prog, events, group, trigger, event_queue, tpl, timers_enabled, boottime, untold>>
  PROVE  CoreInv'
<1>1. QueueOK(event_queue', Live) /\ StackOK(stack', Live, tpl) /\ Served(stack', event_queue', tpl)
  BY BootFacts DEF Fits
<1> QED BY <1>1, Moved

\* The loops of U-Boot's code
LEMMA GroupCore == CoreInv /\ GroupLoop => CoreInv'
<1> SUFFICES ASSUME CoreInv, GroupLoop PROVE CoreInv'
  OBVIOUS
<1>1. boottime /\ Top.op = "group" /\ ~IsCode(Top)
  BY TopBoots DEF GroupLoop, IsCode, CodeOps
<1>2. /\ Live \subseteq Events /\ signaled' \subseteq Live /\ calls' \in 0..MaxCalls /\ Top \in Frames
      /\ events \in Seq(prog) /\ IsInjective(events) /\ NoEvent \notin Events
      /\ UNCHANGED <<prog, events, group, signaled, trigger, tpl, timers_enabled, boottime, untold>>
  BY <1>1, BootFacts, EventsAssumption DEF GroupLoop
<1>3. Top.ev \in Live
  <2>1. Top.ev \in Events /\ Top.ev \in Needs(Top)
    BY <1>1, <1>2, FrameFields DEF Needs, Refers
  <2> QED BY <1>1, <1>2, <2>1, TopUses
<1>4. Fits(Tail(stack), Live, event_queue, tpl)
  BY <1>1, TopPopped
<1> DEFINE R == Ahead(Top.at, Members(group, group[Top.ev]))
           e == FirstOf(R)
<1>5. CASE R = {}
  <2>1. stack' = Tail(stack) /\ UNCHANGED event_queue
    BY <1>5 DEF GroupLoop
  <2> QED BY <1>1, <1>2, <1>4, <2>1, StackFits
<1>6. CASE R # {}
  <2>1. efi_queue_event(e, <<GroupWalk(Top.ev, e)>> \o Tail(stack))
    BY <1>6 DEF GroupLoop
  <2>2. R \subseteq Live
    BY DEF Ahead
  <2> HIDE DEF R
  <2>3. e \in Live
    BY <1>2, <1>6, <2>2, FirstIn
  <2> HIDE DEF e
  <2>4. Plain(GroupWalk(Top.ev, e), Live)
    BY <1>2, <1>3, <2>3, PlainMade
  <2>5. Fits(<<GroupWalk(Top.ev, e)>> \o Tail(stack), Live, event_queue, tpl)
    BY <1>4, <2>4, PushFits
  <2> QED BY <1>1, <1>2, <2>1, <2>3, <2>5, QueueFits
<1> QED BY <1>5, <1>6

\* efi_process_event_queue() calls a function on its level, above the levels
\* of all code that is in progress, or finds none to call.
LEMMA ProcessCore == CoreInv /\ efi_process_event_queue => CoreInv'
<1> SUFFICES ASSUME CoreInv, efi_process_event_queue PROVE CoreInv'
  OBVIOUS
<1>1. boottime /\ Top.op = "process" /\ ~IsCode(Top)
  BY TopBoots DEF efi_process_event_queue, IsCode, CodeOps
<1>2. /\ Live \subseteq Events /\ signaled' \subseteq Live /\ calls' \in 0..MaxCalls
      /\ QueueOK(event_queue, Live) /\ tpl \in TplLevels /\ StackOK(stack, Live, tpl)
      /\ group' \in [Events -> Groups \cup {NoGroup}] /\ group'[wait_for_key] = NoGroup
      /\ trigger' \in [Events -> Triggers] /\ timers_enabled' \in BOOLEAN
      /\ untold \subseteq Events
      /\ UNCHANGED <<prog, events, group, signaled, trigger, timers_enabled, boottime>>
  BY <1>1, BootFacts DEF efi_process_event_queue
<1> DEFINE e == Head(event_queue)
<1>3. CASE event_queue = <<>> \/ ~MayRun(Head(event_queue))
  <2>1. stack' = Tail(stack) /\ UNCHANGED <<event_queue, tpl, untold>>
    BY <1>3 DEF efi_process_event_queue
  <2>2. StackOK(Tail(stack), Live, tpl)
    BY <1>1, TopPopped
  <2>3. \A x \in ToSet(event_queue) : NotifyTpl[x] <= tpl
    <3>1. CASE event_queue = <<>>
      BY <3>1 DEF ToSet
    <3>2. CASE event_queue # <<>>
      <4>1. e \in Live /\ \A x \in ToSet(event_queue) : NotifyTpl[x] <= NotifyTpl[e]
        BY <1>2, <3>2, QueueTail
      <4>2. ToSet(event_queue) \subseteq Live
        BY <1>2 DEF QueueOK, ToSet
      <4>3. ~(tpl < NotifyTpl[e])
        BY <1>3, <3>2 DEF MayRun
      <4> HIDE DEF e
      <4> SUFFICES ASSUME NEW x \in ToSet(event_queue) PROVE NotifyTpl[x] <= tpl
        OBVIOUS
      <4>4. x \in Events /\ e \in Events /\ NotifyTpl[x] <= NotifyTpl[e]
        BY <1>2, <4>1, <4>2
      <4>5. NotifyTpl[x] \in Nat /\ NotifyTpl[e] \in Nat /\ tpl \in Nat
        BY <1>2, <4>4, Levels4816 DEF LevelFacts
      <4> QED BY <4>3, <4>4, <4>5
    <3> QED BY <3>1, <3>2
  <2>4. Fits(Tail(stack), Live, event_queue, tpl)
    BY <2>2, <2>3 DEF Fits, Served
  <2> QED BY <1>1, <1>2, <2>1, <2>4, StackFits
<1>4. CASE ~(event_queue = <<>> \/ ~MayRun(Head(event_queue)))
  <2>1. /\ event_queue' = Tail(event_queue) /\ tpl' = NotifyTpl[e]
        /\ stack' = <<Notify(e, tpl)>> \o stack /\ untold' = untold \ {e}
        /\ tpl < NotifyTpl[e]
    BY <1>4 DEF efi_process_event_queue, MayRun
  <2>2. /\ QueueOK(event_queue', Live) /\ e \in Live
        /\ ToSet(event_queue) = {e} \cup ToSet(event_queue')
        /\ \A x \in ToSet(event_queue) : NotifyTpl[x] <= NotifyTpl[e]
    BY <1>2, <1>4, <2>1, QueueTail
  <2> HIDE DEF e
  <2>3. e \in Events /\ NotifyTpl[e] \in TplLevels
    BY <1>2, <2>2, Levels4816 DEF LevelFacts
  <2>4. StackOK(stack', Live, tpl')
    BY <1>1, <1>2, <2>1, <2>2, <2>3, CallStack DEF Top
  <2>5. Served(stack', event_queue', tpl')
    BY <2>1, <2>2 DEF Served
  <2>6. tpl' \in TplLevels /\ untold' \subseteq Events
    BY <1>2, <2>1, <2>3
  <2> QED BY <1>1, <1>2, <2>2, <2>4, <2>5, <2>6, Stepped
<1> QED BY <1>3, <1>4

\* The notification functions: a function that returns goes back to the level
\* of what it has interrupted, in the loop that has called it.
LEMMA ReturnCore == CoreInv /\ NotifyReturns => CoreInv'
<1> SUFFICES ASSUME CoreInv, NotifyReturns PROVE CoreInv'
  OBVIOUS
<1>1. boottime /\ Top.op \in {"notify", "notified"} /\ stack # <<>>
  BY TopBoots DEF NotifyReturns
<1>2. /\ Live \subseteq Events /\ signaled' \subseteq Live /\ calls' \in 0..MaxCalls
      /\ QueueOK(event_queue', Live) /\ StackOK(stack, Live, tpl)
      /\ group' \in [Events -> Groups \cup {NoGroup}] /\ group'[wait_for_key] = NoGroup
      /\ trigger' \in [Events -> Triggers] /\ timers_enabled' \in BOOLEAN
      /\ untold' \subseteq Events
      /\ UNCHANGED <<prog, events, boottime>>
      /\ tpl' = Top.base /\ stack' = Tail(stack)
  BY <1>1, BootFacts DEF NotifyReturns
<1>3. StackOK(stack', Live, tpl') /\ tpl' \in TplLevels /\ stack'[1].op = "process"
  BY <1>1, <1>2, ReturnStack DEF Top
<1>4. Served(stack', event_queue', tpl')
  <2>1. stack' \in Seq(Frames) /\ stack' # <<>>
    BY <1>3 DEF StackOK
  <2>2. 1 \in 1..Len(stack') /\ 1..1 = {1}
    BY <2>1
  <2>3. ~IsCode(stack'[1])
    BY <1>3 DEF IsCode, CodeOps
  <2> QED BY <1>3, <2>2, <2>3 DEF Served
<1> QED BY <1>1, <1>2, <1>3, <1>4, Stepped

\* efi_timer_check() signals a timer and goes on behind it,
LEMMA TimerCore == CoreInv /\ (\E e \in prog : TimerFires(e)) => CoreInv'
<1> SUFFICES ASSUME CoreInv, NEW e \in prog, TimerFires(e) PROVE CoreInv'
  OBVIOUS
<1>1. boottime /\ Top.op = "timer" /\ ~IsCode(Top)
  BY TopBoots DEF TimerFires, IsCode, CodeOps
<1>2. /\ Live \subseteq Events /\ signaled \subseteq Live /\ calls' \in 0..MaxCalls
      /\ group' \in [Events -> Groups \cup {NoGroup}] /\ group'[wait_for_key] = NoGroup
      /\ trigger \in [Events -> Triggers] /\ timers_enabled' \in BOOLEAN
      /\ untold' \subseteq Events
      /\ UNCHANGED <<prog, events, tpl, boottime>>
  BY <1>1, BootFacts DEF TimerFires
<1>3. e \in Live
  BY DEF TimerFires, Ahead
<1>4. trigger' \in [Events -> Triggers]
  <2>1. trigger' = [trigger EXCEPT ![e] = AfterFiring(e)]
    BY DEF TimerFires
  <2>2. AfterFiring(e) \in Triggers
    BY <1>2, <1>3 DEF AfterFiring, Triggers
  <2> QED BY <1>2, <2>1, <2>2
<1>5. Fits(<<TimerWalk(e)>> \o Tail(stack), Live, event_queue, tpl)
  <2>1. StackOK(Tail(stack), Live, tpl)
    BY <1>1, TopPopped
  <2>2. Plain(TimerWalk(e), Live)
    BY <1>2, <1>3, PlainMade
  <2>3. TimerWalk(e).op = "timer"
    BY DEF TimerWalk
  <2> QED BY <2>1, <2>2, <2>3, PushStack, PushServed DEF Fits, Plain, StackOK
<1>6. efi_signal_event(e, SignalOff(e), group, <<TimerWalk(e)>> \o Tail(stack))
  BY DEF TimerFires
<1>7. SignalOff(e) \subseteq Live
  BY <1>2 DEF SignalOff
<1> QED BY <1>1, <1>2, <1>3, <1>4, <1>5, <1>6, <1>7, SignalFits

\* and serves the queue at its end.
LEMMA TimerEndCore == CoreInv /\ TimerCheckEnds => CoreInv'
<1> SUFFICES ASSUME CoreInv, TimerCheckEnds PROVE CoreInv'
  OBVIOUS
<1>1. boottime /\ Top.op = "timer" /\ ~IsCode(Top)
  BY TopBoots DEF TimerCheckEnds, IsCode, CodeOps
<1>2. /\ Live \subseteq Events /\ signaled' \subseteq Live /\ calls' \in 0..MaxCalls
      /\ stack' = <<Process>> \o Tail(stack)
      /\ UNCHANGED <<prog, events, group, trigger, event_queue, tpl, timers_enabled, boottime, untold>>
  BY <1>1, BootFacts DEF TimerCheckEnds
<1>3. StackOK(Tail(stack), Live, tpl)
  BY <1>1, TopPopped
<1>4. Plain(Process, Live) /\ Process.op = "process"
  BY <1>2, PlainMade DEF Process
<1>5. Fits(stack', Live, event_queue, tpl)
  BY <1>2, <1>3, <1>4, PushStack, PushServed DEF Fits, Plain, StackOK
<1> QED BY <1>1, <1>2, <1>5, StackFits

\* CheckEvent() queues the function of an event that exists.
LEMMA CheckCore == CoreInv /\ (CheckQueues \/ CheckReturns) => CoreInv'
<1> SUFFICES ASSUME CoreInv, CheckQueues \/ CheckReturns PROVE CoreInv'
  OBVIOUS
<1>1. boottime /\ Top.op \in {"check", "checking"} /\ ~IsCode(Top)
  BY TopBoots DEF CheckQueues, CheckReturns, IsCode, CodeOps
<1>2. /\ Live \subseteq Events /\ signaled \subseteq Live /\ calls' \in 0..MaxCalls /\ Top \in Frames
      /\ UNCHANGED <<prog, events, group, trigger, tpl, timers_enabled, boottime, untold>>
  BY <1>1, BootFacts DEF CheckQueues, CheckReturns
<1>3. Fits(Tail(stack), Live, event_queue, tpl)
  BY <1>1, TopPopped
<1>4. CASE CheckReturns
  <2>1. signaled' \subseteq Live /\ stack' = Tail(stack) /\ UNCHANGED event_queue
    BY <1>2, <1>4 DEF CheckReturns
  <2> QED BY <1>1, <1>2, <1>3, <2>1, StackFits
<1>5. CASE CheckQueues
  <2> DEFINE e == Top.ev
             rest == <<[op |-> "checking", ev |-> e]>> \o Tail(stack)
  <2>1. signaled' \subseteq Live /\ UNCHANGED signaled
    BY <1>2, <1>5 DEF CheckQueues
  <2>2. \/ stack' = Tail(stack) /\ UNCHANGED event_queue
        \/ e \in Live /\ stack' = rest /\ UNCHANGED event_queue
        \/ e \in Live /\ efi_queue_event(e, rest)
    BY <1>5 DEF CheckQueues
  <2> HIDE DEF e
  <2>3. ASSUME e \in Live PROVE Fits(rest, Live, event_queue, tpl)
    <3>1. Plain([op |-> "checking", ev |-> e], Live)
      BY <1>2, <2>3, PlainMade
    <3> QED BY <1>3, <3>1, PushFits
  <2> HIDE DEF rest
  <2>4. CASE stack' = Tail(stack) /\ UNCHANGED event_queue
    BY <1>1, <1>2, <1>3, <2>1, <2>4, StackFits
  <2>5. CASE e \in Live /\ stack' = rest /\ UNCHANGED event_queue
    BY <1>1, <1>2, <2>1, <2>3, <2>5, StackFits
  <2>6. CASE e \in Live /\ efi_queue_event(e, rest)
    BY <1>1, <1>2, <2>1, <2>3, <2>6, QueueFits
  <2> QED BY <2>2, <2>4, <2>5, <2>6
<1> QED BY <1>4, <1>5

\* WaitForEvent() queues the functions of events that exist.
LEMMA WaitCore == CoreInv /\ (WaitQueues \/ WaitLooks) => CoreInv'
<1> SUFFICES ASSUME CoreInv, WaitQueues \/ WaitLooks PROVE CoreInv'
  OBVIOUS
<1>1. boottime /\ Top.op = "wait" /\ ~IsCode(Top)
  <2>1. IsTop("wait")
    BY DEF WaitQueues, WaitLooks
  <2> QED BY <2>1, TopBoots DEF IsCode, CodeOps
<1>2. /\ Live \subseteq Events /\ signaled \subseteq Live /\ calls' \in 0..MaxCalls /\ Top \in Frames
      /\ UNCHANGED <<prog, events, group, trigger, tpl, timers_enabled, boottime, untold>>
  BY <1>1, BootFacts DEF WaitQueues, WaitLooks
<1>3. Fits(Tail(stack), Live, event_queue, tpl)
  BY <1>1, TopPopped
<1>4. Top.evs \in Seq(Live) /\ Top.i \in Nat \ {0}
  <2>1. Top.evs \in Seq(Events) /\ Top.i \in Nat \ {0}
    BY <1>1, <1>2, FrameFields
  <2>2. ToSet(Top.evs) \subseteq Live \cup {NoEvent}
    BY <1>1, TopUses DEF Needs, Refers
  <2>3. \A i \in 1..Len(Top.evs) : Top.evs[i] \in Live
    <3>1. NoEvent \notin Events /\ DOMAIN Top.evs = 1..Len(Top.evs)
      BY <2>1, EventsAssumption
    <3> QED BY <2>1, <2>2, <3>1 DEF ToSet
  <2> QED BY <2>1, <2>3
<1>5. CASE WaitQueues
  <2> DEFINE e == Top.evs[Top.i]
             rest == <<Waiting(Top.evs, Top.i + 1)>> \o Tail(stack)
  <2>1. signaled' \subseteq Live /\ UNCHANGED signaled /\ Top.i <= Len(Top.evs)
    BY <1>2, <1>5 DEF WaitQueues
  <2>2. \/ stack' = Tail(stack) /\ UNCHANGED event_queue
        \/ stack' = rest /\ UNCHANGED event_queue
        \/ efi_queue_event(e, rest)
    BY <1>5 DEF WaitQueues
  <2>3. e \in Live
    BY <1>4, <2>1
  <2>4. Fits(rest, Live, event_queue, tpl)
    <3>1. Top.i + 1 \in Nat \ {0}
      BY <1>4
    <3>2. Plain(Waiting(Top.evs, Top.i + 1), Live)
      BY <1>2, <1>4, <3>1, PlainMade
    <3> QED BY <1>3, <3>2, PushFits
  <2> HIDE DEF e, rest
  <2>5. CASE stack' = Tail(stack) /\ UNCHANGED event_queue
    BY <1>1, <1>2, <1>3, <2>1, <2>5, StackFits
  <2>6. CASE stack' = rest /\ UNCHANGED event_queue
    BY <1>1, <1>2, <2>1, <2>4, <2>6, StackFits
  <2>7. CASE efi_queue_event(e, rest)
    BY <1>1, <1>2, <2>1, <2>3, <2>4, <2>7, QueueFits
  <2> QED BY <2>2, <2>5, <2>6, <2>7
<1>6. CASE WaitLooks
  <2>1. signaled' \subseteq Live /\ UNCHANGED event_queue /\ stack' \in {<<TimerCheck>> \o stack, Tail(stack)}
    BY <1>2, <1>6 DEF WaitLooks
  <2>2. Fits(<<TimerCheck>> \o stack, Live, event_queue, tpl)
    BY <1>1, <1>2, TopUses, PlainMade, PushFits
  <2> QED BY <1>1, <1>2, <1>3, <2>1, <2>2, StackFits
<1> QED BY <1>5, <1>6

\* ExitBootServices(): the application calls it on TPL_APPLICATION, and only
\* functions of that level are queued once it is the innermost call.
LEMMA ExitFacts ==
  ASSUME CoreInv, NEW o \in ExitOps, IsTop(o)
  PROVE  /\ boottime /\ Top.op = o /\ ~IsCode(Top) /\ Len(stack) = 2
         /\ Tail(stack)[1] = stack[2] /\ stack[2].op = "app" /\ stack[2].raised = <<>>
         /\ \A e \in ToSet(event_queue) : NotifyTpl[e] <= TPL_APPLICATION
<1>1. boottime /\ Top.op = o /\ ~IsCode(Top)
  BY TopBoots DEF IsCode, CodeOps, ExitOps
<1>2. 1 \in 1..Len(stack) /\ Bottom(stack) /\ Nested(stack, tpl) /\ Fits(stack, Live, event_queue, tpl)
  BY <1>1, TopUses
<1>3. /\ stack \in Seq(Frames) /\ stack # <<>> /\ QueueOK(event_queue, Live) /\ Live \subseteq Events
      /\ tpl \in TplLevels
  BY <1>1, BootFacts
<1>4. Len(stack) = 2 /\ stack[2].raised = <<>>
  <2>1. 1 + 1 = Len(stack) /\ stack[1 + 1].raised = <<>>
    BY <1>1, <1>2 DEF Bottom, Top
  <2> QED BY <2>1
<1>5. stack[2].op = "app" /\ IsCode(stack[2]) /\ 2 \in 1..Len(stack)
  BY <1>2, <1>4 DEF Bottom, IsCode, CodeOps
<1>6. Tail(stack)[1] = stack[2]
  <2>1. 1 \in 1..(Len(stack) - 1) /\ 1 + 1 = 2
    BY <1>4
  <2> QED BY <1>3, <2>1, Popped
<1>7. tpl = TPL_APPLICATION
  <2>1. \A k \in 1..(2 - 1) : ~IsCode(stack[k])
    BY <1>1 DEF Top
  <2>2. OnLevel(stack[2], tpl)
    BY <1>2, <1>5, <2>1 DEF Nested
  <2> QED BY <1>4, <1>5, <2>2 DEF OnLevel, OwnLevel
<1>8. \A e \in ToSet(event_queue) : NotifyTpl[e] <= tpl
  <2>1. ASSUME NEW i \in 1..Len(stack), stack[i].op \in {"process", "timer"}, \A k \in 1..i : ~IsCode(stack[k])
        PROVE  FALSE
    <3>1. i = 1 \/ i = 2
      BY <1>4
    <3> QED BY <1>1, <1>5, <2>1, <3>1 DEF Top, ExitOps
  <2> QED BY <1>2, <2>1 DEF Fits, Served
<1> QED BY <1>1, <1>4, <1>5, <1>6, <1>7, <1>8

\* The signal of a group, on calls that fit
LEMMA SignalGroupFits ==
  ASSUME CoreInv, boottime, NEW rest, Fits(rest, Live, event_queue, tpl),
         NEW g, NEW grp, SignalGroup(g, grp, rest), calls' \in 0..MaxCalls,
         group' \in [Events -> Groups \cup {NoGroup}], group'[wait_for_key] = NoGroup,
         trigger' \in [Events -> Triggers], timers_enabled' \in BOOLEAN, untold' \subseteq Events,
         UNCHANGED <<prog, events, tpl, boottime>>
  PROVE  CoreInv'
<1> DEFINE M == Members(grp, g)
<1>1. M \subseteq Live
  BY DEF Members
<1>2. /\ signaled \subseteq Live /\ QueueOK(event_queue, Live) /\ tpl' \in TplLevels /\ tpl' = tpl
      /\ events \in Seq(prog) /\ IsInjective(events)
  BY BootFacts
<1>3. CASE M = {}
  <2>1. stack' = rest /\ UNCHANGED <<signaled, event_queue>>
    BY <1>3 DEF SignalGroup
  <2>2. signaled' \subseteq Live /\ QueueOK(event_queue', Live) /\ StackOK(stack', Live, tpl') /\ Served(stack', event_queue', tpl')
    BY <1>2, <2>1 DEF Fits
  <2> QED BY <1>2, <2>2, Stepped
<1>4. CASE M # {}
  <2>1. efi_signal_event(FirstOf(M), signaled, grp, rest)
    BY <1>4 DEF SignalGroup
  <2>2. FirstOf(M) \in Live
    <3> HIDE DEF M
    <3> QED BY <1>1, <1>2, <1>4, FirstIn
  <2> QED BY <1>2, <2>1, <2>2, SignalFits
<1> QED BY <1>3, <1>4

\* ExitBootServices() puts the exit events in their group and signals it,
LEMMA ExitNotifyCore == CoreInv /\ ExitNotify => CoreInv'
<1> SUFFICES ASSUME CoreInv, ExitNotify PROVE CoreInv'
  OBVIOUS
<1>1. IsTop("exit_group") /\ "exit_group" \in ExitOps /\ "exit_end" \in ExitOps
  BY DEF ExitNotify, ExitOps
<1>2. boottime /\ Top.op = "exit_group" /\ ~IsCode(Top) /\ Tail(stack)[1].op = "app" /\ Tail(stack)[1].raised = <<>>
  BY <1>1, ExitFacts
<1> DEFINE rest == <<[op |-> "exit_end"]>> \o Tail(stack)
<1>3. Fits(rest, Live, event_queue, tpl)
  <2>1. StackOK(Tail(stack), Live, tpl) /\ Served(Tail(stack), event_queue, tpl)
    BY <1>2, TopPopped DEF Fits
  <2>2. StackOK(rest, Live, tpl)
    BY <1>1, <1>2, <2>1, ExitStack
  <2>3. [op |-> "exit_end"] \in Frames /\ ~IsCode([op |-> "exit_end"]) /\ Tail(stack) \in Seq(Frames)
    BY <2>1, FramesMade DEF IsCode, CodeOps, StackOK
  <2>4. Served(rest, event_queue, tpl)
    BY <2>1, <2>3, PushServed
  <2> QED BY <2>2, <2>4 DEF Fits
<1> HIDE DEF rest
<1>4. /\ SignalGroup("exit_boot_services", ExitGroups, rest)
      /\ timers_enabled' \in BOOLEAN /\ group' = ExitGroups
      /\ UNCHANGED <<prog, events, trigger, tpl, boottime, calls>>
  BY DEF ExitNotify, rest
<1>5. /\ group \in [Events -> Groups \cup {NoGroup}] /\ group[wait_for_key] = NoGroup
      /\ trigger' \in [Events -> Triggers] /\ calls' \in 0..MaxCalls /\ Live \subseteq Events
  BY <1>2, <1>4, BootFacts
<1>6. group' \in [Events -> Groups \cup {NoGroup}] /\ group'[wait_for_key] = NoGroup
  <2>1. wait_for_key \in Events /\ "EXIT" \notin TypeOf[wait_for_key]
    BY ConsoleAssumption, EventsAssumption
  <2>2. "exit_boot_services" \in Groups
    BY DEF Groups
  <2> QED BY <1>4, <1>5, <2>1, <2>2 DEF ExitGroups
<1>7. untold' \subseteq Events
  <2>1. untold' \subseteq ExitEvents
    BY DEF ExitNotify
  <2>2. ExitEvents \subseteq Live
    BY DEF ExitEvents
  <2> QED BY <1>5, <2>1, <2>2
<1> QED BY <1>2, <1>3, <1>4, <1>5, <1>6, <1>7, SignalGroupFits

\* and ends the boot services.
LEMMA ExitEndsCore == CoreInv /\ ExitEnds => CoreInv'
<1> SUFFICES ASSUME CoreInv, ExitEnds PROVE CoreInv'
  OBVIOUS
<1>1. IsTop("exit_end") /\ "exit_end" \in ExitOps
  BY DEF ExitEnds, ExitOps
<1>2. boottime /\ \A e \in ToSet(event_queue) : NotifyTpl[e] <= TPL_APPLICATION
  BY <1>1, ExitFacts
<1>3. /\ tpl' = TPL_HIGH_LEVEL /\ events' = <<>> /\ boottime' = FALSE /\ stack' = <<>>
      /\ UNCHANGED <<prog, group, signaled, trigger, event_queue, timers_enabled, calls, untold>>
  BY DEF ExitEnds
<1>4. TypeOK'
  <2>1. /\ prog' \in Programs /\ group' \in [Events -> Groups \cup {NoGroup}]
        /\ trigger' \in [Events -> Triggers] /\ timers_enabled' \in BOOLEAN
        /\ calls' \in 0..MaxCalls /\ untold' \subseteq Events
    BY <1>2, <1>3, BootFacts
  <2>2. events' \in Seq(prog') /\ IsInjective(events') /\ stack' \in Seq(Frames)
    BY <1>3 DEF IsInjective
  <2>3. event_queue' \in Seq(prog') /\ IsInjective(event_queue')
    BY <1>3 DEF CoreInv, TypeOK
  <2>4. tpl' \in TplLevels /\ boottime' \in BOOLEAN
    BY <1>3 DEF TplLevels
  <2> QED BY <1>3, <2>1, <2>2, <2>3, <2>4 DEF TypeOK
<1>5. OwnInv'
  BY <1>2, <1>3, BootFacts DEF OwnInv
<1>6. LevelInv'
  <2>1. Sorted(event_queue')
    BY <1>3 DEF CoreInv, LevelInv
  <2>2. Served(stack', event_queue', tpl')
    <3> SUFFICES ASSUME NEW e \in ToSet(event_queue) PROVE NotifyTpl[e] <= TPL_HIGH_LEVEL
      BY <1>3 DEF Served
    <3>1. e \in Live /\ Live \subseteq Events
      BY <1>2, BootFacts DEF QueueOK, ToSet
    <3>2. NotifyTpl[e] \in TplLevels
      BY <3>1, EventsAssumption
    <3> QED BY <3>2 DEF TplLevels, TPL_APPLICATION, TPL_CALLBACK, TPL_NOTIFY, TPL_HIGH_LEVEL
  <2> QED BY <1>3, <2>1, <2>2 DEF LevelInv
<1> QED BY <1>4, <1>5, <1>6 DEF CoreInv

\* The services.  While code runs, no function of a higher level is queued.
LEMMA CodeServed ==
  ASSUME CoreInv, boottime, IsCode(Top)
  PROVE  (\A e \in ToSet(event_queue) : NotifyTpl[e] <= tpl) /\ OnLevel(Top, tpl) /\ OwnLevel(Top) <= tpl
         /\ OwnLevel(Top) \in TplLevels
<1>1. 1 \in 1..Len(stack) /\ Fits(stack, Live, event_queue, tpl) /\ Nested(stack, tpl) /\ Bottom(stack)
  BY TopUses
<1>2. \A e \in ToSet(event_queue) : NotifyTpl[e] <= tpl
  <2>1. ASSUME NEW i \in 1..Len(stack), \A k \in 1..i : ~IsCode(stack[k]) PROVE FALSE
    <3>1. 1 \in 1..i
      OBVIOUS
    <3> QED BY <2>1, <3>1 DEF Top
  <2> QED BY <1>1, <2>1 DEF Fits, Served
<1>3. OnLevel(Top, tpl) /\ OwnLevel(Top) <= tpl
  <2>1. \A k \in 1..(1 - 1) : ~IsCode(stack[k])
    OBVIOUS
  <2> QED BY <1>1, <2>1 DEF Nested, Top
<1>4. OwnLevel(Top) \in TplLevels
  BY <1>1, BootFacts, OwnLevels DEF Top
<1> QED BY <1>2, <1>3, <1>4

\* Frames keep what they use if the events in use stay.
LEMMA SameStack ==
  ASSUME NEW S, NEW L, NEW M, NEW t, StackOK(S, L, t),
         \A i \in 1..Len(S) : Needs(S[i]) \cap L \subseteq M
  PROVE  StackOK(S, M, t)
  BY DEF StackOK, Uses

\* Two frames are pushed one after the other.
LEMMA PushTwo ==
  ASSUME NEW T, NEW S \in Seq(T), NEW f \in T, NEW g \in T
  PROVE  <<f, g>> \o S = <<f>> \o (<<g>> \o S)
<1> DEFINE A == <<f, g>> \o S
           B == <<g>> \o S
           C == <<f>> \o B
<1>1. /\ A \in Seq(T) /\ Len(A) = Len(S) + 2 /\ A[1] = f /\ A[2] = g
      /\ \A i \in 3..(Len(S) + 2) : A[i] = S[i - 2]
  OBVIOUS
<1>2. /\ B \in Seq(T) /\ Len(B) = Len(S) + 1 /\ B[1] = g
      /\ \A i \in 2..(Len(S) + 1) : B[i] = S[i - 1]
  BY Pushed
<1> HIDE DEF A, B
<1>3. /\ C \in Seq(T) /\ Len(C) = Len(B) + 1 /\ C[1] = f
      /\ \A i \in 2..(Len(B) + 1) : C[i] = B[i - 1]
  BY <1>2, Pushed
<1> HIDE DEF C
<1>4. Len(S) \in Nat /\ Len(C) = Len(S) + 2
  BY <1>2, <1>3
<1>5. ASSUME NEW i \in 1..(Len(S) + 2) PROVE A[i] = C[i]
  <2>1. CASE i = 1
    BY <1>1, <1>3, <2>1
  <2>2. CASE i = 2
    BY <1>1, <1>2, <1>3, <1>4, <2>2
  <2>3. CASE i > 2
    <3>1. i \in 3..(Len(S) + 2) /\ i \in 2..(Len(B) + 1) /\ i - 1 \in 2..(Len(S) + 1) /\ (i - 1) - 1 = i - 2
      BY <1>2, <1>4, <2>3
    <3> QED BY <1>1, <1>2, <1>3, <3>1
  <2> QED BY <2>1, <2>2, <2>3
<1>6. A = C
  <2>1. A = [i \in 1..(Len(S) + 2) |-> A[i]] /\ C = [i \in 1..(Len(S) + 2) |-> C[i]]
    BY <1>1, <1>3, <1>4
  <2> QED BY <1>5, <2>1
<1> QED BY <1>6 DEF A, B, C

\* A new event is at the end of the list, and in no call in progress.
LEMMA CreateCore == ASSUME CoreInv, NEW e \in prog, efi_create_event(e) PROVE CoreInv'
<1>1. boottime /\ calls' \in 0..MaxCalls
  BY CallerFacts DEF efi_create_event
<1>2. /\ e \in Events /\ e \notin Live /\ events' = Append(events, e)
      /\ group' = [group EXCEPT ![e] = GroupOf[e]] /\ trigger' = [trigger EXCEPT ![e] = "stop"]
      /\ UNCHANGED <<prog, signaled, event_queue, tpl, timers_enabled, boottime, stack, untold>>
  BY <1>1, BootFacts DEF efi_create_event
<1>3. events' \in Seq(prog) /\ IsInjective(events') /\ Live' = Live \cup {e}
  <2>1. events \in Seq(prog) /\ IsInjective(events) /\ e \in prog /\ e \notin ToSet(events) /\ events' = Append(events, e)
    BY <1>1, <1>2, BootFacts DEF Live
  <2>2. events' \in Seq(prog) /\ IsInjective(events') /\ ToSet(events') = ToSet(events) \cup {e}
    <3>1. /\ events' \in Seq(prog) /\ Len(events') = Len(events) + 1
          /\ \A i \in 1..Len(events) : events'[i] = events[i]
          /\ events'[Len(events) + 1] = e
      BY <2>1
    <3>2. events \in Seq(prog) /\ IsInjective(events) /\ e \in prog /\ e \notin ToSet(events)
      BY <2>1
    <3> QED BY <3>1, <3>2, Appended
  <2> QED BY <2>2 DEF Live
<1>4. QueueOK(event_queue', Live')
  BY <1>1, <1>2, <1>3, BootFacts DEF QueueOK
<1>5. StackOK(stack', Live', tpl') /\ Served(stack', event_queue', tpl')
  BY <1>1, <1>2, <1>3, BootFacts, SameStack
<1>6. group' \in [Events -> Groups \cup {NoGroup}] /\ group'[wait_for_key] = NoGroup
  <2>1. GroupOf \in [Events -> Groups \cup {NoGroup}] /\ GroupOf[wait_for_key] = NoGroup
    BY EventsAssumption, ConsoleAssumption DEF Internal, ToSet
  <2>2. wait_for_key \in Events
    BY EventsAssumption, ConsoleAssumption
  <2> QED BY <1>1, <1>2, <2>1, <2>2, BootFacts
<1>7. trigger' \in [Events -> Triggers]
  BY <1>1, <1>2, BootFacts DEF Triggers
<1>8. /\ prog' \in Programs /\ prog' = prog /\ timers_enabled' \in BOOLEAN /\ boottime' = TRUE
      /\ tpl' \in TplLevels /\ untold' \subseteq Events /\ signaled' \subseteq Live'
      /\ (Internal \subseteq prog' => Internal \subseteq Live')
  BY <1>1, <1>2, <1>3, BootFacts
<1> QED BY <1>1, <1>3, <1>4, <1>5, <1>6, <1>7, <1>8, Rebuilt

\* An event that no call in progress goes on to use is removed.
LEMMA CloseCore == ASSUME CoreInv, NEW e \in prog, efi_close_event(e) PROVE CoreInv'
<1>1. boottime /\ calls' \in 0..MaxCalls
  BY CallerFacts DEF efi_close_event
<1>2. /\ e \in Live /\ e \notin InUse /\ e \notin Internal /\ events' = RemoveFirst(events, e)
      /\ event_queue' = RemoveFirst(event_queue, e) /\ signaled' = signaled \ {e}
      /\ group' = [group EXCEPT ![e] = NoGroup] /\ trigger' = [trigger EXCEPT ![e] = "stop"]
      /\ untold' = untold \ {e}
      /\ UNCHANGED <<prog, tpl, timers_enabled, boottime, stack>>
  BY DEF efi_close_event, QueueWithout
<1>3. events \in Seq(prog) /\ IsInjective(events) /\ QueueOK(event_queue, Live) /\ stack \in Seq(Frames)
  BY <1>1, BootFacts
<1>4. events' \in Seq(prog \ {e}) /\ IsInjective(events') /\ Live' = Live \ {e}
  BY <1>2, <1>3, Removed DEF Live
<1>5. events' \in Seq(prog)
  BY <1>4
<1>6. QueueOK(event_queue', Live') /\ ToSet(event_queue') \subseteq ToSet(event_queue)
  BY <1>2, <1>3, <1>4, QueueRemoved
<1>7. StackOK(stack', Live', tpl')
  <2>1. ASSUME NEW i \in 1..Len(stack) PROVE Needs(stack[i]) \cap Live \subseteq Live'
    <3>1. i \in DOMAIN stack
      BY <1>3
    <3>2. e \notin Refers(stack[i])
      BY <1>2, <3>1 DEF InUse
    <3> QED BY <1>2, <1>4, <3>2 DEF Needs
  <2> QED BY <1>1, <1>2, <2>1, BootFacts, SameStack
<1>8. Served(stack', event_queue', tpl')
  BY <1>1, <1>2, <1>6, BootFacts DEF Served
<1>9. group' \in [Events -> Groups \cup {NoGroup}] /\ group'[wait_for_key] = NoGroup
  BY <1>1, <1>2, BootFacts
<1>10. trigger' \in [Events -> Triggers]
  BY <1>1, <1>2, BootFacts DEF Triggers
<1>11. /\ prog' \in Programs /\ prog' = prog /\ timers_enabled' \in BOOLEAN /\ boottime' = TRUE
       /\ tpl' \in TplLevels /\ untold' \subseteq Events /\ signaled' \subseteq Live'
       /\ (Internal \subseteq prog' => Internal \subseteq Live')
  BY <1>1, <1>2, <1>4, BootFacts
<1> QED BY <1>1, <1>4, <1>5, <1>6, <1>7, <1>8, <1>9, <1>10, <1>11, Rebuilt

\* Raising the level keeps the level of the caller below those of the
\* functions it may be interrupted by.
LEMMA RaiseCore == ASSUME CoreInv, NEW new \in TplLevels, efi_raise_tpl(new) PROVE CoreInv'
<1>1. boottime /\ calls' \in 0..MaxCalls /\ IsCode(Top)
  BY CallerFacts DEF efi_raise_tpl
<1> DEFINE r == <<tpl>> \o Top.raised
           g == Code(Top.op, Top.ev, Top.base, r)
<1>2. /\ new >= tpl /\ tpl' = new /\ stack' = <<g>> \o Tail(stack)
      /\ UNCHANGED <<prog, events, group, signaled, trigger, event_queue, timers_enabled, boottime, untold>>
  BY DEF efi_raise_tpl
<1>3. /\ (\A e \in ToSet(event_queue) : NotifyTpl[e] <= tpl) /\ OnLevel(Top, tpl) /\ OwnLevel(Top) <= tpl
      /\ OwnLevel(Top) \in TplLevels
  BY <1>1, CodeServed
<1>4. /\ tpl \in TplLevels /\ Top \in Frames /\ new \in TplLevels /\ tpl \in Nat /\ new \in Nat
      /\ Live \subseteq Events /\ QueueOK(event_queue, Live) /\ StackOK(stack, Live, tpl)
  BY <1>1, BootFacts, Levels4816 DEF LevelFacts, TplLevels
<1>5. /\ Top.base \in TplLevels /\ Top.raised \in Seq(TplLevels) /\ Top.op \in CodeOps
      /\ (Top.op = "app" => Top.ev = NoEvent) /\ (Top.op # "app" => Top.ev \in Events)
  BY <1>1, <1>4, FrameFields DEF IsCode, CodeOps
<1>6. /\ r \in Seq(TplLevels) /\ r # <<>> /\ Len(r) = Len(Top.raised) + 1 /\ r[1] = tpl
      /\ (\A i \in 2..(Len(Top.raised) + 1) : r[i] = Top.raised[i - 1]) /\ Len(Top.raised) \in Nat
  BY <1>4, <1>5, Pushed
<1> HIDE DEF r
<1>7. g \in Frames /\ g.op = Top.op /\ g.ev = Top.ev /\ g.base = Top.base /\ g.raised = r
  <2>1. CASE Top.op = "app"
    BY <1>5, <1>6, <2>1 DEF Code, Frames
  <2>2. CASE Top.op # "app"
    BY <1>5, <1>6, <2>2 DEF Code, Frames, CodeOps
  <2> QED BY <2>1, <2>2
<1> HIDE DEF g
<1>8. OwnLevel(g) = OwnLevel(Top)
  BY <1>7 DEF OwnLevel
<1>9. OnLevel(g, new)
  <2>1. r[Len(r)] = OwnLevel(Top)
    <3>1. CASE Top.raised = <<>>
      <4>1. Len(r) = 1 /\ tpl = OwnLevel(Top)
        BY <1>3, <1>6, <3>1 DEF OnLevel
      <4> QED BY <1>6, <4>1
    <3>2. CASE Top.raised # <<>>
      <4>1. Len(Top.raised) >= 1
        BY <1>5, <3>2
      <4>2. r[Len(r)] = Top.raised[Len(Top.raised)]
        BY <1>6, <4>1
      <4> QED BY <1>3, <3>2, <4>2 DEF OnLevel
    <3> QED BY <3>1, <3>2
  <2>2. ASSUME NEW i \in 1..Len(r), NEW j \in 1..Len(r), i < j PROVE r[j] <= r[i]
    <3>1. j - 1 \in 1..Len(Top.raised) /\ r[j] = Top.raised[j - 1]
      BY <1>6, <2>2
    <3>2. \A k, l \in 1..Len(Top.raised) : k < l => Top.raised[l] <= Top.raised[k]
      BY <1>3 DEF OnLevel
    <3>3. CASE i = 1
      <4>1. Top.raised # <<>> /\ 1 \in 1..Len(Top.raised)
        BY <1>5, <1>6, <3>1
      <4>2. Top.raised[1] <= tpl /\ Top.raised[1] \in Nat /\ Top.raised[j - 1] \in Nat
        <5>1. Top.raised[1] \in TplLevels /\ Top.raised[j - 1] \in TplLevels
          BY <1>5, <3>1, <4>1
        <5>2. Top.raised[1] <= tpl
          BY <1>3, <4>1 DEF OnLevel
        <5> QED BY <5>1, <5>2, Levels4816 DEF LevelFacts
      <4>3. Top.raised[j - 1] <= Top.raised[1]
        <5>1. j - 1 = 1 \/ 1 < j - 1
          BY <3>1
        <5> QED BY <3>1, <3>2, <4>1, <4>2, <5>1
      <4> QED BY <1>4, <1>6, <3>1, <3>3, <4>2, <4>3
    <3>4. CASE i # 1
      <4>1. i - 1 \in 1..Len(Top.raised) /\ r[i] = Top.raised[i - 1] /\ i - 1 < j - 1
        BY <1>6, <2>2, <3>4
      <4> QED BY <3>1, <3>2, <4>1
    <3> QED BY <3>3, <3>4
  <2> QED BY <1>2, <1>6, <1>7, <1>8, <2>1, <2>2 DEF OnLevel
<1>10. OwnLevel(g) <= new
  <2>1. OwnLevel(Top) \in Nat
    BY <1>3, Levels4816 DEF LevelFacts
  <2> HIDE DEF Top
  <2> QED BY <1>2, <1>3, <1>4, <1>8, <2>1
<1>11. StackOK(stack', Live, tpl')
  BY <1>1, <1>2, <1>4, <1>7, <1>9, <1>10, CodeStack DEF Top
<1>12. Served(stack', event_queue', tpl')
  <2> SUFFICES ASSUME NEW e \in ToSet(event_queue) PROVE NotifyTpl[e] <= new
    BY <1>2 DEF Served
  <2>1. e \in Live
    BY <1>4 DEF QueueOK, ToSet
  <2>2. NotifyTpl[e] \in Nat /\ NotifyTpl[e] <= tpl
    BY <1>3, <1>4, <2>1, Levels4816 DEF LevelFacts
  <2> QED BY <1>2, <1>4, <2>2
<1>13. /\ group' \in [Events -> Groups \cup {NoGroup}] /\ group'[wait_for_key] = NoGroup
       /\ trigger' \in [Events -> Triggers] /\ timers_enabled' \in BOOLEAN /\ tpl' \in TplLevels
       /\ untold' \subseteq Events /\ signaled' \subseteq Live /\ QueueOK(event_queue', Live)
  BY <1>1, <1>2, <1>4, BootFacts
<1> QED BY <1>1, <1>2, <1>11, <1>12, <1>13, Stepped

\* Restoring it brings a timer check, and with it the queue, before the caller
\* goes on.
LEMMA RestoreCore == ASSUME CoreInv, efi_restore_tpl PROVE CoreInv'
<1>1. boottime /\ calls' \in 0..MaxCalls /\ IsCode(Top)
  BY CallerFacts DEF efi_restore_tpl
<1> DEFINE old == Top.raised
           r == Tail(old)
           g == Code(Top.op, Top.ev, Top.base, r)
<1>2. /\ old # <<>> /\ tpl' = Head(old) /\ stack' = <<TimerCheck, g>> \o Tail(stack)
      /\ UNCHANGED <<prog, events, group, signaled, trigger, event_queue, timers_enabled, boottime, untold>>
  BY DEF efi_restore_tpl
<1>3. OnLevel(Top, tpl) /\ OwnLevel(Top) \in TplLevels
  BY <1>1, CodeServed
<1>4. /\ Top \in Frames /\ Live \subseteq Events /\ QueueOK(event_queue, Live) /\ StackOK(stack, Live, tpl)
  BY <1>1, BootFacts
<1>5. /\ Top.base \in TplLevels /\ old \in Seq(TplLevels) /\ Top.op \in CodeOps
      /\ (Top.op = "app" => Top.ev = NoEvent) /\ (Top.op # "app" => Top.ev \in Events)
  BY <1>1, <1>4, FrameFields DEF IsCode, CodeOps
<1>6. /\ old[Len(old)] = OwnLevel(Top)
      /\ \A k, l \in 1..Len(old) : k < l => old[l] <= old[k]
  BY <1>2, <1>3 DEF OnLevel
<1> HIDE DEF old
<1>7. /\ r \in Seq(TplLevels) /\ Len(r) = Len(old) - 1 /\ Len(old) \in Nat /\ Len(old) >= 1
      /\ (\A i \in 1..(Len(old) - 1) : r[i] = old[i + 1]) /\ Head(old) = old[1] /\ old[1] \in TplLevels
  BY <1>2, <1>5, Popped
<1> HIDE DEF r
<1>8. g \in Frames /\ g.op = Top.op /\ g.ev = Top.ev /\ g.base = Top.base /\ g.raised = r
  <2>1. CASE Top.op = "app"
    BY <1>5, <1>7, <2>1 DEF Code, Frames
  <2>2. CASE Top.op # "app"
    BY <1>5, <1>7, <2>2 DEF Code, Frames, CodeOps
  <2> QED BY <2>1, <2>2
<1> HIDE DEF g
<1>9. OwnLevel(g) = OwnLevel(Top)
  BY <1>8 DEF OwnLevel
<1>10. r = <<>> => Len(old) = 1
  BY <1>7
<1>11. r # <<>> => r[1] = old[2] /\ r[Len(r)] = old[Len(old)] /\ Len(old) >= 2
  BY <1>7
<1>12. OnLevel(g, tpl')
  <2>1. ASSUME NEW i \in 1..Len(r), NEW j \in 1..Len(r), i < j PROVE r[j] <= r[i]
    <3>1. i + 1 \in 1..Len(old) /\ j + 1 \in 1..Len(old) /\ r[i] = old[i + 1] /\ r[j] = old[j + 1] /\ i + 1 < j + 1
      BY <1>7, <2>1
    <3> QED BY <1>6, <3>1
  <2>2. r = <<>> => tpl' = OwnLevel(g)
    BY <1>2, <1>6, <1>7, <1>9, <1>10
  <2>3. ASSUME r # <<>> PROVE r[1] <= tpl' /\ r[Len(r)] = OwnLevel(g)
    <3>1. 1 \in 1..Len(old) /\ 2 \in 1..Len(old)
      BY <1>7, <1>11, <2>3
    <3> QED BY <1>2, <1>6, <1>7, <1>9, <1>11, <2>3, <3>1
  <2> QED BY <1>8, <2>1, <2>2, <2>3 DEF OnLevel
<1>13. OwnLevel(g) <= tpl' /\ tpl' \in Nat /\ tpl' \in TplLevels
  <2>1. tpl' = old[1] /\ tpl' \in TplLevels /\ tpl' \in Nat /\ OwnLevel(g) \in Nat /\ OwnLevel(g) = old[Len(old)]
    BY <1>2, <1>3, <1>6, <1>7, <1>9, Levels4816 DEF LevelFacts
  <2>2. Len(old) = 1 \/ 1 < Len(old)
    BY <1>7
  <2>3. 1 \in 1..Len(old) /\ Len(old) \in 1..Len(old)
    BY <1>7
  <2> QED BY <1>6, <2>1, <2>2, <2>3
<1>14. StackOK(<<g>> \o Tail(stack), Live, tpl')
  BY <1>1, <1>4, <1>8, <1>12, <1>13, CodeStack DEF Top
<1>15. Plain(TimerCheck, Live) /\ TimerCheck.op = "timer"
  BY <1>4, PlainMade DEF TimerCheck, TimerWalk
<1>16. stack' = <<TimerCheck>> \o (<<g>> \o Tail(stack))
  <2>1. Tail(stack) \in Seq(Frames)
    BY <1>4, Popped DEF StackOK
  <2> QED BY <1>2, <1>8, <1>15, <2>1, PushTwo DEF Plain
<1>17. StackOK(stack', Live, tpl') /\ Served(stack', event_queue', tpl')
  BY <1>14, <1>15, <1>16, PushStack, PushServed DEF Plain, StackOK
<1>18. /\ group' \in [Events -> Groups \cup {NoGroup}] /\ group'[wait_for_key] = NoGroup
       /\ trigger' \in [Events -> Triggers] /\ timers_enabled' \in BOOLEAN
       /\ untold' \subseteq Events /\ signaled' \subseteq Live /\ QueueOK(event_queue', Live)
  BY <1>1, <1>2, <1>4, BootFacts
<1> QED BY <1>1, <1>2, <1>13, <1>17, <1>18, Stepped

\* SignalEvent() leaves the caller on the stack.
LEMMA SignalCore == ASSUME CoreInv, NEW e \in prog, efi_signal_event_ext(e) PROVE CoreInv'
<1>1. boottime /\ calls' \in 0..MaxCalls
  BY CallerFacts DEF efi_signal_event_ext
<1>2. /\ e \in Live /\ efi_signal_event(e, signaled, group, stack)
      /\ UNCHANGED <<prog, events, group, trigger, tpl, timers_enabled, boottime, untold>>
  BY DEF efi_signal_event_ext
<1>3. /\ group' \in [Events -> Groups \cup {NoGroup}] /\ group'[wait_for_key] = NoGroup
      /\ trigger' \in [Events -> Triggers] /\ timers_enabled' \in BOOLEAN /\ untold' \subseteq Events
      /\ signaled \subseteq Live /\ Fits(stack, Live, event_queue, tpl)
  BY <1>1, <1>2, BootFacts, TopUses
<1> QED BY <1>1, <1>2, <1>3, SignalFits

\* SetTimer() changes neither queue nor stack.
LEMMA SetTimerCore ==
  ASSUME CoreInv, NEW e \in prog, NEW type \in Triggers, efi_set_timer(e, type)
  PROVE  CoreInv'
<1>1. boottime /\ calls' \in 0..MaxCalls
  BY CallerFacts DEF efi_set_timer
<1>2. /\ trigger' = [trigger EXCEPT ![e] = type] /\ signaled' = signaled \ {e}
      /\ UNCHANGED <<prog, events, group, event_queue, tpl, timers_enabled, boottime, stack, untold>>
  BY DEF efi_set_timer
<1>3. trigger' \in [Events -> Triggers]
  BY <1>1, <1>2, BootFacts
<1>4. /\ group' \in [Events -> Groups \cup {NoGroup}] /\ group'[wait_for_key] = NoGroup
      /\ timers_enabled' \in BOOLEAN /\ tpl' \in TplLevels /\ untold' \subseteq Events
      /\ signaled' \subseteq Live /\ QueueOK(event_queue', Live)
      /\ StackOK(stack', Live, tpl') /\ Served(stack', event_queue', tpl')
  BY <1>1, <1>2, BootFacts
<1> QED BY <1>1, <1>2, <1>3, <1>4, Stepped

\* A service that checks the timers first, and then goes on with a plain frame
LEMMA CallTimed ==
  ASSUME CoreInv, Caller, NEW f, Plain(f, Live), stack' = <<TimerCheck, f>> \o stack,
         UNCHANGED <<prog, events, group, signaled, trigger, event_queue, tpl, timers_enabled, boottime, untold>>
  PROVE  CoreInv'
<1>1. boottime /\ calls' \in 0..MaxCalls
  BY CallerFacts
<1>2. stack \in Seq(Frames) /\ Live \subseteq Events /\ signaled' \subseteq Live
  BY <1>1, BootFacts
<1>3. Plain(TimerCheck, Live)
  BY <1>2, PlainMade
<1>4. stack' = <<TimerCheck>> \o (<<f>> \o stack)
  BY <1>2, <1>3, PushTwo DEF Plain
<1>5. Fits(stack', Live, event_queue, tpl)
  BY <1>1, <1>3, <1>4, TopUses, PushFits
<1> QED BY <1>1, <1>2, <1>5, StackFits

\* The lists that are waited for hold events that exist.
LEMMA WaitListsLive == \A evs \in WaitLists : evs \in Seq(Live)
<1> SUFFICES ASSUME NEW evs \in WaitLists PROVE evs \in Seq(Live)
  OBVIOUS
<1>1. CASE evs \in {<<e>> : e \in Live}
  BY <1>1
<1>2. CASE evs \in Live \X Live
  <2>1. PICK a \in Live, b \in Live : evs = <<a, b>>
    BY <1>2
  <2>2. <<a, b>> \in Seq(Live)
    OBVIOUS
  <2> QED BY <2>1, <2>2
<1> QED BY <1>1, <1>2 DEF WaitLists

\* WaitForEvent() is called
LEMMA WaitCallCore == ASSUME CoreInv, NEW evs \in WaitLists, efi_wait_for_event(evs) PROVE CoreInv'
<1>1. boottime /\ calls' \in 0..MaxCalls
  BY CallerFacts DEF efi_wait_for_event
<1>2. /\ stack' = <<Waiting(evs, 1)>> \o stack
      /\ UNCHANGED <<prog, events, group, signaled, trigger, event_queue, tpl, timers_enabled, boottime, untold>>
  BY DEF efi_wait_for_event
<1>3. Live \subseteq Events /\ signaled' \subseteq Live /\ evs \in Seq(Live) /\ 1 \in Nat \ {0}
  BY <1>1, <1>2, BootFacts, WaitListsLive
<1>4. Plain(Waiting(evs, 1), Live)
  BY <1>3, PlainMade
<1>5. Fits(stack', Live, event_queue, tpl)
  BY <1>1, <1>2, <1>4, TopUses, PushFits
<1> QED BY <1>1, <1>2, <1>3, <1>5, StackFits

\* ExitBootServices() is called by the application on its own level.
LEMMA ExitCallCore == ASSUME CoreInv, efi_exit_boot_services PROVE CoreInv'
<1>1. boottime /\ calls' \in 0..MaxCalls
  BY CallerFacts DEF efi_exit_boot_services
<1> DEFINE rest == <<[op |-> "exit_group"]>> \o stack
<1>2. /\ SignalGroup("before_exit_boot_services", group, rest)
      /\ Top.op = "app" /\ Top.raised = <<>>
      /\ UNCHANGED <<prog, events, group, trigger, tpl, timers_enabled, boottime, untold>>
  BY DEF efi_exit_boot_services, IsTop
<1>3. Fits(rest, Live, event_queue, tpl)
  <2>1. StackOK(stack, Live, tpl) /\ Served(stack, event_queue, tpl) /\ stack \in Seq(Frames)
    BY <1>1, BootFacts
  <2>2. "exit_group" \in ExitOps
    BY DEF ExitOps
  <2>3. StackOK(rest, Live, tpl)
    BY <1>2, <2>1, <2>2, ExitStack DEF Top
  <2>4. [op |-> "exit_group"] \in Frames /\ ~IsCode([op |-> "exit_group"])
    BY FramesMade DEF IsCode, CodeOps
  <2>5. Served(rest, event_queue, tpl)
    BY <2>1, <2>4, PushServed
  <2> QED BY <2>3, <2>5 DEF Fits
<1> HIDE DEF rest
<1>4. /\ group' \in [Events -> Groups \cup {NoGroup}] /\ group'[wait_for_key] = NoGroup
      /\ trigger' \in [Events -> Triggers] /\ timers_enabled' \in BOOLEAN /\ untold' \subseteq Events
  BY <1>1, <1>2, BootFacts
<1> QED BY <1>1, <1>2, <1>3, <1>4, SignalGroupFits

\* All services
LEMMA ServiceCore == CoreInv /\ Service => CoreInv'
<1> SUFFICES ASSUME CoreInv, Service PROVE CoreInv'
  OBVIOUS
<1>1. ASSUME NEW e \in prog, efi_check_event(e) PROVE CoreInv'
  <2>1. Caller /\ boottime
    BY <1>1, CallerFacts DEF efi_check_event
  <2>2. Live \subseteq Events /\ e \in Events
    BY <2>1, BootFacts
  <2>3. Plain([op |-> "check", ev |-> e], Live)
    BY <2>2, PlainMade
  <2>4. /\ stack' = <<TimerCheck, [op |-> "check", ev |-> e]>> \o stack
        /\ UNCHANGED <<prog, events, group, signaled, trigger, event_queue, tpl, timers_enabled, boottime, untold>>
    BY <1>1 DEF efi_check_event
  <2> QED BY <2>1, <2>3, <2>4, CallTimed
<1>2. ASSUME NEW e \in prog,
             efi_create_event(e) \/ efi_close_event(e) \/ efi_signal_event_ext(e)
             \/ (\E type \in Triggers : efi_set_timer(e, type))
      PROVE  CoreInv'
  BY <1>2, CreateCore, CloseCore, SignalCore, SetTimerCore
<1>3. CASE \E new \in TplLevels : efi_raise_tpl(new)
  BY <1>3, RaiseCore
<1>4. CASE efi_restore_tpl
  BY <1>4, RestoreCore
<1>5. CASE \E evs \in WaitLists : efi_wait_for_event(evs)
  BY <1>5, WaitCallCore
<1>6. CASE efi_exit_boot_services
  BY <1>6, ExitCallCore
<1> QED BY <1>1, <1>2, <1>3, <1>4, <1>5, <1>6 DEF Service

\* The console's notification functions, and reading a key, find its event.
LEMMA ConsoleLive ==
  ASSUME CoreInv, boottime, Internal \cap Live # {}
  PROVE  Internal \subseteq Live /\ wait_for_key \in Live
<1>1. Internal \subseteq Live
  BY BootFacts
<1> QED BY <1>1, ConsoleAssumption DEF Internal, ToSet

\* efi_cin_check() signals the event of the console, or leaves it.
LEMMA CinCheckCore ==
  ASSUME CoreInv, boottime, wait_for_key \in Live, NEW rest, Fits(rest, Live, event_queue, tpl),
         efi_cin_check(rest),
         UNCHANGED <<prog, events, group, trigger, tpl, timers_enabled, boottime, calls, untold>>
  PROVE  CoreInv'
<1>1. /\ group' \in [Events -> Groups \cup {NoGroup}] /\ group'[wait_for_key] = NoGroup
      /\ trigger' \in [Events -> Triggers] /\ timers_enabled' \in BOOLEAN /\ untold' \subseteq Events
      /\ signaled \subseteq Live /\ calls' \in 0..MaxCalls
  BY BootFacts
<1>2. CASE efi_signal_event(wait_for_key, signaled, group, rest)
  BY <1>1, <1>2, SignalFits
<1>3. CASE stack' = rest /\ UNCHANGED <<signaled, event_queue>>
  BY <1>1, <1>3, StackFits
<1> QED BY <1>2, <1>3 DEF efi_cin_check, StillAvailable, SignalKey

\* The notification functions of the console go on as "notified".
LEMMA NotifiedFits ==
  ASSUME CoreInv, ConsoleNotify, NEW rest,
         rest = <<Code("notified", Top.ev, Top.base, Top.raised)>> \o Tail(stack)
  PROVE  /\ boottime /\ IsCode(Top) /\ Top.op = "notify" /\ wait_for_key \in Live
         /\ Code("notified", Top.ev, Top.base, Top.raised) \in Frames
         /\ Fits(rest, Live, event_queue, tpl)
<1>1. boottime /\ Top.op = "notify" /\ IsCode(Top) /\ Top.ev \in Internal
  BY TopBoots DEF ConsoleNotify, IsCode, CodeOps
<1> DEFINE g == Code("notified", Top.ev, Top.base, Top.raised)
<1>2. /\ Top \in Frames /\ Live \subseteq Events /\ StackOK(stack, Live, tpl) /\ tpl \in Nat
      /\ NoEvent \notin Events /\ Internal \subseteq Events /\ stack \in Seq(Frames) /\ stack # <<>>
  <2>1. NoEvent \notin Events /\ Internal \subseteq Events
    BY EventsAssumption, ConsoleAssumption DEF Internal, ToSet
  <2>2. /\ Top \in Frames /\ Live \subseteq Events /\ StackOK(stack, Live, tpl) /\ tpl \in TplLevels
        /\ stack \in Seq(Frames) /\ stack # <<>>
    BY <1>1, BootFacts
  <2> QED BY <2>1, <2>2, Levels4816 DEF LevelFacts
<1>3. wait_for_key \in Live
  <2>1. Top.ev \in Needs(Top)
    BY <1>1 DEF Needs, Refers
  <2>2. Top.ev \in Live
    BY <1>1, <1>2, <2>1, TopUses
  <2> QED BY <1>1, <2>2, ConsoleLive
<1>4. Top.ev \in Events /\ Top.base \in TplLevels /\ Top.raised \in Seq(TplLevels)
  BY <1>1, <1>2, FrameFields
<1>5. g \in Frames /\ g.op = "notified" /\ g.ev = Top.ev /\ g.base = Top.base /\ g.raised = Top.raised
  BY <1>4 DEF Code, Frames
<1>6. rest = <<g>> \o Tail(stack)
  OBVIOUS
<1> HIDE DEF g
<1>7. /\ (\A e \in ToSet(event_queue) : NotifyTpl[e] <= tpl)
      /\ OnLevel(Top, tpl) /\ OwnLevel(Top) <= tpl
  BY <1>1, CodeServed
<1>8. OwnLevel(g) = OwnLevel(Top)
  BY <1>1, <1>5 DEF OwnLevel
<1>9. OnLevel(g, tpl) /\ OwnLevel(g) <= tpl
  BY <1>5, <1>7, <1>8 DEF OnLevel
<1>10. StackOK(rest, Live, tpl)
  BY <1>1, <1>2, <1>5, <1>6, <1>9, CodeStack DEF Top
<1>11. Fits(rest, Live, event_queue, tpl)
  BY <1>7, <1>10 DEF Fits, Served
<1> QED BY <1>1, <1>3, <1>5, <1>11 DEF g

\* efi_key_notify() and efi_console_timer_notify() keep the core invariant.
LEMMA ConsoleNotifyCore == CoreInv /\ ConsoleNotify => CoreInv'
<1> SUFFICES ASSUME CoreInv, ConsoleNotify PROVE CoreInv'
  OBVIOUS
<1> DEFINE rest == <<Code("notified", Top.ev, Top.base, Top.raised)>> \o Tail(stack)
<1>1. /\ efi_cin_check(rest)
      /\ UNCHANGED <<prog, events, group, trigger, tpl, timers_enabled, boottime, calls, untold>>
  BY DEF ConsoleNotify
<1>2. boottime /\ wait_for_key \in Live /\ Fits(rest, Live, event_queue, tpl)
  BY NotifiedFits
<1> HIDE DEF rest
<1> QED BY <1>1, <1>2, CinCheckCore

\* ReadKeyStroke() checks the timers, then the console, then takes the key.
LEMMA ReadCore == CoreInv /\ (ReadChecks \/ ReadReturns \/ efi_cin_read_key_stroke) => CoreInv'
<1>1. ASSUME CoreInv, ReadChecks PROVE CoreInv'
  <2>1. boottime /\ Top.op = "read" /\ ~IsCode(Top)
    BY <1>1, TopBoots DEF ReadChecks, IsCode, CodeOps
  <2>2. /\ efi_cin_check(<<[op |-> "reading"]>> \o Tail(stack))
        /\ UNCHANGED <<prog, events, group, trigger, tpl, timers_enabled, boottime, calls, untold>>
    BY <1>1 DEF ReadChecks
  <2>3. wait_for_key \in Live
    <3>1. wait_for_key \in Needs(Top) /\ wait_for_key # NoEvent
      BY <2>1, ConsoleAssumption, EventsAssumption DEF Needs, Internal, ToSet
    <3> QED BY <1>1, <2>1, <3>1, TopUses
  <2>4. Fits(Tail(stack), Live, event_queue, tpl) /\ Live \subseteq Events
    BY <1>1, <2>1, TopPopped, BootFacts
  <2>5. Plain([op |-> "reading"], Live)
    BY <2>4, PlainMade
  <2>6. Fits(<<[op |-> "reading"]>> \o Tail(stack), Live, event_queue, tpl)
    BY <2>4, <2>5, PushFits
  <2> QED BY <1>1, <2>1, <2>2, <2>3, <2>6, CinCheckCore
<1>2. ASSUME CoreInv, ReadReturns PROVE CoreInv'
  <2>1. boottime /\ Top.op = "reading" /\ ~IsCode(Top)
    BY <1>2, TopBoots DEF ReadReturns, IsCode, CodeOps
  <2>2. Fits(Tail(stack), Live, event_queue, tpl) /\ signaled \subseteq Live /\ calls \in 0..MaxCalls
    BY <1>2, <2>1, TopPopped, BootFacts
  <2>3. /\ stack' = Tail(stack) /\ signaled' \subseteq Live /\ calls' \in 0..MaxCalls
        /\ UNCHANGED <<prog, events, group, trigger, event_queue, tpl, timers_enabled, boottime, untold>>
    BY <1>2, <2>2 DEF ReadReturns, KeyTaken
  <2> QED BY <1>2, <2>1, <2>2, <2>3, StackFits
<1>3. ASSUME CoreInv, efi_cin_read_key_stroke PROVE CoreInv'
  <2>1. Caller /\ boottime /\ wait_for_key \in Live
    BY <1>3, CallerFacts DEF efi_cin_read_key_stroke
  <2>2. Internal \subseteq Live
    <3>1. wait_for_key \in Internal
      BY ConsoleAssumption DEF Internal, ToSet
    <3> QED BY <1>3, <2>1, <3>1, ConsoleLive
  <2>3. Live \subseteq Events
    BY <1>3, <2>1, BootFacts
  <2>4. Plain([op |-> "read"], Live)
    BY <2>2, <2>3, PlainMade
  <2>5. /\ stack' = <<TimerCheck, [op |-> "read"]>> \o stack
        /\ UNCHANGED <<prog, events, group, signaled, trigger, event_queue, tpl, timers_enabled, boottime, untold>>
    BY <1>3 DEF efi_cin_read_key_stroke
  <2> QED BY <1>3, <2>1, <2>4, <2>5, CallTimed
<1> QED BY <1>1, <1>2, <1>3

\* U-Boot starts with its own events and the application at the bottom.
LEMMA StartStack == StackOK(<<App>>, {}, TPL_APPLICATION)
<1> DEFINE S == <<App>>
<1>1. App \in Frames /\ App.op = "app" /\ App.raised = <<>>
  <2>1. NoEvent \in EventOrNone /\ TPL_APPLICATION \in TplLevels /\ <<>> \in Seq(TplLevels)
    BY DEF EventOrNone, TplLevels
  <2> QED BY <2>1 DEF App, Code, Frames
<1>2. S \in Seq(Frames) /\ S # <<>> /\ Len(S) = 1 /\ 1..Len(S) = {1} /\ S[1].op = "app" /\ S[1].raised = <<>> /\ S[1] = App
  BY <1>1
<1> HIDE DEF S
<1>3. Bottom(S)
  BY <1>2 DEF Bottom, ExitOps
<1>4. OnLevel(S[1], TPL_APPLICATION) /\ OwnLevel(S[1]) = TPL_APPLICATION /\ TPL_APPLICATION \in Nat
  BY <1>2 DEF OnLevel, OwnLevel, TPL_APPLICATION
<1>5. Nested(S, TPL_APPLICATION)
  BY <1>2, <1>4 DEF Nested
<1>6. Uses(S, {})
  BY <1>2 DEF Uses, Needs, Refers
<1> QED BY <1>2, <1>3, <1>5, <1>6 DEF StackOK, S

\* U-Boot's own events
LEMMA StartLists ==
  ASSUME prog \in Programs
  PROVE  /\ OwnEvents \in Seq(prog) /\ IsInjective(OwnEvents)
         /\ (Internal \subseteq prog => Internal \subseteq ToSet(OwnEvents))
         /\ OwnGroups \in [Events -> Groups \cup {NoGroup}] /\ OwnGroups[wait_for_key] = NoGroup
         /\ OwnTimers \in [Events -> Triggers]
<1>1. prog \subseteq Events /\ prog \cap Internal \in {{}, Internal}
  BY EventsAssumption
<1>2. Internal = {wait_for_key, timer_event} /\ Registration = <<wait_for_key, timer_event>>
      /\ wait_for_key # timer_event
  BY ConsoleAssumption DEF Internal, ToSet
<1>3. OwnEvents \in Seq(prog) /\ IsInjective(OwnEvents)
  <2>1. CASE Own = {}
    BY <2>1 DEF OwnEvents, IsInjective
  <2>2. CASE Own # {}
    <3>1. wait_for_key \in prog /\ timer_event \in prog
      BY <1>1, <1>2, <2>2 DEF Own
    <3> QED BY <1>2, <2>2, <3>1 DEF OwnEvents, IsInjective
  <2> QED BY <2>1, <2>2
<1>4. ASSUME Internal \subseteq prog PROVE Internal \subseteq ToSet(OwnEvents)
  <2>1. Own # {}
    BY <1>2, <1>4 DEF Own
  <2> QED BY <2>1 DEF OwnEvents, Internal
<1>5. OwnGroups \in [Events -> Groups \cup {NoGroup}] /\ OwnGroups[wait_for_key] = NoGroup
  BY <1>2, EventsAssumption, ConsoleAssumption DEF OwnGroups
<1>6. OwnTimers \in [Events -> Triggers]
  BY DEF OwnTimers, Triggers
<1> QED BY <1>3, <1>4, <1>5, <1>6

\* Nothing waits when the application starts.
LEMMA StartServed == QueueOK(<<>>, {}) /\ Served(<<App>>, <<>>, TPL_APPLICATION)
<1>1. <<>> \in Seq({}) /\ IsInjective(<<>>) /\ ToSet(<<>>) = {}
  BY DEF IsInjective, ToSet
<1>2. Sorted(<<>>)
  BY DEF Sorted
<1> QED BY <1>1, <1>2 DEF QueueOK, Served

\* The initial states
LEMMA CoreInit == ConsoleInit => CoreInv
<1> SUFFICES ASSUME ConsoleInit PROVE CoreInv
  OBVIOUS
<1>1. /\ prog \in Programs /\ events = OwnEvents /\ group = OwnGroups /\ trigger = OwnTimers
      /\ signaled = {} /\ event_queue = <<>> /\ tpl = TPL_APPLICATION
      /\ timers_enabled = TRUE /\ boottime = TRUE /\ stack = <<App>> /\ calls = 0 /\ untold = {}
  BY DEF ConsoleInit, Init
<1>2. /\ events \in Seq(prog) /\ IsInjective(events)
      /\ (Internal \subseteq prog => Internal \subseteq Live)
      /\ group \in [Events -> Groups \cup {NoGroup}] /\ group[wait_for_key] = NoGroup
      /\ trigger \in [Events -> Triggers]
  BY <1>1, StartLists DEF Live
<1>3. StackOK(stack, Live, tpl) /\ tpl \in TplLevels
  BY <1>1, StartStack, SameStack DEF TplLevels
<1>4. Served(stack, event_queue, tpl) /\ Sorted(event_queue)
  BY <1>1, StartServed DEF QueueOK
<1>5. event_queue \in Seq(Live) /\ IsInjective(event_queue)
  BY <1>1, StartServed DEF QueueOK
<1>6. stack \in Seq(Frames) /\ InUse \subseteq Live \cup {NoEvent}
  <2>1. stack \in Seq(Frames) /\ Uses(stack, Live)
    BY <1>3 DEF StackOK
  <2>2. ASSUME NEW i \in DOMAIN stack PROVE Refers(stack[i]) \subseteq Live \cup {NoEvent}
    <3>1. i \in 1..Len(stack)
      BY <2>1
    <3> QED BY <2>1, <3>1 DEF Uses, Needs
  <2> QED BY <2>1, <2>2 DEF InUse
<1>7. calls \in 0..MaxCalls
  BY <1>1, BoundAssumption
<1>8. TypeOK
  BY <1>1, <1>2, <1>3, <1>5, <1>6, <1>7 DEF TypeOK
<1>9. OwnInv /\ LevelInv
  BY <1>1, <1>2, <1>3, <1>4 DEF OwnInv, LevelInv
<1> QED BY <1>8, <1>9 DEF CoreInv

\* U-Boot starts again in one of them.
LEMMA ResetCore == CoreInv /\ Reset => CoreInv'
<1> SUFFICES ASSUME CoreInv, Reset PROVE CoreInv'
  OBVIOUS
<1>1. /\ prog' = prog /\ events' = OwnEvents /\ group' = OwnGroups /\ trigger' = OwnTimers
      /\ signaled' = {} /\ event_queue' = <<>> /\ tpl' = TPL_APPLICATION
      /\ timers_enabled' = TRUE /\ boottime' = TRUE /\ stack' = <<App>> /\ calls' = 0 /\ untold' = {}
  BY DEF Reset
<1>2. prog \in Programs
  BY DEF CoreInv, TypeOK
<1>3. /\ events' \in Seq(prog') /\ IsInjective(events')
      /\ (Internal \subseteq prog' => Internal \subseteq Live')
      /\ group' \in [Events -> Groups \cup {NoGroup}] /\ group'[wait_for_key] = NoGroup
      /\ trigger' \in [Events -> Triggers] /\ prog' \in Programs
  BY <1>1, <1>2, StartLists DEF Live
<1>4. StackOK(stack', Live', tpl') /\ tpl' \in TplLevels
  BY <1>1, StartStack, SameStack DEF TplLevels
<1>5. Served(stack', event_queue', tpl') /\ QueueOK(event_queue', {})
  BY <1>1, StartServed
<1>6. QueueOK(event_queue', Live')
  BY <1>1, <1>5 DEF QueueOK
<1>7. calls' \in 0..MaxCalls /\ untold' \subseteq Events /\ signaled' \subseteq Live' /\ timers_enabled' \in BOOLEAN
  BY <1>1, BoundAssumption
<1> QED BY <1>1, <1>3, <1>4, <1>5, <1>6, <1>7, Rebuilt

\* Steps of the console that leave the events alone
LEMMA StutterCore ==
  ASSUME CoreInv, UNCHANGED <<prog, events, group, signaled, trigger, event_queue, tpl,
                              timers_enabled, boottime, stack, untold>>, calls' \in 0..MaxCalls
  PROVE  CoreInv'
<1>1. Live' = Live /\ InUse' = InUse
  BY DEF Live, InUse
<1>2. TypeOK'
  BY <1>1 DEF CoreInv, TypeOK
<1>3. OwnInv'
  BY <1>1 DEF CoreInv, OwnInv
<1>4. LevelInv'
  BY <1>1 DEF CoreInv, LevelInv
<1> QED BY <1>2, <1>3, <1>4 DEF CoreInv

\* Every step keeps the invariant of levels, queue and stack.
LEMMA CoreNext == CoreInv /\ [ConsoleNext]_cvars => CoreInv'
<1> SUFFICES ASSUME CoreInv, [ConsoleNext]_cvars PROVE CoreInv'
  OBVIOUS
<1>1. CASE Internals
  <2>1. CASE GroupLoop
    BY <2>1, GroupCore
  <2>2. CASE efi_process_event_queue
    BY <2>2, ProcessCore
  <2>3. CASE \E e \in prog : TimerFires(e)
    BY <2>3, TimerCore
  <2>4. CASE TimerCheckEnds
    BY <2>4, TimerEndCore
  <2>5. CASE CheckQueues \/ CheckReturns
    BY <2>5, CheckCore
  <2>6. CASE WaitQueues \/ WaitLooks
    BY <2>6, WaitCore
  <2>7. CASE ExitNotify
    BY <2>7, ExitNotifyCore
  <2>8. CASE ExitEnds
    BY <2>8, ExitEndsCore
  <2> QED BY <1>1, <2>1, <2>2, <2>3, <2>4, <2>5, <2>6, <2>7, <2>8 DEF Internals
<1>2. CASE ConsoleNotify
  BY <1>2, ConsoleNotifyCore
<1>3. CASE ReadChecks \/ ReadReturns \/ efi_cin_read_key_stroke
  BY <1>3, ReadCore
<1>4. CASE Service
  BY <1>4, ServiceCore
<1>5. CASE NotifyReturns
  BY <1>5, ReturnCore
<1>6. CASE efi_cin_reset
  BY <1>6, CallerFacts, StutterCore DEF efi_cin_reset
<1>7. CASE KeyPressed \/ UNCHANGED cvars
  <2>1. UNCHANGED <<prog, events, group, signaled, trigger, event_queue, tpl,
                    timers_enabled, boottime, stack, untold>> /\ UNCHANGED calls
    BY <1>7 DEF KeyPressed, cvars, vars
  <2>2. calls' \in 0..MaxCalls
    BY <2>1 DEF CoreInv, TypeOK
  <2> QED BY <2>1, <2>2, StutterCore
<1>8. CASE Reset
  BY <1>8, ResetCore
<1> QED BY <1>1, <1>2, <1>3, <1>4, <1>5, <1>6, <1>7, <1>8 DEF ConsoleNext, ConsoleInternals, ConsoleStart

-----------------------------------------------------------------------------
\* Only existing events are queued, signaled or in use by a call in progress,
\* however the callers of services and the notification functions are nested:
\* in particular no walk over the list of events, no check and no wait comes
\* back to an event that efi_close_event() has freed, and what
\* efi_queue_event() put on the queue is there once.
THEOREM TypeTheorem == ConsoleSpec => []TypeOK
<1>1. CoreInv => TypeOK
  BY DEF CoreInv
<1> QED BY CoreInit, CoreNext, <1>1, PTL DEF ConsoleSpec

\* Levels nest, the queue is sorted and served, and what calls in progress go on
\* to use exists: the inductive invariant of the event services
\* (efi_process_event_queue(), efi_queue_event(), efi_close_event()).
THEOREM CoreTheorem == ConsoleSpec => []CoreInv
  BY CoreInit, CoreNext, PTL DEF ConsoleSpec

\* Code runs only while no notification function of a higher level waits: the
\* queue is sorted, and efi_process_event_queue() is about to be called wherever
\* the level has gone down or a function was queued (efi_queue_event(),
\* efi_restore_tpl()).
THEOREM NoneHeldBackTheorem == ConsoleSpec => []NoneHeldBack
<1>1. CoreInv => NoneHeldBack
  <2> SUFFICES ASSUME CoreInv, stack # <<>>, Top.op \in {"app", "notify"}
               PROVE  \A e \in ToSet(event_queue) : NotifyTpl[e] <= tpl
    BY DEF NoneHeldBack
  <2>1. boottime /\ IsCode(Top)
    BY DEF CoreInv, LevelInv, IsCode, CodeOps
  <2> QED BY <2>1, CodeServed
<1> QED BY <1>1, CoreTheorem, PTL

\* The first and the last of the levels to go back to
LEMMA FirstAndLast ==
  ASSUME NEW r \in Seq(TplLevels), r # <<>>
  PROVE  Head(r) = r[1] /\ Last(r) = r[Len(r)]
  BY DEF Last

\* Notification functions only interrupt code of a lower level, and code is on
\* the level it started with unless it has raised it: the old level that
\* efi_process_event_queue() keeps for each function is the one of the code it
\* interrupted, through any nesting.
THEOREM LevelsNestTheorem == ConsoleSpec => []LevelsNest
<1>1. CoreInv => LevelsNest
  <2> SUFFICES ASSUME CoreInv PROVE LevelsNest
    OBVIOUS
  <2>1. CASE ~boottime
    <3>1. stack = <<>> /\ DOMAIN stack = {}
      BY <2>1 DEF CoreInv, LevelInv
    <3> QED BY <3>1 DEF LevelsNest
  <2>2. CASE boottime
    <3>1. stack \in Seq(Frames) /\ Bottom(stack) /\ Nested(stack, tpl) /\ DOMAIN stack = 1..Len(stack)
          /\ Top \in Frames /\ tpl \in TplLevels
      BY <2>2, BootFacts, TopUses
    <3>2. ASSUME NEW i \in DOMAIN stack, NEW j \in DOMAIN stack, i < j,
                 {stack[i].op, stack[j].op} \subseteq {"notify", "notified"}
          PROVE  NotifyTpl[stack[i].ev] > NotifyTpl[stack[j].ev]
      <4>1. i \in 1..Len(stack) /\ j \in 1..Len(stack) /\ IsCode(stack[i]) /\ IsCode(stack[j])
        BY <3>1, <3>2 DEF IsCode, CodeOps
      <4>2. OwnLevel(stack[j]) <= stack[i].base /\ stack[i].base < OwnLevel(stack[i])
        BY <3>1, <3>2, <4>1 DEF Nested
      <4>3. /\ OwnLevel(stack[i]) = NotifyTpl[stack[i].ev] /\ OwnLevel(stack[j]) = NotifyTpl[stack[j].ev]
        BY <3>2 DEF OwnLevel
      <4>4. OwnLevel(stack[i]) \in TplLevels /\ OwnLevel(stack[j]) \in TplLevels /\ stack[i].base \in TplLevels
        BY <3>1, <4>1, OwnLevels, FrameFields
      <4>5. OwnLevel(stack[i]) \in Nat /\ OwnLevel(stack[j]) \in Nat /\ stack[i].base \in Nat
        BY <4>4, Levels4816 DEF LevelFacts
      <4> QED BY <4>2, <4>3, <4>5
    <3>3. ASSUME stack # <<>>, Top.op \in {"app", "notify"}
          PROVE  LET own == IF Top.ev = NoEvent THEN TPL_APPLICATION ELSE NotifyTpl[Top.ev]
                 IN  IF Top.raised = <<>> THEN tpl = own
                     ELSE Last(Top.raised) = own /\ Head(Top.raised) <= tpl
      <4>1. IsCode(Top)
        BY <3>3 DEF IsCode, CodeOps
      <4>2. OnLevel(Top, tpl) /\ OwnLevel(Top) \in TplLevels
        BY <2>2, <4>1, CodeServed
      <4>3. /\ Top.raised \in Seq(TplLevels) /\ (Top.op = "app" => Top.ev = NoEvent)
            /\ (Top.op = "notify" => Top.ev \in Events) /\ NoEvent \notin Events
        BY <3>1, <4>1, FrameFields, EventsAssumption
      <4>4. OwnLevel(Top) = IF Top.ev = NoEvent THEN TPL_APPLICATION ELSE NotifyTpl[Top.ev]
        BY <3>3, <4>3 DEF OwnLevel
      <4>5. CASE Top.raised = <<>>
        BY <4>2, <4>4, <4>5 DEF OnLevel
      <4>6. CASE Top.raised # <<>>
        <5>1. Top.raised[1] <= tpl /\ Top.raised[Len(Top.raised)] = OwnLevel(Top)
          BY <4>2, <4>6 DEF OnLevel
        <5>2. Head(Top.raised) = Top.raised[1] /\ Last(Top.raised) = Top.raised[Len(Top.raised)]
          BY <4>3, <4>6, FirstAndLast
        <5> QED BY <4>4, <4>6, <5>1, <5>2
      <4> QED BY <4>5, <4>6
    <3> QED BY <3>2, <3>3 DEF LevelsNest
  <2> QED BY <2>1, <2>2
<1> QED BY <1>1, CoreTheorem, PTL

-----------------------------------------------------------------------------
(* Signals: every step keeps SignalInv and is steady *)

\* What the frames S and the queue q will notify, R and p will.
Kept(S, q, R, p, grp, evs) ==
  /\ \A x \in Events : HasFunction(x) =>
       /\ x \in ToSet(q) \/ Walked(S, x, grp, evs) => x \in ToSet(p) \/ Walked(R, x, grp, evs)
       /\ Called(S, x) => Called(R, x)
  /\ Exiting(S) => Exiting(R)

\* Step by step
LEMMA KeptTrans ==
  ASSUME NEW S1, NEW S2, NEW S3, NEW q1, NEW q2, NEW q3, NEW grp, NEW evs,
         Kept(S1, q1, S2, q2, grp, evs), Kept(S2, q2, S3, q3, grp, evs)
  PROVE  Kept(S1, q1, S3, q3, grp, evs)
  BY DEF Kept

\* Another frame changes nothing,
LEMMA KeptPush ==
  ASSUME NEW S \in Seq(Frames), NEW g \in Frames, NEW q, NEW p, ToSet(q) \subseteq ToSet(p), NEW grp, NEW evs
  PROVE  Kept(S, q, <<g>> \o S, p, grp, evs)
<1> DEFINE R == <<g>> \o S
<1>1. \A i \in 1..Len(S) : i + 1 \in 1..Len(R) /\ R[i + 1] = S[i]
  <2>1. Len(R) = Len(S) + 1 /\ (\A i \in 2..(Len(S) + 1) : R[i] = S[i - 1]) /\ Len(S) \in Nat
    BY Pushed
  <2> HIDE DEF R
  <2> SUFFICES ASSUME NEW i \in 1..Len(S) PROVE i + 1 \in 1..Len(R) /\ R[i + 1] = S[i]
    OBVIOUS
  <2>2. i + 1 \in 2..(Len(S) + 1) /\ (i + 1) - 1 = i
    BY <2>1
  <2> QED BY <2>1, <2>2
<1> HIDE DEF R
<1>2. ASSUME NEW x, Walked(S, x, grp, evs) PROVE Walked(R, x, grp, evs)
  BY <1>1, <1>2 DEF Walked
<1>3. ASSUME NEW x, Called(S, x) PROVE Called(R, x)
  BY <1>1, <1>3 DEF Called
<1>4. ASSUME Exiting(S) PROVE Exiting(R)
  BY <1>1, <1>4 DEF Exiting
<1> QED BY <1>2, <1>3, <1>4 DEF Kept, R

\* nor does a return to the frames below,
LEMMA KeptPop ==
  ASSUME NEW S \in Seq(Frames), S # <<>>, NEW q, NEW grp, NEW evs,
         S[1].op \notin {"group", "exit_end", "notify", "notified"}
  PROVE  Kept(S, q, Tail(S), q, grp, evs)
<1> DEFINE R == Tail(S)
<1>1. ASSUME NEW i \in 1..Len(S), i # 1 PROVE i - 1 \in 1..Len(R) /\ R[i - 1] = S[i]
  <2>1. Len(R) = Len(S) - 1 /\ (\A k \in 1..(Len(S) - 1) : R[k] = S[k + 1]) /\ Len(S) \in Nat
    BY Popped
  <2> HIDE DEF R
  <2>2. i - 1 \in 1..(Len(S) - 1) /\ (i - 1) + 1 = i
    BY <1>1, <2>1
  <2> QED BY <2>1, <2>2
<1> HIDE DEF R
<1>2. ASSUME NEW x, Walked(S, x, grp, evs) PROVE Walked(R, x, grp, evs)
  BY <1>1, <1>2 DEF Walked, Walks
<1>3. ASSUME NEW x, Called(S, x) PROVE Called(R, x)
  BY <1>1, <1>3 DEF Called
<1>4. ASSUME Exiting(S) PROVE Exiting(R)
  BY <1>1, <1>4 DEF Exiting
<1> QED BY <1>2, <1>3, <1>4 DEF Kept, R

\* nor what code does with its own frame.
LEMMA KeptCode ==
  ASSUME NEW S \in Seq(Frames), S # <<>>, IsCode(S[1]), NEW g \in Frames, NEW q, NEW grp, NEW evs,
         g.op = S[1].op \/ {g.op, S[1].op} \subseteq {"notify", "notified"}, g.ev = S[1].ev
  PROVE  Kept(S, q, <<g>> \o Tail(S), q, grp, evs)
<1> DEFINE R == <<g>> \o Tail(S)
<1>1. R[1] = g /\ 1 \in 1..Len(R) /\ Len(R) = Len(S) /\ \A i \in 1..Len(S) : i # 1 => R[i] = S[i]
  <2>1. /\ Tail(S) \in Seq(Frames) /\ Len(Tail(S)) = Len(S) - 1
        /\ (\A k \in 1..(Len(S) - 1) : Tail(S)[k] = S[k + 1]) /\ Len(S) \in Nat /\ Len(S) >= 1
    BY Popped
  <2>2. Len(R) = Len(Tail(S)) + 1 /\ R[1] = g /\ \A i \in 2..(Len(Tail(S)) + 1) : R[i] = Tail(S)[i - 1]
    BY <2>1, Pushed
  <2> HIDE DEF R
  <2>3. ASSUME NEW i \in 1..Len(S), i # 1 PROVE R[i] = S[i]
    <3>1. i \in 2..(Len(Tail(S)) + 1) /\ i - 1 \in 1..(Len(S) - 1) /\ (i - 1) + 1 = i
      BY <2>1, <2>3
    <3> QED BY <2>1, <2>2, <3>1
  <2> QED BY <2>1, <2>2, <2>3
<1> HIDE DEF R
<1>2. ASSUME NEW x, Walked(S, x, grp, evs) PROVE Walked(R, x, grp, evs)
  BY <1>1, <1>2 DEF Walked, Walks, IsCode, CodeOps
<1>3. ASSUME NEW x, Called(S, x) PROVE Called(R, x)
  BY <1>1, <1>3 DEF Called
<1>4. ASSUME Exiting(S) PROVE Exiting(R)
  BY <1>1, <1>4 DEF Exiting, IsCode, CodeOps
<1> QED BY <1>2, <1>3, <1>4 DEF Kept, R

\* Queueing more loses nothing.
LEMMA KeptSame ==
  ASSUME NEW S, NEW q, NEW p, ToSet(q) \subseteq ToSet(p), NEW grp, NEW evs
  PROVE  Kept(S, q, S, p, grp, evs)
  BY DEF Kept

\* A step keeps SignalInv if it keeps what is to be notified, and sees to what
\* it signals.
LEMMA SignalKept ==
  ASSUME CoreInv, SignalInv, boottime, UNCHANGED <<group, events, boottime, untold>>,
         Kept(stack, event_queue, stack', event_queue', group, events),
         \A e \in signaled' :
            e \in signaled \/ (HasFunction(e) =>
                                 e \in ToSet(event_queue') \/ Walked(stack', e, group, events))
  PROVE  SignalStep
<1>1. Live' = Live /\ Live \subseteq Events /\ signaled \subseteq Live
  BY BootFacts DEF Live
<1>2. Steady
  <2> SUFFICES ASSUME NEW e \in Events, HasFunction(e)
               PROVE  /\ e \in signaled' /\ e \notin signaled => Due(e)'
                      /\ Due(e) => Due(e)'
    BY DEF Steady
  <2>1. e \in signaled' /\ e \notin signaled => e \in ToSet(event_queue') \/ Walked(stack', e, group, events)
    OBVIOUS
  <2>2. e \in ToSet(event_queue) \/ Walked(stack, e, group, events)
          => e \in ToSet(event_queue') \/ Walked(stack', e, group, events)
    BY DEF Kept
  <2> QED BY <2>1, <2>2 DEF Due
<1>3. boottime'
  OBVIOUS
<1>4. PendInv'
  <2> SUFFICES ASSUME NEW e \in Events, e \in signaled', TypeOf[e] = {"NOTIFY_SIGNAL"}
               PROVE  Due(e)' \/ Called(stack', e)
    BY DEF PendInv
  <2>1. HasFunction(e)
    BY NotifiersCallable
  <2>2. CASE e \in signaled
    <3>1. Due(e) \/ Called(stack, e)
      BY <2>2 DEF SignalInv, PendInv
    <3>2. Due(e) => e \in ToSet(event_queue') \/ Walked(stack', e, group, events)
      BY <2>1 DEF Due, Kept
    <3>3. Called(stack, e) => Called(stack', e)
      BY <2>1 DEF Kept
    <3> QED BY <3>1, <3>2, <3>3 DEF Due
  <2>3. CASE e \notin signaled
    BY <2>1, <2>3 DEF Due
  <2> QED BY <2>2, <2>3
<1>5. TellInv'
  <2>1. untold # {} => Exiting(stack')
    BY DEF SignalInv, TellInv, Kept
  <2>2. ASSUME NEW e \in untold PROVE Callable(e) /\ e \in Live /\ Due(e)'
    <3>1. Callable(e) /\ e \in Live /\ Due(e) /\ HasFunction(e) /\ e \in Events
      BY <1>1, <2>2 DEF SignalInv, TellInv, Callable
    <3>2. e \in ToSet(event_queue') \/ Walked(stack', e, group, events)
      BY <3>1 DEF Due, Kept
    <3> QED BY <3>1, <3>2 DEF Due
  <2> QED BY <1>1, <1>3, <2>1, <2>2 DEF TellInv
<1> QED BY <1>2, <1>4, <1>5 DEF SignalStep, SignalInv

\* efi_queue_event() and efi_signal_event() add to it.
LEMMA QueueKept ==
  ASSUME NEW e, NEW rest \in Seq(Frames), efi_queue_event(e, rest),
         ToSet(event_queue) \subseteq ToSet(event_queue'), NEW grp, NEW evs
  PROVE  Kept(rest, event_queue, stack', event_queue', grp, evs)
<1>1. Process \in Frames
  BY FramesMade
<1>2. stack' = rest \/ stack' = <<Process>> \o rest
  BY DEF efi_queue_event
<1> QED BY <1>1, <1>2, KeptPush, KeptSame

\* What efi_signal_event() puts into the signaled state is queued, or its group
\* is walked.
LEMMA SignalTold ==
  ASSUME CoreInv, boottime, NEW e \in Live, NEW rest, Fits(rest, Live, event_queue, tpl),
         NEW sig, NEW grp, efi_signal_event(e, sig, grp, rest)
  PROVE  /\ Kept(rest, event_queue, stack', event_queue', grp, events)
         /\ ToSet(event_queue) \subseteq ToSet(event_queue')
         /\ \A x \in signaled' :
              x \in sig \/ (HasFunction(x) =>
                              x \in ToSet(event_queue') \/ Walked(stack', x, grp, events))
<1>1. /\ Live \subseteq Events /\ QueueOK(event_queue, Live)
      /\ StackOK(rest, Live, tpl) /\ Served(rest, event_queue, tpl) /\ rest \in Seq(Frames)
  BY BootFacts DEF Fits, StackOK
<1> DEFINE g == GroupWalk(e, NoEvent)
<1>2. /\ ToSet(event_queue) \subseteq ToSet(event_queue')
      /\ stack' \in {rest, <<Process>> \o rest, <<g>> \o rest}
      /\ \/ signaled' = sig
         \/ /\ e \notin sig /\ grp[e] # NoGroup /\ signaled' = sig \cup Members(grp, grp[e])
            /\ stack' = <<g>> \o rest
         \/ /\ e \notin sig /\ grp[e] = NoGroup /\ signaled' = sig \cup {e}
            /\ HasFunction(e) => e \in ToSet(event_queue')
  BY <1>1, SignalGood
<1>3. Process \in Frames /\ g \in Frames /\ g.op = "group" /\ g.ev = e /\ g.at = NoEvent
  <2>1. e \in Events /\ NoEvent \in EventOrNone
    BY <1>1 DEF EventOrNone
  <2> QED BY <2>1, FramesMade
<1> HIDE DEF g
<1>4. Kept(rest, event_queue, stack', event_queue', grp, events)
  BY <1>1, <1>2, <1>3, KeptPush, KeptSame
<1>5. ASSUME NEW x \in signaled', x \notin sig, HasFunction(x)
      PROVE  x \in ToSet(event_queue') \/ Walked(stack', x, grp, events)
  <2>1. CASE /\ e \notin sig /\ grp[e] # NoGroup /\ signaled' = sig \cup Members(grp, grp[e])
             /\ stack' = <<g>> \o rest
    <3>1. x \in Live /\ grp[x] = grp[e]
      BY <1>5, <2>1 DEF Members
    <3>2. stack'[1] = g /\ 1 \in 1..Len(stack')
      BY <1>1, <1>3, <2>1, Pushed
    <3>3. Walks(g, x, grp, events)
      BY <1>3, <3>1 DEF Walks, Live
    <3> QED BY <3>2, <3>3 DEF Walked
  <2>2. CASE signaled' = sig
    BY <1>5, <2>2
  <2>3. CASE signaled' = sig \cup {e} /\ (HasFunction(e) => e \in ToSet(event_queue'))
    BY <1>5, <2>3
  <2> QED BY <1>2, <2>1, <2>2, <2>3
<1> QED BY <1>2, <1>4, <1>5

\* The walk over a group comes to each event once: what it leaves behind it has
\* queued.
LEMMA GroupSignals == CoreInv /\ SignalInv /\ GroupLoop => SignalStep
<1> SUFFICES ASSUME CoreInv, SignalInv, GroupLoop PROVE SignalStep
  OBVIOUS
<1>1. boottime /\ Top.op = "group" /\ ~IsCode(Top)
  BY TopBoots DEF GroupLoop, IsCode, CodeOps
<1>2. /\ Live \subseteq Events /\ Top \in Frames /\ stack \in Seq(Frames) /\ stack # <<>>
      /\ events \in Seq(prog) /\ IsInjective(events) /\ DOMAIN events = 1..Len(events)
      /\ QueueOK(event_queue, Live)
      /\ UNCHANGED <<events, group, signaled, boottime, untold>>
  BY <1>1, BootFacts DEF GroupLoop
<1>3. Top.ev \in Live
  <2>1. Top.ev \in Events /\ Top.ev \in Needs(Top) /\ NoEvent \notin Events
    BY <1>1, <1>2, FrameFields, EventsAssumption DEF Needs, Refers
  <2> QED BY <1>1, <2>1, TopUses
<1>4. Fits(Tail(stack), Live, event_queue, tpl)
  BY <1>1, TopPopped
<1> DEFINE R == Ahead(Top.at, Members(group, group[Top.ev]))
           e == FirstOf(R)
           g == GroupWalk(Top.ev, e)
<1>5. ASSUME NEW x, Walks(Top, x, group, events) PROVE x \in R
  BY <1>2, <1>5 DEF Walks, Ahead, Members, After, Live, Before
<1>6. ASSUME NEW i \in 1..Len(stack), i # 1
      PROVE  i - 1 \in 1..Len(Tail(stack)) /\ Tail(stack)[i - 1] = stack[i]
  <2>1. /\ Len(Tail(stack)) = Len(stack) - 1 /\ Len(stack) \in Nat
        /\ \A k \in 1..(Len(stack) - 1) : Tail(stack)[k] = stack[k + 1]
    BY <1>2, Popped
  <2>2. i - 1 \in 1..(Len(stack) - 1) /\ (i - 1) + 1 = i
    BY <1>6, <2>1
  <2> QED BY <2>1, <2>2
<1>7. ASSUME NEW x PROVE /\ Walked(stack, x, group, events) => x \in R \/ Walked(Tail(stack), x, group, events)
                         /\ Called(stack, x) => Called(Tail(stack), x)
                         /\ Exiting(stack) => Exiting(Tail(stack))
  <2> HIDE DEF R
  <2>1. ASSUME Walked(stack, x, group, events) PROVE x \in R \/ Walked(Tail(stack), x, group, events)
    BY <1>5, <1>6, <2>1 DEF Walked, Top
  <2>2. ASSUME Called(stack, x) PROVE Called(Tail(stack), x)
    BY <1>1, <1>6, <2>2 DEF Called, Top
  <2>3. ASSUME Exiting(stack) PROVE Exiting(Tail(stack))
    BY <1>1, <1>6, <2>3 DEF Exiting, Top
  <2> QED BY <2>1, <2>2, <2>3
<1>8. CASE R = {}
  <2>1. stack' = Tail(stack) /\ UNCHANGED event_queue
    BY <1>8 DEF GroupLoop
  <2> HIDE DEF R
  <2>2. Kept(stack, event_queue, stack', event_queue', group, events)
    BY <1>7, <1>8, <2>1 DEF Kept
  <2> QED BY <1>1, <1>2, <2>2, SignalKept
<1>9. CASE R # {}
  <2> DEFINE rest == <<g>> \o Tail(stack)
  <2>1. efi_queue_event(e, rest)
    BY <1>9 DEF GroupLoop
  <2>2. R \subseteq Live /\ \A x \in R : group[x] = group[Top.ev]
    BY DEF Ahead, Members
  <2> HIDE DEF R
  <2>3. e \in R /\ \A x \in R : x = e \/ Before(events, e, x)
    BY <1>2, <1>9, <2>2, FirstIn
  <2> HIDE DEF e
  <2>4. g \in Frames /\ g.op = "group" /\ g.ev = Top.ev /\ g.at = e /\ Plain(g, Live)
    <3>1. Plain(g, Live)
      BY <1>2, <1>3, <2>2, <2>3, PlainMade
    <3> QED BY <3>1 DEF Plain, GroupWalk
  <2> HIDE DEF g
  <2>5. Fits(rest, Live, event_queue, tpl)
    BY <1>4, <2>4, PushFits
  <2>6. rest \in Seq(Frames) /\ Tail(stack) \in Seq(Frames)
    BY <1>4, <2>5 DEF Fits, StackOK
  <2>7. ToSet(event_queue') = ToSet(event_queue) \cup (IF HasFunction(e) THEN {e} ELSE {})
    BY <1>2, <2>1, <2>2, <2>3, <2>5, QueueGood DEF Fits
  <2>8. Kept(rest, event_queue, stack', event_queue', group, events)
    BY <2>1, <2>6, <2>7, QueueKept
  <2>9. Kept(Tail(stack), event_queue, rest, event_queue, group, events)
    BY <2>4, <2>6, KeptPush
  <2>10. ASSUME NEW x \in R, x # e PROVE Walked(rest, x, group, events)
    <3>1. rest[1] = g /\ 1 \in 1..Len(rest)
      BY <2>4, <2>6, Pushed
    <3>2. Walks(g, x, group, events)
      BY <2>2, <2>3, <2>4, <2>10 DEF Walks, Live
    <3> QED BY <3>1, <3>2 DEF Walked
  <2> HIDE DEF rest
  <2>11. Kept(stack, event_queue, stack', event_queue', group, events)
    <3>1. ASSUME NEW x \in Events, HasFunction(x), x \in ToSet(event_queue) \/ Walked(stack, x, group, events)
          PROVE  x \in ToSet(event_queue') \/ Walked(stack', x, group, events)
      <4>1. CASE x = e
        BY <2>7, <3>1, <4>1
      <4>2. CASE x # e
        <5>1. x \in ToSet(event_queue) \/ Walked(rest, x, group, events)
          BY <1>7, <2>9, <2>10, <3>1, <4>2 DEF Kept
        <5> QED BY <2>8, <3>1, <5>1 DEF Kept
      <4> QED BY <4>1, <4>2
    <3>2. ASSUME NEW x \in Events, HasFunction(x), Called(stack, x) PROVE Called(stack', x)
      BY <1>7, <2>8, <2>9, <3>2 DEF Kept
    <3>3. ASSUME Exiting(stack) PROVE Exiting(stack')
      BY <1>7, <2>8, <2>9, <3>3 DEF Kept
    <3> QED BY <3>1, <3>2, <3>3 DEF Kept
  <2> QED BY <1>1, <1>2, <2>11, SignalKept
<1> QED BY <1>8, <1>9

\* A function that is taken off the queue is called.
LEMMA ProcessSignals == CoreInv /\ SignalInv /\ efi_process_event_queue => SignalStep
<1> SUFFICES ASSUME CoreInv, SignalInv, efi_process_event_queue PROVE SignalStep
  OBVIOUS
<1>1. boottime /\ Top.op = "process"
  BY TopBoots DEF efi_process_event_queue
<1>2. /\ Live \subseteq Events /\ QueueOK(event_queue, Live) /\ stack \in Seq(Frames) /\ stack # <<>>
      /\ tpl \in TplLevels /\ Live' = Live
      /\ UNCHANGED <<prog, events, group, signaled, boottime>>
  BY <1>1, BootFacts DEF efi_process_event_queue, Live
<1> DEFINE e == Head(event_queue)
           g == Notify(e, tpl)
<1>3. CASE event_queue = <<>> \/ ~MayRun(Head(event_queue))
  <2>1. stack' = Tail(stack) /\ UNCHANGED <<event_queue, untold>>
    BY <1>3 DEF efi_process_event_queue
  <2>2. Kept(stack, event_queue, stack', event_queue', group, events)
    BY <1>1, <1>2, <2>1, KeptPop DEF Top
  <2> QED BY <1>1, <1>2, <2>1, <2>2, SignalKept
<1>4. CASE ~(event_queue = <<>> \/ ~MayRun(Head(event_queue)))
  <2>1. /\ event_queue' = Tail(event_queue) /\ stack' = <<g>> \o stack /\ untold' = untold \ {e}
    BY <1>4 DEF efi_process_event_queue
  <2>2. e \in Live /\ ToSet(event_queue) = {e} \cup ToSet(event_queue')
    BY <1>2, <1>4, <2>1, QueueTail
  <2> HIDE DEF e
  <2>3. g \in Frames /\ g.op = "notify" /\ g.ev = e
    <3>1. e \in Events /\ <<>> \in Seq(TplLevels)
      BY <1>2, <2>2
    <3> QED BY <1>2, <3>1 DEF Notify, Code, Frames
  <2> HIDE DEF g
  <2>4. Called(stack', e)
    <3>1. stack'[1] = g /\ 1 \in 1..Len(stack')
      BY <1>2, <2>1, <2>3, Pushed
    <3> QED BY <2>3, <3>1 DEF Called
  <2>5. Kept(stack, event_queue, stack', event_queue, group, events)
    BY <1>2, <2>1, <2>3, KeptPush
  <2>6. Kept(stack, <<>>, stack', <<>>, group, events)
    BY <1>2, <2>1, <2>3, KeptPush
  <2>7. ASSUME NEW x \in Events, HasFunction(x), Walked(stack, x, group, events) PROVE Walked(stack', x, group, events)
    <3>1. x \notin ToSet(<<>>)
      BY DEF ToSet
    <3> QED BY <2>6, <2>7, <3>1 DEF Kept
  <2>8. ASSUME NEW x \in Events, HasFunction(x), Due(x) PROVE x = e \/ Due(x)'
    BY <1>2, <2>2, <2>7, <2>8 DEF Due
  <2>9. Steady
    <3> SUFFICES ASSUME NEW x \in Events, HasFunction(x), Due(x)
                 PROVE  Due(x)' \/ stack' = <<Notify(x, tpl)>> \o stack
      BY <1>2 DEF Steady
    <3> QED BY <2>1, <2>8 DEF g
  <2>10. PendInv'
    <3> SUFFICES ASSUME NEW x \in Events, x \in signaled, TypeOf[x] = {"NOTIFY_SIGNAL"}
                 PROVE  Due(x)' \/ Called(stack', x)
      BY <1>2 DEF PendInv
    <3>1. Due(x) \/ Called(stack, x)
      BY <1>1 DEF SignalInv, PendInv
    <3>2. HasFunction(x)
      BY NotifiersCallable
    <3>3. Called(stack, x) => Called(stack', x)
      BY <2>5, <3>2 DEF Kept
    <3> QED BY <2>4, <2>8, <3>1, <3>2, <3>3
  <2>11. TellInv'
    <3>1. untold' # {} => boottime' /\ Exiting(stack')
      BY <1>2, <2>1, <2>5 DEF SignalInv, TellInv, Kept
    <3>2. ASSUME NEW x \in untold' PROVE Callable(x) /\ x \in Live' /\ Due(x)'
      <4>1. x \in untold /\ x # e
        BY <2>1
      <4>2. Callable(x) /\ HasFunction(x) /\ x \in Live /\ Due(x) /\ x \in Events
        BY <1>2, <4>1 DEF SignalInv, TellInv, Callable
      <4> QED BY <1>2, <2>8, <4>1, <4>2
    <3> QED BY <3>1, <3>2 DEF TellInv
  <2> QED BY <2>9, <2>10, <2>11 DEF SignalStep, SignalInv
<1> QED BY <1>3, <1>4

\* When a function returns, the signal of its event is over.
LEMMA ReturnSignals == CoreInv /\ SignalInv /\ NotifyReturns => SignalStep
<1> SUFFICES ASSUME CoreInv, SignalInv, NotifyReturns PROVE SignalStep
  OBVIOUS
<1>1. boottime /\ Top.op \in {"notify", "notified"}
  BY TopBoots DEF NotifyReturns
<1>2. /\ Live \subseteq Events /\ stack \in Seq(Frames) /\ stack # <<>> /\ signaled \subseteq Live /\ Live' = Live
      /\ stack' = Tail(stack) /\ signaled' = signaled \ SignalOver(Top.ev)
      /\ UNCHANGED <<prog, events, group, event_queue, boottime, untold>>
  BY <1>1, BootFacts DEF NotifyReturns, Live
<1>3. ASSUME NEW i \in 1..Len(stack), i # 1 PROVE i - 1 \in 1..Len(stack') /\ stack'[i - 1] = stack[i]
  <2>1. /\ Len(Tail(stack)) = Len(stack) - 1 /\ Len(stack) \in Nat
        /\ \A k \in 1..(Len(stack) - 1) : Tail(stack)[k] = stack[k + 1]
    BY <1>2, Popped
  <2>2. i - 1 \in 1..(Len(stack) - 1) /\ (i - 1) + 1 = i
    BY <1>3, <2>1
  <2> QED BY <1>2, <2>1, <2>2
<1>4. ASSUME NEW x, Walked(stack, x, group, events) PROVE Walked(stack', x, group, events)
  BY <1>1, <1>3, <1>4 DEF Walked, Walks, Top
<1>5. ASSUME NEW x, Called(stack, x), x # Top.ev PROVE Called(stack', x)
  BY <1>3, <1>5 DEF Called, Top
<1>6. ASSUME Exiting(stack) PROVE Exiting(stack')
  BY <1>1, <1>3, <1>6 DEF Exiting, Top
<1>7. ASSUME NEW x, Due(x) PROVE Due(x)'
  BY <1>2, <1>4, <1>7 DEF Due
<1>8. Steady
  BY <1>2, <1>7 DEF Steady
<1>9. PendInv'
  <2> SUFFICES ASSUME NEW x \in Events, x \in signaled', TypeOf[x] = {"NOTIFY_SIGNAL"}
               PROVE  Due(x)' \/ Called(stack', x)
    BY <1>2 DEF PendInv
  <2>1. x \in signaled /\ x # Top.ev
    BY <1>2 DEF SignalOver
  <2>2. Due(x) \/ Called(stack, x)
    BY <1>1, <2>1 DEF SignalInv, PendInv
  <2> QED BY <1>5, <1>7, <2>1, <2>2
<1>10. TellInv'
  BY <1>1, <1>2, <1>6, <1>7 DEF SignalInv, TellInv
<1> QED BY <1>8, <1>9, <1>10 DEF SignalStep, SignalInv

\* U-Boot's other steps return, call, or signal.
LEMMA TimerSignals == CoreInv /\ SignalInv /\ ((\E e \in prog : TimerFires(e)) \/ TimerCheckEnds) => SignalStep
<1> SUFFICES ASSUME CoreInv, SignalInv, (\E e \in prog : TimerFires(e)) \/ TimerCheckEnds PROVE SignalStep
  OBVIOUS
<1>1. boottime /\ Top.op = "timer" /\ ~IsCode(Top)
  <2>1. IsTop("timer")
    BY DEF TimerFires, TimerCheckEnds
  <2> QED BY <2>1, TopBoots DEF IsCode, CodeOps
<1>2. /\ Live \subseteq Events /\ stack \in Seq(Frames) /\ stack # <<>> /\ Tail(stack) \in Seq(Frames)
      /\ UNCHANGED <<events, group, boottime, untold>>
  BY <1>1, BootFacts, Popped DEF TimerFires, TimerCheckEnds
<1>3. Kept(stack, event_queue, Tail(stack), event_queue, group, events)
  BY <1>1, <1>2, KeptPop DEF Top
<1>4. StackOK(Tail(stack), Live, tpl)
  BY <1>1, TopPopped
<1>5. ASSUME NEW e \in prog, TimerFires(e) PROVE SignalStep
  <2> DEFINE rest == <<TimerWalk(e)>> \o Tail(stack)
  <2>1. e \in Live /\ efi_signal_event(e, SignalOff(e), group, rest)
    BY <1>5 DEF TimerFires, Ahead
  <2>2. Plain(TimerWalk(e), Live) /\ TimerWalk(e).op = "timer"
    BY <1>2, <2>1, PlainMade DEF TimerWalk
  <2>3. Fits(rest, Live, event_queue, tpl)
    BY <1>4, <2>2, PushStack, PushServed DEF Fits, Plain, StackOK
  <2>4. Kept(Tail(stack), event_queue, rest, event_queue, group, events)
    BY <1>2, <2>2, KeptPush DEF Plain
  <2> HIDE DEF rest
  <2>5. /\ Kept(rest, event_queue, stack', event_queue', group, events)
        /\ \A x \in signaled' :
             x \in SignalOff(e) \/ (HasFunction(x) =>
                                      x \in ToSet(event_queue') \/ Walked(stack', x, group, events))
    BY <1>1, <2>1, <2>3, SignalTold
  <2>6. Kept(stack, event_queue, stack', event_queue', group, events)
    BY <1>3, <2>4, <2>5, KeptTrans
  <2>7. \A x \in signaled' :
          x \in signaled \/ (HasFunction(x) =>
                               x \in ToSet(event_queue') \/ Walked(stack', x, group, events))
    BY <2>5 DEF SignalOff
  <2> QED BY <1>1, <1>2, <2>6, <2>7, SignalKept
<1>6. CASE TimerCheckEnds
  <2>1. stack' = <<Process>> \o Tail(stack) /\ UNCHANGED <<event_queue, signaled>> /\ Process \in Frames
    BY <1>6, FramesMade DEF TimerCheckEnds
  <2>2. Kept(Tail(stack), event_queue, stack', event_queue, group, events)
    BY <1>2, <2>1, KeptPush
  <2>3. Kept(stack, event_queue, stack', event_queue', group, events)
    BY <1>3, <2>1, <2>2, KeptTrans
  <2> QED BY <1>1, <1>2, <2>1, <2>3, SignalKept
<1> QED BY <1>5, <1>6

\* A frame that neither walks a group nor notifies may be replaced.
LEMMA ReplaceSignals ==
  ASSUME CoreInv, SignalInv, boottime, NEW g \in Frames,
         Top.op \notin {"group", "exit_end", "notify", "notified"},
         UNCHANGED <<events, group, boottime, untold>>, signaled' \subseteq signaled,
         \/ stack' \in {Tail(stack), <<g>> \o Tail(stack), <<g>> \o stack} /\ UNCHANGED event_queue
         \/ \E e \in Live : efi_queue_event(e, <<g>> \o Tail(stack)) /\ ~IsCode(Top)
  PROVE  SignalStep
<1>1. /\ Live \subseteq Events /\ stack \in Seq(Frames) /\ stack # <<>> /\ Tail(stack) \in Seq(Frames)
      /\ <<g>> \o Tail(stack) \in Seq(Frames) /\ QueueOK(event_queue, Live)
  BY BootFacts, Popped, Pushed
<1>2. Kept(stack, event_queue, Tail(stack), event_queue, group, events)
  BY <1>1, KeptPop DEF Top
<1>3. Kept(Tail(stack), event_queue, <<g>> \o Tail(stack), event_queue, group, events)
  BY <1>1, KeptPush
<1>4. Kept(stack, event_queue, <<g>> \o stack, event_queue, group, events)
  BY <1>1, KeptPush
<1>5. Kept(stack, event_queue, <<g>> \o Tail(stack), event_queue, group, events)
  BY <1>2, <1>3, KeptTrans
<1>6. Kept(stack, event_queue, stack', event_queue', group, events)
  <2>1. CASE stack' \in {Tail(stack), <<g>> \o Tail(stack), <<g>> \o stack} /\ UNCHANGED event_queue
    BY <1>2, <1>4, <1>5, <2>1
  <2>2. CASE \E e \in Live : efi_queue_event(e, <<g>> \o Tail(stack)) /\ ~IsCode(Top)
    <3>1. PICK e \in Live : efi_queue_event(e, <<g>> \o Tail(stack))
      BY <2>2
    <3>2. ToSet(event_queue) \subseteq ToSet(event_queue')
      <4>1. CASE ~HasFunction(e) \/ e \in ToSet(event_queue)
        BY <3>1, <4>1 DEF efi_queue_event
      <4>2. CASE ~(~HasFunction(e) \/ e \in ToSet(event_queue))
        <5>1. event_queue' = Inserted(e)
          BY <3>1, <4>2 DEF efi_queue_event
        <5>2. ToSet(Inserted(e)) = ToSet(event_queue) \cup {e}
          BY <1>1, <4>2, QueueInserted
        <5> QED BY <5>1, <5>2
      <4> QED BY <4>1, <4>2
    <3>3. Kept(<<g>> \o Tail(stack), event_queue, stack', event_queue', group, events)
      BY <1>1, <3>1, <3>2, QueueKept
    <3> QED BY <1>5, <3>3, KeptTrans
  <2> QED BY <2>1, <2>2
<1> QED BY <1>6, SignalKept

\* CheckEvent()
LEMMA CheckSignals == CoreInv /\ SignalInv /\ (CheckQueues \/ CheckReturns) => SignalStep
<1> SUFFICES ASSUME CoreInv, SignalInv, CheckQueues \/ CheckReturns PROVE SignalStep
  OBVIOUS
<1>1. boottime /\ Top.op \in {"check", "checking"} /\ ~IsCode(Top)
  BY TopBoots DEF CheckQueues, CheckReturns, IsCode, CodeOps
<1>2. /\ Live \subseteq Events /\ Top \in Frames /\ signaled' \subseteq signaled
      /\ UNCHANGED <<events, group, boottime, untold>>
  BY <1>1, BootFacts DEF CheckQueues, CheckReturns
<1> DEFINE g == [op |-> "checking", ev |-> Top.ev]
<1>3. g \in Frames
  <2>1. Top.ev \in Events
    BY <1>1, <1>2, FrameFields
  <2> QED BY <2>1, FramesMade
<1>4. \/ stack' = Tail(stack) /\ UNCHANGED event_queue
      \/ stack' = <<g>> \o Tail(stack) /\ UNCHANGED event_queue
      \/ Top.ev \in Live /\ efi_queue_event(Top.ev, <<g>> \o Tail(stack))
  BY DEF CheckQueues, CheckReturns
<1> HIDE DEF g
<1>5. \/ stack' \in {Tail(stack), <<g>> \o Tail(stack), <<g>> \o stack} /\ UNCHANGED event_queue
      \/ \E e \in Live : efi_queue_event(e, <<g>> \o Tail(stack)) /\ ~IsCode(Top)
  BY <1>1, <1>4
<1> QED BY <1>1, <1>2, <1>3, <1>5, ReplaceSignals

\* WaitForEvent()
LEMMA WaitSignals == CoreInv /\ SignalInv /\ (WaitQueues \/ WaitLooks) => SignalStep
<1> SUFFICES ASSUME CoreInv, SignalInv, WaitQueues \/ WaitLooks PROVE SignalStep
  OBVIOUS
<1>1. boottime /\ Top.op = "wait" /\ ~IsCode(Top)
  <2>1. IsTop("wait")
    BY DEF WaitQueues, WaitLooks
  <2> QED BY <2>1, TopBoots DEF IsCode, CodeOps
<1>2. /\ Live \subseteq Events /\ Top \in Frames /\ signaled' \subseteq signaled
      /\ UNCHANGED <<events, group, boottime, untold>>
  BY <1>1, BootFacts DEF WaitQueues, WaitLooks
<1>3. Top.evs \in Seq(Events) /\ Top.i \in Nat \ {0}
  BY <1>1, <1>2, FrameFields
<1>4. CASE WaitQueues
  <2> DEFINE g == Waiting(Top.evs, Top.i + 1)
             e == Top.evs[Top.i]
  <2>1. g \in Frames
    <3>1. Top.i + 1 \in Nat \ {0}
      BY <1>3
    <3> QED BY <1>3, <3>1, FramesMade
  <2>2. e \in Live
    <3>1. Top.i \in 1..Len(Top.evs)
      BY <1>3, <1>4 DEF WaitQueues
    <3>2. e \in Events /\ e \in ToSet(Top.evs) /\ NoEvent \notin Events
      BY <1>3, <3>1, EventsAssumption DEF ToSet
    <3>3. ToSet(Top.evs) \subseteq Live \cup {NoEvent}
      BY <1>1, TopUses DEF Needs, Refers
    <3> QED BY <3>2, <3>3
  <2>3. \/ stack' \in {Tail(stack), <<g>> \o Tail(stack), <<g>> \o stack} /\ UNCHANGED event_queue
        \/ efi_queue_event(e, <<g>> \o Tail(stack))
    BY <1>4 DEF WaitQueues
  <2> HIDE DEF g, e
  <2>4. \/ stack' \in {Tail(stack), <<g>> \o Tail(stack), <<g>> \o stack} /\ UNCHANGED event_queue
        \/ \E x \in Live : efi_queue_event(x, <<g>> \o Tail(stack)) /\ ~IsCode(Top)
    BY <1>1, <2>2, <2>3
  <2> QED BY <1>1, <1>2, <2>1, <2>4, ReplaceSignals
<1>5. CASE WaitLooks
  <2>1. UNCHANGED event_queue /\ stack' \in {<<TimerCheck>> \o stack, Tail(stack)}
    BY <1>5 DEF WaitLooks
  <2>2. TimerCheck \in Frames
    BY <1>2, PlainMade DEF Plain
  <2> QED BY <1>1, <1>2, <2>1, <2>2, ReplaceSignals
<1> QED BY <1>4, <1>5

\* While ExitBootServices() is the innermost call, no function that is called is
\* due.
LEMMA ExitQuiet ==
  ASSUME CoreInv, SignalInv, NEW o \in ExitOps, IsTop(o)
  PROVE  /\ untold = {} /\ \A x \in Events : x \in signaled => TypeOf[x] # {"NOTIFY_SIGNAL"}
         /\ \A x : ~Walked(stack, x, group, events)
<1>1. /\ boottime /\ Top.op = o /\ Len(stack) = 2 /\ stack[2].op = "app"
      /\ \A x \in ToSet(event_queue) : NotifyTpl[x] <= TPL_APPLICATION
  BY ExitFacts
<1>2. \A i \in 1..Len(stack) : stack[i].op \notin {"group", "notify", "notified"}
  <2>1. \A i \in 1..Len(stack) : i = 1 \/ i = 2
    BY <1>1
  <2> QED BY <1>1, <2>1 DEF ExitOps, Top
<1>3. \A x : ~Called(stack, x) /\ ~Walked(stack, x, group, events)
  BY <1>2 DEF Called, Walked, Walks
<1>4. ASSUME NEW x \in Events, Callable(x) PROVE ~Due(x)
  <2>1. ~(NotifyTpl[x] <= TPL_APPLICATION)
    <3>1. NotifyTpl[x] \in Nat /\ NotifyTpl[x] > TPL_APPLICATION
      BY <1>4, Levels4816 DEF Callable, LevelFacts
    <3> QED BY <3>1 DEF TPL_APPLICATION
  <2> QED BY <1>1, <1>3, <2>1 DEF Due
<1>5. untold = {}
  <2>1. \A x \in untold : x \in Events /\ Callable(x) /\ Due(x)
    BY <1>1, BootFacts DEF SignalInv, TellInv
  <2> QED BY <1>4, <2>1
<1>6. ASSUME NEW x \in Events, x \in signaled, TypeOf[x] = {"NOTIFY_SIGNAL"} PROVE FALSE
  <2>1. Callable(x)
    BY <1>6, NotifiersCallable
  <2>2. Due(x) \/ Called(stack, x)
    BY <1>1, <1>6 DEF SignalInv, PendInv
  <2> QED BY <1>3, <1>4, <2>1, <2>2
<1> QED BY <1>3, <1>5, <1>6

\* Nothing is left to be notified when the boot services end.
LEMMA ExitEndsSignals == CoreInv /\ SignalInv /\ ExitEnds => SignalStep
<1> SUFFICES ASSUME CoreInv, SignalInv, ExitEnds PROVE SignalStep
  OBVIOUS
<1>1. IsTop("exit_end") /\ "exit_end" \in ExitOps
  BY DEF ExitEnds, ExitOps
<1>2. untold = {}
  BY <1>1, ExitQuiet
<1>3. untold' = {} /\ boottime' = FALSE
  BY <1>2 DEF ExitEnds
<1> QED BY <1>3 DEF SignalStep, Steady, SignalInv, PendInv, TellInv

\* ExitBootServices() signals its group.
LEMMA ExitNotifySignals == CoreInv /\ SignalInv /\ ExitNotify => SignalStep
<1> SUFFICES ASSUME CoreInv, SignalInv, ExitNotify PROVE SignalStep
  OBVIOUS
<1>1. IsTop("exit_group") /\ "exit_group" \in ExitOps /\ "exit_end" \in ExitOps
  BY DEF ExitNotify, ExitOps
<1>2. boottime /\ ~IsCode(Top) /\ Tail(stack)[1].op = "app" /\ Tail(stack)[1].raised = <<>> /\ Top.op = "exit_group"
  BY <1>1, ExitFacts
<1>3. /\ \A x \in Events : x \in signaled => TypeOf[x] # {"NOTIFY_SIGNAL"}
      /\ \A x : Due(x) => x \in ToSet(event_queue)
  BY <1>1, ExitQuiet DEF Due
<1> DEFINE h == [op |-> "exit_end"]
           rest == <<h>> \o Tail(stack)
           M == Members(ExitGroups, "exit_boot_services")
           f == FirstOf(M)
<1>4. h \in Frames /\ h.op = "exit_end" /\ ~IsCode(h)
  BY FramesMade DEF IsCode, CodeOps
<1>5. Fits(rest, Live, event_queue, tpl)
  <2>1. StackOK(Tail(stack), Live, tpl) /\ Served(Tail(stack), event_queue, tpl)
    BY <1>2, TopPopped DEF Fits
  <2>2. StackOK(rest, Live, tpl)
    BY <1>1, <1>2, <2>1, ExitStack
  <2>3. Served(rest, event_queue, tpl)
    BY <1>4, <2>1, PushServed DEF StackOK
  <2> QED BY <2>2, <2>3 DEF Fits
<1>6. Tail(stack) \in Seq(Frames) /\ rest \in Seq(Frames)
  BY <1>2, <1>5, TopPopped DEF Fits, StackOK
<1> HIDE DEF h
<1>7. Exiting(rest)
  <2>1. rest[1] = h /\ 1 \in 1..Len(rest)
    BY <1>4, <1>6, Pushed
  <2> QED BY <1>4, <2>1 DEF Exiting
<1> HIDE DEF rest
<1>8. /\ group' = ExitGroups /\ UNCHANGED <<events, boottime>> /\ Live' = Live
      /\ SignalGroup("exit_boot_services", ExitGroups, rest)
      /\ untold' = IF M # {} /\ f \in signaled THEN {} ELSE {e \in M : Callable(e)}
  <2>1. M = ExitEvents
    BY <1>2, BootFacts DEF Members, ExitGroups, ExitEvents
  <2>2. /\ group' = ExitGroups /\ UNCHANGED <<events, boottime>>
        /\ SignalGroup("exit_boot_services", ExitGroups, rest)
        /\ untold' = IF ExitEvents # {} /\ FirstOf(ExitEvents) \in signaled THEN {}
                     ELSE {e \in ExitEvents : Callable(e)}
    BY DEF ExitNotify, rest, h
  <2> QED BY <2>1, <2>2 DEF Live
<1>9. M \subseteq Live /\ (\A x \in M : ExitGroups[x] = "exit_boot_services")
      /\ events \in Seq(prog) /\ IsInjective(events) /\ Live \subseteq Events
  BY <1>2, BootFacts DEF Members
<1>10. CASE M = {}
  <2>1. stack' = rest /\ UNCHANGED <<signaled, event_queue>>
    BY <1>8, <1>10 DEF SignalGroup
  <2>2. untold' = {}
    BY <1>8, <1>10
  <2>3. Steady
    BY <1>3, <2>1 DEF Steady, Due
  <2> QED BY <1>3, <2>1, <2>2, <2>3 DEF SignalStep, SignalInv, PendInv, TellInv
<1>11. CASE M # {}
  <2>1. efi_signal_event(f, signaled, ExitGroups, rest)
    BY <1>8, <1>11 DEF SignalGroup
  <2> HIDE DEF M
  <2>2. f \in M
    BY <1>9, <1>11, FirstIn
  <2> HIDE DEF f
  <2>3. f \in Live /\ ExitGroups[f] = "exit_boot_services" /\ ExitGroups[f] # NoGroup /\ f \in Events
    BY <1>9, <2>2, EventsAssumption DEF Groups
  <2>4. /\ Kept(rest, event_queue, stack', event_queue', ExitGroups, events)
        /\ ToSet(event_queue) \subseteq ToSet(event_queue')
        /\ \A x \in signaled' :
             x \in signaled \/ (HasFunction(x) =>
                                  x \in ToSet(event_queue') \/ Walked(stack', x, ExitGroups, events))
    BY <1>2, <1>5, <2>1, <2>3, SignalTold
  <2>5. Steady /\ PendInv'
    <3>1. ASSUME NEW x \in Events, HasFunction(x), x \in signaled', x \notin signaled PROVE Due(x)'
      BY <1>8, <2>4, <3>1 DEF Due
    <3>2. ASSUME NEW x, Due(x) PROVE Due(x)'
      BY <1>3, <2>4, <3>2 DEF Due
    <3>3. Steady
      BY <3>1, <3>2 DEF Steady
    <3>4. PendInv'
      BY <1>3, <3>1, NotifiersCallable DEF PendInv
    <3> QED BY <3>3, <3>4
  <2>6. Exiting(stack')
    BY <1>7, <2>4 DEF Kept
  <2>7. CASE f \in signaled
    BY <1>8, <1>11, <2>5, <2>7 DEF SignalStep, SignalInv, TellInv
  <2>8. CASE f \notin signaled
    <3> DEFINE g == GroupWalk(f, NoEvent)
    <3>1. stack' = <<g>> \o rest
      BY <2>1, <2>3, <2>8 DEF efi_signal_event
    <3>2. g \in Frames /\ g.op = "group" /\ g.ev = f /\ g.at = NoEvent
      <4>1. NoEvent \in EventOrNone
        BY DEF EventOrNone
      <4> QED BY <2>3, <4>1, FramesMade
    <3> HIDE DEF g
    <3>3. stack'[1] = g /\ 1 \in 1..Len(stack')
      BY <1>6, <3>1, <3>2, Pushed
    <3>4. ASSUME NEW x \in M PROVE Walked(stack', x, ExitGroups, events)
      <4>1. Walks(g, x, ExitGroups, events)
        BY <1>9, <2>3, <3>2 DEF Walks, Live
      <4> QED BY <3>3, <4>1 DEF Walked
    <3>5. \A x \in untold' : x \in M /\ Callable(x)
      BY <1>8, <2>8
    <3>6. TellInv'
      BY <1>2, <1>8, <1>9, <2>6, <3>4, <3>5 DEF TellInv, Due
    <3> QED BY <2>5, <3>6 DEF SignalStep, SignalInv
  <2> QED BY <2>7, <2>8
<1> QED BY <1>10, <1>11

\* The group of before_exit_boot_services is signaled.
LEMMA ExitCallSignals == ASSUME CoreInv, SignalInv, efi_exit_boot_services PROVE SignalStep
<1>1. boottime
  BY CallerFacts DEF efi_exit_boot_services
<1> DEFINE h == [op |-> "exit_group"]
           rest == <<h>> \o stack
           M == Members(group, "before_exit_boot_services")
<1>2. /\ SignalGroup("before_exit_boot_services", group, rest)
      /\ Top.op = "app" /\ Top.raised = <<>>
      /\ UNCHANGED <<events, group, boottime, untold>>
  BY DEF efi_exit_boot_services, IsTop
<1>3. StackOK(stack, Live, tpl) /\ Served(stack, event_queue, tpl) /\ stack \in Seq(Frames)
      /\ events \in Seq(prog) /\ IsInjective(events)
  BY <1>1, BootFacts
<1>4. h \in Frames /\ ~IsCode(h) /\ "exit_group" \in ExitOps
  BY FramesMade DEF IsCode, CodeOps, ExitOps
<1>5. Fits(rest, Live, event_queue, tpl)
  <2>1. StackOK(rest, Live, tpl)
    BY <1>2, <1>3, <1>4, ExitStack DEF Top
  <2>2. Served(rest, event_queue, tpl)
    BY <1>3, <1>4, PushServed
  <2> QED BY <2>1, <2>2 DEF Fits
<1> HIDE DEF h
<1>6. Kept(stack, event_queue, rest, event_queue, group, events)
  BY <1>3, <1>4, KeptPush
<1> HIDE DEF rest
<1>7. CASE M = {}
  <2>1. stack' = rest /\ UNCHANGED <<signaled, event_queue>>
    BY <1>2, <1>7 DEF SignalGroup
  <2>2. Kept(stack, event_queue, stack', event_queue', group, events)
    BY <1>6, <2>1
  <2> QED BY <1>1, <1>2, <2>1, <2>2, SignalKept
<1>8. CASE M # {}
  <2>1. efi_signal_event(FirstOf(M), signaled, group, rest)
    BY <1>2, <1>8 DEF SignalGroup
  <2>2. M \subseteq Live
    BY DEF Members
  <2> HIDE DEF M
  <2>3. FirstOf(M) \in Live
    BY <1>3, <1>8, <2>2, FirstIn
  <2>4. /\ Kept(rest, event_queue, stack', event_queue', group, events)
        /\ \A x \in signaled' :
             x \in signaled \/ (HasFunction(x) =>
                                  x \in ToSet(event_queue') \/ Walked(stack', x, group, events))
    BY <1>1, <1>5, <2>1, <2>3, SignalTold
  <2>5. Kept(stack, event_queue, stack', event_queue', group, events)
    BY <1>6, <2>4, KeptTrans
  <2> QED BY <1>1, <1>2, <2>4, <2>5, SignalKept
<1> QED BY <1>7, <1>8

\* A walk over a group goes on to where it went before, when another event is
\* created or closed.
LEMMA WalkStays ==
  ASSUME CoreInv, boottime, NEW x \in Live, NEW e, x # e, stack' = stack,
         \A i \in 1..Len(stack) : e \notin Refers(stack[i]),
         x \in ToSet(events'),
         \A y \in Events : y # e => group'[y] = group[y],
         \A y : Before(events, y, x) /\ y # e => Before(events', y, x),
         Walked(stack, x, group, events)
  PROVE  Walked(stack', x, group', events')
<1>1. PICK i \in 1..Len(stack) : Walks(stack[i], x, group, events)
  BY DEF Walked
<1>2. stack[i] \in Frames /\ stack[i].op = "group" /\ Live \subseteq Events
  BY <1>1, BootFacts DEF Walks
<1>3. stack[i].ev \in Events /\ stack[i].ev # e /\ stack[i].at # e
  BY <1>2, FrameFields DEF Refers
<1>4. group'[stack[i].ev] = group'[x]
  BY <1>1, <1>2, <1>3 DEF Walks
<1>5. stack[i].at = NoEvent \/ Before(events', stack[i].at, x)
  BY <1>1, <1>3 DEF Walks
<1>6. Walks(stack'[i], x, group', events')
  BY <1>2, <1>4, <1>5 DEF Walks
<1> QED BY <1>6 DEF Walked

\* An event that is appended to the list does not hide others from a walk,
LEMMA CreateSignals == ASSUME CoreInv, SignalInv, NEW e \in prog, efi_create_event(e) PROVE SignalStep
<1>1. boottime
  BY CallerFacts DEF efi_create_event
<1>2. /\ e \in Events /\ e \notin Live /\ events' = Append(events, e)
      /\ group' = [group EXCEPT ![e] = GroupOf[e]]
      /\ UNCHANGED <<signaled, event_queue, boottime, stack, untold>>
  BY <1>1, BootFacts DEF efi_create_event
<1>3. /\ events \in Seq(prog) /\ IsInjective(events) /\ signaled \subseteq Live /\ NoEvent \notin Events
      /\ group \in [Events -> Groups \cup {NoGroup}] /\ StackOK(stack, Live, tpl)
  BY <1>1, BootFacts, EventsAssumption
<1>4. Live' = Live \cup {e} /\ \A x, y : Before(events, x, y) => Before(events', x, y)
  <2>1. /\ events' \in Seq(prog) /\ Len(events') = Len(events) + 1
        /\ \A i \in 1..Len(events) : events'[i] = events[i]
        /\ events'[Len(events) + 1] = e
    BY <1>2, <1>3
  <2>2. events \in Seq(prog) /\ IsInjective(events) /\ e \in prog /\ e \notin ToSet(events)
    BY <1>2, <1>3 DEF Live
  <2>3. ToSet(events') = ToSet(events) \cup {e} /\ \A x, y : Before(events, x, y) => Before(events', x, y)
    BY <2>1, <2>2, Appended
  <2> QED BY <2>3 DEF Live
<1>5. \A i \in 1..Len(stack) : e \notin Refers(stack[i])
  BY <1>2, <1>3 DEF StackOK, Uses, Needs
<1>6. \A y \in Events : y # e => group'[y] = group[y]
  BY <1>2, <1>3
<1>7. ASSUME NEW x \in Live, Walked(stack, x, group, events) PROVE Walked(stack', x, group', events')
  <2>1. x # e /\ x \in ToSet(events')
    BY <1>2, <1>4 DEF Live
  <2> QED BY <1>1, <1>2, <1>4, <1>5, <1>6, <1>7, <2>1, WalkStays
<1>8. ASSUME NEW x, Due(x) PROVE Due(x)'
  <2>1. Walked(stack, x, group, events) => x \in Live
    BY DEF Walked, Walks, Live
  <2> QED BY <1>2, <1>7, <1>8, <2>1 DEF Due
<1>9. Steady
  BY <1>2, <1>8 DEF Steady
<1>10. PendInv'
  BY <1>1, <1>2, <1>8 DEF SignalInv, PendInv
<1>11. TellInv'
  BY <1>2, <1>4, <1>8 DEF SignalInv, TellInv
<1> QED BY <1>9, <1>10, <1>11 DEF SignalStep, SignalInv

\* nor does one that is removed.
LEMMA CloseSignals == ASSUME CoreInv, SignalInv, NEW e \in prog, efi_close_event(e) PROVE SignalStep
<1>1. boottime
  BY CallerFacts DEF efi_close_event
<1>2. /\ e \in Live /\ e \notin InUse /\ events' = RemoveFirst(events, e)
      /\ event_queue' = RemoveFirst(event_queue, e) /\ signaled' = signaled \ {e}
      /\ group' = [group EXCEPT ![e] = NoGroup] /\ untold' = untold \ {e}
      /\ UNCHANGED <<boottime, stack>>
  BY DEF efi_close_event, QueueWithout
<1>3. /\ events \in Seq(prog) /\ IsInjective(events) /\ QueueOK(event_queue, Live) /\ stack \in Seq(Frames)
      /\ signaled \subseteq Live /\ group \in [Events -> Groups \cup {NoGroup}]
  BY <1>1, BootFacts
<1>4. /\ Live' = Live \ {e}
      /\ \A x, y : Before(events', x, y) <=> Before(events, x, y) /\ x # e /\ y # e
  <2>1. events' = RemoveFirst(events, e) /\ events \in Seq(prog) /\ IsInjective(events) /\ e \in ToSet(events)
    BY <1>2, <1>3 DEF Live
  <2>2. /\ events' \in Seq(prog \ {e}) /\ IsInjective(events') /\ ToSet(events') = ToSet(events) \ {e}
        /\ \A x, y : Before(events', x, y) <=> Before(events, x, y) /\ x # e /\ y # e
    BY <2>1, Removed
  <2> QED BY <2>2 DEF Live
<1>5. ToSet(event_queue') = ToSet(event_queue) \ {e}
  BY <1>2, <1>3, QueueRemoved
<1>6. \A i \in 1..Len(stack) : e \notin Refers(stack[i])
  <2>1. DOMAIN stack = 1..Len(stack)
    BY <1>3
  <2> QED BY <1>2, <2>1 DEF InUse
<1>7. \A y \in Events : y # e => group'[y] = group[y]
  BY <1>2, <1>3
<1>8. ASSUME NEW x \in Live, x # e, Walked(stack, x, group, events) PROVE Walked(stack', x, group', events')
  <2>1. x \in ToSet(events') /\ \A y : Before(events, y, x) /\ y # e => Before(events', y, x)
    BY <1>4, <1>8 DEF Live
  <2> QED BY <1>1, <1>2, <1>6, <1>7, <1>8, <2>1, WalkStays
<1>9. ASSUME NEW x, x # e, Due(x) PROVE Due(x)'
  <2>1. Walked(stack, x, group, events) => x \in Live
    BY DEF Walked, Walks, Live
  <2> QED BY <1>2, <1>5, <1>8, <1>9, <2>1 DEF Due
<1>10. Steady
  BY <1>2, <1>4, <1>9 DEF Steady
<1>11. PendInv'
  BY <1>1, <1>2, <1>9 DEF SignalInv, PendInv
<1>12. TellInv'
  BY <1>2, <1>4, <1>9 DEF SignalInv, TellInv
<1> QED BY <1>10, <1>11, <1>12 DEF SignalStep, SignalInv

\* Services that call only push frames.
LEMMA CallSignals ==
  ASSUME CoreInv, SignalInv, boottime, NEW f \in Frames, NEW g \in Frames,
         stack' \in {stack, <<f>> \o stack, <<f, g>> \o stack},
         signaled' \subseteq signaled, UNCHANGED <<events, group, event_queue, boottime, untold>>
  PROVE  SignalStep
<1>1. stack \in Seq(Frames) /\ <<g>> \o stack \in Seq(Frames)
  BY BootFacts, Pushed
<1>2. Kept(stack, event_queue, stack, event_queue, group, events)
  BY KeptSame
<1>3. Kept(stack, event_queue, <<f>> \o stack, event_queue, group, events)
  BY <1>1, KeptPush
<1>4. Kept(stack, event_queue, <<g>> \o stack, event_queue, group, events)
  BY <1>1, KeptPush
<1>5. Kept(<<g>> \o stack, event_queue, <<f>> \o (<<g>> \o stack), event_queue, group, events)
  BY <1>1, KeptPush
<1>6. <<f, g>> \o stack = <<f>> \o (<<g>> \o stack)
  BY <1>1, PushTwo
<1>7. Kept(stack, event_queue, <<f>> \o (<<g>> \o stack), event_queue, group, events)
  BY <1>4, <1>5, KeptTrans
<1>8. event_queue' = event_queue
  OBVIOUS
<1>9. Kept(stack, event_queue, stack', event_queue', group, events)
  BY <1>2, <1>3, <1>6, <1>7, <1>8
<1> QED BY <1>9, SignalKept

\* Changes of the level replace the frame of the caller.
LEMMA TplSignals ==
  ASSUME CoreInv, SignalInv, efi_restore_tpl \/ \E new \in TplLevels : efi_raise_tpl(new)
  PROVE  SignalStep
<1>1. boottime /\ IsCode(Top)
  BY CallerFacts DEF efi_restore_tpl, efi_raise_tpl
<1>2. /\ stack \in Seq(Frames) /\ stack # <<>> /\ Top \in Frames /\ Live \subseteq Events /\ tpl \in TplLevels
      /\ UNCHANGED <<events, group, signaled, event_queue, boottime, untold>>
  BY <1>1, BootFacts DEF efi_restore_tpl, efi_raise_tpl
<1>3. /\ Top.base \in TplLevels /\ Top.raised \in Seq(TplLevels) /\ Top.op \in CodeOps
      /\ (Top.op = "app" => Top.ev = NoEvent) /\ (Top.op # "app" => Top.ev \in Events)
  BY <1>1, <1>2, FrameFields DEF IsCode, CodeOps
<1>4. \E r \in Seq(TplLevels) :
        \/ stack' = <<Code(Top.op, Top.ev, Top.base, r)>> \o Tail(stack)
        \/ stack' = <<TimerCheck, Code(Top.op, Top.ev, Top.base, r)>> \o Tail(stack)
  <2>1. CASE efi_restore_tpl
    <3>1. Tail(Top.raised) \in Seq(TplLevels)
      BY <1>3, <2>1 DEF efi_restore_tpl
    <3> QED BY <2>1, <3>1 DEF efi_restore_tpl
  <2>2. CASE \E new \in TplLevels : efi_raise_tpl(new)
    <3>1. <<tpl>> \o Top.raised \in Seq(TplLevels)
      BY <1>2, <1>3, Pushed
    <3> QED BY <2>2, <3>1 DEF efi_raise_tpl
  <2> QED BY <2>1, <2>2
<1>5. PICK r \in Seq(TplLevels) :
        \/ stack' = <<Code(Top.op, Top.ev, Top.base, r)>> \o Tail(stack)
        \/ stack' = <<TimerCheck, Code(Top.op, Top.ev, Top.base, r)>> \o Tail(stack)
  BY <1>4
<1> DEFINE g == Code(Top.op, Top.ev, Top.base, r)
<1>6. g \in Frames /\ g.op = Top.op /\ g.ev = Top.ev
  <2>1. CASE Top.op = "app"
    BY <1>3, <2>1 DEF Code, Frames
  <2>2. CASE Top.op # "app"
    BY <1>3, <2>2 DEF Code, Frames, CodeOps
  <2> QED BY <2>1, <2>2
<1>7. stack' = <<g>> \o Tail(stack) \/ stack' = <<TimerCheck, g>> \o Tail(stack)
  BY <1>5
<1> HIDE DEF g
<1>8. Kept(stack, event_queue, <<g>> \o Tail(stack), event_queue, group, events)
  BY <1>1, <1>2, <1>6, KeptCode DEF Top
<1>9. TimerCheck \in Frames /\ Tail(stack) \in Seq(Frames) /\ <<g>> \o Tail(stack) \in Seq(Frames)
  BY <1>2, <1>6, PlainMade, Popped, Pushed DEF Plain
<1>10. Kept(<<g>> \o Tail(stack), event_queue, <<TimerCheck>> \o (<<g>> \o Tail(stack)), event_queue, group, events)
  BY <1>9, KeptPush
<1>11. <<TimerCheck, g>> \o Tail(stack) = <<TimerCheck>> \o (<<g>> \o Tail(stack))
  BY <1>6, <1>9, PushTwo
<1>12. Kept(stack, event_queue, <<TimerCheck>> \o (<<g>> \o Tail(stack)), event_queue, group, events)
  BY <1>8, <1>10, KeptTrans
<1>13. Kept(stack, event_queue, stack', event_queue', group, events)
  BY <1>2, <1>7, <1>8, <1>11, <1>12
<1> QED BY <1>1, <1>2, <1>13, SignalKept

\* All services
LEMMA ServiceSignals == CoreInv /\ SignalInv /\ Service => SignalStep
<1> SUFFICES ASSUME CoreInv, SignalInv, Service PROVE SignalStep
  OBVIOUS
<1>1. boottime
  BY DEF Service, Caller, efi_create_event, efi_close_event, efi_signal_event_ext, efi_check_event,
         efi_set_timer, efi_raise_tpl, efi_restore_tpl, efi_wait_for_event, efi_exit_boot_services
<1>2. Live \subseteq Events /\ prog \subseteq Events /\ TimerCheck \in Frames /\ stack \in Seq(Frames)
  BY <1>1, BootFacts, PlainMade DEF Plain
<1>3. ASSUME NEW e \in prog, efi_signal_event_ext(e) PROVE SignalStep
  <2>1. /\ e \in Live /\ efi_signal_event(e, signaled, group, stack)
        /\ UNCHANGED <<events, group, boottime, untold>>
    BY <1>3 DEF efi_signal_event_ext
  <2>2. Fits(stack, Live, event_queue, tpl)
    BY <1>1, TopUses
  <2>3. /\ Kept(stack, event_queue, stack', event_queue', group, events)
        /\ \A x \in signaled' :
             x \in signaled \/ (HasFunction(x) =>
                                  x \in ToSet(event_queue') \/ Walked(stack', x, group, events))
    BY <1>1, <2>1, <2>2, SignalTold
  <2> QED BY <1>1, <2>1, <2>3, SignalKept
<1>4. ASSUME NEW e \in prog, efi_check_event(e) PROVE SignalStep
  <2>1. [op |-> "check", ev |-> e] \in Frames
    BY <1>2, FramesMade
  <2>2. /\ stack' = <<TimerCheck, [op |-> "check", ev |-> e]>> \o stack
        /\ UNCHANGED <<signaled, events, group, event_queue, boottime, untold>>
    BY <1>4 DEF efi_check_event
  <2> QED BY <1>1, <1>2, <2>1, <2>2, CallSignals
<1>5. ASSUME NEW e \in prog, NEW type \in Triggers, efi_set_timer(e, type) PROVE SignalStep
  <2>1. signaled' \subseteq signaled /\ stack' = stack
        /\ UNCHANGED <<events, group, event_queue, boottime, untold>>
    BY <1>5 DEF efi_set_timer
  <2> QED BY <1>1, <1>2, <2>1, CallSignals
<1>6. ASSUME NEW evs \in WaitLists, efi_wait_for_event(evs) PROVE SignalStep
  <2>1. evs \in Seq(Live) /\ 1 \in Nat \ {0}
    BY WaitListsLive
  <2>2. Waiting(evs, 1) \in Frames
    BY <1>2, <2>1, PlainMade DEF Plain
  <2>3. /\ stack' = <<Waiting(evs, 1)>> \o stack
        /\ UNCHANGED <<signaled, events, group, event_queue, boottime, untold>>
    BY <1>6 DEF efi_wait_for_event
  <2> QED BY <1>1, <2>2, <2>3, CallSignals
<1>7. ASSUME NEW e \in prog, efi_create_event(e) \/ efi_close_event(e) PROVE SignalStep
  BY <1>7, CreateSignals, CloseSignals
<1>8. CASE efi_restore_tpl \/ \E new \in TplLevels : efi_raise_tpl(new)
  BY <1>8, TplSignals
<1>9. CASE efi_exit_boot_services
  BY <1>9, ExitCallSignals
<1> QED BY <1>3, <1>4, <1>5, <1>6, <1>7, <1>8, <1>9 DEF Service

-----------------------------------------------------------------------------
(* Signals: the console *)

\* efi_cin_check() signals the event of the console or nothing.
LEMMA CinCheckSignals ==
  ASSUME CoreInv, SignalInv, boottime, wait_for_key \in Live, NEW rest,
         Fits(rest, Live, event_queue, tpl), efi_cin_check(rest),
         Kept(stack, event_queue, rest, event_queue, group, events),
         UNCHANGED <<events, group, boottime, untold>>
  PROVE  SignalStep
<1>1. CASE efi_signal_event(wait_for_key, signaled, group, rest)
  <2>1. /\ Kept(rest, event_queue, stack', event_queue', group, events)
        /\ \A x \in signaled' :
             x \in signaled \/ (HasFunction(x) =>
                                  x \in ToSet(event_queue') \/ Walked(stack', x, group, events))
    BY <1>1, SignalTold
  <2>2. Kept(stack, event_queue, stack', event_queue', group, events)
    BY <2>1, KeptTrans
  <2> QED BY <2>1, <2>2, SignalKept
<1>2. CASE stack' = rest /\ UNCHANGED <<signaled, event_queue>>
  <2>1. Kept(stack, event_queue, stack', event_queue', group, events)
    BY <1>2
  <2> QED BY <1>2, <2>1, SignalKept
<1> QED BY <1>1, <1>2 DEF efi_cin_check, StillAvailable, SignalKey

\* efi_key_notify() and efi_console_timer_notify()
LEMMA ConsoleNotifySignals == CoreInv /\ SignalInv /\ ConsoleNotify => SignalStep
<1> SUFFICES ASSUME CoreInv, SignalInv, ConsoleNotify PROVE SignalStep
  OBVIOUS
<1> DEFINE g == Code("notified", Top.ev, Top.base, Top.raised)
           rest == <<g>> \o Tail(stack)
<1>1. /\ efi_cin_check(rest)
      /\ UNCHANGED <<prog, events, group, trigger, tpl, timers_enabled, boottime, calls, untold>>
  BY DEF ConsoleNotify
<1>2. /\ boottime /\ IsCode(Top) /\ Top.op = "notify" /\ wait_for_key \in Live
      /\ g \in Frames /\ Fits(rest, Live, event_queue, tpl)
  BY NotifiedFits
<1>3. g.op = "notified" /\ g.ev = Top.ev
  BY DEF Code
<1>4. stack \in Seq(Frames) /\ stack # <<>>
  BY <1>2, BootFacts
<1> HIDE DEF g
<1>5. Kept(stack, event_queue, rest, event_queue, group, events)
  <2>1. {g.op, stack[1].op} \subseteq {"notify", "notified"} /\ g.ev = stack[1].ev /\ IsCode(stack[1])
    BY <1>2, <1>3 DEF Top
  <2> QED BY <1>2, <1>4, <2>1, KeptCode
<1> HIDE DEF rest
<1> QED BY <1>1, <1>2, <1>5, CinCheckSignals

\* ReadKeyStroke() keeps what is to be notified.
LEMMA ReadSignals ==
  CoreInv /\ SignalInv /\ (ReadChecks \/ ReadReturns \/ efi_cin_read_key_stroke) => SignalStep
<1>1. ASSUME CoreInv, SignalInv, ReadChecks PROVE SignalStep
  <2> DEFINE g == [op |-> "reading"]
  <2>1. boottime /\ Top.op = "read" /\ ~IsCode(Top)
    BY <1>1, TopBoots DEF ReadChecks, IsCode, CodeOps
  <2>2. /\ efi_cin_check(<<g>> \o Tail(stack))
        /\ UNCHANGED <<events, group, boottime, untold>>
    BY <1>1 DEF ReadChecks
  <2>3. wait_for_key \in Live
    <3>1. wait_for_key \in Needs(Top) /\ wait_for_key # NoEvent
      BY <2>1, ConsoleAssumption, EventsAssumption DEF Needs, Internal, ToSet
    <3> QED BY <1>1, <2>1, <3>1, TopUses
  <2>4. /\ Fits(Tail(stack), Live, event_queue, tpl) /\ Live \subseteq Events
        /\ stack \in Seq(Frames) /\ stack # <<>> /\ Tail(stack) \in Seq(Frames)
    BY <1>1, <2>1, TopPopped, BootFacts, Popped
  <2>5. Plain(g, Live)
    BY <2>4, PlainMade
  <2>6. g \in Frames
    BY <2>5 DEF Plain
  <2> HIDE DEF g
  <2>7. Fits(<<g>> \o Tail(stack), Live, event_queue, tpl)
    BY <2>4, <2>5, PushFits
  <2>8. Kept(stack, event_queue, Tail(stack), event_queue, group, events)
    BY <2>1, <2>4, KeptPop DEF Top
  <2>9. Kept(Tail(stack), event_queue, <<g>> \o Tail(stack), event_queue, group, events)
    BY <2>4, <2>6, KeptPush
  <2>10. Kept(stack, event_queue, <<g>> \o Tail(stack), event_queue, group, events)
    BY <2>8, <2>9, KeptTrans
  <2> QED BY <1>1, <2>1, <2>2, <2>3, <2>7, <2>10, CinCheckSignals
<1>2. ASSUME CoreInv, SignalInv, ReadReturns PROVE SignalStep
  <2>1. boottime /\ Top.op = "reading" /\ Top \in Frames
    BY <1>2, TopBoots, BootFacts DEF ReadReturns
  <2>2. /\ stack' \in {Tail(stack), <<Top>> \o Tail(stack), <<Top>> \o stack} /\ UNCHANGED event_queue
        /\ signaled' \subseteq signaled /\ UNCHANGED <<events, group, boottime, untold>>
    BY <1>2 DEF ReadReturns, KeyTaken
  <2>3. Top.op \notin {"group", "exit_end", "notify", "notified"}
    BY <2>1
  <2> QED BY <1>2, <2>1, <2>2, <2>3, ReplaceSignals
<1>3. ASSUME CoreInv, SignalInv, efi_cin_read_key_stroke PROVE SignalStep
  <2>1. Caller /\ boottime
    BY <1>3, CallerFacts DEF efi_cin_read_key_stroke
  <2>2. Live \subseteq Events
    BY <1>3, <2>1, BootFacts
  <2>3. TimerCheck \in Frames /\ [op |-> "read"] \in Frames
    BY <2>2, FramesMade, PlainMade DEF Plain
  <2>4. /\ stack' = <<TimerCheck, [op |-> "read"]>> \o stack
        /\ UNCHANGED <<events, group, signaled, event_queue, boottime, untold>>
    BY <1>3 DEF efi_cin_read_key_stroke
  <2> QED BY <1>3, <2>1, <2>3, <2>4, CallSignals
<1> QED BY <1>1, <1>2, <1>3

\* U-Boot starts with nothing signaled.
LEMMA SignalInit == ConsoleInit => SignalInv
  BY DEF ConsoleInit, Init, SignalInv, PendInv, TellInv

\* Every step keeps it.
LEMMA SignalNext == CoreInv /\ SignalInv /\ [ConsoleNext]_cvars => SignalStep
<1> SUFFICES ASSUME CoreInv, SignalInv, [ConsoleNext]_cvars PROVE SignalStep
  OBVIOUS
<1>1. CASE Internals
  <2>1. CASE GroupLoop
    BY <2>1, GroupSignals
  <2>2. CASE efi_process_event_queue
    BY <2>2, ProcessSignals
  <2>3. CASE (\E e \in prog : TimerFires(e)) \/ TimerCheckEnds
    BY <2>3, TimerSignals
  <2>4. CASE CheckQueues \/ CheckReturns
    BY <2>4, CheckSignals
  <2>5. CASE WaitQueues \/ WaitLooks
    BY <2>5, WaitSignals
  <2>6. CASE ExitNotify
    BY <2>6, ExitNotifySignals
  <2>7. CASE ExitEnds
    BY <2>7, ExitEndsSignals
  <2> QED BY <1>1, <2>1, <2>2, <2>3, <2>4, <2>5, <2>6, <2>7 DEF Internals
<1>2. CASE ConsoleNotify
  BY <1>2, ConsoleNotifySignals
<1>3. CASE ReadChecks \/ ReadReturns \/ efi_cin_read_key_stroke
  BY <1>3, ReadSignals
<1>4. CASE Service
  BY <1>4, ServiceSignals
<1>5. CASE NotifyReturns
  BY <1>5, ReturnSignals
<1>6. CASE efi_cin_reset \/ KeyPressed \/ UNCHANGED cvars
  <2>1. UNCHANGED <<events, group, signaled, event_queue, boottime, stack, untold>>
    BY <1>6 DEF efi_cin_reset, KeyPressed, cvars, vars
  <2> QED BY <2>1 DEF SignalStep, Steady, SignalInv, PendInv, TellInv, Due, Live
<1>7. CASE Reset
  BY <1>7 DEF Reset, SignalStep, Steady, SignalInv, PendInv, TellInv
<1> QED BY <1>1, <1>2, <1>3, <1>4, <1>5, <1>6, <1>7 DEF ConsoleNext, ConsoleInternals, ConsoleStart

\* Levels and signals together
LEMMA SignalsKept == ConsoleSpec => [](CoreInv /\ SignalInv)
<1>1. SignalStep => SignalInv'
  BY DEF SignalStep
<1> QED BY CoreInit, CoreNext, SignalInit, SignalNext, <1>1, PTL DEF ConsoleSpec

-----------------------------------------------------------------------------
(* The theorems about signals *)

\* The events that are due, and those whose function runs, in two wordings
Agreed ==
  boottime => \A e \in Events : (Pending(e) <=> Due(e)) /\ (InFunction(e) <=> Called(stack, e))

\* What is pending is due.
LEMMA PendingIsDue == CoreInv => Agreed
<1> SUFFICES ASSUME CoreInv, boottime, NEW e \in Events
             PROVE  (Pending(e) <=> Due(e)) /\ (InFunction(e) <=> Called(stack, e))
  BY DEF Agreed
<1>1. DOMAIN stack = 1..Len(stack) /\ DOMAIN events = 1..Len(events)
  BY BootFacts
<1>2. InFunction(e) <=> Called(stack, e)
  BY <1>1 DEF InFunction, Called
<1>3. ASSUME NEW i \in 1..Len(stack)
      PROVE  (stack[i].op = "group" /\ group[stack[i].ev] = group[e] /\ e \in Ahead(stack[i].at, Live))
               <=> Walks(stack[i], e, group, events)
  BY <1>1 DEF Walks, Before, Ahead, After, Live
<1>4. Pending(e) <=> Due(e)
  BY <1>1, <1>3 DEF Pending, Due, Walked
<1> QED BY <1>2, <1>4

\* A timer that elapses makes the function of its event due, signaled or not,
LEMMA TimerTold ==
  ASSUME CoreInv, NEW e \in Events, HasFunction(e), TimerFires(e) PROVE Due(e)'
<1> DEFINE rest == <<TimerWalk(e)>> \o Tail(stack)
<1>1. boottime /\ Top.op = "timer" /\ ~IsCode(Top)
  BY TopBoots DEF TimerFires, IsCode, CodeOps
<1>2. e \in Live /\ efi_signal_event(e, SignalOff(e), group, rest) /\ UNCHANGED <<group, events>>
  BY DEF TimerFires, Ahead
<1>3. Live \subseteq Events /\ StackOK(Tail(stack), Live, tpl)
  BY <1>1, BootFacts, TopPopped
<1>4. Plain(TimerWalk(e), Live) /\ TimerWalk(e).op = "timer"
  BY <1>2, <1>3, PlainMade DEF TimerWalk
<1>5. Fits(rest, Live, event_queue, tpl)
  BY <1>3, <1>4, PushStack, PushServed DEF Fits, Plain, StackOK
<1> HIDE DEF rest
<1>6. \A x \in signaled' :
        x \in SignalOff(e) \/ (HasFunction(x) =>
                                 x \in ToSet(event_queue') \/ Walked(stack', x, group, events))
  BY <1>1, <1>2, <1>5, SignalTold
<1>7. e \in signaled' /\ e \notin SignalOff(e)
  BY <1>2 DEF efi_signal_event, SignalOff, Members
<1> QED BY <1>2, <1>6, <1>7 DEF Due

\* and so does a signal, of an EVT_NOTIFY_SIGNAL event also if it finds the event in
\* the signaled state, unless its function is running.
LEMMA ExtTold ==
  ASSUME CoreInv, SignalInv, Steady, boottime, boottime', NEW e \in Events, efi_signal_event_ext(e),
         TypeOf[e] = {"NOTIFY_SIGNAL"}, ~Called(stack, e)
  PROVE  Due(e)'
<1>1. e \in Live /\ efi_signal_event(e, signaled, group, stack) /\ UNCHANGED <<group, events>>
  BY DEF efi_signal_event_ext
<1>2. CASE e \in signaled
  <2>1. Due(e)
    BY <1>2 DEF SignalInv, PendInv
  <2>2. stack' = stack /\ event_queue' = event_queue
    BY <1>1, <1>2 DEF efi_signal_event
  <2> QED BY <1>1, <2>1, <2>2 DEF Due
<1>3. CASE e \notin signaled
  <2>1. e \in signaled'
    BY <1>1, <1>3 DEF efi_signal_event, Members
  <2>2. HasFunction(e)
    BY NotifiersCallable
  <2> QED BY <1>3, <2>1, <2>2 DEF Steady
<1> QED BY <1>2, <1>3

\* Signals are served: when an event or its group gets into the signaled state,
\* when its timer elapses, and when an EVT_NOTIFY_SIGNAL event is signaled while
\* it is in that state, its function is queued or about to be, and stays so until
\* it is called or the event is closed, although notification functions signal,
\* create and close events during the walks of efi_signal_event().  The exception
\* is a signal during the event's own function, which the code drops.
THEOREM SignalsTheorem == ConsoleSpec => SignalsAreServed
<1> DEFINE A == boottime /\ boottime' => \A e \in {x \in Events : HasFunction(x)} :
                  /\ Signals(e) => Pending(e)'
                  /\ Pending(e) => Pending(e)' \/ stack' = <<Notify(e, tpl)>> \o stack \/ e \notin Live'
<1>1. CoreInv /\ SignalInv /\ Agreed /\ Agreed' /\ [ConsoleNext]_cvars => [A]_vars
  <2> SUFFICES ASSUME CoreInv, SignalInv, Agreed, Agreed', [ConsoleNext]_cvars, boottime, boottime',
                      NEW e \in Events, HasFunction(e)
               PROVE  /\ Signals(e) => Pending(e)'
                      /\ Pending(e) => Pending(e)' \/ stack' = <<Notify(e, tpl)>> \o stack \/ e \notin Live'
    OBVIOUS
  <2>1. Steady
    BY SignalNext DEF SignalStep
  <2>2. (Pending(e) <=> Due(e)) /\ (InFunction(e) <=> Called(stack, e))
    BY DEF Agreed
  <2>3. Pending(e)' <=> Due(e)'
    BY DEF Agreed
  <2>4. ASSUME Signals(e) PROVE Due(e)'
    <3>1. CASE e \in signaled' /\ e \notin signaled
      BY <2>1, <3>1 DEF Steady
    <3>2. CASE TimerFires(e)
      BY <3>2, TimerTold
    <3>3. CASE efi_signal_event_ext(e) /\ TypeOf[e] = {"NOTIFY_SIGNAL"} /\ ~InFunction(e)
      BY <2>1, <2>2, <3>3, ExtTold
    <3> QED BY <2>4, <3>1, <3>2, <3>3 DEF Signals
  <2>5. Due(e) => Due(e)' \/ stack' = <<Notify(e, tpl)>> \o stack \/ e \notin Live'
    BY <2>1 DEF Steady
  <2> QED BY <2>2, <2>3, <2>4, <2>5
<1> QED BY <1>1, PendingIsDue, SignalsKept, PTL DEF ConsoleSpec, SignalsAreServed

\* Each event with a function that is in the group when ExitBootServices()
\* signals it has been notified, or closed, before the boot services end
\* (efi_exit_boot_services()): the walk over the group does not miss one when
\* notification functions change the list of events.
THEOREM ExitTheorem == ConsoleSpec => []ExitToldAll
<1>1. SignalInv => ExitToldAll
  BY DEF SignalInv, TellInv, ExitToldAll
<1> QED BY <1>1, SignalsKept, PTL

\* A signal of another event, or of a group, does not signal wait_for_key.
LEMMA OthersOnly ==
  ASSUME NEW e, e # wait_for_key, NEW grp, grp[wait_for_key] = NoGroup, NEW rest,
         efi_signal_event(e, signaled, grp, rest) \/ efi_signal_event(e, SignalOff(e), grp, rest)
  PROVE  wait_for_key \in signaled' => wait_for_key \in signaled
  BY DEF efi_signal_event, Members, SignalOff

\* wait_for_key is not in a group.
LEMMA GroupsOnly ==
  ASSUME CoreInv, boottime, NEW g \in Groups, NEW grp, grp[wait_for_key] = NoGroup, NEW rest,
         SignalGroup(g, grp, rest)
  PROVE  wait_for_key \in signaled' => wait_for_key \in signaled
<1>1. CASE Members(grp, g) = {}
  BY <1>1 DEF SignalGroup
<1>2. CASE Members(grp, g) # {}
  <2> DEFINE e == FirstOf(Members(grp, g))
  <2>1. e \in Members(grp, g)
    <3>1. Members(grp, g) \subseteq Live
      BY DEF Members
    <3> QED BY <1>2, <3>1, BootFacts, FirstIn
  <2>2. e # wait_for_key
    BY <2>1, EventsAssumption DEF Members
  <2>3. efi_signal_event(e, signaled, grp, rest)
    BY <1>2 DEF SignalGroup
  <2> HIDE DEF e
  <2> QED BY <2>2, <2>3, OthersOnly
<1> QED BY <1>1, <1>2

\* The services and U-Boot's code outside the console do not signal it.
LEMMA EventsDoNotWake ==
  ASSUME CoreInv, Service \/ NotifyReturns \/ Internals
  PROVE  wait_for_key \in signaled' => wait_for_key \in signaled
<1>1. /\ wait_for_key \in Internal /\ "TIMER" \notin TypeOf[wait_for_key]
      /\ "EXIT" \notin TypeOf[wait_for_key] /\ wait_for_key \in Events
      /\ group[wait_for_key] = NoGroup
  <2>1. wait_for_key \in Internal /\ TypeOf[wait_for_key] = {"NOTIFY_WAIT"} /\ wait_for_key \in Events
    BY ConsoleAssumption, EventsAssumption DEF Internal, ToSet
  <2> QED BY <2>1 DEF CoreInv, OwnInv
<1>2. ASSUME NEW e \in prog, efi_signal_event_ext(e)
      PROVE  wait_for_key \in signaled' => wait_for_key \in signaled
  <2>1. e # wait_for_key /\ efi_signal_event(e, signaled, group, stack)
    BY <1>1, <1>2 DEF efi_signal_event_ext
  <2> QED BY <1>1, <2>1, OthersOnly
<1>3. ASSUME NEW e \in prog, TimerFires(e)
      PROVE  wait_for_key \in signaled' => wait_for_key \in signaled
  <2>1. e # wait_for_key
    BY <1>1, <1>3 DEF TimerFires, Ahead, Running
  <2>2. efi_signal_event(e, SignalOff(e), group, <<TimerWalk(e)>> \o Tail(stack))
    BY <1>3 DEF TimerFires
  <2> QED BY <1>1, <2>1, <2>2, OthersOnly
<1>4. CASE efi_exit_boot_services
  <2>1. boottime /\ SignalGroup("before_exit_boot_services", group, <<[op |-> "exit_group"]>> \o stack)
    BY <1>4, CallerFacts DEF efi_exit_boot_services
  <2>2. "before_exit_boot_services" \in Groups
    BY DEF Groups
  <2> QED BY <1>1, <2>1, <2>2, GroupsOnly
<1>5. CASE ExitNotify
  <2>1. boottime /\ SignalGroup("exit_boot_services", ExitGroups, <<[op |-> "exit_end"]>> \o Tail(stack))
    BY <1>5, TopBoots DEF ExitNotify
  <2>2. "exit_boot_services" \in Groups
    BY DEF Groups
  <2>3. ExitGroups[wait_for_key] = NoGroup
    BY <1>1 DEF ExitGroups
  <2> QED BY <2>1, <2>2, <2>3, GroupsOnly
<1>6. CASE \/ \E e \in prog : \/ efi_create_event(e) \/ efi_close_event(e) \/ efi_check_event(e)
                              \/ \E type \in Triggers : efi_set_timer(e, type)
           \/ \E new \in TplLevels : efi_raise_tpl(new)
           \/ efi_restore_tpl
           \/ \E evs \in WaitLists : efi_wait_for_event(evs)
  BY <1>6 DEF efi_create_event, efi_close_event, efi_check_event, efi_set_timer, efi_raise_tpl,
              efi_restore_tpl, efi_wait_for_event
<1>7. CASE NotifyReturns \/ GroupLoop \/ efi_process_event_queue \/ TimerCheckEnds \/ CheckQueues
           \/ CheckReturns \/ WaitQueues \/ WaitLooks \/ ExitEnds
  BY <1>7 DEF NotifyReturns, GroupLoop, efi_process_event_queue, TimerCheckEnds, CheckQueues,
              CheckReturns, WaitQueues, WaitLooks, ExitEnds
<1> QED BY <1>2, <1>3, <1>4, <1>5, <1>6, <1>7 DEF Service, Internals

\* wait_for_key comes into the signaled state only with a key in the buffer, and
\* the state is undone when the key is taken (efi_cin_read_key_stroke()), under
\* every interleaving of timers, checks, waits and notification functions; only
\* efi_cin_reset() leaves it signaled without a key.
THEOREM WakeTheorem == ConsoleSpec => NoSpuriousWake
<1>1. CoreInv /\ [ConsoleNext]_cvars => [Spurious' => Spurious \/ efi_cin_reset]_cvars
  <2> SUFFICES ASSUME CoreInv, ConsoleNext, Spurious' PROVE Spurious \/ efi_cin_reset
    OBVIOUS
  <2>1. CASE (Service \/ NotifyReturns \/ Internals) /\ UNCHANGED con
    BY <2>1, EventsDoNotWake DEF Spurious, con
  <2>2. CASE ConsoleNotify \/ ReadChecks
    <3>1. PICK rest : efi_cin_check(rest)
      BY <2>2 DEF ConsoleNotify, ReadChecks
    <3> QED BY <3>1 DEF efi_cin_check, Spurious, con
  <2>3. CASE ReadReturns
    BY <2>3 DEF ReadReturns, KeyTaken, Spurious
  <2>4. CASE efi_cin_read_key_stroke \/ KeyPressed
    BY <2>4 DEF efi_cin_read_key_stroke, KeyPressed, Spurious, con, vars
  <2>5. CASE ConsoleStart
    BY <2>5 DEF ConsoleStart, Reset, Spurious
  <2> QED BY <2>1, <2>2, <2>3, <2>4, <2>5 DEF ConsoleNext, ConsoleInternals
<1> QED BY <1>1, CoreTheorem, PTL DEF ConsoleSpec, NoSpuriousWake
=============================================================================
