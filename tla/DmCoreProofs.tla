---------------------------- MODULE DmCoreProofs ----------------------------
(***************************************************************************)
(* Proofs about DmCore, for any tree of devices and any nesting of calls:  *)
(* the tree holds together, parents of active devices are active, probe()  *)
(* is called in order and once, drivers that run have their data, and the  *)
(* devices that must be stopped before the OS is started are.              *)
(* What the drivers of a board must not do for this is stated as           *)
(* hypotheses of the theorems.                                             *)
(***************************************************************************)
EXTENDS DmCore, WellFoundedInduction, TLAPS

\* order[b][d]: a number for each device of board b, higher than that of what
\* d depends on
CONSTANT order

\* No bus binds children and then fails to bind itself.
BindersSucceed == \A b \in Boards : b.bindsKids => "bind" \notin b.fallible

\* remove() hooks do not probe devices.
RemoveProbesNothing ==
  \A b \in Boards, d \in Devices, t \in Devices : <<"device_remove", d, t>> \notin b.uses

\* The hooks that device_probe() calls, device_remove() excluded
ProbeHooks == {"plat", "probe", "post_probe"}

\* Devices are numbered from the root up.  Where hooks of a probe may fail,
\* hooks probe devices of lower number only (what a device uses does not use
\* the device), and devices can be removed again.
Layered ==
  /\ order \in [Boards -> [Devices -> Nat]]
  /\ \A b \in Boards :
       /\ \A d \in Devices \ {Root} : order[b][ParentOf[d]] < order[b][d]
       /\ b.fallible \cap ProbeHooks # {} =>
            /\ "remove" \notin b.fallible
            /\ \A fn \in Functions, d \in Devices, t \in Devices :
                 <<fn, d, t>> \in b.uses => order[b][t] < order[b][d]

Ord(d) == order[board][d]
Failing == board.fallible \cap ProbeHooks # {}

-----------------------------------------------------------------------------
(* The shape of the call stack *)

Probers == {"device_of_to_plat", "device_probe"}
Binders == {"device_bind", "device_unbind"}

\* ChildFlags() on board b
FlagsPassed(b, f) ==
  IF flags_remove(f.flags, b.drvflags[f.dev]) = "OK" THEN f.flags \ {"ACTIVE"} ELSE f.flags

\* On board b, frame f waits for frame g.
Calls(b, f, g) ==
  \/ /\ f.fn = "device_of_to_plat" /\ f.pc = "parent"
     /\ g.fn = "device_of_to_plat" /\ HasParent(f.dev) /\ g.dev = ParentOf[f.dev]
  \/ f.fn = "device_probe" /\ f.pc = "plat" /\ g.fn = "device_of_to_plat" /\ g.dev = f.dev
  \/ /\ f.fn = "device_probe" /\ f.pc = "parent"
     /\ g.fn = "device_probe" /\ HasParent(f.dev) /\ g.dev = ParentOf[f.dev]
  \/ /\ f.fn \in Probers /\ f.pc \in {"pre", "hook", "post"}
     /\ g.fn = "device_probe" /\ <<f.fn, f.dev, g.dev>> \in b.uses
  \/ /\ f.fn = "device_probe" /\ f.pc = "fail_uclass"
     /\ g.fn = "device_remove" /\ g.dev = f.dev /\ g.flags = {"NORMAL"}
  \/ /\ f.fn = "device_remove" /\ f.pc = "child_done"
     /\ g.fn = "device_remove" /\ HasParent(g.dev) /\ ParentOf[g.dev] = f.dev
     /\ g.flags = FlagsPassed(b, f)
  \/ f.fn = "device_remove" /\ f.pc = "entry" /\ g.fn = "device_remove"
  \/ /\ f.fn = "device_unbind" /\ f.pc = "child_done"
     /\ g.fn = "device_unbind" /\ HasParent(g.dev) /\ ParentOf[g.dev] = f.dev
  \/ /\ f.fn = "device_bind" /\ f.pc = "hook"
     /\ g.fn = "device_bind" /\ HasParent(g.dev) /\ ParentOf[g.dev] = f.dev

\* The children a loop has yet to visit are children.
KidsOK(f) ==
  f.fn \in {"device_remove", "device_unbind"} =>
    \A k \in f.kids : k # Root /\ ParentOf[k] = f.dev

Linked ==
  /\ \A i \in 1..Len(stack) : KidsOK(stack[i])
  /\ \A i \in 2..Len(stack) : Calls(board, stack[i], stack[i - 1])

Kind(f) == IF f.fn \in Binders THEN f.fn ELSE "probe or remove"

\* Binding and unbinding call nothing else; below a call that probes there are
\* only such calls; a removal above one is that of a device whose post-probe
\* hooks failed.
Uniform ==
  /\ \A i, j \in 1..Len(stack) : Kind(stack[i]) = Kind(stack[j])
  /\ \A i, j \in 1..Len(stack) : i < j /\ stack[i].fn \in Probers => stack[j].fn \in Probers
  /\ \A j \in 1..Len(stack) : stack[j].fn \in Probers =>
       \/ stack[1].fn \in Probers
       \/ \E k \in 2..Len(stack) : stack[k].pc = "fail_uclass"

\* Calls that probe go down in the order, removals go up.
Descends ==
  \A i, j \in 1..Len(stack) : i < j =>
    /\ Failing /\ stack[i].fn \in Probers /\ stack[j].fn \in Probers =>
         \/ Ord(stack[i].dev) < Ord(stack[j].dev)
         \/ i = j - 1 /\ stack[j].pc = "plat"
    /\ stack[i].fn = "device_remove" /\ stack[j].fn = "device_remove"
         /\ stack[j].pc = "child_done" => Ord(stack[j].dev) < Ord(stack[i].dev)

-----------------------------------------------------------------------------
(* The tree *)

\* Devices being probed or removed are bound; a device being bound is not
\* active yet, and has no children unless it binds them; one being unbound
\* has no children but those still to be visited, unless one failed.
TreeFrame(f) ==
  /\ f.fn \notin Binders => f.dev \in bound
  /\ f.fn = "device_remove" => f.kids \subseteq bound
  /\ f.fn = "device_bind" =>
       /\ f.dev # Root /\ f.dev \notin activated /\ ParentOf[f.dev] \in bound
       /\ f.pc = "hook" => f.dev \in bound
       /\ f.pc = "entry" => f.dev \notin bound
       /\ board.bindsKids \/ (Len(stack) = 1 /\ Children(f.dev) = {})
  /\ f.fn = "device_unbind" =>
       /\ HasParent(f.dev)
       /\ f.pc \in {"children", "child_done"} => f.dev \notin activated
       /\ f.pc = "children" /\ f.ret = "OK" => Children(f.dev) \subseteq f.kids

\* The child being unbound, or just unbound, counts as visited.
UnbindLoop ==
  /\ \A i \in 2..Len(stack) :
       stack[i].fn = "device_unbind" /\ stack[i].pc = "child_done" /\ stack[i].ret = "OK" =>
         Children(stack[i].dev) \subseteq stack[i].kids \cup {stack[i - 1].dev}
  /\ At("device_unbind", "child_done") /\ Top.ret = "OK" /\ retv = "OK" =>
       Children(Top.dev) \subseteq Top.kids

TreeInv ==
  /\ TreeIntact
  /\ Root \in bound
  /\ \A i \in 1..Len(stack) : TreeFrame(stack[i])
  /\ UnbindLoop

-----------------------------------------------------------------------------
(* Activation *)

\* The children of d in the set s
KidsIn(s, d) == {k \in s \ {Root} : ParentOf[k] = d}

Starting(f) == f.fn = "device_probe" /\ f.pc \in {"pre", "hook", "post"}
BeforeRun(f) == f.fn = "device_probe" /\ f.pc \in {"pre", "hook"}
Failed(f) == f.fn = "device_probe" /\ f.pc = "fail_uclass"
Removable(b, f) == f.ret = "OK" /\ flags_remove(f.flags, b.drvflags[f.dev]) = "OK"
Fails(b) == b.fallible \cap ProbeHooks # {}

\* An active device has its data, and one that runs is active.
DataInv ==
  /\ ActiveParents
  /\ activated \subseteq plat_valid /\ plat_valid \subseteq priv
  /\ running \subseteq activated

\* A device that is active and does not run yet is being probed, once.
StartInv ==
  /\ \A d \in activated \ running : \E i \in 1..Len(stack) : BeforeRun(stack[i]) /\ stack[i].dev = d
  /\ \A i, j \in 1..Len(stack) :
       Starting(stack[i]) /\ Starting(stack[j]) /\ stack[i].dev = stack[j].dev => i = j

\* What holds of each frame f on board b, when the devices of a are active,
\* those of v have platform data, those of p private data, and those of r run:
\* in a frame of probing,
ProbeOK(f, a, v, p, r) ==
  /\ Starting(f) => f.dev \in a /\ (f.dev \in r <=> f.pc = "post")
  /\ f.fn = "device_probe" /\ f.pc = "parent" => f.dev \in v
  /\ f.fn = "device_of_to_plat" /\ f.pc = "hook" => f.dev \in p

\* of removing,
RemoveOK(f, b, a) ==
  f.fn = "device_remove" =>
    /\ f.pc \in {"children", "child_done", "hook"} => f.dev \in a
    /\ f.ret \in {"OK", "EPROBE_DEFER"}
    /\ f.pc = "hook" => KidsIn(a, f.dev) = {}
    /\ f.pc = "children" /\ Removable(b, f) => KidsIn(a, f.dev) \subseteq f.kids

\* and of probing where that may fail: nothing depends on the device yet.
FailOK(f, b, a, v) ==
  /\ Failed(f) => f.ret # "OK" /\ Fails(b)
  /\ Fails(b) =>
       /\ f.fn = "device_probe" /\ f.pc \in {"plat", "parent"} => f.dev \notin a
       /\ f.fn = "device_of_to_plat" /\ f.pc \in {"parent", "hook"} => f.dev \notin v
       /\ Starting(f) \/ Failed(f) => KidsIn(a, f.dev) = {}

FrameOK(f, b, a, v, p, r) == ProbeOK(f, a, v, p, r) /\ RemoveOK(f, b, a) /\ FailOK(f, b, a, v)

FrameInv ==
  \A i \in 1..Len(stack) : FrameOK(stack[i], board, activated, plat_valid, priv, running)

\* What holds while frame f waits for frame g: only the child being removed is
\* missing from the loop; a device whose post-probe hooks failed is still active.
Waits(f, g, b, a) ==
  /\ f.fn = "device_remove" /\ f.pc = "child_done" /\ Removable(b, f) =>
       KidsIn(a, f.dev) \subseteq f.kids \cup {g.dev}
  /\ Failed(f) => f.dev \in a /\ g.ret = "OK"

\* Removing a device whose post-probe hooks failed meets no active child.
WaitInv ==
  /\ \A i \in 2..Len(stack) : Waits(stack[i], stack[i - 1], board, activated)
  /\ \A i \in 2..Len(stack) : Failed(stack[i]) => i <= 3
  /\ 3 \in 1..Len(stack) /\ Failed(stack[3]) => stack[1].pc = "entry" /\ stack[1].dev \notin activated
  /\ 2 \in 1..Len(stack) /\ Failed(stack[2]) /\ stack[1].pc = "child_done" => retv = "OK"

\* What holds when the call made by frame f has returned rv
TopOK(f, b, a, v, r, rv) ==
  /\ f.fn = "device_probe" /\ f.pc = "plat" /\ rv = "OK" => f.dev \in v
  /\ f.fn = "device_probe" /\ f.pc = "parent" /\ rv = "OK" /\ HasParent(f.dev) => ParentOf[f.dev] \in a
  /\ f.fn = "device_remove" /\ f.pc = "child_done" /\ Removable(b, f)
       /\ rv \notin {"ERR", "EPROBE_DEFER"} => KidsIn(a, f.dev) \subseteq f.kids
  /\ Failed(f) => f.dev \notin r
  /\ ~Fails(b) /\ f.fn \in Probers /\ f.pc \in {"plat", "parent"} => rv = "OK"

TopInv == stack # <<>> => TopOK(stack[1], board, activated, plat_valid, running, retv)

ActiveInv == DataInv /\ StartInv /\ FrameInv /\ WaitInv /\ TopInv

-----------------------------------------------------------------------------
(* What a step does to the call stack *)

Continues(f) ==
  f.fn = Top.fn /\ f.dev = Top.dev /\ f.flags = Top.flags /\ (KidsOK(Top) => KidsOK(f))
IsEntry(g) == g.pc = "entry" /\ g.kids = {} /\ g.ret = "OK"

\* A function returns, goes on, or calls another one; or there is a call from
\* outside.
StackStep ==
  \/ stack # <<>> /\ stack' = Tail(stack)
  \/ stack # <<>> /\ \E f \in Frames : stack' = <<f>> \o Tail(stack) /\ Continues(f)
  \/ stack # <<>> /\ \E f, g \in Frames :
       stack' = <<g, f>> \o Tail(stack) /\ Continues(f) /\ IsEntry(g)
       /\ f.pc # "entry" /\ (RemoveProbesNothing /\ KidsOK(Top) => Calls(board, f, g))
  \/ stack = <<>> /\ \E g \in Frames : stack' = <<g>> /\ IsEntry(g)
  \/ stack = <<>> /\ \E f, g \in Frames :
       stack' = <<g, f>> /\ IsEntry(f) /\ IsEntry(g) /\ Calls(board, f, g)

\* The stack after a return
LEMMA Pops ==
  ASSUME NEW S, NEW s \in Seq(S), s # <<>>
  PROVE  /\ Tail(s) \in Seq(S) /\ Len(Tail(s)) = Len(s) - 1 /\ Len(s) >= 1
         /\ \A i \in 1..(Len(s) - 1) : Tail(s)[i] = s[i + 1]
         /\ Head(s) = s[1] /\ s[1] \in S
OBVIOUS

\* The stack after the innermost function has gone on in frame f
LEMMA Replaces ==
  ASSUME NEW S, NEW s \in Seq(S), s # <<>>, NEW f \in S
  PROVE  /\ <<f>> \o Tail(s) \in Seq(S) /\ Len(<<f>> \o Tail(s)) = Len(s) /\ Len(s) >= 1
         /\ (<<f>> \o Tail(s))[1] = f
         /\ \A i \in 2..Len(s) : (<<f>> \o Tail(s))[i] = s[i]
         /\ Head(s) = s[1] /\ s[1] \in S
BY Pops

\* The stack after the innermost function, now in frame f, has called g
LEMMA Pushes ==
  ASSUME NEW S, NEW s \in Seq(S), s # <<>>, NEW f \in S, NEW g \in S
  PROVE  /\ <<g, f>> \o Tail(s) \in Seq(S) /\ Len(<<g, f>> \o Tail(s)) = Len(s) + 1 /\ Len(s) >= 1
         /\ (<<g, f>> \o Tail(s))[1] = g /\ (<<g, f>> \o Tail(s))[2] = f
         /\ \A i \in 3..(Len(s) + 1) : (<<g, f>> \o Tail(s))[i] = s[i - 1]
         /\ Head(s) = s[1] /\ s[1] \in S
BY Pops

Pcs == {"entry", "parent", "plat", "pre", "hook", "post", "fail_uclass", "children", "child_done"}

\* The frames that the functions make are frames.
LEMMA FrameTypes ==
  ASSUME TypeOK
  PROVE  /\ \A fn \in Functions, d \in Devices, fl \in SUBSET RemoveFlags :
              /\ Frame(fn, d, fl) \in Frames /\ IsEntry(Frame(fn, d, fl))
              /\ Frame(fn, d, fl).fn = fn /\ Frame(fn, d, fl).dev = d /\ Frame(fn, d, fl).flags = fl
              /\ KidsOK(Frame(fn, d, fl))
         /\ stack # <<>> =>
              /\ Top \in Frames
              /\ \A pc \in Pcs : /\ To(pc) \in Frames /\ To(pc).fn = Top.fn /\ To(pc).dev = Top.dev
                                 /\ To(pc).flags = Top.flags /\ To(pc).pc = pc
                                 /\ To(pc).kids = Top.kids /\ To(pc).ret = Top.ret
                                 /\ KidsOK(Top) => KidsOK(To(pc))
              /\ \A pc \in Pcs, r \in Codes :
                   /\ ToRet(pc, r) \in Frames /\ ToRet(pc, r).fn = Top.fn
                   /\ ToRet(pc, r).dev = Top.dev /\ ToRet(pc, r).flags = Top.flags
                   /\ ToRet(pc, r).pc = pc /\ ToRet(pc, r).kids = Top.kids /\ ToRet(pc, r).ret = r
                   /\ KidsOK(Top) => KidsOK(ToRet(pc, r))
              /\ \A pc \in Pcs, k \in SUBSET Devices :
                   /\ ToKids(pc, k) \in Frames /\ ToKids(pc, k).fn = Top.fn
                   /\ ToKids(pc, k).dev = Top.dev /\ ToKids(pc, k).flags = Top.flags
                   /\ ToKids(pc, k).pc = pc /\ ToKids(pc, k).kids = k /\ ToKids(pc, k).ret = Top.ret
              /\ ToNested \in Frames /\ ToNested.fn = Top.fn /\ ToNested.dev = Top.dev
              /\ ToNested.flags = Top.flags /\ ToNested.pc = Top.pc
              /\ ToNested.kids = Top.kids /\ ToNested.ret = Top.ret
              /\ KidsOK(Top) => KidsOK(ToNested)
<1> USE DEF Frames, Pcs, Codes
<1>1. \A fn \in Functions, d \in Devices, fl \in SUBSET RemoveFlags :
              /\ Frame(fn, d, fl) \in Frames /\ IsEntry(Frame(fn, d, fl))
              /\ Frame(fn, d, fl).fn = fn /\ Frame(fn, d, fl).dev = d /\ Frame(fn, d, fl).flags = fl
              /\ KidsOK(Frame(fn, d, fl))
  BY DEF Frame, IsEntry, KidsOK
<1>2. stack # <<>> => Top \in Frames
  BY Pops DEF TypeOK, Top
<1>4. stack # <<>> => Top.kids \in SUBSET Devices /\ Top.ret \in Codes /\ Top.pc \in Pcs
  BY <1>2
<1> DEFINE Good(f) == f \in Frames /\ f.fn = Top.fn /\ f.dev = Top.dev /\ f.flags = Top.flags
<1>6. stack # <<>> => \A pc \in Pcs : Good(To(pc)) /\ To(pc).pc = pc
                                        /\ To(pc).kids = Top.kids /\ To(pc).ret = Top.ret
  BY <1>2, <1>4 DEF To, Resumed
<1>7. stack # <<>> => \A pc \in Pcs, r \in Codes :
        Good(ToRet(pc, r)) /\ ToRet(pc, r).pc = pc /\ ToRet(pc, r).kids = Top.kids /\ ToRet(pc, r).ret = r
  BY <1>2, <1>4 DEF ToRet, Resumed
<1>8. stack # <<>> => \A pc \in Pcs, k \in SUBSET Devices :
        Good(ToKids(pc, k)) /\ ToKids(pc, k).pc = pc /\ ToKids(pc, k).kids = k /\ ToKids(pc, k).ret = Top.ret
  BY <1>2, <1>4 DEF ToKids, Resumed
<1>9. stack # <<>> => /\ Good(ToNested) /\ ToNested.pc = Top.pc
                      /\ ToNested.kids = Top.kids /\ ToNested.ret = Top.ret
  BY <1>2, <1>4 DEF ToNested, Resumed
<1> HIDE DEF Frames, Pcs, Codes
<1> QED BY <1>1, <1>2, <1>6, <1>7, <1>8, <1>9 DEF KidsOK

\* The fields of the innermost frame
LEMMA TopFields ==
  ASSUME TypeOK, stack # <<>>
  PROVE  /\ Top.dev \in Devices /\ Top.ret \in Codes /\ Top.kids \in SUBSET Devices
         /\ Top.flags \in SUBSET RemoveFlags /\ Top.fn \in Functions
         /\ HasParent(Top.dev) => ParentOf[Top.dev] \in Devices
<1>1. Top \in Frames
  BY FrameTypes
<1> QED BY <1>1, TreeAssumption DEF Frames, HasParent

\* The innermost function returns.
LEMMA ByReturn ==
  ASSUME stack # <<>>, stack' = Tail(stack) PROVE StackStep
BY DEF StackStep

\* The innermost function goes on.
LEMMA ByGoto ==
  ASSUME stack # <<>>, NEW f \in Frames, stack' = <<f>> \o Tail(stack), Continues(f)
  PROVE  StackStep
BY DEF StackStep

\* The innermost function calls another one.
LEMMA ByCall ==
  ASSUME stack # <<>>, NEW f \in Frames, NEW g \in Frames, stack' = <<g, f>> \o Tail(stack),
         Continues(f), IsEntry(g), f.pc # "entry", RemoveProbesNothing /\ KidsOK(Top) => Calls(board, f, g)
  PROVE  StackStep
BY DEF StackStep

\* What a hook returns is a code.
LEMMA HookCodes ==
  \A kind : Hook(kind) \subseteq {"OK", "ERR"} /\ Hook(kind) \subseteq Codes /\ "OK" \in Hook(kind)
BY DEF Hook, Codes

\* device_of_to_plat() as steps of the stack
LEMMA PlatShape ==
  ASSUME TypeOK, of_to_plat_step
  PROVE  StackStep /\ board' = board /\ retv' \in Codes /\ bound' = bound
         /\ activated' = activated /\ running' = running
         /\ plat_valid' \subseteq Devices /\ priv' \subseteq Devices
<1> USE FrameTypes DEF TypeOK, devstate, Pcs, Continues, At
<1>1. CASE of_to_plat_entry
  <2>1. StackStep
    <3>1. CASE Top.dev \in plat_valid
      BY <1>1, <3>1, ByReturn DEF of_to_plat_entry, Return
    <3>2. CASE Top.dev \notin plat_valid /\ HasParent(Top.dev)
      <4>1. ParentOf[Top.dev] \in Devices
        BY <1>1, <3>2, TopFields DEF of_to_plat_entry
      <4>2. /\ Frame("device_of_to_plat", ParentOf[Top.dev], {}) \in Frames
            /\ IsEntry(Frame("device_of_to_plat", ParentOf[Top.dev], {}))
            /\ Calls(board, To("parent"), Frame("device_of_to_plat", ParentOf[Top.dev], {}))
        BY <1>1, <3>2, <4>1 DEF of_to_plat_entry, Functions, Calls
      <4> QED BY <1>1, <3>2, <4>2, ByCall DEF of_to_plat_entry, Call
    <3>3. CASE Top.dev \notin plat_valid /\ ~HasParent(Top.dev)
      BY <1>1, <3>3, ByGoto DEF of_to_plat_entry
    <3> QED BY <3>1, <3>2, <3>3
  <2> QED BY <1>1, <2>1 DEF of_to_plat_entry, Return, Call, Codes
<1>2. CASE of_to_plat_parent
  <2>1. StackStep
    BY <1>2, ByReturn, ByGoto DEF of_to_plat_parent, Return, Goto
  <2>2. Top.dev \in Devices
    BY <1>2, TopFields DEF of_to_plat_parent
  <2>3. retv' \in {retv, "OK"}
    BY <1>2 DEF of_to_plat_parent, Return, Goto
  <2>4. plat_valid' \subseteq plat_valid /\ priv' \subseteq priv \cup {Top.dev}
    BY <1>2 DEF of_to_plat_parent, device_free
  <2> QED BY <1>2, <2>1, <2>2, <2>3, <2>4 DEF of_to_plat_parent, Codes
<1>3. CASE of_to_plat_hook
  <2>1. StackStep
    BY <1>3, ByReturn DEF of_to_plat_hook, Return
  <2>2. Top.dev \in Devices
    BY <1>3, TopFields DEF of_to_plat_hook
  <2> QED BY <1>3, <2>1, <2>2, HookCodes DEF of_to_plat_hook, Return, device_free
<1> QED BY <1>1, <1>2, <1>3 DEF of_to_plat_step

\* device_probe() as steps of the stack
LEMMA ProbeShape ==
  ASSUME TypeOK, probe_step
  PROVE  StackStep /\ board' = board /\ retv' \in Codes /\ bound' = bound
         /\ activated' \subseteq Devices /\ running' \subseteq Devices
         /\ plat_valid' \subseteq Devices /\ priv' \subseteq Devices
<1> USE FrameTypes DEF TypeOK, devstate, Pcs, Continues, At
<1>0. ASSUME NEW r \in Codes, ProbeFails(r), stack # <<>>
      PROVE  StackStep /\ board' = board /\ retv' \in Codes /\ bound' = bound
             /\ activated' \subseteq Devices /\ running' \subseteq Devices
             /\ plat_valid' \subseteq Devices /\ priv' \subseteq Devices
  BY <1>0, ByReturn DEF ProbeFails, Return, device_free
<1>1. CASE probe_entry
  <2>1. StackStep
    <3>1. CASE Top.dev \in activated
      BY <1>1, <3>1, ByReturn DEF probe_entry, Return
    <3>2. CASE Top.dev \notin activated
      <4>1. PICK r \in Hook("probe") :
              IF r = "OK" THEN Call(To("plat"), "device_of_to_plat", Top.dev, {}) ELSE Return(r)
        BY <1>1, <3>2 DEF probe_entry
      <4>2. /\ Frame("device_of_to_plat", Top.dev, {}) \in Frames
            /\ IsEntry(Frame("device_of_to_plat", Top.dev, {}))
            /\ Calls(board, To("plat"), Frame("device_of_to_plat", Top.dev, {}))
        BY <1>1, <3>2, TopFields DEF probe_entry, Functions, Calls
      <4> QED BY <1>1, <3>2, <4>1, <4>2, ByCall, ByReturn DEF probe_entry, Call, Return
    <3> QED BY <3>1, <3>2
  <2>2. retv' \in Codes
    BY <1>1, HookCodes DEF probe_entry, Return, Call, Codes
  <2> QED BY <1>1, <2>1, <2>2 DEF probe_entry
<1>2. CASE probe_plat
  <2>1. CASE retv # "OK"
    BY <1>0, <1>2, <2>1 DEF probe_plat
  <2>2. CASE retv = "OK"
    <3>1. CASE HasParent(Top.dev)
      <4>1. ParentOf[Top.dev] \in Devices
        BY <1>2, <3>1, TopFields DEF probe_plat
      <4>2. /\ Frame("device_probe", ParentOf[Top.dev], {}) \in Frames
            /\ IsEntry(Frame("device_probe", ParentOf[Top.dev], {}))
            /\ Calls(board, To("parent"), Frame("device_probe", ParentOf[Top.dev], {}))
        BY <1>2, <3>1, <4>1 DEF probe_plat, Functions, Calls
      <4>3. StackStep
        BY <1>2, <2>2, <3>1, <4>2, ByCall DEF probe_plat, Call
      <4> QED BY <1>2, <2>2, <3>1, <4>3 DEF probe_plat, Call
    <3>2. CASE ~HasParent(Top.dev)
      BY <1>2, <2>2, <3>2, ByGoto DEF probe_plat, Goto
    <3> QED BY <3>1, <3>2
  <2> QED BY <2>1, <2>2
<1>3. CASE probe_parent
  <2>1. CASE retv # "OK"
    BY <1>0, <1>3, <2>1 DEF probe_parent
  <2>2. CASE retv = "OK"
    <3>1. StackStep
      BY <1>3, <2>2, ByReturn, ByGoto DEF probe_parent, Return, Goto
    <3>2. Top.dev \in Devices
      BY <1>3, TopFields DEF probe_parent
    <3> QED BY <1>3, <2>2, <3>1, <3>2 DEF probe_parent, Return, Goto, Codes
  <2> QED BY <2>1, <2>2
<1>4. CASE probe_pre
  <2>1. PICK r \in Hook("probe") :
          \/ r = "OK" /\ Goto(To("hook")) /\ UNCHANGED <<devstate, board>>
          \/ r # "OK" /\ ProbeFails(r)
    BY <1>4 DEF probe_pre
  <2>2. CASE r # "OK"
    BY <1>0, <1>4, <2>1, <2>2, HookCodes DEF probe_pre
  <2>3. CASE r = "OK"
    BY <1>4, <2>1, <2>3, ByGoto DEF probe_pre, Goto
  <2> QED BY <2>2, <2>3
<1>5. CASE probe_hook
  <2>1. PICK r \in Hook("probe") :
          \/ /\ r = "OK"
             /\ Goto(To("post"))
             /\ running' = running \cup {Top.dev}
             /\ UNCHANGED <<bound, activated, plat_valid, priv, board>>
          \/ r # "OK" /\ ProbeFails(r)
    BY <1>5 DEF probe_hook
  <2>2. CASE r # "OK"
    BY <1>0, <1>5, <2>1, <2>2, HookCodes DEF probe_hook
  <2>3. CASE r = "OK"
    <3>1. StackStep
      BY <1>5, <2>1, <2>3, ByGoto DEF probe_hook, Goto
    <3>2. Top.dev \in Devices
      BY <1>5, TopFields DEF probe_hook
    <3> QED BY <1>5, <2>1, <2>3, <3>1, <3>2 DEF Goto
  <2> QED BY <2>2, <2>3
<1>6. CASE probe_post
  <2>1. PICK r \in Hook("post_probe") :
          IF r = "OK" THEN Return("OK")
          ELSE Call(ToRet("fail_uclass", r), "device_remove", Top.dev, {"NORMAL"})
    BY <1>6 DEF probe_post
  <2>2. StackStep
    <3>1. /\ Frame("device_remove", Top.dev, {"NORMAL"}) \in Frames
          /\ IsEntry(Frame("device_remove", Top.dev, {"NORMAL"}))
          /\ Calls(board, ToRet("fail_uclass", r), Frame("device_remove", Top.dev, {"NORMAL"}))
          /\ ToRet("fail_uclass", r) \in Frames
          /\ Continues(ToRet("fail_uclass", r)) /\ ToRet("fail_uclass", r).pc # "entry"
      <4>1. stack # <<>> /\ Top.fn = "device_probe" /\ r \in Codes /\ {"NORMAL"} \in SUBSET RemoveFlags
        BY <1>6, HookCodes DEF probe_post, RemoveFlags
      <4>2. /\ Frame("device_remove", Top.dev, {"NORMAL"}) \in Frames
            /\ IsEntry(Frame("device_remove", Top.dev, {"NORMAL"}))
            /\ Frame("device_remove", Top.dev, {"NORMAL"}).fn = "device_remove"
            /\ Frame("device_remove", Top.dev, {"NORMAL"}).dev = Top.dev
            /\ Frame("device_remove", Top.dev, {"NORMAL"}).flags = {"NORMAL"}
        BY <4>1, TopFields DEF Functions
      <4> QED BY <4>1, <4>2 DEF Calls
    <3> QED BY <1>6, <2>1, <3>1, ByCall, ByReturn DEF probe_post, Call, Return
  <2> QED BY <1>6, <2>1, <2>2, HookCodes DEF probe_post, Return, Call
<1>7. CASE probe_fail_uclass
  <2>1. Top.ret \in Codes
    BY <1>7, TopFields DEF probe_fail_uclass
  <2> QED BY <1>0, <1>7, <2>1 DEF probe_fail_uclass
<1> QED BY <1>1, <1>2, <1>3, <1>4, <1>5, <1>6, <1>7 DEF probe_step

\* device_remove() as steps of the stack
LEMMA RemoveShape ==
  ASSUME TypeOK, remove_step
  PROVE  StackStep /\ board' = board /\ retv' \in Codes /\ bound' = bound
         /\ activated' \subseteq Devices /\ running' \subseteq Devices
         /\ plat_valid' \subseteq Devices /\ priv' \subseteq Devices
<1> USE FrameTypes DEF TypeOK, devstate, Pcs, Continues, At
<1>1. CASE remove_entry
  <2>1. Children(Top.dev) \in SUBSET Devices /\ KidsOK(ToKids("children", Children(Top.dev)))
    BY <1>1 DEF remove_entry, Children, KidsOK
  <2>2. StackStep
    BY <1>1, <2>1, ByReturn, ByGoto DEF remove_entry, Return, Goto
  <2>3. retv' \in Codes
    BY <1>1, HookCodes DEF remove_entry, Return, Goto, Codes
  <2> QED BY <1>1, <2>2, <2>3 DEF remove_entry
<1>2. CASE remove_child
  <2>1. PICK k \in Top.kids :
          Call(ToKids("child_done", Top.kids \ {k}), "device_remove", k, ChildFlags(Top))
    BY <1>2 DEF remove_child
  <2>2. stack # <<>> /\ Top.fn = "device_remove"
    BY <1>2 DEF remove_child
  <2>3. k \in Devices /\ Top.kids \ {k} \in SUBSET Devices /\ ChildFlags(Top) \in SUBSET RemoveFlags
    BY <2>2, TopFields DEF ChildFlags
  <2> DEFINE f == ToKids("child_done", Top.kids \ {k})
             g == Frame("device_remove", k, ChildFlags(Top))
  <2>4. /\ f \in Frames /\ f.fn = Top.fn /\ f.dev = Top.dev /\ f.flags = Top.flags
        /\ f.pc = "child_done" /\ f.kids = Top.kids \ {k}
        /\ g \in Frames /\ g.fn = "device_remove" /\ g.dev = k /\ g.flags = ChildFlags(Top)
        /\ IsEntry(g)
    BY <2>2, <2>3 DEF Functions
  <2>5. stack' = <<g, f>> \o Tail(stack) /\ retv' = retv
    BY <2>1 DEF Call
  <2> HIDE DEF f, g
  <2>6. KidsOK(Top) => KidsOK(f) /\ Calls(board, f, g)
    BY <2>2, <2>4 DEF KidsOK, Calls, HasParent, ChildFlags, FlagsPassed
  <2>7. StackStep
    BY <2>2, <2>4, <2>5, <2>6, ByCall
  <2> QED BY <1>2, <2>5, <2>7 DEF remove_child
<1>3. CASE remove_child_done
  <2>1. retv' \in Codes
    BY <1>3 DEF remove_child_done, Return, Goto, Codes
  <2>2. (IF retv = "EPROBE_DEFER" THEN retv ELSE Top.ret) \in Codes
    BY <1>3, TopFields DEF remove_child_done
  <2>3. StackStep
    BY <1>3, <2>2, ByReturn, ByGoto DEF remove_child_done, Return, Goto
  <2> QED BY <1>3, <2>1, <2>3 DEF remove_child_done
<1>4. CASE remove_children_done
  <2>1. retv' \in Codes
    <3>1. Top.ret \in Codes
      BY <1>4, TopFields DEF remove_children_done
    <3> QED BY <1>4, <3>1 DEF remove_children_done, Return, Goto, Codes, flags_remove
  <2>2. StackStep
    BY <1>4, ByReturn, ByGoto DEF remove_children_done, Return, Goto
  <2> QED BY <1>4, <2>1, <2>2 DEF remove_children_done
<1>5. CASE remove_hook
  <2>1. StackStep
    BY <1>5, ByReturn DEF remove_hook, Return
  <2>2. retv' \in Codes
    BY <1>5, HookCodes DEF remove_hook, Return
  <2> QED BY <1>5, <2>1, <2>2 DEF remove_hook, device_free
<1> QED BY <1>1, <1>2, <1>3, <1>4, <1>5 DEF remove_step

\* device_unbind() as steps of the stack
LEMMA UnbindShape ==
  ASSUME TypeOK, unbind_step
  PROVE  StackStep /\ board' = board /\ retv' \in Codes /\ bound' \subseteq bound
         /\ UNCHANGED <<activated, running, plat_valid, priv>>
<1> USE FrameTypes DEF TypeOK, devstate, Pcs, Continues, At
<1>1. CASE unbind_entry
  <2>1. Children(Top.dev) \in SUBSET Devices /\ KidsOK(ToKids("children", Children(Top.dev)))
    BY <1>1 DEF unbind_entry, Children, KidsOK
  <2>2. StackStep
    BY <1>1, <2>1, ByReturn, ByGoto DEF unbind_entry, Return, Goto
  <2>3. retv' \in Codes
    BY <1>1, HookCodes DEF unbind_entry, Return, Goto, Codes
  <2> QED BY <1>1, <2>2, <2>3 DEF unbind_entry
<1>2. CASE unbind_child
  <2>1. PICK k \in Top.kids :
          Call(ToKids("child_done", Top.kids \ {k}), "device_unbind", k, {})
    BY <1>2 DEF unbind_child
  <2>2. stack # <<>> /\ Top.fn = "device_unbind"
    BY <1>2 DEF unbind_child
  <2>3. k \in Devices /\ Top.kids \ {k} \in SUBSET Devices
    BY <2>2, TopFields
  <2> DEFINE f == ToKids("child_done", Top.kids \ {k})
             g == Frame("device_unbind", k, {})
  <2>4. /\ f \in Frames /\ f.fn = Top.fn /\ f.dev = Top.dev /\ f.flags = Top.flags
        /\ f.pc = "child_done" /\ f.kids = Top.kids \ {k}
        /\ g \in Frames /\ g.fn = "device_unbind" /\ g.dev = k
        /\ IsEntry(g)
    BY <2>2, <2>3 DEF Functions
  <2>5. stack' = <<g, f>> \o Tail(stack) /\ retv' = retv
    BY <2>1 DEF Call
  <2> HIDE DEF f, g
  <2>6. KidsOK(Top) => KidsOK(f) /\ Calls(board, f, g)
    BY <2>2, <2>4 DEF KidsOK, Calls, HasParent
  <2>7. StackStep
    BY <2>2, <2>4, <2>5, <2>6, ByCall
  <2> QED BY <1>2, <2>5, <2>7 DEF unbind_child
<1>3. CASE unbind_child_done
  <2>1. (IF Top.ret = "OK" THEN retv ELSE Top.ret) \in Codes
    BY <1>3, TopFields DEF unbind_child_done
  <2>2. StackStep
    BY <1>3, <2>1, ByGoto DEF unbind_child_done, Goto
  <2> QED BY <1>3, <2>2 DEF unbind_child_done, Goto
<1>4. CASE unbind_children_done
  <2>1. StackStep
    BY <1>4, ByReturn DEF unbind_children_done, Return
  <2>2. retv' \in Codes
    BY <1>4, HookCodes, TopFields DEF unbind_children_done, Return
  <2> QED BY <1>4, <2>1, <2>2 DEF unbind_children_done
<1> QED BY <1>1, <1>2, <1>3, <1>4 DEF unbind_step

\* device_bind() as steps of the stack
LEMMA BindShape ==
  ASSUME TypeOK, bind_step
  PROVE  StackStep /\ board' = board /\ retv' \in Codes /\ bound' \subseteq Devices
         /\ UNCHANGED <<activated, running, plat_valid, priv>>
<1> USE FrameTypes DEF TypeOK, devstate, Pcs, Continues, At
<1>1. CASE bind_entry
  <2>1. StackStep
    BY <1>1, ByGoto DEF bind_entry, Goto
  <2> QED BY <1>1, <2>1, TopFields DEF bind_entry, Goto
<1>2. CASE bind_child
  <2>1. PICK k \in Devices \ (bound \cup {Root}) :
          ParentOf[k] = Top.dev /\ Call(Top, "device_bind", k, {})
    BY <1>2 DEF bind_child
  <2> DEFINE g == Frame("device_bind", k, {})
  <2>2. g \in Frames /\ g.fn = "device_bind" /\ g.dev = k /\ IsEntry(g)
    BY <2>1 DEF Functions
  <2>3. stack' = <<g, Top>> \o Tail(stack) /\ retv' = retv
    BY <2>1 DEF Call
  <2> HIDE DEF g
  <2>4. Calls(board, Top, g)
    BY <1>2, <2>1, <2>2 DEF bind_child, Calls, HasParent
  <2>5. StackStep
    BY <1>2, <2>2, <2>3, <2>4, ByCall DEF bind_child
  <2> QED BY <1>2, <2>3, <2>5 DEF bind_child
<1>3. CASE bind_hook
  <2>1. StackStep
    BY <1>3, ByReturn DEF bind_hook, Return
  <2> QED BY <1>3, <2>1, HookCodes DEF bind_hook, Return
<1> QED BY <1>1, <1>2, <1>3 DEF bind_step

\* Hooks that probe, and calls from outside, as steps of the stack
LEMMA CallShape ==
  ASSUME TypeOK,
         \/ HookProbes \/ device_probe \/ device_remove \/ device_unbind
         \/ device_bind \/ dm_remove_devices_active
  PROVE  StackStep /\ UNCHANGED <<devstate, board, retv>>
<1> USE FrameTypes DEF TypeOK
<1>1. CASE HookProbes
  <2>1. PICK t \in bound : /\ <<Top.fn, Top.dev, t>> \in board.uses
                           /\ Call(ToNested, "device_probe", t, {})
    BY <1>1 DEF HookProbes
  <2>2. stack # <<>> /\ Top.pc \in {"pre", "hook", "post"} /\ t \in Devices
    BY <1>1 DEF HookProbes
  <2> DEFINE g == Frame("device_probe", t, {})
  <2>3. g \in Frames /\ g.fn = "device_probe" /\ g.dev = t /\ IsEntry(g)
    BY <2>2 DEF Functions
  <2>4. stack' = <<g, ToNested>> \o Tail(stack)
    BY <2>1 DEF Call
  <2> HIDE DEF g
  <2>5. Top.fn \in {"device_of_to_plat", "device_probe", "device_remove"}
    BY <2>1, BoardAssumption DEF BoardType
  <2>6. RemoveProbesNothing => Top.fn # "device_remove"
    BY <2>1, <2>2, TopFields DEF RemoveProbesNothing
  <2>7. RemoveProbesNothing => Calls(board, ToNested, g)
    BY <2>1, <2>2, <2>3, <2>5, <2>6 DEF Calls, Probers
  <2>8. StackStep
    BY <2>2, <2>3, <2>4, <2>7, ByCall DEF Continues
  <2> QED BY <1>1, <2>1, <2>8 DEF HookProbes, Call
<1>2. CASE device_probe
  BY <1>2 DEF device_probe, Invoke, StackStep, Functions
<1>3. CASE device_remove
  <2>1. {"NORMAL"} \in SUBSET RemoveFlags
    BY DEF RemoveFlags
  <2> QED BY <1>3, <2>1 DEF device_remove, Invoke, StackStep, Functions
<1>4. CASE device_unbind
  BY <1>4 DEF device_unbind, Invoke, StackStep, Functions
<1>5. CASE device_bind
  BY <1>5 DEF device_bind, Invoke, StackStep, Functions
<1>6. CASE dm_remove_devices_active
  <2> DEFINE g == Frame("device_remove", Root, {"ACTIVE", "NON_VITAL"})
             f == Frame("device_remove", Root, {"ACTIVE"})
  <2>1. {"ACTIVE", "NON_VITAL"} \in SUBSET RemoveFlags /\ {"ACTIVE"} \in SUBSET RemoveFlags
    BY DEF RemoveFlags
  <2>2. /\ f \in Frames /\ g \in Frames /\ IsEntry(f) /\ IsEntry(g)
        /\ f.fn = "device_remove" /\ g.fn = "device_remove"
    BY <2>1, TreeAssumption DEF Functions
  <2>3. stack = <<>> /\ stack' = <<g, f>> /\ UNCHANGED <<devstate, board, retv>>
    BY <1>6 DEF dm_remove_devices_active, Invoke
  <2> HIDE DEF f, g
  <2>4. Calls(board, f, g)
    BY <2>2 DEF Calls, IsEntry
  <2> QED BY <2>2, <2>3, <2>4 DEF StackStep
<1> QED BY <1>1, <1>2, <1>3, <1>4, <1>5, <1>6

\* Every step is a step of the stack.
LEMMA StepShape ==
  ASSUME TypeOK, Next
  PROVE  StackStep /\ board' = board /\ retv' \in Codes /\ bound' \subseteq Devices
         /\ activated' \subseteq Devices /\ running' \subseteq Devices
         /\ plat_valid' \subseteq Devices /\ priv' \subseteq Devices
<1> USE DEF TypeOK, devstate
<1>1. CASE of_to_plat_step
  BY <1>1, PlatShape
<1>2. CASE probe_step
  BY <1>2, ProbeShape
<1>3. CASE remove_step
  BY <1>3, RemoveShape
<1>4. CASE unbind_step
  BY <1>4, UnbindShape
<1>5. CASE bind_step
  BY <1>5, BindShape
<1>6. CASE \/ HookProbes \/ device_probe \/ device_remove \/ device_unbind
           \/ device_bind \/ dm_remove_devices_active
  BY <1>6, CallShape
<1> QED BY <1>1, <1>2, <1>3, <1>4, <1>5, <1>6 DEF Next

\* A step leaves a well-typed stack.
LEMMA StackTyped ==
  ASSUME TypeOK, StackStep
  PROVE  stack' \in Seq(Frames)
<1> USE DEF TypeOK
<1>1. CASE stack # <<>> /\ stack' = Tail(stack)
  BY <1>1, Pops
<1>2. CASE stack # <<>> /\ \E f \in Frames : stack' = <<f>> \o Tail(stack)
  BY <1>2, Replaces
<1>3. CASE stack # <<>> /\ \E f, g \in Frames : stack' = <<g, f>> \o Tail(stack)
  BY <1>3, Pushes
<1>4. CASE \E g \in Frames : stack' = <<g>>
  BY <1>4
<1>5. CASE \E f, g \in Frames : stack' = <<g, f>>
  BY <1>5
<1> QED BY <1>1, <1>2, <1>3, <1>4, <1>5 DEF StackStep

\* The flags and data of devices, the call stack and the results keep their
\* types, whatever hooks do.
THEOREM TypeCorrect == Spec => []TypeOK
<1>1. Init => TypeOK
  BY TreeAssumption DEF Init, TypeOK, Codes
<1>2. TypeOK /\ [Next]_vars => TypeOK'
  <2>1. ASSUME TypeOK, Next PROVE TypeOK'
    BY <2>1, StepShape, StackTyped DEF TypeOK
  <2>2. ASSUME TypeOK, UNCHANGED vars PROVE TypeOK'
    BY <2>2 DEF TypeOK, vars
  <2> QED BY <2>1, <2>2
<1> QED BY <1>1, <1>2, PTL DEF Spec

-----------------------------------------------------------------------------
(* The shape of the stack is kept *)

Shape == Linked /\ Uniform /\ Descends

\* What the order says of a call: a hook or a parent is below the caller where
\* probing may fail, and a child is above.
LEMMA CallOrder ==
  ASSUME Layered, TypeOK, NEW f \in Frames, NEW g \in Frames, Calls(board, f, g)
  PROVE  /\ Ord(f.dev) \in Nat /\ Ord(g.dev) \in Nat
         /\ f.fn \in Probers /\ g.fn \in Probers /\ Failing =>
              Ord(g.dev) < Ord(f.dev) \/ (f.pc = "plat" /\ g.dev = f.dev /\ g.fn = "device_of_to_plat")
         /\ f.fn = "device_remove" /\ f.pc = "child_done" => Ord(f.dev) < Ord(g.dev)
         /\ g.fn \in Probers => f.fn \in Probers
         /\ f.fn \in Probers /\ g.fn \notin Probers => f.pc = "fail_uclass" /\ g.fn = "device_remove"
         /\ f.pc = "fail_uclass" => f.fn = "device_probe" /\ g.fn = "device_remove"
         /\ Kind(f) = Kind(g)
<1>1. board \in Boards /\ f.dev \in Devices /\ g.dev \in Devices /\ f.fn \in Functions
  BY DEF TypeOK, Frames
<1>2. Ord(f.dev) \in Nat /\ Ord(g.dev) \in Nat
  BY <1>1 DEF Layered, Ord
<1>3. /\ \A d \in Devices \ {Root} : Ord(ParentOf[d]) < Ord(d)
      /\ Failing => \A fn \in Functions, d \in Devices, t \in Devices :
                      <<fn, d, t>> \in board.uses => Ord(t) < Ord(d)
  BY <1>1 DEF Layered, Ord, Failing
<1> HIDE DEF Ord, Failing
<1>4. f.fn \in Probers /\ g.fn \in Probers /\ Failing =>
        Ord(g.dev) < Ord(f.dev) \/ (f.pc = "plat" /\ g.dev = f.dev /\ g.fn = "device_of_to_plat")
  BY <1>1, <1>3 DEF Calls, Probers, HasParent
<1>5. f.fn = "device_remove" /\ f.pc = "child_done" => Ord(f.dev) < Ord(g.dev)
  BY <1>1, <1>3 DEF Calls, Probers, HasParent
<1>6. /\ g.fn \in Probers => f.fn \in Probers
      /\ f.fn \in Probers /\ g.fn \notin Probers => f.pc = "fail_uclass" /\ g.fn = "device_remove"
      /\ f.pc = "fail_uclass" => f.fn = "device_probe" /\ g.fn = "device_remove"
      /\ Kind(f) = Kind(g)
  BY DEF Calls, Probers, Binders, Kind
<1> QED BY <1>2, <1>4, <1>5, <1>6

\* A function that goes on keeps the shape.
LEMMA ShapeReplaced ==
  ASSUME TypeOK, Shape, stack # <<>>, NEW f \in Frames, stack' = <<f>> \o Tail(stack),
         Continues(f), board' = board
  PROVE  Shape'
<1>1. /\ Len(stack') = Len(stack) /\ Len(stack) \in Nat /\ Len(stack) >= 1
      /\ stack'[1] = f /\ Top = stack[1]
      /\ \A i \in 2..Len(stack) : stack'[i] = stack[i]
  BY Replaces DEF TypeOK, Top
<1>2. /\ stack'[1].fn = stack[1].fn /\ stack'[1].dev = stack[1].dev /\ stack'[1].flags = stack[1].flags
      /\ KidsOK(stack'[1])
  BY <1>1 DEF Continues, Shape, Linked
<1>3. Linked'
  <2>1. \A i \in 1..Len(stack') : KidsOK(stack'[i])
    BY <1>1, <1>2 DEF Shape, Linked
  <2>2. \A i \in 2..Len(stack') : Calls(board', stack'[i], stack'[i - 1])
    <3> SUFFICES ASSUME NEW i \in 2..Len(stack) PROVE Calls(board, stack'[i], stack'[i - 1])
      BY <1>1
    <3>1. Calls(board, stack[i], stack[i - 1]) /\ stack'[i] = stack[i]
      BY <1>1 DEF Shape, Linked
    <3>2. CASE i = 2
      BY <1>1, <1>2, <3>1, <3>2 DEF Calls
    <3>3. CASE i # 2
      BY <1>1, <3>1, <3>3
    <3> QED BY <3>2, <3>3
  <2> QED BY <2>1, <2>2 DEF Linked
<1>4. \A i \in 1..Len(stack) : stack'[i].fn = stack[i].fn /\ stack'[i].dev = stack[i].dev
  BY <1>1, <1>2
<1>5. Uniform'
  <2>1. \A i \in 1..Len(stack) : Kind(stack'[i]) = Kind(stack[i])
    BY <1>4 DEF Kind
  <2>2. \A i, j \in 1..Len(stack') : Kind(stack'[i]) = Kind(stack'[j])
    BY <1>1, <2>1 DEF Shape, Uniform
  <2>3. \A i, j \in 1..Len(stack') : i < j /\ stack'[i].fn \in Probers => stack'[j].fn \in Probers
    BY <1>1, <1>4 DEF Shape, Uniform
  <2>4. ASSUME NEW j \in 1..Len(stack'), stack'[j].fn \in Probers
        PROVE  \/ stack'[1].fn \in Probers
               \/ \E k \in 2..Len(stack') : stack'[k].pc = "fail_uclass"
    <3>1. \/ stack[1].fn \in Probers
          \/ \E k \in 2..Len(stack) : stack[k].pc = "fail_uclass"
      BY <1>1, <1>4, <2>4 DEF Shape, Uniform
    <3> QED BY <1>1, <1>4, <3>1
  <2> QED BY <2>2, <2>3, <2>4 DEF Uniform
<1>6. Descends'
  BY <1>1, <1>4 DEF Shape, Descends, Ord, Failing
<1> QED BY <1>3, <1>5, <1>6 DEF Shape

\* A function that returns keeps the shape.
LEMMA ShapePopped ==
  ASSUME RemoveProbesNothing, Layered, TypeOK, Shape, stack # <<>>, stack' = Tail(stack), board' = board
  PROVE  Shape'
<1>1. /\ Len(stack') = Len(stack) - 1 /\ Len(stack) \in Nat /\ Len(stack) >= 1
      /\ \A i \in 1..Len(stack') : stack'[i] = stack[i + 1]
  BY Pops DEF TypeOK
<1>2. Linked'
  BY <1>1 DEF Shape, Linked
<1>3. Descends'
  BY <1>1 DEF Shape, Descends, Ord, Failing
<1>4. /\ \A i, j \in 1..Len(stack') : Kind(stack'[i]) = Kind(stack'[j])
      /\ \A i, j \in 1..Len(stack') : i < j /\ stack'[i].fn \in Probers => stack'[j].fn \in Probers
  BY <1>1 DEF Shape, Uniform
<1>5. ASSUME NEW j \in 1..Len(stack'), stack'[j].fn \in Probers
      PROVE  \/ stack'[1].fn \in Probers
             \/ \E k \in 2..Len(stack') : stack'[k].pc = "fail_uclass"
  <2>1. stack[2] \in Frames /\ stack[1] \in Frames /\ Calls(board, stack[2], stack[1])
    BY <1>1, <1>5 DEF TypeOK, Shape, Linked
  <2>2. CASE stack[1].fn \in Probers
    BY <1>1, <1>5, <2>1, <2>2, CallOrder
  <2>3. CASE stack[1].fn \notin Probers
    <3>1. PICK k \in 2..Len(stack) : stack[k].pc = "fail_uclass"
      BY <1>1, <1>5, <2>3 DEF Shape, Uniform
    <3>2. CASE k = 2
      <4>1. stack[2].fn = "device_probe"
        BY <2>1, <3>1, <3>2, CallOrder
      <4> QED BY <1>1, <1>5, <4>1 DEF Probers
    <3>3. CASE k # 2
      <4>1. k - 1 \in 2..Len(stack') /\ stack'[k - 1] = stack[k]
        BY <1>1, <3>1, <3>3
      <4> QED BY <3>1, <4>1
    <3> QED BY <3>2, <3>3
  <2> QED BY <2>2, <2>3
<1>6. Uniform'
  BY <1>4, <1>5 DEF Uniform
<1> QED BY <1>2, <1>3, <1>6 DEF Shape

\* A call keeps the shape.
LEMMA ShapePushed ==
  ASSUME RemoveProbesNothing, Layered, TypeOK, Shape, stack # <<>>, NEW f \in Frames, NEW g \in Frames,
         stack' = <<g, f>> \o Tail(stack), Continues(f), IsEntry(g), Calls(board, f, g),
         f.pc # "entry", board' = board
  PROVE  Shape'
<1>1. /\ Len(stack') = Len(stack) + 1 /\ Len(stack) \in Nat /\ Len(stack) >= 1
      /\ stack'[1] = g /\ stack'[2] = f /\ Top = stack[1]
      /\ \A i \in 3..Len(stack') : stack'[i] = stack[i - 1]
  BY Pushes DEF TypeOK, Top
<1>2. /\ f.fn = stack[1].fn /\ f.dev = stack[1].dev /\ f.flags = stack[1].flags /\ KidsOK(f) /\ KidsOK(g)
  BY <1>1 DEF Continues, Shape, Linked, IsEntry, KidsOK
<1>3. \A i \in 2..Len(stack') : /\ stack'[i].fn = stack[i - 1].fn /\ stack'[i].dev = stack[i - 1].dev
                                /\ stack'[i] \in Frames /\ stack[i - 1] \in Frames
  BY <1>1, <1>2 DEF TypeOK
<1>4. Linked'
  <2>1. \A i \in 1..Len(stack') : KidsOK(stack'[i])
    BY <1>1, <1>2 DEF Shape, Linked
  <2>2. \A i \in 2..Len(stack') : Calls(board', stack'[i], stack'[i - 1])
    <3> SUFFICES ASSUME NEW i \in 2..Len(stack') PROVE Calls(board, stack'[i], stack'[i - 1])
      OBVIOUS
    <3>1. CASE i = 2
      BY <1>1, <3>1
    <3>2. CASE i = 3
      <4>1. Calls(board, stack[2], stack[1]) /\ stack'[3] = stack[2] /\ stack'[2] = f
        BY <1>1, <3>2 DEF Shape, Linked
      <4>2. Calls(board, stack[2], f)
        BY <1>2, <4>1 DEF Calls
      <4> QED BY <3>2, <4>1, <4>2
    <3>3. CASE i > 3
      <4>1. stack'[i] = stack[i - 1] /\ stack'[i - 1] = stack[i - 2] /\ i - 1 \in 2..Len(stack)
        BY <1>1, <3>3
      <4>2. Calls(board, stack[i - 1], stack[(i - 1) - 1])
        BY <4>1 DEF Shape, Linked
      <4> QED BY <4>1, <4>2
    <3> QED BY <3>1, <3>2, <3>3
  <2> QED BY <2>1, <2>2 DEF Linked
<1>5. Uniform'
  <2>1. \A i \in 1..Len(stack) : Kind(stack[i]) = Kind(stack[1])
    BY <1>1 DEF Shape, Uniform
  <2>2. Kind(g) = Kind(f) /\ Kind(f) = Kind(stack[1])
    BY <1>2, CallOrder DEF Kind
  <2>3. \A i \in 1..Len(stack') : Kind(stack'[i]) = Kind(stack[1])
    <3>1. \A i \in 2..Len(stack') : Kind(stack'[i]) = Kind(stack[i - 1])
      BY <1>3 DEF Kind
    <3> QED BY <1>1, <2>1, <2>2, <3>1
  <2>4. ASSUME NEW i \in 1..Len(stack'), NEW j \in 1..Len(stack'), i < j, stack'[i].fn \in Probers
        PROVE  stack'[j].fn \in Probers
    <3>1. j \in 2..Len(stack') /\ stack'[j].fn = stack[j - 1].fn /\ j - 1 \in 1..Len(stack)
      BY <1>1, <1>3, <2>4
    <3>2. CASE i = 1
      <4>1. stack[1].fn \in Probers
        BY <1>1, <1>2, <2>4, <3>2, CallOrder
      <4> QED BY <1>1, <3>1, <4>1 DEF Shape, Uniform
    <3>3. CASE i # 1
      <4>1. stack[i - 1].fn \in Probers /\ i - 1 \in 1..Len(stack) /\ i - 1 < j - 1
        BY <1>1, <1>3, <2>4, <3>3
      <4> QED BY <3>1, <4>1 DEF Shape, Uniform
    <3> QED BY <3>2, <3>3
  <2>5. ASSUME NEW j \in 1..Len(stack'), stack'[j].fn \in Probers, g.fn \notin Probers
        PROVE  \E k \in 2..Len(stack') : stack'[k].pc = "fail_uclass"
    <3>1. j \in 2..Len(stack') /\ stack'[j].fn = stack[j - 1].fn /\ j - 1 \in 1..Len(stack)
      BY <1>1, <1>3, <2>5
    <3>2. CASE stack[1].fn \in Probers
      <4>1. f.pc = "fail_uclass" /\ 2 \in 2..Len(stack')
        BY <1>1, <1>2, <2>5, <3>2, CallOrder
      <4> QED BY <1>1, <4>1
    <3>3. CASE stack[1].fn \notin Probers
      <4>1. PICK k \in 2..Len(stack) : stack[k].pc = "fail_uclass"
        BY <2>5, <3>1, <3>3 DEF Shape, Uniform
      <4>2. k + 1 \in 2..Len(stack') /\ stack'[k + 1] = stack[k]
        BY <1>1, <4>1
      <4> QED BY <4>1, <4>2
    <3> QED BY <3>2, <3>3
  <2> QED BY <1>1, <2>3, <2>4, <2>5 DEF Uniform
<1>6. Descends'
  <2> SUFFICES ASSUME NEW i \in 1..Len(stack'), NEW j \in 1..Len(stack'), i < j
               PROVE  /\ Failing /\ stack'[i].fn \in Probers /\ stack'[j].fn \in Probers =>
                           \/ Ord(stack'[i].dev) < Ord(stack'[j].dev)
                           \/ i = j - 1 /\ stack'[j].pc = "plat"
                      /\ stack'[i].fn = "device_remove" /\ stack'[j].fn = "device_remove"
                           /\ stack'[j].pc = "child_done" => Ord(stack'[j].dev) < Ord(stack'[i].dev)
    BY DEF Descends, Ord, Failing
  <2>1. /\ j \in 2..Len(stack') /\ j - 1 \in 1..Len(stack)
        /\ stack'[j].fn = stack[j - 1].fn /\ stack'[j].dev = stack[j - 1].dev
    BY <1>1, <1>3
  <2>2. CASE i # 1
    <3>1. i - 1 \in 1..Len(stack) /\ i - 1 < j - 1 /\ i \in 2..Len(stack')
          /\ stack'[j] = stack[j - 1]
      BY <1>1, <2>1, <2>2
    <3>2. stack'[i].fn = stack[i - 1].fn /\ stack'[i].dev = stack[i - 1].dev
      BY <1>3, <3>1
    <3> QED BY <2>1, <3>1, <3>2 DEF Shape, Descends
  <2>3. CASE i = 1 /\ j = 2
    BY <1>1, <2>3, CallOrder
  <2>4. CASE i = 1 /\ j > 2
    <3>1. /\ 1 \in 1..Len(stack) /\ 1 < j - 1 /\ stack'[j] = stack[j - 1]
          /\ stack'[i] = g
      BY <1>1, <2>1, <2>4
    <3>2. /\ Ord(g.dev) \in Nat /\ Ord(f.dev) \in Nat /\ Ord(f.dev) = Ord(stack[1].dev)
          /\ Ord(stack[j - 1].dev) \in Nat
      <4>1. stack[j - 1].dev \in Devices /\ board \in Boards
        <5>1. stack[j - 1] \in Frames
          BY <2>1 DEF TypeOK
        <5> QED BY <5>1 DEF TypeOK, Frames
      <4> QED BY <1>2, <4>1, CallOrder DEF Ord, Layered
    <3>3. ASSUME Failing, g.fn \in Probers, stack[j - 1].fn \in Probers
          PROVE  Ord(g.dev) < Ord(stack[j - 1].dev)
      <4>1. f.fn \in Probers /\ (Ord(g.dev) < Ord(f.dev) \/ (f.pc = "plat" /\ g.dev = f.dev))
        BY <3>3, CallOrder
      <4>2. \/ Ord(stack[1].dev) < Ord(stack[j - 1].dev)
            \/ 1 = j - 2 /\ stack[j - 1].pc = "plat"
        BY <1>2, <2>1, <3>1, <3>3, <4>1 DEF Shape, Descends
      <4>3. CASE 1 = j - 2 /\ stack[j - 1].pc = "plat"
        <5>1. Calls(board, stack[2], stack[1]) /\ stack[2].pc = "plat" /\ j - 1 = 2
          BY <2>1, <4>3 DEF Shape, Linked
        <5>2. stack[1].fn = "device_of_to_plat" /\ stack[2].dev = stack[1].dev
          BY <5>1 DEF Calls
        <5>3. Ord(g.dev) < Ord(f.dev)
          BY <1>2, <3>3, <5>2, CallOrder DEF Calls, Probers
        <5> QED BY <3>2, <5>1, <5>2, <5>3
      <4> QED BY <3>2, <4>1, <4>2, <4>3
    <3>4. ASSUME g.fn = "device_remove", stack[j - 1].fn = "device_remove",
                 stack[j - 1].pc = "child_done"
          PROVE  Ord(stack[j - 1].dev) < Ord(g.dev)
      <4>1. stack[1].fn \notin Probers
        BY <2>1, <3>1, <3>4 DEF Shape, Uniform, Probers
      <4>2. f.fn = "device_remove" /\ f.pc = "child_done"
        BY <1>2, <3>4, <4>1 DEF Calls, Probers
      <4>3. Ord(f.dev) < Ord(g.dev) /\ Ord(stack[j - 1].dev) < Ord(stack[1].dev)
        BY <1>2, <2>1, <3>1, <3>4, <4>2, CallOrder DEF Shape, Descends
      <4> QED BY <3>2, <4>3
    <3> QED BY <2>1, <3>1, <3>3, <3>4
  <2> QED BY <2>2, <2>3, <2>4
<1> QED BY <1>4, <1>5, <1>6 DEF Shape

\* A call from outside starts with the shape.
LEMMA ShapeInvoked ==
  ASSUME NEW f \in Frames, NEW g \in Frames, IsEntry(f), IsEntry(g), board' = board,
         stack' = <<g>> \/ (stack' = <<g, f>> /\ Calls(board, f, g))
  PROVE  Shape'
<1>1. KidsOK(f) /\ KidsOK(g)
  BY DEF IsEntry, KidsOK
<1>2. CASE stack' = <<g>>
  <2>1. Len(stack') = 1 /\ stack'[1] = g
    BY <1>2
  <2> QED BY <1>1, <2>1 DEF Shape, Linked, Uniform, Descends
<1>3. CASE stack' = <<g, f>> /\ Calls(board, f, g)
  <2>1. Len(stack') = 2 /\ stack'[1] = g /\ stack'[2] = f
    BY <1>3
  <2>2. \A i \in 1..2 : i = 1 \/ i = 2
    OBVIOUS
  <2>3. f.fn = "device_remove" /\ g.fn = "device_remove" /\ f.pc = "entry"
    BY <1>3 DEF Calls, IsEntry
  <2>4. Linked'
    BY <1>1, <1>3, <2>1, <2>2 DEF Linked
  <2>5. \A i \in 1..Len(stack') : stack'[i].fn = "device_remove" /\ stack'[i].pc = "entry"
    BY <2>1, <2>2, <2>3 DEF IsEntry
  <2>6. Uniform'
    BY <2>5 DEF Uniform, Kind, Probers, Binders
  <2>7. Descends'
    BY <2>5 DEF Descends, Probers
  <2> QED BY <2>4, <2>6, <2>7 DEF Shape
<1> QED BY <1>2, <1>3

\* Every step keeps the shape of the stack.
LEMMA ShapeStep ==
  ASSUME RemoveProbesNothing, Layered, TypeOK, Shape, [Next]_vars
  PROVE  Shape'
<1>1. CASE Next
  <2>1. StackStep /\ board' = board
    BY <1>1, StepShape
  <2>2. stack # <<>> => KidsOK(Top)
    BY Pops DEF Shape, Linked, TypeOK, Top
  <2>3. CASE stack # <<>> /\ stack' = Tail(stack)
    BY <2>1, <2>3, ShapePopped
  <2>4. CASE stack # <<>> /\ \E f \in Frames : stack' = <<f>> \o Tail(stack) /\ Continues(f)
    BY <2>1, <2>4, ShapeReplaced
  <2>5. CASE stack # <<>> /\ \E f, g \in Frames :
               stack' = <<g, f>> \o Tail(stack) /\ Continues(f) /\ IsEntry(g)
               /\ f.pc # "entry" /\ (RemoveProbesNothing /\ KidsOK(Top) => Calls(board, f, g))
    BY <2>1, <2>2, <2>5, ShapePushed
  <2>6. CASE stack = <<>> /\ \E g \in Frames : stack' = <<g>> /\ IsEntry(g)
    BY <2>1, <2>6, ShapeInvoked
  <2>7. CASE stack = <<>> /\ \E f, g \in Frames :
               stack' = <<g, f>> /\ IsEntry(f) /\ IsEntry(g) /\ Calls(board, f, g)
    BY <2>1, <2>7, ShapeInvoked
  <2> QED BY <2>1, <2>3, <2>4, <2>5, <2>6, <2>7 DEF StackStep
<1>2. CASE UNCHANGED vars
  BY <1>2 DEF vars, Shape, Linked, Uniform, Descends, Ord, Failing
<1> QED BY <1>1, <1>2

\* The call stack always has the shape.
LEMMA ShapeInvariant ==
  ASSUME RemoveProbesNothing, Layered
  PROVE  Spec => [](TypeOK /\ Shape)
<1>1. Init => Shape
  BY DEF Init, Shape, Linked, Uniform, Descends
<1>2. TypeOK /\ Shape /\ [Next]_vars => Shape'
  BY ShapeStep
<1> QED BY <1>1, <1>2, TypeCorrect, PTL DEF Spec

-----------------------------------------------------------------------------
(* The tree is kept *)

\* A step that probes or removes keeps the tree when the frames it leaves are
\* of bound devices.
LEMMA TreeKept ==
  ASSUME TypeOK, TreeInv, bound' = bound, activated' \subseteq bound,
         \A i \in 1..Len(stack') :
           /\ stack'[i].fn \notin Binders /\ stack'[i].dev \in bound
           /\ stack'[i].fn = "device_remove" => stack'[i].kids \subseteq bound,
         stack' \in Seq(Frames)
  PROVE  TreeInv'
<1>1. TreeIntact' /\ (Root \in bound)'
  BY DEF TreeInv, TreeIntact
<1>2. (\A i \in 1..Len(stack) : TreeFrame(stack[i]))'
  BY DEF TreeFrame, Binders
<1>3. stack' # <<>> => Head(stack') = stack'[1] /\ 1 \in 1..Len(stack')
  BY Pops
<1>4. (At("device_unbind", "child_done"))' => FALSE
  BY <1>3 DEF At, Top, Binders
<1>5. UnbindLoop'
  BY <1>4 DEF UnbindLoop, Binders
<1> QED BY <1>1, <1>2, <1>5 DEF TreeInv

\* In a stack that probes or removes no frame binds.
LEMMA NoBinders ==
  ASSUME TypeOK, Shape, TreeInv, stack # <<>>, Top.fn \notin Binders
  PROVE  \A i \in 1..Len(stack) :
           /\ stack[i].fn \notin Binders /\ stack[i].dev \in bound
           /\ stack[i].fn = "device_remove" => stack[i].kids \subseteq bound
<1>1. Top = stack[1] /\ 1 \in 1..Len(stack)
  BY Pops DEF TypeOK, Top
<1>2. \A i \in 1..Len(stack) : Kind(stack[i]) = Kind(stack[1])
  BY <1>1 DEF Shape, Uniform
<1>3. \A i \in 1..Len(stack) : stack[i].fn \notin Binders
  BY <1>1, <1>2 DEF Kind, Binders
<1> QED BY <1>3 DEF TreeInv, TreeFrame

\* Probing or removing returns.
LEMMA TreeReturn ==
  ASSUME TypeOK, Shape, TreeInv, stack # <<>>, Top.fn \notin Binders, stack' = Tail(stack),
         bound' = bound, activated' \subseteq bound
  PROVE  TreeInv'
<1>1. /\ Len(stack') = Len(stack) - 1 /\ stack' \in Seq(Frames)
      /\ \A i \in 1..Len(stack') : stack'[i] = stack[i + 1] /\ i + 1 \in 1..Len(stack)
  BY Pops DEF TypeOK
<1> QED BY <1>1, NoBinders, TreeKept

\* Probing or removing goes on.
LEMMA TreeGoto ==
  ASSUME TypeOK, Shape, TreeInv, stack # <<>>, Top.fn \notin Binders,
         NEW f \in Frames, stack' = <<f>> \o Tail(stack), f.fn = Top.fn, f.dev = Top.dev,
         f.fn = "device_remove" => f.kids \subseteq bound,
         bound' = bound, activated' \subseteq bound
  PROVE  TreeInv'
<1>1. /\ Len(stack') = Len(stack) /\ stack' \in Seq(Frames) /\ stack'[1] = f /\ Top = stack[1]
      /\ \A i \in 2..Len(stack) : stack'[i] = stack[i]
      /\ Len(stack) >= 1 /\ Len(stack) \in Nat
  BY Replaces DEF TypeOK, Top
<1>2. f.dev \in bound
  BY <1>1, NoBinders
<1>3. ASSUME NEW i \in 1..Len(stack')
      PROVE  /\ stack'[i].fn \notin Binders /\ stack'[i].dev \in bound
             /\ stack'[i].fn = "device_remove" => stack'[i].kids \subseteq bound
  <2>1. CASE i = 1
    BY <1>1, <1>2, <2>1
  <2>2. CASE i # 1
    BY <1>1, <2>2, NoBinders
  <2> QED BY <2>1, <2>2
<1> QED BY <1>1, <1>3, TreeKept

\* Probing or removing calls probing or removing.
LEMMA TreeCall ==
  ASSUME TypeOK, Shape, TreeInv, stack # <<>>, Top.fn \notin Binders,
         NEW f \in Frames, NEW g \in Frames, stack' = <<g, f>> \o Tail(stack),
         f.fn = Top.fn, f.dev = Top.dev, f.fn = "device_remove" => f.kids \subseteq bound,
         g.fn \notin Binders, g.dev \in bound, IsEntry(g),
         bound' = bound, activated' \subseteq bound
  PROVE  TreeInv'
<1>1. /\ Len(stack') = Len(stack) + 1 /\ stack' \in Seq(Frames) /\ stack'[1] = g /\ stack'[2] = f
      /\ \A i \in 3..Len(stack') : stack'[i] = stack[i - 1]
      /\ Len(stack) >= 1 /\ Len(stack) \in Nat /\ Top = stack[1]
  BY Pushes DEF TypeOK, Top
<1>2. f.dev \in bound /\ g.kids = {}
  BY <1>1, NoBinders DEF IsEntry
<1>3. ASSUME NEW i \in 1..Len(stack')
      PROVE  /\ stack'[i].fn \notin Binders /\ stack'[i].dev \in bound
             /\ stack'[i].fn = "device_remove" => stack'[i].kids \subseteq bound
  <2>1. CASE i = 1
    BY <1>1, <1>2, <2>1
  <2>2. CASE i = 2
    BY <1>1, <1>2, <2>2
  <2>3. CASE i > 2
    <3>1. stack'[i] = stack[i - 1] /\ i - 1 \in 1..Len(stack)
      BY <1>1, <2>3
    <3> QED BY <3>1, NoBinders
  <2> QED BY <2>1, <2>2, <2>3
<1> QED BY <1>1, <1>3, TreeKept

\* Probing keeps the tree.
LEMMA TreeProbe ==
  ASSUME TypeOK, Shape, TreeInv, of_to_plat_step \/ probe_step \/ HookProbes, RemoveProbesNothing
  PROVE  TreeInv'
<1> USE DEF Pcs
<1>0. activated \subseteq bound
  BY DEF TreeInv, TreeIntact
<1>1. stack # <<>> /\ Top.fn \in Probers
  <2>1. CASE of_to_plat_step
    BY <2>1 DEF of_to_plat_step, of_to_plat_entry, of_to_plat_parent, of_to_plat_hook, At, Probers
  <2>2. CASE probe_step
    BY <2>2 DEF probe_step, probe_entry, probe_plat, probe_parent, probe_pre, probe_hook, probe_post,
       probe_fail_uclass, At, Probers
  <2>3. CASE HookProbes
    <3>1. \E t \in Devices : <<Top.fn, Top.dev, t>> \in board.uses
      BY <2>3 DEF HookProbes, TypeOK
    <3>2. Top.fn \in {"device_of_to_plat", "device_probe", "device_remove"}
      BY <3>1, BoardAssumption DEF BoardType, TypeOK
    <3> QED BY <2>3, <3>1, <3>2, TopFields DEF HookProbes, RemoveProbesNothing, Probers, TypeOK
  <2> QED BY <2>1, <2>2, <2>3
<1>2. /\ Top.fn \notin Binders /\ Top.fn # "device_remove"
  BY <1>1 DEF Probers, Binders
<1>3. Top.dev \in bound
  <2>1. Top = stack[1] /\ 1 \in 1..Len(stack)
    BY <1>1, Pops DEF TypeOK, Top
  <2> QED BY <1>1, <1>2, <2>1, NoBinders
<1>4. HasParent(Top.dev) => ParentOf[Top.dev] \in bound
  BY <1>3 DEF TreeInv, TreeIntact, HasParent
<1>5. bound' = bound
  BY PlatShape, ProbeShape, CallShape DEF devstate
<1>6. activated' \subseteq activated \cup {Top.dev}
  BY DEF of_to_plat_step, of_to_plat_entry, of_to_plat_parent, of_to_plat_hook,
     probe_step, probe_entry, probe_plat, probe_parent, probe_pre, probe_hook, probe_post,
     probe_fail_uclass, ProbeFails, HookProbes, devstate
<1>7. activated' \subseteq bound
  BY <1>0, <1>3, <1>6
<1>8. ASSUME stack' = Tail(stack) PROVE TreeInv'
  BY <1>1, <1>2, <1>5, <1>7, <1>8, TreeReturn
<1>9. ASSUME NEW pc \in Pcs, stack' = <<To(pc)>> \o Tail(stack) PROVE TreeInv'
  BY <1>1, <1>2, <1>5, <1>7, <1>9, TreeGoto, FrameTypes
<1>10. ASSUME NEW f, f \in Frames /\ f.fn = Top.fn /\ f.dev = Top.dev,
              NEW fn \in Probers \cup {"device_remove"},
              NEW d \in bound, NEW fl \in SUBSET RemoveFlags,
              stack' = <<Frame(fn, d, fl), f>> \o Tail(stack)
       PROVE  TreeInv'
  <2>1. fn \in Functions /\ fn \notin Binders /\ d \in Devices
    BY DEF Functions, Binders, Probers, TypeOK
  <2> DEFINE g == Frame(fn, d, fl)
  <2>2. g \in Frames /\ g.fn \notin Binders /\ g.dev \in bound /\ IsEntry(g)
    BY <2>1, FrameTypes
  <2>3. stack' = <<g, f>> \o Tail(stack)
    BY <1>10
  <2> HIDE DEF g
  <2> QED BY <1>1, <1>2, <1>5, <1>7, <1>10, <2>2, <2>3, TreeCall
<1>11. /\ {} \in SUBSET RemoveFlags
       /\ {"device_of_to_plat", "device_probe", "device_remove"} = Probers \cup {"device_remove"}
  BY DEF Probers
<1>12. CASE of_to_plat_step
  <2>1. stack' = <<Frame("device_of_to_plat", ParentOf[Top.dev], {}), To("parent")>> \o Tail(stack)
        /\ HasParent(Top.dev) => TreeInv'
    <3>1. To("parent") \in Frames /\ To("parent").fn = Top.fn /\ To("parent").dev = Top.dev
      BY <1>1, FrameTypes
    <3> QED BY <1>4, <1>10, <3>1, <1>11
  <2> QED BY <1>1, <1>8, <1>9, <1>12, <2>1 DEF of_to_plat_step, of_to_plat_entry, of_to_plat_parent,
         of_to_plat_hook, Return, Goto, Call
<1>13. CASE probe_post
  <2>1. PICK r \in Hook("post_probe") :
          IF r = "OK" THEN Return("OK")
          ELSE Call(ToRet("fail_uclass", r), "device_remove", Top.dev, {"NORMAL"})
    BY <1>13 DEF probe_post
  <2>2. r \in Codes /\ {"NORMAL"} \in SUBSET RemoveFlags
    BY HookCodes DEF RemoveFlags
  <2> DEFINE f == ToRet("fail_uclass", r)
  <2>3. f \in Frames /\ f.fn = Top.fn /\ f.dev = Top.dev
    BY <1>1, <2>2, FrameTypes DEF Codes
  <2> HIDE DEF f
  <2>4. stack' = <<Frame("device_remove", Top.dev, {"NORMAL"}), f>> \o Tail(stack) => TreeInv'
    BY <1>3, <1>10, <2>2, <2>3
  <2> QED BY <1>8, <2>1, <2>4 DEF Return, Call, f
<1>14. CASE probe_step /\ ~probe_post
  <2>1. stack' = <<Frame("device_of_to_plat", Top.dev, {}), To("plat")>> \o Tail(stack) => TreeInv'
    <3>1. To("plat") \in Frames /\ To("plat").fn = Top.fn /\ To("plat").dev = Top.dev
      BY <1>1, FrameTypes
    <3> QED BY <1>3, <1>10, <3>1, <1>11
  <2>2. stack' = <<Frame("device_probe", ParentOf[Top.dev], {}), To("parent")>> \o Tail(stack)
        /\ HasParent(Top.dev) => TreeInv'
    <3>1. To("parent") \in Frames /\ To("parent").fn = Top.fn /\ To("parent").dev = Top.dev
      BY <1>1, FrameTypes
    <3> QED BY <1>4, <1>10, <3>1, <1>11
  <2> QED BY <1>1, <1>8, <1>9, <1>14, <2>1, <2>2 DEF probe_step, probe_entry, probe_plat, probe_parent,
         probe_pre, probe_hook, probe_fail_uclass, ProbeFails, Return, Goto, Call
<1>15. CASE HookProbes
  <2>1. PICK t \in bound : stack' = <<Frame("device_probe", t, {}), ToNested>> \o Tail(stack)
    BY <1>15 DEF HookProbes, Call
  <2>2. ToNested \in Frames /\ ToNested.fn = Top.fn /\ ToNested.dev = Top.dev
    BY <1>1, FrameTypes
  <2> QED BY <1>10, <2>1, <2>2, <1>11
<1> QED BY <1>12, <1>13, <1>14, <1>15

\* Removing keeps the tree.
LEMMA TreeRemove ==
  ASSUME TypeOK, Shape, TreeInv, remove_step
  PROVE  TreeInv'
<1> USE FrameTypes DEF Pcs
<1>1. stack # <<>> /\ Top.fn = "device_remove" /\ Top.fn \notin Binders
  BY DEF remove_step, remove_entry, remove_child, remove_child_done, remove_children_done,
     remove_hook, At, Binders
<1>2. Top.dev \in bound /\ Top.kids \subseteq bound
  <2>1. Top = stack[1] /\ 1 \in 1..Len(stack)
    BY <1>1, Pops DEF TypeOK, Top
  <2> QED BY <1>1, <2>1, NoBinders
<1>3. bound' = bound
  BY RemoveShape
<1>4. activated' \subseteq bound
  <2>1. activated \subseteq bound
    BY DEF TreeInv, TreeIntact
  <2>2. activated' \subseteq activated
    BY DEF remove_step, remove_entry, remove_child, remove_child_done, remove_children_done,
       remove_hook, devstate
  <2> QED BY <2>1, <2>2
<1>5. ASSUME stack' = Tail(stack) PROVE TreeInv'
  BY <1>1, <1>3, <1>4, <1>5, TreeReturn
<1>6. ASSUME NEW f \in Frames, f.fn = Top.fn, f.dev = Top.dev, f.kids \subseteq bound,
             stack' = <<f>> \o Tail(stack)
      PROVE  TreeInv'
  BY <1>1, <1>3, <1>4, <1>6, TreeGoto
<1>7. CASE remove_entry
  <2>1. Children(Top.dev) \subseteq bound /\ Children(Top.dev) \in SUBSET Devices
    BY DEF Children, TypeOK
  <2> QED BY <1>1, <1>5, <1>6, <1>7, <2>1 DEF remove_entry, Return, Goto
<1>8. CASE remove_child
  <2>1. PICK k \in Top.kids :
          Call(ToKids("child_done", Top.kids \ {k}), "device_remove", k, ChildFlags(Top))
    BY <1>8 DEF remove_child
  <2>2. k \in Devices /\ Top.kids \ {k} \in SUBSET Devices /\ ChildFlags(Top) \in SUBSET RemoveFlags
    BY <1>1, TopFields DEF ChildFlags
  <2> DEFINE f == ToKids("child_done", Top.kids \ {k})
             g == Frame("device_remove", k, ChildFlags(Top))
  <2>3. /\ f \in Frames /\ f.fn = Top.fn /\ f.dev = Top.dev /\ f.kids = Top.kids \ {k}
        /\ g \in Frames /\ g.fn = "device_remove" /\ g.dev = k /\ IsEntry(g)
    BY <1>1, <2>2 DEF Functions
  <2>4. stack' = <<g, f>> \o Tail(stack)
    BY <2>1 DEF Call
  <2> HIDE DEF f, g
  <2> QED BY <1>1, <1>2, <1>3, <1>4, <2>3, <2>4, TreeCall
<1>9. CASE remove_child_done
  <2>1. (IF retv = "EPROBE_DEFER" THEN retv ELSE Top.ret) \in Codes
    BY <1>1, TopFields DEF TypeOK
  <2> QED BY <1>1, <1>2, <1>5, <1>6, <1>9, <2>1 DEF remove_child_done, Return, Goto
<1>10. CASE remove_children_done
  BY <1>1, <1>2, <1>5, <1>6, <1>10 DEF remove_children_done, Return, Goto
<1>11. CASE remove_hook
  BY <1>5, <1>11 DEF remove_hook, Return
<1> QED BY <1>7, <1>8, <1>9, <1>10, <1>11 DEF remove_step

\* What TreeInv says of a frame of device_unbind()
UnbindFrame(f) ==
  /\ f.fn = "device_unbind" /\ HasParent(f.dev)
  /\ f.pc \in {"children", "child_done"} => f.dev \notin activated
  /\ f.pc = "children" /\ f.ret = "OK" => Children(f.dev) \subseteq f.kids

\* A stack that unbinds has no other frames.
LEMMA OnlyUnbind ==
  ASSUME TypeOK, Shape, TreeInv, stack # <<>>, Top.fn = "device_unbind"
  PROVE  Top = stack[1] /\ \A i \in 1..Len(stack) : UnbindFrame(stack[i])
<1>1. Top = stack[1] /\ 1 \in 1..Len(stack)
  BY Pops DEF TypeOK, Top
<1>2. \A i \in 1..Len(stack) : Kind(stack[i]) = Kind(stack[1])
  BY <1>1 DEF Shape, Uniform
<1>3. \A i \in 1..Len(stack) : stack[i].fn = "device_unbind"
  BY <1>1, <1>2 DEF Kind, Binders
<1> QED BY <1>1, <1>3 DEF TreeInv, TreeFrame, UnbindFrame

\* A step that unbinds keeps the tree when it leaves frames of device_unbind()
\* and the loops know their children.
LEMMA UnbindKept ==
  ASSUME TreeIntact', Root \in bound', UnbindLoop',
         \A i \in 1..Len(stack') : UnbindFrame(stack[i])'
  PROVE  TreeInv'
BY DEF TreeInv, TreeFrame, UnbindFrame, Binders

\* device_unbind() keeps the tree.
LEMMA TreeUnbind ==
  ASSUME TypeOK, Shape, TreeInv, unbind_step
  PROVE  TreeInv'
<1>1. stack # <<>> /\ Top.fn = "device_unbind"
  BY DEF unbind_step, unbind_entry, unbind_child, unbind_child_done, unbind_children_done, At
<1>2. Top = stack[1] /\ \A i \in 1..Len(stack) : UnbindFrame(stack[i])
  BY <1>1, OnlyUnbind
<1>3. activated' = activated /\ bound' \subseteq bound /\ board' = board
  BY UnbindShape
<1>4. \A d : Children(d)' \subseteq Children(d)
  BY <1>3 DEF Children, KidsIn
<1>5. TreeIntact /\ Root \in bound /\ UnbindLoop /\ stack \in Seq(Frames)
  BY DEF TreeInv, TypeOK
<1>6. bound' = bound => TreeIntact' /\ Root \in bound'
  BY <1>3, <1>5 DEF TreeIntact
<1>7. \A f : UnbindFrame(f) =>
        /\ f.fn = "device_unbind" /\ HasParent(f.dev)
        /\ f.pc \in {"children", "child_done"} => f.dev \notin activated'
        /\ f.pc = "children" /\ f.ret = "OK" => Children(f.dev)' \subseteq f.kids
  BY <1>3, <1>4 DEF UnbindFrame
\* A return of a value other than OK, or of OK with the device gone
<1>8. ASSUME stack' = Tail(stack), TreeIntact', Root \in bound',
             retv' = "OK" => Top.dev \notin bound'
      PROVE  TreeInv'
  <2>1. /\ Len(stack') = Len(stack) - 1 /\ Len(stack) \in Nat /\ stack' \in Seq(Frames)
        /\ \A i \in 1..Len(stack') : stack'[i] = stack[i + 1] /\ i + 1 \in 1..Len(stack)
    BY <1>1, <1>5, <1>8, Pops
  <2>2. \A i \in 1..Len(stack') : UnbindFrame(stack[i])'
    BY <1>2, <1>7, <2>1 DEF UnbindFrame
  <2>3. ASSUME NEW i \in 2..Len(stack'), stack'[i].fn = "device_unbind",
               stack'[i].pc = "child_done", stack'[i].ret = "OK"
        PROVE  KidsIn(bound', stack'[i].dev) \subseteq stack'[i].kids \cup {stack'[i - 1].dev}
    <3>1. stack'[i] = stack[i + 1] /\ stack'[i - 1] = stack[i] /\ i + 1 \in 2..Len(stack)
      BY <2>1
    <3>2. Children(stack[i + 1].dev) \subseteq stack[i + 1].kids \cup {stack[(i + 1) - 1].dev}
      BY <1>5, <2>3, <3>1 DEF UnbindLoop
    <3>3. KidsIn(bound', stack[i + 1].dev) \subseteq Children(stack[i + 1].dev)
      BY <1>3 DEF Children, KidsIn
    <3> QED BY <3>1, <3>2, <3>3 DEF Children, KidsIn
  <2>4. ASSUME At("device_unbind", "child_done")', (Top.ret = "OK")', retv' = "OK"
        PROVE  KidsIn(bound', Top'.dev) \subseteq Top'.kids
    <3>1. Top' = stack'[1] /\ 1 \in 1..Len(stack')
      BY <2>1, <2>4, Pops DEF At, Top
    <3>2. stack'[1] = stack[2] /\ 2 \in 2..Len(stack)
      BY <2>1, <3>1
    <3>3. Children(stack[2].dev) \subseteq stack[2].kids \cup {stack[1].dev}
      BY <1>5, <2>4, <3>1, <3>2 DEF UnbindLoop, At
    <3>4. KidsIn(bound', stack[2].dev) \subseteq Children(stack[2].dev)
      BY <1>3 DEF Children, KidsIn
    <3>5. stack[1].dev \notin bound'
      BY <1>2, <1>8, <2>4
    <3>6. stack[1].dev \notin KidsIn(bound', Top'.dev)
      BY <3>5 DEF Children, KidsIn
    <3> QED BY <3>1, <3>2, <3>3, <3>4, <3>6 DEF Children, KidsIn
  <2>5. UnbindLoop'
    BY <2>3, <2>4 DEF UnbindLoop, Children, KidsIn
  <2> QED BY <1>8, <2>2, <2>5, UnbindKept
\* The loop goes on in frame f.
<1>9. ASSUME NEW f \in Frames, stack' = <<f>> \o Tail(stack), UnbindFrame(f), f.dev = Top.dev,
             f.pc = "children", bound' = bound
      PROVE  TreeInv'
  <2>1. /\ Len(stack') = Len(stack) /\ stack'[1] = f /\ Len(stack) \in Nat /\ Len(stack) >= 1
        /\ stack' \in Seq(Frames)
        /\ \A i \in 2..Len(stack) : stack'[i] = stack[i]
    BY <1>1, <1>5, <1>9, Replaces
  <2>2. ASSUME NEW i \in 1..Len(stack') PROVE UnbindFrame(stack'[i])
    BY <1>2, <1>9, <2>1
  <2>3. \A i \in 1..Len(stack') : UnbindFrame(stack[i])'
    BY <1>7, <2>2 DEF UnbindFrame
  <2>4. ~(At("device_unbind", "child_done")')
    <3>1. stack' # <<>> => Top' = stack'[1]
      BY <2>1, Pops DEF Top
    <3> QED BY <1>9, <2>1, <3>1 DEF At
  <2>5. ASSUME NEW i \in 2..Len(stack'), stack'[i].fn = "device_unbind",
               stack'[i].pc = "child_done", stack'[i].ret = "OK"
        PROVE  KidsIn(bound', stack'[i].dev) \subseteq stack'[i].kids \cup {stack'[i - 1].dev}
    <3>1. stack'[i] = stack[i] /\ stack'[i - 1].dev = stack[i - 1].dev
      BY <1>2, <1>9, <2>1
    <3>2. Children(stack[i].dev) \subseteq stack[i].kids \cup {stack[i - 1].dev}
      BY <1>5, <2>1, <2>5, <3>1 DEF UnbindLoop
    <3> QED BY <1>9, <3>1, <3>2 DEF Children, KidsIn
  <2>6. UnbindLoop'
    BY <2>4, <2>5 DEF UnbindLoop, Children, KidsIn
  <2> QED BY <1>6, <1>9, <2>3, <2>6, UnbindKept
<1>10. CASE unbind_entry
  <2>1. bound' = bound
    BY <1>10 DEF unbind_entry, devstate
  <2>2. CASE stack' = Tail(stack)
    <3>1. retv' # "OK"
      BY <1>1, <1>10, <2>2 DEF unbind_entry, Return, Goto
    <3> QED BY <1>6, <1>8, <2>1, <2>2, <3>1
  <2>3. CASE stack' # Tail(stack)
    <3> DEFINE f == ToKids("children", Children(Top.dev))
    <3>1. stack' = <<f>> \o Tail(stack) /\ Top.dev \notin activated
      BY <1>10, <2>3 DEF unbind_entry, Return, Goto
    <3>2. Children(Top.dev) \in SUBSET Devices
      BY DEF Children, TypeOK
    <3>3. f \in Frames /\ f.fn = Top.fn /\ f.dev = Top.dev /\ f.pc = "children"
          /\ f.kids = Children(Top.dev)
      BY <1>1, <3>2, FrameTypes DEF Pcs
    <3> HIDE DEF f
    <3>4. UnbindFrame(Top)
      BY <1>1, <1>2, <1>5, Pops
    <3>5. UnbindFrame(f)
      BY <3>1, <3>3, <3>4 DEF UnbindFrame
    <3> QED BY <1>9, <2>1, <3>1, <3>3, <3>5
  <2> QED BY <2>2, <2>3
<1>11. CASE unbind_child_done
  <2>1. bound' = bound
    BY <1>11 DEF unbind_child_done, devstate
  <2>2. (IF Top.ret = "OK" THEN retv ELSE Top.ret) \in Codes
    BY <1>1, TopFields DEF TypeOK
  <2> DEFINE f == ToRet("children", IF Top.ret = "OK" THEN retv ELSE Top.ret)
  <2>3. /\ f \in Frames /\ f.fn = Top.fn /\ f.dev = Top.dev /\ f.pc = "children"
        /\ f.kids = Top.kids /\ f.ret = (IF Top.ret = "OK" THEN retv ELSE Top.ret)
    BY <1>1, <2>2, FrameTypes DEF Pcs
  <2>4. stack' = <<f>> \o Tail(stack)
    BY <1>11 DEF unbind_child_done, Goto
  <2> HIDE DEF f
  <2>5. UnbindFrame(Top)
    BY <1>1, <1>2, <1>5, Pops
  <2>6. f.ret = "OK" => Children(f.dev) \subseteq f.kids
    BY <1>5, <1>11, <2>3 DEF UnbindLoop, unbind_child_done
  <2>7. UnbindFrame(f)
    BY <1>11, <2>3, <2>5, <2>6 DEF UnbindFrame, unbind_child_done, At
  <2> QED BY <1>9, <2>1, <2>3, <2>4, <2>7
<1>12. CASE unbind_child
  <2>1. PICK k \in Top.kids :
          Call(ToKids("child_done", Top.kids \ {k}), "device_unbind", k, {})
    BY <1>12 DEF unbind_child
  <2>2. k \in Devices /\ Top.kids \ {k} \in SUBSET Devices /\ bound' = bound
    BY <1>1, <1>12, TopFields DEF unbind_child, devstate
  <2> DEFINE f == ToKids("child_done", Top.kids \ {k})
             g == Frame("device_unbind", k, {})
  <2>3. /\ f \in Frames /\ f.fn = Top.fn /\ f.dev = Top.dev /\ f.pc = "child_done"
        /\ f.kids = Top.kids \ {k} /\ f.ret = Top.ret
        /\ g \in Frames /\ g.fn = "device_unbind" /\ g.dev = k /\ IsEntry(g)
    BY <1>1, <2>2, FrameTypes DEF Functions, Pcs
  <2>4. stack' = <<g, f>> \o Tail(stack)
    BY <2>1 DEF Call
  <2> HIDE DEF f, g
  <2>5. /\ Len(stack') = Len(stack) + 1 /\ stack' \in Seq(Frames) /\ stack'[1] = g /\ stack'[2] = f
        /\ \A i \in 3..Len(stack') : stack'[i] = stack[i - 1]
        /\ Len(stack) >= 1 /\ Len(stack) \in Nat
    BY <1>1, <1>5, <2>3, <2>4, Pushes
  <2>6. UnbindFrame(Top) /\ k # Root
    BY <1>1, <1>2, <1>5, Pops DEF Shape, Linked, KidsOK
  <2>7. UnbindFrame(f) /\ UnbindFrame(g)
    BY <1>1, <1>12, <2>3, <2>6 DEF UnbindFrame, unbind_child, At, IsEntry, HasParent
  <2>8. ASSUME NEW i \in 1..Len(stack') PROVE UnbindFrame(stack'[i])
    <3>1. CASE i <= 2
      BY <2>5, <2>7, <3>1
    <3>2. CASE i > 2
      <4>1. stack'[i] = stack[i - 1] /\ i - 1 \in 1..Len(stack)
        BY <2>5, <3>2
      <4> QED BY <1>2, <4>1
    <3> QED BY <3>1, <3>2
  <2>9. \A i \in 1..Len(stack') : UnbindFrame(stack[i])'
    BY <1>7, <2>8 DEF UnbindFrame
  <2>10. ~(At("device_unbind", "child_done")')
    <3>1. stack' # <<>> => Top' = stack'[1]
      BY <2>5, Pops DEF Top
    <3> QED BY <2>3, <2>5, <3>1 DEF At, IsEntry
  <2>11. ASSUME NEW i \in 2..Len(stack'), stack'[i].fn = "device_unbind",
                stack'[i].pc = "child_done", stack'[i].ret = "OK"
         PROVE  KidsIn(bound', stack'[i].dev) \subseteq stack'[i].kids \cup {stack'[i - 1].dev}
    <3>1. CASE i = 2
      <4>1. Children(Top.dev) \subseteq Top.kids
        BY <1>12, <2>3, <2>5, <2>6, <2>11, <3>1 DEF UnbindFrame, unbind_child, At
      <4> QED BY <2>2, <2>3, <2>5, <3>1, <4>1 DEF Children, KidsIn
    <3>2. CASE i > 2
      <4>1. stack'[i] = stack[i - 1] /\ i - 1 \in 2..Len(stack) /\ stack'[i - 1].dev = stack[(i - 1) - 1].dev
        BY <1>2, <2>3, <2>5, <3>2
      <4>2. Children(stack[i - 1].dev) \subseteq stack[i - 1].kids \cup {stack[(i - 1) - 1].dev}
        BY <1>5, <2>11, <4>1 DEF UnbindLoop
      <4> QED BY <2>2, <4>1, <4>2 DEF Children, KidsIn
    <3> QED BY <3>1, <3>2
  <2>12. UnbindLoop'
    BY <2>10, <2>11 DEF UnbindLoop, Children, KidsIn
  <2> QED BY <1>6, <2>2, <2>9, <2>12, UnbindKept
<1>13. CASE unbind_children_done
  <2>1. CASE retv' # "OK"
    <3>1. bound' = bound /\ stack' = Tail(stack)
      BY <1>13, <2>1 DEF unbind_children_done, Return
    <3> QED BY <1>6, <1>8, <2>1, <3>1
  <2>2. CASE retv' = "OK"
    <3>1. Top.ret = "OK" /\ bound' = bound \ {Top.dev} /\ stack' = Tail(stack) /\ Top.kids = {}
      BY <1>13, <2>2 DEF unbind_children_done, Return
    <3>2. UnbindFrame(Top) /\ Top.pc = "children"
      BY <1>1, <1>2, <1>5, <1>13, Pops DEF unbind_children_done, At
    <3>3. Children(Top.dev) = {} /\ Top.dev \notin activated /\ Top.dev # Root
      BY <3>1, <3>2 DEF UnbindFrame, HasParent
    <3>4. TreeIntact' /\ Root \in bound'
      BY <1>3, <1>5, <3>1, <3>3 DEF TreeIntact, Children
    <3> QED BY <1>8, <3>1, <3>4
  <2> QED BY <2>1, <2>2
<1> QED BY <1>10, <1>11, <1>12, <1>13 DEF unbind_step

\* What TreeInv says of a frame of device_bind()
BindFrame(f) ==
  /\ f.fn = "device_bind" /\ f.dev # Root /\ f.dev \notin activated /\ ParentOf[f.dev] \in bound
  /\ f.pc = "hook" => f.dev \in bound
  /\ f.pc = "entry" => f.dev \notin bound
  /\ board.bindsKids \/ (Len(stack) = 1 /\ Children(f.dev) = {})

\* A stack that binds has no other frames, and those below the first wait for
\* a hook.
LEMMA OnlyBind ==
  ASSUME TypeOK, Shape, TreeInv, stack # <<>>, Top.fn = "device_bind"
  PROVE  /\ Top = stack[1] /\ \A i \in 1..Len(stack) : BindFrame(stack[i])
         /\ \A i \in 2..Len(stack) : stack[i].pc = "hook"
<1>1. Top = stack[1] /\ 1 \in 1..Len(stack)
  BY Pops DEF TypeOK, Top
<1>2. \A i \in 1..Len(stack) : Kind(stack[i]) = Kind(stack[1])
  BY <1>1 DEF Shape, Uniform
<1>3. \A i \in 1..Len(stack) : stack[i].fn = "device_bind"
  BY <1>1, <1>2 DEF Kind, Binders
<1>4. \A i \in 2..Len(stack) : stack[i].pc = "hook"
  <2> SUFFICES ASSUME NEW i \in 2..Len(stack) PROVE stack[i].pc = "hook"
    OBVIOUS
  <2>1. Calls(board, stack[i], stack[i - 1])
    BY DEF Shape, Linked
  <2>2. stack[i].fn = "device_bind"
    BY <1>3
  <2> QED BY <2>1, <2>2 DEF Calls, Probers
<1> QED BY <1>1, <1>3, <1>4 DEF TreeInv, TreeFrame, BindFrame

\* A step that binds keeps the tree when it leaves frames of device_bind().
LEMMA BindKept ==
  ASSUME TreeIntact', Root \in bound', stack' \in Seq(Frames),
         \A i \in 1..Len(stack') : BindFrame(stack[i])'
  PROVE  TreeInv'
<1>1. (\A i \in 1..Len(stack) : TreeFrame(stack[i]))'
  BY DEF TreeFrame, BindFrame, Binders
<1>2. stack' # <<>> => Top' = stack'[1] /\ 1 \in 1..Len(stack')
  BY Pops DEF Top
<1>3. ~(At("device_unbind", "child_done")')
  BY <1>2 DEF At, BindFrame
<1>4. UnbindLoop'
  BY <1>3 DEF UnbindLoop, BindFrame
<1> QED BY <1>1, <1>4 DEF TreeInv

\* device_bind() keeps the tree.
LEMMA TreeBind ==
  ASSUME BindersSucceed, Layered, TypeOK, Shape, TreeInv, bind_step
  PROVE  TreeInv'
<1>1. stack # <<>> /\ Top.fn = "device_bind"
  BY DEF bind_step, bind_entry, bind_child, bind_hook, At
<1>2. /\ Top = stack[1] /\ \A i \in 1..Len(stack) : BindFrame(stack[i])
      /\ \A i \in 2..Len(stack) : stack[i].pc = "hook"
  BY <1>1, OnlyBind
<1>3. activated' = activated /\ board' = board
  BY BindShape
<1>4. TreeIntact /\ Root \in bound /\ stack \in Seq(Frames) /\ Len(stack) \in Nat /\ Len(stack) >= 1
  BY <1>1, Pops DEF TreeInv, TypeOK
<1>5. BindFrame(Top) /\ Top.dev \in Devices
  BY <1>1, <1>2, <1>4, TopFields
<1>6. bound' = bound => TreeIntact' /\ Root \in bound'
  BY <1>3, <1>4 DEF TreeIntact
<1>7. CASE bind_entry
  <2>1. bound' = bound \cup {Top.dev} /\ stack' = <<To("hook")>> \o Tail(stack)
    BY <1>7 DEF bind_entry, Goto
  <2> DEFINE f == To("hook")
  <2>2. f \in Frames /\ f.fn = "device_bind" /\ f.dev = Top.dev /\ f.pc = "hook"
    BY <1>1, FrameTypes DEF Pcs
  <2> HIDE DEF f
  <2>3. /\ Len(stack') = Len(stack) /\ stack'[1] = f /\ stack' \in Seq(Frames)
        /\ \A i \in 2..Len(stack) : stack'[i] = stack[i]
    BY <1>1, <1>4, <2>1, <2>2, Replaces DEF f
  <2>4. TreeIntact' /\ Root \in bound'
    BY <1>3, <1>4, <1>5, <2>1 DEF TreeIntact, BindFrame
  <2>5. ParentOf[Top.dev] # Top.dev
    <3>1. /\ order[board][ParentOf[Top.dev]] < order[board][Top.dev] /\ order[board][Top.dev] \in Nat
      BY <1>5 DEF Layered, BindFrame, TypeOK
    <3> QED BY <3>1
  <2>6. board.bindsKids \/ (Len(stack) = 1 /\ KidsIn(bound', Top.dev) = {})
    BY <1>5, <2>1, <2>5 DEF BindFrame, Children, KidsIn
  <2>7. ASSUME NEW i \in 1..Len(stack') PROVE BindFrame(stack[i])'
    <3>1. CASE i = 1
      BY <1>3, <1>5, <2>1, <2>2, <2>3, <2>6, <3>1 DEF BindFrame, Children, KidsIn
    <3>2. CASE i # 1
      <4>1. stack'[i] = stack[i] /\ BindFrame(stack[i]) /\ stack[i].pc = "hook" /\ Len(stack) # 1
        BY <1>2, <1>4, <2>3, <3>2
      <4> QED BY <1>3, <2>1, <2>3, <4>1 DEF BindFrame
    <3> QED BY <3>1, <3>2
  <2> QED BY <2>3, <2>4, <2>7, BindKept
<1>8. CASE bind_child
  <2>1. PICK k \in Devices \ (bound \cup {Root}) :
          ParentOf[k] = Top.dev /\ Call(Top, "device_bind", k, {})
    BY <1>8 DEF bind_child
  <2> DEFINE g == Frame("device_bind", k, {})
  <2>2. g \in Frames /\ g.fn = "device_bind" /\ g.dev = k /\ IsEntry(g) /\ Top \in Frames
    BY <1>1, <2>1, FrameTypes DEF Functions
  <2>3. stack' = <<g, Top>> \o Tail(stack) /\ bound' = bound /\ board.bindsKids /\ Top.pc = "hook"
    BY <1>8, <2>1 DEF Call, bind_child, devstate, At
  <2> HIDE DEF g
  <2>4. /\ Len(stack') = Len(stack) + 1 /\ stack' \in Seq(Frames) /\ stack'[1] = g /\ stack'[2] = Top
        /\ \A i \in 3..Len(stack') : stack'[i] = stack[i - 1]
    BY <1>1, <1>4, <2>2, <2>3, Pushes
  <2>5. k \notin activated /\ Top.dev \in bound
    BY <1>4, <1>5, <2>3 DEF TreeIntact, BindFrame
  <2>6. ASSUME NEW i \in 1..Len(stack') PROVE BindFrame(stack[i])'
    <3>1. CASE i = 1
      BY <1>3, <2>1, <2>2, <2>3, <2>4, <2>5, <3>1 DEF BindFrame, IsEntry
    <3>2. CASE i # 1
      <4>1. stack'[i] = stack[i - 1] /\ i - 1 \in 1..Len(stack)
        BY <1>2, <2>4, <3>2
      <4>2. BindFrame(stack[i - 1])
        BY <1>2, <4>1
      <4> QED BY <1>3, <2>3, <4>1, <4>2 DEF BindFrame
    <3> QED BY <3>1, <3>2
  <2> QED BY <1>6, <2>3, <2>4, <2>6, BindKept
<1>9. CASE bind_hook
  <2>1. /\ Len(stack') = Len(stack) - 1 /\ stack' \in Seq(Frames)
        /\ \A i \in 1..Len(stack') : stack'[i] = stack[i + 1] /\ i + 1 \in 1..Len(stack)
    BY <1>1, <1>4, <1>9, Pops DEF bind_hook, Return
  <2>2. CASE bound' = bound
    <3>1. ASSUME NEW i \in 1..Len(stack') PROVE BindFrame(stack[i])'
      <4>1. stack'[i] = stack[i + 1] /\ BindFrame(stack[i + 1]) /\ Len(stack) # 1
        BY <1>2, <1>4, <2>1
      <4> QED BY <1>3, <2>2, <4>1 DEF BindFrame
    <3> QED BY <1>6, <2>1, <2>2, <3>1, BindKept
  <2>3. CASE bound' # bound
    <3>1. "bind" \in board.fallible /\ bound' = bound \ {Top.dev}
      BY <1>9, <2>3 DEF bind_hook, Hook
    <3>2. ~board.bindsKids
      BY <3>1 DEF BindersSucceed, TypeOK
    <3>3. Len(stack) = 1 /\ Children(Top.dev) = {} /\ Top.dev # Root /\ Top.dev \notin activated
      BY <1>5, <3>2 DEF BindFrame
    <3>4. TreeIntact' /\ Root \in bound'
      BY <1>3, <1>4, <3>1, <3>3 DEF TreeIntact, Children
    <3>5. \A i \in 1..Len(stack') : BindFrame(stack[i])'
      BY <2>1, <3>3
    <3> QED BY <2>1, <3>4, <3>5, BindKept
  <2> QED BY <2>2, <2>3
<1> QED BY <1>7, <1>8, <1>9 DEF bind_step

\* A call from outside keeps the tree.
LEMMA TreeInvoke ==
  ASSUME TypeOK, TreeInv,
         device_probe \/ device_remove \/ device_unbind \/ device_bind \/ dm_remove_devices_active
  PROVE  TreeInv'
<1>1. /\ UNCHANGED <<bound, activated, board, retv>>
  BY CallShape DEF devstate
<1>2. TreeIntact' /\ Root \in bound'
  BY <1>1 DEF TreeInv, TreeIntact
<1>3. TreeIntact /\ Root \in bound /\ bound \subseteq Devices
  BY DEF TreeInv, TypeOK
<1>4. ASSUME NEW g, g \in Frames /\ g.fn \notin Binders /\ g.dev \in bound /\ g.kids = {},
             NEW f, f \in Frames /\ f.fn \notin Binders /\ f.dev \in bound /\ f.kids = {},
             stack' = <<g>> \/ stack' = <<g, f>>
      PROVE  TreeInv'
  <2>1. stack' \in Seq(Frames)
    <3>1. <<g>> \in Seq(Frames) /\ <<g, f>> \in Seq(Frames)
      BY <1>4
    <3> QED BY <1>4, <3>1
  <2>2. ASSUME NEW i \in 1..Len(stack') PROVE stack'[i] \in {f, g}
    <3>1. stack' = <<g>> => stack'[i] = g
      OBVIOUS
    <3>2. stack' = <<g, f>> => i \in 1..2 /\ stack'[1] = g /\ stack'[2] = f
      OBVIOUS
    <3> QED BY <1>4, <3>1, <3>2
  <2> QED BY <1>1, <1>3, <1>4, <2>1, <2>2, TreeKept DEF TreeIntact
<1>5. CASE device_probe \/ device_remove
  <2>1. PICK d \in bound, fn \in {"device_probe", "device_remove"}, fl \in {{}, {"NORMAL"}} :
          stack' = <<Frame(fn, d, fl)>>
    BY <1>5 DEF device_probe, device_remove, Invoke
  <2>2. fn \in Functions /\ fn \notin Binders /\ d \in Devices /\ fl \in SUBSET RemoveFlags
    BY <1>3, <2>1 DEF Functions, Binders, RemoveFlags
  <2> DEFINE g == Frame(fn, d, fl)
  <2>3. g \in Frames /\ g.fn \notin Binders /\ g.dev \in bound /\ g.kids = {}
    BY <2>2, FrameTypes DEF IsEntry
  <2> HIDE DEF g
  <2> QED BY <1>4, <2>1, <2>3 DEF g
<1>6. CASE dm_remove_devices_active
  <2> DEFINE g == Frame("device_remove", Root, {"ACTIVE", "NON_VITAL"})
             f == Frame("device_remove", Root, {"ACTIVE"})
  <2>1. {"ACTIVE", "NON_VITAL"} \in SUBSET RemoveFlags /\ {"ACTIVE"} \in SUBSET RemoveFlags
        /\ "device_remove" \in Functions /\ "device_remove" \notin Binders /\ Root \in Devices
    BY TreeAssumption DEF RemoveFlags, Functions, Binders
  <2>2. /\ f \in Frames /\ f.fn \notin Binders /\ f.dev \in bound /\ f.kids = {}
        /\ g \in Frames /\ g.fn \notin Binders /\ g.dev \in bound /\ g.kids = {}
    BY <1>3, <2>1, FrameTypes DEF IsEntry
  <2>3. stack' = <<g, f>>
    BY <1>6 DEF dm_remove_devices_active, Invoke
  <2> HIDE DEF f, g
  <2> QED BY <1>4, <2>2, <2>3
<1>7. CASE device_unbind
  <2>1. PICK d \in bound \ {Root} : stack' = <<Frame("device_unbind", d, {})>>
    BY <1>7 DEF device_unbind, Invoke
  <2> DEFINE g == Frame("device_unbind", d, {})
  <2>2. g \in Frames /\ g.fn = "device_unbind" /\ g.dev = d /\ IsEntry(g)
    BY <1>3, <2>1, FrameTypes DEF Functions
  <2> HIDE DEF g
  <2>3. Len(stack') = 1 /\ stack'[1] = g /\ stack' # <<>> /\ Head(stack') = g
    BY <2>1 DEF g
  <2>4. \A i \in 1..Len(stack') : UnbindFrame(stack[i])'
    BY <1>1, <2>1, <2>2, <2>3 DEF UnbindFrame, IsEntry, HasParent
  <2>5. UnbindLoop'
    BY <2>2, <2>3 DEF UnbindLoop, At, Top, IsEntry
  <2> QED BY <1>2, <2>4, <2>5, UnbindKept
<1>8. CASE device_bind
  <2>1. PICK d \in Devices \ bound : ParentOf[d] \in bound /\ stack' = <<Frame("device_bind", d, {})>>
    BY <1>8 DEF device_bind, Invoke
  <2> DEFINE g == Frame("device_bind", d, {})
  <2>2. g \in Frames /\ g.fn = "device_bind" /\ g.dev = d /\ IsEntry(g)
    BY <1>3, <2>1, FrameTypes DEF Functions
  <2> HIDE DEF g
  <2>3. Len(stack') = 1 /\ stack'[1] = g /\ stack' \in Seq(Frames)
    BY <2>1, <2>2 DEF g
  <2>4. KidsIn(bound', d) = {} /\ d # Root /\ d \notin activated
    BY <1>1, <1>3, <2>1 DEF TreeIntact, KidsIn
  <2>5. \A i \in 1..Len(stack') : BindFrame(stack[i])'
    BY <1>1, <2>1, <2>2, <2>3, <2>4 DEF BindFrame, IsEntry, Children, KidsIn
  <2> QED BY <1>2, <2>3, <2>5, BindKept
<1> QED BY <1>5, <1>6, <1>7, <1>8

\* Every step keeps the tree.
LEMMA TreeStep ==
  ASSUME BindersSucceed, RemoveProbesNothing, Layered, TypeOK, Shape, TreeInv, [Next]_vars
  PROVE  TreeInv'
<1>1. CASE Next
  BY <1>1, TreeProbe, TreeRemove, TreeUnbind, TreeBind, TreeInvoke DEF Next
<1>2. CASE UNCHANGED vars
  BY <1>2 DEF vars, TreeInv, TreeIntact, TreeFrame, UnbindLoop, Children, At, Top
<1> QED BY <1>1, <1>2

\* Parents of bound devices are bound and active devices are bound, at every
\* moment of every probe, removal, bind and unbind and their error paths, on
\* boards whose buses do not fail after binding children.
THEOREM TreeTheorem ==
  ASSUME BindersSucceed, RemoveProbesNothing, Layered
  PROVE  Spec => []TreeIntact
<1>1. Init => TreeInv
  BY DEF Init, TreeInv, TreeIntact, UnbindLoop, At
<1>2. TypeOK /\ Shape /\ TreeInv /\ [Next]_vars => TreeInv'
  BY TreeStep
<1>3. TreeInv => TreeIntact
  BY DEF TreeInv
<1> QED BY <1>1, <1>2, <1>3, ShapeInvariant, PTL DEF Spec

-----------------------------------------------------------------------------
(* Activation: what a step must establish, by what it does to the stack *)

\* A function returns.
LEMMA ActiveReturns ==
  ASSUME TypeOK, ActiveInv, stack # <<>>, stack' = Tail(stack), board' = board, DataInv',
         \A i \in 2..Len(stack) : FrameOK(stack[i], board, activated', plat_valid', priv', running'),
         \A i \in 3..Len(stack) : Waits(stack[i], stack[i - 1], board, activated'),
         activated' \ running' \subseteq activated \ running,
         BeforeRun(stack[1]) => stack[1].dev \notin activated' \ running',
         3 \in 1..Len(stack) /\ Failed(stack[3]) => retv' = "OK",
         2 \in 1..Len(stack) => TopOK(stack[2], board, activated', plat_valid', running', retv')
  PROVE  ActiveInv'
<1>1. /\ Len(stack') = Len(stack) - 1 /\ Len(stack) \in Nat /\ Len(stack) >= 1
      /\ \A i \in 1..Len(stack') : stack'[i] = stack[i + 1] /\ i + 1 \in 2..Len(stack)
  BY Pops DEF TypeOK
<1>2. FrameInv'
  BY <1>1 DEF FrameInv
<1>3. StartInv'
  <2>1. ASSUME NEW d \in activated' \ running'
        PROVE  \E i \in 1..Len(stack') : BeforeRun(stack'[i]) /\ stack'[i].dev = d
    <3>1. PICK i \in 1..Len(stack) : BeforeRun(stack[i]) /\ stack[i].dev = d
      BY DEF ActiveInv, StartInv
    <3>2. i # 1
      BY <3>1
    <3>3. i - 1 \in 1..Len(stack') /\ stack'[i - 1] = stack[i]
      BY <1>1, <3>2
    <3> QED BY <3>1, <3>3
  <2>2. ASSUME NEW i \in 1..Len(stack'), NEW j \in 1..Len(stack'),
               Starting(stack'[i]), Starting(stack'[j]), stack'[i].dev = stack'[j].dev
        PROVE  i = j
    <3>1. i + 1 \in 1..Len(stack) /\ j + 1 \in 1..Len(stack)
          /\ stack'[i] = stack[i + 1] /\ stack'[j] = stack[j + 1]
      BY <1>1
    <3>2. i + 1 = j + 1
      BY <2>2, <3>1 DEF ActiveInv, StartInv
    <3> QED BY <3>2
  <2> QED BY <2>1, <2>2 DEF StartInv
<1>4. WaitInv'
  <2>1. ASSUME NEW i \in 2..Len(stack')
        PROVE  Waits(stack'[i], stack'[i - 1], board', activated')
    <3>1. stack'[i] = stack[i + 1] /\ stack'[i - 1] = stack[(i + 1) - 1] /\ i + 1 \in 3..Len(stack)
      BY <1>1
    <3> QED BY <3>1
  <2>2. ASSUME NEW i \in 2..Len(stack'), Failed(stack'[i]) PROVE i = 2 /\ Failed(stack[3]) /\ 3 \in 1..Len(stack)
    <3>1. stack'[i] = stack[i + 1] /\ i + 1 \in 2..Len(stack)
      BY <1>1
    <3>2. i + 1 <= 3
      BY <2>2, <3>1 DEF ActiveInv, WaitInv
    <3> QED BY <2>2, <3>1, <3>2
  <2> QED BY <1>1, <2>1, <2>2 DEF WaitInv
<1>5. TopInv'
  <2>1. stack' # <<>> => 2 \in 1..Len(stack) /\ stack'[1] = stack[2]
    <3>1. stack' # <<>> => Len(stack') >= 1
      BY Pops DEF TypeOK
    <3> QED BY <1>1, <3>1
  <2> QED BY <2>1 DEF TopInv
<1> QED BY <1>2, <1>3, <1>4, <1>5 DEF ActiveInv

\* A function goes on.
LEMMA ActiveGoesOn ==
  ASSUME TypeOK, ActiveInv, stack # <<>>, NEW f \in Frames, stack' = <<f>> \o Tail(stack),
         f.dev = stack[1].dev, board' = board, DataInv',
         FrameOK(f, board, activated', plat_valid', priv', running'),
         \A i \in 2..Len(stack) : FrameOK(stack[i], board, activated', plat_valid', priv', running'),
         2 \in 1..Len(stack) => Waits(stack[2], f, board, activated'),
         \A i \in 3..Len(stack) : Waits(stack[i], stack[i - 1], board, activated'),
         activated' \ running' \subseteq (activated \ running) \cup {f.dev},
         f.dev \in activated' \ running' =>
           BeforeRun(f) \/ (f.dev \in activated \ running /\ ~BeforeRun(stack[1])),
         Starting(f) => Starting(stack[1]) \/ f.dev \notin activated,
         3 \in 1..Len(stack) => ~Failed(stack[3]),
         2 \in 1..Len(stack) /\ Failed(stack[2]) => f.pc # "child_done",
         TopOK(f, board, activated', plat_valid', running', retv')
  PROVE  ActiveInv'
<1>1. /\ Len(stack') = Len(stack) /\ stack'[1] = f /\ Len(stack) \in Nat /\ Len(stack) >= 1
      /\ \A i \in 2..Len(stack) : stack'[i] = stack[i]
  BY Replaces DEF TypeOK
<1>2. FrameInv'
  BY <1>1 DEF FrameInv
<1>3. StartInv'
  <2>1. ASSUME NEW d \in activated' \ running'
        PROVE  \E i \in 1..Len(stack') : BeforeRun(stack'[i]) /\ stack'[i].dev = d
    <3>1. CASE d = f.dev /\ BeforeRun(f)
      BY <1>1, <3>1
    <3>2. CASE d # f.dev \/ ~BeforeRun(f)
      <4>1. PICK i \in 1..Len(stack) : BeforeRun(stack[i]) /\ stack[i].dev = d
        BY <3>2 DEF ActiveInv, StartInv
      <4> QED BY <1>1, <3>2, <4>1
    <3> QED BY <3>1, <3>2
  <2>2. ASSUME NEW i \in 2..Len(stack), Starting(f), Starting(stack[i]) PROVE stack[i].dev # f.dev
    <3>1. stack[i].dev \in activated
      BY <2>2 DEF ActiveInv, FrameInv, FrameOK, ProbeOK
    <3>2. Starting(stack[1]) => stack[i].dev # stack[1].dev
      BY <1>1, <2>2 DEF ActiveInv, StartInv
    <3> QED BY <2>2, <3>1, <3>2
  <2>3. ASSUME NEW i \in 1..Len(stack'), NEW j \in 1..Len(stack'),
               Starting(stack'[i]), Starting(stack'[j]), stack'[i].dev = stack'[j].dev
        PROVE  i = j
    <3>1. CASE i # 1 /\ j # 1
      BY <1>1, <2>3, <3>1 DEF ActiveInv, StartInv
    <3>2. CASE i = 1 \/ j = 1
      BY <1>1, <2>2, <2>3, <3>2
    <3> QED BY <3>1, <3>2
  <2> QED BY <2>1, <2>3 DEF StartInv
<1>4. WaitInv'
  <2>1. ASSUME NEW i \in 2..Len(stack')
        PROVE  Waits(stack'[i], stack'[i - 1], board', activated')
    <3>1. CASE i = 2
      BY <1>1, <3>1
    <3>2. CASE i # 2
      <4>1. stack'[i] = stack[i] /\ stack'[i - 1] = stack[i - 1] /\ i \in 3..Len(stack)
        BY <1>1, <3>2
      <4> QED BY <4>1
    <3> QED BY <3>1, <3>2
  <2>2. \A i \in 2..Len(stack') : Failed(stack'[i]) => i <= 3
    BY <1>1 DEF ActiveInv, WaitInv
  <2> QED BY <1>1, <2>1, <2>2 DEF WaitInv
<1>5. TopInv'
  BY <1>1 DEF TopInv
<1> QED BY <1>2, <1>3, <1>4, <1>5 DEF ActiveInv

\* A frame that has just been entered is as it should be.
LEMMA EntryOK ==
  ASSUME NEW g \in Frames, IsEntry(g), NEW b, NEW a, NEW v, NEW p, NEW r
  PROVE  FrameOK(g, b, a, v, p, r) /\ ~Starting(g) /\ ~BeforeRun(g) /\ ~Failed(g)
         /\ \A rv : TopOK(g, b, a, v, r, rv)
BY DEF IsEntry, FrameOK, ProbeOK, RemoveOK, FailOK, TopOK, Starting, BeforeRun, Failed

\* A function calls another one.
LEMMA ActiveCalls ==
  ASSUME TypeOK, ActiveInv, stack # <<>>, NEW f \in Frames, NEW g \in Frames,
         stack' = <<g, f>> \o Tail(stack), f.dev = stack[1].dev, IsEntry(g),
         UNCHANGED <<activated, plat_valid, priv, running, board, retv>>,
         FrameOK(f, board, activated, plat_valid, priv, running),
         Waits(f, g, board, activated),
         2 \in 1..Len(stack) => Waits(stack[2], f, board, activated),
         BeforeRun(stack[1]) => BeforeRun(f), Starting(f) => Starting(stack[1]),
         2 \in 1..Len(stack) /\ Failed(stack[2]) => g.dev \notin activated,
         3 \in 1..Len(stack) => ~Failed(stack[3])
  PROVE  ActiveInv'
<1>1. /\ Len(stack') = Len(stack) + 1 /\ stack'[1] = g /\ stack'[2] = f
      /\ Len(stack) \in Nat /\ Len(stack) >= 1
      /\ \A i \in 3..Len(stack') : stack'[i] = stack[i - 1] /\ i - 1 \in 2..Len(stack)
  BY Pushes DEF TypeOK
<1>2. /\ FrameOK(g, board, activated, plat_valid, priv, running) /\ ~Starting(g) /\ ~BeforeRun(g)
      /\ TopOK(g, board, activated, plat_valid, running, retv)
  BY EntryOK
<1>3. FrameInv'
  <2> SUFFICES ASSUME NEW i \in 1..Len(stack')
               PROVE  FrameOK(stack'[i], board, activated, plat_valid, priv, running)
    BY DEF FrameInv
  <2>1. CASE i <= 2
    BY <1>1, <1>2, <2>1
  <2>2. CASE i > 2
    <3>1. stack'[i] = stack[i - 1] /\ i - 1 \in 1..Len(stack)
      BY <1>1, <2>2
    <3> QED BY <3>1 DEF ActiveInv, FrameInv
  <2> QED BY <2>1, <2>2
<1>4. StartInv'
  <2>1. ASSUME NEW d \in activated \ running
        PROVE  \E i \in 1..Len(stack') : BeforeRun(stack'[i]) /\ stack'[i].dev = d
    <3>1. PICK i \in 1..Len(stack) : BeforeRun(stack[i]) /\ stack[i].dev = d
      BY DEF ActiveInv, StartInv
    <3>2. CASE i = 1
      <4>1. 2 \in 1..Len(stack')
        BY <1>1
      <4> QED BY <1>1, <3>1, <3>2, <4>1
    <3>3. CASE i # 1
      <4>1. i + 1 \in 1..Len(stack') /\ stack'[i + 1] = stack[i]
        BY <1>1, <3>3
      <4> QED BY <3>1, <4>1
    <3> QED BY <3>2, <3>3
  <2>2. ASSUME NEW i \in 1..Len(stack'), Starting(stack'[i])
        PROVE  i - 1 \in 1..Len(stack) /\ Starting(stack[i - 1]) /\ stack[i - 1].dev = stack'[i].dev
    <3>1. i # 1
      BY <1>1, <1>2, <2>2
    <3>2. CASE i = 2
      BY <1>1, <2>2, <3>2
    <3>3. CASE i > 2
      BY <1>1, <2>2, <3>3
    <3> QED BY <3>1, <3>2, <3>3
  <2>3. ASSUME NEW i \in 1..Len(stack'), NEW j \in 1..Len(stack'),
               Starting(stack'[i]), Starting(stack'[j]), stack'[i].dev = stack'[j].dev
        PROVE  i = j
    <3>1. /\ i - 1 \in 1..Len(stack) /\ Starting(stack[i - 1])
          /\ j - 1 \in 1..Len(stack) /\ Starting(stack[j - 1])
          /\ stack[i - 1].dev = stack[j - 1].dev
      BY <2>2, <2>3
    <3>2. i - 1 = j - 1
      BY <3>1 DEF ActiveInv, StartInv
    <3> QED BY <3>2
  <2> QED BY <2>1, <2>3 DEF StartInv
<1>5. WaitInv'
  <2>1. ASSUME NEW i \in 2..Len(stack')
        PROVE  Waits(stack'[i], stack'[i - 1], board, activated)
    <3>1. CASE i = 2
      BY <1>1, <3>1
    <3>2. CASE i = 3
      BY <1>1, <3>2
    <3>3. CASE i > 3
      <4>1. stack'[i] = stack[i - 1] /\ stack'[i - 1] = stack[(i - 1) - 1] /\ i - 1 \in 2..Len(stack)
        BY <1>1, <3>3
      <4> QED BY <4>1 DEF ActiveInv, WaitInv
    <3> QED BY <3>1, <3>2, <3>3
  <2>2. ASSUME NEW i \in 2..Len(stack'), Failed(stack'[i]), i > 3 PROVE FALSE
    <3>1. stack'[i] = stack[i - 1] /\ i - 1 \in 3..Len(stack)
      BY <1>1, <2>2
    <3>2. i - 1 <= 3
      BY <2>2, <3>1 DEF ActiveInv, WaitInv
    <3>3. i - 1 = 3
      BY <3>1, <3>2
    <3> QED BY <1>1, <2>2, <3>1, <3>3
  <2>3. 3 \in 1..Len(stack') /\ Failed(stack'[3]) => stack'[1].pc = "entry" /\ stack'[1].dev \notin activated
    <3>1. 3 \in 1..Len(stack') => stack'[3] = stack[2] /\ 2 \in 1..Len(stack)
      BY <1>1
    <3> QED BY <1>1, <3>1 DEF IsEntry
  <2>4. stack'[1].pc # "child_done"
    BY <1>1 DEF IsEntry
  <2> QED BY <2>1, <2>2, <2>3, <2>4 DEF WaitInv
<1>6. TopInv'
  BY <1>1, <1>2 DEF TopInv
<1>7. DataInv'
  BY DEF ActiveInv, DataInv, ActiveParents
<1> QED BY <1>3, <1>4, <1>5, <1>6, <1>7 DEF ActiveInv

-----------------------------------------------------------------------------
(* Activation: what the steps change, and the frames below *)

\* Below a call that probes there are calls that probe.  Where probing may fail
\* they are of other devices, higher in the order, but for device_probe() that
\* reads the platform data of its own device.
LEMMA BelowProber ==
  ASSUME TypeOK, Shape, Layered, stack # <<>>, stack[1].fn \in Probers, NEW i \in 2..Len(stack)
  PROVE  /\ stack[i].fn \in Probers /\ ~Failed(stack[i])
         /\ Fails(board) =>
              \/ Ord(stack[1].dev) < Ord(stack[i].dev) /\ stack[1].dev # stack[i].dev
              \/ /\ i = 2 /\ stack[2].fn = "device_probe" /\ stack[2].pc = "plat"
                 /\ stack[1].fn = "device_of_to_plat"
<1>1. /\ stack[i] \in Frames /\ stack[i - 1] \in Frames /\ stack[1] \in Frames /\ i - 1 \in 1..Len(stack)
      /\ Calls(board, stack[i], stack[i - 1])
  BY DEF TypeOK, Shape, Linked
<1>2. stack[i].fn \in Probers
  BY DEF Shape, Uniform
<1>3. stack[i - 1].fn \in Probers
  BY <1>1 DEF Shape, Uniform
<1>4. ~Failed(stack[i])
  BY <1>1, <1>3, CallOrder DEF Failed, Probers
<1>5. ASSUME Fails(board)
      PROVE  \/ Ord(stack[1].dev) < Ord(stack[i].dev)
             \/ 1 = i - 1 /\ stack[i].pc = "plat"
  BY <1>2, <1>5 DEF Shape, Descends, Failing, Fails
<1>6. ASSUME 1 = i - 1, stack[i].pc = "plat"
      PROVE  stack[2].fn = "device_probe" /\ stack[1].fn = "device_of_to_plat"
  <2>1. Calls(board, stack[2], stack[1]) /\ i = 2
    BY <1>1, <1>6
  <2> QED BY <1>6, <2>1 DEF Calls
<1>7. Ord(stack[1].dev) \in Nat
  <2>1. stack[1].dev \in Devices /\ board \in Boards
    BY <1>1 DEF TypeOK, Frames
  <2> QED BY <2>1 DEF Ord, Layered
<1> QED BY <1>2, <1>4, <1>5, <1>6, <1>7

\* The frames below a call that probes wait for nothing else.
LEMMA ProberWaits ==
  ASSUME TypeOK, Shape, Layered, stack # <<>>, stack[1].fn \in Probers
  PROVE  \A i \in 2..Len(stack) : \A g, a : Waits(stack[i], g, board, a)
<1>1. \A i \in 2..Len(stack) : stack[i].fn \in Probers /\ ~Failed(stack[i])
  BY BelowProber
<1> QED BY <1>1 DEF Waits, Probers

\* A failed probe, or a failed reading of platform data, frees a device that no
\* frame below relies on.
LEMMA BelowFree ==
  ASSUME TypeOK, Shape, Layered, ActiveInv, stack # <<>>, stack[1].fn \in Probers, Fails(board),
         NEW a, a = activated \/ a = activated \ {stack[1].dev}, NEW i \in 2..Len(stack),
         stack[1].fn = "device_of_to_plat" => a = activated
  PROVE  FrameOK(stack[i], board, a, plat_valid \ {stack[1].dev}, priv \ {stack[1].dev}, running)
<1>1. /\ stack[i].fn \in Probers
      /\ \/ stack[1].dev # stack[i].dev
         \/ stack[i].fn = "device_probe" /\ stack[i].pc = "plat"
  BY BelowProber
<1>2. FrameOK(stack[i], board, activated, plat_valid, priv, running)
  BY DEF ActiveInv, FrameInv
<1>3. ProbeOK(stack[i], a, plat_valid \ {stack[1].dev}, priv \ {stack[1].dev}, running)
  BY <1>1, <1>2 DEF FrameOK, ProbeOK, Starting
<1>4. RemoveOK(stack[i], board, a)
  BY <1>1 DEF RemoveOK, Probers
<1>5. FailOK(stack[i], board, a, plat_valid \ {stack[1].dev})
  BY <1>2 DEF FrameOK, FailOK, KidsIn
<1> QED BY <1>3, <1>4, <1>5 DEF FrameOK

\* Allocating private data disturbs no frame.
LEMMA BelowAlloc ==
  ASSUME ActiveInv, NEW i \in 2..Len(stack), NEW d
  PROVE  FrameOK(stack[i], board, activated, plat_valid, priv \cup {d}, running)
BY DEF ActiveInv, FrameInv, FrameOK, ProbeOK

\* Platform data that is read disturbs no frame below.
LEMMA BelowPlat ==
  ASSUME TypeOK, Shape, Layered, ActiveInv, stack # <<>>, stack[1].fn = "device_of_to_plat",
         NEW i \in 2..Len(stack)
  PROVE  FrameOK(stack[i], board, activated, plat_valid \cup {stack[1].dev}, priv, running)
<1>1. /\ Fails(board) => \/ stack[1].dev # stack[i].dev
                         \/ stack[i].fn = "device_probe" /\ stack[i].pc = "plat"
  BY BelowProber DEF Probers
<1>2. FrameOK(stack[i], board, activated, plat_valid, priv, running)
  BY DEF ActiveInv, FrameInv
<1>3. ProbeOK(stack[i], activated, plat_valid \cup {stack[1].dev}, priv, running)
  BY <1>2 DEF FrameOK, ProbeOK
<1>4. FailOK(stack[i], board, activated, plat_valid \cup {stack[1].dev})
  BY <1>1, <1>2 DEF FrameOK, FailOK
<1> QED BY <1>2, <1>3, <1>4 DEF FrameOK

\* A device that becomes active is neither one that a frame below is about to
\* activate nor, where probing may fail, a child of one.
LEMMA BelowActivate ==
  ASSUME TypeOK, Shape, Layered, ActiveInv, stack # <<>>, stack[1].fn = "device_probe",
         NEW i \in 2..Len(stack)
  PROVE  FrameOK(stack[i], board, activated \cup {stack[1].dev}, plat_valid, priv, running)
<1> DEFINE d == stack[1].dev
           a == activated \cup {d}
<1>1. /\ stack[i].fn \in Probers
      /\ Fails(board) => Ord(d) < Ord(stack[i].dev) /\ d # stack[i].dev
  BY BelowProber DEF Probers
<1>2. FrameOK(stack[i], board, activated, plat_valid, priv, running)
  BY DEF ActiveInv, FrameInv
<1>3. ProbeOK(stack[i], a, plat_valid, priv, running)
  BY <1>2 DEF FrameOK, ProbeOK
<1>4. RemoveOK(stack[i], board, a)
  BY <1>1 DEF RemoveOK, Probers
<1>5. ASSUME Fails(board), d # Root PROVE ParentOf[d] # stack[i].dev
  <2>1. d \in Devices \ {Root} /\ board \in Boards /\ stack[i].dev \in Devices
    <3>1. stack[1] \in Frames /\ stack[i] \in Frames
      BY DEF TypeOK
    <3> QED BY <1>5, <3>1 DEF TypeOK, Frames
  <2>2. Ord(ParentOf[d]) < Ord(d) /\ Ord(stack[i].dev) \in Nat /\ Ord(d) \in Nat
    BY <2>1 DEF Layered, Ord
  <2>3. Ord(d) < Ord(stack[i].dev)
    BY <1>1, <1>5
  <2> HIDE DEF d
  <2> QED BY <2>2, <2>3
<1>6. Fails(board) => KidsIn(a, stack[i].dev) = KidsIn(activated, stack[i].dev)
  BY <1>5 DEF KidsIn
<1>7. FailOK(stack[i], board, a, plat_valid)
  BY <1>1, <1>2, <1>6 DEF FrameOK, FailOK
<1> QED BY <1>3, <1>4, <1>7 DEF FrameOK

\* A device that starts to run is not the one that a frame below starts.
LEMMA BelowRun ==
  ASSUME TypeOK, ActiveInv, stack # <<>>, Starting(stack[1]), NEW i \in 2..Len(stack)
  PROVE  FrameOK(stack[i], board, activated, plat_valid, priv, running \cup {stack[1].dev})
<1>1. Starting(stack[i]) => stack[i].dev # stack[1].dev
  <2>1. 1 \in 1..Len(stack) /\ i \in 1..Len(stack) /\ i # 1
    BY Pops DEF TypeOK
  <2> QED BY <2>1 DEF ActiveInv, StartInv
<1> QED BY <1>1 DEF ActiveInv, FrameInv, FrameOK, ProbeOK

\* The frame below a removal: a removal of the parent or one that has not
\* started, or a probe whose post-probe hooks failed.
LEMMA BelowRemove ==
  ASSUME TypeOK, Shape, Layered, ActiveInv, stack # <<>>, stack[1].fn = "device_remove",
         stack[1].pc # "entry", NEW i \in 2..Len(stack)
  PROVE  \/ /\ stack[i].fn = "device_remove"
            /\ stack[i].pc = "entry" \/ (stack[i].pc = "child_done" /\ stack[i].dev # stack[1].dev)
         \/ i = 2 /\ Failed(stack[2]) /\ stack[2].dev = stack[1].dev
         \/ /\ stack[i].fn \in Probers /\ Fails(board) /\ ~Failed(stack[i])
            /\ (stack[i].dev # stack[1].dev \/ stack[i].pc = "plat")
<1>1. /\ stack[i] \in Frames /\ stack[i - 1] \in Frames /\ stack[1] \in Frames /\ i - 1 \in 1..Len(stack)
      /\ Calls(board, stack[i], stack[i - 1]) /\ i \in 1..Len(stack) /\ 1 \in 1..Len(stack) /\ 1 < i
  BY DEF TypeOK, Shape, Linked
<1>2. Kind(stack[i]) = "probe or remove"
  <2>1. Kind(stack[i]) = Kind(stack[1])
    BY <1>1 DEF Shape, Uniform
  <2> QED BY <2>1 DEF Kind, Binders
<1>3. stack[i].fn \in Probers \/ stack[i].fn = "device_remove"
  BY <1>1, <1>2 DEF Kind, Binders, Probers, Frames, Functions
<1>4. CASE stack[i].fn = "device_remove"
  <2>1. stack[i].pc \in {"entry", "child_done"}
    BY <1>1, <1>4 DEF Calls, Probers
  <2>2. stack[i].pc = "child_done" => Ord(stack[i].dev) < Ord(stack[1].dev)
    BY <1>1, <1>4 DEF Shape, Descends
  <2>3. Ord(stack[1].dev) \in Nat
    <3>1. stack[1].dev \in Devices /\ board \in Boards
      BY <1>1 DEF TypeOK, Frames
    <3> QED BY <3>1 DEF Ord, Layered
  <2>4. stack[i].pc = "child_done" => stack[i].dev # stack[1].dev
    BY <2>2, <2>3
  <2> QED BY <1>4, <2>1, <2>4
<1>5. CASE stack[i].fn \in Probers
  <2>1. PICK k \in 2..Len(stack) : stack[k].pc = "fail_uclass"
    BY <1>1, <1>5 DEF Shape, Uniform, Probers
  <2>2. stack[k] \in Frames /\ stack[k - 1] \in Frames /\ Calls(board, stack[k], stack[k - 1])
    BY <2>1 DEF TypeOK, Shape, Linked
  <2>3. Failed(stack[k])
    BY <2>1, <2>2, CallOrder DEF Failed
  <2>4. k = 2
    <3>1. k <= 3
      BY <2>3 DEF ActiveInv, WaitInv
    <3>2. k # 3
      BY <2>1, <2>3 DEF ActiveInv, WaitInv
    <3> QED BY <3>1, <3>2
  <2>5. stack[2].fn = "device_probe" /\ stack[2].dev = stack[1].dev /\ Failed(stack[2])
    BY <2>2, <2>3, <2>4 DEF Calls, Failed
  <2>6. Fails(board)
    BY <2>3 DEF ActiveInv, FrameInv, FrameOK, FailOK
  <2>7. CASE i = 2
    BY <2>5, <2>7
  <2>8. CASE i > 2
    <3>1. \/ Ord(stack[2].dev) < Ord(stack[i].dev)
          \/ stack[i].pc = "plat"
      BY <1>1, <1>5, <2>1, <2>4, <2>5, <2>6, <2>8 DEF Shape, Descends, Failing, Fails, Probers
    <3>2. ~Failed(stack[i])
      <4>1. i > 3 => ~Failed(stack[i])
        BY DEF ActiveInv, WaitInv
      <4>2. 3 \in 1..Len(stack) => ~Failed(stack[3])
        BY DEF ActiveInv, WaitInv
      <4> QED BY <1>1, <2>8, <4>1, <4>2
    <3>3. Ord(stack[2].dev) \in Nat
      <4>1. stack[1].dev \in Devices /\ board \in Boards
        BY <1>1 DEF TypeOK, Frames
      <4> QED BY <2>5, <4>1 DEF Ord, Layered
    <3> QED BY <1>5, <2>5, <2>6, <3>1, <3>2, <3>3
  <2> QED BY <2>7, <2>8
<1> QED BY <1>3, <1>4, <1>5

\* Deactivating a device disturbs no frame below.
LEMMA BelowDeactivate ==
  ASSUME TypeOK, Shape, Layered, ActiveInv, stack # <<>>, stack[1].fn = "device_remove",
         stack[1].pc # "entry", NEW i \in 2..Len(stack)
  PROVE  FrameOK(stack[i], board, activated \ {stack[1].dev}, plat_valid \ {stack[1].dev},
                 priv \ {stack[1].dev}, running \ {stack[1].dev})
<1>1. FrameOK(stack[i], board, activated, plat_valid, priv, running)
  BY DEF ActiveInv, FrameInv
<1>2. FailOK(stack[i], board, activated \ {stack[1].dev}, plat_valid \ {stack[1].dev})
  BY <1>1 DEF FrameOK, FailOK, KidsIn
<1>3. ProbeOK(stack[i], activated \ {stack[1].dev}, plat_valid \ {stack[1].dev},
              priv \ {stack[1].dev}, running \ {stack[1].dev})
  BY <1>1, BelowRemove DEF FrameOK, ProbeOK, Starting, Failed
<1>4. RemoveOK(stack[i], board, activated \ {stack[1].dev})
  BY <1>1, BelowRemove DEF FrameOK, RemoveOK, Failed, Probers
<1> QED BY <1>2, <1>3, <1>4 DEF FrameOK

\* A call that probes returns: the caller learns that the platform data is
\* there, or that the device is active, when it is told so.
LEMMA ProberReturns ==
  ASSUME TypeOK, Shape, Layered, ActiveInv, stack # <<>>, stack[1].fn \in Probers,
         stack' = Tail(stack), board' = board, DataInv',
         \A i \in 2..Len(stack) : FrameOK(stack[i], board, activated', plat_valid', priv', running'),
         activated' \ running' \subseteq activated \ running,
         BeforeRun(stack[1]) => stack[1].dev \notin activated' \ running',
         Fails(board) \/ retv' = "OK",
         stack[1].fn = "device_of_to_plat" /\ retv' = "OK" => stack[1].dev \in plat_valid',
         stack[1].fn = "device_probe" /\ retv' = "OK" => stack[1].dev \in activated'
  PROVE  ActiveInv'
<1>1. \A i \in 3..Len(stack) : Waits(stack[i], stack[i - 1], board, activated')
  BY ProberWaits
<1>2. 3 \in 1..Len(stack) => ~Failed(stack[3])
  BY BelowProber
<1>3. ASSUME 2 \in 1..Len(stack)
      PROVE  TopOK(stack[2], board, activated', plat_valid', running', retv')
  <2>1. Calls(board, stack[2], stack[1]) /\ stack[2].fn \in Probers /\ ~Failed(stack[2])
    BY <1>3, BelowProber DEF Shape, Linked
  <2> QED BY <2>1 DEF Calls, TopOK, Probers, HasParent
<1> QED BY <1>1, <1>2, <1>3, ActiveReturns

\* A function that probes goes on.
LEMMA ProberGoesOn ==
  ASSUME TypeOK, Shape, Layered, ActiveInv, stack # <<>>, stack[1].fn \in Probers,
         NEW f \in Frames, stack' = <<f>> \o Tail(stack),
         f.dev = stack[1].dev, board' = board, DataInv',
         FrameOK(f, board, activated', plat_valid', priv', running'),
         \A i \in 2..Len(stack) : FrameOK(stack[i], board, activated', plat_valid', priv', running'),
         activated' \ running' \subseteq (activated \ running) \cup {f.dev},
         f.dev \in activated' \ running' =>
           BeforeRun(f) \/ (f.dev \in activated \ running /\ ~BeforeRun(stack[1])),
         Starting(f) => Starting(stack[1]) \/ f.dev \notin activated,
         TopOK(f, board, activated', plat_valid', running', retv')
  PROVE  ActiveInv'
<1>1. \A i \in 3..Len(stack) : Waits(stack[i], stack[i - 1], board, activated')
  BY ProberWaits
<1>2. /\ 3 \in 1..Len(stack) => ~Failed(stack[3])
      /\ 2 \in 1..Len(stack) => ~Failed(stack[2])
  BY BelowProber
<1>3. 2 \in 1..Len(stack) => Waits(stack[2], f, board, activated')
  BY ProberWaits
<1> QED BY <1>1, <1>2, <1>3, ActiveGoesOn

\* A function that probes calls another one.
LEMMA ProberCalls ==
  ASSUME TypeOK, Shape, Layered, ActiveInv, stack # <<>>, stack[1].fn \in Probers,
         NEW f \in Frames, NEW g \in Frames, stack' = <<g, f>> \o Tail(stack),
         f.fn = stack[1].fn, f.dev = stack[1].dev, IsEntry(g),
         UNCHANGED <<activated, plat_valid, priv, running, board, retv>>,
         FrameOK(f, board, activated, plat_valid, priv, running),
         Failed(f) => f.dev \in activated,
         BeforeRun(stack[1]) => BeforeRun(f), Starting(f) => Starting(stack[1])
  PROVE  ActiveInv'
<1>1. Waits(f, g, board, activated)
  BY DEF Waits, Probers, IsEntry
<1>2. /\ 3 \in 1..Len(stack) => ~Failed(stack[3])
      /\ 2 \in 1..Len(stack) => ~Failed(stack[2])
  BY BelowProber
<1>3. ASSUME 2 \in 1..Len(stack) PROVE Waits(stack[2], f, board, activated)
  <2>1. 2 \in 2..Len(stack)
    BY <1>3
  <2> QED BY <2>1, ProberWaits
<1> QED BY <1>1, <1>2, <1>3, ActiveCalls

\* Where no hook of a probe fails, the hooks return OK.
LEMMA HooksSucceed ==
  \A kind \in ProbeHooks : \A r \in Hook(kind) : r # "OK" => Fails(board)
BY DEF Hook, Fails

\* device_of_to_plat() keeps the order of activation.
LEMMA ActivePlat ==
  ASSUME TypeOK, Shape, Layered, ActiveInv, of_to_plat_step
  PROVE  ActiveInv'
<1> DEFINE d == Top.dev
<1>1. /\ stack # <<>> /\ stack[1] = Top /\ Top.fn = "device_of_to_plat" /\ stack[1].fn \in Probers
      /\ 1 \in 1..Len(stack) /\ ~BeforeRun(stack[1]) /\ d \in Devices
  <2>1. stack # <<>> /\ Top.fn = "device_of_to_plat"
    BY DEF of_to_plat_step, of_to_plat_entry, of_to_plat_parent, of_to_plat_hook, At
  <2> QED BY <2>1, Pops, TopFields DEF TypeOK, Top, Probers, BeforeRun
<1>2. /\ FrameOK(stack[1], board, activated, plat_valid, priv, running)
      /\ \A i \in 2..Len(stack) : FrameOK(stack[i], board, activated, plat_valid, priv, running)
      /\ TopOK(Top, board, activated, plat_valid, running, retv)
  BY <1>1 DEF ActiveInv, FrameInv, TopInv
<1>3. board' = board /\ activated' = activated /\ running' = running
  BY PlatShape
<1>4. DataInv
  BY DEF ActiveInv
<1>5. plat_valid' = plat_valid /\ priv' = priv => DataInv'
  BY <1>3, <1>4 DEF DataInv, ActiveParents
\* The error paths
<1>6. ASSUME Fails(board), d \notin plat_valid, device_free(d), stack' = Tail(stack), retv' # "OK"
      PROVE  ActiveInv'
  <2>1. plat_valid' = plat_valid \ {d} /\ priv' = priv \ {d}
    BY <1>6 DEF device_free
  <2>2. DataInv'
    BY <1>3, <1>4, <1>6, <2>1 DEF DataInv, ActiveParents
  <2>3. \A i \in 2..Len(stack) : FrameOK(stack[i], board, activated', plat_valid', priv', running')
    BY <1>1, <1>3, <1>6, <2>1, BelowFree
  <2> QED BY <1>1, <1>3, <1>6, <2>2, <2>3, ProberReturns
<1>7. CASE of_to_plat_entry
  <2>1. plat_valid' = plat_valid /\ priv' = priv
    BY <1>7 DEF of_to_plat_entry, devstate
  <2>2. /\ To("parent") \in Frames /\ To("parent").fn = Top.fn /\ To("parent").dev = d
        /\ To("parent").pc = "parent"
    BY <1>1, FrameTypes DEF Pcs
  <2> DEFINE f == To("parent")
  <2> HIDE DEF f
  <2>3. d \notin plat_valid => FrameOK(f, board, activated, plat_valid, priv, running)
        /\ ~Starting(f) /\ ~BeforeRun(f) /\ ~Failed(f)
    BY <1>1, <2>2 DEF f, FrameOK, ProbeOK, RemoveOK, FailOK, Starting, BeforeRun, Failed
  <2>4. CASE d \in plat_valid
    <3>1. stack' = Tail(stack) /\ retv' = "OK"
      BY <1>7, <2>4 DEF of_to_plat_entry, Return
    <3> QED BY <1>1, <1>2, <1>3, <1>5, <2>1, <2>4, <3>1, ProberReturns
  <2>5. CASE d \notin plat_valid /\ HasParent(d)
    <3> DEFINE g == Frame("device_of_to_plat", ParentOf[d], {})
    <3>1. g \in Frames /\ IsEntry(g)
      BY <1>1, <2>5, FrameTypes, TopFields DEF Functions
    <3>2. stack' = <<g, f>> \o Tail(stack) /\ retv' = retv
      BY <1>7, <2>5 DEF of_to_plat_entry, Call, f
    <3> HIDE DEF g
    <3> QED BY <1>1, <1>2, <1>3, <2>1, <2>2, <2>3, <2>5, <3>1, <3>2, ProberCalls DEF f
  <2>6. CASE d \notin plat_valid /\ ~HasParent(d)
    <3>1. stack' = <<f>> \o Tail(stack) /\ retv' = "OK"
      BY <1>7, <2>6 DEF of_to_plat_entry, f
    <3>2. TopOK(f, board, activated, plat_valid, running, "OK")
      BY <1>1, <2>2 DEF f, TopOK, Failed
    <3>3. activated \ running \subseteq (activated \ running) \cup {f.dev}
          /\ f.dev \notin activated
      BY <1>4, <2>2, <2>6 DEF f, DataInv
    <3> QED BY <1>1, <1>2, <1>3, <1>5, <2>1, <2>2, <2>3, <2>6, <3>1, <3>2, <3>3, ProberGoesOn DEF f
  <2> QED BY <2>4, <2>5, <2>6
<1>8. CASE of_to_plat_parent
  <2>1. Top.pc = "parent"
    BY <1>8 DEF of_to_plat_parent, At
  <2>2. CASE retv # "OK"
    <3>1. Fails(board)
      BY <1>1, <1>2, <2>1, <2>2 DEF TopOK, Probers
    <3>2. d \notin plat_valid
      BY <1>1, <1>2, <2>1, <3>1 DEF FrameOK, FailOK
    <3> QED BY <1>6, <1>8, <2>2, <3>1, <3>2 DEF of_to_plat_parent, Return
  <2>3. CASE retv = "OK" /\ d \in plat_valid
    <3>1. stack' = Tail(stack) /\ retv' = "OK" /\ plat_valid' = plat_valid /\ priv' = priv
      BY <1>8, <2>3 DEF of_to_plat_parent, Return
    <3> QED BY <1>1, <1>2, <1>3, <1>5, <2>3, <3>1, ProberReturns
  <2>4. CASE retv = "OK" /\ d \notin plat_valid
    <3> DEFINE f == To("hook")
    <3>1. f \in Frames /\ f.fn = Top.fn /\ f.dev = d /\ f.pc = "hook"
      BY <1>1, FrameTypes DEF Pcs
    <3>2. stack' = <<f>> \o Tail(stack) /\ plat_valid' = plat_valid /\ priv' = priv \cup {d}
      BY <1>8, <2>4 DEF of_to_plat_parent, Goto
    <3> HIDE DEF f
    <3>3. FrameOK(f, board, activated, plat_valid, priv \cup {d}, running) /\ ~Starting(f)
      BY <1>1, <2>4, <3>1 DEF FrameOK, ProbeOK, RemoveOK, FailOK, Starting, Failed
    <3>4. TopOK(f, board, activated, plat_valid, running, retv')
      BY <1>1, <3>1 DEF TopOK, Failed
    <3>5. \A i \in 2..Len(stack) : FrameOK(stack[i], board, activated, plat_valid, priv \cup {d}, running)
      BY BelowAlloc DEF ActiveInv
    <3>6. DataInv' /\ f.dev \notin activated
      BY <1>3, <1>4, <2>4, <3>1, <3>2 DEF DataInv, ActiveParents
    <3> QED BY <1>1, <1>3, <3>1, <3>2, <3>3, <3>4, <3>5, <3>6, ProberGoesOn
  <2> QED BY <2>2, <2>3, <2>4
<1>9. CASE of_to_plat_hook
  <2>1. PICK r \in Hook("plat") :
          /\ Return(r)
          /\ IF r = "OK"
             THEN plat_valid' = plat_valid \cup {Top.dev} /\ UNCHANGED priv
             ELSE device_free(Top.dev)
    BY <1>9 DEF of_to_plat_hook
  <2>2. Top.pc = "hook" /\ stack' = Tail(stack) /\ retv' = r
    BY <1>9, <2>1 DEF of_to_plat_hook, At, Return
  <2>3. CASE r = "OK"
    <3>1. plat_valid' = plat_valid \cup {d} /\ priv' = priv
      BY <2>1, <2>3
    <3>2. d \in priv
      BY <1>1, <1>2, <2>2 DEF FrameOK, ProbeOK
    <3>3. DataInv'
      BY <1>3, <1>4, <3>1, <3>2 DEF DataInv, ActiveParents
    <3>4. \A i \in 2..Len(stack) : FrameOK(stack[i], board, activated', plat_valid', priv', running')
      BY <1>1, <1>3, <3>1, BelowPlat
    <3> QED BY <1>1, <1>3, <2>2, <2>3, <3>1, <3>3, <3>4, ProberReturns
  <2>4. CASE r # "OK"
    <3>1. Fails(board)
      BY <2>1, <2>4, HooksSucceed DEF ProbeHooks
    <3>2. d \notin plat_valid
      BY <1>1, <1>2, <2>2, <3>1 DEF FrameOK, FailOK
    <3> QED BY <1>6, <2>1, <2>2, <2>4, <3>1, <3>2
  <2> QED BY <2>3, <2>4
<1> QED BY <1>7, <1>8, <1>9 DEF of_to_plat_step

\* device_probe() keeps the order of activation.
LEMMA ActiveProbe ==
  ASSUME TypeOK, Shape, Layered, ActiveInv, probe_step
  PROVE  ActiveInv'
<1> DEFINE d == Top.dev
<1>1. /\ stack # <<>> /\ stack[1] = Top /\ Top.fn = "device_probe" /\ stack[1].fn \in Probers
      /\ 1 \in 1..Len(stack) /\ d \in Devices
  <2>1. stack # <<>> /\ Top.fn = "device_probe"
    BY DEF probe_step, probe_entry, probe_plat, probe_parent, probe_pre, probe_hook, probe_post,
       probe_fail_uclass, At
  <2> QED BY <2>1, Pops, TopFields DEF TypeOK, Top, Probers
<1>2. /\ FrameOK(Top, board, activated, plat_valid, priv, running)
      /\ \A i \in 2..Len(stack) : FrameOK(stack[i], board, activated, plat_valid, priv, running)
      /\ TopOK(Top, board, activated, plat_valid, running, retv)
  BY <1>1 DEF ActiveInv, FrameInv, TopInv
<1>3. board' = board
  BY ProbeShape
<1>4. DataInv
  BY DEF ActiveInv
<1>5. ASSUME UNCHANGED devstate PROVE DataInv'
  BY <1>4, <1>5 DEF DataInv, ActiveParents, devstate
\* The fail: label
<1>6. ASSUME NEW r, r # "OK", ProbeFails(r), Fails(board), d \notin running, KidsIn(activated, d) = {}
      PROVE  ActiveInv'
  <2>1. /\ activated' = activated \ {d} /\ plat_valid' = plat_valid \ {d} /\ priv' = priv \ {d}
        /\ running' = running /\ stack' = Tail(stack) /\ retv' = r
    BY <1>6 DEF ProbeFails, device_free, Return
  <2>2. DataInv'
    BY <1>4, <1>6, <2>1 DEF DataInv, ActiveParents, KidsIn
  <2>3. \A i \in 2..Len(stack) : FrameOK(stack[i], board, activated', plat_valid', priv', running')
    BY <1>1, <1>6, <2>1, BelowFree
  <2>4. activated' \ running' \subseteq activated \ running /\ d \notin activated' \ running'
    BY <2>1
  <2> QED BY <1>1, <1>3, <1>6, <2>1, <2>2, <2>3, <2>4, ProberReturns
<1>7. ASSUME Fails(board), Top.pc \in {"plat", "parent"}
      PROVE  d \notin running /\ KidsIn(activated, d) = {}
  <2>1. d \notin activated
    BY <1>1, <1>2, <1>7 DEF FrameOK, FailOK
  <2> QED BY <1>4, <2>1 DEF DataInv, ActiveParents, KidsIn
<1>8. ASSUME Fails(board), Top.pc \in {"pre", "hook"}
      PROVE  d \notin running /\ KidsIn(activated, d) = {}
  BY <1>1, <1>2, <1>8 DEF FrameOK, FailOK, ProbeOK, Starting
<1>9. CASE probe_entry
  <2>1. UNCHANGED devstate /\ Top.pc = "entry"
    BY <1>9 DEF probe_entry, At
  <2>2. ~BeforeRun(Top) /\ ~Starting(Top)
    BY <2>1 DEF BeforeRun, Starting
  <2>3. CASE d \in activated
    <3>1. stack' = Tail(stack) /\ retv' = "OK"
      BY <1>9, <2>3 DEF probe_entry, Return
    <3> QED BY <1>1, <1>2, <1>3, <1>5, <2>1, <2>2, <2>3, <3>1, ProberReturns DEF devstate
  <2>4. CASE d \notin activated
    <3>1. PICK r \in Hook("probe") :
            IF r = "OK" THEN Call(To("plat"), "device_of_to_plat", d, {}) ELSE Return(r)
      BY <1>9, <2>4 DEF probe_entry
    <3>2. CASE r # "OK"
      <4>1. stack' = Tail(stack) /\ retv' = r
        BY <3>1, <3>2 DEF Return
      <4>2. Fails(board)
        BY <3>1, <3>2, HooksSucceed DEF ProbeHooks
      <4> QED BY <1>1, <1>2, <1>3, <1>5, <2>1, <2>2, <3>2, <4>1, <4>2, ProberReturns DEF devstate
    <3>3. CASE r = "OK"
      <4> DEFINE f == To("plat")
                 g == Frame("device_of_to_plat", d, {})
      <4>1. f \in Frames /\ f.fn = Top.fn /\ f.dev = d /\ f.pc = "plat" /\ g \in Frames /\ IsEntry(g)
        BY <1>1, FrameTypes DEF Pcs, Functions
      <4>2. stack' = <<g, f>> \o Tail(stack) /\ retv' = retv
        BY <3>1, <3>3 DEF Call
      <4> HIDE DEF f, g
      <4>3. FrameOK(f, board, activated, plat_valid, priv, running) /\ ~Starting(f) /\ ~Failed(f)
        BY <1>1, <2>4, <4>1 DEF FrameOK, ProbeOK, RemoveOK, FailOK, Starting, Failed
      <4> QED BY <1>1, <1>3, <2>1, <2>2, <4>1, <4>2, <4>3, ProberCalls DEF devstate
    <3> QED BY <3>2, <3>3
  <2> QED BY <2>3, <2>4
<1>10. CASE probe_plat
  <2>1. Top.pc = "plat" /\ ~BeforeRun(Top) /\ ~Starting(Top)
    BY <1>10 DEF probe_plat, At, BeforeRun, Starting
  <2>2. CASE retv # "OK"
    <3>1. Fails(board)
      BY <1>1, <1>2, <2>1, <2>2 DEF TopOK
    <3> QED BY <1>6, <1>7, <1>10, <2>1, <2>2, <3>1 DEF probe_plat
  <2>3. CASE retv = "OK"
    <3> DEFINE f == To("parent")
    <3>1. f \in Frames /\ f.fn = Top.fn /\ f.dev = d /\ f.pc = "parent"
      BY <1>1, FrameTypes DEF Pcs
    <3>2. UNCHANGED devstate /\ retv' = retv
      BY <1>10, <2>3 DEF probe_plat, Call, Goto
    <3>3. d \in plat_valid
      BY <1>1, <1>2, <2>1, <2>3 DEF TopOK
    <3>4. Fails(board) => d \notin activated
      BY <1>1, <1>2, <2>1 DEF FrameOK, FailOK
    <3>5. FrameOK(f, board, activated, plat_valid, priv, running) /\ ~Starting(f) /\ ~Failed(f)
      BY <1>1, <3>1, <3>3, <3>4 DEF FrameOK, ProbeOK, RemoveOK, FailOK, Starting, Failed
    <3>6. CASE HasParent(d)
      <4> DEFINE g == Frame("device_probe", ParentOf[d], {})
      <4>1. g \in Frames /\ IsEntry(g)
        BY <1>1, <3>6, FrameTypes, TopFields DEF Functions
      <4>2. stack' = <<g, f>> \o Tail(stack)
        BY <1>10, <2>3, <3>6 DEF probe_plat, Call
      <4> HIDE DEF f, g
      <4> QED BY <1>1, <1>3, <2>1, <3>1, <3>2, <3>5, <4>1, <4>2, ProberCalls DEF devstate
    <3>7. CASE ~HasParent(d)
      <4>1. stack' = <<f>> \o Tail(stack)
        BY <1>10, <2>3, <3>7 DEF probe_plat, Goto
      <4>2. TopOK(f, board, activated, plat_valid, running, retv)
        BY <1>1, <2>3, <3>1, <3>7 DEF TopOK, Failed
      <4> HIDE DEF f
      <4> QED BY <1>1, <1>2, <1>3, <1>5, <2>1, <3>1, <3>2, <3>5, <4>1, <4>2, ProberGoesOn DEF devstate
    <3> QED BY <3>6, <3>7
  <2> QED BY <2>2, <2>3
<1>11. CASE probe_parent
  <2>1. Top.pc = "parent" /\ ~BeforeRun(Top) /\ ~Starting(Top)
    BY <1>11 DEF probe_parent, At, BeforeRun, Starting
  <2>2. CASE retv # "OK"
    <3>1. Fails(board)
      BY <1>1, <1>2, <2>1, <2>2 DEF TopOK
    <3> QED BY <1>6, <1>7, <1>11, <2>1, <2>2, <3>1 DEF probe_parent
  <2>3. CASE retv = "OK" /\ d \in activated
    <3>1. UNCHANGED devstate /\ stack' = Tail(stack) /\ retv' = "OK"
      BY <1>11, <2>3 DEF probe_parent, Return, devstate
    <3> QED BY <1>1, <1>2, <1>3, <1>5, <2>1, <2>3, <3>1, ProberReturns DEF devstate
  <2>4. CASE retv = "OK" /\ d \notin activated
    <3> DEFINE f == To("pre")
    <3>1. f \in Frames /\ f.fn = Top.fn /\ f.dev = d /\ f.pc = "pre"
      BY <1>1, FrameTypes DEF Pcs
    <3>2. /\ activated' = activated \cup {d} /\ UNCHANGED <<plat_valid, priv, running>>
          /\ stack' = <<f>> \o Tail(stack)
      BY <1>11, <2>4 DEF probe_parent, Goto
    <3>3. d \in plat_valid /\ d \notin running
      BY <1>1, <1>2, <1>4, <2>1, <2>4 DEF FrameOK, ProbeOK, DataInv
    <3>4. d # Root => ParentOf[d] \in activated /\ ParentOf[d] # d
      BY <1>1, <1>2, <2>1, <2>4 DEF TopOK, HasParent
    <3>5. DataInv'
      BY <1>4, <3>2, <3>3, <3>4 DEF DataInv, ActiveParents
    <3>6. KidsIn(activated', d) = {}
      BY <1>4, <2>4, <3>2, <3>4 DEF KidsIn, DataInv, ActiveParents
    <3>7. FrameOK(f, board, activated', plat_valid', priv', running') /\ BeforeRun(f)
      BY <1>1, <3>1, <3>2, <3>3, <3>6 DEF FrameOK, ProbeOK, RemoveOK, FailOK, Starting, Failed, BeforeRun
    <3>8. TopOK(f, board, activated', plat_valid', running', retv')
      BY <1>1, <3>1 DEF TopOK, Failed
    <3>9. \A i \in 2..Len(stack) : FrameOK(stack[i], board, activated', plat_valid', priv', running')
      BY <1>1, <3>2, BelowActivate
    <3>10. activated' \ running' \subseteq (activated \ running) \cup {f.dev}
      BY <3>1, <3>2
    <3> HIDE DEF f
    <3> QED BY <1>1, <1>3, <2>4, <3>1, <3>2, <3>5, <3>7, <3>8, <3>9, <3>10, ProberGoesOn
  <2> QED BY <2>2, <2>3, <2>4
<1>12. CASE probe_pre
  <2>1. PICK r \in Hook("probe") :
          \/ r = "OK" /\ Goto(To("hook")) /\ UNCHANGED <<devstate, board>>
          \/ r # "OK" /\ ProbeFails(r)
    BY <1>12 DEF probe_pre
  <2>2. Top.pc = "pre" /\ BeforeRun(Top) /\ Starting(Top)
    BY <1>1, <1>12 DEF probe_pre, At, BeforeRun, Starting
  <2>3. CASE r # "OK"
    <3>1. Fails(board)
      BY <2>1, <2>3, HooksSucceed DEF ProbeHooks
    <3> QED BY <1>6, <1>8, <2>1, <2>2, <2>3, <3>1
  <2>4. CASE r = "OK"
    <3> DEFINE f == To("hook")
    <3>1. f \in Frames /\ f.fn = Top.fn /\ f.dev = d /\ f.pc = "hook"
      BY <1>1, FrameTypes DEF Pcs
    <3>2. UNCHANGED devstate /\ stack' = <<f>> \o Tail(stack)
      BY <2>1, <2>4 DEF Goto
    <3> HIDE DEF f
    <3>3. FrameOK(f, board, activated, plat_valid, priv, running) /\ BeforeRun(f)
      BY <1>1, <1>2, <2>2, <3>1 DEF FrameOK, ProbeOK, RemoveOK, FailOK, Starting, Failed, BeforeRun
    <3>4. TopOK(f, board, activated, plat_valid, running, retv')
      BY <1>1, <3>1 DEF TopOK, Failed
    <3> QED BY <1>1, <1>2, <1>3, <1>5, <2>2, <3>1, <3>2, <3>3, <3>4, ProberGoesOn DEF devstate
  <2> QED BY <2>3, <2>4
<1>13. CASE probe_hook
  <2>1. PICK r \in Hook("probe") :
          \/ /\ r = "OK"
             /\ Goto(To("post"))
             /\ running' = running \cup {Top.dev}
             /\ UNCHANGED <<bound, activated, plat_valid, priv, board>>
          \/ r # "OK" /\ ProbeFails(r)
    BY <1>13 DEF probe_hook
  <2>2. Top.pc = "hook" /\ BeforeRun(Top) /\ Starting(Top)
    BY <1>1, <1>13 DEF probe_hook, At, BeforeRun, Starting
  <2>3. CASE r # "OK"
    <3>1. Fails(board)
      BY <2>1, <2>3, HooksSucceed DEF ProbeHooks
    <3> QED BY <1>6, <1>8, <2>1, <2>2, <2>3, <3>1
  <2>4. CASE r = "OK"
    <3> DEFINE f == To("post")
    <3>1. f \in Frames /\ f.fn = Top.fn /\ f.dev = d /\ f.pc = "post"
      BY <1>1, FrameTypes DEF Pcs
    <3>2. /\ running' = running \cup {d} /\ UNCHANGED <<activated, plat_valid, priv>>
          /\ stack' = <<f>> \o Tail(stack)
      BY <2>1, <2>4 DEF Goto
    <3> HIDE DEF f
    <3>3. d \in activated
      BY <1>2, <2>2 DEF FrameOK, ProbeOK
    <3>4. FrameOK(f, board, activated, plat_valid, priv, running')
      BY <1>1, <1>2, <2>2, <3>1, <3>2 DEF FrameOK, ProbeOK, RemoveOK, FailOK, Starting, Failed
    <3>5. TopOK(f, board, activated, plat_valid, running', retv')
      BY <1>1, <3>1 DEF TopOK, Failed
    <3>6. DataInv'
      BY <1>4, <3>2, <3>3 DEF DataInv, ActiveParents
    <3>7. \A i \in 2..Len(stack) : FrameOK(stack[i], board, activated', plat_valid', priv', running')
      BY <1>1, <2>2, <3>2, BelowRun
    <3>8. activated' \ running' \subseteq (activated \ running) \cup {f.dev}
          /\ f.dev \notin activated' \ running'
      BY <3>1, <3>2
    <3> QED BY <1>1, <1>3, <2>2, <3>1, <3>2, <3>4, <3>5, <3>6, <3>7, <3>8, ProberGoesOn
  <2> QED BY <2>3, <2>4
<1>14. CASE probe_post
  <2>1. PICK r \in Hook("post_probe") :
          IF r = "OK" THEN Return("OK")
          ELSE Call(ToRet("fail_uclass", r), "device_remove", d, {"NORMAL"})
    BY <1>14 DEF probe_post
  <2>2. Top.pc = "post" /\ ~BeforeRun(Top) /\ Starting(Top) /\ UNCHANGED devstate
    BY <1>1, <1>14 DEF probe_post, At, BeforeRun, Starting
  <2>3. d \in activated
    BY <1>2, <2>2 DEF FrameOK, ProbeOK
  <2>4. CASE r = "OK"
    <3>1. stack' = Tail(stack) /\ retv' = "OK"
      BY <2>1, <2>4 DEF Return
    <3> QED BY <1>1, <1>2, <1>3, <1>5, <2>2, <2>3, <3>1, ProberReturns DEF devstate
  <2>5. CASE r # "OK"
    <3>1. Fails(board)
      BY <2>1, <2>5, HooksSucceed DEF ProbeHooks
    <3>2. r \in Codes /\ {"NORMAL"} \in SUBSET RemoveFlags
      BY HookCodes DEF RemoveFlags
    <3> DEFINE f == ToRet("fail_uclass", r)
               g == Frame("device_remove", d, {"NORMAL"})
    <3>3. /\ f \in Frames /\ f.fn = Top.fn /\ f.dev = d /\ f.pc = "fail_uclass" /\ f.ret = r
      BY <1>1, <3>2, FrameTypes DEF Pcs
    <3>4. g \in Frames /\ IsEntry(g)
      BY <1>1, <3>2, FrameTypes DEF Functions
    <3>5. stack' = <<g, f>> \o Tail(stack) /\ retv' = retv
      BY <2>1, <2>5 DEF Call
    <3> HIDE DEF f, g
    <3>6. KidsIn(activated, d) = {}
      BY <1>2, <2>2, <3>1 DEF FrameOK, FailOK
    <3>7. FrameOK(f, board, activated, plat_valid, priv, running) /\ ~Starting(f)
      BY <1>1, <2>5, <3>1, <3>3, <3>6 DEF FrameOK, ProbeOK, RemoveOK, FailOK, Starting, Failed
    <3> QED BY <1>1, <1>3, <2>2, <2>3, <3>3, <3>4, <3>5, <3>7, ProberCalls DEF devstate
  <2> QED BY <2>4, <2>5
<1>15. CASE probe_fail_uclass
  <2>1. Failed(Top) /\ ProbeFails(Top.ret)
    BY <1>1, <1>15 DEF probe_fail_uclass, At, Failed
  <2>2. Top.ret # "OK" /\ Fails(board) /\ d \notin running
    BY <1>2, <2>1 DEF FrameOK, FailOK, TopOK
  <2>3. KidsIn(activated, d) = {}
    BY <1>2, <2>1, <2>2 DEF FrameOK, FailOK
  <2> QED BY <1>6, <2>1, <2>2, <2>3
<1> QED BY <1>9, <1>10, <1>11, <1>12, <1>13, <1>14, <1>15 DEF probe_step

\* A hook that probes keeps the order of activation.
LEMMA ActiveHook ==
  ASSUME RemoveProbesNothing, TypeOK, Shape, Layered, ActiveInv, HookProbes
  PROVE  ActiveInv'
<1>1. PICK t \in bound : /\ <<Top.fn, Top.dev, t>> \in board.uses
                         /\ Call(ToNested, "device_probe", t, {})
  BY DEF HookProbes
<1>2. stack # <<>> /\ Top.pc \in {"pre", "hook", "post"} /\ t \in Devices /\ UNCHANGED <<devstate, board>>
  BY DEF HookProbes, TypeOK
<1>3. Top.fn \in {"device_of_to_plat", "device_probe", "device_remove"}
  BY <1>1, BoardAssumption DEF BoardType, TypeOK
<1>4. Top.fn \in Probers
  BY <1>1, <1>2, <1>3, TopFields DEF RemoveProbesNothing, Probers, TypeOK
<1>5. stack[1] = Top /\ 1 \in 1..Len(stack)
  BY <1>2, Pops DEF TypeOK, Top
<1> DEFINE f == ToNested
           g == Frame("device_probe", t, {})
<1>6. /\ f \in Frames /\ f.fn = Top.fn /\ f.dev = Top.dev /\ f.pc = Top.pc /\ f.ret = Top.ret
      /\ f.flags = Top.flags /\ f.kids = Top.kids
  BY <1>2, FrameTypes
<1>7. g \in Frames /\ IsEntry(g)
  BY <1>2, FrameTypes DEF Functions
<1>8. stack' = <<g, f>> \o Tail(stack) /\ retv' = retv
  BY <1>1 DEF Call
<1> HIDE DEF f, g
<1>9. FrameOK(Top, board, activated, plat_valid, priv, running)
  BY <1>5 DEF ActiveInv, FrameInv
<1>10. FrameOK(f, board, activated, plat_valid, priv, running)
  BY <1>6, <1>9 DEF FrameOK, ProbeOK, RemoveOK, FailOK, Starting, Failed, Removable
<1>11. ~Failed(f) /\ (BeforeRun(Top) => BeforeRun(f)) /\ (Starting(f) => Starting(Top))
  BY <1>2, <1>6 DEF Failed, BeforeRun, Starting
<1> QED BY <1>2, <1>4, <1>5, <1>6, <1>7, <1>8, <1>10, <1>11, ProberCalls DEF devstate

\* The removal of a device whose post-probe hooks failed
LEMMA FailedBelow ==
  ASSUME TypeOK, Shape, ActiveInv, stack # <<>>
  PROVE  /\ 2 \in 1..Len(stack) /\ Failed(stack[2]) =>
              /\ stack[2].dev = stack[1].dev /\ stack[1].flags = {"NORMAL"} /\ stack[1].ret = "OK"
              /\ Fails(board) /\ KidsIn(activated, stack[1].dev) = {} /\ stack[1].dev \in activated
              /\ stack[1].pc = "child_done" => retv = "OK"
         /\ 3 \in 1..Len(stack) /\ Failed(stack[3]) =>
              Fails(board) /\ stack[1].pc = "entry" /\ stack[1].dev \notin activated
<1>1. ASSUME 2 \in 1..Len(stack), Failed(stack[2])
      PROVE  /\ stack[2].dev = stack[1].dev /\ stack[1].flags = {"NORMAL"} /\ stack[1].ret = "OK"
             /\ Fails(board) /\ KidsIn(activated, stack[1].dev) = {} /\ stack[1].dev \in activated
             /\ stack[1].pc = "child_done" => retv = "OK"
  <2>1. 2 \in 2..Len(stack)
    BY <1>1
  <2>2. Calls(board, stack[2], stack[2 - 1])
    BY <2>1 DEF Shape, Linked
  <2>3. stack[2].dev = stack[1].dev /\ stack[1].flags = {"NORMAL"}
    BY <1>1, <2>2 DEF Calls, Failed
  <2>4. FrameOK(stack[2], board, activated, plat_valid, priv, running)
    BY <1>1 DEF ActiveInv, FrameInv
  <2>5. Fails(board) /\ KidsIn(activated, stack[2].dev) = {}
    BY <1>1, <2>4 DEF FrameOK, FailOK
  <2>6. Waits(stack[2], stack[2 - 1], board, activated)
    BY <2>1 DEF ActiveInv, WaitInv
  <2>7. stack[1].ret = "OK" /\ stack[2].dev \in activated
    BY <1>1, <2>6 DEF Waits
  <2>8. stack[1].pc = "child_done" => retv = "OK"
    BY <1>1 DEF ActiveInv, WaitInv
  <2> QED BY <2>3, <2>5, <2>7, <2>8
<1>2. ASSUME 3 \in 1..Len(stack), Failed(stack[3])
      PROVE  Fails(board) /\ stack[1].pc = "entry" /\ stack[1].dev \notin activated
  BY <1>2 DEF ActiveInv, WaitInv, FrameInv, FrameOK, FailOK
<1> QED BY <1>1, <1>2

\* device_remove() returns.
LEMMA RemoveReturns ==
  ASSUME TypeOK, Shape, Layered, ActiveInv, stack # <<>>, stack[1].fn = "device_remove",
         stack' = Tail(stack), board' = board, DataInv',
         \A i \in 2..Len(stack) : FrameOK(stack[i], board, activated', plat_valid', priv', running'),
         \A i \in 3..Len(stack) : Waits(stack[i], stack[i - 1], board, activated'),
         activated' \ running' \subseteq activated \ running,
         3 \in 1..Len(stack) /\ Failed(stack[3]) => retv' = "OK",
         2 \in 1..Len(stack) /\ Failed(stack[2]) => stack[1].dev \notin running',
         2 \in 1..Len(stack) /\ stack[2].fn = "device_remove" /\ stack[2].pc = "child_done"
           /\ Removable(board, stack[2]) /\ retv' \notin {"ERR", "EPROBE_DEFER"} =>
             KidsIn(activated', stack[2].dev) \subseteq stack[2].kids
  PROVE  ActiveInv'
<1>1. ASSUME 2 \in 1..Len(stack)
      PROVE  TopOK(stack[2], board, activated', plat_valid', running', retv')
  <2>1. 2 \in 2..Len(stack)
    BY <1>1
  <2>2. Calls(board, stack[2], stack[2 - 1])
    BY <2>1 DEF Shape, Linked
  <2>3. stack[2].fn \in Probers => Failed(stack[2])
    BY <2>2 DEF Calls, Probers, Failed
  <2>4. Failed(stack[2]) => stack[2].dev \notin running'
    BY <1>1, FailedBelow
  <2>5. stack[2].fn \in Probers => stack[2].pc = "fail_uclass"
    BY <2>3 DEF Failed
  <2> QED BY <1>1, <2>4, <2>5 DEF TopOK, Probers
<1>2. ~BeforeRun(stack[1])
  BY DEF BeforeRun
<1> QED BY <1>1, <1>2, ActiveReturns

\* A removal that fails is not that of a device whose post-probe hooks failed.
LEMMA RemoveFails ==
  ASSUME TypeOK, Shape, Layered, ActiveInv, stack # <<>>, stack[1].fn = "device_remove",
         stack' = Tail(stack), UNCHANGED <<devstate, board>>,
         2 \in 1..Len(stack) => ~Failed(stack[2]), 3 \in 1..Len(stack) => ~Failed(stack[3]),
         \/ retv' \in {"ERR", "EPROBE_DEFER"}
         \/ 2 \in 1..Len(stack) /\ stack[2].fn = "device_remove" /\ stack[2].pc = "child_done" =>
              ~Removable(board, stack[2])
  PROVE  ActiveInv'
<1>1. DataInv' /\ activated' = activated /\ plat_valid' = plat_valid /\ priv' = priv /\ running' = running
  BY DEF ActiveInv, DataInv, ActiveParents, devstate
<1>2. \A i \in 2..Len(stack) : FrameOK(stack[i], board, activated, plat_valid, priv, running)
  BY DEF ActiveInv, FrameInv
<1>3. \A i \in 3..Len(stack) : Waits(stack[i], stack[i - 1], board, activated)
  BY DEF ActiveInv, WaitInv
<1> QED BY <1>1, <1>2, <1>3, RemoveReturns

\* Where remove() fails, no probe does.
LEMMA RemoveHooks ==
  ASSUME Layered, TypeOK
  PROVE  \A r \in Hook("remove") : r \in {"OK", "ERR"} /\ (r # "OK" => ~Fails(board))
BY DEF Hook, Layered, Fails, TypeOK

\* device_remove() goes on.
LEMMA RemoveGoesOn ==
  ASSUME TypeOK, Shape, Layered, ActiveInv, stack # <<>>, stack[1].fn = "device_remove",
         NEW f \in Frames, stack' = <<f>> \o Tail(stack), f.fn = "device_remove", f.dev = stack[1].dev,
         UNCHANGED <<devstate, board>>, RemoveOK(f, board, activated), f.pc \in {"children", "hook"},
         2 \in 1..Len(stack) /\ Failed(stack[2]) => f.ret = "OK",
         3 \in 1..Len(stack) => ~Failed(stack[3])
  PROVE  ActiveInv'
<1>1. DataInv' /\ activated' = activated /\ plat_valid' = plat_valid /\ priv' = priv /\ running' = running
  BY DEF ActiveInv, DataInv, ActiveParents, devstate
<1>2. \A i \in 2..Len(stack) : FrameOK(stack[i], board, activated, plat_valid, priv, running)
  BY DEF ActiveInv, FrameInv
<1>3. \A i \in 3..Len(stack) : Waits(stack[i], stack[i - 1], board, activated)
  BY DEF ActiveInv, WaitInv
<1>4. ASSUME 2 \in 1..Len(stack) PROVE Waits(stack[2], f, board, activated)
  <2>1. 2 \in 2..Len(stack)
    BY <1>4
  <2>2. Waits(stack[2], stack[2 - 1], board, activated)
    BY <2>1 DEF ActiveInv, WaitInv
  <2> QED BY <1>4, <2>2 DEF Waits
<1>5. FrameOK(f, board, activated, plat_valid, priv, running)
  BY DEF FrameOK, ProbeOK, FailOK, Starting, Failed
<1>6. TopOK(f, board, activated, plat_valid, running, retv')
  BY DEF TopOK, Failed, Probers
<1>7. ~Starting(f) /\ ~BeforeRun(stack[1])
  BY DEF Starting, BeforeRun
<1>8. activated \ running \subseteq (activated \ running) \cup {f.dev}
  OBVIOUS
<1> QED BY <1>1, <1>2, <1>3, <1>4, <1>5, <1>6, <1>7, <1>8, ActiveGoesOn

\* device_remove() keeps the order of activation.
LEMMA ActiveRemove ==
  ASSUME TypeOK, Shape, Layered, TreeInv, ActiveInv, remove_step
  PROVE  ActiveInv'
<1> DEFINE d == Top.dev
<1>1. /\ stack # <<>> /\ stack[1] = Top /\ Top.fn = "device_remove" /\ 1 \in 1..Len(stack)
      /\ d \in Devices /\ Top \in Frames
  <2>1. stack # <<>> /\ Top.fn = "device_remove"
    BY DEF remove_step, remove_entry, remove_child, remove_child_done, remove_children_done,
       remove_hook, At
  <2> QED BY <2>1, Pops, TopFields DEF TypeOK, Top
<1>2. /\ RemoveOK(Top, board, activated)
      /\ TopOK(Top, board, activated, plat_valid, running, retv)
  BY <1>1 DEF ActiveInv, FrameInv, FrameOK, TopInv
<1>3. board' = board
  BY RemoveShape
<1>4. DataInv /\ activated \subseteq bound
  BY DEF ActiveInv, TreeInv, TreeIntact
<1>5. Top.ret \in {"OK", "EPROBE_DEFER"}
  BY <1>1, <1>2 DEF RemoveOK
<1>6. Top.pc # "entry" => (3 \in 1..Len(stack) => ~Failed(stack[3]))
  BY <1>1, FailedBelow
<1>7. ASSUME 2 \in 1..Len(stack)
      PROVE  Calls(board, stack[2], stack[1]) /\ Waits(stack[2], stack[1], board, activated)
  <2>1. 2 \in 2..Len(stack)
    BY <1>7
  <2>2. Calls(board, stack[2], stack[2 - 1]) /\ Waits(stack[2], stack[2 - 1], board, activated)
    BY <2>1 DEF Shape, Linked, ActiveInv, WaitInv
  <2> QED BY <2>2
\* A hook fails
<1>8. ASSUME NEW r \in Hook("remove"), r # "OK", Return(r), UNCHANGED <<devstate, board>>
      PROVE  ActiveInv'
  <2>1. retv' = "ERR" /\ stack' = Tail(stack) /\ ~Fails(board)
    BY <1>8, RemoveHooks DEF Return
  <2>2. /\ 2 \in 1..Len(stack) => ~Failed(stack[2])
        /\ 3 \in 1..Len(stack) => ~Failed(stack[3])
    BY <1>1, <2>1, FailedBelow
  <2> QED BY <1>1, <1>8, <2>1, <2>2, RemoveFails
<1>9. CASE remove_entry
  <2>1. UNCHANGED <<devstate, board>>
    BY <1>9 DEF remove_entry
  <2>2. CASE d \notin activated
    <3>1. stack' = Tail(stack) /\ retv' = "OK"
      BY <1>9, <2>2 DEF remove_entry, Return
    <3>2. DataInv' /\ activated' = activated /\ plat_valid' = plat_valid /\ priv' = priv /\ running' = running
      BY <1>4, <2>1 DEF DataInv, ActiveParents, devstate
    <3>3. \A i \in 2..Len(stack) : FrameOK(stack[i], board, activated, plat_valid, priv, running)
      BY DEF ActiveInv, FrameInv
    <3>4. \A i \in 3..Len(stack) : Waits(stack[i], stack[i - 1], board, activated)
      BY DEF ActiveInv, WaitInv
    <3>5. d \notin running
      BY <1>4, <2>2 DEF DataInv
    <3>6. ASSUME 2 \in 1..Len(stack), stack[2].fn = "device_remove", stack[2].pc = "child_done",
                 Removable(board, stack[2])
          PROVE  KidsIn(activated, stack[2].dev) \subseteq stack[2].kids
      <4>1. KidsIn(activated, stack[2].dev) \subseteq stack[2].kids \cup {d}
        BY <1>1, <1>7, <3>6 DEF Waits
      <4> QED BY <2>2, <4>1 DEF KidsIn
    <3> QED BY <1>1, <1>3, <3>1, <3>2, <3>3, <3>4, <3>5, <3>6, RemoveReturns
  <2>3. CASE d \in activated
    <3>1. PICK r \in Hook("remove") :
            IF r = "OK" THEN Goto(ToKids("children", Children(d))) ELSE Return(r)
      BY <1>9, <2>3 DEF remove_entry
    <3>2. CASE r # "OK"
      BY <1>8, <2>1, <3>1, <3>2
    <3>3. CASE r = "OK"
      <4> DEFINE f == ToKids("children", Children(d))
      <4>1. stack' = <<f>> \o Tail(stack)
        BY <3>1, <3>3 DEF Goto
      <4>2. Children(d) \in SUBSET Devices
        BY DEF Children, TypeOK
      <4>3. /\ f \in Frames /\ f.fn = "device_remove" /\ f.dev = d /\ f.pc = "children"
            /\ f.kids = Children(d) /\ f.ret = Top.ret
        BY <1>1, <4>2, FrameTypes DEF Pcs
      <4> HIDE DEF f
      <4>4. KidsIn(activated, d) \subseteq Children(d)
        BY <1>4 DEF KidsIn, Children
      <4>5. RemoveOK(f, board, activated)
        BY <1>5, <2>3, <4>3, <4>4 DEF RemoveOK
      <4>6. /\ 2 \in 1..Len(stack) /\ Failed(stack[2]) => f.ret = "OK"
            /\ 3 \in 1..Len(stack) => ~Failed(stack[3])
        BY <1>1, <2>3, <4>3, FailedBelow
      <4> QED BY <1>1, <2>1, <4>1, <4>3, <4>5, <4>6, RemoveGoesOn
    <3> QED BY <3>2, <3>3
  <2> QED BY <2>2, <2>3
<1>10. CASE remove_child
  <2>1. PICK k \in Top.kids :
          Call(ToKids("child_done", Top.kids \ {k}), "device_remove", k, ChildFlags(Top))
    BY <1>10 DEF remove_child
  <2>2. /\ k \in Devices /\ Top.kids \ {k} \in SUBSET Devices /\ ChildFlags(Top) \in SUBSET RemoveFlags
        /\ UNCHANGED <<devstate, board>> /\ Top.pc = "children"
    BY <1>1, <1>10, TopFields DEF ChildFlags, remove_child, At
  <2> DEFINE f == ToKids("child_done", Top.kids \ {k})
             g == Frame("device_remove", k, ChildFlags(Top))
  <2>3. /\ f \in Frames /\ f.fn = "device_remove" /\ f.dev = d /\ f.flags = Top.flags
        /\ f.pc = "child_done" /\ f.kids = Top.kids \ {k} /\ f.ret = Top.ret
        /\ g \in Frames /\ g.dev = k /\ IsEntry(g)
    BY <1>1, <2>2, FrameTypes DEF Functions, Pcs
  <2>4. stack' = <<g, f>> \o Tail(stack) /\ retv' = retv
    BY <2>1 DEF Call
  <2> HIDE DEF f, g
  <2>5. d \in activated /\ (Removable(board, f) => KidsIn(activated, d) \subseteq Top.kids)
    BY <1>1, <1>2, <2>2, <2>3 DEF RemoveOK, Removable
  <2>6. FrameOK(f, board, activated, plat_valid, priv, running)
    BY <1>5, <2>3, <2>5 DEF FrameOK, ProbeOK, RemoveOK, FailOK, Starting, Failed
  <2>7. Waits(f, g, board, activated)
    BY <2>3, <2>5 DEF Waits, Failed
  <2>8. 2 \in 1..Len(stack) => Waits(stack[2], f, board, activated)
    BY <1>1, <1>7, <2>3 DEF Waits
  <2>9. ASSUME 2 \in 1..Len(stack), Failed(stack[2]) PROVE g.dev \notin activated
    <3>1. k # Root /\ ParentOf[k] = d
      BY <1>1, <2>1 DEF Shape, Linked, KidsOK
    <3>2. KidsIn(activated, d) = {}
      BY <1>1, <2>9, FailedBelow
    <3> QED BY <2>3, <3>1, <3>2 DEF KidsIn
  <2>10. ~BeforeRun(stack[1]) /\ ~Starting(f)
    BY <1>1, <2>3 DEF BeforeRun, Starting
  <2>11. 3 \in 1..Len(stack) => ~Failed(stack[3])
    BY <1>6, <2>2
  <2> QED BY <1>1, <2>2, <2>3, <2>4, <2>6, <2>7, <2>8, <2>9, <2>10, <2>11, ActiveCalls DEF devstate
<1>11. CASE remove_child_done
  <2>1. UNCHANGED <<devstate, board>> /\ Top.pc = "child_done"
    BY <1>11 DEF remove_child_done, At
  <2>2. 3 \in 1..Len(stack) => ~Failed(stack[3])
    BY <1>6, <2>1
  <2>3. 2 \in 1..Len(stack) /\ Failed(stack[2]) => retv = "OK" /\ Top.ret = "OK"
    BY <1>1, <2>1, FailedBelow
  <2>4. CASE retv = "ERR"
    <3>1. stack' = Tail(stack) /\ retv' = "ERR"
      BY <1>11, <2>4 DEF remove_child_done, Return
    <3> QED BY <1>1, <2>1, <2>2, <2>3, <2>4, <3>1, RemoveFails
  <2>5. CASE retv # "ERR"
    <3> DEFINE r == IF retv = "EPROBE_DEFER" THEN retv ELSE Top.ret
               f == ToRet("children", r)
    <3>1. r \in Codes /\ r \in {"OK", "EPROBE_DEFER"}
      BY <1>5 DEF Codes
    <3>2. /\ f \in Frames /\ f.fn = "device_remove" /\ f.dev = d /\ f.pc = "children"
          /\ f.kids = Top.kids /\ f.ret = r /\ f.flags = Top.flags
      BY <1>1, <3>1, FrameTypes DEF Pcs
    <3>3. stack' = <<f>> \o Tail(stack)
      BY <1>11, <2>5 DEF remove_child_done, Goto
    <3>4. r = "OK" => retv # "EPROBE_DEFER" /\ Top.ret = "OK"
      OBVIOUS
    <3>5. 2 \in 1..Len(stack) /\ Failed(stack[2]) => r = "OK"
      BY <2>3
    <3> HIDE DEF f, r
    <3>6. Removable(board, f) => KidsIn(activated, d) \subseteq f.kids
      BY <1>1, <1>2, <2>1, <2>5, <3>2, <3>4 DEF TopOK, Removable
    <3>7. d \in activated
      BY <1>1, <1>2, <2>1 DEF RemoveOK
    <3>8. RemoveOK(f, board, activated)
      BY <3>1, <3>2, <3>6, <3>7 DEF RemoveOK
    <3> QED BY <1>1, <2>1, <2>2, <3>2, <3>3, <3>5, <3>8, RemoveGoesOn
  <2> QED BY <2>4, <2>5
<1>12. CASE remove_children_done
  <2> DEFINE cret == flags_remove(Top.flags, board.drvflags[d])
  <2>1. UNCHANGED <<devstate, board>> /\ Top.pc = "children" /\ Top.kids = {}
        /\ IF Top.ret # "OK" THEN Return(Top.ret)
           ELSE IF cret # "OK" THEN Return(cret) ELSE Goto(To("hook"))
    BY <1>12 DEF remove_children_done, At
  <2>2. 3 \in 1..Len(stack) => ~Failed(stack[3])
    BY <1>6, <2>1
  <2>3. CASE Top.ret # "OK"
    <3>1. stack' = Tail(stack) /\ retv' = "EPROBE_DEFER"
      BY <1>5, <2>1, <2>3 DEF Return
    <3>2. 2 \in 1..Len(stack) => ~Failed(stack[2])
      BY <1>1, <2>3, FailedBelow
    <3> QED BY <1>1, <2>1, <2>2, <3>1, <3>2, RemoveFails
  <2>4. CASE Top.ret = "OK" /\ cret # "OK"
    <3>1. stack' = Tail(stack) /\ retv' = cret
      BY <2>1, <2>4 DEF Return
    <3>2. 2 \in 1..Len(stack) => ~Failed(stack[2])
      <4>1. Top.flags = {"NORMAL"} => cret = "OK"
        BY DEF flags_remove
      <4> QED BY <1>1, <2>4, <4>1, FailedBelow
    <3>3. cret \in {"EPROBE_DEFER", "EKEYREJECTED"}
          /\ (cret = "EKEYREJECTED" => "ACTIVE" \in Top.flags)
      BY <2>4 DEF flags_remove
    <3>4. ASSUME cret = "EKEYREJECTED", 2 \in 1..Len(stack), stack[2].fn = "device_remove",
                 stack[2].pc = "child_done"
          PROVE  ~Removable(board, stack[2])
      <4>1. stack[1].flags = FlagsPassed(board, stack[2])
        BY <1>7, <3>4 DEF Calls, Probers
      <4> QED BY <1>1, <3>3, <3>4, <4>1 DEF FlagsPassed, Removable
    <3> HIDE DEF cret
    <3> QED BY <1>1, <2>1, <2>2, <3>1, <3>2, <3>3, <3>4, RemoveFails
  <2>5. CASE Top.ret = "OK" /\ cret = "OK"
    <3> DEFINE f == To("hook")
    <3>1. f \in Frames /\ f.fn = "device_remove" /\ f.dev = d /\ f.pc = "hook" /\ f.ret = "OK"
      BY <1>1, <2>5, FrameTypes DEF Pcs
    <3>2. stack' = <<f>> \o Tail(stack)
      BY <2>1, <2>5 DEF Goto
    <3> HIDE DEF f
    <3>3. Removable(board, Top)
      BY <2>5 DEF Removable
    <3>4. d \in activated /\ KidsIn(activated, d) = {}
      BY <1>1, <1>2, <2>1, <3>3 DEF RemoveOK
    <3>5. RemoveOK(f, board, activated)
      BY <3>1, <3>4 DEF RemoveOK
    <3> QED BY <1>1, <2>1, <2>2, <3>1, <3>2, <3>5, RemoveGoesOn
  <2> QED BY <2>3, <2>4, <2>5
<1>13. CASE remove_hook
  <2>1. PICK r1 \in Hook("remove"), r2 \in Hook("remove") :
          \/ r1 # "OK" /\ Return(r1) /\ UNCHANGED <<devstate, board>>
          \/ /\ r1 = "OK" /\ Return(r2) /\ running' = running \ {d} /\ device_free(d)
             /\ activated' = activated \ {d}
    BY <1>13 DEF remove_hook
  <2>2. CASE r1 # "OK"
    BY <1>8, <2>1, <2>2
  <2>3. CASE r1 = "OK"
    <3>1. /\ stack' = Tail(stack) /\ running' = running \ {d} /\ activated' = activated \ {d}
          /\ plat_valid' = plat_valid \ {d} /\ priv' = priv \ {d}
      BY <2>1, <2>3 DEF Return, device_free
    <3>2. Top.pc = "hook" /\ KidsIn(activated, d) = {}
      BY <1>1, <1>2, <1>13 DEF remove_hook, At, RemoveOK
    <3>3. DataInv'
      BY <1>4, <3>1, <3>2 DEF DataInv, ActiveParents, KidsIn
    <3>4. \A i \in 2..Len(stack) : FrameOK(stack[i], board, activated', plat_valid', priv', running')
      BY <1>1, <3>1, <3>2, BelowDeactivate
    <3>5. 3 \in 1..Len(stack) => ~Failed(stack[3])
      BY <1>6, <3>2
    <3>6. ASSUME NEW i \in 3..Len(stack) PROVE Waits(stack[i], stack[i - 1], board, activated')
      <4>1. ~Failed(stack[i])
        <5>1. Failed(stack[i]) => i <= 3
          BY DEF ActiveInv, WaitInv
        <5>2. i = 3 => ~Failed(stack[i])
          BY <3>5
        <5> QED BY <5>1, <5>2
      <4>2. Waits(stack[i], stack[i - 1], board, activated)
        BY DEF ActiveInv, WaitInv
      <4> QED BY <3>1, <4>1, <4>2 DEF Waits, KidsIn
    <3>7. ASSUME 2 \in 1..Len(stack), stack[2].fn = "device_remove", stack[2].pc = "child_done",
                 Removable(board, stack[2])
          PROVE  KidsIn(activated', stack[2].dev) \subseteq stack[2].kids
      <4>1. KidsIn(activated, stack[2].dev) \subseteq stack[2].kids \cup {d}
        BY <1>1, <1>7, <3>7 DEF Waits
      <4> QED BY <3>1, <4>1 DEF KidsIn
    <3>8. activated' \ running' \subseteq activated \ running /\ d \notin running'
      BY <3>1
    <3> QED BY <1>1, <1>3, <3>1, <3>3, <3>4, <3>5, <3>6, <3>7, <3>8, RemoveReturns
  <2> QED BY <2>2, <2>3
<1> QED BY <1>9, <1>10, <1>11, <1>12, <1>13 DEF remove_step

\* A stack that binds or unbinds stays one.
LEMMA BindersStay ==
  ASSUME RemoveProbesNothing, Layered, TypeOK, Shape, stack # <<>>, Top.fn \in Binders, StackStep
  PROVE  /\ \A i \in 1..Len(stack) : stack[i].fn \in Binders
         /\ \A i \in 1..Len(stack') : stack'[i].fn \in Binders
<1>1. Top = stack[1] /\ 1 \in 1..Len(stack) /\ Len(stack) \in Nat /\ stack \in Seq(Frames) /\ Top \in Frames
  BY Pops DEF TypeOK, Top
<1>2. \A i \in 1..Len(stack) : stack[i].fn \in Binders
  <2>1. \A i \in 1..Len(stack) : Kind(stack[i]) = Kind(stack[1])
    BY <1>1 DEF Shape, Uniform
  <2> QED BY <1>1, <2>1 DEF Kind, Binders
<1>3. CASE stack' = Tail(stack)
  <2>1. Len(stack') = Len(stack) - 1 /\ \A i \in 1..Len(stack') : stack'[i] = stack[i + 1] /\ i + 1 \in 1..Len(stack)
    BY <1>1, <1>3, Pops
  <2> QED BY <1>2, <2>1
<1>4. CASE \E f \in Frames : stack' = <<f>> \o Tail(stack) /\ Continues(f)
  <2>1. PICK f \in Frames : stack' = <<f>> \o Tail(stack) /\ Continues(f)
    BY <1>4
  <2>2. /\ Len(stack') = Len(stack) /\ stack'[1] = f
        /\ \A i \in 2..Len(stack) : stack'[i] = stack[i]
    BY <1>1, <2>1, Replaces
  <2>3. f.fn \in Binders
    BY <2>1 DEF Continues
  <2> QED BY <1>1, <1>2, <2>2, <2>3
<1>5. CASE \E f, g \in Frames :
             stack' = <<g, f>> \o Tail(stack) /\ Continues(f) /\ IsEntry(g)
             /\ f.pc # "entry" /\ (RemoveProbesNothing /\ KidsOK(Top) => Calls(board, f, g))
  <2>1. KidsOK(Top)
    BY <1>1 DEF Shape, Linked
  <2>2. PICK f \in Frames, g \in Frames :
          stack' = <<g, f>> \o Tail(stack) /\ Continues(f) /\ Calls(board, f, g)
    BY <1>5, <2>1
  <2>3. /\ Len(stack') = Len(stack) + 1 /\ stack'[1] = g /\ stack'[2] = f
        /\ \A i \in 3..Len(stack') : stack'[i] = stack[i - 1] /\ i - 1 \in 1..Len(stack)
    BY <1>1, <2>2, Pushes
  <2>4. f.fn \in Binders
    BY <2>2 DEF Continues
  <2>5. g.fn \in Binders
    BY <2>2, <2>4 DEF Calls, Binders, Probers
  <2> QED BY <1>1, <1>2, <2>3, <2>4, <2>5
<1> QED BY <1>2, <1>3, <1>4, <1>5 DEF StackStep

\* Binding and unbinding do not disturb the order of activation.
LEMMA ActiveBinders ==
  ASSUME RemoveProbesNothing, Layered, TypeOK, Shape, ActiveInv, unbind_step \/ bind_step
  PROVE  ActiveInv'
<1>1. stack # <<>> /\ Top.fn \in Binders
  BY DEF unbind_step, unbind_entry, unbind_child, unbind_child_done, unbind_children_done,
     bind_step, bind_entry, bind_child, bind_hook, At, Binders
<1>2. StackStep /\ board' = board /\ UNCHANGED <<activated, running, plat_valid, priv>>
  BY UnbindShape, BindShape
<1>3. /\ \A i \in 1..Len(stack) : stack[i].fn \in Binders
      /\ \A i \in 1..Len(stack') : stack'[i].fn \in Binders
  BY <1>1, <1>2, BindersStay
<1>4. stack' \in Seq(Frames)
  BY <1>2, StackTyped
<1>5. DataInv'
  BY <1>2 DEF ActiveInv, DataInv, ActiveParents
<1>6. activated \ running = {}
  BY <1>3 DEF ActiveInv, StartInv, BeforeRun, Binders
<1>7. StartInv'
  BY <1>2, <1>3, <1>6 DEF StartInv, Starting, Binders
<1>8. FrameInv'
  BY <1>3 DEF FrameInv, FrameOK, ProbeOK, RemoveOK, FailOK, Starting, Failed, Binders
<1>9. WaitInv'
  <2>1. \A i \in 2..Len(stack') : ~Failed(stack'[i]) /\ stack'[i].fn # "device_remove"
    BY <1>3 DEF Failed, Binders
  <2>2. \A i \in 2..Len(stack') : Waits(stack'[i], stack'[i - 1], board', activated')
    BY <2>1 DEF Waits
  <2>3. (2 \in 1..Len(stack') => 2 \in 2..Len(stack')) /\ (3 \in 1..Len(stack') => 3 \in 2..Len(stack'))
    OBVIOUS
  <2> QED BY <2>1, <2>2, <2>3 DEF WaitInv
<1>10. TopInv'
  <2>1. stack' # <<>> => stack'[1].fn \in Binders
    BY <1>3, <1>4, Pops
  <2> QED BY <2>1 DEF TopInv, TopOK, Failed, Binders, Probers
<1> QED BY <1>5, <1>7, <1>8, <1>9, <1>10 DEF ActiveInv

\* A call from outside finds every active device running.
LEMMA ActiveInvoke ==
  ASSUME TypeOK, ActiveInv,
         device_probe \/ device_remove \/ device_unbind \/ device_bind \/ dm_remove_devices_active
  PROVE  ActiveInv'
<1>1. StackStep /\ UNCHANGED <<devstate, board, retv>>
  BY CallShape
<1>2. stack = <<>>
  BY DEF device_probe, device_remove, device_unbind, device_bind, dm_remove_devices_active, Invoke
<1>3. \A i \in 1..Len(stack') : stack'[i] \in Frames /\ IsEntry(stack'[i])
  <2>1. CASE \E g \in Frames : stack' = <<g>> /\ IsEntry(g)
    BY <2>1
  <2>2. CASE \E f, g \in Frames : stack' = <<g, f>> /\ IsEntry(f) /\ IsEntry(g)
    <3>1. PICK f \in Frames, g \in Frames : stack' = <<g, f>> /\ IsEntry(f) /\ IsEntry(g)
      BY <2>2
    <3>2. Len(stack') = 2 /\ stack'[1] = g /\ stack'[2] = f
      BY <3>1
    <3> QED BY <3>1, <3>2
  <2> QED BY <1>1, <1>2, <2>1, <2>2 DEF StackStep
<1>4. stack' \in Seq(Frames)
  BY <1>1, StackTyped
<1>5. DataInv'
  BY <1>1 DEF ActiveInv, DataInv, ActiveParents, devstate
<1>6. activated \ running = {}
  <2>1. Len(stack) = 0
    BY <1>2
  <2> QED BY <2>1 DEF ActiveInv, StartInv
<1>7. StartInv'
  BY <1>1, <1>3, <1>6 DEF StartInv, Starting, IsEntry, devstate
<1>8. FrameInv'
  BY <1>3, EntryOK DEF FrameInv
<1>9. WaitInv'
  <2>1. \A i \in 1..Len(stack') : ~Failed(stack'[i]) /\ stack'[i].pc # "child_done"
    BY <1>3 DEF Failed, IsEntry
  <2>2. \A i \in 2..Len(stack') : Waits(stack'[i], stack'[i - 1], board', activated')
    BY <2>1 DEF Waits
  <2> QED BY <2>1, <2>2 DEF WaitInv
<1>10. TopInv'
  <2>1. stack' # <<>> => stack'[1] \in Frames /\ IsEntry(stack'[1])
    BY <1>3, <1>4, Pops
  <2> QED BY <2>1, EntryOK DEF TopInv
<1> QED BY <1>5, <1>7, <1>8, <1>9, <1>10 DEF ActiveInv

\* Every step keeps the order of activation.
LEMMA ActiveStep ==
  ASSUME RemoveProbesNothing, Layered, TypeOK, Shape, TreeInv, ActiveInv, [Next]_vars
  PROVE  ActiveInv'
<1>1. CASE Next
  BY <1>1, ActivePlat, ActiveProbe, ActiveRemove, ActiveBinders, ActiveHook, ActiveInvoke DEF Next
<1>2. CASE UNCHANGED vars
  BY <1>2 DEF vars, ActiveInv, DataInv, ActiveParents, StartInv, FrameInv, WaitInv, TopInv
<1> QED BY <1>1, <1>2

\* The invariants hold together.
LEMMA ActiveInvariant ==
  ASSUME BindersSucceed, RemoveProbesNothing, Layered
  PROVE  Spec => [](TypeOK /\ Shape /\ TreeInv /\ ActiveInv)
<1>1. Init => TreeInv
  BY DEF Init, TreeInv, TreeIntact, UnbindLoop, At
<1>2. Init => ActiveInv
  <2>1. Init => Len(stack) = 0
    BY DEF Init
  <2>2. Init => DataInv
    BY DEF Init, DataInv, ActiveParents
  <2>3. Init => StartInv /\ FrameInv /\ WaitInv /\ TopInv
    BY <2>1 DEF Init, StartInv, FrameInv, WaitInv, TopInv
  <2> QED BY <2>2, <2>3 DEF ActiveInv
<1>3. TypeOK /\ Shape /\ TreeInv /\ [Next]_vars => TreeInv'
  BY TreeStep
<1>4. TypeOK /\ Shape /\ TreeInv /\ ActiveInv /\ [Next]_vars => ActiveInv'
  BY ActiveStep
<1> QED BY <1>1, <1>2, <1>3, <1>4, ShapeInvariant, PTL DEF Spec

\* No device is active under a parent that is not, in the middle of every
\* probe, removal and error path of device_probe() and device_remove().
THEOREM ActiveParentsTheorem ==
  ASSUME BindersSucceed, RemoveProbesNothing, Layered
  PROVE  Spec => []ActiveParents
<1>1. ActiveInv => ActiveParents
  BY DEF ActiveInv, DataInv
<1> QED BY <1>1, ActiveInvariant, PTL

\* While a driver's probe() or remove() runs, the device has its private and
\* its platform data, whatever other probes have failed in between.
THEOREM HookDataTheorem ==
  ASSUME BindersSucceed, RemoveProbesNothing, Layered
  PROVE  Spec => []HookDataLive
<1>1. ASSUME TypeOK, ActiveInv PROVE HookDataLive
  <2> SUFFICES ASSUME NEW i \in InDriver PROVE stack[i].dev \in priv \cap plat_valid
    BY DEF HookDataLive
  <2>1. i \in 1..Len(stack)
    BY <1>1 DEF InDriver, TypeOK
  <2>2. stack[i].dev \in activated
    BY <1>1, <2>1 DEF InDriver, ActiveInv, FrameInv, FrameOK, ProbeOK, RemoveOK, Starting
  <2> QED BY <1>1, <2>2 DEF ActiveInv, DataInv
<1> QED BY <1>1, ActiveInvariant, PTL

\* When every call has returned, exactly the active devices run, and they have
\* their data.
THEOREM RunningTheorem ==
  ASSUME BindersSucceed, RemoveProbesNothing, Layered
  PROVE  Spec => []RunningIsActivated
<1>1. ASSUME TypeOK, ActiveInv PROVE RunningIsActivated
  <2> SUFFICES ASSUME stack = <<>> PROVE running = activated /\ activated \subseteq priv \cap plat_valid
    BY DEF RunningIsActivated
  <2>1. Len(stack) = 0
    OBVIOUS
  <2>2. activated \ running = {}
    BY <1>1, <2>1 DEF ActiveInv, StartInv
  <2> QED BY <1>1, <2>2 DEF ActiveInv, DataInv
<1> QED BY <1>1, ActiveInvariant, PTL

\* probe() is called once for a device, and after the parent's, or from within
\* the hooks of the parent's own probe.
THEOREM ProbeOrderTheorem ==
  ASSUME BindersSucceed, RemoveProbesNothing, Layered
  PROVE  Spec => []ProbeInOrder
<1>1. ASSUME TypeOK, ActiveInv PROVE ProbeInOrder
  <2>1. DOMAIN stack = 1..Len(stack)
    BY <1>1 DEF TypeOK
  <2>2. stack # <<>> => Top = stack[1] /\ 1 \in 1..Len(stack)
    BY <1>1, Pops DEF TypeOK, Top
  <2>3. At("device_probe", "hook") => Top.dev \in activated \ running
    BY <1>1, <2>2 DEF At, ActiveInv, FrameInv, FrameOK, ProbeOK, Starting
  <2>4. ProbeOnce
    BY <1>1, <2>1, <2>3 DEF ProbeOnce, ActiveInv, StartInv, Starting
  <2>5. ParentFirst
    <3> SUFFICES ASSUME At("device_probe", "hook"), HasParent(Top.dev), ParentOf[Top.dev] \notin running
                 PROVE  \E i \in DOMAIN stack :
                          /\ stack[i].fn = "device_probe" /\ stack[i].dev = ParentOf[Top.dev]
                          /\ stack[i].pc \in {"pre", "hook"}
      BY DEF ParentFirst
    <3>1. ParentOf[Top.dev] \in activated \ running
      BY <1>1, <2>3 DEF ActiveInv, DataInv, ActiveParents, HasParent
    <3> QED BY <1>1, <2>1, <3>1 DEF ActiveInv, StartInv, BeforeRun
  <2> QED BY <2>4, <2>5 DEF ProbeInOrder
<1> QED BY <1>1, ActiveInvariant, PTL

-----------------------------------------------------------------------------
(* Stopping devices before the OS is started *)

\* On a board with devices that must be stopped, removals do not fail.
StopsSucceed ==
  \A b \in Boards : (\E d \in Devices : "ACTIVE" \in b.drvflags[d]) => "remove" \notin b.fallible

\* A part of the tree without vital devices that has all regular ones which must
\* be stopped
RegularPart(b, C) ==
  /\ \A d \in Devices \ {Root} : ParentOf[d] \in C => d \in C
  /\ \A d \in C : "VITAL" \notin b.drvflags[d]
  /\ \A d \in Devices : b.drvflags[d] = {"ACTIVE"} => d \in C

\* No vital device is below a regular one that must be stopped.
VitalApart == \A b \in Boards : \E C \in SUBSET Devices : RegularPart(b, C)

\* In the first round: what it must stop, the devices whose removal it does not
\* put off, and the flags its calls are made with
FirstStops(b) == {d \in Devices : VitalApart /\ b.drvflags[d] = {"ACTIVE"}}
FirstCalm(b) == IF VitalApart THEN CHOOSE C \in SUBSET Devices : RegularPart(b, C) ELSE {}
FirstFlags == {{"NON_VITAL"}, {"ACTIVE", "NON_VITAL"}}

\* In the second
SecondStops(b) == {d \in Devices : "ACTIVE" \in b.drvflags[d]}
SecondFlags == {{}, {"ACTIVE"}}
SecondCall == Frame("device_remove", Root, {"ACTIVE"})

\* A call of dm_remove_devices_active() is in progress, in its first round.
Stopping(s) == s # <<>> /\ s[Len(s)].fn = "device_remove" /\ "ACTIVE" \in s[Len(s)].flags
InFirst(s) == Len(s) > 1 /\ s[Len(s)] = SecondCall

\* A round has been to the devices of V: none of them that it must stop is still
\* active.  Of the others, all but the root are below devices it has not been to,
\* or their parent's loop has yet to come to them or is with them.  The round is
\* the n innermost frames of s.
Visited(V, T, a, s, n) ==
  /\ V \cap a \cap T = {}
  /\ \A y \in a \ (V \cup {Root}) :
       /\ ParentOf[y] \notin V
       /\ \A i \in 1..n : s[i].dev = ParentOf[y] /\ s[i].pc \in {"children", "child_done"} =>
            y \in s[i].kids \/ (i > 1 /\ y = s[i - 1].dev)

\* A frame of a round with flags G, which does not put off devices of C
SweepFrame(f, C, G, b) ==
  /\ f.fn = "device_remove" /\ f.flags \in G
  /\ f.pc = "hook" => flags_remove(f.flags, b.drvflags[f.dev]) = "OK"
  /\ f.dev \in C => f.ret = "OK"

\* A round that must stop T, on board b with the devices of a active
Sweeps(T, C, G, b, a, s, n, rv) ==
  /\ n \in 1..Len(s) /\ s[n].dev = Root
  /\ \A i \in 1..n : SweepFrame(s[i], C, G, b)
  /\ \A i \in 2..n : s[i].pc = "child_done"
  /\ s[1].pc = "child_done" => rv # "ERR" /\ (s[1].dev \in C => rv # "EPROBE_DEFER")
  /\ \E V \in SUBSET Devices : Visited(V, T, a, s, n)

StopInv ==
  Stopping(stack) /\ "remove" \notin board.fallible =>
    IF InFirst(stack)
    THEN Sweeps(FirstStops(board), FirstCalm(board), FirstFlags, board, activated, stack, Len(stack) - 1, retv)
    ELSE /\ Sweeps(SecondStops(board), Devices, SecondFlags, board, activated, stack, Len(stack), retv)
         /\ activated \cap FirstStops(board) = {}

\* What a round relies on: it removes what it must stop; the devices it does not
\* put off include what is below them.
RoundOK(T, C, G, b) ==
  /\ T \subseteq C /\ C \subseteq Devices
  /\ \A d \in Devices \ {Root} : ParentOf[d] \in C => d \in C
  /\ \A d \in Devices, fl \in G :
       /\ flags_remove(fl, b.drvflags[d]) # "OK" => d \notin T
       /\ d \in C => flags_remove(fl, b.drvflags[d]) # "EPROBE_DEFER"
       /\ flags_remove(fl, b.drvflags[d]) # "ERR"
  /\ \A fl \in G : fl \ {"ACTIVE"} \in G

\* The first round does so if vital devices are apart,
LEMMA FirstOK ==
  ASSUME NEW b \in Boards
  PROVE  RoundOK(FirstStops(b), FirstCalm(b), FirstFlags, b)
<1> DEFINE T == FirstStops(b)
           C == FirstCalm(b)
<1>1. /\ T \subseteq Devices /\ \A d \in T : VitalApart /\ b.drvflags[d] = {"ACTIVE"}
  BY DEF FirstStops
<1>2. CASE VitalApart
  <2>1. C \in SUBSET Devices /\ RegularPart(b, C)
    BY <1>2 DEF VitalApart, FirstCalm
  <2>2. T \subseteq C /\ \A d \in C : "VITAL" \notin b.drvflags[d]
    BY <1>1, <2>1 DEF RegularPart
  <2>3. \A d \in Devices \ {Root} : ParentOf[d] \in C => d \in C
    BY <2>1 DEF RegularPart
  <2> HIDE DEF T, C
  <2>4. ASSUME NEW d \in Devices, NEW fl \in FirstFlags
        PROVE  /\ flags_remove(fl, b.drvflags[d]) # "OK" => d \notin T
               /\ d \in C => flags_remove(fl, b.drvflags[d]) # "EPROBE_DEFER"
               /\ flags_remove(fl, b.drvflags[d]) # "ERR"
    <3>1. "NORMAL" \notin fl
      BY DEF FirstFlags
    <3> QED BY <1>1, <2>2, <3>1 DEF flags_remove
  <2>5. \A fl \in FirstFlags : fl \ {"ACTIVE"} \in FirstFlags
    BY DEF FirstFlags
  <2> QED BY <2>1, <2>2, <2>3, <2>4, <2>5 DEF RoundOK, T, C
<1>3. CASE ~VitalApart
  <2>1. T = {} /\ C = {}
    BY <1>1, <1>3 DEF FirstCalm
  <2> HIDE DEF T, C
  <2>2. \A d \in Devices, fl \in FirstFlags : flags_remove(fl, b.drvflags[d]) # "ERR"
    BY DEF flags_remove
  <2>3. \A fl \in FirstFlags : fl \ {"ACTIVE"} \in FirstFlags
    BY DEF FirstFlags
  <2> QED BY <2>1, <2>2, <2>3 DEF RoundOK, T, C
<1> QED BY <1>2, <1>3

\* and the second in any case.
LEMMA SecondOK ==
  ASSUME NEW b \in Boards
  PROVE  RoundOK(SecondStops(b), Devices, SecondFlags, b)
<1> DEFINE T == SecondStops(b)
<1>1. T \subseteq Devices /\ \A d \in T : "ACTIVE" \in b.drvflags[d]
  BY DEF SecondStops
<1> HIDE DEF T
<1>2. ASSUME NEW d \in Devices, NEW fl \in SecondFlags
      PROVE  /\ flags_remove(fl, b.drvflags[d]) # "OK" => d \notin T
             /\ flags_remove(fl, b.drvflags[d]) # "EPROBE_DEFER"
             /\ flags_remove(fl, b.drvflags[d]) # "ERR"
  <2>1. "NORMAL" \notin fl /\ "NON_VITAL" \notin fl
    BY DEF SecondFlags
  <2> QED BY <1>1, <2>1 DEF flags_remove
<1>3. \A fl \in SecondFlags : fl \ {"ACTIVE"} \in SecondFlags
  BY DEF SecondFlags
<1> QED BY <1>1, <1>2, <1>3 DEF RoundOK, T

\* device_remove() goes on: it begins its loop, goes on with it, or comes to the
\* device itself.
LEMMA SweepGoes ==
  ASSUME NEW T, NEW C, NEW G, NEW b, NEW a, NEW s \in Seq(Frames), s # <<>>, NEW n, NEW rv, NEW rv1,
         Sweeps(T, C, G, b, a, s, n, rv), NEW f \in Frames, SweepFrame(f, C, G, b), f.dev = s[1].dev,
         f.pc \in {"children", "hook"},
         f.pc = "children" => \/ KidsIn(a, f.dev) \subseteq f.kids
                              \/ s[1].pc = "child_done" /\ f.kids = s[1].kids
  PROVE  Sweeps(T, C, G, b, a, <<f>> \o Tail(s), n, rv1)
<1> DEFINE u == <<f>> \o Tail(s)
<1>1. u \in Seq(Frames) /\ Len(u) = Len(s) /\ u[1] = f /\ Len(s) \in Nat /\ \A i \in 2..Len(s) : u[i] = s[i]
  BY Replaces
<1> HIDE DEF u
<1>2. /\ n \in 1..Len(s) /\ s[n].dev = Root
      /\ \A i \in 1..n : SweepFrame(s[i], C, G, b)
      /\ \A i \in 2..n : s[i].pc = "child_done"
  BY DEF Sweeps
<1>3. PICK V \in SUBSET Devices : Visited(V, T, a, s, n)
  BY DEF Sweeps
<1>4. \A i \in 1..n : i = 1 \/ (i \in 2..n /\ i \in 2..Len(s) /\ u[i] = s[i])
  BY <1>1, <1>2
<1>5. u[n].dev = Root
  BY <1>1, <1>2, <1>4
<1>6. \A i \in 1..n : SweepFrame(u[i], C, G, b)
  BY <1>1, <1>2, <1>4
<1>7. \A i \in 2..n : u[i].pc = "child_done"
  BY <1>1, <1>2
<1>8. Visited(V, T, a, u, n)
  <2>1. V \cap a \cap T = {}
    BY <1>3 DEF Visited
  <2>2. ASSUME NEW y \in a \ (V \cup {Root})
        PROVE  ParentOf[y] \notin V
    BY <1>3 DEF Visited
  <2>3. ASSUME NEW y \in a \ (V \cup {Root}), NEW i \in 1..n, u[i].dev = ParentOf[y],
               u[i].pc \in {"children", "child_done"}
        PROVE  y \in u[i].kids \/ (i > 1 /\ y = u[i - 1].dev)
    <3>1. s[i].dev = ParentOf[y] /\ s[i].pc \in {"children", "child_done"} =>
            y \in s[i].kids \/ (i > 1 /\ y = s[i - 1].dev)
      BY <1>3 DEF Visited
    <3>2. CASE i = 1
      <4>1. f.pc = "children" /\ f.dev = ParentOf[y]
        BY <1>1, <2>3, <3>2
      <4>2. CASE KidsIn(a, f.dev) \subseteq f.kids
        BY <1>1, <2>3, <3>2, <4>1, <4>2 DEF KidsIn
      <4>3. CASE s[1].pc = "child_done" /\ f.kids = s[1].kids
        BY <1>1, <3>1, <3>2, <4>1, <4>3
      <4> QED BY <4>1, <4>2, <4>3
    <3>3. CASE i # 1
      <4>1. i - 1 \in 1..n /\ u[i] = s[i] /\ i > 1
        BY <1>1, <1>2, <1>4, <3>3
      <4>2. u[i - 1].dev = s[i - 1].dev
        BY <1>1, <1>4, <4>1
      <4> QED BY <2>3, <3>1, <4>1, <4>2
    <3> QED BY <3>2, <3>3
  <2> QED BY <2>1, <2>2, <2>3 DEF Visited
<1>9. u[1].pc # "child_done"
  BY <1>1
<1>10. n \in 1..Len(u)
  BY <1>1, <1>2
<1>11. Sweeps(T, C, G, b, a, u, n, rv1)
  BY <1>5, <1>6, <1>7, <1>8, <1>9, <1>10 DEF Sweeps
<1> QED BY <1>11 DEF u

\* It calls itself for a child.
LEMMA SweepCalls ==
  ASSUME NEW T, NEW C, NEW G, NEW b, NEW a, NEW s \in Seq(Frames), s # <<>>, NEW n, NEW rv, NEW rv1,
         Sweeps(T, C, G, b, a, s, n, rv), NEW f \in Frames, NEW g \in Frames,
         SweepFrame(f, C, G, b), SweepFrame(g, C, G, b), f.dev = s[1].dev, s[1].pc = "children",
         f.pc = "child_done", f.kids = s[1].kids \ {g.dev}, g.pc = "entry"
  PROVE  Sweeps(T, C, G, b, a, <<g, f>> \o Tail(s), n + 1, rv1)
<1> DEFINE u == <<g, f>> \o Tail(s)
           m == n + 1
<1>1. /\ u \in Seq(Frames) /\ Len(u) = Len(s) + 1 /\ u[1] = g /\ u[2] = f /\ Len(s) \in Nat
      /\ \A i \in 3..(Len(s) + 1) : u[i] = s[i - 1]
  BY Pushes
<1> HIDE DEF u
<1>2. /\ n \in 1..Len(s) /\ s[n].dev = Root
      /\ \A i \in 1..n : SweepFrame(s[i], C, G, b)
      /\ \A i \in 2..n : s[i].pc = "child_done"
  BY DEF Sweeps
<1>3. PICK V \in SUBSET Devices : Visited(V, T, a, s, n)
  BY DEF Sweeps
<1>4. \A i \in 1..m : i = 1 \/ i = 2 \/ (i \in 3..(Len(s) + 1) /\ i - 1 \in 2..n /\ i - 1 \in 1..n /\ u[i] = s[i - 1])
  BY <1>1, <1>2
<1>5. u[m].dev = Root
  <2>1. CASE n = 1
    BY <1>1, <1>2, <2>1
  <2>2. CASE n # 1
    <3>1. m \in 3..(Len(s) + 1) /\ m - 1 = n
      BY <1>1, <1>2, <2>2
    <3> QED BY <1>1, <1>2, <3>1
  <2> QED BY <2>1, <2>2
<1>6. \A i \in 1..m : SweepFrame(u[i], C, G, b)
  BY <1>1, <1>2, <1>4
<1>7. \A i \in 2..m : u[i].pc = "child_done"
  <2> SUFFICES ASSUME NEW i \in 2..m PROVE u[i].pc = "child_done"
    OBVIOUS
  <2>1. i \in 1..m /\ i # 1
    BY <1>2
  <2> QED BY <1>1, <1>2, <1>4, <2>1
<1>8. Visited(V, T, a, u, m)
  <2>1. V \cap a \cap T = {}
    BY <1>3 DEF Visited
  <2>2. ASSUME NEW y \in a \ (V \cup {Root})
        PROVE  ParentOf[y] \notin V
    BY <1>3 DEF Visited
  <2>3. ASSUME NEW y \in a \ (V \cup {Root}), NEW i \in 1..m, u[i].dev = ParentOf[y],
               u[i].pc \in {"children", "child_done"}
        PROVE  y \in u[i].kids \/ (i > 1 /\ y = u[i - 1].dev)
    <3>1. \A k \in 1..n : s[k].dev = ParentOf[y] /\ s[k].pc \in {"children", "child_done"} =>
            y \in s[k].kids \/ (k > 1 /\ y = s[k - 1].dev)
      BY <1>3 DEF Visited
    <3>2. CASE i = 1
      BY <1>1, <2>3, <3>2
    <3>3. CASE i = 2
      <4>1. 1 \in 1..n /\ s[1].dev = ParentOf[y]
        BY <1>1, <1>2, <2>3, <3>3
      <4>2. y \in s[1].kids
        BY <3>1, <4>1
      <4> QED BY <1>1, <3>3, <4>2
    <3>4. CASE i # 1 /\ i # 2
      <4> DEFINE k == i - 1
      <4>1. k \in 2..n /\ k \in 1..n /\ u[i] = s[k] /\ i > 1 /\ k - 1 \in 1..n
        BY <1>2, <1>4, <3>4
      <4>2. u[i - 1].dev = s[k - 1].dev
        <5>1. CASE k = 2
          BY <1>1, <5>1
        <5>2. CASE k # 2
          <6>1. i - 1 \in 3..(Len(s) + 1) /\ (i - 1) - 1 = k - 1
            BY <1>2, <4>1, <5>2
          <6> QED BY <1>1, <6>1
        <5> QED BY <5>1, <5>2
      <4> HIDE DEF k
      <4> QED BY <2>3, <3>1, <4>1, <4>2
    <3> QED BY <3>2, <3>3, <3>4
  <2> QED BY <2>1, <2>2, <2>3 DEF Visited
<1>9. u[1].pc # "child_done"
  BY <1>1
<1>10. m \in 1..Len(u)
  BY <1>1, <1>2
<1>11. Sweeps(T, C, G, b, a, u, m, rv1)
  <2> HIDE DEF m
  <2> QED BY <1>5, <1>6, <1>7, <1>8, <1>9, <1>10 DEF Sweeps
<1> QED BY <1>11 DEF u

\* Frame f of a round returns r: its device has been stopped or need not be, and
\* what is still active below has been visited.
SweepReturn(T, C, a, a1, f, r) ==
  /\ r # "ERR" /\ (f.dev \in C => r # "EPROBE_DEFER")
  /\ a1 = a \/ a1 = a \ {f.dev}
  /\ f.dev \in a1 => f.dev \notin T /\ f.pc = "children" /\ f.kids = {}
  /\ f.dev \notin a1 => KidsIn(a, f.dev) = {}

\* With those of a1 still active, the devices visited are W and no longer V.
Leaves(V, W, T, a, a1) ==
  /\ W \cap a1 \cap T = {}
  /\ \A y \in a1 \ (W \cup {Root}) : y \in a \ (V \cup {Root}) /\ ParentOf[y] \notin W

\* The set of the devices visited, when the innermost frame of a round returns
LEMMA SweepVisits ==
  ASSUME NEW T, NEW C, NEW a, NEW a1, NEW s \in Seq(Frames), NEW n \in Nat, n >= 1, NEW r,
         NEW V \in SUBSET Devices, NEW f, f = s[1],
         Visited(V, T, a, s, n), SweepReturn(T, C, a, a1, f, r)
  PROVE  Leaves(V, V \cup {f.dev}, T, a, a1)
<1> DEFINE d == s[1].dev
           W == V \cup {d}
<1>1. a1 \subseteq a /\ (d \in a1 => d \notin T /\ s[1].pc = "children" /\ s[1].kids = {})
      /\ (d \notin a1 => KidsIn(a, d) = {})
  BY DEF SweepReturn
<1>2. W \cap a1 \cap T = {}
  BY <1>1 DEF Visited
<1>3. ASSUME NEW y \in a1 \ (W \cup {Root}) PROVE y \in a \ (V \cup {Root}) /\ ParentOf[y] \notin W
  <2>1. y \in a \ (V \cup {Root})
    BY <1>1
  <2>2. ParentOf[y] \notin V
    BY <2>1 DEF Visited
  <2>3. ASSUME ParentOf[y] = d PROVE FALSE
    <3>1. d \in a1
      BY <1>1, <2>1, <2>3 DEF KidsIn
    <3>2. 1 \in 1..n
      OBVIOUS
    <3>3. s[1].dev = ParentOf[y] /\ s[1].pc \in {"children", "child_done"} =>
            y \in s[1].kids \/ (1 > 1 /\ y = s[1 - 1].dev)
      BY <2>1, <3>2 DEF Visited
    <3> QED BY <1>1, <2>3, <3>1, <3>3
  <2> QED BY <2>1, <2>2, <2>3
<1> QED BY <1>2, <1>3 DEF Leaves

\* It returns to the loop of its caller.
LEMMA SweepReturns ==
  ASSUME NEW T, NEW C, NEW G, NEW b, NEW a, NEW a1, NEW s \in Seq(Frames), NEW n, NEW rv, NEW r,
         Sweeps(T, C, G, b, a, s, n, rv), RoundOK(T, C, G, b), n > 1,
         SweepReturn(T, C, a, a1, s[1], r), s[1].dev # Root, ParentOf[s[1].dev] = s[2].dev
  PROVE  Sweeps(T, C, G, b, a1, Tail(s), n - 1, r)
<1> DEFINE u == Tail(s)
           m == n - 1
<1>1. /\ n \in 1..Len(s) /\ s[n].dev = Root
      /\ \A i \in 1..n : SweepFrame(s[i], C, G, b)
      /\ \A i \in 2..n : s[i].pc = "child_done"
      /\ Len(s) \in Nat /\ n \in Nat
  BY DEF Sweeps
<1>2. s # <<>> /\ 1 \in 1..Len(s) /\ s[1].dev \in Devices
  <2>1. s # <<>> /\ 1 \in 1..Len(s)
    BY <1>1
  <2>2. s[1] \in Frames
    BY <2>1
  <2> QED BY <2>1, <2>2 DEF Frames
<1>3. /\ u \in Seq(Frames) /\ Len(u) = Len(s) - 1
      /\ \A i \in 1..(Len(s) - 1) : u[i] = s[i + 1]
  BY <1>2, Pops
<1> HIDE DEF u
<1>4. PICK V \in SUBSET Devices : Visited(V, T, a, s, n)
  BY DEF Sweeps
<1> DEFINE W == V \cup {s[1].dev}
<1>5. /\ W \cap a1 \cap T = {}
      /\ \A y \in a1 \ (W \cup {Root}) : y \in a \ (V \cup {Root}) /\ ParentOf[y] \notin W
  <2>1. n \in Nat /\ n >= 1
    BY <1>1
  <2>2. Leaves(V, V \cup {s[1].dev}, T, a, a1)
    BY <1>4, <2>1, SweepVisits
  <2> QED BY <2>2 DEF Leaves
<1>6. W \in SUBSET Devices
  BY <1>2
<1>7. /\ m \in 1..Len(u) /\ m \in Nat /\ m >= 1
      /\ \A i \in 1..m : u[i] = s[i + 1] /\ i + 1 \in 2..n /\ i + 1 \in 1..n /\ (i + 1) - 1 = i
  BY <1>1, <1>3
<1>8. u[m].dev = Root
  <2>1. m \in 1..m /\ m + 1 = n
    BY <1>1, <1>7
  <2> QED BY <1>1, <1>7, <2>1
<1> HIDE DEF m
<1>9. \A i \in 1..m : SweepFrame(u[i], C, G, b)
  BY <1>1, <1>7
<1>10. \A i \in 2..m : u[i].pc = "child_done"
  <2> SUFFICES ASSUME NEW i \in 2..m PROVE u[i].pc = "child_done"
    OBVIOUS
  <2>1. i \in 1..m
    BY <1>7
  <2> QED BY <1>1, <1>7, <2>1
<1>11. u[1] = s[2]
  <2>1. 1 \in 1..m
    BY <1>7
  <2> QED BY <1>7, <2>1
<1>12. r # "ERR" /\ (u[1].dev \in C => r # "EPROBE_DEFER")
  <2>1. s[2].dev \in C => s[1].dev \in C
    BY <1>2 DEF RoundOK
  <2> QED BY <1>11, <2>1 DEF SweepReturn
<1>13. Visited(W, T, a1, u, m)
  <2>1. ASSUME NEW y \in a1 \ (W \cup {Root}), NEW i \in 1..m, u[i].dev = ParentOf[y],
               u[i].pc \in {"children", "child_done"}
        PROVE  y \in u[i].kids \/ (i > 1 /\ y = u[i - 1].dev)
    <3> DEFINE k == i + 1
    <3>1. k \in 1..n /\ u[i] = s[k] /\ k - 1 = i
      BY <1>7
    <3>2. y \in a \ (V \cup {Root})
      BY <1>5
    <3>3. y \in s[k].kids \/ (k > 1 /\ y = s[k - 1].dev)
      BY <1>4, <2>1, <3>1, <3>2 DEF Visited
    <3>4. CASE i = 1
      BY <3>1, <3>3, <3>4
    <3>5. CASE i # 1
      <4>1. i - 1 \in 1..m /\ (i - 1) + 1 = i /\ i > 1
        BY <1>7, <3>5
      <4>2. u[i - 1] = s[i]
        BY <1>7, <4>1
      <4> QED BY <3>1, <3>3, <4>1, <4>2
    <3> QED BY <3>4, <3>5
  <2> HIDE DEF W
  <2> QED BY <1>5, <2>1 DEF Visited
<1>14. Sweeps(T, C, G, b, a1, u, m, r)
  <2> HIDE DEF W
  <2> QED BY <1>6, <1>7, <1>8, <1>9, <1>10, <1>12, <1>13 DEF Sweeps
<1> QED BY <1>14 DEF u, m

\* Among the devices of a set there is one with the lowest number.
LEMMA LowestDevice ==
  ASSUME Layered, board \in Boards, NEW A \in SUBSET Devices, A # {}
  PROVE  \E d \in A : \A e \in A : ~(Ord(e) < Ord(d))
<1> DEFINE R == OpToRel(<, Nat)
           I == {Ord(d) : d \in A}
<1>1. \A d \in Devices : Ord(d) \in Nat
  BY DEF Layered, Ord
<1>2. I \in SUBSET Nat /\ I # {} /\ \A d \in A : Ord(d) \in I
  BY <1>1
<1>3. \A y, x \in Nat : y < x => <<y, x>> \in R
  <2>1. R = {ss \in Nat \X Nat : ss[1] < ss[2]}
    BY DEF OpToRel
  <2> HIDE DEF R
  <2> SUFFICES ASSUME NEW y \in Nat, NEW x \in Nat, y < x PROVE <<y, x>> \in R
    OBVIOUS
  <2>2. <<y, x>> \in Nat \X Nat /\ <<y, x>>[1] = y /\ <<y, x>>[2] = x
    OBVIOUS
  <2>3. <<y, x>>[1] < <<y, x>>[2]
    BY <2>2
  <2> QED BY <2>1, <2>2, <2>3, Zenon
<1>4. IsWellFoundedOn(R, Nat)
  BY NatLessThanWellFounded
<1> HIDE DEF R
<1>5. \E x \in I : \A y \in I : ~(<<y, x>> \in R)
  <2> HIDE DEF I
  <2> QED BY <1>2, <1>4, WFMin
<1>6. PICK x \in I : \A y \in I : ~(<<y, x>> \in R)
  BY <1>5
<1>7. PICK d \in A : x = Ord(d)
  OBVIOUS
<1>8. ASSUME NEW e \in A PROVE ~(Ord(e) < Ord(d))
  BY <1>1, <1>2, <1>3, <1>6, <1>7
<1> QED BY <1>8

\* The round ends: all it must stop is stopped.
LEMMA SweepEnds ==
  ASSUME Layered, board \in Boards, activated \subseteq Devices, ActiveParents,
         NEW T, NEW C, NEW G, NEW a1, NEW s \in Seq(Frames), NEW rv, NEW r,
         Sweeps(T, C, G, board, activated, s, 1, rv),
         SweepReturn(T, C, activated, a1, s[1], r)
  PROVE  a1 \cap T = {}
<1>1. s[1].dev = Root
  BY DEF Sweeps
<1>2. PICK V \in SUBSET Devices : Visited(V, T, activated, s, 1)
  BY DEF Sweeps
<1> DEFINE W == V \cup {s[1].dev}
<1>3. /\ W \cap a1 \cap T = {} /\ Root \in W
      /\ \A y \in a1 \ W : ParentOf[y] \notin W /\ y \in activated /\ y # Root
  <2>1. Leaves(V, V \cup {s[1].dev}, T, activated, a1)
    <3>1. 1 \in Nat /\ 1 >= 1
      OBVIOUS
    <3>2. SweepReturn(T, C, activated, a1, s[1], r)
      OBVIOUS
    <3> QED BY <1>2, <3>1, <3>2, SweepVisits
  <2> QED BY <1>1, <2>1 DEF Leaves
<1>4. a1 \subseteq activated /\ (Root \notin a1 => a1 = activated \ {Root} \/ a1 = activated)
  BY <1>1 DEF SweepReturn
<1>5. \A y \in a1 \ W : ParentOf[y] \in a1 \ W
  <2> SUFFICES ASSUME NEW y \in a1 \ W PROVE ParentOf[y] \in a1 \ W
    OBVIOUS
  <2>1. ParentOf[y] \in activated /\ ParentOf[y] \notin W
    BY <1>3 DEF ActiveParents
  <2> QED BY <1>1, <1>3, <2>1 DEF SweepReturn
<1> HIDE DEF W
<1>6. ASSUME a1 \ W # {} PROVE FALSE
  <2>1. a1 \ W \in SUBSET Devices
    BY <1>4
  <2>2. PICK d \in a1 \ W : \A e \in a1 \ W : ~(Ord(e) < Ord(d))
    BY <1>6, <2>1, LowestDevice
  <2>3. Ord(ParentOf[d]) < Ord(d)
    BY <1>3, <2>1 DEF Layered, Ord
  <2> QED BY <1>5, <2>2, <2>3
<1> QED BY <1>3, <1>6

\* A round begins.
LEMMA SweepStarts ==
  ASSUME NEW T, NEW C, NEW G, NEW b, NEW a, NEW s \in Seq(Frames), s # <<>>, NEW rv,
         s[1].fn = "device_remove", s[1].dev = Root, s[1].flags \in G, IsEntry(s[1])
  PROVE  Sweeps(T, C, G, b, a, s, 1, rv)
<1>1. 1 \in 1..Len(s) /\ s[1].pc = "entry" /\ s[1].ret = "OK"
  BY Pops DEF IsEntry
<1>2. \A i \in 1..1 : SweepFrame(s[i], C, G, b)
  <2>1. SweepFrame(s[1], C, G, b)
    BY <1>1 DEF SweepFrame
  <2> QED BY <2>1
<1>3. Visited({}, T, a, s, 1)
  <2>1. \A i \in 1..1 : s[i].pc \notin {"children", "child_done"}
    BY <1>1
  <2> QED BY <2>1 DEF Visited
<1>4. {} \in SUBSET Devices /\ \A i \in 2..1 : s[i].pc = "child_done"
  OBVIOUS
<1> QED BY <1>1, <1>2, <1>3, <1>4 DEF Sweeps

\* A step of a round, after which the devices of a1 are active, the stack is s1
\* and rv1 the last result: the round goes on, or ends with nothing left that it
\* must stop; a device that was stopped matched the flags.
RoundStep(T, C, G, b, a, s, n, a1, s1, rv1) ==
  /\ a1 \subseteq a
  /\ \A v \in a \ a1 : \E fl \in G : flags_remove(fl, b.drvflags[v]) = "OK"
  /\ \/ \E m \in Nat : /\ Len(s1) - m = Len(s) - n
                       /\ Sweeps(T, C, G, b, a1, s1, m, rv1)
     \/ n = 1 /\ s1 = Tail(s) /\ a1 \cap T = {}

\* device_remove() returns in a round.
LEMMA RoundReturns ==
  ASSUME Layered, TypeOK, Shape, ActiveParents, NEW T, NEW C, NEW G, NEW n, NEW a1, NEW r,
         Sweeps(T, C, G, board, activated, stack, n, retv), RoundOK(T, C, G, board),
         SweepReturn(T, C, activated, a1, stack[1], r),
         a1 # activated => flags_remove(stack[1].flags, board.drvflags[stack[1].dev]) = "OK"
  PROVE  RoundStep(T, C, G, board, activated, stack, n, a1, Tail(stack), r)
<1>1. /\ n \in 1..Len(stack) /\ Len(stack) \in Nat /\ n \in Nat /\ n >= 1 /\ stack \in Seq(Frames)
      /\ \A i \in 1..n : SweepFrame(stack[i], C, G, board)
      /\ \A i \in 2..n : stack[i].pc = "child_done"
  BY DEF Sweeps, TypeOK
<1>2. stack # <<>> /\ Len(Tail(stack)) = Len(stack) - 1
  <2>1. stack # <<>>
    BY <1>1
  <2> QED BY <1>1, <2>1, Pops
<1>3. a1 \subseteq activated /\ \A v \in activated \ a1 : \E fl \in G : flags_remove(fl, board.drvflags[v]) = "OK"
  <2>1. 1 \in 1..n
    BY <1>1
  <2>2. stack[1].flags \in G
    BY <1>1, <2>1 DEF SweepFrame
  <2> QED BY <2>2 DEF SweepReturn
<1>4. CASE n = 1
  <2>1. Sweeps(T, C, G, board, activated, stack, 1, retv)
    BY <1>4
  <2>2. board \in Boards /\ activated \subseteq Devices
    BY DEF TypeOK
  <2>3. a1 \cap T = {}
    BY <1>1, <2>1, <2>2, SweepEnds
  <2> QED BY <1>3, <1>4, <2>3 DEF RoundStep
<1>5. CASE n # 1
  <2>1. n > 1 /\ 2 \in 2..Len(stack) /\ 2 \in 2..n /\ 2 \in 1..n /\ 2 - 1 = 1
    BY <1>1, <1>5
  <2>2. stack[2].fn = "device_remove" /\ stack[2].pc = "child_done"
    BY <1>1, <2>1 DEF SweepFrame
  <2>3. Calls(board, stack[2], stack[2 - 1])
    BY <2>1 DEF Shape, Linked
  <2>4. stack[1].dev # Root /\ ParentOf[stack[1].dev] = stack[2].dev
    BY <2>1, <2>2, <2>3 DEF Calls, Probers, HasParent
  <2>5. Sweeps(T, C, G, board, a1, Tail(stack), n - 1, r)
    BY <1>1, <2>1, <2>4, SweepReturns
  <2>6. n - 1 \in Nat /\ Len(Tail(stack)) - (n - 1) = Len(stack) - n
    BY <1>1, <1>2
  <2> QED BY <1>3, <2>5, <2>6 DEF RoundStep
<1> QED BY <1>4, <1>5

\* device_remove() goes on in a round.
LEMMA RoundGoes ==
  ASSUME TypeOK, NEW T, NEW C, NEW G, NEW n, NEW rv1, NEW f \in Frames,
         Sweeps(T, C, G, board, activated, stack, n, retv),
         stack[1].fn = "device_remove", f.fn = "device_remove", f.dev = stack[1].dev,
         f.flags = stack[1].flags, f.dev \in C => f.ret = "OK", f.pc \in {"children", "hook"},
         f.pc = "hook" => flags_remove(f.flags, board.drvflags[f.dev]) = "OK",
         f.pc = "children" => \/ KidsIn(activated, f.dev) \subseteq f.kids
                              \/ stack[1].pc = "child_done" /\ f.kids = stack[1].kids
  PROVE  RoundStep(T, C, G, board, activated, stack, n, activated, <<f>> \o Tail(stack), rv1)
<1>1. /\ n \in 1..Len(stack) /\ Len(stack) \in Nat /\ n \in Nat /\ n >= 1 /\ stack \in Seq(Frames)
      /\ \A i \in 1..n : SweepFrame(stack[i], C, G, board)
  BY DEF Sweeps, TypeOK
<1>2. stack # <<>> /\ 1 \in 1..n
  BY <1>1
<1>3. SweepFrame(f, C, G, board)
  BY <1>1, <1>2 DEF SweepFrame
<1>4. Sweeps(T, C, G, board, activated, <<f>> \o Tail(stack), n, rv1)
  BY <1>1, <1>2, <1>3, SweepGoes
<1>5. Len(<<f>> \o Tail(stack)) = Len(stack)
  BY <1>1, <1>2, Replaces
<1> QED BY <1>1, <1>4, <1>5 DEF RoundStep

\* Every step of device_remove() in a round is one of the round.
LEMMA RemoveSweeps ==
  ASSUME Layered, TypeOK, Shape, TreeInv, ActiveInv, "remove" \notin board.fallible, remove_step,
         NEW T, NEW C, NEW G, NEW n, RoundOK(T, C, G, board),
         Sweeps(T, C, G, board, activated, stack, n, retv)
  PROVE  RoundStep(T, C, G, board, activated, stack, n, activated', stack', retv')
<1> DEFINE d == Top.dev
<1>1. /\ stack # <<>> /\ stack[1] = Top /\ Top.fn = "device_remove" /\ 1 \in 1..Len(stack)
      /\ d \in Devices /\ Top \in Frames /\ Top.kids \in SUBSET Devices
  <2>1. stack # <<>> /\ Top.fn = "device_remove"
    BY DEF remove_step, remove_entry, remove_child, remove_child_done, remove_children_done,
       remove_hook, At
  <2> QED BY <2>1, Pops, TopFields DEF TypeOK, Top
<1>2. /\ n \in 1..Len(stack) /\ Len(stack) \in Nat /\ n \in Nat /\ n >= 1 /\ 1 \in 1..n
      /\ SweepFrame(Top, C, G, board)
  BY <1>1 DEF Sweeps
<1>3. /\ Top.flags \in G /\ (d \in C => Top.ret = "OK")
      /\ (Top.pc = "hook" => flags_remove(Top.flags, board.drvflags[d]) = "OK")
  BY <1>2 DEF SweepFrame
<1>4. /\ RemoveOK(Top, board, activated) /\ ActiveParents /\ activated \subseteq bound
      /\ Top.ret \in {"OK", "EPROBE_DEFER"}
  <2>1. RemoveOK(Top, board, activated)
    BY <1>1 DEF ActiveInv, FrameInv, FrameOK
  <2> QED BY <1>1, <2>1 DEF RemoveOK, ActiveInv, DataInv, TreeInv, TreeIntact
<1>5. /\ T \subseteq C
      /\ \A e \in Devices, fl \in G :
           /\ flags_remove(fl, board.drvflags[e]) # "OK" => e \notin T
           /\ e \in C => flags_remove(fl, board.drvflags[e]) # "EPROBE_DEFER"
           /\ flags_remove(fl, board.drvflags[e]) # "ERR"
      /\ \A fl \in G : fl \ {"ACTIVE"} \in G
  BY DEF RoundOK
<1>6. Hook("remove") = {"OK"}
  BY DEF Hook
\* It returns r and the device stays as it was, or is stopped
<1>7. ASSUME NEW r, SweepReturn(T, C, activated, activated', Top, r), stack' = Tail(stack), retv' = r,
             activated' # activated => flags_remove(Top.flags, board.drvflags[d]) = "OK"
      PROVE  RoundStep(T, C, G, board, activated, stack, n, activated', stack', retv')
  BY <1>1, <1>4, <1>7, RoundReturns
<1>8. CASE remove_entry
  <2>1. activated' = activated
    BY <1>8 DEF remove_entry, devstate
  <2>2. CASE d \notin activated
    <3>1. stack' = Tail(stack) /\ retv' = "OK"
      BY <1>8, <2>2 DEF remove_entry, Return
    <3>2. SweepReturn(T, C, activated, activated', Top, "OK")
      BY <1>4, <2>1, <2>2 DEF SweepReturn, KidsIn, ActiveParents
    <3> QED BY <1>7, <2>1, <3>1, <3>2
  <2>3. CASE d \in activated
    <3> DEFINE f == ToKids("children", Children(d))
    <3>1. stack' = <<f>> \o Tail(stack)
      BY <1>6, <1>8, <2>3 DEF remove_entry, Goto
    <3>2. Children(d) \in SUBSET Devices /\ KidsIn(activated, d) \subseteq Children(d)
      BY <1>4 DEF Children, TypeOK, KidsIn
    <3>3. /\ f \in Frames /\ f.fn = "device_remove" /\ f.dev = d /\ f.pc = "children"
          /\ f.kids = Children(d) /\ f.ret = Top.ret /\ f.flags = Top.flags
      BY <1>1, <3>2, FrameTypes DEF Pcs
    <3> HIDE DEF f
    <3>4. RoundStep(T, C, G, board, activated, stack, n, activated, <<f>> \o Tail(stack), retv')
      BY <1>1, <1>3, <3>2, <3>3, RoundGoes
    <3> QED BY <2>1, <3>1, <3>4
  <2> QED BY <2>2, <2>3
<1>9. CASE remove_child
  <2>1. PICK k \in Top.kids :
          Call(ToKids("child_done", Top.kids \ {k}), "device_remove", k, ChildFlags(Top))
    BY <1>9 DEF remove_child
  <2>2. /\ k \in Devices /\ Top.kids \ {k} \in SUBSET Devices /\ ChildFlags(Top) \in SUBSET RemoveFlags
        /\ activated' = activated /\ Top.pc = "children" /\ ChildFlags(Top) \in G
    BY <1>1, <1>3, <1>5, <1>9, TopFields DEF ChildFlags, remove_child, At, devstate
  <2> DEFINE f == ToKids("child_done", Top.kids \ {k})
             g == Frame("device_remove", k, ChildFlags(Top))
  <2>3. /\ f \in Frames /\ f.fn = "device_remove" /\ f.dev = d /\ f.flags = Top.flags
        /\ f.pc = "child_done" /\ f.kids = Top.kids \ {k} /\ f.ret = Top.ret
        /\ g \in Frames /\ g.fn = "device_remove" /\ g.dev = k /\ IsEntry(g) /\ g.flags = ChildFlags(Top)
    BY <1>1, <2>2, FrameTypes DEF Functions, Pcs
  <2>4. stack' = <<g, f>> \o Tail(stack)
    BY <2>1 DEF Call
  <2> HIDE DEF f, g
  <2>5. SweepFrame(f, C, G, board) /\ SweepFrame(g, C, G, board) /\ g.pc = "entry"
    BY <1>3, <2>2, <2>3 DEF SweepFrame, IsEntry
  <2>6. Sweeps(T, C, G, board, activated, <<g, f>> \o Tail(stack), n + 1, retv')
    <3>1. stack \in Seq(Frames)
      BY DEF TypeOK
    <3> QED BY <1>1, <2>2, <2>3, <2>5, <3>1, SweepCalls
  <2>7. n + 1 \in Nat /\ Len(stack') - (n + 1) = Len(stack) - n
    <3>1. Len(stack') = Len(stack) + 1
      BY <1>1, <2>3, <2>4, Pushes DEF TypeOK
    <3> QED BY <1>2, <3>1
  <2> QED BY <2>2, <2>4, <2>6, <2>7 DEF RoundStep
<1>10. CASE remove_child_done
  <2>1. activated' = activated /\ Top.pc = "child_done"
    BY <1>10 DEF remove_child_done, At, devstate
  <2>2. retv # "ERR" /\ (d \in C => retv # "EPROBE_DEFER")
    BY <1>1, <2>1 DEF Sweeps
  <2> DEFINE r == IF retv = "EPROBE_DEFER" THEN retv ELSE Top.ret
             f == ToRet("children", r)
  <2>3. r \in Codes /\ (d \in C => r = "OK")
    BY <1>3, <1>4, <2>2 DEF Codes
  <2>4. /\ f \in Frames /\ f.fn = "device_remove" /\ f.dev = d /\ f.pc = "children"
        /\ f.kids = Top.kids /\ f.ret = r /\ f.flags = Top.flags
    BY <1>1, <2>3, FrameTypes DEF Pcs
  <2>5. stack' = <<f>> \o Tail(stack)
    BY <1>10, <2>2 DEF remove_child_done, Goto
  <2> HIDE DEF f, r
  <2>6. RoundStep(T, C, G, board, activated, stack, n, activated, <<f>> \o Tail(stack), retv')
    BY <1>1, <2>1, <2>3, <2>4, RoundGoes
  <2> QED BY <2>1, <2>5, <2>6
<1>11. CASE remove_children_done
  <2> DEFINE cret == flags_remove(Top.flags, board.drvflags[d])
  <2>1. activated' = activated /\ Top.pc = "children" /\ Top.kids = {}
        /\ IF Top.ret # "OK" THEN Return(Top.ret)
           ELSE IF cret # "OK" THEN Return(cret) ELSE Goto(To("hook"))
    BY <1>11 DEF remove_children_done, At, devstate
  <2>2. d \in activated
    BY <1>1, <1>4, <2>1 DEF RemoveOK
  <2>3. CASE Top.ret # "OK"
    <3>1. stack' = Tail(stack) /\ retv' = "EPROBE_DEFER" /\ d \notin C /\ d \notin T
      BY <1>3, <1>4, <1>5, <2>1, <2>3 DEF Return
    <3>2. SweepReturn(T, C, activated, activated', Top, "EPROBE_DEFER")
      BY <2>1, <2>2, <3>1 DEF SweepReturn
    <3> QED BY <1>7, <2>1, <3>1, <3>2
  <2>4. CASE Top.ret = "OK" /\ cret # "OK"
    <3>1. stack' = Tail(stack) /\ retv' = cret
      BY <2>1, <2>4 DEF Return
    <3>2. cret # "ERR" /\ d \notin T /\ (d \in C => cret # "EPROBE_DEFER")
      BY <1>1, <1>3, <1>5, <2>4
    <3> HIDE DEF cret
    <3>3. SweepReturn(T, C, activated, activated', Top, cret)
      BY <2>1, <2>2, <3>2 DEF SweepReturn
    <3> QED BY <1>7, <2>1, <3>1, <3>3
  <2>5. CASE Top.ret = "OK" /\ cret = "OK"
    <3> DEFINE f == To("hook")
    <3>1. /\ f \in Frames /\ f.fn = "device_remove" /\ f.dev = d /\ f.pc = "hook" /\ f.ret = "OK"
          /\ f.flags = Top.flags
      BY <1>1, <2>5, FrameTypes DEF Pcs
    <3>2. stack' = <<f>> \o Tail(stack)
      BY <2>1, <2>5 DEF Goto
    <3> HIDE DEF f
    <3>3. flags_remove(f.flags, board.drvflags[f.dev]) = "OK"
      BY <2>5, <3>1
    <3>4. RoundStep(T, C, G, board, activated, stack, n, activated, <<f>> \o Tail(stack), retv')
      BY <1>1, <3>1, <3>3, RoundGoes
    <3> QED BY <2>1, <3>2, <3>4
  <2> QED BY <2>3, <2>4, <2>5
<1>12. CASE remove_hook
  <2>1. stack' = Tail(stack) /\ retv' = "OK" /\ activated' = activated \ {d} /\ Top.pc = "hook"
    BY <1>6, <1>12 DEF remove_hook, Return, At
  <2>2. KidsIn(activated, d) = {}
    BY <1>1, <1>4, <2>1 DEF RemoveOK
  <2>3. SweepReturn(T, C, activated, activated', Top, "OK")
    BY <2>1, <2>2 DEF SweepReturn
  <2> QED BY <1>3, <1>7, <2>1, <2>3
<1> QED BY <1>8, <1>9, <1>10, <1>11, <1>12 DEF remove_step

\* The outermost call stays the same until it returns.
LEMMA OutermostKept ==
  ASSUME TypeOK, stack # <<>>, StackStep, stack' # <<>>
  PROVE  /\ stack'[Len(stack')].fn = stack[Len(stack)].fn
         /\ stack'[Len(stack')].flags = stack[Len(stack)].flags
         /\ Len(stack) > 1 => stack'[Len(stack')] = stack[Len(stack)]
         /\ Len(stack') \in Nat /\ Len(stack') >= 1
<1>1. stack \in Seq(Frames) /\ Len(stack) \in Nat /\ Len(stack) >= 1 /\ Top = stack[1]
  BY Pops DEF TypeOK, Top
<1>2. CASE stack' = Tail(stack)
  <2>1. Len(stack') = Len(stack) - 1 /\ \A i \in 1..(Len(stack) - 1) : stack'[i] = stack[i + 1]
    BY <1>1, <1>2, Pops
  <2>2. stack' \in Seq(Frames) /\ Len(stack') >= 1
    BY <1>1, <1>2, Pops
  <2>3. Len(stack') \in 1..(Len(stack) - 1) /\ Len(stack') + 1 = Len(stack)
    BY <1>1, <2>1, <2>2
  <2>4. stack'[Len(stack')] = stack[Len(stack)]
    BY <2>1, <2>3
  <2> QED BY <1>1, <2>1, <2>2, <2>4
<1>3. CASE \E f \in Frames : stack' = <<f>> \o Tail(stack) /\ Continues(f)
  <2>1. PICK f \in Frames : stack' = <<f>> \o Tail(stack) /\ Continues(f)
    BY <1>3
  <2>2. /\ Len(stack') = Len(stack) /\ stack'[1] = f
        /\ \A i \in 2..Len(stack) : stack'[i] = stack[i]
    BY <1>1, <2>1, Replaces
  <2>3. Len(stack) = 1 \/ Len(stack) \in 2..Len(stack)
    <3>1. \A k \in Nat : k >= 1 => k = 1 \/ k \in 2..k
      OBVIOUS
    <3> QED BY <1>1, <3>1
  <2> QED BY <1>1, <2>1, <2>2, <2>3 DEF Continues
<1>4. CASE \E f, g \in Frames : stack' = <<g, f>> \o Tail(stack) /\ Continues(f)
  <2>1. PICK f \in Frames, g \in Frames : stack' = <<g, f>> \o Tail(stack) /\ Continues(f)
    BY <1>4
  <2>2. /\ Len(stack') = Len(stack) + 1 /\ stack'[2] = f
        /\ \A i \in 3..(Len(stack) + 1) : stack'[i] = stack[i - 1]
    BY <1>1, <2>1, Pushes
  <2>3. CASE Len(stack) = 1
    BY <1>1, <2>1, <2>2, <2>3 DEF Continues
  <2>4. CASE Len(stack) # 1
    <3>1. Len(stack') \in 3..(Len(stack) + 1) /\ Len(stack') - 1 = Len(stack)
      <4>1. \A k \in Nat : k >= 1 /\ k # 1 => k + 1 \in 3..(k + 1) /\ (k + 1) - 1 = k
        OBVIOUS
      <4> QED BY <1>1, <2>2, <2>4, <4>1
    <3>2. stack'[Len(stack')] = stack[Len(stack)]
      BY <2>2, <3>1
    <3> QED BY <1>1, <2>2, <3>2
  <2> QED BY <2>3, <2>4
<1> QED BY <1>2, <1>3, <1>4 DEF StackStep

\* A step of dm_remove_devices_active() is one of its first or second round.
LEMMA StopRounds ==
  ASSUME RemoveProbesNothing, Layered, TypeOK, Shape, TreeInv, ActiveInv, StopInv, Next,
         Stopping(stack), "remove" \notin board.fallible
  PROVE  IF InFirst(stack)
         THEN RoundStep(FirstStops(board), FirstCalm(board), FirstFlags, board, activated, stack,
                        Len(stack) - 1, activated', stack', retv')
         ELSE RoundStep(SecondStops(board), Devices, SecondFlags, board, activated, stack,
                        Len(stack), activated', stack', retv')
<1>1. stack # <<>> /\ stack[1] = Top /\ Len(stack) \in Nat /\ Len(stack) >= 1 /\ board \in Boards
      /\ Top.dev \in Devices
  <2>1. stack # <<>>
    BY DEF Stopping
  <2> QED BY <2>1, Pops, TopFields DEF TypeOK, Top
<1>2. Top.fn = "device_remove"
  <2>1. CASE InFirst(stack)
    <3>1. Sweeps(FirstStops(board), FirstCalm(board), FirstFlags, board, activated, stack, Len(stack) - 1, retv)
      BY <2>1 DEF StopInv
    <3>2. 1 \in 1..(Len(stack) - 1)
      BY <1>1, <2>1 DEF InFirst
    <3> QED BY <1>1, <3>1, <3>2 DEF Sweeps, SweepFrame
  <2>2. CASE ~InFirst(stack)
    <3>1. Sweeps(SecondStops(board), Devices, SecondFlags, board, activated, stack, Len(stack), retv)
      BY <2>2 DEF StopInv
    <3>2. 1 \in 1..Len(stack)
      BY <1>1
    <3> QED BY <1>1, <3>1, <3>2 DEF Sweeps, SweepFrame
  <2> QED BY <2>1, <2>2
<1>3. remove_step
  <2>1. ~of_to_plat_step
    BY <1>2 DEF of_to_plat_step, of_to_plat_entry, of_to_plat_parent, of_to_plat_hook, At
  <2>2. ~probe_step
    BY <1>2 DEF probe_step, probe_entry, probe_plat, probe_parent, probe_pre, probe_hook, probe_post,
       probe_fail_uclass, At
  <2>3. ~unbind_step /\ ~bind_step
    BY <1>2 DEF unbind_step, unbind_entry, unbind_child, unbind_child_done, unbind_children_done,
       bind_step, bind_entry, bind_child, bind_hook, At
  <2>4. ~HookProbes
    BY <1>1, <1>2 DEF HookProbes, RemoveProbesNothing, TypeOK
  <2>5. ~(device_probe \/ device_remove \/ device_unbind \/ device_bind \/ dm_remove_devices_active)
    BY <1>1 DEF device_probe, device_remove, device_unbind, device_bind, dm_remove_devices_active, Invoke
  <2> QED BY <2>1, <2>2, <2>3, <2>4, <2>5 DEF Next
<1>4. CASE InFirst(stack)
  <2>1. Sweeps(FirstStops(board), FirstCalm(board), FirstFlags, board, activated, stack, Len(stack) - 1, retv)
    BY <1>4 DEF StopInv
  <2>2. RoundOK(FirstStops(board), FirstCalm(board), FirstFlags, board)
    BY <1>1, FirstOK
  <2>3. RoundStep(FirstStops(board), FirstCalm(board), FirstFlags, board, activated, stack,
                  Len(stack) - 1, activated', stack', retv')
    BY <1>3, <2>1, <2>2, RemoveSweeps
  <2> QED BY <1>4, <2>3
<1>5. CASE ~InFirst(stack)
  <2>1. Sweeps(SecondStops(board), Devices, SecondFlags, board, activated, stack, Len(stack), retv)
    BY <1>5 DEF StopInv
  <2>2. RoundOK(SecondStops(board), Devices, SecondFlags, board)
    BY <1>1, SecondOK
  <2>3. RoundStep(SecondStops(board), Devices, SecondFlags, board, activated, stack,
                  Len(stack), activated', stack', retv')
    BY <1>3, <2>1, <2>2, RemoveSweeps
  <2> QED BY <1>5, <2>3
<1> QED BY <1>4, <1>5

\* Every step keeps the invariant of dm_remove_devices_active().
LEMMA StopStep ==
  ASSUME RemoveProbesNothing, Layered, TypeOK, Shape, TreeInv, ActiveInv, StopInv, Next
  PROVE  StopInv'
<1>1. StackStep /\ board' = board /\ board \in Boards
  BY StepShape DEF TypeOK
<1>2. stack' \in Seq(Frames)
  BY <1>1, StackTyped
<1>3. SUFFICES ASSUME Stopping(stack'), "remove" \notin board.fallible
      PROVE  IF InFirst(stack')
             THEN Sweeps(FirstStops(board), FirstCalm(board), FirstFlags, board, activated', stack',
                         Len(stack') - 1, retv')
             ELSE /\ Sweeps(SecondStops(board), Devices, SecondFlags, board, activated', stack',
                            Len(stack'), retv')
                  /\ activated' \cap FirstStops(board) = {}
  BY <1>1 DEF StopInv
<1>4. stack' # <<>>
  BY <1>3 DEF Stopping
\* The second round, when it is the whole stack, is not taken for the first.
<1>5. ASSUME NEW T, NEW C, NEW G, Sweeps(T, C, G, board, activated', stack', Len(stack'), retv')
      PROVE  ~InFirst(stack')
  <2>1. ASSUME InFirst(stack') PROVE FALSE
    <3>1. Len(stack') > 1 /\ Len(stack') \in Nat /\ stack'[Len(stack')] = SecondCall
      BY <1>2, <2>1 DEF InFirst
    <3>2. Len(stack') \in 2..Len(stack')
      BY <3>1
    <3>3. stack'[Len(stack')].pc = "child_done"
      BY <1>5, <3>2 DEF Sweeps
    <3> QED BY <3>1, <3>3 DEF SecondCall, Frame
  <2> QED BY <2>1
<1>6. CASE stack = <<>>
  <2>1. dm_remove_devices_active
    <3>1. \/ device_probe \/ device_remove \/ device_unbind \/ device_bind \/ dm_remove_devices_active
      BY <1>6 DEF Next, of_to_plat_step, of_to_plat_entry, of_to_plat_parent, of_to_plat_hook,
         probe_step, probe_entry, probe_plat, probe_parent, probe_pre, probe_hook, probe_post,
         probe_fail_uclass, remove_step, remove_entry, remove_child, remove_child_done,
         remove_children_done, remove_hook, unbind_step, unbind_entry, unbind_child, unbind_child_done,
         unbind_children_done, bind_step, bind_entry, bind_child, bind_hook, HookProbes, At
    <3>2. ASSUME NEW fn, NEW d, NEW fl, stack' = <<Frame(fn, d, fl)>>
          PROVE  fn = "device_remove" /\ "ACTIVE" \in fl
      <4>1. Len(stack') = 1 /\ stack'[1] = Frame(fn, d, fl)
        BY <3>2
      <4>2. stack'[1].fn = "device_remove" /\ "ACTIVE" \in stack'[1].flags
        BY <1>3, <4>1 DEF Stopping
      <4> QED BY <4>1, <4>2 DEF Frame
    <3>3. ~(device_probe \/ device_unbind \/ device_bind)
      BY <3>2 DEF device_probe, device_unbind, device_bind, Invoke
    <3>4. ~device_remove
      BY <3>2 DEF device_remove, Invoke
    <3> QED BY <3>1, <3>3, <3>4
  <2> DEFINE g == Frame("device_remove", Root, {"ACTIVE", "NON_VITAL"})
  <2>2. stack' = <<g, SecondCall>>
    BY <2>1 DEF dm_remove_devices_active, Invoke, SecondCall
  <2>3. /\ g.fn = "device_remove" /\ g.dev = Root /\ g.flags \in FirstFlags /\ IsEntry(g)
    BY DEF Frame, FirstFlags, IsEntry
  <2> HIDE DEF g
  <2>4. Len(stack') = 2 /\ stack'[1] = g /\ stack'[2] = SecondCall /\ Len(stack') - 1 = 1
    BY <2>2
  <2>5. Sweeps(FirstStops(board), FirstCalm(board), FirstFlags, board, activated', stack', 1, retv')
    BY <1>2, <1>4, <2>3, <2>4, SweepStarts
  <2>6. InFirst(stack')
    BY <2>4 DEF InFirst
  <2> QED BY <2>4, <2>5, <2>6
<1>7. CASE stack # <<>>
  <2>1. /\ stack'[Len(stack')].fn = stack[Len(stack)].fn
        /\ stack'[Len(stack')].flags = stack[Len(stack)].flags
        /\ Len(stack) > 1 => stack'[Len(stack')] = stack[Len(stack)]
        /\ Len(stack') \in Nat /\ Len(stack') >= 1
    BY <1>1, <1>4, <1>7, OutermostKept
  <2>2. Stopping(stack)
    BY <1>3, <1>7, <2>1 DEF Stopping
  <2>3. Len(stack) \in Nat /\ stack \in Seq(Frames)
    BY DEF TypeOK
  <2>4. CASE InFirst(stack)
    <3>1. RoundStep(FirstStops(board), FirstCalm(board), FirstFlags, board, activated, stack,
                    Len(stack) - 1, activated', stack', retv')
      BY <1>3, <2>2, <2>4, StopRounds
    <3>2. Len(stack) > 1 /\ stack'[Len(stack')] = SecondCall
      BY <2>1, <2>4 DEF InFirst
    <3>3. ASSUME NEW m \in Nat, Len(stack') - m = Len(stack) - (Len(stack) - 1),
                 Sweeps(FirstStops(board), FirstCalm(board), FirstFlags, board, activated', stack', m, retv')
          PROVE  InFirst(stack') /\ m = Len(stack') - 1
      <4>1. m >= 1
        BY <3>3 DEF Sweeps
      <4>2. m = Len(stack') - 1 /\ Len(stack') > 1
        BY <2>1, <2>3, <3>3, <4>1
      <4> QED BY <3>2, <4>2 DEF InFirst
    <3>4. ASSUME Len(stack) - 1 = 1, stack' = Tail(stack), activated' \cap FirstStops(board) = {}
          PROVE  /\ Sweeps(SecondStops(board), Devices, SecondFlags, board, activated', stack',
                           Len(stack'), retv')
                 /\ Len(stack') = 1
      <4>1. Len(stack') = 1
        BY <1>7, <2>3, <3>4, Pops
      <4>2. stack'[1] = SecondCall
        BY <3>2, <4>1
      <4>3. /\ SecondCall.fn = "device_remove" /\ SecondCall.dev = Root /\ SecondCall.flags \in SecondFlags
            /\ IsEntry(SecondCall)
        BY DEF SecondCall, Frame, SecondFlags, IsEntry
      <4>4. Sweeps(SecondStops(board), Devices, SecondFlags, board, activated', stack', 1, retv')
        BY <1>2, <1>4, <4>2, <4>3, SweepStarts
      <4> QED BY <4>1, <4>4
    <3>5. CASE \E m \in Nat :
                 /\ Len(stack') - m = Len(stack) - (Len(stack) - 1)
                 /\ Sweeps(FirstStops(board), FirstCalm(board), FirstFlags, board, activated', stack', m, retv')
      BY <3>3, <3>5
    <3>6. CASE Len(stack) - 1 = 1 /\ stack' = Tail(stack) /\ activated' \cap FirstStops(board) = {}
      BY <1>5, <3>4, <3>6
    <3> QED BY <3>1, <3>5, <3>6 DEF RoundStep
  <2>5. CASE ~InFirst(stack)
    <3>1. RoundStep(SecondStops(board), Devices, SecondFlags, board, activated, stack,
                    Len(stack), activated', stack', retv')
      BY <1>3, <2>2, <2>5, StopRounds
    <3>2. activated' \subseteq activated /\ activated \cap FirstStops(board) = {}
      BY <1>3, <2>2, <2>5, <3>1 DEF RoundStep, StopInv
    <3>3. ASSUME NEW m \in Nat, Len(stack') - m = Len(stack) - Len(stack) PROVE m = Len(stack')
      BY <2>1, <2>3, <3>3
    <3>4. ~(Len(stack) = 1 /\ stack' = Tail(stack))
      <4>1. stack' = Tail(stack) => Len(stack') = Len(stack) - 1
        BY <1>7, <2>3, Pops
      <4> QED BY <2>1, <4>1
    <3>5. Sweeps(SecondStops(board), Devices, SecondFlags, board, activated', stack', Len(stack'), retv')
      BY <3>1, <3>3, <3>4 DEF RoundStep
    <3> QED BY <1>5, <3>2, <3>5
  <2> QED BY <2>4, <2>5
<1> QED BY <1>6, <1>7

\* The invariants hold with that of dm_remove_devices_active().
LEMMA StopInvariant ==
  ASSUME BindersSucceed, RemoveProbesNothing, Layered
  PROVE  Spec => [](TypeOK /\ Shape /\ TreeInv /\ ActiveInv /\ StopInv)
<1>1. Init => StopInv
  BY DEF Init, StopInv, Stopping
<1>2. TypeOK /\ Shape /\ TreeInv /\ ActiveInv /\ StopInv /\ [Next]_vars => StopInv'
  <2>1. ASSUME TypeOK, Shape, TreeInv, ActiveInv, StopInv, Next PROVE StopInv'
    BY <2>1, StopStep
  <2>2. ASSUME StopInv, UNCHANGED vars PROVE StopInv'
    BY <2>2 DEF StopInv, vars
  <2> QED BY <2>1, <2>2
<1> QED BY <1>1, <1>2, ActiveInvariant, PTL DEF Spec

\* When dm_remove_devices_active() is done, every device that may do DMA or needs
\* preparing for the OS has been stopped, whatever the flags of those around it,
\* in any tree: where there is such a device, removing devices does not fail.
THEOREM ActiveStoppedTheorem ==
  ASSUME BindersSucceed, RemoveProbesNothing, Layered, StopsSucceed
  PROVE  Spec => ActiveStopped
<1>1. ASSUME TypeOK, Shape, TreeInv, ActiveInv, StopInv, Next, Shutdown, stack' = <<>>,
             NEW d \in activated'
      PROVE  "ACTIVE" \notin board.drvflags[d]
  <2>1. d \in Devices /\ board \in Boards /\ Stopping(stack) /\ Len(stack') = 0
        /\ stack \in Seq(Frames) /\ Len(stack) \in Nat /\ stack # <<>>
    BY <1>1, StepShape DEF TypeOK, Shutdown, Stopping
  <2>2. CASE "remove" \in board.fallible
    BY <2>1, <2>2 DEF StopsSucceed
  <2>3. CASE "remove" \notin board.fallible
    <3>1. \A T, C, G, n : ~Sweeps(T, C, G, board, activated', stack', n, retv')
      BY <2>1 DEF Sweeps
    <3>2. stack' = Tail(stack) => Len(stack) = 1
      <4>1. Len(Tail(stack)) = Len(stack) - 1
        BY <2>1, Pops
      <4> QED BY <2>1, <4>1
    <3>3. CASE InFirst(stack)
      <4>1. RoundStep(FirstStops(board), FirstCalm(board), FirstFlags, board, activated, stack,
                      Len(stack) - 1, activated', stack', retv')
        BY <1>1, <2>1, <2>3, <3>3, StopRounds
      <4>2. Len(stack) - 1 = 1 /\ Len(stack) = 1
        BY <3>1, <3>2, <4>1 DEF RoundStep
      <4> QED BY <2>1, <4>2
    <3>4. CASE ~InFirst(stack)
      <4>1. RoundStep(SecondStops(board), Devices, SecondFlags, board, activated, stack,
                      Len(stack), activated', stack', retv')
        BY <1>1, <2>1, <2>3, <3>4, StopRounds
      <4>2. activated' \cap SecondStops(board) = {}
        BY <3>1, <4>1 DEF RoundStep
      <4> QED BY <1>1, <2>1, <4>2 DEF SecondStops
    <3> QED BY <3>3, <3>4
  <2> QED BY <2>2, <2>3
<1>2. TypeOK /\ Shape /\ TreeInv /\ ActiveInv /\ StopInv /\ [Next]_vars =>
        [Shutdown /\ stack' = <<>> => \A d \in activated' : "ACTIVE" \notin board.drvflags[d]]_vars
  BY <1>1
<1> QED BY <1>2, StopInvariant, PTL DEF Spec, ActiveStopped

\* dm_remove_devices_active() stops no vital device while a regular one that must
\* be stopped is active, on boards where no vital device is below such a one.
THEOREM VitalLastTheorem ==
  ASSUME BindersSucceed, RemoveProbesNothing, Layered, StopsSucceed, VitalApart
  PROVE  Spec => VitalLast
<1>1. ASSUME TypeOK, Shape, TreeInv, ActiveInv, StopInv, Next, Shutdown,
             NEW v \in activated \ activated', "VITAL" \in board.drvflags[v],
             NEW d \in activated', board.drvflags[d] = {"ACTIVE"}
      PROVE  FALSE
  <2>1. d \in Devices /\ board \in Boards /\ Stopping(stack) /\ d \in FirstStops(board)
    BY <1>1, StepShape DEF TypeOK, Shutdown, Stopping, FirstStops
  <2>2. "remove" \notin board.fallible
    <3>1. "ACTIVE" \in board.drvflags[d]
      BY <1>1
    <3> QED BY <2>1, <3>1 DEF StopsSucceed
  <2>3. CASE InFirst(stack)
    <3>1. RoundStep(FirstStops(board), FirstCalm(board), FirstFlags, board, activated, stack,
                    Len(stack) - 1, activated', stack', retv')
      BY <1>1, <2>1, <2>2, <2>3, StopRounds
    <3>2. PICK fl \in FirstFlags : flags_remove(fl, board.drvflags[v]) = "OK"
      BY <1>1, <3>1 DEF RoundStep
    <3>3. "NON_VITAL" \in fl /\ "NORMAL" \notin fl
      BY DEF FirstFlags
    <3> QED BY <1>1, <3>2, <3>3 DEF flags_remove
  <2>4. CASE ~InFirst(stack)
    <3>1. RoundStep(SecondStops(board), Devices, SecondFlags, board, activated, stack,
                    Len(stack), activated', stack', retv')
      BY <1>1, <2>1, <2>2, <2>4, StopRounds
    <3>2. activated' \subseteq activated
      BY <3>1 DEF RoundStep
    <3>3. activated \cap FirstStops(board) = {}
      BY <1>1, <2>1, <2>2, <2>4 DEF StopInv
    <3> QED BY <1>1, <2>1, <3>2, <3>3
  <2> QED BY <2>3, <2>4
<1>2. TypeOK /\ Shape /\ TreeInv /\ ActiveInv /\ StopInv /\ [Next]_vars =>
        [Shutdown => \A v \in activated \ activated' : "VITAL" \in board.drvflags[v] =>
           \A d \in activated' : board.drvflags[d] = {"ACTIVE"} => d \in Ancestors(v)]_vars
  BY <1>1
<1> QED BY <1>2, StopInvariant, PTL DEF Spec, VitalLast
=============================================================================
