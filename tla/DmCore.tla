------------------------------- MODULE DmCore -------------------------------
(***************************************************************************)
(* The driver-model core: binding, probing, removing and unbinding devices *)
(* (drivers/core/device.c and device-remove.c).  The functions call each   *)
(* other recursively along the device tree and call out to hooks, which    *)
(* may fail and may themselves probe or bind other devices.  The module is *)
(* a machine with an explicit call stack, one step per stretch of code     *)
(* between two calls.                                                      *)
(***************************************************************************)
EXTENDS Naturals, Sequences, FiniteSets

CONSTANTS Devices,      \* all devices there may be
          Root,         \* gd->dm_root
          ParentOf,     \* the parent of every other device
          Boards,       \* the sets of drivers to consider
          HookDepth     \* bound: hooks probe others below this stack depth

\* What the drivers and uclasses of a board do:
\*   uses: <<fn, d, t>> when the hooks of d called by fn may probe t
\*   fallible: the kinds of hooks which may fail
\*   bindsKids: a hook of device_bind() may bind child devices
\*   drvflags: driver flags, ACTIVE_DMA/OS_PREPARE as ACTIVE, and VITAL
BoardType ==
  [uses : SUBSET ({"device_of_to_plat", "device_probe", "device_remove"} \X Devices \X Devices),
   fallible : SUBSET {"bind", "plat", "probe", "post_probe", "remove", "unbind"},
   bindsKids : BOOLEAN,
   drvflags : [Devices -> SUBSET {"ACTIVE", "VITAL"}]]

ASSUME TreeAssumption ==
  /\ Root \in Devices
  /\ ParentOf \in [Devices \ {Root} -> Devices]
ASSUME BoardAssumption == HookDepth \in Nat /\ \A b \in Boards : b \in BoardType

VARIABLES bound,      \* devices linked into the tree, DM_FLAG_BOUND or about to be
          activated,  \* DM_FLAG_ACTIVATED
          plat_valid, \* DM_FLAG_PLATDATA_VALID
          priv,       \* devices whose priv buffers are allocated
          running,    \* devices whose probe() succeeded, with no remove() since
          board,      \* the drivers of this board, fixed at build time
          stack,      \* the calls in progress, innermost first
          retv        \* what the last call that returned returned

vars == <<bound, activated, plat_valid, priv, running, board, stack, retv>>
devstate == <<bound, activated, plat_valid, priv, running>>

Functions == {"device_bind", "device_of_to_plat", "device_probe", "device_remove", "device_unbind"}
RemoveFlags == {"NORMAL", "ACTIVE", "NON_VITAL"}
Codes == {"OK", "ERR", "EPROBE_DEFER", "EKEYREJECTED"}

Children(d) == {c \in bound \ {Root} : ParentOf[c] = d}
HasParent(d) == d # Root

-----------------------------------------------------------------------------
(* Calls and returns *)

\* kids: the children a loop has yet to visit; ret: a result to be returned
\* later; nested: the hook running has already called into driver model.
Frame(fn, d, flags) ==
  [fn |-> fn, dev |-> d, pc |-> "entry", flags |-> flags, kids |-> {}, ret |-> "OK", nested |-> FALSE]

Top == Head(stack)
At(fn, pc) == stack # <<>> /\ Top.fn = fn /\ Top.pc = pc

\* Replace the innermost frame, as the function runs on.
Goto(f) == stack' = <<f>> \o Tail(stack) /\ UNCHANGED retv
Resumed(pc, kids, ret, nested) ==
  [fn |-> Top.fn, dev |-> Top.dev, pc |-> pc, flags |-> Top.flags, kids |-> kids, ret |-> ret, nested |-> nested]
To(pc) == Resumed(pc, Top.kids, Top.ret, FALSE)
ToKids(pc, kids) == Resumed(pc, kids, Top.ret, FALSE)
ToRet(pc, r) == Resumed(pc, Top.kids, r, FALSE)
ToNested == Resumed(Top.pc, Top.kids, Top.ret, TRUE)

\* Call fn on d; the caller continues in frame f.
Call(f, fn, d, flags) ==
  stack' = <<Frame(fn, d, flags), f>> \o Tail(stack) /\ UNCHANGED retv

Return(r) == stack' = Tail(stack) /\ retv' = r

\* What a hook of the given kind may return
Hook(kind) == {"OK"} \cup (IF kind \in board.fallible THEN {"ERR"} ELSE {})

\* device_free()
device_free(d) ==
  /\ priv' = priv \ {d}
  /\ plat_valid' = plat_valid \ {d}

-----------------------------------------------------------------------------
(* device_of_to_plat() *)

of_to_plat_entry ==
  /\ At("device_of_to_plat", "entry")
  /\ IF Top.dev \in plat_valid THEN Return("OK")
     ELSE IF HasParent(Top.dev)
     THEN Call(To("parent"), "device_of_to_plat", ParentOf[Top.dev], {})
     ELSE retv' = "OK" /\ stack' = <<To("parent")>> \o Tail(stack)
  /\ UNCHANGED <<devstate, board>>

\* The parent's ofdata has been read, or there is no parent.
of_to_plat_parent ==
  /\ At("device_of_to_plat", "parent")
  /\ \/ retv # "OK" /\ Return(retv) /\ device_free(Top.dev)
     \/ /\ retv = "OK" /\ Top.dev \in plat_valid
        /\ Return("OK") /\ UNCHANGED <<priv, plat_valid>>
     \/ /\ retv = "OK" /\ Top.dev \notin plat_valid
        /\ Goto(To("hook")) /\ priv' = priv \cup {Top.dev} /\ UNCHANGED plat_valid
  /\ UNCHANGED <<bound, activated, running, board>>

\* drv->of_to_plat() returns.
of_to_plat_hook ==
  /\ At("device_of_to_plat", "hook")
  /\ \E r \in Hook("plat") :
       /\ Return(r)
       /\ IF r = "OK"
          THEN plat_valid' = plat_valid \cup {Top.dev} /\ UNCHANGED priv
          ELSE device_free(Top.dev)
  /\ UNCHANGED <<bound, activated, running, board>>

-----------------------------------------------------------------------------
(* device_probe() *)

probe_entry ==
  /\ At("device_probe", "entry")
  /\ IF Top.dev \in activated THEN Return("OK")
     ELSE \E r \in Hook("probe") :     \* EVT_DM_PRE_PROBE
            IF r = "OK" THEN Call(To("plat"), "device_of_to_plat", Top.dev, {})
                        ELSE Return(r)
  /\ UNCHANGED <<devstate, board>>

\* The fail: label
ProbeFails(r) ==
  /\ Return(r)
  /\ activated' = activated \ {Top.dev}
  /\ device_free(Top.dev)
  /\ UNCHANGED <<bound, running, board>>

probe_plat ==
  /\ At("device_probe", "plat")
  /\ \/ retv # "OK" /\ ProbeFails(retv)
     \/ /\ retv = "OK"
        /\ IF HasParent(Top.dev)
           THEN Call(To("parent"), "device_probe", ParentOf[Top.dev], {})
           ELSE Goto(To("parent"))
        /\ UNCHANGED <<devstate, board>>

\* Mutated form: the flag is not tested again.
probe_parent_notest ==
  /\ At("device_probe", "parent")
  /\ \/ retv # "OK" /\ ProbeFails(retv)
     \/ /\ retv = "OK"
        /\ Goto(To("pre")) /\ activated' = activated \cup {Top.dev}
        /\ UNCHANGED <<bound, plat_valid, priv, running, board>>

\* Mutated form: a parent that fails to probe is ignored.
probe_parent_noerr ==
  /\ At("device_probe", "parent")
  /\ IF Top.dev \in activated
     THEN Return("OK") /\ UNCHANGED activated
     ELSE Goto(To("pre")) /\ activated' = activated \cup {Top.dev}
  /\ UNCHANGED <<bound, plat_valid, priv, running, board>>

\* The parent is active; the device itself may have been probed meanwhile.
probe_parent ==
  /\ At("device_probe", "parent")
  /\ \/ retv # "OK" /\ ProbeFails(retv)
     \/ /\ retv = "OK"
        /\ IF Top.dev \in activated
           THEN Return("OK") /\ UNCHANGED activated
           ELSE Goto(To("pre")) /\ activated' = activated \cup {Top.dev}
        /\ UNCHANGED <<bound, plat_valid, priv, running, board>>

\* Power domain, pinctrl, IOMMU, DMA constraints, pre-probe hooks and clocks
probe_pre ==
  /\ At("device_probe", "pre")
  /\ \E r \in Hook("probe") :
       \/ r = "OK" /\ Goto(To("hook")) /\ UNCHANGED <<devstate, board>>
       \/ r # "OK" /\ ProbeFails(r)

\* drv->probe() returns.
probe_hook ==
  /\ At("device_probe", "hook")
  /\ \E r \in Hook("probe") :
       \/ /\ r = "OK"
          /\ Goto(To("post"))
          /\ running' = running \cup {Top.dev}
          /\ UNCHANGED <<bound, activated, plat_valid, priv, board>>
       \/ r # "OK" /\ ProbeFails(r)

\* Mutated form: a failure after probe() goes straight to fail:.
probe_post_noremove ==
  /\ At("device_probe", "post")
  /\ \E r \in Hook("post_probe") :
       \/ r = "OK" /\ Return("OK") /\ UNCHANGED <<devstate, board>>
       \/ r # "OK" /\ ProbeFails(r)

\* uclass_post_probe_device() and EVT_DM_POST_PROBE
probe_post ==
  /\ At("device_probe", "post")
  /\ \E r \in Hook("post_probe") :
       IF r = "OK" THEN Return("OK")
       ELSE Call(ToRet("fail_uclass", r), "device_remove", Top.dev, {"NORMAL"})
  /\ UNCHANGED <<devstate, board>>

probe_fail_uclass ==
  /\ At("device_probe", "fail_uclass")
  /\ ProbeFails(Top.ret)

-----------------------------------------------------------------------------
(* device_remove() *)

\* Mutated form: vital devices are not spared.
flags_remove_novital(flags, drv) ==
  IF "NORMAL" \notin flags /\ "ACTIVE" \in flags /\ "ACTIVE" \notin drv
  THEN "EKEYREJECTED" ELSE "OK"

flags_remove(flags, drv) ==
  IF "NORMAL" \in flags THEN "OK"
  ELSE IF "NON_VITAL" \in flags /\ "VITAL" \in drv THEN "EPROBE_DEFER"
  ELSE IF "ACTIVE" \in flags /\ "ACTIVE" \notin drv THEN "EKEYREJECTED"
  ELSE "OK"

\* The flags passed on to the children
ChildFlags(f) ==
  IF flags_remove(f.flags, board.drvflags[f.dev]) = "OK" THEN f.flags \ {"ACTIVE"} ELSE f.flags

remove_entry ==
  /\ At("device_remove", "entry")
  /\ IF Top.dev \notin activated THEN Return("OK")
     ELSE \E r \in Hook("remove") :    \* EVT_DM_PRE_REMOVE
            IF r = "OK" THEN Goto(ToKids("children", Children(Top.dev)))
                        ELSE Return(r)
  /\ UNCHANGED <<devstate, board>>

\* device_chld_remove(): one more child
remove_child ==
  /\ At("device_remove", "children")
  /\ \E c \in Top.kids :
       Call(ToKids("child_done", Top.kids \ {c}), "device_remove", c, ChildFlags(Top))
  /\ UNCHANGED <<devstate, board>>

\* Mutated form: the loop ends at a child that does not match the flags.
remove_child_done_stop ==
  /\ At("device_remove", "child_done")
  /\ IF retv \in {"ERR", "EKEYREJECTED"} THEN Return(retv)
     ELSE Goto(ToRet("children", IF retv = "EPROBE_DEFER" THEN retv ELSE Top.ret))
  /\ UNCHANGED <<devstate, board>>

\* Mutated form: a child that fails to stop is ignored.
remove_child_done_noerr ==
  /\ At("device_remove", "child_done")
  /\ Goto(ToRet("children", IF retv = "EPROBE_DEFER" THEN retv ELSE Top.ret))
  /\ UNCHANGED <<devstate, board>>

remove_child_done ==
  /\ At("device_remove", "child_done")
  /\ IF retv = "ERR" THEN Return("ERR")
     ELSE Goto(ToRet("children", IF retv = "EPROBE_DEFER" THEN retv ELSE Top.ret))
  /\ UNCHANGED <<devstate, board>>

\* Mutated form: the data is freed before remove() is called.
remove_children_done_free ==
  /\ At("device_remove", "children") /\ Top.kids = {}
  /\ LET cret == flags_remove(Top.flags, board.drvflags[Top.dev])
     IN IF Top.ret # "OK" THEN Return(Top.ret) /\ UNCHANGED <<priv, plat_valid>>
        ELSE IF cret # "OK" THEN Return(cret) /\ UNCHANGED <<priv, plat_valid>>
        ELSE Goto(To("hook")) /\ device_free(Top.dev)
  /\ UNCHANGED <<bound, activated, running, board>>

\* All children visited: give up, or go on with the device itself.
remove_children_done ==
  /\ At("device_remove", "children") /\ Top.kids = {}
  /\ LET cret == flags_remove(Top.flags, board.drvflags[Top.dev])
     IN IF Top.ret # "OK" THEN Return(Top.ret)
        ELSE IF cret # "OK" THEN Return(cret)
        ELSE Goto(To("hook"))
  /\ UNCHANGED <<devstate, board>>

\* uclass_pre_remove_device() and drv->remove() return, then the device is
\* deactivated; EVT_DM_POST_REMOVE may still fail.
remove_hook ==
  /\ At("device_remove", "hook")
  /\ \E r1, r2 \in Hook("remove") :
       \/ /\ r1 # "OK" /\ r2 = "OK"
          /\ Return(r1)
          /\ UNCHANGED <<devstate, board>>
       \/ /\ r1 = "OK"
          /\ Return(r2)
          /\ running' = running \ {Top.dev}
          /\ device_free(Top.dev)
          /\ activated' = activated \ {Top.dev}
          /\ UNCHANGED <<bound, board>>

-----------------------------------------------------------------------------
(* device_unbind() *)

unbind_entry ==
  /\ At("device_unbind", "entry")
  /\ IF Top.dev \in activated \/ Top.dev \notin bound THEN Return("ERR")
     ELSE \E r \in Hook("unbind") :    \* drv->unbind()
            IF r = "OK" THEN Goto(ToKids("children", Children(Top.dev)))
                        ELSE Return(r)
  /\ UNCHANGED <<devstate, board>>

\* device_chld_unbind() visits every child, whatever errors it meets.
unbind_child ==
  /\ At("device_unbind", "children")
  /\ \E c \in Top.kids :
       Call(ToKids("child_done", Top.kids \ {c}), "device_unbind", c, {})
  /\ UNCHANGED <<devstate, board>>

unbind_child_done ==
  /\ At("device_unbind", "child_done")
  /\ Goto(ToRet("children", IF Top.ret = "OK" THEN retv ELSE Top.ret))
  /\ UNCHANGED <<devstate, board>>

\* Mutated form: children that failed to unbind are forgotten.
unbind_children_done_noerr ==
  /\ At("device_unbind", "children") /\ Top.kids = {}
  /\ \E r \in Hook("unbind") :
       /\ Return(r)
       /\ bound' = IF r = "OK" THEN bound \ {Top.dev} ELSE bound
  /\ UNCHANGED <<activated, plat_valid, priv, running, board>>

\* uclass_pre_unbind_device(), then the device is unlinked and freed.
unbind_children_done ==
  /\ At("device_unbind", "children") /\ Top.kids = {}
  /\ IF Top.ret # "OK" THEN Return(Top.ret) /\ UNCHANGED bound
     ELSE \E r \in Hook("unbind") :
            /\ Return(r)
            /\ bound' = IF r = "OK" THEN bound \ {Top.dev} ELSE bound
  /\ UNCHANGED <<activated, plat_valid, priv, running, board>>

-----------------------------------------------------------------------------
(* device_bind() *)

\* The device is linked into the tree before its hooks run.
bind_entry ==
  /\ At("device_bind", "entry")
  /\ bound' = bound \cup {Top.dev}
  /\ Goto(To("hook"))
  /\ UNCHANGED <<activated, plat_valid, priv, running, board>>

\* post_bind() of a bus binds a child.
bind_child ==
  /\ board.bindsKids
  /\ At("device_bind", "hook")
  /\ \E c \in Devices \ (bound \cup {Root}) :
       ParentOf[c] = Top.dev /\ Call(Top, "device_bind", c, {})
  /\ UNCHANGED <<devstate, board>>

\* drv->bind(), child_post_bind() and post_bind() return.
bind_hook ==
  /\ At("device_bind", "hook")
  /\ \E r \in Hook("bind") :
       /\ Return(r)
       /\ bound' = IF r = "OK" THEN bound ELSE bound \ {Top.dev}
  /\ UNCHANGED <<activated, plat_valid, priv, running, board>>

-----------------------------------------------------------------------------
(* Hooks that use other devices, and callers from outside *)

\* A hook gets hold of another device, e.g. a GPIO, a clock or, for a bus,
\* one of its children, which probes it.
HookProbes ==
  /\ stack # <<>> /\ Len(stack) < HookDepth
  /\ Top.pc \in {"pre", "hook", "post"}
  /\ ~Top.nested
  /\ \E t \in bound :
       /\ <<Top.fn, Top.dev, t>> \in board.uses
       /\ Call(ToNested, "device_probe", t, {})
  /\ UNCHANGED <<devstate, board>>

Invoke(frames) ==
  /\ stack = <<>>
  /\ stack' = frames
  /\ UNCHANGED <<devstate, board, retv>>

device_probe == \E d \in bound : Invoke(<<Frame("device_probe", d, {})>>)
device_remove == \E d \in bound : Invoke(<<Frame("device_remove", d, {"NORMAL"})>>)
device_unbind == \E d \in bound \ {Root} : Invoke(<<Frame("device_unbind", d, {})>>)
device_bind == \E d \in Devices \ bound :
                 ParentOf[d] \in bound /\ Invoke(<<Frame("device_bind", d, {})>>)

\* Two rounds from the root: regular devices, then the vital ones
dm_remove_devices_active ==
  Invoke(<<Frame("device_remove", Root, {"ACTIVE", "NON_VITAL"}),
           Frame("device_remove", Root, {"ACTIVE"})>>)

\* dm_init() has bound and probed the root device.
Init ==
  /\ bound = {Root}
  /\ activated = {Root}
  /\ plat_valid = {Root}
  /\ priv = {Root}
  /\ running = {Root}
  /\ board \in Boards
  /\ stack = <<>>
  /\ retv = "OK"

of_to_plat_step == of_to_plat_entry \/ of_to_plat_parent \/ of_to_plat_hook
probe_step == \/ probe_entry \/ probe_plat \/ probe_parent \/ probe_pre
              \/ probe_hook \/ probe_post \/ probe_fail_uclass
remove_step == \/ remove_entry \/ remove_child \/ remove_child_done
               \/ remove_children_done \/ remove_hook
unbind_step == unbind_entry \/ unbind_child \/ unbind_child_done \/ unbind_children_done
bind_step == bind_entry \/ bind_child \/ bind_hook

Next ==
  \/ of_to_plat_step \/ probe_step \/ remove_step \/ unbind_step \/ bind_step
  \/ HookProbes
  \/ device_probe \/ device_remove \/ device_unbind \/ device_bind
  \/ dm_remove_devices_active

Spec == Init /\ [][Next]_vars

-----------------------------------------------------------------------------

Frames ==
  [fn : Functions, dev : Devices,
   pc : {"entry", "parent", "plat", "pre", "hook", "post", "fail_uclass", "children", "child_done"},
   flags : SUBSET RemoveFlags, kids : SUBSET Devices, ret : Codes, nested : BOOLEAN]

TypeOK ==
  /\ bound \subseteq Devices /\ activated \subseteq Devices /\ running \subseteq Devices
  /\ plat_valid \subseteq Devices /\ priv \subseteq Devices
  /\ board \in Boards
  /\ retv \in Codes
  /\ stack \in Seq(Frames)

\* "It is not permitted to have an active child device with a non-active
\* parent" (design.rst; the comment in device_remove()), at any moment, in
\* the middle of every probe, removal and error path.
ActiveParents == \A d \in activated \ {Root} : ParentOf[d] \in activated

\* The frames in which a driver's probe(), post-probe or remove() code runs
InDriver == {i \in DOMAIN stack : \/ stack[i].fn = "device_probe" /\ stack[i].pc \in {"hook", "post"}
                                  \/ stack[i].fn = "device_remove" /\ stack[i].pc = "hook"}

\* While the code of a driver runs, its private data and its platform data
\* are there, even when that code probes other devices which fail.
HookDataLive == \A i \in InDriver : stack[i].dev \in priv \cap plat_valid

\* Once every call has returned, the devices whose hardware runs are the
\* activated ones, so removing all devices stops all hardware; and they have
\* their data.
RunningIsActivated ==
  stack = <<>> => running = activated /\ activated \subseteq priv \cap plat_valid

\* The tree holds together: no bound device has a parent that was freed, and
\* every activated device is bound.
TreeIntact ==
  /\ \A d \in bound \ {Root} : ParentOf[d] \in bound
  /\ activated \subseteq bound

\* A driver's probe() is never entered again while it runs, and never called
\* for a device that runs already, however hooks probe each other.
ProbeOnce ==
  /\ LET probing == {i \in DOMAIN stack : stack[i].fn = "device_probe" /\ stack[i].pc = "hook"}
     IN \A i, j \in probing : stack[i].dev = stack[j].dev => i = j
  /\ At("device_probe", "hook") => Top.dev \notin running

\* A driver's probe() is called only when its parent's probe() has finished,
\* or when a hook of the parent, being probed itself, asked for the child.
ParentFirst ==
  At("device_probe", "hook") /\ HasParent(Top.dev) =>
    \/ ParentOf[Top.dev] \in running
    \/ \E i \in DOMAIN stack : /\ stack[i].fn = "device_probe" /\ stack[i].dev = ParentOf[Top.dev]
                               /\ stack[i].pc \in {"pre", "hook"}

\* device_probe() calls the probe() hooks once each and parents first, although
\* hooks probe parents, children and each other while they are being probed.
ProbeInOrder == ProbeOnce /\ ParentFirst

Shutdown == stack # <<>> /\ LET f == stack[Len(stack)] IN f.fn = "device_remove" /\ "ACTIVE" \in f.flags

\* When dm_remove_devices_active() is done, no device that may do DMA or needs
\* preparing for the OS is still active.
ActiveStopped ==
  [][Shutdown /\ stack' = <<>> => \A d \in activated' : "ACTIVE" \notin board.drvflags[d]]_vars

Ancestors(d) == {a \in Devices : \E n \in 1..Cardinality(Devices) :
                   \E p \in [1..(n + 1) -> Devices] :
                     /\ p[1] = d /\ p[n + 1] = a
                     /\ \A i \in 1..n : p[i] # Root /\ ParentOf[p[i]] = p[i + 1]}

\* During dm_remove_devices_active(), a vital device is removed only when no
\* regular device that is to be removed is left, apart from its own ancestors.
VitalLast ==
  [][Shutdown =>
       \A v \in activated \ activated' : "VITAL" \in board.drvflags[v] =>
         \A d \in activated' : board.drvflags[d] = {"ACTIVE"} => d \in Ancestors(v)]_vars
=============================================================================
