-------------------------------- MODULE MCDm --------------------------------
(* Small device trees for DmCore: a bus with two devices on it, and a      *)
(* provider (a GPIO or clock controller) next to the bus.                  *)
EXTENDS DmCoreProofs

CONSTANTS root, bus, dev, dev2, gpio

TreeDevices == {root, bus, dev, dev2, gpio}
Tree == [d \in TreeDevices \ {root} |-> IF d \in {dev, dev2} THEN bus ELSE root]

Probing == {"device_of_to_plat", "device_probe"}

\* Devices use providers only, never devices below themselves.
OrderedUses == Probing \X {bus, dev, dev2} \X {gpio} \cup Probing \X {dev2} \X {dev}

\* A device reads its address through its bus, and the bus, when it starts,
\* probes the device; a provider and the device use each other.
NestedUses ==
  {<<"device_of_to_plat", dev, bus>>, <<"device_probe", bus, dev>>,
   <<"device_probe", dev, gpio>>, <<"device_probe", gpio, dev>>}

\* Every assignment of flags in which the devices on the bus are regular
RegularBus ==
  {f \in [TreeDevices -> SUBSET {"ACTIVE", "VITAL"}] :
     f[root] = {} /\ "VITAL" \notin f[dev] \cup f[dev2]}
NoFlags == {[d \in TreeDevices |-> {}]}

BoardsWith(uses, fallible, bindsKids, flags) ==
  {[uses |-> uses, fallible |-> fallible, bindsKids |-> bindsKids, drvflags |-> f] : f \in flags}

\* Providers with hooks that may fail, but for remove(); or hooks that probe
\* in cycles, where removing and unbinding may fail.
HookBoards ==
  BoardsWith(OrderedUses, {"bind", "plat", "probe", "post_probe", "unbind"}, FALSE, NoFlags)
    \cup BoardsWith(NestedUses, {"remove", "unbind"}, TRUE, NoFlags)

\* Every choice of removal flags, with well-behaved hooks
FlagBoards == BoardsWith({}, {}, FALSE, RegularBus)

AllBoards == HookBoards \cup FlagBoards

\* Providers before the bus, the bus before its devices
Ranks ==
  [b \in AllBoards |->
     [d \in TreeDevices |->
        CASE d = root -> 0 [] d = gpio -> 1 [] d = bus -> 2 [] d = dev -> 3 [] d = dev2 -> 4]]

\* These boards satisfy the hypotheses of the theorems of DmCoreProofs.
ASSUME BoardsAssumption ==
  BindersSucceed /\ RemoveProbesNothing /\ Layered /\ StopsSucceed /\ VitalApart
=============================================================================
