# A TLA+ model of U-Boot's core state machines

U-Boot is a boot loader: it brings up hardware through a driver model, keeps a
small environment in non-volatile storage, finds an operating system, loads it
and hands over. This directory holds TLA+ modules for the parts of it whose
correctness depends on the *order* of steps (power failing in the middle of a
write, a hook calling back into its caller, threads that yield), TLC
configurations that check them on small instances, and TLAPS proofs for
instances of any size. `PROJECT.json` maps every definition to source lines.

Paths below are relative to the source tree. Reading order: `EnvStore`,
`EnvRedund`, `EnvRedundProofs`, `EnvFlash`; then `Sched`, `FwuUpdate`, `DmCore`,
`EfiEvents`, `EfiConsole`, `Tftp`, `Lmb`. The proofs of a module `X` are in `XProofs` (`FwuProofs`
for `FwuUpdate`, `EfiProofs` for the two EFI modules); read the definitions at its beginning
(the inductive invariants) and the theorems.

## 1. Inventory

U-Boot proper is single-threaded and sequential apart from cooperative threads
(`lib/uthread.c`); there are no interrupts to speak of. What is hard about it:

* **Power can fail at any instruction**, and whatever is in non-volatile storage
  at that moment is what the next boot starts from.
* **Re-entrancy**: callbacks (driver hooks, cyclic functions, environment
  callbacks, EFI events) call back into the code which called them.
* **Error paths**: most functions that fail half way undo part of what they did.
* **Cooperative interleaving**: `schedule()` is called from every delay loop and
  runs cyclic functions and other threads in between.

| Component | State | Operations | Interacts with | Hard part, and what makes it correct |
|---|---|---|---|---|
| Environment storage (`env/common.c`, `env/mmc.c`) | two copies on the medium, `gd->env_valid`, `env_flags`, hash table | load, save, erase | block layer; hash table | power failure and I/O errors between the copies, 8-bit serial: saves are atomic, a valid copy is never lost |
| Environment, NOR flash (`env/flash.c`) | two sectors with active/obsolete flags | load, save (erase, write, flip flags) | flash driver | power failure between erase, write and the two flag writes |
| Environment location selection (`env/env.c`) | `gd->env_load_prio`, `gd->env_has_init` | `env_select`, `env_load`, `env_save` | all back ends | one serial shared by all locations |
| Environment hash table (`lib/hashtable.c`) | open-addressed table | `hsearch_r`, `himport_r`, `hexport_r` | callbacks, flags | deleted slots, callbacks that change the table |
| Driver model (`drivers/core/`) | tree of devices, flags, private data | bind, probe, remove, unbind, shutdown | every driver and uclass, through hooks | recursion, hooks that probe or bind, failures half way: parents active before children, data live while hooks run |
| Uclasses and lookup (`drivers/core/uclass.c`) | uclass lists, sequence numbers | find, get, next | driver model | iteration while devices are bound or probed |
| Threads (`lib/uthread.c`) | circular list of threads, mutexes | create, schedule, mutex | cyclic functions; `cmd/spawn.c`; USB | no thread lost, mutual exclusion, progress |
| Cyclic functions (`common/cyclic.c`) | list of functions, re-entrancy flag | register, unregister, run | `schedule()`; watchdog, LEDs | list walk while functions change the list or yield |
| Jobs (`cmd/spawn.c`) | job slots | spawn, wait | threads | slots reused while a waiter holds an index |
| Multi-bank update (`lib/fwu_updates/`, `lib/efi_loader/efi_capsule.c`) | FWU metadata in two copies, bank contents, trial counter, capsules on disk | boot-time checks, capsule processing, accept, revert | EFI variables, disk, earlier boot stage | power failure at every write, trial accounting: always a bank to boot, always a way back |
| Memory reservations (`lib/lmb.c`) | sorted lists of memory and of reserved regions | reserve, alloc, free | image loading, EFI | coalescing and splitting keep the lists sorted and disjoint and lose nothing; allocation finds what there is |
| Block cache (`drivers/block/blkcache.c`) | LRU list | read, fill, invalidate | block layer | stale entries after a write |
| EFI events (`lib/efi_loader/efi_boottime.c`) | list of events, queue, task priority level, timers | create, close, signal, check, wait, set timer, raise, restore, ExitBootServices | notification functions of drivers and applications | functions that call services while lists are walked: levels nest, signals are served, waits end |
| EFI console input (`lib/efi_loader/efi_console.c`) | one-key buffer, an event, a polling timer | read a key, reset, poll | EFI events | the event and the buffer agree; who waits for a key gets it |
| EFI handles, protocols, memory, variables (`lib/efi_loader/`) | databases of handles, maps | boot and runtime services | everything | tables rather than protocol |
| Standard boot (`boot/`) | bootdevs, bootmeths, bootflows, iterator | scan, boot | driver model, file systems | resumable iteration |
| Images and verified boot (`boot/image*.c`) | images in memory | parse, verify, load | LMB, crypto | parsing rather than protocol |
| Android A/B, VBE (`boot/android_ab.c`, `boot/vbe*.c`) | slot metadata | select, mark | storage | tries counter against power failure |
| TFTP (`net/tftp.c`, `net/net.c`) | block numbers, window, wrap offset, timeout and retry counts | start, receive, time out, restart | Ethernet driver, a server | lost, late and duplicated packets, wrapping block numbers: the file arrives complete and in place, and the transfer ends |
| Rest of the network stack (`net/`) | protocol state of one transfer | DHCP, ARP, TCP, ... | Ethernet drivers | lost and duplicated packets, timeouts |
| File systems, partitions (`fs/`, `disk/`) | on-disk structures | read, write | block layer | layout rather than protocol |
| Command line, boot phases, bloblist, console, watchdog | see `PROJECT.json` | | | |
| Drivers, architectures, boards, host tools, vendored code | hardware-specific | | | outside the core logic |

## 2. Modules

| Module | Models | Main idea |
|---|---|---|
| `EnvStore` | what environment storage promises | abstract: one register, replaced atomically |
| `EnvRedund` | `env/mmc.c` with `CONFIG_ENV_REDUNDANT`, and the redundancy code of `env/common.c` | two copies and the RAM variables; `SavesAreAtomic` is `EnvStore` under a refinement mapping |
| `EnvRedundProofs` | | its theorems |
| `EnvFlash` | `env/flash.c` with two sectors | active and obsolete flags as bits that can only be cleared, two sectors, a save as a sequence of erase, write and flag steps; also implements `EnvStore` |
| `EnvFlashProofs` | | its theorems |
| `DmCore` | `drivers/core/device.c`, `device-remove.c`, `dm_remove_devices_active()` | an explicit call stack, one action per stretch of code between two calls |
| `MCDm`, `DmCoreProofs` | | a tree of five devices and sets of drivers, and the theorems |
| `Sched` | `lib/uthread.c`, `common/cyclic.c`, `schedule()` | one action per stretch between two `uthread_schedule()` calls |
| `MCSched`, `SchedProofs` | | an instance, and the theorems |
| `FwuUpdate` | `lib/fwu_updates/fwu.c`, `fwu_v1.c`, `fwu_v2.c`, the FWU parts of `efi_capsule.c` | persistent state, RAM state of one boot, the sequence of a boot as `pc` |
| `MCFwu`, `FwuProofs` | | an instance, and the theorems |
| `Lmb` | `lib/lmb.c` | the list operations as functions on lists of regions, compared with sets of addresses |
| `MCLmb`, `LmbProofs` | | an instance, and the theorems |
| `Tftp` | the client in `net/tftp.c`, with timeouts and restart of `net/net.c`; a server | a lossy network and the two ends; block numbers wrap |
| `TftpProofs` | | its theorems, for files that do not wrap |
| `EfiEvents` | event, timer and task priority services of `lib/efi_loader/efi_boottime.c` | an explicit call stack; applications and notification functions call any service |
| `EfiConsole`, `MCEfi` | console input of `lib/efi_loader/efi_console.c` | composed with `EfiEvents`: two events of which U-Boot's own functions are known |
| `EfiProofs` | | the theorems about both |

Definitions named `<operation>_<word>` with a comment "Mutated form" stand next
to the operation they alter: each is a plausible mistake in that code, and shows
that some property depends on getting the operation right. They are not part of
`Next`.

### EnvRedund

`media` is what the device holds: each copy has a format as the CRC checks see
it, a serial (`flags`) and contents. `env_valid` and `env_flags` are the two RAM
variables that tie RAM to the medium; `env_htab` is the environment itself.

* `Boot` and `env_reload` are `env_mmc_load()` with `env_check_redund()` and
  `env_import_redund()`; either read may fail if `ReadErrors`.
* A save is two actions, `env_mmc_save` (export: the serial is taken *before* the
  write) and `SaveDone` or `SaveFailed`; a power failure may come in between and
  leaves the old copy, the new one, or garbage. A write that fails (`WriteErrors`) leaves the same.
* An erase is `env_mmc_erase`, `ErasePrimary`, `EraseRedundant`; each of the two may fail.
* `ret` is what the last command returned. `seen` is a history: which of a failed read, a failed
  write and an erase there were since the last load.
* The serial is a byte: `Bump` wraps at `FlagsMax`, 255 in the code.

`Upgrade` and `EraseEnv` are the configuration options of the same names.
`BothHwparts` is the layout with one copy in each eMMC boot partition.

### EnvStore and its two implementations

`EnvStore` is a register, with the command in progress (`op`) and what the last one returned
(`ret`). A save is announced (`StartSave`), may take effect before it returns (`TakeEffect`), and ends
in one of two ways: it reports success and the register *has* been replaced (`CompleteSave`), or it
reports an error, or power fails, and the register has the old or the new contents
(`AbandonSave`). An erase that reports success has cleared it (`CompleteErase`). `TakeEffect`
is a step of its own because in `EnvFlash` the new environment becomes the stored one in the middle
of a save, when its last flag is written. `EnvRedund` and `EnvFlash` state `SavesAreAtomic` as
this specification under a refinement mapping. In `EnvRedund` it reads
`[][Calm => Store!Next \/ UNCHANGED Store!vars]_vars`: every step up to and including the first command
whose I/O fails is one of the register's steps, and a load starts this anew (`Calm`: no block
operation has failed since).

### EnvFlash

Each of the two sectors holds contents, a CRC that is right or not, and a flag byte
(`ENV_REDUND_ACTIVE` = 1, `ENV_REDUND_OBSOLETE` = 0; erased is 0xff). Power-on is
`env_flash_init()` and `env_flash_load()`, which also repair the flags; `env_flash_save()`
is one action per flash operation, each of which may fail, or be the last before
power fails. `gd->env_addr` and the two swapped pointers of the driver are variables of
the model because `env load` uses what was decided at power-on.

### DmCore

Device flags and allocations are sets of devices. `stack` holds a frame per
active call of `device_bind`, `device_of_to_plat`, `device_probe`,
`device_remove` or `device_unbind`; the actions `<function>_<label>` are the
code up to the next call. A *board* says which hooks may fail, which hooks probe
which devices, whether buses bind children, and the drivers' removal flags. All
hooks called in one stretch (power domain, pinctrl, uclass pre-probe...) are one
nondeterministic result; a hook that probes is the action `HookProbes`.
`running` is the hardware as the driver left it: `probe()` succeeded and
`remove()` has not been called since.

### Sched

`ring` is the circular list with `main_thread` first. Threads and cyclic functions are
arbitrary programs over the API, so the actions are the API calls: either of them may, whenever it
has the CPU, create a thread, take or release the mutex any number of times, yield, and
register or unregister any cyclic function, whatever the walk of the list is at. A thread runs
its own code (`run`), waits for the mutex (`lock`), is in the loop of `cyclic_run()` (`loop`), or runs a
cyclic function (`callback`), which may wait too (`cb_lock`). `iter` holds the two cursors of
`hlist_for_each_entry_safe()`; an entry that `hlist_del()` removed has `Poison` as its next one, and
a walk that follows it ends U-Boot (`cyclic_fault`). Two things no thread does: lock a mutex it owns, and end while it owns it.

### FwuUpdate

The stored state is the two metadata copies, the images with partial contents
(`torn`), the EFI variable `TrialStateCtr` (`ctr`, plus one, 0 when absent), the
capsule files and the capsule bit of `OsIndications`. A boot runs through `pc`:

    off -> init -> checks -> [invalidated -> switched] -> trial -> capsules
        -> (capsule -> image -> writing -> image_end)* -> post_switched -> reset
        or capsules -> os

Every call of `fwu_sync_mdata()` is `Sync`: RAM changes, and the copies in `sync`
are then written one by one (`WriteMdata`, secondary first). The next step of a
boot waits until `sync` is empty. Faults are recorded by kind in `faults`:

| Kind | What fails |
|---|---|
| `power` | power, at any point |
| `window` | power, between the switch to a new bank and the end of storing its state |
| `mdata` | a write of a metadata copy reports an error |
| `efi` | EFI initialisation, or setting or deleting the trial counter |
| `capsule` | a capsule cannot be read, is malformed, or writing an image fails |
| `earlier_stage` | the stage before U-Boot boots another bank than the active one |

`FaultSets` bounds which kinds come together; each property states the kinds it
tolerates. That makes explicit what protects against what. Two histories serve the trial
properties: `asked`, whether the operating system was to accept the last update, and `trialBoots`, which
counts every boot that goes on in the trial state, the one that finds the limit passed and
reverts the metadata included (`BootedInTrial`).

### Lmb

`available_mem` and `used_mem` are sequences of regions. The list functions
(`lmb_add_region_flags`, `lmb_free_list`, `AllocPlace`, `lmb_walk_slots`) are functions on such
sequences with the code's control: where the loop stops, what it merges, what it
returns. The state machine adds banks, and then reserves, allocates and frees anything
with any flags. Properties compare the result with sets of addresses.

### Tftp

The client is one action per kind of packet for `tftp_handler`, one for the timeout handler, and
one for each thing `net_loop()` does with `net_state`. One turn of the loop handles one packet or one timer.
`net_start_again` depends on who calls it. A handler (an error packet, too many timeouts) leaves the loop in
`CONTINUE`, so it goes to `RESTART`, to `FAIL` when the retries are used up, or, when the Ethernet devices have all been
tried, it sets a timer (`WAIT`). `net_loop()` itself calls it in `FAIL` (`net_loop_fail`: the server has refused the
file, or a block could not be stored); then the loop ends with `ENONET` unless that
makes it `RESTART`. `EthDevices` is the number of devices to rotate through, 0 for
`ethrotate=no`. The server, which is not part of U-Boot, is what RFC 2347 and 7440 servers do:
it sends a window from the last acknowledged block and repeats it when its own timer expires; a `file` of size 0
stands for one it refuses. Packets on their way are a queue for each direction; a fault loses the next one,
duplicates it, puts it behind the others or lets a timer expire too early, at most `MaxFaults` times.
`SequenceSize` is the number of block numbers, 65536 in the code, and `(short)` comparisons
are made at half of it. `file` is the size of the file and `mem` says which block has been
stored where.

### EfiEvents and EfiConsole

`stack` holds the calls in progress, the innermost first: the application or a
notification function (`app`, `notify`), the loop over the queue (`process`), the walks over the
list of events (`group`, `timer`), and `CheckEvent`, `WaitForEvent` and `ExitBootServices`
between two of their calls. Code runs only in the innermost frame. `raised` holds the levels a
caller has to restore, at most `MaxRaised` of them; it may raise the level to its own or a higher one, up to
`TPL_HIGH_LEVEL`. An event of any type may have a notification function (`WithFunction`); one
of level `TPL_APPLICATION` is queued and never called, since no code runs below that level. Whether a timer
has elapsed when a walk comes to it is
nondeterministic; that time passes is a fairness condition. An application calls services
without limit, notification functions at most `MaxCalls` times for each of these calls.
Functions of U-Boot's own events (`Registration`) do not call services freely: `EfiConsole`
gives theirs, `efi_cin_check()`.

## 3. Runs

| Run | Instance | Shows |
|---|---|---|
| `env_mmc` | serials 0..5, 3 environments; power failures, failing reads, writes and erases; erase and upgrade | up to the first failing operation after a load the two copies behave as `EnvStore`, so a save that reports success is what the next boot loads; an erase that reports success has erased; no save takes the last loadable copy |
| `env_flash` | two sectors, 3 environments; power failures, failing flash operations | the sectors refine `EnvStore` when flash operations do not fail; a backup is kept when they do |
| `env_flash_reload` (violation) | no fault at all | see findings |
| `dm` | bus with two devices, and a provider; (a) every hook but `remove()` fails, (b) hooks probe in cycles, `remove()` and `unbind()` fail, buses bind children, (c) every assignment of ACTIVE and VITAL with no vital device below the bus | parents active, data live in hooks, hardware matches flags, parents first, `probe()` once, tree intact; at shutdown all devices to be stopped are, vital ones last |
| `sched` | main and two threads, one mutex, two cyclic functions, with fairness | no thread lost, groups exact, mutual exclusion; only unregistering the next entry derails a walk; threads finish, waiting does not keep the owner of the mutex from running, due functions are called |
| `cyclic_unregister_next` (violation) | the same, without fairness | see findings |
| `fwu` | 2 banks of 2 images, both metadata versions, 2 capsules waiting, among them a partial update that U-Boot accepts itself; four fault sets | all FWU properties, each under the faults it tolerates |
| `fwu_trial_uncounted` (violation) | no fault at all | see findings |
| `lmb` | 8 addresses, two banks with a hole between, two flags, alignments 1 and 2 | lists sorted and disjoint; reserve and free exact from a coalesced list; allocation finds the highest, random allocation every place |
| `lmb_lost_reservation` (violation) | same | see findings |
| `tftp` | 8 block numbers, files of 3, 9 and 10 blocks of which 9 fit, one that is refused; a window of 2 blocks, two Ethernet devices, 3 retries, 3 faults | success means that every block is in its place, nothing is acknowledged that is not stored, the transfer ends, well unless refused or too large |
| `efi_events` | four applications of three events, two levels, console, groups, ExitBootServices; a timer event whose function has level `TPL_APPLICATION`; two calls by notification functions, one raised level per code | levels nest and hold no queued higher function back, signals are served, all exit events that have a function notified, no spurious key event, timers served, who waits for a key gets it |

**Why the bounds are enough.** *Environment*: with six serials the wrap happens, and failing
saves can move a serial by two and more; the theorems cover every width. A second and a third content tell old,
new and unrelated environments apart. *NOR flash*: the flag values are the two the code writes, the
erased byte and two that only a half-written or foreign byte has; the third content tells
"the older copy" from "some other one". *Driver model*: a bus with two children has a first
and a later child, and with a provider beside it every kind of edge (up, down, sideways)
and cycle; `HookDepth` (9 frames) exceeds the deepest chain the uses allow before
each hook has used its one nested call. *Scheduler*: two threads contend for the
mutex while the main thread schedules; with two cyclic functions there is a
current and a next entry. How often threads lock, register and yield is not bounded. *FWU*: two banks are the least
that allow an update; with three, the bank to update and the bank to go back to
differ, so two is the tighter case. Two images make partial updates and partial
acceptance possible; `MaxDir = 2` makes a mixture of capsules possible, and more
are delivered on later boots; `TrialCnt = 1` has a boot below, at and beyond the
limit. One capsule has no payload, which
makes the loop over payloads end before it starts. *LMB*: eight addresses hold
four regions with gaps, so a reservation can overlap two regions and touch a third, which
is the longest reach of any merge; every base, size and order of calls is explored, and
the state space is closed. *TFTP*: with eight block numbers a file of nine blocks wraps
once, after which late blocks of the first round have numbers of the second; one of
three blocks does not wrap, one of ten does not fit, and one is refused. Of two Ethernet devices the second
attempt has another one than the first, and the third wraps. Three faults lose a block,
its NACK and what repairs that. *EFI*: each application has three events, enough for a
function to signal its own, another's and a timer's; two levels above the application nest, and code may raise to
a fourth on which nothing is called. With `MaxRaised = 2` the properties hold as well, but checking
it takes minutes longer; the proofs have no such bound. Two
service calls let a notification function raise and restore the level, or create an event
and signal it.

**Fairness.**

* `Sched`: weak fairness of code running on, taken together for all threads: a turn of the lock loop of
  a thread that waits, a turn of the cyclic loop, the end of `schedule()`, and yielding from a thread's own
  code. The CPU does not stop, and code which waits calls `schedule()`. Strong fairness of a
  cyclic function's return, of each thread function's return, of the release of the mutex, and of the main thread calling
  `cyclic_run()`: these are enabled only while the thread has the CPU, and the contract of
  the API is that callbacks return, threads end and owners unlock. Fairness is never assumed for
  getting the CPU, for taking the mutex rather than yielding once more, or for a cyclic function being
  reached in the list. `ThreadsFinish` and `DueIsServed` are stated for walks of the list that
  end (`WalksEnd`): functions that keep registering each other again make one last for ever.
* `Tftp`: weak fairness of the client's handlers, of the server's answers and of the steps of
  `net_loop()` itself (`LoopStep`: a failure, the timer of a restart, the restart), which polls until the
  transfer ends. Strong fairness of the client's timeout: only
  an accepted block restarts its timer (`tftp.c`, `update_block_number()`), so a
  server that keeps repeating itself cannot put it off. No fairness of the server's
  timer or of faults.
* `EfiConsole`: weak fairness of U-Boot's own code between two notification functions, and
  of notification functions returning. Strong fairness of each timer elapsing when it
  is looked at again and again: time passes. Nothing is assumed of the application or
  of the user.

Deadlock checking is on in every run.

## 4. Findings

1. **`env_flash_reload`** (`env/flash.c:317`). `env_flash_load()` compares the sector in
   use with `gd->env_addr`, which is from power-on and not updated by a save. `env save`
   followed by `env load` swaps the sectors back, marks the copy just saved obsolete,
   and imports the older one.
2. **`cyclic_unregister_next`** (`common/cyclic.c:85`). `cyclic_run()` saves the next entry before it
   calls a function. If that function, or a thread it yields to, unregisters exactly that entry, the
   walk goes on through an entry that is no longer in the list and has `LIST_POISON1` as its next
   one. `doc/develop/cyclic.rst:60-62` calls both functions safe "on any struct cyclic_info,
   regardless of whether that instance is already registered or not". `CyclicWalkIsSafe` says that this is
   the only step that does harm.
3. **`fwu_trial_uncounted`** (`lib/efi_loader/efi_capsule.c:506`). A reverted bank
   keeps the state "valid" and cleared accept bits. A later update of only some
   images, without the OS-accept flag, switches to it in the trial state with no
   counter: boots are not counted, and nothing is reverted.
4. **`lmb_lost_reservation`** (`lib/lmb.c:220`). A range that overlaps two regions and
   ends where a third begins is merged with the first two only, which leaves neighbours of
   equal flags. A later reservation with other flags just below them returns 0, because
   the neighbours are merged on that occasion, and is not added.

### Known limits: where a property is stated under a condition

*Environment on MMC.* `env_export()` consumes a serial even if the write fails
(`env/common.c:599`): a failed save and its retry move it by two, and with 254 on the copy in
use the retry writes 0, which the comparison takes for older. `SavesAreAtomic` is therefore
claimed up to and including the first command whose block operation fails, and again from the next load
that reads both copies (`Calm`). With one copy in each eMMC boot partition
(`BothHwparts`), the result of erasing the primary copy is overwritten by that of
`mmc_set_env_part()` (`env/mmc.c:426`), so a failed erase is reported as success against
`doc/usage/cmd/eraseenv.rst:64`; `SuccessfulEraseErases` is claimed for
the other layout. `ValidBackup` is claimed from a load that could read both copies on, up to an erase: if
both reads fail at boot, `gd->env_valid` says "valid" although nothing was loaded, and a save may
pick the only good copy (`env/common.c:497`). `env_flags` is shared by all locations and survives a
switch to another one (`env/env.c:387`).

*Environment on NOR flash.* `KeepsABackup` excludes the reload of finding 1 (`seen` records it)
and `SavesAreAtomic` failing flash operations. A save that cannot erase, allocate or
restore the rest of the sector may return 0 all the same; the contents of that rest are not tracked.
A byte is programmed or not; an erase that is cut short leaves the copy as it was
or with a bad CRC.

*Driver model.* The run keeps apart situations in which the code does not hold
its invariants: a bus whose hooks probe a child and which then fails is deactivated above
its active child (`device.c:616`; `doc/develop/driver-model/design.rst:882` does not permit it); a nested probe of the *same* device fails and frees
its data while the outer one goes on (`device.c:521`); a `remove()` hook probes a provider
already removed (`device-remove.c:248`); `post_bind()` fails after binding children, and the
bus is freed under them (`device.c:235`); a regular bus kept back by a vital child is removed
in the second round, possibly after another vital device (contrast `VitalLast` with
`include/dm/root.h:190`); and one child that fails `remove()` at shutdown keeps its
later siblings active (`device-remove.c:64`), although `root.h:192` says all active
devices are removed.

*Threads and cyclic functions.* For unregistering the next entry see finding 2. A waiter may starve: an
owner that yields while it holds the mutex, and then releases and takes it again without
yielding, lets the waiter look at it only while it is locked (`uthread.c:143-147`), so a waiter
never gets it although the owner always unlocks. `LockIsHandedOn` therefore says only that the mutex keeps
being released and taken while someone waits, that is, that waiting does not stop the owner. `ThreadsFinish` is stated for threads
that do not wait for the mutex for ever. A thread that creates its successor and
ends is followed by the main thread and then by the successor, so a chain of such threads starves
others (`uthread.c:39`); in the model each thread is created once. A thread which locks a mutex it owns waits for ever
(`uthread.c:143`), and one that ends owning it makes others wait for ever; both are excluded.

*FWU.* A trial takes up to `CONFIG_FWU_TRIAL_STATE_CNT` + 1 boots: the boot that finds the limit
passed reverts the metadata only and goes on to the operating system with the firmware on trial
(`fwu.c:111-118`), although the help text (`Kconfig:31`) gives the limit as the number of
boots allowed. `CountedTrial` and `AllowedTrialBoots` grant that boot. `CountedTrial` is stated for version 2 and for
updates which the operating system is to accept (`asked`; finding 3 is about the
others), and tolerates power failures outside the window and failing capsules (`Counting`). Within
the window (after the switch to the new bank is stored, before its state and the
counter are) version 2 boots the new bank as accepted and version 1 boots on trial with no counter. A revert whose write
fails deletes the counter all the same (`fwu.c:113`). Two bad copies are copied over
each other with a fresh CRC (`fwu.c:372`); the model ends in `lost`. A failed repair
write makes `fwu_init()` fail once, and the retry goes on with the metadata in RAM. Two
revert capsules in one boot swap the banks twice (`efi_capsule.c:433`;
`doc/develop/uefi/fwu_updates.rst:158` says the revert leads to the other bank). If the
earlier stage falls back to a bank rejected before, it runs on trial with no counter.

*LMB.* `ExactWhenCoalesced` is stated for coalesced lists because of finding 4; from other
lists a free that splits a region can lose the upper part too. `AllocIsHighest` excludes
a limit smaller than the size, where `max_addr - size` wraps (`lmb.c:731`).

*TFTP.* The branch "Same block again" of the handler cannot be reached, because
every block that was handled leaves `prev_block` equal to `cur_block`, and `cur_block` is one
further by then. A first block that is lost
is not asked for again by a NACK, and block numbers from 0x8000 on are never NACKed, since they
are negative as `short`; both wait for a timeout. Packets in flight at a restart are
dropped, since the client's port changes; with a fixed port (`tftpsrcp`) they would not be. Each restart succeeds in starting
an Ethernet device (`eth_init()`). What an option the client did not ask for leaves in its variables is
set again by `tftp_start()`.

*EFI events.* An event closed while a call in progress goes on to use it, for example by its own
notification function, is excluded: `efi_boottime.c:237`, `:325` and `:882` would read it
after it was freed. A signal that arrives while the event's own function runs is lost: it is ignored because the
event is in the signaled state (`:309-310`), and the state is reset when the function returns (`:237-238`).
`SignalsAreServed` excepts it. Of exit events and timers with a function the signaled state is not reset at
all, so `SignalEvent()` on them is ignored from then on; what the property says of them is about the signal
that sets the state, and about the timer. A function of level `TPL_APPLICATION` is queued and never called.
An exit event that was signaled by hand before, and is first of its group, silences the whole group
(`ExitToldAll` says so). A group signaled on `TPL_APPLICATION` runs each function as it is
queued, so a lower level may come before a higher one that is signaled and not yet queued, contrary to the
comment in `efi_signal_event()`; `NoneHeldBack` is about queued functions. An event created in a group while that group is being signaled is notified
without having been signaled. `Reset()` of the console empties the buffer and leaves its
event signaled (`NoSpuriousWake` says so).

## 5. Proofs

`TLAPS` proves the following for every value of the constants that satisfies the
named assumptions.

**`EnvRedundProofs`** (assuming `DataAssumption`, `FlagsAssumption`: a serial has at
least three values, and `ConfigAssumption`).

* `TypeCorrect`: `Spec => []TypeOK`, all errors included.
* `InvariantHolds`: `Spec => []IInv`, and `SavesAtomic`: `Spec => SavesAreAtomic`, whatever fails. Atomicity
  is not inductive: that a save overwrites the *older* copy, and with a serial one above the newer,
  depends on what RAM knows of the medium (`RamTracksMedia`), which is said while `Calm` holds. That
  the new copy then wins the comparison, whatever serial the overwritten one had, are the lemmas
  `SerialSuccessor` and `WriteOther`. A load restores all this whatever serials earlier failures
  left. An erase must start with the primary copy so that no half-erased
  pair breaks the first (`EraseInOrder`). At least three serials are needed: with two, "one more" and
  "one less" are the same.
* `Refinement`: where no block operation fails, `Spec => Store!Spec`.
* `BackupInvariant`, `BackupKept`: `Spec => ValidBackup`. With failing writes, the copy `gd->env_valid` points
  at stays loadable and a save in progress writes the other one (`BackupInv`).
* `EraseIsReported`: with both copies in one partition (`BothHwparts = FALSE`) and
  whatever fails, an erase that reports success has invalidated both copies. The
  invariant is `EraseReported`: while the second copy is being erased and no error has been
  recorded, the first one is invalid.

**`SchedProofs`** (assuming `ThreadAssumption`). `InvariantHolds`
proves `IInv` for any number of threads and cyclic functions, with no limit on what they call; the rest
follow: `MutexIsExclusive`, `NoThreadIsLost`, `GrpDoneCorrect`, and `CyclicRunIsSafe`, which is
`Spec => CyclicWalkIsSafe`: the walk is entered once at a time, and no step other than unregistering the
entry it continues from takes it out of the list. The invariant has, besides the properties, `CyclicListOK`
(no function is registered twice, so removing one leaves no second entry of it) and `LoopHasTheCPU` (the loop itself does
not yield, so the entry it is at cannot change under it). Lemmas describe what the list
operations do to the set of members.

**`EnvFlashProofs`** (assuming `DataAssumption`, `FlagsAssumption` and
`ConfigAssumption`: any set of environments, any set of bytes as flags that has the three
the code writes).

* `TypeCorrect`: `Spec => []TypeOK`.
* `BackupKept`: `Spec => KeepsABackup`, with failing flash operations and power failing
  at any of them. The invariant is `BackupInv`: the copy found at power-on, or saved
  since, is good, and so is the other one when the two are about to change roles; a save
  erases and writes only the copy not in use.
* `SavesAtomic`: `Spec => SavesAreAtomic`, the refinement of `EnvStore`, and
  `SavesAreStored`: `Spec => SuccessfulSaveIsStored`. Both need `ChoiceInv`: up to the write of
  the new copy, `env_flash_init()` would choose the copy in use, were power to fail now; after it,
  the new copy is complete, and the old one is marked obsolete before anything else is done. A
  load that repairs both flags must leave nothing else to choose between the two repairs.

**`FwuProofs`** (assuming `BanksAssumption`, two banks or more, `TrialAssumption`,
`CapsuleAssumption` and the others declared in `FwuUpdate`; any capsules, any number of
images and payloads).

* `TypeTheorem`: `Spec => []TypeOK`, with `DiskInv` (what the first capsule on disk and the
  payloads left have to do with each other) and `RestOK`.
* `MetadataTheorem`: `Spec => []MetadataSurvives`. `SyncInv` says that copies not
  waiting to be written equal RAM and that both are good before the first of two
  writes; this is what makes the repair in `fwu_init` necessary.
* `SomeBankTheorem`: `Spec => []SomeBankBoots`, under every combination of faults.
  `BankInv` says the bank that runs is complete and, outside the trial state, is the
  active one from the boot-time checks on, so the update bank is another one.
* `RevertTheorem`: `Spec => []TrialCanRevert`. `RevertInv`: with no fallback by the
  earlier stage, both banks of a trial are complete, and a boot that found itself outside the
  trial state stays so until it resets.
* `ActiveBankTheorem`: `Spec => []ActiveBankComplete`. `TornInv` says where incomplete images are:
  in the update bank of both copies and of RAM, and among the payloads of capsules still on disk,
  which no boot refuses since none is in the trial state. The fault condition was too weak in an earlier version, and
  the proof attempt showed it: if power fails during an update *and*, later, a boot cannot drop the
  trial counter, that boot rejects and deletes the interrupted capsule, and a partial update
  afterwards switches to a bank with an incomplete image. The property is therefore claimed
  for power failures or EFI failures, not both.
* `AcceptTheorem`: `Spec => AcceptNeedsAll`, an action property, with all faults.
  `AcceptInv` relates the copy that would be read to the other one and to RAM: writes may fail, so
  RAM may be several changes ahead of both.
* `CountedTheorem`: `Spec => []CountedTrial`, for any capsules. `CountInv`: since an update which the operating system
  is to accept, metadata on trial have a counter ahead of the boots made, the bank to go
  back to is not on trial, and the boot past the limit, which is the last, has reverted the metadata
  before it goes on. Whether the operating system was to accept the update is known from the switch
  of banks on, hence the part that holds before it (`CountUpdate`).

**`DmCoreProofs`** (assuming `TreeAssumption` and `BoardAssumption`: any tree, any hooks, any
depth of nested calls).

* `TypeCorrect`: `Spec => []TypeOK`, for every board.
* `TreeTheorem`, `ActiveParentsTheorem`, `HookDataTheorem`, `RunningTheorem` and
  `ProbeOrderTheorem`: `TreeIntact`, `ActiveParents`, `HookDataLive`, `RunningIsActivated` and
  `ProbeInOrder` are invariants, under three hypotheses on the drivers. Each excludes a situation in
  which the code does not hold the invariant (section 4, Known limits):
  `BindersSucceed` (a bus that binds children does not fail afterwards),
  `RemoveProbesNothing` (a `remove()` hook does not probe), and `Layered`: where a hook called by a
  probe may fail, hooks probe only devices of lower `order` and `remove()` does not fail. Where no such
  hook fails, hooks may probe in cycles. `order` is any numbering in which parents come first.
  TLC evaluates the hypotheses on the boards of the run `dm` (`BoardsAssumption` in `MCDm`).
* The argument has three layers. `Shape`, about the call stack alone: each frame was called by
  the one below it at a place where the code makes that call (`Linked`), bind and unbind
  do not mix with the rest (`Uniform`), and where hooks fail probes go down in
  `order` (`Descends`), so no device occurs twice. `TreeInv`: which children are still
  bound at each place of the unbind loop. `ActiveInv`: what each frame knows of its device's flags and data
  (`FrameInv`), what a waiting frame may rely on when the call returns (`WaitInv`,
  `TopInv`), and that an active device not yet running is being probed by exactly one frame
  (`StartInv`). None of the five properties is inductive by itself: a return to a frame
  resumes a state that other frames have changed since.
* `ActiveStoppedTheorem`: `Spec => ActiveStopped`, and `VitalLastTheorem`: `Spec => VitalLast`, action
  properties of `dm_remove_devices_active()`. Both need `StopsSucceed` (where a device must be stopped,
  removals do not fail) and the second one `VitalApart` (no vital device is below a regular one that must be
  stopped). Without these the code does not hold the properties (section 4 again); TLC
  evaluates both on the boards of the run. The invariant is `StopInv`: each round has a set of devices it has been
  to, in which nothing it must stop is active, and every other active device is the root, or below a device it
  has not been to, or still ahead in the loop of its parent (`Visited`). A child whose removal is put off, or which does not match
  the flags, does not keep the loop from its siblings, and the result it returns does not keep back an
  ancestor the round must stop (`SweepFrame`, `RoundOK`). When the root's call returns, the active device of lowest `order` that has not
  been visited would have an active parent that has not been visited either, so there is none (`SweepEnds`).

**`EfiProofs`** (assuming `EventsAssumption`, `BoundAssumption`, `CreateAssumption` and
`ConsoleAssumption`: any events, types, levels, groups and applications, any depth to
which notification functions nest). It is about `ConsoleSpec`, the event services with the console
on top.

* `TypeTheorem`: `ConsoleSpec => []TypeOK`, which says that what is queued, signaled or used
  again by a walk, a check or a wait in progress still exists.
* `NoneHeldBackTheorem` and `LevelsNestTheorem`: both follow from `CoreInv`. Its parts
  are about the stack: the application is at the bottom and each notification function was called
  from the loop over the queue (`Bottom`); code that was interrupted is on the level to which
  the function above it returns, the first level it raised
  from is its own, and those levels do not descend (`Nested`); a queued function of a
  level above the current one has a loop over the queue, or a timer check that ends in
  one, above all code on the stack (`Served`). The last one needs the order of the queue (`Sorted`), since the
  loop stops at the first function that may not run. `Uses` says that frames refer to
  existing events only; `OwnInv` that the console's events are not closed.
* `SignalsTheorem`: `ConsoleSpec => SignalsAreServed`, and `ExitTheorem`: `ConsoleSpec => []ExitToldAll`. An event is `Due` if it
  is queued or ahead of a walk over its group. `Steady`, proved for each step, says that an event getting into
  the signaled state becomes due and stays so until it is called or closed. For a signal that finds the
  event in that state already, the invariant `PendInv` is needed: such an `EVT_NOTIFY_SIGNAL` event is
  due, or its function is running. `TellInv` says that an event which ExitBootServices() has yet to notify is
  due, and that `exit_end` is still on the stack. When that frame is on top again, no code but the
  application is below and the level is `TPL_APPLICATION`; with `Served`, only functions of that level, which are never
  called, can be queued, so nothing is left. The steps that matter
  are those that change the list during a walk: `Before`, the order of two events in the list, is kept
  by appending one (`CreateSignals`) and by removing another one (`CloseSignals`).
* `WakeTheorem`: `ConsoleSpec => NoSpuriousWake`, an action property. Timers, services and
  groups do not reach `wait_for_key`, because it is no timer and in no group.

**`LmbProofs`** (assuming `AddrAssumption`, `BanksAssumption`: disjoint banks in any order,
`FlagsAssumption`, `AlignsAssumption`; an address space of any size, any sequence of
calls).

* `SortedTheorem`: `Spec => []RegionsSorted`. The invariant is `LmbInv`: both lists are `Good`, that is,
  their regions are within the address space and every two of them ascend, not only
  neighbours; memory has no flags. The hard part is `lmb_add_region_flags()`: between its
  loop and the look at the next region the list is *not* in order. `Reaches` says what it is: region `i` may reach into those
  above it, if none of these has flags. `ResizeGood` shows that the regions overlapped are consecutive, so that
  replacing as many as were counted removes the right ones.
* `HighestTheorem`: `Spec => []AllocIsHighest`, and `SlotsTheorem`: `Spec => []SlotsAreThePlaces`. The searches are
  recursive functions. That they are well defined, and what they return, is shown with a smallest
  counterexample (`Smallest`) in place of an induction theorem: each turn of the search of
  `_lmb_alloc_base()` goes down (`TurnsDown`), and it skips no place, since every address it jumps over
  would overlap the region in the way. For `lmb_walk_slots()`, the places before each reserved region are those of one gap (`GapIs`)
  and the gaps follow each other (`Stacked`), so the places ascend and none is counted twice.
* `ExactTheorem`: `Spec => []ExactWhenCoalesced`. `At(A, a, x)` says that list `A` has address `a` with
  flags `x`; the lemmas about insertion, growth, merging, cutting and splitting each say how they change
  it (`Adds`, `Frees`, `Same`). Coalescing is needed in two places: the look at the next region must not
  merge two old neighbours instead of adding the new region (`NothingNext`; finding 4 is what
  happens otherwise), and a range reserved with the same flags throughout must lie within one region (`OneRegion`).

**`TftpProofs`** (assuming `SequenceAssumption`, `WindowAssumption`: a window is less than half the
block numbers, `SizesAssumption` and `SessionsAssumption`; any number of faults, timeouts, retries and
transfers the server starts).

* `TypeTheorem`: `Spec => []TypeOK`, for files of any size.
* `ShortLoadedTheorem` and `ShortAckedTheorem`: `LoadedIsFile` and `AckedIsStored` hold if
  `file < SequenceSize`. Real files of this kind have fewer than 65536 blocks, 91 MiB with the default block size of
  1468 bytes. Both follow from `TransferInv` (`TransferTheorem`). Its parts: blocks 1 to
  `tftp_cur_block` are stored, each in its place, and `net_boot_file_size` is that number
  (`ClientInv`); no transfer of the server counts more blocks as received than `tftp_cur_block`, and only the
  one the client has settled on counts any (`ServerInv`); and the same holds of every acknowledgement still on
  its way, however old (`NetworkInv`). The last part makes it inductive: `tftp_cur_block` does not go back while
  an attempt lasts, so duplicates and delays do no harm, and a new attempt has a new port. Without a
  wrap the 16 bits of a number tell which block it is (`SeqRange`).

**Model-checked only.** All liveness (`ThreadsFinish`, `LockIsHandedOn`, `DueIsServed`,
`TransferEnds`, `PeriodicIsServed`, `KeyWaitEnds`), which is beyond the prover; and `LoadedIsFile` and
`AckedIsStored` of `Tftp` for files whose block numbers wrap. For these files they hold only if faults
are few relative to `SequenceSize`: a block delayed by a whole round of block numbers has the number
of another one, and the protocol cannot tell them apart.

## 6. Not modelled

*Within modelled components.* Environment: contents are opaque values; the
single-copy layouts and `env_mmc` offsets from the device tree. Driver model:
lists and sequence numbers of uclasses, of-platdata, device links in power domains,
`device_reparent()`. Scheduler: stack switching itself (`setjmp`/`longjmp`), time
in microseconds (a function is due or not), a thread that re-uses a caller's
`struct uthread`. FWU: capsule authentication and FMP headers, GUID lookup, capsules whose
file cannot be deleted, and the platform hooks. LMB: growing
the lists, the IOVA maps, notifying the EFI memory map, `lmb_push()` and `lmb_pop()`,
`LMB_LIMIT_DMA_BELOW_RAM_TOP`. TFTP: uploads, the server mode, IPv6, ICMP, option texts,
failing to start an Ethernet device. EFI: protocol registration events, the key of the memory map,
`ExitBootServices()` above `TPL_APPLICATION`, virtual address change events, registered key
notification functions, decoding of key sequences, console output, the watchdog.

*Components.* See `components` in `PROJECT.json`. Mostly: hardware-specific
(drivers, boards), parsing and layout rather than protocol (images, file systems),
vendored, or planned below. The models cover a small share of the source tree by lines: most
of it is drivers, boards, register definitions and vendored code, with little
protocol that a model would tell more about than a reading.

## 7. Plan

Done, in this order: environment storage, driver model, threads and cyclic functions,
multi-bank update; then NOR flash, memory reservations, TFTP, EFI events and console.
Proved so far: the safety of `EnvRedund`, `EnvFlash`, `Sched`, `FwuUpdate`, `EfiEvents`,
`EfiConsole`, `Lmb` and `DmCore`, and of `Tftp` for files that do not wrap. Next, most important first:

1. **An abstract specification of an FWU bank switch** as one atomic step, and its refinement.
2. **Candidates after that**: `cmd/spawn.c` jobs on top of `Sched`, block cache coherence,
   location selection with the shared serial (`env/env.c:387`), Android A/B tries counter.
