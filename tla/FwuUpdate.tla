----------------------------- MODULE FwuUpdate ------------------------------
(***************************************************************************)
(* Firmware update with several banks (CONFIG_FWU_MULTI_BANK_UPDATE).  The *)
(* FWU metadata, stored in two copies, say which bank to boot.  A boot of  *)
(* U-Boot checks and repairs them, counts the boots of an update that the  *)
(* operating system has not accepted yet, and applies the capsules which   *)
(* the operating system left on disk: firmware for the other bank, or the  *)
(* verdict on the last update.  Power may fail at any point.               *)
(***************************************************************************)
EXTENDS Naturals, Sequences

CONSTANTS NumBanks,     \* CONFIG_FWU_NUM_BANKS
          Images,       \* the image types of a bank
          TrialCnt,     \* CONFIG_FWU_TRIAL_STATE_CNT
          Versions,     \* the metadata versions considered: 1, 2 or both
          Capsules,     \* what the operating system may leave on disk
          MaxDir,       \* bound on the capsules that wait on disk
          FaultSets     \* the kinds of faults that may come together

AllFaults == {"power", "mdata", "efi", "capsule", "earlier_stage", "window"}

ASSUME BanksAssumption == NumBanks \in Nat /\ NumBanks >= 2
ASSUME TrialAssumption == TrialCnt \in Nat /\ TrialCnt >= 1
ASSUME VersionAssumption == Versions \subseteq {1, 2}
ASSUME FaultAssumption == FaultSets \subseteq SUBSET AllFaults
ASSUME CapsuleAssumption ==
  \A c \in Capsules : /\ c.kind \in {"update", "accept", "revert"}
                      /\ c.items \in Seq(Images)
                      /\ c.kind # "update" => c.items = <<>>
                      /\ c.os \in BOOLEAN
ASSUME BoundAssumption == MaxDir \in Nat

Banks == 0..NumBanks-1

VARIABLES copy,       \* the stored metadata: copy["pri"] and copy["sec"]
          torn,       \* the <<bank, image>> that hold part of an image
          ctr,        \* the EFI variable TrialStateCtr, plus one; 0: not set
          dir,        \* the capsule files, in the order of their names
          osind,      \* the file capsule bit of the variable OsIndications
          ver,        \* the metadata version
          pc,         \* what U-Boot does next
          sync,       \* the copies fwu_sync_mdata() still has to write
          err,        \* the last fwu_sync_mdata() failed
          boot,       \* the bank the earlier stage booted
          mem,        \* the metadata in RAM: g_fwu_data and *fwu_mdata
          in_trial,   \* g_fwu_data.trial_state, then the static in_trial
          checked,    \* boottime_check
          job,        \* the locals of efi_launch_capsules()
          asked,      \* history: the OS was to accept the last update
          trialBoots, \* history: boots in trial state since the last update
          faults      \* history: the faults that have happened

store == <<copy, torn, ctr, dir, osind, ver>>
ram == <<pc, sync, err, boot, mem, in_trial, checked, job>>
history == <<asked, trialBoots, faults>>
vars == <<store, ram, history>>

BankStates == {"INVALID", "VALID", "ACCEPTED"}
Mdata == [active : Banks, previous : Banks,
          accepted : [Banks -> [Images -> BOOLEAN]],
          state : [Banks -> BankStates]]

\* The metadata a board leaves the factory with.
Factory == [active |-> 0, previous |-> NumBanks - 1,
            accepted |-> [b \in Banks |-> [i \in Images |-> TRUE]],
            state |-> [b \in Banks |-> "ACCEPTED"]]

\* A copy whose CRC is wrong.
Torn == [Factory EXCEPT !.active = NumBanks]
Ok(c) == c # Torn

NoJob == [items |-> <<>>, ok |-> TRUE, capsule_update |-> TRUE,
          update_status |-> TRUE, fw_accept_os |-> FALSE]

fwu_bank_accepted(m, b) == \A i \in Images : m.accepted[b][i]

\* Version 1 has only the accept bits, version 2 a state per bank too.
check_trial_state_v1(m, b) == ~fwu_bank_accepted(m, b)
check_trial_state_v2(m, b) == m.state[b] = "VALID"
fwu_check_trial_state(m, b) ==
  IF ver = 1 THEN check_trial_state_v1(m, b) ELSE check_trial_state_v2(m, b)

\* Mutated form: the bank that is running.
fwu_plat_get_update_index_running(m) == m.active

fwu_plat_get_update_index(m) == (m.active + 1) % NumBanks

\* fwu_set_active_index() and fwu_revert_boot_index(), without the write.
Switch(m, b) == [m EXCEPT !.previous = m.active, !.active = b]
Swap(m) == Switch(m, m.previous)

Intact(b) == \A i \in Images : <<b, i>> \notin torn

\* The faults in f happen, if they may come together with the earlier ones.
Faults(f) ==
  /\ \E S \in FaultSets : faults \union f \subseteq S
  /\ faults' = faults \union f
Fault(f) == Faults({f})
Tolerating(kinds) == faults \subseteq kinds

\* The histories of a trial are kept up to the first fault of another kind than
\* these, after which nothing is claimed of them.
Counting == Tolerating({"power", "capsule"})

-----------------------------------------------------------------------------
(* Writing the metadata *)

\* fwu_sync_mdata(): the metadata in RAM become m, and the copies in parts
\* are written next; U-Boot then goes on at `next'.
Sync(m, parts, next) ==
  /\ mem' = m
  /\ sync' = parts
  /\ pc' = next
  /\ err' = FALSE

\* fwu_write_mdata() of one copy, secondary first; an error ends the sync.
write_mdata(part) ==
  /\ part \in sync
  /\ part = "pri" => "sec" \notin sync
  /\ \/ /\ copy' = [copy EXCEPT ![part] = mem]
        /\ sync' = sync \ {part}
        /\ UNCHANGED <<err, faults>>
     \/ /\ Fault("mdata")
        /\ \/ copy' = [copy EXCEPT ![part] = Torn]
           \/ UNCHANGED copy
        /\ sync' = {}
        /\ err' = TRUE

WriteMdata ==
  /\ \E part \in {"pri", "sec"} : write_mdata(part)
  /\ UNCHANGED <<torn, ctr, dir, osind, ver, pc, boot, mem, in_trial, checked,
                 job, asked, trialBoots>>

-----------------------------------------------------------------------------
(* Booting *)

\* What is read back if power fails now.
Readable == Ok(copy["pri"]) \/ Ok(copy["sec"])
Recovered == IF Ok(copy["pri"]) THEN copy["pri"] ELSE copy["sec"]

\* The earlier stage boots the active bank, or another when that one fails.
EarlierStage ==
  /\ pc = "off"
  /\ \E b \in Banks :
       /\ Intact(b)
       /\ boot' = b
       /\ IF Readable /\ b = Recovered.active
          THEN UNCHANGED faults
          ELSE Fault("earlier_stage")
  /\ pc' = "init"
  /\ UNCHANGED <<store, sync, err, mem, in_trial, checked, job, asked, trialBoots>>

\* Mutated form: a bad copy is not repaired.
fwu_init_norepair ==
  /\ pc = "init"
  /\ Readable
  /\ Sync(Recovered, {}, "checks")
  /\ in_trial' = fwu_check_trial_state(mem', boot)
  /\ UNCHANGED <<store, boot, checked, job, history>>

\* fwu_init() with fwu_get_mdata(): the primary copy if its CRC is right, and
\* a copy that is bad or differs is written anew.  If that write fails the
\* function fails, main_loop() starts over, and finds the metadata in RAM
\* good: it goes on without the repair.
fwu_init ==
  /\ pc = "init"
  /\ Readable
  /\ Sync(Recovered,
          {p \in {"pri", "sec"} : copy[p] # Recovered}, "checks")
  /\ in_trial' = fwu_check_trial_state(mem', boot)
  /\ UNCHANGED <<store, boot, checked, job, history>>

\* Both copies are bad: what follows works on metadata that are lost.
fwu_init_lost ==
  /\ pc = "init"
  /\ ~Readable
  /\ pc' = "lost"
  /\ UNCHANGED <<store, sync, err, boot, mem, in_trial, checked, job, history>>

\* Mutated form: the active bank is not changed.
boottime_checks_index_ignored ==
  /\ pc = "checks" /\ sync = {}
  /\ pc' = "trial"
  /\ UNCHANGED <<store, sync, err, boot, mem, in_trial, checked, job, history>>

\* fwu_boottime_checks(): if another bank was booted than the active one, the
\* active one is marked invalid, which only version 2 stores.
boottime_checks_index ==
  /\ pc = "checks" /\ sync = {}
  /\ \/ /\ boot = mem.active
        /\ pc' = "trial"
        /\ UNCHANGED <<sync, err, mem>>
     \/ /\ boot # mem.active /\ ver = 1
        /\ pc' = "invalidated"
        /\ UNCHANGED <<sync, err, mem>>
     \/ /\ boot # mem.active /\ ver = 2
        /\ Sync([mem EXCEPT !.state[mem.active] = "INVALID"],
                {"pri", "sec"}, "invalidated")
  /\ UNCHANGED <<store, boot, in_trial, checked, job, history>>

\* That ends the trial state in RAM, with version 1 if the bank was accepted.
\* Then the bank that was booted becomes the active one.
boottime_checks_switch ==
  /\ pc = "invalidated" /\ sync = {}
  /\ in_trial' = (in_trial /\ IF ver = 1 THEN ~fwu_bank_accepted(mem, mem.active)
                               ELSE err)
  /\ Sync(Switch(mem, boot), {"pri", "sec"}, "switched")
  /\ UNCHANGED <<store, boot, checked, job, history>>

boottime_checks_switched ==
  /\ pc = "switched" /\ sync = {}
  /\ checked' = ~err
  /\ pc' = "trial"
  /\ UNCHANGED <<store, sync, err, boot, mem, in_trial, job, history>>

\* trial_counter_update(): set or delete the variable, which may fail.
trial_counter_update(v) ==
  \/ ctr' = v /\ checked' = TRUE /\ UNCHANGED faults
  \/ Fault("efi") /\ UNCHANGED <<ctr, checked>>

\* A boot in the trial state, which goes on to the operating system.
BootedInTrial ==
  /\ trialBoots' = IF Counting /\ trialBoots <= TrialCnt + 1 THEN trialBoots + 1
                    ELSE trialBoots
  /\ UNCHANGED asked

\* The EFI subsystem does not start: no trial accounting and no capsules.
efi_init_fails ==
  /\ pc = "trial" /\ sync = {}
  /\ Fault("efi")
  /\ IF in_trial THEN BootedInTrial ELSE UNCHANGED <<asked, trialBoots>>
  /\ pc' = "os"
  /\ UNCHANGED <<store, sync, err, boot, mem, in_trial, checked, job>>

\* A boot in the regular state drops the counter.
regular_boot ==
  /\ pc = "trial" /\ sync = {} /\ ~in_trial
  /\ trial_counter_update(0)
  /\ pc' = "capsules"
  /\ UNCHANGED <<copy, torn, dir, osind, ver, sync, err, boot, mem, in_trial,
                 job, asked, trialBoots>>

\* Mutated form: the counter is not advanced.
fwu_trial_count_update_same ==
  /\ pc = "trial" /\ sync = {} /\ in_trial /\ ctr \in 1..TrialCnt
  /\ trial_counter_update(ctr)
  /\ BootedInTrial
  /\ pc' = "capsules"
  /\ UNCHANGED <<copy, torn, dir, osind, ver, sync, err, boot, mem, in_trial,
                 job>>

\* fwu_trial_count_update() up to the limit.
fwu_trial_count_update ==
  /\ pc = "trial" /\ sync = {} /\ in_trial /\ ctr \in 1..TrialCnt
  /\ trial_counter_update(ctr + 1)
  /\ BootedInTrial
  /\ pc' = "capsules"
  /\ UNCHANGED <<copy, torn, dir, osind, ver, sync, err, boot, mem, in_trial,
                 job>>

\* fwu_trial_count_update() when the variable cannot be read.
trial_counter_missing ==
  /\ pc = "trial" /\ sync = {} /\ in_trial /\ ctr = 0
  /\ BootedInTrial
  /\ pc' = "capsules"
  /\ UNCHANGED <<store, sync, err, boot, mem, in_trial, checked, job, faults>>

\* fwu_trial_count_update() beyond the limit: go back to the previous bank.
trial_count_exceeded ==
  /\ pc = "trial" /\ sync = {} /\ in_trial /\ ctr > TrialCnt
  /\ Sync(Swap(mem), {"pri", "sec"}, "exceeded")
  /\ UNCHANGED <<store, boot, in_trial, checked, job, history>>

\* Only the metadata go back: this boot goes on with the firmware on trial.
trial_counter_delete ==
  /\ pc = "exceeded" /\ sync = {}
  /\ \/ ctr' = 0 /\ UNCHANGED faults
     \/ Fault("efi") /\ UNCHANGED ctr
  /\ BootedInTrial
  /\ pc' = "capsules"
  /\ UNCHANGED <<copy, torn, dir, osind, ver, sync, err, boot, mem, in_trial,
                 checked, job>>

-----------------------------------------------------------------------------
(* Capsules *)

\* efi_launch_capsules(): check_run_capsules(), then the capsule files.
launch_capsules ==
  /\ pc = "capsules" /\ sync = {}
  /\ osind' = FALSE
  /\ pc' = IF osind /\ dir # <<>> THEN "capsule" ELSE "os"
  /\ job' = NoJob
  /\ UNCHANGED <<copy, torn, ctr, dir, ver, sync, err, boot, mem, in_trial,
                 checked, history>>

AtCapsule == pc = "capsule" /\ sync = {} /\ dir # <<>>
fwu_empty_capsule == Head(dir).kind \in {"accept", "revert"}
fwu_empty_capsule_checks_pass == in_trial /\ checked

\* Mutated form: updates are applied in the trial state as well.
fwu_update_checks_pass_any == checked

fwu_update_checks_pass == ~in_trial /\ checked

\* The outcome of one capsule, whose file is then deleted.
EndCapsule(ok) ==
  /\ job' = [job EXCEPT
       !.items = <<>>,
       !.ok = TRUE,
       !.update_status = @ /\ ok,
       !.capsule_update = @ /\ ~(ok /\ fwu_empty_capsule),
       !.fw_accept_os = @ \/ (ok /\ ~fwu_empty_capsule /\ Head(dir).os)]
  /\ dir' = Tail(dir)
  /\ pc' = "capsule"

\* A capsule that comes in the wrong state, is malformed or cannot be read.
reject_capsule ==
  /\ AtCapsule
  /\ \/ /\ ~IF fwu_empty_capsule THEN fwu_empty_capsule_checks_pass
                                  ELSE fwu_update_checks_pass
        /\ UNCHANGED faults
     \/ Fault("capsule")
  /\ EndCapsule(FALSE)
  /\ UNCHANGED <<copy, torn, ctr, osind, ver, sync, err, boot, mem, in_trial,
                 checked, asked, trialBoots>>

\* fwu_empty_capsule_process(): the operating system asks to go back.
revert_capsule ==
  /\ AtCapsule /\ Head(dir).kind = "revert" /\ fwu_empty_capsule_checks_pass
  /\ Sync(Swap(mem), {"pri", "sec"}, "ended")
  /\ UNCHANGED <<store, boot, in_trial, checked, job, history>>

\* fwu_empty_capsule_process(): the operating system accepts an image.
accept_capsule ==
  /\ AtCapsule /\ Head(dir).kind = "accept" /\ fwu_empty_capsule_checks_pass
  /\ Sync([mem EXCEPT !.accepted[mem.active][Head(dir).img] = TRUE],
          {"pri", "sec"}, "accepted")
  /\ UNCHANGED <<store, boot, in_trial, checked, job, history>>

\* Mutated form: the bank is accepted with its first image.
accept_capsule_state_any ==
  /\ pc = "accepted" /\ sync = {}
  /\ job' = [job EXCEPT !.ok = ~err]
  /\ IF ver = 2
     THEN Sync([mem EXCEPT !.state[mem.active] = "ACCEPTED"],
               {"pri", "sec"}, "ended")
     ELSE pc' = "ended" /\ err' = FALSE /\ UNCHANGED <<mem, sync>>
  /\ UNCHANGED <<store, boot, in_trial, checked, history>>

\* fwu_state_machine_updates(FWU_BANK_ACCEPTED): once all images of the bank
\* are accepted, so is the bank.
accept_capsule_state ==
  /\ pc = "accepted" /\ sync = {}
  /\ job' = [job EXCEPT !.ok = ~err]
  /\ IF ver = 2 /\ fwu_bank_accepted(mem, mem.active)
     THEN Sync([mem EXCEPT !.state[mem.active] = "ACCEPTED"],
               {"pri", "sec"}, "ended")
     ELSE pc' = "ended" /\ err' = FALSE /\ UNCHANGED <<mem, sync>>
  /\ UNCHANGED <<store, boot, in_trial, checked, history>>

empty_capsule_end ==
  /\ pc = "ended" /\ sync = {}
  /\ EndCapsule(job.ok /\ ~err)
  /\ UNCHANGED <<copy, torn, ctr, osind, ver, sync, err, boot, mem, in_trial,
                 checked, history>>

\* efi_capsule_update_firmware(): a capsule with firmware.  If its list of
\* payloads is empty, it is applied already.
update_capsule ==
  /\ AtCapsule /\ ~fwu_empty_capsule /\ fwu_update_checks_pass
  /\ \/ /\ Head(dir).items # <<>>
        /\ job' = [job EXCEPT !.items = Head(dir).items]
        /\ pc' = "image"
        /\ UNCHANGED dir
     \/ /\ Head(dir).items = <<>>
        /\ EndCapsule(TRUE)
  /\ UNCHANGED <<copy, torn, ctr, osind, ver, sync, err, boot, mem, in_trial,
                 checked, history>>

UpdateImage == <<fwu_plat_get_update_index(mem), Head(job.items)>>

\* set_image() of the next payload begins to write it to the update bank.
set_image ==
  /\ pc = "image" /\ sync = {}
  /\ torn' = torn \union {UpdateImage}
  /\ pc' = "writing"
  /\ UNCHANGED <<copy, ctr, dir, osind, ver, sync, err, boot, mem, in_trial,
                 checked, job, history>>

\* The image is written, and its accept bit set or cleared with it.
set_image_done ==
  /\ pc = "writing" /\ sync = {}
  /\ torn' = torn \ {UpdateImage}
  /\ Sync([mem EXCEPT !.accepted[UpdateImage[1]][UpdateImage[2]]
                        = ~Head(dir).os], {"pri", "sec"}, "image_end")
  /\ UNCHANGED <<copy, ctr, dir, osind, ver, boot, in_trial, checked, job,
                 history>>

\* set_image() fails before or while it writes.
set_image_fails ==
  /\ pc \in {"image", "writing"} /\ sync = {}
  /\ Fault("capsule")
  /\ EndCapsule(FALSE)
  /\ UNCHANGED <<copy, torn, ctr, osind, ver, sync, err, boot, mem, in_trial,
                 checked, asked, trialBoots>>

image_end ==
  /\ pc = "image_end" /\ sync = {}
  /\ IF ~err /\ Len(job.items) > 1
     THEN /\ job' = [job EXCEPT !.items = Tail(@)]
          /\ pc' = "image"
          /\ UNCHANGED dir
     ELSE EndCapsule(~err)
  /\ UNCHANGED <<copy, torn, ctr, osind, ver, sync, err, boot, mem, in_trial,
                 checked, history>>

\* After the last capsule: fwu_post_update_process() if all of them brought
\* firmware and were applied, then a reset.
post_update_process ==
  /\ pc = "capsule" /\ sync = {} /\ dir = <<>>
  /\ IF job.capsule_update /\ job.update_status
     THEN /\ Sync(Switch(mem, fwu_plat_get_update_index(mem)),
                  {"pri", "sec"}, "post_switched")
          /\ trialBoots' = 0
          /\ asked' = (Counting /\ job.fw_accept_os)
     ELSE pc' = "reset" /\ UNCHANGED <<mem, sync, err, asked, trialBoots>>
  /\ UNCHANGED <<store, boot, in_trial, checked, job, faults>>

\* fwu_state_machine_updates() for the new bank: the trial state with its
\* counter if the operating system is to accept it, else accepted.
post_update_state ==
  /\ pc = "post_switched" /\ sync = {}
  /\ IF ~err /\ job.fw_accept_os
     THEN \/ ctr' = 1 /\ UNCHANGED faults
          \/ Fault("efi") /\ UNCHANGED ctr
     ELSE UNCHANGED <<ctr, faults>>
  /\ LET new == IF job.fw_accept_os THEN "VALID" ELSE "ACCEPTED"
         saved == /\ ver = 2 /\ ~err
                  /\ IF new = "VALID" THEN ctr' = 1
                     ELSE fwu_bank_accepted(mem, mem.active)
     IN IF saved
        THEN Sync([mem EXCEPT !.state[mem.active] = new],
                  {"pri", "sec"}, "reset")
        ELSE pc' = "reset" /\ UNCHANGED <<mem, sync, err>>
  /\ UNCHANGED <<copy, torn, dir, osind, ver, boot, in_trial, checked, job,
                 asked, trialBoots>>

-----------------------------------------------------------------------------
(* The operating system, resets and power failures *)

\* The operating system leaves a capsule under some file name.
DeliverCapsule ==
  /\ pc = "os"
  /\ Len(dir) < MaxDir
  /\ \E c \in Capsules : dir' \in {<<c>> \o dir, dir \o <<c>>}
  /\ osind' = TRUE
  /\ UNCHANGED <<copy, torn, ctr, ver, ram, history>>

PowerOff ==
  /\ pc' = "off"
  /\ sync' = {}
  /\ err' = FALSE
  /\ boot' = 0
  /\ mem' = Factory
  /\ in_trial' = FALSE
  /\ checked' = FALSE
  /\ job' = NoJob
  /\ UNCHANGED <<torn, ctr, dir, osind, ver, asked, trialBoots>>

Reset ==
  /\ pc \in {"os", "reset", "lost"} /\ sync = {}
  /\ PowerOff
  /\ UNCHANGED <<copy, faults>>

\* Power fails; a copy that is being written may be left torn.  A failure
\* after the switch to the new bank and before its state is stored is told
\* apart in the history.
PowerFailure ==
  /\ pc \notin {"off", "os", "lost"}
  /\ \/ UNCHANGED copy
     \/ /\ sync # {}
        /\ copy' = [copy EXCEPT ![IF "sec" \in sync THEN "sec" ELSE "pri"]
                                   = Torn]
  /\ Faults(IF pc = "post_switched" \/ (pc = "reset" /\ sync # {})
            THEN {"power", "window"} ELSE {"power"})
  /\ PowerOff

Init ==
  /\ ver \in Versions
  /\ copy = [p \in {"pri", "sec"} |-> Factory]
  /\ torn = {} /\ ctr = 0 /\ dir = <<>> /\ osind = FALSE
  /\ pc = "off" /\ sync = {} /\ err = FALSE /\ boot = 0 /\ mem = Factory
  /\ in_trial = FALSE /\ checked = FALSE /\ job = NoJob
  /\ asked = FALSE /\ trialBoots = 0 /\ faults = {}

Next ==
  \/ WriteMdata
  \/ EarlierStage \/ fwu_init \/ fwu_init_lost
  \/ boottime_checks_index \/ boottime_checks_switch
  \/ boottime_checks_switched
  \/ efi_init_fails \/ regular_boot \/ fwu_trial_count_update
  \/ trial_counter_missing \/ trial_count_exceeded \/ trial_counter_delete
  \/ launch_capsules \/ reject_capsule
  \/ revert_capsule \/ accept_capsule \/ accept_capsule_state
  \/ empty_capsule_end
  \/ update_capsule \/ set_image \/ set_image_done \/ set_image_fails
  \/ image_end \/ post_update_process \/ post_update_state
  \/ DeliverCapsule \/ Reset \/ PowerFailure

Spec == Init /\ [][Next]_vars

-----------------------------------------------------------------------------
(* Properties *)

Pcs == {"off", "init", "lost", "checks", "invalidated", "switched", "trial",
        "exceeded", "capsules", "capsule", "accepted", "ended", "image",
        "writing", "image_end", "post_switched", "reset", "os"}

\* Types: the metadata in RAM and in each copy are well formed, a torn copy
\* aside, and the counter never passes the limit by more than one boot.
TypeOK ==
  /\ copy \in [{"pri", "sec"} -> Mdata \union {Torn}]
  /\ torn \subseteq Banks \X Images
  /\ ctr \in 0..TrialCnt+1
  /\ dir \in Seq(Capsules) /\ Len(dir) <= MaxDir
  /\ osind \in BOOLEAN
  /\ ver \in Versions
  /\ pc \in Pcs
  /\ sync \subseteq {"pri", "sec"}
  /\ err \in BOOLEAN
  /\ boot \in Banks
  /\ mem \in Mdata
  /\ in_trial \in BOOLEAN /\ checked \in BOOLEAN
  /\ asked \in BOOLEAN /\ trialBoots \in 0..TrialCnt+2
  /\ faults \subseteq AllFaults

\* A power failure at any point leaves at least one copy of the metadata with
\* a good CRC: fwu_sync_mdata() writes one copy after the other, and
\* fwu_get_mdata() repairs from the good one before the next update.
MetadataSurvives == Tolerating(AllFaults \ {"mdata"}) => Readable

\* Whatever fails, some bank holds complete images: an update only writes the
\* bank that is not running (fwu_plat_get_update_index()), and only from a
\* bank that was booted.
SomeBankBoots == \E b \in Banks : Intact(b)

\* The bank the metadata say to boot holds complete images: it is switched to
\* only when every capsule was applied, and a capsule that a power failure
\* interrupted is still on disk (efi_launch_capsules()).  This takes that
\* power and the EFI services do not both fail: a boot that cannot drop the
\* trial counter deletes the interrupted capsule without applying it.
ActiveBankComplete ==
  Tolerating({"power", "window"}) \/ Tolerating({"efi"})
  => Intact(Recovered.active)

\* While an update is on trial, the bank a revert goes back to is complete:
\* no update is applied in the trial state (fwu_update_checks_pass()).
TrialCanRevert ==
  /\ Tolerating({"power", "efi", "capsule", "window"})
  /\ fwu_check_trial_state(Recovered, Recovered.active)
  => Intact(Recovered.previous)

\* With version 2 metadata, the platform boots in the trial state at most one
\* time more than CONFIG_FWU_TRIAL_STATE_CNT after an update which the operating
\* system is to accept, power failures during the boots included: the boot that
\* finds the limit passed still runs the firmware on trial.
CountedTrial ==
  ver = 2 /\ asked /\ Counting => trialBoots <= TrialCnt + 1

\* What the help text of CONFIG_FWU_TRIAL_STATE_CNT says, with that one boot
\* granted: it is the number of times the platform is allowed to boot in the
\* trial state after an update.
AllowedTrialBoots == trialBoots <= TrialCnt + 1

\* A bank on trial becomes accepted only when all its images have been, also
\* as the next boot would read it (fwu_bank_state_update()).
AcceptNeedsAll ==
  [][\A b \in Banks :
       /\ Readable /\ Recovered.state[b] = "VALID"
       /\ Readable' /\ Recovered'.state[b] = "ACCEPTED"
       => fwu_bank_accepted(Recovered', b)]_vars

=============================================================================
