----------------------------- MODULE FwuProofs ------------------------------
(***************************************************************************)
(* Proofs about FwuUpdate, for any number of banks, images and capsules:   *)
(* power failures never take both copies of the metadata; whatever fails,  *)
(* a bank with complete images is left, and only a bank with all images    *)
(* accepted leaves the trial state; under the faults that each property    *)
(* tolerates, the active bank is complete, a trial can be reverted and its *)
(* boots are counted.                                                      *)
(***************************************************************************)
EXTENDS FwuUpdate, Functions, TLAPS

Parts == {"pri", "sec"}

\* Where the metadata in RAM are not in use.
Idle == {"off", "init", "lost"}

\* The copies that are not yet to be written again hold what RAM holds; before
\* the first write of a sync both are good.
SyncInv ==
  /\ mem \in Mdata
  /\ boot \in Banks
  /\ copy \in [Parts -> Mdata \union {Torn}]
  /\ sync \subseteq Parts
  /\ pc \in Idle => sync = {}
  /\ "mdata" \notin faults =>
       /\ pc \in Idle => Readable
       /\ pc \notin Idle =>
            /\ \A p \in Parts \ sync : copy[p] = mem
            /\ sync = Parts => \A p \in Parts : Ok(copy[p])

\* Where images may be written to the update bank.
Updating == {"image", "writing", "image_end"}

\* The bank that runs is complete, and it is the active one from the boot time
\* checks on, unless the boot is in the trial state.
BankInv ==
  /\ mem.active \in Banks
  /\ pc = "off" => SomeBankBoots
  /\ pc # "off" => boot \in Banks /\ Intact(boot)
  /\ pc = "switched" => mem.active = boot
  /\ pc \in {"trial", "capsules", "capsule"} \union Updating /\ ~in_trial
       => mem.active = boot
  /\ pc \in Updating => ~in_trial
  /\ pc \in {"accepted", "ended", "exceeded"} => in_trial


\* The faults that keep the earlier stage on the active bank.
NoOtherBank == Tolerating({"power", "efi", "capsule", "window"})

OnTrial(m) == fwu_check_trial_state(m, m.active)
Revertible(m) == OnTrial(m) => Intact(m.previous)

\* Up to where a boot may apply a capsule.
Deciding == {"checks", "trial", "exceeded", "capsules", "capsule", "accepted",
             "ended"}

\* Each copy on trial can be reverted, and so can the metadata in RAM.  A boot
\* in the trial state runs one of two complete banks, and any other boot runs
\* an active bank that is not on trial.
RevertFacts ==
  /\ \A p \in Parts : Ok(copy[p]) => Revertible(copy[p])
  /\ pc \notin Idle => Revertible(mem)
  /\ pc \notin {"invalidated", "switched", "lost"}
  /\ pc = "init" => boot = Recovered.active
  /\ pc = "checks" => boot = mem.active
  /\ pc \in Deciding /\ in_trial => Intact(mem.active) /\ Intact(mem.previous)
  /\ pc \in Deciding \union Updating /\ ~in_trial => ~OnTrial(mem)
  /\ pc = "post_switched" => Intact(mem.previous)
RevertInv == NoOtherBank => RevertFacts

Jobs == [items : Seq(Images), ok : BOOLEAN, capsule_update : BOOLEAN,
         update_status : BOOLEAN, fw_accept_os : BOOLEAN]

\* The capsules on disk.  While one is applied it is the first, and what is
\* left to write is some of its payloads.
DiskInv ==
  /\ dir \in Seq(Capsules) /\ Len(dir) <= MaxDir
  /\ job \in Jobs
  /\ pc \in {"accepted", "ended"} => dir # <<>>
  /\ pc = "post_switched" => dir = <<>>
  /\ pc \in Updating => /\ dir # <<>> /\ job.items # <<>>
                        /\ Range(job.items) \subseteq Range(Head(dir).items)
  /\ "mdata" \notin faults => ~err

\* The types of the other variables.
RestOK ==
  /\ torn \subseteq Banks \X Images
  /\ ctr \in 0..TrialCnt+1
  /\ osind \in BOOLEAN /\ ver \in Versions /\ pc \in Pcs /\ err \in BOOLEAN
  /\ in_trial \in BOOLEAN /\ checked \in BOOLEAN
  /\ asked \in BOOLEAN /\ trialBoots \in 0..TrialCnt+2
  /\ faults \subseteq AllFaults

PowerOnly == Tolerating({"power", "window"})
EfiOnly == Tolerating({"efi"})

\* The payloads of the first capsule that are still to be written.
Left == IF pc \in {"image", "writing"} THEN Range(job.items)
        ELSE IF pc = "image_end" THEN Range(Tail(job.items))
        ELSE IF dir = <<>> THEN {} ELSE Range(Head(dir).items)

\* Some capsule on disk will bring image i.
Coming(i) == i \in Left \/ \E k \in 2..Len(dir) : i \in Range(dir[k].items)

\* An image that is not complete belongs to the update bank, in RAM and in
\* each copy,
TornWhere ==
  \A t \in torn :
    /\ t = <<t[1], t[2]>>
    /\ \A p \in Parts : Ok(copy[p]) => t[1] = fwu_plat_get_update_index(copy[p])
    /\ pc \notin Idle => t[1] = fwu_plat_get_update_index(mem)
\* and is on its way;
TornComing == \A t \in torn : Coming(t[2])
\* no boot is then in the trial state,
TornQuiet ==
  torn # {} => /\ \A p \in Parts : Ok(copy[p]) => ~OnTrial(copy[p])
               /\ pc \notin Idle => ~in_trial /\ ~OnTrial(mem)
\* where capsules would be refused;
ChecksPass ==
  /\ PowerOnly /\ ~in_trial
  /\ pc \in {"capsules", "capsule"} \union Updating
  => checked
\* and if power does not fail, an image is incomplete only while it is written.
TornWritten ==
  EfiOnly /\ torn # {} => pc = "writing" /\ torn = {UpdateImage}

TornFacts ==
  TornWhere /\ TornComing /\ TornQuiet /\ ChecksPass /\ TornWritten
TornInv == PowerOnly \/ EfiOnly => TornFacts

\* From metadata o to metadata n, a bank on trial becomes accepted only if all
\* its images are; and no bank on trial becomes accepted at all.
Accepts(o, n) ==
  \A b \in Banks : o.state[b] = "VALID" /\ n.state[b] = "ACCEPTED"
                   => fwu_bank_accepted(n, b)
AcceptsNone(o, n) ==
  \A b \in Banks : ~(o.state[b] = "VALID" /\ n.state[b] = "ACCEPTED")

\* Where only a boot outside the trial state goes on to write images.
Early ==
  \/ pc \in {"checks", "invalidated", "switched", "trial"}
  \/ pc \in {"capsules", "capsule"} \union Updating /\ ~in_trial

\* What holds of a step holds from the copy that would be read to the other
\* one, and to the metadata in RAM, which may be some writes ahead of both: a
\* write of metadata may fail and leave a copy behind.
AcceptInv ==
  /\ sync = {"pri"} => copy["sec"] = mem
  /\ Ok(copy["pri"]) /\ Ok(copy["sec"]) => Accepts(copy["pri"], copy["sec"])
  /\ pc \notin Idle /\ Readable => Accepts(Recovered, mem)
  /\ Early /\ Readable => AcceptsNone(Recovered, mem)

Valid(m, b) == m.state[b] = "VALID"

\* If metadata are on trial, the counter is ahead of the boots in the trial
\* state, and the bank to go back to is not on trial.
Counted(m) ==
  Valid(m, m.active) => trialBoots < ctr /\ ~Valid(m, m.previous)

\* Between the switch to a new bank and the writing of its state.
InWindow == pc = "post_switched" \/ (pc = "reset" /\ sync # {})

\* The counting, on disk and in RAM.  A boot in the trial state may go back
\* and forth between its two banks.  The one that finds the limit passed is
\* counted too, when it goes on.
CountTrial ==
  /\ trialBoots <= TrialCnt + 1
  /\ ~InWindow => \A p \in Parts : Ok(copy[p]) => Counted(copy[p])
  /\ pc \notin Idle /\ pc # "post_switched" => Counted(mem)
  /\ pc \in {"off", "init", "checks", "trial", "exceeded"} => ~checked
  /\ pc \in {"checks", "trial"} /\ in_trial => Valid(mem, mem.active)
  /\ pc = "exceeded" => ~Valid(mem, mem.active) /\ trialBoots <= TrialCnt
  /\ pc \in Deciding /\ in_trial /\ checked =>
       /\ trialBoots < ctr
       /\ ~(Valid(mem, mem.active) /\ Valid(mem, mem.previous))

\* Before the switch to an updated bank the boot is not in the trial state.
CountUpdate ==
  /\ pc \in {"accepted", "ended"} => fwu_empty_capsule
  /\ pc = "capsule" /\ dir = <<>> /\ job.capsule_update /\ job.update_status => ~in_trial

\* After it, the operating system is to accept the bank, and the old bank is not
\* on trial.
CountSwitched ==
  pc = "post_switched" =>
    /\ trialBoots = 0
    /\ mem.previous # mem.active /\ ~Valid(mem, mem.previous)
    /\ job.fw_accept_os

Countable == ver = 2 /\ Counting
CountInv == Countable => CountUpdate /\ (asked => CountTrial /\ CountSwitched)

-----------------------------------------------------------------------------
(* The metadata *)

\* A good copy is not mistaken for a torn one.
LEMMA GoodCopies == \A m \in Mdata : Ok(m)
  BY BanksAssumption DEF Mdata, Ok, Torn, Factory, Banks

\* The changes that the code makes to the metadata keep them well formed:
\* another active bank,
LEMMA SwitchIsMdata ==
  \A m \in Mdata : /\ \A b \in Banks : Switch(m, b) \in Mdata
                   /\ Swap(m) \in Mdata
  BY DEF Mdata, Switch, Swap

\* another accept bit,
LEMMA AcceptIsMdata ==
  ASSUME NEW m \in Mdata, NEW b \in Banks, NEW i, NEW v \in BOOLEAN
  PROVE  [m EXCEPT !.accepted[b][i] = v] \in Mdata
  BY DEF Mdata

\* another bank state.
LEMMA StateIsMdata ==
  ASSUME NEW m \in Mdata, NEW b \in Banks, NEW s \in BankStates
  PROVE  [m EXCEPT !.state[b] = s] \in Mdata
  BY DEF Mdata

\* The factory metadata are well formed.
LEMMA FactoryIsMdata == Factory \in Mdata
  BY BanksAssumption DEF Factory, Mdata, Banks, BankStates

\* The bank to update is a bank, and not the active one.
LEMMA UpdateIndex ==
  ASSUME NEW m \in Mdata
  PROVE  /\ fwu_plat_get_update_index(m) \in Banks
         /\ fwu_plat_get_update_index(m) # m.active
<1>1. NumBanks \in Nat /\ NumBanks >= 2 /\ m.active \in 0..NumBanks-1
  BY BanksAssumption DEF Mdata, Banks
<1>2. CASE m.active + 1 < NumBanks
  <2>1. (m.active + 1) % NumBanks = m.active + 1
    BY <1>1, <1>2
  <2> QED BY <1>1, <1>2, <2>1 DEF fwu_plat_get_update_index, Banks
<1>3. CASE m.active + 1 = NumBanks
  <2>1. (m.active + 1) % NumBanks = 0
    BY <1>1, <1>3
  <2> QED BY <1>1, <1>3, <2>1 DEF fwu_plat_get_update_index, Banks
<1> QED BY <1>1, <1>2, <1>3

\* A step that starts to write metadata, all of them written before.
LEMMA SyncStarts ==
  ASSUME SyncInv, sync = {}, pc \notin Idle,
         NEW m \in Mdata, NEW n, n \notin Idle, Sync(m, Parts, n),
         copy' = copy, boot' = boot, faults \subseteq faults'
  PROVE  SyncInv'
  BY GoodCopies DEF SyncInv, Sync, Parts

\* A step that leaves the metadata alone.
LEMMA SyncUnchanged ==
  ASSUME SyncInv, pc \notin Idle, pc' \notin Idle,
         UNCHANGED <<mem, copy, sync, boot>>, faults \subseteq faults'
  PROVE  SyncInv'
  BY DEF SyncInv

\* The faults of the past are not forgotten, and the version stays.
LEMMA FaultsGrow == [Next]_vars => faults \subseteq faults' /\ ver' = ver
  BY DEF Next, vars, history, ram, store, WriteMdata, write_mdata, EarlierStage,
     fwu_init, fwu_init_lost, boottime_checks_index, boottime_checks_switch,
     boottime_checks_switched, efi_init_fails, regular_boot,
     fwu_trial_count_update, trial_counter_missing, trial_count_exceeded,
     trial_counter_delete, trial_counter_update, launch_capsules,
     reject_capsule, revert_capsule, accept_capsule, accept_capsule_state,
     empty_capsule_end, update_capsule, set_image, set_image_done,
     set_image_fails, image_end, post_update_process, post_update_state,
     DeliverCapsule, Reset, PowerFailure, Fault, Faults,
     PowerOff

\* Every action keeps SyncInv.
LEMMA SyncStep == SyncInv /\ [Next]_vars => SyncInv'
<1> SUFFICES ASSUME SyncInv, [Next]_vars PROVE SyncInv'
  OBVIOUS
<1>0. faults \subseteq faults'
  BY FaultsGrow
<1>1. CASE WriteMdata
  <2> PICK part \in Parts : write_mdata(part)
    BY <1>1 DEF WriteMdata, Parts
  <2>1. pc \notin Idle /\ UNCHANGED <<pc, mem, boot>>
    BY <1>1 DEF WriteMdata, write_mdata, SyncInv
  <2>2. CASE "mdata" \in faults'
    BY <1>1, <2>1, <2>2 DEF write_mdata, SyncInv, Parts
  <2>3. CASE "mdata" \notin faults'
    <3>1. copy' = [copy EXCEPT ![part] = mem] /\ sync' = sync \ {part}
      BY <2>3 DEF write_mdata, Fault, Faults
    <3> QED BY <1>0, <2>1, <2>3, <3>1, GoodCopies DEF write_mdata, SyncInv, Parts
  <2> QED BY <2>2, <2>3
<1>2. CASE EarlierStage
  BY <1>2, <1>0 DEF EarlierStage, SyncInv, Idle, store, Readable, Ok
<1>3. CASE fwu_init
  <2>1. Recovered \in Mdata
    BY <1>3 DEF fwu_init, SyncInv, Readable, Recovered, Ok, Parts
  <2>2. /\ mem' = Recovered /\ copy' = copy /\ boot' = boot /\ pc' \notin Idle
        /\ sync' = {p \in Parts : copy[p] # Recovered}
    BY <1>3 DEF fwu_init, Sync, store, Idle, Parts
  <2>3. sync' # Parts
    BY <2>2 DEF Recovered, Parts
  <2> QED BY <2>1, <2>2, <2>3 DEF SyncInv
<1>4. CASE fwu_init_lost
  BY <1>4, <1>0 DEF fwu_init_lost, SyncInv, Idle, store, Readable, Ok, history
<1>5. CASE boottime_checks_index
  <2>1. CASE boot # mem.active /\ ver = 2
    BY <1>0, <1>5, <2>1, SyncStarts
       DEF boottime_checks_index, store, Idle, Parts, SyncInv, Mdata, BankStates, Sync
  <2>2. CASE ~(boot # mem.active /\ ver = 2)
    BY <1>0, <1>5, <2>2, SyncUnchanged
       DEF boottime_checks_index, store, Idle
  <2> QED BY <2>1, <2>2
<1>6. CASE boottime_checks_switch
  <2> DEFINE m == Switch(mem, boot)
  <2>1. m \in Mdata
    BY SwitchIsMdata DEF SyncInv
  <2>2. /\ sync = {} /\ pc \notin Idle /\ copy' = copy /\ boot' = boot
        /\ Sync(m, Parts, "switched")
    BY <1>6 DEF boottime_checks_switch, store, Idle, Parts
  <2> QED BY <1>0, <2>1, <2>2, SyncStarts DEF Idle
<1>7. CASE boottime_checks_switched
  BY <1>0, <1>7, SyncUnchanged DEF boottime_checks_switched, store, Idle
<1>8. CASE efi_init_fails
  BY <1>0, <1>8, SyncUnchanged DEF efi_init_fails, store, Idle
<1>9. CASE regular_boot
  BY <1>0, <1>9, SyncUnchanged DEF regular_boot, store, Idle
<1>10. CASE fwu_trial_count_update
  BY <1>0, <1>10, SyncUnchanged DEF fwu_trial_count_update, store, Idle
<1>11. CASE trial_counter_missing
  BY <1>0, <1>11, SyncUnchanged DEF trial_counter_missing, store, Idle
<1>12. CASE trial_count_exceeded
  <2> DEFINE m == Swap(mem)
  <2>1. m \in Mdata
    BY SwitchIsMdata DEF SyncInv
  <2>2. /\ sync = {} /\ pc \notin Idle /\ copy' = copy /\ boot' = boot
        /\ Sync(m, Parts, "exceeded")
    BY <1>12 DEF trial_count_exceeded, store, Idle, Parts
  <2> QED BY <1>0, <2>1, <2>2, SyncStarts DEF Idle
<1>13. CASE trial_counter_delete
  BY <1>0, <1>13, SyncUnchanged DEF trial_counter_delete, store, Idle
<1>14. CASE launch_capsules
  BY <1>0, <1>14, SyncUnchanged DEF launch_capsules, store, Idle
<1>15. CASE reject_capsule
  BY <1>0, <1>15, SyncUnchanged DEF reject_capsule, store, Idle, AtCapsule, EndCapsule
<1>16. CASE revert_capsule
  <2> DEFINE m == Swap(mem)
  <2>1. m \in Mdata
    BY SwitchIsMdata DEF SyncInv
  <2>2. /\ sync = {} /\ pc \notin Idle /\ copy' = copy /\ boot' = boot
        /\ Sync(m, Parts, "ended")
    BY <1>16 DEF revert_capsule, store, Idle, Parts, AtCapsule
  <2> QED BY <1>0, <2>1, <2>2, SyncStarts DEF Idle
<1>17. CASE accept_capsule
  <2> DEFINE m == [mem EXCEPT !.accepted[mem.active][Head(dir).img] = TRUE]
  <2>1. m \in Mdata
    BY AcceptIsMdata DEF SyncInv, Mdata
  <2>2. /\ sync = {} /\ pc \notin Idle /\ copy' = copy /\ boot' = boot
        /\ Sync(m, Parts, "accepted")
    BY <1>17 DEF accept_capsule, store, Idle, Parts, AtCapsule
  <2> QED BY <1>0, <2>1, <2>2, SyncStarts DEF Idle
<1>18. CASE accept_capsule_state
  <2>1. CASE ver = 2 /\ fwu_bank_accepted(mem, mem.active)
    <3> DEFINE m == [mem EXCEPT !.state[mem.active] = "ACCEPTED"]
    <3>1. m \in Mdata
      BY StateIsMdata DEF SyncInv, Mdata, BankStates
    <3>2. /\ sync = {} /\ pc \notin Idle /\ copy' = copy /\ boot' = boot
          /\ Sync(m, Parts, "ended")
      BY <1>18, <2>1 DEF accept_capsule_state, store, Idle, Parts
    <3> QED BY <1>0, <3>1, <3>2, SyncStarts DEF Idle
  <2>2. CASE ~(ver = 2 /\ fwu_bank_accepted(mem, mem.active))
    BY <1>0, <1>18, <2>2, SyncUnchanged DEF accept_capsule_state, store, Idle
  <2> QED BY <2>1, <2>2
<1>19. CASE empty_capsule_end
  BY <1>0, <1>19, SyncUnchanged DEF empty_capsule_end, store, Idle, EndCapsule
<1>20. CASE update_capsule
  BY <1>0, <1>20, SyncUnchanged DEF update_capsule, Idle, AtCapsule, EndCapsule
<1>21. CASE set_image
  BY <1>0, <1>21, SyncUnchanged DEF set_image, store, Idle
<1>22. CASE set_image_done
  <2> DEFINE m == [mem EXCEPT !.accepted[UpdateImage[1]][UpdateImage[2]]
                               = ~Head(dir).os]
  <2>1. m \in Mdata
    BY UpdateIndex, AcceptIsMdata DEF SyncInv, UpdateImage
  <2>2. /\ sync = {} /\ pc \notin Idle /\ copy' = copy /\ boot' = boot
        /\ Sync(m, Parts, "image_end")
    BY <1>22 DEF set_image_done, store, Idle, Parts
  <2> QED BY <1>0, <2>1, <2>2, SyncStarts DEF Idle
<1>23. CASE set_image_fails
  BY <1>0, <1>23, SyncUnchanged DEF set_image_fails, store, Idle, EndCapsule
<1>24. CASE image_end
  BY <1>0, <1>24, SyncUnchanged DEF image_end, store, Idle, EndCapsule
<1>25. CASE post_update_process
  <2>1. CASE job.capsule_update /\ job.update_status
    <3> DEFINE m == Switch(mem, fwu_plat_get_update_index(mem))
    <3>1. m \in Mdata
      BY SwitchIsMdata, UpdateIndex DEF SyncInv
    <3>2. /\ sync = {} /\ pc \notin Idle /\ copy' = copy /\ boot' = boot
          /\ Sync(m, Parts, "post_switched")
      BY <1>25, <2>1 DEF post_update_process, store, Idle, Parts
    <3> QED BY <1>0, <3>1, <3>2, SyncStarts DEF Idle
  <2>2. CASE ~(job.capsule_update /\ job.update_status)
    BY <1>0, <1>25, <2>2, SyncUnchanged DEF post_update_process, store, Idle
  <2> QED BY <2>1, <2>2
<1>26. CASE post_update_state
  <2>1. CASE UNCHANGED mem /\ UNCHANGED sync
    BY <1>0, <1>26, <2>1, SyncUnchanged DEF post_update_state, Sync, Idle
  <2>2. CASE \E s \in BankStates :
               Sync([mem EXCEPT !.state[mem.active] = s], Parts, "reset")
    <3> PICK s \in BankStates :
               Sync([mem EXCEPT !.state[mem.active] = s], Parts, "reset")
      BY <2>2
    <3> DEFINE m == [mem EXCEPT !.state[mem.active] = s]
    <3>1. m \in Mdata
      BY StateIsMdata DEF SyncInv, Mdata
    <3>2. sync = {} /\ pc \notin Idle /\ copy' = copy /\ boot' = boot
      BY <1>26 DEF post_update_state, Idle
    <3> QED BY <1>0, <3>1, <3>2, SyncStarts DEF Idle
  <2> QED BY <1>26, <2>1, <2>2 DEF post_update_state, Parts, BankStates
<1>27. CASE DeliverCapsule
  BY <1>0, <1>27, SyncUnchanged DEF DeliverCapsule, ram, Idle
<1>28. CASE Reset
  BY <1>0, <1>28, GoodCopies, FactoryIsMdata, BanksAssumption
     DEF Reset, PowerOff, Banks, SyncInv, Idle, Parts, Readable, Ok
<1>29. CASE PowerFailure
  <2>1. /\ pc' = "off" /\ sync' = {} /\ mem' \in Mdata /\ boot' \in Banks
        /\ copy' \in [Parts -> Mdata \union {Torn}]
    BY <1>29, FactoryIsMdata, BanksAssumption
       DEF PowerFailure, PowerOff, SyncInv, Parts, Banks
  <2>2. "mdata" \notin faults' => Readable'
    BY <1>0, <1>29, GoodCopies
       DEF PowerFailure, SyncInv, Idle, Parts, Readable, Ok
  <2> QED BY <2>1, <2>2 DEF SyncInv, Idle
<1>30. CASE UNCHANGED vars
  BY <1>30 DEF vars, store, ram, history, SyncInv, Readable, Ok
<1> QED BY <1>1, <1>2, <1>3, <1>4, <1>5, <1>6, <1>7, <1>8, <1>9, <1>10,
          <1>11, <1>12, <1>13, <1>14, <1>15, <1>16, <1>17, <1>18, <1>19,
          <1>20, <1>21, <1>22, <1>23, <1>24, <1>25, <1>26, <1>27, <1>28,
          <1>29, <1>30 DEF Next
-----------------------------------------------------------------------------

\* The metadata the board leaves the factory with are good in both copies.
LEMMA SyncInit == Init => SyncInv
  BY FactoryIsMdata, BanksAssumption, GoodCopies
     DEF Init, SyncInv, Idle, Parts, Readable, Banks

\* Some copy is always good.
LEMMA MetadataReadable == SyncInv => MetadataSurvives
<1> SUFFICES ASSUME SyncInv, "mdata" \notin faults PROVE Readable
  BY DEF MetadataSurvives, Tolerating
<1>1. CASE pc \in Idle
  BY <1>1 DEF SyncInv
<1>2. CASE pc \notin Idle
  <2>1. Ok(mem)
    BY GoodCopies DEF SyncInv
  <2>2. CASE sync = Parts
    BY <1>2, <2>2 DEF SyncInv, Parts, Readable
  <2>3. CASE sync # Parts
    <3>1. PICK p \in Parts : p \notin sync
      BY <2>3 DEF SyncInv
    <3>2. copy[p] = mem
      BY <1>2, <3>1 DEF SyncInv
    <3> QED BY <2>1, <3>1, <3>2 DEF Parts, Readable
  <2> QED BY <2>2, <2>3
<1> QED BY <1>1, <1>2

\* A power failure at any point, and any sequence of boots and capsules, leaves
\* a copy of the metadata with a good CRC, as long as no write of metadata
\* reports an error: fwu_sync_mdata() and fwu_get_mdata().
THEOREM MetadataTheorem == Spec => []MetadataSurvives
<1>2. SyncInv => MetadataSurvives
  BY MetadataReadable
<1> QED BY <1>2, SyncInit, SyncStep, PTL DEF Spec

-----------------------------------------------------------------------------
(* The banks *)

\* Every action keeps BankInv.
LEMMA BankStep == SyncInv /\ SyncInv' /\ BankInv /\ [Next]_vars => BankInv'
<1> SUFFICES ASSUME SyncInv, SyncInv', BankInv, [Next]_vars PROVE BankInv'
  OBVIOUS
<1>0. mem \in Mdata /\ mem'.active \in Banks /\ boot' \in Banks
  <2>1. mem \in Mdata /\ mem' \in Mdata /\ boot' \in Banks
    BY DEF SyncInv
  <2>2. \A m \in Mdata : m.active \in Banks
    BY DEF Mdata
  <2> QED BY <2>1, <2>2
<1>1. CASE WriteMdata
  BY <1>0, <1>1 DEF WriteMdata, BankInv, Updating, Intact, SomeBankBoots
<1>2. CASE EarlierStage
  BY <1>0, <1>2 DEF EarlierStage, BankInv, Updating, Intact, store, SomeBankBoots
<1>3. CASE fwu_init
  BY <1>0, <1>3 DEF fwu_init, BankInv, Updating, Intact, store, Sync
<1>4. CASE fwu_init_lost
  BY <1>0, <1>4 DEF fwu_init_lost, BankInv, Updating, Intact, store
<1>5. CASE boottime_checks_index
  BY <1>0, <1>5 DEF boottime_checks_index, BankInv, Updating, Intact, store, Sync
<1>6. CASE boottime_checks_switch
  BY <1>0, <1>6 DEF boottime_checks_switch, BankInv, Updating, Intact, store, Sync, Switch, Mdata
<1>7. CASE boottime_checks_switched
  BY <1>0, <1>7 DEF boottime_checks_switched, BankInv, Updating, Intact, store
<1>8. CASE efi_init_fails
  BY <1>0, <1>8 DEF efi_init_fails, BankInv, Updating, Intact, store
<1>9. CASE regular_boot
  BY <1>0, <1>9 DEF regular_boot, BankInv, Updating, Intact, store
<1>10. CASE fwu_trial_count_update
  BY <1>0, <1>10 DEF fwu_trial_count_update, BankInv, Updating, Intact, store
<1>11. CASE trial_counter_missing
  BY <1>0, <1>11 DEF trial_counter_missing, BankInv, Updating, Intact, store
<1>12. CASE trial_count_exceeded
  BY <1>0, <1>12 DEF trial_count_exceeded, BankInv, Updating, Intact, store, Sync
<1>13. CASE trial_counter_delete
  BY <1>0, <1>13 DEF trial_counter_delete, BankInv, Updating, Intact, store
<1>14. CASE launch_capsules
  BY <1>0, <1>14 DEF launch_capsules, BankInv, Updating, Intact, store
<1>15. CASE reject_capsule
  BY <1>0, <1>15 DEF reject_capsule, BankInv, Updating, Intact, store, AtCapsule, EndCapsule
<1>16. CASE revert_capsule
  BY <1>0, <1>16 DEF revert_capsule, BankInv, Updating, Intact, store, Sync, AtCapsule, fwu_empty_capsule_checks_pass
<1>17. CASE accept_capsule
  BY <1>0, <1>17 DEF accept_capsule, BankInv, Updating, Intact, store, Sync, AtCapsule, fwu_empty_capsule_checks_pass
<1>18. CASE accept_capsule_state
  BY <1>0, <1>18 DEF accept_capsule_state, BankInv, Updating, Intact, store, Sync
<1>19. CASE empty_capsule_end
  BY <1>0, <1>19 DEF empty_capsule_end, BankInv, Updating, Intact, store, EndCapsule
<1>20. CASE update_capsule
  BY <1>0, <1>20 DEF update_capsule, BankInv, Updating, Intact, AtCapsule,
     fwu_update_checks_pass, EndCapsule
<1>21. CASE set_image
  <2>1. mem.active = boot /\ UpdateImage[1] # boot
    BY <1>0, <1>21, UpdateIndex DEF set_image, BankInv, Updating, UpdateImage
  <2>2. UpdateImage = <<UpdateImage[1], UpdateImage[2]>>
    BY DEF UpdateImage
  <2>3. Intact(boot)'
    BY <1>21, <2>1, <2>2 DEF set_image, BankInv, Intact
  <2> QED BY <1>0, <1>21, <2>1, <2>3 DEF set_image, BankInv, Updating
<1>22. CASE set_image_done
  BY <1>0, <1>22 DEF set_image_done, BankInv, Updating, Intact, store, Sync, Mdata, UpdateImage
<1>23. CASE set_image_fails
  BY <1>0, <1>23 DEF set_image_fails, BankInv, Updating, Intact, store, EndCapsule
<1>24. CASE image_end
  BY <1>0, <1>24 DEF image_end, BankInv, Updating, Intact, store, EndCapsule
<1>25. CASE post_update_process
  BY <1>0, <1>25 DEF post_update_process, BankInv, Updating, Intact, store, Sync
<1>26. CASE post_update_state
  BY <1>0, <1>26 DEF post_update_state, BankInv, Updating, Intact, store, Sync
<1>27. CASE DeliverCapsule
  BY <1>0, <1>27 DEF DeliverCapsule, BankInv, ram, Updating, Intact, store
<1>28. CASE Reset
  BY <1>0, <1>28 DEF Reset, BankInv, Updating, Intact, store, PowerOff, SomeBankBoots
<1>29. CASE PowerFailure
  BY <1>0, <1>29 DEF PowerFailure, BankInv, Updating, Intact, store, PowerOff, SomeBankBoots
<1>30. CASE UNCHANGED vars
  BY <1>30 DEF vars, store, ram, BankInv, Intact, SomeBankBoots
<1> QED BY <1>1, <1>2, <1>3, <1>4, <1>5, <1>6, <1>7, <1>8, <1>9, <1>10,
          <1>11, <1>12, <1>13, <1>14, <1>15, <1>16, <1>17, <1>18, <1>19,
          <1>20, <1>21, <1>22, <1>23, <1>24, <1>25, <1>26, <1>27, <1>28,
          <1>29, <1>30 DEF Next

\* All banks are complete when the board leaves the factory.
LEMMA BankInit == Init => BankInv
<1>1. Factory.active \in Banks /\ 0 \in Banks
  BY BanksAssumption DEF Factory, Banks
<1>2. Init => \A b \in Banks : Intact(b)
  BY DEF Init, Intact
<1> QED BY <1>1, <1>2 DEF Init, BankInv, SomeBankBoots, Updating

\* Whatever fails, in whatever order, some bank is complete: an update writes
\* only to the bank that fwu_plat_get_update_index() names, and that is never
\* the one which runs.
THEOREM SomeBankTheorem == Spec => []SomeBankBoots
<1>3. BankInv => SomeBankBoots
  BY DEF BankInv, SomeBankBoots
<1> QED BY <1>3, SyncInit, BankInit, SyncStep, BankStep, PTL DEF Spec

-----------------------------------------------------------------------------
(* Reverting an update *)

\* A step within a boot that leaves the copies and the images alone.
LEMMA RevertMoves ==
  ASSUME RevertFacts, UNCHANGED <<copy, torn, ver>>,
         pc' \notin Idle \union {"checks", "invalidated", "switched"},
         Revertible(mem)',
         pc' \in Deciding /\ in_trial'
           => (Intact(mem.active) /\ Intact(mem.previous))',
         pc' \in Deciding \union Updating /\ ~in_trial' => ~OnTrial(mem)',
         pc' = "post_switched" => Intact(mem.previous)'
  PROVE  RevertFacts'
<1>1. \A p \in Parts : Ok(copy[p]) => Revertible(copy[p])
  BY DEF RevertFacts
<1>2. \A p \in Parts : (Ok(copy[p]) => Revertible(copy[p]))'
  BY <1>1 DEF Revertible, OnTrial, fwu_check_trial_state, check_trial_state_v1,
     check_trial_state_v2, fwu_bank_accepted, Intact, Ok
<1> QED BY <1>2 DEF Idle, RevertFacts

\* One that leaves the metadata in RAM alone as well.
LEMMA RevertStays ==
  ASSUME RevertFacts, UNCHANGED <<copy, torn, ver, mem, in_trial>>,
         pc \notin Idle,
         pc' \notin Idle \union {"checks", "invalidated", "switched",
                               "post_switched"},
         \/ pc \in Deciding
         \/ pc \in Updating /\ ~in_trial
         \/ pc' \notin Deciding \union Updating
  PROVE  RevertFacts'
<1>1. (OnTrial(mem)' <=> OnTrial(mem)) /\ \A b : Intact(b)' <=> Intact(b)
  BY DEF OnTrial, fwu_check_trial_state, check_trial_state_v1,
     check_trial_state_v2, fwu_bank_accepted, Intact
<1>2. Revertible(mem)'
  BY <1>1 DEF RevertFacts, Revertible, Intact
<1>3. Intact(mem.active)' <=> Intact(mem.active)
  BY DEF Intact
<1>4. Intact(mem.previous)' <=> Intact(mem.previous)
  BY DEF Intact
<1> QED BY <1>1, <1>2, <1>3, <1>4, RevertMoves DEF RevertFacts

\* Every action keeps the facts, when no fault makes the earlier stage boot
\* another bank.
LEMMA RevertStep ==
  ASSUME SyncInv, BankInv, BankInv', NoOtherBank', RevertFacts, Next
  PROVE  RevertFacts'
<1>0. /\ "mdata" \notin faults' /\ "earlier_stage" \notin faults'
      /\ "mdata" \notin faults /\ ver' = ver
  BY FaultsGrow DEF NoOtherBank, Tolerating
<1> USE <1>0
<1>1. CASE WriteMdata
  <2>1. PICK p \in Parts : p \in sync /\ copy' = [copy EXCEPT ![p] = mem]
    BY <1>1 DEF WriteMdata, write_mdata, Fault, Faults, Parts
  <2>2. /\ UNCHANGED <<torn, ver, pc, boot, mem, in_trial>> /\ pc \notin Idle
    BY <1>1, <2>1 DEF WriteMdata, SyncInv
  <2>3. \A q \in Parts : copy'[q] = copy[q] \/ copy'[q] = mem
    BY <2>1 DEF SyncInv
  <2>4. \A q \in Parts : Ok(copy[q])' => Revertible(copy[q])'
    BY <2>2, <2>3 DEF RevertFacts, Revertible, Ok, Intact, OnTrial, fwu_check_trial_state, check_trial_state_v1,
     check_trial_state_v2, fwu_bank_accepted
  <2> QED BY <2>2, <2>4 DEF RevertFacts, Revertible, Intact, OnTrial, fwu_check_trial_state, check_trial_state_v1,
     check_trial_state_v2, fwu_bank_accepted, Idle
<1>2. CASE EarlierStage
  BY <1>2 DEF EarlierStage, store, RevertFacts, Fault, Faults, Revertible, Ok, Intact,
     OnTrial, fwu_check_trial_state, check_trial_state_v1,
     check_trial_state_v2, fwu_bank_accepted, Deciding, Updating, Idle, Recovered
<1>3. CASE fwu_init
  <2>1. \E p \in Parts : Ok(copy[p]) /\ Recovered = copy[p]
    BY <1>3 DEF fwu_init, Readable, Recovered, Parts
  <2>2. /\ mem' = Recovered /\ UNCHANGED <<copy, torn, ver, boot>> /\ pc' = "checks"
        /\ in_trial' = fwu_check_trial_state(mem', boot) /\ boot = Recovered.active
    BY <1>3 DEF fwu_init, Sync, store, RevertFacts
  <2>3. Revertible(Recovered) /\ Intact(boot)
    BY <1>3, <2>1 DEF RevertFacts, BankInv, fwu_init
  <2>4. Revertible(mem)' /\ (in_trial' <=> OnTrial(mem)')
    BY <2>2, <2>3 DEF Revertible, Intact, OnTrial, fwu_check_trial_state, check_trial_state_v1,
     check_trial_state_v2, fwu_bank_accepted
  <2>5. Intact(mem.active)'
    BY <2>2, <2>3 DEF Intact
  <2>6. \A q \in Parts : (Ok(copy[q]) => Revertible(copy[q]))'
    BY <2>2 DEF RevertFacts, Revertible, Ok, Intact, OnTrial, fwu_check_trial_state, check_trial_state_v1,
     check_trial_state_v2, fwu_bank_accepted
  <2> QED BY <2>2, <2>4, <2>5, <2>6 DEF RevertFacts, Revertible, Idle, Deciding, Updating
<1>4. CASE fwu_init_lost
  BY <1>4 DEF fwu_init_lost, SyncInv, Idle
<1>5. CASE boottime_checks_index
  BY <1>5, RevertStays DEF boottime_checks_index, store, RevertFacts, Idle, Deciding
<1>6. CASE boottime_checks_switch
  BY <1>6 DEF boottime_checks_switch, RevertFacts
<1>7. CASE boottime_checks_switched
  BY <1>7 DEF boottime_checks_switched, RevertFacts
<1>8. CASE efi_init_fails
  BY <1>8, RevertStays DEF efi_init_fails, store, Idle, Deciding
<1>9. CASE regular_boot
  BY <1>9, RevertStays DEF regular_boot, Idle, Deciding
<1>10. CASE fwu_trial_count_update
  BY <1>10, RevertStays DEF fwu_trial_count_update, Idle, Deciding
<1>11. CASE trial_counter_missing
  BY <1>11, RevertStays DEF trial_counter_missing, store, Idle, Deciding
<1>12. CASE trial_count_exceeded \/ revert_capsule
  <2>1. /\ mem' = Swap(mem) /\ UNCHANGED <<copy, torn, ver, in_trial>>
        /\ pc \in Deciding /\ pc' \in {"exceeded", "ended"} /\ in_trial
    BY <1>12 DEF trial_count_exceeded, revert_capsule, store, Sync, Deciding, AtCapsule,
       fwu_empty_capsule_checks_pass
  <2>2. mem'.active = mem.previous /\ mem'.previous = mem.active
    BY <2>1 DEF Swap, Switch, SyncInv, Mdata
  <2>3. Intact(mem.active)' /\ Intact(mem.previous)'
    BY <2>1, <2>2 DEF RevertFacts, Intact
  <2> QED BY <2>1, <2>3, RevertMoves DEF Revertible, Idle, Deciding
<1>13. CASE trial_counter_delete
  BY <1>13, RevertStays DEF trial_counter_delete, Idle, Deciding
<1>14. CASE launch_capsules
  BY <1>14, RevertStays DEF launch_capsules, Idle, Deciding
<1>15. CASE reject_capsule
  BY <1>15, RevertStays DEF reject_capsule, AtCapsule, EndCapsule, Idle, Deciding
<1>16. CASE accept_capsule \/ accept_capsule_state
  <2>1. /\ mem'.active = mem.active /\ mem'.previous = mem.previous
    BY <1>16 DEF accept_capsule, accept_capsule_state, Sync, SyncInv, Mdata
  <2>2. /\ UNCHANGED <<copy, torn, ver, in_trial>>
        /\ pc \in Deciding /\ pc' \in {"accepted", "ended"}
    BY <1>16 DEF accept_capsule, accept_capsule_state, store, Sync, Deciding, AtCapsule
  <2>3. in_trial
    BY <1>16 DEF accept_capsule, accept_capsule_state, fwu_empty_capsule_checks_pass,
       BankInv
  <2>4. Intact(mem.active)' /\ Intact(mem.previous)'
    BY <2>1, <2>2, <2>3 DEF RevertFacts, Intact
  <2> QED BY <2>2, <2>3, <2>4, RevertMoves DEF Revertible, Idle
<1>17. CASE empty_capsule_end
  BY <1>17, RevertStays DEF empty_capsule_end, EndCapsule, Idle, Deciding
<1>18. CASE update_capsule
  BY <1>18, RevertStays DEF update_capsule, AtCapsule, EndCapsule, Idle, Deciding
<1>19. CASE set_image
  <2>1. /\ UNCHANGED <<copy, ver, mem, in_trial, sync>> /\ pc = "image"
        /\ pc' = "writing" /\ sync = {} /\ torn' = torn \union {UpdateImage}
    BY <1>19 DEF set_image
  <2>2. ~in_trial /\ ~OnTrial(mem)
    BY <2>1 DEF BankInv, RevertFacts, Updating
  <2>3. \A q \in Parts : copy[q] = mem
    BY <2>1 DEF SyncInv, Idle
  <2> QED BY <2>1, <2>2, <2>3
     DEF RevertFacts, Revertible, OnTrial, fwu_check_trial_state, check_trial_state_v1,
     check_trial_state_v2, fwu_bank_accepted, Deciding, Idle
<1>20. CASE set_image_done
  <2>1. /\ UNCHANGED <<copy, ver, in_trial>> /\ pc = "writing"
        /\ pc' = "image_end" /\ sync = {} /\ torn' = torn \ {UpdateImage}
        /\ mem' = [mem EXCEPT !.accepted[UpdateImage[1]][UpdateImage[2]]
                                = ~Head(dir).os]
    BY <1>20 DEF set_image_done, Sync
  <2>2. ~in_trial /\ ~OnTrial(mem)
    BY <2>1 DEF BankInv, RevertFacts, Updating
  <2>3. \A q \in Parts : copy[q] = mem
    BY <2>1 DEF SyncInv, Idle
  <2>4. UpdateImage[1] # mem.active
    BY UpdateIndex DEF UpdateImage, SyncInv
  <2>5. /\ mem'.active = mem.active /\ mem'.state = mem.state
        /\ mem'.accepted[mem.active] = mem.accepted[mem.active]
    BY <2>1, <2>4 DEF SyncInv, Mdata
  <2>6. ~OnTrial(mem)'
    BY <2>2, <2>5 DEF OnTrial, fwu_check_trial_state, check_trial_state_v1,
     check_trial_state_v2, fwu_bank_accepted
  <2>7. \A q \in Parts : ~OnTrial(copy[q])'
    BY <2>1, <2>2, <2>3 DEF OnTrial, fwu_check_trial_state, check_trial_state_v1,
     check_trial_state_v2, fwu_bank_accepted
  <2> QED BY <2>1, <2>2, <2>6, <2>7 DEF RevertFacts, Revertible, Deciding, Idle
<1>21. CASE set_image_fails
  BY <1>21, RevertStays DEF set_image_fails, EndCapsule, Idle, Updating, BankInv
<1>22. CASE image_end
  BY <1>22, RevertStays DEF image_end, EndCapsule, Idle, Updating, BankInv
<1>23. CASE post_update_process
  <2>1. /\ UNCHANGED <<copy, torn, ver, in_trial>> /\ pc = "capsule"
    BY <1>23 DEF post_update_process, store
  <2>2. CASE UNCHANGED mem /\ pc' = "reset"
    BY <2>1, <2>2, RevertStays DEF Idle, Deciding
  <2>3. CASE mem' = Switch(mem, fwu_plat_get_update_index(mem)) /\ pc' = "post_switched"
    <3>1. mem'.previous = mem.active
      BY <2>3 DEF Switch, SyncInv, Mdata
    <3>2. Intact(mem.active)
      BY <2>1 DEF RevertFacts, BankInv, Deciding
    <3>3. Intact(mem.previous)' /\ Revertible(mem)'
      BY <2>1, <3>1, <3>2 DEF Revertible, Intact
    <3> QED BY <2>1, <2>3, <3>3, RevertMoves DEF Idle, Deciding, Updating
  <2> QED BY <1>23, <2>2, <2>3 DEF post_update_process, Sync
<1>24. CASE post_update_state
  <2>1. /\ UNCHANGED <<copy, torn, ver, in_trial>> /\ pc = "post_switched"
        /\ pc' = "reset"
    BY <1>24 DEF post_update_state, Sync
  <2>2. CASE UNCHANGED mem
    BY <2>1, <2>2, RevertStays DEF Idle, Deciding, Updating
  <2>3. CASE \E s \in BankStates : mem' = [mem EXCEPT !.state[mem.active] = s]
    <3>1. mem'.previous = mem.previous
      BY <2>3 DEF SyncInv, Mdata
    <3>2. Intact(mem.previous)'
      BY <2>1, <3>1 DEF RevertFacts, Intact
    <3> QED BY <2>1, <3>2, RevertMoves DEF Idle, Deciding, Updating, Revertible
  <2> QED BY <1>24, <2>2, <2>3 DEF post_update_state, Sync, BankStates
<1>25. CASE DeliverCapsule
  BY <1>25, RevertStays DEF DeliverCapsule, ram, Idle, Deciding, Updating, RevertFacts
<1>26. CASE Reset
  BY <1>26 DEF Reset, PowerOff, RevertFacts, Revertible, Ok, Intact, OnTrial, fwu_check_trial_state, check_trial_state_v1,
     check_trial_state_v2, fwu_bank_accepted,
     Idle, Deciding, Updating
<1>27. CASE PowerFailure
  <2>1. \A q \in Parts : copy'[q] = copy[q] \/ copy'[q] = Torn
    BY <1>27 DEF PowerFailure, SyncInv
  <2>2. /\ UNCHANGED <<torn, ver>> /\ pc' = "off"
    BY <1>27 DEF PowerFailure, PowerOff
  <2>3. \A q \in Parts : Ok(copy[q])' => Revertible(copy[q])'
    BY <2>1, <2>2 DEF RevertFacts, Revertible, Ok, Intact, OnTrial, fwu_check_trial_state, check_trial_state_v1,
     check_trial_state_v2, fwu_bank_accepted
  <2> QED BY <2>2, <2>3 DEF RevertFacts, Idle, Deciding, Updating
<1> QED BY <1>1, <1>2, <1>3, <1>4, <1>5, <1>6, <1>7, <1>8, <1>9, <1>10, <1>11,
          <1>12, <1>13, <1>14, <1>15, <1>16, <1>17, <1>18, <1>19, <1>20, <1>21,
          <1>22, <1>23, <1>24, <1>25, <1>26, <1>27 DEF Next

\* A stuttering step keeps them too.
LEMMA RevertStutter == RevertFacts /\ UNCHANGED vars => RevertFacts'
  BY DEF vars, store, ram, RevertFacts, Revertible, Ok, Intact, OnTrial, fwu_check_trial_state, check_trial_state_v1,
     check_trial_state_v2, fwu_bank_accepted,
     Recovered

\* RevertInv holds in every state.
LEMMA RevertInvariant == Spec => [](SyncInv /\ BankInv /\ RevertInv)
<1>1. Init => RevertInv
  <2> SUFFICES ASSUME Init PROVE RevertFacts
    BY DEF RevertInv
  <2>1. \A b : Intact(b)
    BY DEF Init, Intact
  <2> QED BY <2>1 DEF Init, RevertFacts, Revertible, Idle, Deciding, Updating
<1>2. SyncInv /\ BankInv /\ BankInv' /\ RevertInv /\ [Next]_vars => RevertInv'
  <2> SUFFICES ASSUME SyncInv, BankInv, BankInv', RevertInv, [Next]_vars, NoOtherBank'
               PROVE  RevertFacts'
    BY DEF RevertInv
  <2>1. RevertFacts
    BY FaultsGrow DEF RevertInv, NoOtherBank, Tolerating
  <2> QED BY <2>1, RevertStep, RevertStutter
<1> QED BY <1>1, <1>2, SyncInit, BankInit, SyncStep, BankStep, PTL DEF Spec

\* While an update is on trial the bank to go back to is complete, whatever
\* power failures, failing EFI services and failing capsules came before:
\* fwu_update_checks_pass() refuses updates in the trial state.
THEOREM RevertTheorem == Spec => []TrialCanRevert
<1>1. SyncInv /\ RevertInv => TrialCanRevert
  <2> SUFFICES ASSUME SyncInv, RevertInv, NoOtherBank, OnTrial(Recovered)
               PROVE  Intact(Recovered.previous)
    BY DEF TrialCanRevert, NoOtherBank, OnTrial
  <2>1. Readable
    BY MetadataReadable DEF MetadataSurvives, NoOtherBank, Tolerating, AllFaults
  <2>2. Revertible(Recovered)
    BY <2>1 DEF RevertInv, RevertFacts, Readable, Recovered, Parts
  <2> QED BY <2>2 DEF Revertible
<1> QED BY <1>1, RevertInvariant, PTL

-----------------------------------------------------------------------------
(* The capsules on disk *)

\* What is in a sequence but its first element.
LEMMA TailFacts ==
  ASSUME NEW S, NEW s \in Seq(S), s # <<>>
  PROVE  /\ Head(s) \in S /\ Head(s) = s[1] /\ Len(s) \in Nat \ {0}
         /\ Tail(s) \in Seq(S) /\ Len(Tail(s)) = Len(s) - 1
         /\ \A k \in 2..Len(s) : Tail(s)[k - 1] = s[k]
         /\ Range(s) = {Head(s)} \union Range(Tail(s))
<1>1. /\ Head(s) \in S /\ Head(s) = s[1] /\ Len(s) \in Nat \ {0}
      /\ Tail(s) \in Seq(S) /\ Len(Tail(s)) = Len(s) - 1
  OBVIOUS
<1>2. \A k \in 1..Len(s)-1 : Tail(s)[k] = s[k + 1]
  OBVIOUS
<1>3. \A k \in 2..Len(s) : Tail(s)[k - 1] = s[k]
  BY <1>1, <1>2
<1>4. /\ DOMAIN s = 1..Len(s) /\ DOMAIN Tail(s) = 1..Len(s)-1
  BY <1>1
<1>5. Range(s) \subseteq {Head(s)} \union Range(Tail(s))
  <2> SUFFICES ASSUME NEW k \in 1..Len(s), k # 1 PROVE s[k] \in Range(Tail(s))
    BY <1>1, <1>4 DEF Range
  <2>1. k - 1 \in 1..Len(s)-1 /\ s[k] = Tail(s)[k - 1]
    BY <1>1, <1>3
  <2> QED BY <1>4, <2>1 DEF Range
<1>6. {Head(s)} \union Range(Tail(s)) \subseteq Range(s)
  <2>1. Head(s) \in Range(s)
    BY <1>1, <1>4 DEF Range
  <2>2. ASSUME NEW k \in 1..Len(s)-1 PROVE Tail(s)[k] \in Range(s)
    <3>1. k + 1 \in 1..Len(s)
      BY <1>1
    <3> QED BY <1>2, <1>4, <3>1 DEF Range
  <2> QED BY <1>4, <2>1, <2>2 DEF Range
<1> QED BY <1>1, <1>3, <1>5, <1>6

\* When nothing comes after the first element.
LEMMA TailEmpty ==
  ASSUME NEW S, NEW s \in Seq(S), s # <<>>
  PROVE  /\ Len(s) > 1 => Tail(s) # <<>>
         /\ ~(Len(s) > 1) => Range(Tail(s)) = {}
<1>1. Len(s) \in Nat \ {0} /\ Tail(s) \in Seq(S) /\ Len(Tail(s)) = Len(s) - 1
  BY TailFacts
<1>2. ASSUME Len(s) > 1 PROVE Tail(s) # <<>>
  <2>1. \A n, m \in Nat : n > 1 /\ m = n - 1 => m # 0
    OBVIOUS
  <2>2. Len(Tail(s)) \in Nat
    BY <1>1
  <2>3. Len(Tail(s)) # 0
    BY <1>1, <1>2, <2>1, <2>2
  <2>4. Len(<<>>) = 0
    OBVIOUS
  <2> QED BY <2>3, <2>4, Zenon
<1>3. ASSUME ~(Len(s) > 1) PROVE Range(Tail(s)) = {}
  BY <1>1, <1>3 DEF Range
<1> QED BY <1>2, <1>3

\* A step that leaves the capsules and the job alone.
LEMMA DiskFrame ==
  ASSUME DiskInv, UNCHANGED <<dir, job>>,
         pc' \in Updating => pc \in Updating,
         pc' \in {"accepted", "ended"} => dir # <<>>,
         pc' = "post_switched" => dir = <<>>,
         "mdata" \notin faults' => ~err'
  PROVE  DiskInv'
  BY DEF DiskInv

\* A capsule has been dealt with.
LEMMA DiskEnd ==
  ASSUME DiskInv, dir # <<>>, NEW ok, EndCapsule(ok), "mdata" \notin faults' => ~err'
  PROVE  DiskInv'
<1>1. dir' \in Seq(Capsules) /\ Len(dir') <= MaxDir
  <2>1. Len(dir) <= MaxDir /\ dir \in Seq(Capsules) /\ dir' = Tail(dir)
    BY DEF DiskInv, EndCapsule
  <2> QED BY <2>1, TailFacts, BoundAssumption
<1>2. job' \in Jobs
  <2> DEFINE status == job.update_status /\ ok
             update == job.capsule_update /\ ~(ok /\ fwu_empty_capsule)
             accept == job.fw_accept_os
                         \/ (ok /\ ~fwu_empty_capsule /\ Head(dir).os)
  <2>1. status \in BOOLEAN /\ update \in BOOLEAN /\ accept \in BOOLEAN
    OBVIOUS
  <2>2. job' = [job EXCEPT !.items = <<>>, !.ok = TRUE, !.update_status = status,
                           !.capsule_update = update, !.fw_accept_os = accept]
    BY DEF EndCapsule
  <2>3. job \in Jobs /\ <<>> \in Seq(Images)
    BY DEF DiskInv
  <2> HIDE DEF status, update, accept
  <2> QED BY <2>1, <2>2, <2>3 DEF Jobs
<1>3. pc' = "capsule"
  BY DEF EndCapsule
<1> QED BY <1>1, <1>2, <1>3 DEF DiskInv, Updating

\* Every action keeps DiskInv.
LEMMA DiskStep == SyncInv /\ DiskInv /\ [Next]_vars => DiskInv'
<1> SUFFICES ASSUME SyncInv, DiskInv, [Next]_vars PROVE DiskInv'
  OBVIOUS
<1>0. faults \subseteq faults'
  BY FaultsGrow
<1> USE <1>0
<1>1. CASE WriteMdata
  <2>1. UNCHANGED <<dir, job, pc>>
    BY <1>1 DEF WriteMdata
  <2>2. "mdata" \notin faults' => err' = err
    BY <1>1 DEF WriteMdata, write_mdata, Fault, Faults
  <2> QED BY <2>1, <2>2, DiskFrame DEF DiskInv
<1>2. CASE EarlierStage
  BY <1>2, DiskFrame DEF EarlierStage, store, Updating, DiskInv
<1>3. CASE fwu_init
  BY <1>3, DiskFrame DEF fwu_init, store, Sync, Updating, DiskInv
<1>4. CASE fwu_init_lost
  BY <1>4, DiskFrame DEF fwu_init_lost, store, Updating, DiskInv
<1>5. CASE boottime_checks_index
  BY <1>5, DiskFrame DEF boottime_checks_index, store, Sync, Updating, DiskInv
<1>6. CASE boottime_checks_switch
  BY <1>6, DiskFrame DEF boottime_checks_switch, store, Sync, Updating, DiskInv
<1>7. CASE boottime_checks_switched
  BY <1>7, DiskFrame DEF boottime_checks_switched, store, Updating, DiskInv
<1>8. CASE efi_init_fails
  BY <1>8, DiskFrame DEF efi_init_fails, store, Updating, DiskInv
<1>9. CASE regular_boot
  BY <1>9, DiskFrame DEF regular_boot, Updating, DiskInv
<1>10. CASE fwu_trial_count_update
  BY <1>10, DiskFrame DEF fwu_trial_count_update, Updating, DiskInv
<1>11. CASE trial_counter_missing
  BY <1>11, DiskFrame DEF trial_counter_missing, store, Updating, DiskInv
<1>12. CASE trial_count_exceeded
  BY <1>12, DiskFrame DEF trial_count_exceeded, store, Sync, Updating, DiskInv
<1>13. CASE trial_counter_delete
  BY <1>13, DiskFrame DEF trial_counter_delete, Updating, DiskInv
<1>14. CASE launch_capsules
  BY <1>14 DEF launch_capsules, history, NoJob, Jobs, Updating, DiskInv
<1>15. CASE reject_capsule
  BY <1>15, DiskEnd DEF reject_capsule, AtCapsule, DiskInv
<1>16. CASE revert_capsule
  BY <1>16, DiskFrame DEF revert_capsule, store, AtCapsule, Sync, Updating, DiskInv
<1>17. CASE accept_capsule
  BY <1>17, DiskFrame DEF accept_capsule, store, AtCapsule, Sync, Updating, DiskInv
<1>18. CASE accept_capsule_state
  <2>1. pc = "accepted" /\ pc' = "ended" /\ UNCHANGED dir /\ ~err'
    BY <1>18 DEF accept_capsule_state, store, Sync
  <2>2. job' \in Jobs
    BY <1>18 DEF accept_capsule_state, DiskInv, Jobs
  <2> QED BY <2>1, <2>2 DEF DiskInv, Updating
<1>19. CASE empty_capsule_end
  BY <1>19, DiskEnd DEF empty_capsule_end, history, DiskInv
<1>20. CASE update_capsule
  <2>1. CASE Head(dir).items # <<>>
    <3>1. /\ pc' = "image" /\ job' = [job EXCEPT !.items = Head(dir).items]
          /\ UNCHANGED <<dir, err>> /\ dir # <<>>
      BY <1>20, <2>1 DEF update_capsule, AtCapsule
    <3>2. Head(dir) \in Capsules
      BY <3>1, TailFacts DEF DiskInv
    <3>3. job' \in Jobs /\ job'.items = Head(dir).items
      BY <3>1, <3>2, CapsuleAssumption DEF DiskInv, Jobs
    <3> QED BY <2>1, <3>1, <3>3 DEF DiskInv, Updating
  <2>2. CASE Head(dir).items = <<>>
    BY <1>20, <2>2, DiskEnd DEF update_capsule, AtCapsule, DiskInv
  <2> QED BY <2>1, <2>2
<1>21. CASE set_image
  BY <1>21, DiskFrame DEF set_image, history, Updating, DiskInv
<1>22. CASE set_image_done
  BY <1>22, DiskFrame DEF set_image_done, history, Sync, Updating, DiskInv
<1>23. CASE set_image_fails
  BY <1>23, DiskEnd DEF set_image_fails, Updating, DiskInv
<1>24. CASE image_end
  <2>1. CASE ~err /\ Len(job.items) > 1
    <3>1. /\ pc = "image_end" /\ pc' = "image" /\ UNCHANGED <<dir, err>>
          /\ job' = [job EXCEPT !.items = Tail(job.items)]
      BY <1>24, <2>1 DEF image_end
    <3>2. job.items \in Seq(Images) /\ job.items # <<>>
      BY <3>1 DEF DiskInv, Jobs, Updating
    <3>3. /\ Tail(job.items) \in Seq(Images) /\ Tail(job.items) # <<>>
          /\ Range(Tail(job.items)) \subseteq Range(job.items)
      BY <2>1, <3>2, TailFacts, TailEmpty
    <3>4. job' \in Jobs /\ job'.items = Tail(job.items)
      BY <3>1, <3>3 DEF DiskInv, Jobs
    <3>5. job'.items # <<>>
      BY <3>3, <3>4
    <3> QED BY <2>1, <3>1, <3>3, <3>4, <3>5 DEF DiskInv, Updating
  <2>2. CASE ~(~err /\ Len(job.items) > 1)
    BY <1>24, <2>2, DiskEnd DEF image_end, history, Updating, DiskInv
  <2> QED BY <2>1, <2>2
<1>25. CASE post_update_process
  BY <1>25, DiskFrame DEF post_update_process, store, Sync, Updating, DiskInv
<1>26. CASE post_update_state
  BY <1>26, DiskFrame DEF post_update_state, Sync, Updating, DiskInv
<1>27. CASE DeliverCapsule
  <2>1. PICK c \in Capsules : dir' \in {<<c>> \o dir, dir \o <<c>>}
    BY <1>27 DEF DeliverCapsule
  <2>2. dir' \in Seq(Capsules) /\ Len(dir') <= MaxDir
    <3>1. dir \in Seq(Capsules) /\ Len(dir) < MaxDir /\ Len(dir) \in Nat
      BY <1>27 DEF DeliverCapsule, DiskInv
    <3>2. CASE dir' = <<c>> \o dir
      BY <3>1, <3>2, BoundAssumption
    <3>3. CASE dir' = dir \o <<c>>
      BY <3>1, <3>3, BoundAssumption
    <3> QED BY <2>1, <3>2, <3>3
  <2> QED BY <1>27, <2>2 DEF DeliverCapsule, ram, history, DiskInv, Updating
<1>28. CASE Reset
  BY <1>28 DEF Reset, PowerOff, DiskInv, NoJob, Jobs, Updating
<1>29. CASE PowerFailure
  BY <1>29 DEF PowerFailure, PowerOff, DiskInv, NoJob, Jobs, Updating
<1>30. CASE UNCHANGED vars
  BY <1>30 DEF vars, store, ram, history, DiskInv
<1> QED BY <1>1, <1>2, <1>3, <1>4, <1>5, <1>6, <1>7, <1>8, <1>9, <1>10,
          <1>11, <1>12, <1>13, <1>14, <1>15, <1>16, <1>17, <1>18, <1>19,
          <1>20, <1>21, <1>22, <1>23, <1>24, <1>25, <1>26, <1>27, <1>28,
          <1>29, <1>30 DEF Next

\* The disk is empty and no job is under way at first.
LEMMA DiskInit == Init => DiskInv
  BY BoundAssumption DEF Init, DiskInv, NoJob, Jobs, Updating

-----------------------------------------------------------------------------
(* Incomplete images *)

\* A step within a boot that leaves the metadata and the images alone.
LEMMA TornFrame ==
  ASSUME TornWhere, TornQuiet, UNCHANGED <<copy, torn, mem, ver, in_trial>>,
         pc \notin Idle
  PROVE  TornWhere' /\ TornQuiet'
  BY DEF TornWhere, TornQuiet, fwu_plat_get_update_index, Ok, OnTrial, fwu_check_trial_state, check_trial_state_v1,
     check_trial_state_v2, fwu_bank_accepted

\* A step that leaves the capsules alone, and what remains of the first one.
LEMMA ComingFrame ==
  ASSUME TornComing, UNCHANGED <<torn, dir>>, Left \subseteq Left'
  PROVE  TornComing'
  BY DEF TornComing, Coming

\* The first capsule is done with, and nothing of it was left.
LEMMA ComingEnd ==
  ASSUME TornComing, dir \in Seq(Capsules), dir # <<>>, Left = {}, NEW ok,
         EndCapsule(ok), UNCHANGED torn
  PROVE  TornComing'
<1> SUFFICES ASSUME NEW t \in torn PROVE Coming(t[2])'
  BY DEF TornComing
<1>1. PICK k \in 2..Len(dir) : t[2] \in Range(dir[k].items)
  BY DEF TornComing, Coming
<1>2. dir' = Tail(dir) /\ pc' = "capsule"
  BY DEF EndCapsule
<1>3. /\ dir' \in Seq(Capsules) /\ Len(dir') = Len(dir) - 1 /\ Len(dir) \in Nat
      /\ dir'[k - 1] = dir[k]
  BY <1>1, <1>2, TailFacts
<1>4. CASE k = 2
  <2>1. dir' # <<>> /\ Head(dir') = dir[2]
    BY <1>1, <1>2, <1>3, <1>4
  <2> QED BY <1>1, <1>2, <1>4, <2>1 DEF Coming, Left
<1>5. CASE k # 2
  BY <1>1, <1>3, <1>5 DEF Coming
<1> QED BY <1>4, <1>5

\* A step before the images are written, or after, with the same capsules.
LEMMA TornStays ==
  ASSUME TornFacts, UNCHANGED <<copy, torn, mem, ver, in_trial, dir>>,
         pc \notin Idle \union Updating, pc' \notin Updating,
         faults \subseteq faults', ChecksPass'
  PROVE  TornFacts'
<1>1. TornWhere' /\ TornQuiet'
  BY TornFrame DEF TornFacts
<1>2. Left' = Left
  BY DEF Left, Updating
<1>3. TornComing'
  BY <1>2, ComingFrame DEF TornFacts
<1>4. TornWritten'
  BY DEF TornFacts, TornWritten, Updating, EfiOnly, Tolerating
<1> QED BY <1>1, <1>3, <1>4 DEF TornFacts

\* A step while no image is incomplete.
LEMMA TornNone ==
  ASSUME torn = {}, UNCHANGED torn, ChecksPass'
  PROVE  TornFacts'
  BY DEF TornFacts, TornWhere, TornComing, TornQuiet, TornWritten

\* In the trial state no image is incomplete, nor when the disk is empty.
LEMMA TornNever ==
  ASSUME TornFacts
  PROVE  /\ pc \notin Idle /\ in_trial => torn = {}
         /\ pc \notin Updating /\ dir = <<>> => torn = {}
<1>1. pc \notin Idle /\ in_trial => torn = {}
  BY DEF TornFacts, TornQuiet
<1>2. ASSUME pc \notin Updating, dir = <<>> PROVE torn = {}
  <2>1. Left = {} /\ Len(dir) = 0
    BY <1>2 DEF Left, Updating
  <2>2. \A i : ~Coming(i)
    BY <2>1 DEF Coming
  <2> QED BY <2>2 DEF TornFacts, TornComing
<1> QED BY <1>1, <1>2

\* Every action keeps the facts.
LEMMA TornStep ==
  ASSUME SyncInv, BankInv, RevertFacts, RevertFacts', DiskInv, DiskInv', TornFacts,
         (PowerOnly \/ EfiOnly)', Next
  PROVE  TornFacts'
<1>0. /\ faults \subseteq faults' /\ ver' = ver
      /\ "mdata" \notin faults' /\ "capsule" \notin faults'
      /\ "earlier_stage" \notin faults'
      /\ PowerOnly' => PowerOnly /\ "efi" \notin faults'
      /\ EfiOnly' => EfiOnly /\ "power" \notin faults'
  BY FaultsGrow DEF PowerOnly, EfiOnly, Tolerating
<1> USE <1>0
<1>1. CASE WriteMdata
  <2>1. PICK p \in Parts : p \in sync /\ copy' = [copy EXCEPT ![p] = mem]
    BY <1>1 DEF WriteMdata, write_mdata, Fault, Faults, Parts
  <2>2. /\ UNCHANGED <<torn, ver, pc, mem, in_trial, dir, job, checked>> /\ pc \notin Idle
    BY <1>1, <2>1 DEF WriteMdata, SyncInv
  <2>3. \A q \in Parts : copy'[q] = copy[q] \/ copy'[q] = mem
    BY <2>1 DEF SyncInv
  <2>4. TornWhere'
    BY <2>2, <2>3 DEF TornFacts, TornWhere, fwu_plat_get_update_index, Ok
  <2>5. TornQuiet'
    BY <2>2, <2>3 DEF TornFacts, TornQuiet, Ok, OnTrial, fwu_check_trial_state, check_trial_state_v1,
     check_trial_state_v2, fwu_bank_accepted
  <2>6. TornComing'
    BY <2>2, ComingFrame DEF TornFacts, Left
  <2>7. TornWritten' /\ ChecksPass'
    BY <2>2 DEF TornFacts, TornWritten, ChecksPass, UpdateImage, fwu_plat_get_update_index
  <2> QED BY <2>4, <2>5, <2>6, <2>7 DEF TornFacts
<1>2. CASE EarlierStage
  <2>1. /\ UNCHANGED <<copy, torn, ver, dir>> /\ pc = "off" /\ pc' = "init"
    BY <1>2 DEF EarlierStage, store
  <2>2. TornWhere' /\ TornQuiet'
    BY <2>1 DEF TornFacts, TornWhere, TornQuiet, fwu_plat_get_update_index, Ok, OnTrial, fwu_check_trial_state, check_trial_state_v1,
     check_trial_state_v2, fwu_bank_accepted, Idle
  <2>3. TornComing'
    BY <2>1, ComingFrame DEF TornFacts, Left
  <2>4. TornWritten' /\ ChecksPass'
    BY <2>1 DEF TornFacts, TornWritten, ChecksPass, Updating
  <2> QED BY <2>2, <2>3, <2>4 DEF TornFacts
<1>3. CASE fwu_init
  <2>1. \E p \in Parts : Ok(copy[p]) /\ Recovered = copy[p]
    BY <1>3 DEF fwu_init, Readable, Recovered, Parts
  <2>2. /\ mem' = Recovered /\ UNCHANGED <<copy, torn, ver, dir>>
        /\ pc = "init" /\ pc' = "checks"
        /\ in_trial' = fwu_check_trial_state(mem', boot) /\ boot = Recovered.active
    BY <1>3 DEF fwu_init, Sync, store, RevertFacts
  <2>3. TornWhere'
    BY <2>1, <2>2 DEF TornFacts, TornWhere, fwu_plat_get_update_index, Ok
  <2>4. torn # {} => ~OnTrial(Recovered)
    BY <2>1 DEF TornFacts, TornQuiet
  <2>5. TornQuiet'
    BY <2>2, <2>4 DEF TornFacts, TornQuiet, Ok, OnTrial, fwu_check_trial_state, check_trial_state_v1,
     check_trial_state_v2, fwu_bank_accepted
  <2>6. TornComing'
    BY <2>2, ComingFrame DEF TornFacts, Left
  <2>7. TornWritten' /\ ChecksPass'
    BY <2>2 DEF TornFacts, TornWritten, ChecksPass, Updating
  <2> QED BY <2>3, <2>5, <2>6, <2>7 DEF TornFacts
<1>4. CASE fwu_init_lost
  BY <1>4 DEF fwu_init_lost, SyncInv, Idle
<1>5. CASE boottime_checks_index
  <2>1. ChecksPass'
    BY <1>5 DEF boottime_checks_index, Sync, ChecksPass, Updating
  <2> QED BY <1>5, <2>1, TornStays
        DEF boottime_checks_index, store, RevertFacts, Idle, Updating
<1>6. CASE boottime_checks_switch \/ boottime_checks_switched
  BY <1>6 DEF boottime_checks_switch, boottime_checks_switched, RevertFacts
<1>7. CASE efi_init_fails
  <2>1. ChecksPass'
    BY <1>7 DEF efi_init_fails, ChecksPass, Updating
  <2> QED BY <1>7, <2>1, TornStays DEF efi_init_fails, store, Idle, Updating
<1>8. CASE regular_boot
  <2>1. ChecksPass'
    BY <1>8 DEF regular_boot, trial_counter_update, Fault, Faults, ChecksPass
  <2> QED BY <1>8, <2>1, TornStays DEF regular_boot, Idle, Updating
<1>9. CASE fwu_trial_count_update
  <2>1. ChecksPass'
    BY <1>9 DEF fwu_trial_count_update, ChecksPass
  <2> QED BY <1>9, <2>1, TornStays DEF fwu_trial_count_update, Idle, Updating
<1>10. CASE trial_counter_missing
  <2>1. ChecksPass'
    BY <1>10 DEF trial_counter_missing, ChecksPass
  <2> QED BY <1>10, <2>1, TornStays DEF trial_counter_missing, store, Idle, Updating
<1>11. CASE trial_count_exceeded \/ revert_capsule \/ accept_capsule
  <2>1. UNCHANGED <<torn, in_trial>> /\ in_trial /\ pc \notin Idle
    BY <1>11 DEF trial_count_exceeded, revert_capsule, accept_capsule, store,
       fwu_empty_capsule_checks_pass, AtCapsule, Idle
  <2> QED BY <2>1, TornNone, TornNever DEF ChecksPass
<1>12. CASE trial_counter_delete \/ accept_capsule_state \/ empty_capsule_end
  <2>1. UNCHANGED <<torn, in_trial>> /\ in_trial /\ pc \notin Idle
    BY <1>12 DEF trial_counter_delete, accept_capsule_state, empty_capsule_end, store,
       BankInv, Idle
  <2> QED BY <2>1, TornNone, TornNever DEF ChecksPass
<1>13. CASE launch_capsules
  <2>1. ChecksPass'
    BY <1>13 DEF launch_capsules, ChecksPass, Updating, TornFacts
  <2> QED BY <1>13, <2>1, TornStays DEF launch_capsules, Idle, Updating
<1>14. CASE reject_capsule
  <2>1. /\ UNCHANGED <<copy, torn, mem, ver, in_trial, checked>> /\ pc = "capsule"
        /\ pc' = "capsule" /\ dir # <<>> /\ EndCapsule(FALSE)
    BY <1>14 DEF reject_capsule, AtCapsule, EndCapsule
  <2>2. ChecksPass'
    BY <2>1 DEF TornFacts, ChecksPass
  <2>3. CASE torn = {}
    BY <2>1, <2>2, <2>3, TornNone
  <2>4. CASE torn # {}
    <3>1. PowerOnly' /\ ~in_trial
      BY <2>1, <2>4 DEF TornFacts, TornWritten, TornQuiet, Idle
    <3>2. checked
      BY <2>1, <3>1 DEF TornFacts, ChecksPass
    <3>3. fwu_empty_capsule
      BY <1>14, <3>1, <3>2 DEF reject_capsule, fwu_update_checks_pass, Fault, Faults
    <3>4. Left = {}
      <4>1. Head(dir) \in Capsules
        BY <2>1, TailFacts DEF DiskInv
      <4>2. Head(dir).items = <<>>
        BY <3>3, <4>1, CapsuleAssumption DEF fwu_empty_capsule
      <4> QED BY <2>1, <4>2 DEF Left, Range
    <3>5. TornComing'
      BY <2>1, <3>4, ComingEnd DEF TornFacts, DiskInv
    <3>6. TornWhere' /\ TornQuiet'
      BY <2>1, TornFrame DEF TornFacts, Idle
    <3>7. TornWritten'
      BY <2>1, <2>4 DEF TornFacts, TornWritten
    <3> QED BY <2>2, <3>5, <3>6, <3>7 DEF TornFacts
  <2> QED BY <2>3, <2>4
<1>15. CASE update_capsule
  <2>1. /\ UNCHANGED <<copy, torn, mem, ver, in_trial, checked>> /\ pc = "capsule"
        /\ dir # <<>> /\ ~in_trial /\ checked
    BY <1>15 DEF update_capsule, AtCapsule, fwu_update_checks_pass
  <2>2. TornWhere' /\ TornQuiet'
    BY <2>1, TornFrame DEF TornFacts, Idle
  <2>3. ChecksPass'
    BY <2>1 DEF ChecksPass
  <2>4. TornWritten'
    BY <2>1 DEF TornFacts, TornWritten
  <2>5. CASE Head(dir).items = <<>>
    <3>1. EndCapsule(TRUE)
      BY <1>15, <2>5 DEF update_capsule
    <3>2. Left = {}
      BY <2>1, <2>5 DEF Left, Range
    <3>3. TornComing'
      BY <2>1, <3>1, <3>2, ComingEnd DEF TornFacts, DiskInv
    <3> QED BY <2>2, <2>3, <2>4, <3>3 DEF TornFacts
  <2>6. CASE Head(dir).items # <<>>
    <3>1. /\ pc' = "image" /\ UNCHANGED dir
          /\ job' = [job EXCEPT !.items = Head(dir).items]
      BY <1>15, <2>6 DEF update_capsule
    <3>2. job'.items = Head(dir).items
      BY <3>1 DEF DiskInv, Jobs
    <3>3. Left' = Left
      BY <2>1, <3>1, <3>2 DEF Left
    <3>4. TornComing'
      BY <2>1, <3>1, <3>3, ComingFrame DEF TornFacts
    <3> QED BY <2>2, <2>3, <2>4, <3>4 DEF TornFacts
  <2> QED BY <2>5, <2>6
<1>16. CASE set_image
  <2>1. /\ UNCHANGED <<copy, ver, mem, in_trial, checked, dir, job>> /\ pc = "image"
        /\ pc' = "writing" /\ sync = {} /\ torn' = torn \union {UpdateImage}
    BY <1>16 DEF set_image
  <2>2. ~in_trial /\ ~OnTrial(mem)
    BY <2>1 DEF BankInv, RevertFacts, Updating
  <2>3. \A q \in Parts : copy[q] = mem
    BY <2>1 DEF SyncInv, Idle
  <2>4. UpdateImage = <<fwu_plat_get_update_index(mem), Head(job.items)>>
    BY DEF UpdateImage
  <2>5. TornWhere'
    BY <2>1, <2>3, <2>4 DEF TornFacts, TornWhere, fwu_plat_get_update_index, Idle
  <2>6. TornQuiet'
    BY <2>1, <2>2, <2>3 DEF TornQuiet, OnTrial, fwu_check_trial_state, check_trial_state_v1,
     check_trial_state_v2, fwu_bank_accepted
  <2>7. TornComing'
    <3>1. Left' = Left
      BY <2>1 DEF Left
    <3>2. Head(job.items) \in Left
      <4>1. job.items \in Seq(Images) /\ job.items # <<>>
        BY <2>1 DEF DiskInv, Jobs, Updating
      <4> QED BY <2>1, <4>1, TailFacts DEF Left
    <3> QED BY <2>1, <2>4, <3>1, <3>2 DEF TornFacts, TornComing, Coming
  <2>8. ChecksPass'
    BY <2>1 DEF TornFacts, ChecksPass, Updating
  <2>9. TornWritten'
    BY <2>1 DEF TornFacts, TornWritten, UpdateImage, fwu_plat_get_update_index
  <2> QED BY <2>5, <2>6, <2>7, <2>8, <2>9 DEF TornFacts
<1>17. CASE set_image_done
  <2>1. /\ UNCHANGED <<copy, ver, in_trial, checked, dir, job>> /\ pc = "writing"
        /\ pc' = "image_end" /\ sync = {} /\ torn' = torn \ {UpdateImage}
        /\ mem' = [mem EXCEPT !.accepted[UpdateImage[1]][UpdateImage[2]]
                                = ~Head(dir).os]
    BY <1>17 DEF set_image_done, Sync
  <2>2. ~in_trial' /\ ~OnTrial(mem)'
    BY <2>1 DEF BankInv, RevertFacts, Updating
  <2>3. mem'.active = mem.active
    BY <2>1 DEF SyncInv, Mdata
  <2>4. TornWhere'
    BY <2>1, <2>3 DEF TornFacts, TornWhere, fwu_plat_get_update_index, Idle, Ok
  <2>5. TornQuiet'
    BY <2>1, <2>2 DEF TornFacts, TornQuiet, OnTrial, fwu_check_trial_state, check_trial_state_v1,
     check_trial_state_v2, fwu_bank_accepted, Ok
  <2>6. TornComing'
    <3> SUFFICES ASSUME NEW t \in torn' PROVE Coming(t[2])'
      BY DEF TornComing
    <3>1. job.items \in Seq(Images) /\ job.items # <<>>
      BY <2>1 DEF DiskInv, Jobs, Updating
    <3>2. Left = {Head(job.items)} \union Range(Tail(job.items))
      BY <2>1, <3>1, TailFacts DEF Left
    <3>3. Left' = Range(Tail(job.items))
      BY <2>1 DEF Left
    <3>4. t \in torn /\ t # UpdateImage /\ Coming(t[2])
      BY <2>1 DEF TornFacts, TornComing
    <3>5. t = <<t[1], t[2]>> /\ t[1] = fwu_plat_get_update_index(mem)
      BY <2>1, <3>4 DEF TornFacts, TornWhere, Idle
    <3>6. t[2] # Head(job.items)
      BY <3>4, <3>5 DEF UpdateImage
    <3> QED BY <2>1, <3>2, <3>3, <3>4, <3>6 DEF Coming
  <2>7. ChecksPass'
    BY <2>1 DEF TornFacts, ChecksPass, Updating
  <2>8. TornWritten'
    BY <2>1 DEF TornFacts, TornWritten
  <2> QED BY <2>4, <2>5, <2>6, <2>7, <2>8 DEF TornFacts
<1>18. CASE set_image_fails
  BY <1>18 DEF set_image_fails, Fault, Faults
<1>19. CASE image_end
  <2>1. /\ UNCHANGED <<copy, torn, mem, ver, in_trial, checked>> /\ pc = "image_end"
        /\ ~err
    BY <1>19 DEF image_end, DiskInv
  <2>2. TornWhere' /\ TornQuiet'
    BY <2>1, TornFrame DEF TornFacts, Idle
  <2>3. ChecksPass'
    BY <2>1 DEF TornFacts, ChecksPass, Updating
  <2>4. TornWritten'
    BY <2>1 DEF TornFacts, TornWritten
  <2>5. job.items \in Seq(Images) /\ job.items # <<>> /\ dir # <<>>
    BY <2>1 DEF DiskInv, Jobs, Updating
  <2>6. CASE Len(job.items) > 1
    <3>1. /\ pc' = "image" /\ UNCHANGED dir
          /\ job' = [job EXCEPT !.items = Tail(job.items)]
      BY <1>19, <2>1, <2>6 DEF image_end
    <3>2. job'.items = Tail(job.items)
      BY <3>1 DEF DiskInv, Jobs
    <3>3. Left' = Left
      BY <2>1, <3>1, <3>2 DEF Left
    <3>4. TornComing'
      BY <2>1, <3>1, <3>3, ComingFrame DEF TornFacts
    <3> QED BY <2>2, <2>3, <2>4, <3>4 DEF TornFacts
  <2>7. CASE ~(Len(job.items) > 1)
    <3>1. EndCapsule(~err)
      BY <1>19, <2>7 DEF image_end
    <3>2. Left = {}
      BY <2>1, <2>5, <2>7, TailEmpty DEF Left
    <3>3. TornComing'
      BY <2>1, <2>5, <3>1, <3>2, ComingEnd DEF TornFacts, DiskInv
    <3> QED BY <2>2, <2>3, <2>4, <3>3 DEF TornFacts
  <2> QED BY <2>6, <2>7
<1>20. CASE post_update_process
  <2>1. /\ UNCHANGED torn /\ pc = "capsule" /\ pc' \in {"post_switched", "reset"}
        /\ dir = <<>>
    BY <1>20 DEF post_update_process, store, Sync
  <2> QED BY <2>1, TornNone, TornNever DEF ChecksPass, Updating
<1>21. CASE post_update_state
  <2>1. /\ UNCHANGED <<torn, copy, dir>> /\ pc = "post_switched" /\ pc' = "reset"
    BY <1>21 DEF post_update_state, Sync
  <2>2. torn = {}
    BY <2>1, TornNever DEF DiskInv, Updating
  <2> QED BY <2>1, <2>2, TornNone DEF ChecksPass, Updating
<1>22. CASE DeliverCapsule
  <2>1. /\ UNCHANGED <<copy, torn, mem, ver, in_trial, checked>> /\ pc = "os" /\ pc' = "os"
    BY <1>22 DEF DeliverCapsule, ram
  <2>2. TornWhere' /\ TornQuiet'
    BY <2>1, TornFrame DEF TornFacts, Idle
  <2>3. TornWritten' /\ ChecksPass'
    BY <2>1 DEF TornFacts, TornWritten, ChecksPass, Updating
  <2>4. TornComing'
    <3> SUFFICES ASSUME NEW t \in torn PROVE Coming(t[2])'
      BY <2>1 DEF TornComing
    <3>1. PICK k \in 1..Len(dir) : t[2] \in Range(dir[k].items)
      <4>1. CASE t[2] \in Left
        BY <2>1, <4>1 DEF Left, DiskInv
      <4>2. CASE t[2] \notin Left
        BY <4>2 DEF TornFacts, TornComing, Coming, DiskInv
      <4> QED BY <4>1, <4>2
    <3>2. PICK c \in Capsules : dir' \in {<<c>> \o dir, dir \o <<c>>}
      BY <1>22 DEF DeliverCapsule
    <3>3. PICK n \in 1..Len(dir') : dir'[n] = dir[k] /\ dir' \in Seq(Capsules)
      <4>1. CASE dir' = <<c>> \o dir
        <5>1. k + 1 \in 1..Len(dir') /\ dir'[k + 1] = dir[k] /\ dir' \in Seq(Capsules)
          BY <3>1, <4>1 DEF DiskInv
        <5> QED BY <5>1
      <4>2. CASE dir' = dir \o <<c>>
        <5>1. k \in 1..Len(dir') /\ dir'[k] = dir[k] /\ dir' \in Seq(Capsules)
          BY <3>1, <4>2 DEF DiskInv
        <5> QED BY <5>1
      <4> QED BY <3>2, <4>1, <4>2
    <3>4. CASE n = 1
      <4>1. dir' # <<>> /\ Head(dir') = dir[k]
        BY <3>3, <3>4
      <4> QED BY <2>1, <3>1, <4>1 DEF Coming, Left
    <3>5. CASE n # 1
      BY <3>1, <3>3, <3>5 DEF Coming
    <3> QED BY <3>4, <3>5
  <2> QED BY <2>2, <2>3, <2>4 DEF TornFacts
<1>23. CASE Reset
  <2>1. /\ UNCHANGED <<copy, torn, ver, dir>> /\ pc \in {"os", "reset", "lost"}
        /\ pc' = "off"
    BY <1>23 DEF Reset, PowerOff
  <2>2. TornWhere' /\ TornQuiet'
    BY <2>1 DEF TornFacts, TornWhere, TornQuiet, fwu_plat_get_update_index, Ok, OnTrial, fwu_check_trial_state, check_trial_state_v1,
     check_trial_state_v2, fwu_bank_accepted, Idle
  <2>3. TornWritten' /\ ChecksPass'
    BY <2>1 DEF TornFacts, TornWritten, ChecksPass, Updating
  <2>4. TornComing'
    BY <2>1, ComingFrame DEF TornFacts, Left
  <2> QED BY <2>2, <2>3, <2>4 DEF TornFacts
<1>24. CASE PowerFailure
  <2>1. \A q \in Parts : copy'[q] = copy[q] \/ copy'[q] = Torn
    BY <1>24 DEF PowerFailure, SyncInv
  <2>2. /\ UNCHANGED <<torn, ver, dir>> /\ pc' = "off" /\ "power" \in faults'
    BY <1>24 DEF PowerFailure, PowerOff, Faults
  <2>3. TornWhere' /\ TornQuiet'
    BY <2>1, <2>2 DEF TornFacts, TornWhere, TornQuiet, fwu_plat_get_update_index, Ok,
       OnTrial, fwu_check_trial_state, check_trial_state_v1,
     check_trial_state_v2, fwu_bank_accepted, Idle
  <2>4. Left \subseteq Left'
    <3>1. CASE pc \in Updating
      <4>1. /\ job.items \in Seq(Images) /\ job.items # <<>> /\ dir # <<>>
            /\ Range(job.items) \subseteq Range(Head(dir).items)
        BY <3>1 DEF DiskInv, Jobs
      <4>2. Range(Tail(job.items)) \subseteq Range(job.items)
        BY <4>1, TailFacts
      <4>3. Left' = Range(Head(dir).items)
        BY <2>2, <4>1 DEF Left
      <4> QED BY <3>1, <4>1, <4>2, <4>3 DEF Left, Updating
    <3>2. CASE pc \notin Updating
      BY <2>2, <3>2 DEF Left, Updating
    <3> QED BY <3>1, <3>2
  <2>5. TornComing'
    BY <2>2, <2>4, ComingFrame DEF TornFacts
  <2>6. TornWritten' /\ ChecksPass'
    BY <2>2 DEF TornWritten, ChecksPass, Updating
  <2> QED BY <2>3, <2>5, <2>6 DEF TornFacts
<1> QED BY <1>1, <1>2, <1>3, <1>4, <1>5, <1>6, <1>7, <1>8, <1>9, <1>10, <1>11,
          <1>12, <1>13, <1>14, <1>15, <1>16, <1>17, <1>18, <1>19, <1>20, <1>21,
          <1>22, <1>23, <1>24 DEF Next

\* TornInv holds in every state.
LEMMA TornInvariant == Spec => [](SyncInv /\ TornInv)
<1>1. Init => TornInv
  BY DEF Init, TornInv, TornFacts, TornWhere, TornComing, TornQuiet, ChecksPass,
     TornWritten, Updating
<1>2. ASSUME SyncInv, BankInv, RevertInv, RevertInv', DiskInv, DiskInv', TornInv,
             [Next]_vars
      PROVE  TornInv'
  <2> SUFFICES ASSUME (PowerOnly \/ EfiOnly)' PROVE TornFacts'
    BY DEF TornInv
  <2>1. RevertFacts /\ RevertFacts' /\ TornFacts
    <3>1. faults \subseteq faults'
      BY <1>2, FaultsGrow
    <3>2. NoOtherBank /\ NoOtherBank' /\ (PowerOnly \/ EfiOnly)
      BY <3>1 DEF NoOtherBank, PowerOnly, EfiOnly, Tolerating
    <3> QED BY <3>2, <1>2 DEF RevertInv, TornInv
  <2>2. CASE UNCHANGED vars
    BY <2>1, <2>2 DEF vars, store, ram, history, TornFacts, TornWhere, TornComing,
       TornQuiet, ChecksPass, TornWritten, Coming, Left, UpdateImage,
       fwu_plat_get_update_index, Ok, OnTrial, fwu_check_trial_state, check_trial_state_v1,
     check_trial_state_v2, fwu_bank_accepted, PowerOnly, EfiOnly,
       Tolerating
  <2> QED BY <1>2, <2>1, <2>2, TornStep
<1> QED BY <1>1, <1>2, RevertInvariant, DiskInit, DiskStep, PTL DEF Spec

\* The bank the metadata say to boot is complete, however often power failed
\* during an update: an incomplete image is in the update bank, the capsule
\* which brings it is still on disk, and efi_launch_capsules() applies it before
\* any switch.  The same holds when EFI services fail and power does not.
THEOREM ActiveBankTheorem == Spec => []ActiveBankComplete
<1>1. SyncInv /\ TornInv => ActiveBankComplete
  <2> SUFFICES ASSUME SyncInv, TornInv, PowerOnly \/ EfiOnly
               PROVE  Intact(Recovered.active)
    BY DEF ActiveBankComplete, PowerOnly, EfiOnly
  <2>1. Readable
    BY MetadataReadable
       DEF MetadataSurvives, PowerOnly, EfiOnly, Tolerating, AllFaults
  <2>2. PICK p \in Parts : Ok(copy[p]) /\ Recovered = copy[p]
    BY <2>1 DEF Readable, Recovered, Parts
  <2>3. Recovered \in Mdata
    BY <2>2 DEF SyncInv, Ok
  <2> SUFFICES ASSUME NEW i \in Images, <<Recovered.active, i>> \in torn
               PROVE  FALSE
    BY DEF Intact
  <2>4. Recovered.active = fwu_plat_get_update_index(Recovered)
    BY <2>2 DEF TornInv, TornFacts, TornWhere
  <2> QED BY <2>3, <2>4, UpdateIndex
<1> QED BY <1>1, TornInvariant, PTL

-----------------------------------------------------------------------------
(* Accepting an update *)

\* A step that leaves the copies alone.
LEMMA AcceptFrame ==
  ASSUME AcceptInv, UNCHANGED copy,
         sync' \in {{}, Parts} \/ UNCHANGED <<mem, sync>>,
         Readable => Accepts(Recovered, mem'),
         Early' /\ Readable => AcceptsNone(Recovered, mem')
  PROVE  AcceptInv'
  BY DEF AcceptInv, Parts, Ok, Readable, Recovered

\* One that leaves the metadata in RAM alone as well.
LEMMA AcceptStays ==
  ASSUME AcceptInv, UNCHANGED <<copy, mem>>, pc \notin Idle,
         UNCHANGED sync \/ sync' = {}, Early' => Early
  PROVE  AcceptInv'
  BY AcceptFrame DEF AcceptInv

\* Every action keeps AcceptInv.
LEMMA AcceptStep ==
  SyncInv /\ BankInv /\ AcceptInv /\ [Next]_vars => AcceptInv'
<1> SUFFICES ASSUME SyncInv, BankInv, AcceptInv, [Next]_vars PROVE AcceptInv'
  OBVIOUS
<1>1. CASE WriteMdata
  <2>1. PICK part \in Parts : write_mdata(part)
    BY <1>1 DEF WriteMdata, Parts
  <2>2. UNCHANGED <<pc, mem, in_trial>> /\ pc \notin Idle /\ (Early' <=> Early)
    BY <1>1, <2>1 DEF WriteMdata, write_mdata, SyncInv, Early
  <2>3. Accepts(mem, mem) /\ AcceptsNone(mem, mem)
    BY DEF Accepts, AcceptsNone
  <2>4. ~Ok(Torn)
    BY DEF Ok
  <2>5. CASE part = "sec"
    <3>1. /\ copy'["pri"] = copy["pri"]
          /\ copy'["sec"] \in {copy["sec"], mem, Torn}
          /\ copy' = copy \/ copy'["sec"] \in {mem, Torn}
      BY <2>1, <2>5 DEF write_mdata, SyncInv, Parts
    <3>2. sync' = {"pri"} => copy'["sec"] = mem
      BY <2>1, <2>5 DEF write_mdata, SyncInv, Parts
    <3>3. CASE copy' = copy
      BY <2>2, <3>2, <3>3 DEF AcceptInv, Readable, Recovered, Ok
    <3>4. CASE copy'["sec"] \in {mem, Torn}
      BY <2>2, <2>3, <2>4, <3>1, <3>2, <3>4
         DEF AcceptInv, Readable, Recovered, Ok
    <3> QED BY <3>1, <3>3, <3>4
  <2>6. CASE part = "pri"
    <3>1. sync = {"pri"} /\ sync' = {} /\ copy["sec"] = mem
      <4>1. sync = {"pri"}
        BY <2>1, <2>6 DEF write_mdata, SyncInv, Parts
      <4>2. sync' = {}
        BY <2>1, <2>6, <4>1 DEF write_mdata
      <4> QED BY <4>1, <4>2 DEF AcceptInv
    <3>2. /\ copy'["sec"] = mem
          /\ copy' = copy \/ copy'["pri"] \in {mem, Torn}
      BY <2>1, <2>6, <3>1 DEF write_mdata, SyncInv, Parts
    <3>3. CASE copy' = copy
      BY <2>2, <3>1, <3>3 DEF AcceptInv, Readable, Recovered, Ok
    <3>4. CASE copy'["pri"] \in {mem, Torn}
      BY <2>2, <2>3, <2>4, <3>1, <3>2, <3>4
         DEF AcceptInv, Readable, Recovered, Ok
    <3> QED BY <3>2, <3>3, <3>4
  <2> QED BY <2>1, <2>5, <2>6 DEF Parts
<1>2. CASE EarlierStage
  BY <1>2 DEF EarlierStage, store, AcceptInv, Idle, Early, Ok, Readable, Recovered,
     SyncInv, Updating
<1>3. CASE fwu_init
  <2>1. /\ mem' = Recovered /\ UNCHANGED copy /\ Readable
        /\ sync' = {q \in Parts : copy[q] # Recovered}
    BY <1>3 DEF fwu_init, Sync, store, Parts
  <2>2. Accepts(Recovered, Recovered) /\ AcceptsNone(Recovered, Recovered)
    BY DEF Accepts, AcceptsNone
  <2>3. sync' = {"pri"} => copy["sec"] = Recovered
    BY <2>1 DEF Parts
  <2> QED BY <2>1, <2>2, <2>3 DEF AcceptInv, Readable, Recovered, Ok
<1>4. CASE fwu_init_lost
  BY <1>4 DEF fwu_init_lost, store, AcceptInv, Idle, Early, Ok, Readable, Recovered,
     SyncInv, Updating
<1>5. CASE boottime_checks_index
  <2>1. CASE UNCHANGED <<mem, sync>>
    BY <1>5, <2>1, AcceptStays DEF boottime_checks_index, store, Idle, Early, Sync
  <2>2. CASE Sync([mem EXCEPT !.state[mem.active] = "INVALID"], Parts, "invalidated")
    <3>1. /\ UNCHANGED copy /\ sync' = Parts /\ Early
          /\ mem' = [mem EXCEPT !.state[mem.active] = "INVALID"]
      BY <1>5, <2>2 DEF boottime_checks_index, store, Sync, Early
    <3>2. \A b \in Banks : mem'.state[b] = "ACCEPTED" => mem.state[b] = "ACCEPTED"
      BY <3>1 DEF SyncInv, Mdata
    <3>3. Readable => AcceptsNone(Recovered, mem') /\ Accepts(Recovered, mem')
      BY <3>1, <3>2 DEF AcceptInv, AcceptsNone, Accepts
    <3> QED BY <3>1, <3>3, AcceptFrame
  <2> QED BY <1>5, <2>1, <2>2 DEF boottime_checks_index, Parts
<1>6. CASE boottime_checks_switch
  <2>1. /\ UNCHANGED copy /\ sync' = Parts /\ Early /\ mem' = Switch(mem, boot)
    BY <1>6 DEF boottime_checks_switch, store, Sync, Early, Parts
  <2>2. mem'.state = mem.state
    BY <2>1 DEF SyncInv, Mdata, Switch
  <2>3. Readable => AcceptsNone(Recovered, mem') /\ Accepts(Recovered, mem')
    BY <2>1, <2>2 DEF AcceptInv, AcceptsNone, Accepts
  <2> QED BY <2>1, <2>3, AcceptFrame
<1>7. CASE boottime_checks_switched
  BY <1>7, AcceptStays DEF boottime_checks_switched, store, Idle, Early
<1>8. CASE efi_init_fails
  BY <1>8, AcceptStays DEF efi_init_fails, store, Idle, Early
<1>9. CASE regular_boot
  BY <1>9, AcceptStays DEF regular_boot, Idle, Early
<1>10. CASE fwu_trial_count_update
  BY <1>10, AcceptStays DEF fwu_trial_count_update, Idle, Early
<1>11. CASE trial_counter_missing
  BY <1>11, AcceptStays DEF trial_counter_missing, store, Idle, Early
<1>12. CASE trial_count_exceeded \/ revert_capsule \/ post_update_process
  <2>1. CASE UNCHANGED <<mem, sync>>
    BY <1>12, <2>1, AcceptStays DEF trial_count_exceeded, revert_capsule,
       post_update_process, store, Idle, Early, Sync, AtCapsule, Updating
  <2>2. CASE \E b : mem' = Switch(mem, b) /\ sync' = Parts
    <3>1. /\ UNCHANGED copy /\ pc \notin Idle /\ ~Early'
      BY <1>12, <2>2 DEF trial_count_exceeded, revert_capsule, post_update_process,
         store, Sync, Early, Idle, AtCapsule, Updating, Parts
    <3>2. mem'.state = mem.state /\ mem'.accepted = mem.accepted
      BY <2>2 DEF SyncInv, Mdata, Switch
    <3>3. Readable => Accepts(Recovered, mem')
      BY <3>1, <3>2 DEF AcceptInv, Accepts, fwu_bank_accepted
    <3> QED BY <2>2, <3>1, <3>3, AcceptFrame
  <2> QED BY <1>12, <2>1, <2>2 DEF trial_count_exceeded, revert_capsule,
        post_update_process, Sync, Swap, Parts
<1>13. CASE trial_counter_delete
  BY <1>13, AcceptStays DEF trial_counter_delete, Idle, Early, BankInv, Updating
<1>14. CASE launch_capsules
  BY <1>14, AcceptStays DEF launch_capsules, Idle, Early
<1>15. CASE reject_capsule
  BY <1>15, AcceptStays DEF reject_capsule, AtCapsule, EndCapsule, Idle, Early
<1>16. CASE accept_capsule
  <2>1. /\ UNCHANGED copy /\ sync' = Parts /\ pc' = "accepted" /\ pc \notin Idle
        /\ mem' = [mem EXCEPT !.accepted[mem.active][Head(dir).img] = TRUE]
    BY <1>16 DEF accept_capsule, store, Sync, AtCapsule, Idle, Parts
  <2>2. /\ mem'.state = mem.state
        /\ \A b \in Banks : fwu_bank_accepted(mem, b) => fwu_bank_accepted(mem', b)
    BY <2>1 DEF SyncInv, Mdata, fwu_bank_accepted
  <2>3. Readable => Accepts(Recovered, mem')
    BY <2>1, <2>2 DEF AcceptInv, Accepts
  <2> QED BY <2>1, <2>3, AcceptFrame DEF Early, Updating
<1>17. CASE accept_capsule_state
  <2>1. UNCHANGED copy /\ pc = "accepted" /\ pc' = "ended"
    BY <1>17 DEF accept_capsule_state, store, Sync
  <2>2. CASE ver = 2 /\ fwu_bank_accepted(mem, mem.active)
    <3>1. sync' = Parts /\ mem' = [mem EXCEPT !.state[mem.active] = "ACCEPTED"]
      BY <1>17, <2>2 DEF accept_capsule_state, Sync, Parts
    <3>2. /\ mem'.accepted = mem.accepted
          /\ \A b \in Banks : b # mem.active => mem'.state[b] = mem.state[b]
      BY <3>1 DEF SyncInv, Mdata
    <3>3. Readable => Accepts(Recovered, mem')
      BY <2>1, <2>2, <3>2 DEF AcceptInv, Accepts, fwu_bank_accepted, Idle
    <3> QED BY <2>1, <3>1, <3>3, AcceptFrame DEF Early, Updating
  <2>3. CASE ~(ver = 2 /\ fwu_bank_accepted(mem, mem.active))
    BY <1>17, <2>1, <2>3, AcceptStays DEF accept_capsule_state, Idle, Early, Updating
  <2> QED BY <2>2, <2>3
<1>18. CASE empty_capsule_end
  BY <1>18, AcceptStays DEF empty_capsule_end, EndCapsule, Idle, Early, BankInv
<1>19. CASE update_capsule
  BY <1>19, AcceptStays DEF update_capsule, AtCapsule, EndCapsule, Idle, Early, Updating
<1>20. CASE set_image
  BY <1>20, AcceptStays DEF set_image, Idle, Early, Updating
<1>21. CASE set_image_done
  <2>1. /\ UNCHANGED copy /\ sync' = Parts /\ Early
        /\ mem' = [mem EXCEPT !.accepted[UpdateImage[1]][UpdateImage[2]]
                                = ~Head(dir).os]
    BY <1>21 DEF set_image_done, Sync, Early, Updating, Parts, BankInv
  <2>2. mem'.state = mem.state
    BY <2>1 DEF SyncInv, Mdata
  <2>3. Readable => AcceptsNone(Recovered, mem') /\ Accepts(Recovered, mem')
    BY <2>1, <2>2 DEF AcceptInv, AcceptsNone, Accepts
  <2> QED BY <2>1, <2>3, AcceptFrame
<1>22. CASE set_image_fails
  BY <1>22, AcceptStays DEF set_image_fails, EndCapsule, Idle, Early, Updating
<1>23. CASE image_end
  BY <1>23, AcceptStays DEF image_end, EndCapsule, Idle, Early, Updating
<1>24. CASE post_update_state
  <2>1. UNCHANGED copy /\ pc = "post_switched" /\ pc' = "reset"
    BY <1>24 DEF post_update_state, Sync
  <2>2. CASE UNCHANGED <<mem, sync>>
    BY <2>1, <2>2, AcceptStays DEF Idle, Early, Updating
  <2>3. CASE \E v \in BankStates :
               /\ mem' = [mem EXCEPT !.state[mem.active] = v] /\ sync' = Parts
               /\ v = "ACCEPTED" => fwu_bank_accepted(mem, mem.active)
    <3>1. /\ mem'.accepted = mem.accepted
          /\ \A b \in Banks : b # mem.active => mem'.state[b] = mem.state[b]
          /\ mem'.state[mem.active] = "ACCEPTED" => fwu_bank_accepted(mem, mem.active)
      BY <2>3 DEF SyncInv, Mdata
    <3>2. Readable => Accepts(Recovered, mem')
      BY <2>1, <3>1 DEF AcceptInv, Accepts, fwu_bank_accepted, Idle
    <3> QED BY <2>1, <2>3, <3>2, AcceptFrame DEF Early, Updating
  <2> QED BY <1>24, <2>2, <2>3 DEF post_update_state, Sync, BankStates, Parts
<1>25. CASE DeliverCapsule
  BY <1>25, AcceptStays DEF DeliverCapsule, ram, Idle, Early, Updating
<1>26. CASE Reset
  BY <1>26 DEF Reset, PowerOff, AcceptInv, Idle, Early, Updating, Ok
<1>27. CASE PowerFailure
  <2>1. \A q \in Parts : copy'[q] = copy[q] \/ copy'[q] = Torn
    BY <1>27 DEF PowerFailure, SyncInv
  <2>2. pc' = "off" /\ sync' = {}
    BY <1>27 DEF PowerFailure, PowerOff
  <2> QED BY <2>1, <2>2 DEF AcceptInv, Idle, Early, Updating, Ok, Parts
<1>28. CASE UNCHANGED vars
  BY <1>28 DEF vars, store, ram, AcceptInv, Early, Ok, Readable, Recovered
<1> QED BY <1>1, <1>2, <1>3, <1>4, <1>5, <1>6, <1>7, <1>8, <1>9, <1>10, <1>11,
          <1>12, <1>13, <1>14, <1>15, <1>16, <1>17, <1>18, <1>19, <1>20, <1>21,
          <1>22, <1>23, <1>24, <1>25, <1>26, <1>27, <1>28 DEF Next

\* Whatever fails, a bank on trial becomes accepted, as the next boot would read
\* it, only when all its images have been: fwu_state_machine_updates() asks
\* fwu_bank_accepted() first, and a copy that missed some writes is behind, never
\* ahead.
THEOREM AcceptTheorem == Spec => AcceptNeedsAll
<1>1. Init => AcceptInv
  <2>1. Accepts(Factory, Factory)
    BY DEF Accepts
  <2> QED BY <2>1 DEF Init, AcceptInv, Idle, Early, Updating
<1>2. ASSUME SyncInv, AcceptInv, [Next]_vars,
             NEW b \in Banks,
             Readable, Recovered.state[b] = "VALID",
             Readable', Recovered'.state[b] = "ACCEPTED"
      PROVE  fwu_bank_accepted(Recovered', b)
  <2>0. ~Ok(Torn)
    BY DEF Ok
  <2>1. CASE UNCHANGED copy
    BY <1>2, <2>1 DEF Readable, Recovered, Ok
  <2>2. CASE WriteMdata
    <3>1. PICK part \in Parts : write_mdata(part)
      BY <2>2 DEF WriteMdata, Parts
    <3>2. pc \notin Idle
      BY <1>2, <3>1 DEF write_mdata, SyncInv
    <3>3. CASE part = "sec"
      <4>1. /\ copy'["pri"] = copy["pri"]
            /\ copy'["sec"] \in {copy["sec"], mem, Torn}
        BY <1>2, <3>1, <3>3 DEF write_mdata, SyncInv, Parts
      <4>2. Recovered' = Recovered \/ Recovered' = mem
        BY <1>2, <2>0, <4>1 DEF Readable, Recovered, Ok
      <4> QED BY <1>2, <3>2, <4>2 DEF AcceptInv, Accepts
    <3>4. CASE part = "pri"
      <4>1. sync = {"pri"} /\ copy["sec"] = mem
        BY <1>2, <3>1, <3>4 DEF write_mdata, SyncInv, Parts, AcceptInv
      <4>2. /\ copy'["sec"] = mem
            /\ copy'["pri"] \in {copy["pri"], mem, Torn}
        BY <1>2, <3>1, <3>4, <4>1 DEF write_mdata, SyncInv, Parts
      <4>3. Recovered' = Recovered \/ Recovered' = mem
        BY <1>2, <2>0, <4>1, <4>2 DEF Readable, Recovered, Ok
      <4> QED BY <1>2, <3>2, <4>3 DEF AcceptInv, Accepts
    <3> QED BY <3>1, <3>3, <3>4 DEF Parts
  <2>3. CASE PowerFailure
    <3>1. \A q \in Parts : copy'[q] = copy[q] \/ copy'[q] = Torn
      BY <1>2, <2>3 DEF PowerFailure, SyncInv
    <3>2. \/ Recovered' = Recovered
          \/ /\ Ok(copy["pri"]) /\ Ok(copy["sec"])
             /\ Recovered = copy["pri"] /\ Recovered' = copy["sec"]
      BY <1>2, <2>0, <3>1 DEF Readable, Recovered, Ok, Parts
    <3> QED BY <1>2, <3>2 DEF AcceptInv, Accepts
  <2> QED BY <1>2, <2>1, <2>2, <2>3 DEF Next, vars, store, EarlierStage, fwu_init,
        fwu_init_lost, boottime_checks_index, boottime_checks_switch,
        boottime_checks_switched, efi_init_fails, regular_boot,
        fwu_trial_count_update, trial_counter_missing, trial_count_exceeded,
        trial_counter_delete, launch_capsules, reject_capsule, revert_capsule,
        accept_capsule, accept_capsule_state, empty_capsule_end, update_capsule,
        set_image, set_image_done, set_image_fails, image_end,
        post_update_process, post_update_state, DeliverCapsule, Reset
<1>3. SyncInv /\ AcceptInv /\ [Next]_vars =>
        [\A b \in Banks :
           /\ Readable /\ Recovered.state[b] = "VALID"
           /\ Readable' /\ Recovered'.state[b] = "ACCEPTED"
           => fwu_bank_accepted(Recovered', b)]_vars
  BY <1>2
<1> QED BY <1>1, <1>3, SyncInit, BankInit, SyncStep, BankStep, AcceptStep, PTL
        DEF Spec, AcceptNeedsAll

-----------------------------------------------------------------------------
(* Types *)

\* Every action keeps the types.
LEMMA RestStep ==
  SyncInv /\ DiskInv /\ RestOK /\ [Next]_vars => RestOK'
<1> SUFFICES ASSUME SyncInv, DiskInv, RestOK, [Next]_vars PROVE RestOK'
  OBVIOUS
<1>0. 0 \in 0..TrialCnt+1 /\ 1 \in 0..TrialCnt+1 /\ 0 \in 0..TrialCnt+2
  BY TrialAssumption
<1>b. ASSUME BootedInTrial, RestOK PROVE trialBoots' \in 0..TrialCnt+2 /\ asked' \in BOOLEAN
  BY <1>b, TrialAssumption DEF BootedInTrial, RestOK
<1> USE FaultAssumption, TrialAssumption DEF RestOK, AllFaults, Pcs
<1>1. CASE WriteMdata
  BY <1>1 DEF WriteMdata, store, history, ram, Sync, write_mdata, Fault, Faults
<1>2. CASE EarlierStage
  BY <1>2 DEF EarlierStage, store, history, ram, Sync, Fault, Faults
<1>3. CASE fwu_init
  BY <1>3 DEF fwu_init, store, history, ram, Sync, fwu_check_trial_state, check_trial_state_v1,
     check_trial_state_v2, fwu_bank_accepted
<1>4. CASE fwu_init_lost
  BY <1>4 DEF fwu_init_lost, store, history, ram, Sync
<1>5. CASE boottime_checks_index
  BY <1>5 DEF boottime_checks_index, store, history, ram, Sync
<1>6. CASE boottime_checks_switch
  BY <1>6 DEF boottime_checks_switch, store, history, ram, Sync
<1>7. CASE boottime_checks_switched
  BY <1>7 DEF boottime_checks_switched, store, history, ram, Sync
<1>8. CASE efi_init_fails
  <2>1. trialBoots' \in 0..TrialCnt+2 /\ asked' \in BOOLEAN
    BY <1>8, <1>b DEF efi_init_fails
  <2> QED BY <1>8, <2>1 DEF efi_init_fails, store, Fault, Faults
<1>9. CASE regular_boot
  <2>1. (ctr' = ctr \/ ctr' = 0) /\ checked' \in BOOLEAN
    BY <1>9 DEF regular_boot, trial_counter_update
  <2>2. faults' \subseteq AllFaults
    BY <1>9 DEF regular_boot, trial_counter_update, Fault, Faults
  <2>3. UNCHANGED <<torn, osind, ver, err, in_trial, asked, trialBoots>> /\ pc' = "capsules"
    BY <1>9 DEF regular_boot
  <2> QED BY <1>0, <2>1, <2>2, <2>3
<1>10. CASE fwu_trial_count_update
  <2>1. ctr \in 1..TrialCnt /\ (ctr' = ctr \/ ctr' = ctr + 1) /\ checked' \in BOOLEAN
    BY <1>10 DEF fwu_trial_count_update, trial_counter_update
  <2>2. faults' \subseteq AllFaults
    BY <1>10 DEF fwu_trial_count_update, trial_counter_update, Fault, Faults
  <2>3. trialBoots' \in 0..TrialCnt+2 /\ asked' \in BOOLEAN
    BY <1>10, <1>b DEF fwu_trial_count_update
  <2>4. UNCHANGED <<torn, osind, ver, err, in_trial>> /\ pc' = "capsules"
    BY <1>10 DEF fwu_trial_count_update
  <2>5. ctr' \in 0..TrialCnt+1
    BY <2>1
  <2> QED BY <2>1, <2>2, <2>3, <2>4, <2>5
<1>11. CASE trial_counter_missing
  <2>1. trialBoots' \in 0..TrialCnt+2 /\ asked' \in BOOLEAN
    BY <1>11, <1>b DEF trial_counter_missing
  <2> QED BY <1>11, <2>1 DEF trial_counter_missing, store
<1>12. CASE trial_count_exceeded
  BY <1>12 DEF trial_count_exceeded, store, history, ram, Sync
<1>13. CASE trial_counter_delete
  <2>1. ctr' = ctr \/ ctr' = 0
    BY <1>13 DEF trial_counter_delete
  <2>2. faults' \subseteq AllFaults
    BY <1>13 DEF trial_counter_delete, Fault, Faults
  <2>3. /\ UNCHANGED <<torn, osind, ver, err, in_trial, checked>>
        /\ pc' = "capsules"
    BY <1>13 DEF trial_counter_delete
  <2>4. trialBoots' \in 0..TrialCnt+2 /\ asked' \in BOOLEAN
    BY <1>13, <1>b DEF trial_counter_delete
  <2> QED BY <1>0, <2>1, <2>2, <2>3, <2>4
<1>14. CASE launch_capsules
  BY <1>14 DEF launch_capsules, store, history, ram, Sync
<1>15. CASE reject_capsule
  BY <1>15 DEF reject_capsule, store, history, ram, Sync, EndCapsule, AtCapsule, Fault, Faults
<1>16. CASE revert_capsule
  BY <1>16 DEF revert_capsule, store, history, ram, Sync, AtCapsule
<1>17. CASE accept_capsule
  BY <1>17 DEF accept_capsule, store, history, ram, Sync, AtCapsule
<1>18. CASE accept_capsule_state
  BY <1>18 DEF accept_capsule_state, store, history, ram, Sync
<1>19. CASE empty_capsule_end
  BY <1>19 DEF empty_capsule_end, store, history, ram, Sync, EndCapsule
<1>20. CASE update_capsule
  BY <1>20 DEF update_capsule, store, history, ram, Sync, EndCapsule, AtCapsule
<1>21. CASE set_image
  <2>1. /\ torn' = torn \union {UpdateImage} /\ pc = "image"
        /\ UNCHANGED <<ctr, osind, ver, err, in_trial, checked, asked, trialBoots, faults>>
        /\ pc' = "writing"
    BY <1>21 DEF set_image, history
  <2>2. job.items \in Seq(Images) /\ job.items # <<>> /\ mem \in Mdata
    BY <2>1 DEF DiskInv, Jobs, Updating, SyncInv
  <2>3. UpdateImage \in Banks \X Images
    BY <2>2, UpdateIndex, TailFacts DEF UpdateImage
  <2> QED BY <2>1, <2>3
<1>22. CASE set_image_done
  BY <1>22 DEF set_image_done, store, history, ram, Sync
<1>23. CASE set_image_fails
  BY <1>23 DEF set_image_fails, store, history, ram, Sync, EndCapsule, Fault, Faults
<1>24. CASE image_end
  BY <1>24 DEF image_end, store, history, ram, Sync, EndCapsule
<1>25. CASE post_update_process
  <2>1. (trialBoots' = trialBoots \/ trialBoots' = 0) /\ asked' \in BOOLEAN
    BY <1>25 DEF post_update_process, DiskInv, Jobs
  <2>2. pc' \in {"post_switched", "reset"} /\ err' \in BOOLEAN
    BY <1>25 DEF post_update_process, Sync
  <2>3. UNCHANGED <<torn, ctr, osind, ver, in_trial, checked, faults>>
    BY <1>25 DEF post_update_process, store
  <2> QED BY <1>0, <2>1, <2>2, <2>3
<1>26. CASE post_update_state
  <2>1. ctr' = ctr \/ ctr' = 1
    BY <1>26 DEF post_update_state
  <2>2. faults' \subseteq AllFaults
    BY <1>26 DEF post_update_state, Fault, Faults
  <2>3. pc' = "reset" /\ err' \in BOOLEAN
    BY <1>26 DEF post_update_state, Sync
  <2>4. UNCHANGED <<torn, osind, ver, in_trial, checked, asked, trialBoots>>
    BY <1>26 DEF post_update_state
  <2> QED BY <1>0, <2>1, <2>2, <2>3, <2>4
<1>27. CASE DeliverCapsule
  BY <1>27 DEF DeliverCapsule, store, history, ram, Sync
<1>28. CASE Reset
  BY <1>28 DEF Reset, store, history, ram, Sync, PowerOff
<1>29. CASE PowerFailure
  BY <1>29 DEF PowerFailure, store, history, ram, Sync, PowerOff, Faults
<1>30. CASE UNCHANGED vars
  BY <1>30 DEF vars, store, ram, history
<1> QED BY <1>1, <1>2, <1>3, <1>4, <1>5, <1>6, <1>7, <1>8, <1>9, <1>10,
          <1>11, <1>12, <1>13, <1>14, <1>15, <1>16, <1>17, <1>18, <1>19,
          <1>20, <1>21, <1>22, <1>23, <1>24, <1>25, <1>26, <1>27, <1>28,
          <1>29, <1>30 DEF Next

\* The metadata stay well formed, in RAM and in each copy that is not torn, the
\* images that are being written are images of a bank, and the trial counter
\* never passes its limit by more than one.
THEOREM TypeTheorem == Spec => []TypeOK
<1>1. Init => RestOK
  <2>1. 0 \in 0..TrialCnt+1 /\ 0 \in 0..TrialCnt+2
    BY TrialAssumption
  <2> QED BY <2>1 DEF Init, RestOK, AllFaults, Pcs
<1>2. SyncInv /\ DiskInv /\ RestOK => TypeOK
  BY DEF SyncInv, DiskInv, RestOK, TypeOK, Parts
<1> QED BY <1>1, <1>2, SyncInit, DiskInit, SyncStep, DiskStep, RestStep, PTL DEF Spec

-----------------------------------------------------------------------------
(* The trial counter *)

\* A step within a boot that leaves the counting and the metadata alone.
LEMMA CountStays ==
  ASSUME CountTrial,
         UNCHANGED <<copy, mem, sync, ctr, trialBoots, in_trial, checked>>,
         pc \in Deciding \union Updating \union {"os"},
         pc' \in {"capsules", "capsule", "os", "reset"} \union Updating,
         pc' = "reset" => sync = {}, pc = "os" => pc' = "os",
         pc \in {"trial", "exceeded", "checks"} \union Updating => ~in_trial
  PROVE  CountTrial'
<1>1. ~InWindow /\ ~InWindow'
  BY DEF InWindow, Deciding, Updating
<1>2. \A p \in Parts : (Ok(copy[p]) => Counted(copy[p]))'
  BY <1>1 DEF CountTrial, Counted, Valid, Ok
<1>3. Counted(mem)'
  BY DEF CountTrial, Counted, Valid, Idle, Deciding, Updating
<1> QED BY <1>1, <1>2, <1>3
        DEF CountTrial, Deciding, Updating, Valid

\* fwu_post_update_process() switches to the updated bank.
PostSwitch == post_update_process /\ job.capsule_update /\ job.update_status

\* Only an update changes whether the operating system is to accept it.
LEMMA AskedStays ==
  ASSUME Next
  PROVE  asked' = asked \/ PostSwitch
<1>1. CASE \/ WriteMdata \/ EarlierStage \/ fwu_init \/ fwu_init_lost
           \/ boottime_checks_index \/ boottime_checks_switch \/ boottime_checks_switched
           \/ efi_init_fails \/ regular_boot \/ fwu_trial_count_update
           \/ trial_counter_missing \/ trial_count_exceeded \/ trial_counter_delete
  BY <1>1 DEF WriteMdata, EarlierStage, fwu_init, fwu_init_lost, boottime_checks_index,
     boottime_checks_switch, boottime_checks_switched, efi_init_fails, regular_boot,
     fwu_trial_count_update, trial_counter_missing, trial_count_exceeded,
     trial_counter_delete, BootedInTrial, history
<1>2. CASE \/ launch_capsules \/ reject_capsule \/ revert_capsule \/ accept_capsule
           \/ accept_capsule_state \/ empty_capsule_end \/ update_capsule \/ set_image
           \/ set_image_done \/ set_image_fails \/ image_end
  BY <1>2 DEF launch_capsules, reject_capsule, revert_capsule, accept_capsule,
     accept_capsule_state, empty_capsule_end, update_capsule, set_image, set_image_done,
     set_image_fails, image_end, history
<1>3. CASE post_update_process \/ post_update_state \/ DeliverCapsule \/ Reset \/ PowerFailure
  BY <1>3 DEF PostSwitch, post_update_process, post_update_state, DeliverCapsule, Reset,
     PowerFailure, PowerOff, history
<1> QED BY <1>1, <1>2, <1>3 DEF Next

\* After the switch to an updated bank, which only a boot outside the trial state
\* makes, until its state is stored.
LEMMA CountSwitchedStep ==
  ASSUME SyncInv, DiskInv, RevertFacts, CountUpdate, asked => CountSwitched, Countable', asked',
         Next
  PROVE  CountSwitched'
<1>0. ver = 2
  BY FaultsGrow DEF Countable
<1>1. CASE PostSwitch
  <2> DEFINE u == fwu_plat_get_update_index(mem)
  <2>1. /\ pc = "capsule" /\ pc' = "post_switched" /\ trialBoots' = 0 /\ dir = <<>>
        /\ mem' = Switch(mem, u) /\ UNCHANGED job /\ job.fw_accept_os
    BY <1>1 DEF PostSwitch, post_update_process, Sync
  <2>2. ~in_trial
    BY <1>1, <2>1 DEF CountUpdate, PostSwitch
  <2>3. ~OnTrial(mem)
    BY <2>1, <2>2 DEF RevertFacts, Deciding
  <2>4. ~Valid(mem, mem.active)
    BY <1>0, <2>3 DEF OnTrial, fwu_check_trial_state, check_trial_state_v1,
       check_trial_state_v2, fwu_bank_accepted, Valid
  <2>5. u # mem.active /\ u \in Banks
    BY UpdateIndex DEF SyncInv
  <2>6. mem'.active = u /\ mem'.previous = mem.active /\ mem'.state = mem.state
    <3> HIDE DEF u
    <3> QED BY <2>1, <2>5 DEF Switch, SyncInv, Mdata
  <2> QED BY <2>1, <2>4, <2>5, <2>6 DEF CountSwitched, Valid
<1>2. CASE ~PostSwitch /\ asked
  <2>1. SUFFICES ASSUME pc' = "post_switched" PROVE CountSwitched'
    BY DEF CountSwitched
  <2>2. WriteMdata
    BY <1>2, <2>1 DEF Next, PostSwitch, EarlierStage, fwu_init, fwu_init_lost,
       boottime_checks_index, boottime_checks_switch, boottime_checks_switched,
       efi_init_fails, regular_boot, fwu_trial_count_update, trial_counter_missing,
       trial_count_exceeded, trial_counter_delete, launch_capsules, reject_capsule,
       revert_capsule, accept_capsule, accept_capsule_state, empty_capsule_end,
       update_capsule, set_image, set_image_done, set_image_fails, image_end,
       post_update_process, post_update_state, DeliverCapsule, Reset, PowerFailure,
       PowerOff, EndCapsule, Sync, ram
  <2>3. UNCHANGED <<pc, mem, job, trialBoots>>
    BY <2>2 DEF WriteMdata
  <2> QED BY <1>2, <2>3 DEF CountSwitched, Valid
<1> QED BY <1>1, <1>2, AskedStays

\* Every action keeps the counting.
LEMMA CountTrialStep ==
  ASSUME SyncInv, BankInv, BankInv', RevertFacts, DiskInv, RestOK, RestOK',
         asked => CountTrial /\ CountSwitched, CountUpdate, Countable, Countable', asked', Next
  PROVE  CountTrial'
<1>0. /\ "mdata" \notin faults' /\ "earlier_stage" \notin faults'
      /\ "efi" \notin faults' /\ "window" \notin faults'
      /\ "mdata" \notin faults /\ ver' = ver /\ ver = 2
  BY FaultsGrow DEF Countable, Counting, Tolerating
<1>a. /\ ctr \in Nat /\ ctr' \in Nat /\ trialBoots \in Nat /\ trialBoots' \in Nat
      /\ TrialCnt \in Nat /\ TrialCnt >= 1
  BY TrialAssumption DEF RestOK
<1>b. \A m : OnTrial(m) <=> Valid(m, m.active)
  BY <1>0 DEF OnTrial, fwu_check_trial_state, check_trial_state_v1,
     check_trial_state_v2, fwu_bank_accepted, Valid
<1>c. pc \notin Idle /\ sync = {} => \A q \in Parts : copy[q] = mem
  BY <1>0 DEF SyncInv
<1>d. CASE PostSwitch
  <2>1. pc' = "post_switched" /\ trialBoots' = 0
    BY <1>d DEF PostSwitch, post_update_process, Sync
  <2> QED BY <1>a, <2>1 DEF CountTrial, InWindow, Deciding
<1>e. SUFFICES ASSUME ~PostSwitch PROVE CountTrial'
  BY <1>d
<1>f. CountTrial /\ CountSwitched
  BY <1>e, AskedStays
<1>g. ASSUME BootedInTrial, trialBoots <= TrialCnt PROVE trialBoots' = trialBoots + 1
  BY <1>a, <1>g DEF BootedInTrial, Countable
<1> USE <1>0, <1>f
<1>1. CASE WriteMdata
  <2>1. PICK p \in sync : p \in Parts /\ copy' = [copy EXCEPT ![p] = mem]
                            /\ sync' = sync \ {p}
    BY <1>1 DEF WriteMdata, write_mdata, Fault, Faults, Parts
  <2>2. /\ UNCHANGED <<pc, mem, ctr, trialBoots, in_trial, checked>> /\ pc \notin Idle
    BY <1>1, <2>1 DEF WriteMdata, SyncInv
  <2>3. \A q \in Parts : copy'[q] = copy[q] \/ copy'[q] = mem
    BY <2>1 DEF SyncInv
  <2>4. pc # "post_switched" => Counted(mem)'
    BY <2>2 DEF CountTrial, Counted, Valid
  <2>5. ~InWindow' => \A q \in Parts : (Ok(copy[q]) => Counted(copy[q]))'
    <3>1. CASE InWindow
      <4>1. SUFFICES ASSUME ~InWindow' PROVE \A q \in Parts : copy'[q] = mem
        BY <2>2, <3>1 DEF CountTrial, Counted, Valid, InWindow, Idle
      <4>2. sync = {p}
        BY <2>1, <2>2, <3>1, <4>1 DEF InWindow
      <4>3. \A q \in Parts \ {p} : copy[q] = mem
        BY <2>2, <4>2 DEF SyncInv
      <4> QED BY <2>1, <4>3 DEF SyncInv
    <3>2. CASE ~InWindow
      BY <2>2, <2>3, <3>2 DEF CountTrial, Counted, Valid, Ok, InWindow
    <3> QED BY <3>1, <3>2
  <2> QED BY <2>2, <2>4, <2>5 DEF CountTrial, Valid
<1>2. CASE EarlierStage
  BY <1>2 DEF EarlierStage, store, CountTrial, Counted, Valid, Ok, InWindow, Deciding,
     Idle
<1>3. CASE fwu_init
  <2>1. \E p \in Parts : Ok(copy[p]) /\ Recovered = copy[p]
    BY <1>3 DEF fwu_init, Readable, Recovered, Parts
  <2>2. /\ mem' = Recovered /\ UNCHANGED <<copy, ctr, trialBoots, checked>>
        /\ pc = "init" /\ pc' = "checks"
        /\ in_trial' = fwu_check_trial_state(mem', boot) /\ boot = Recovered.active
    BY <1>3 DEF fwu_init, Sync, store, history, RevertFacts
  <2>3. in_trial' <=> Valid(mem', mem'.active)
    <3>1. in_trial' <=> OnTrial(mem)'
      BY <2>2 DEF OnTrial, fwu_check_trial_state, check_trial_state_v1,
         check_trial_state_v2, fwu_bank_accepted
    <3>2. OnTrial(mem)' <=> Valid(mem', mem'.active)
      BY DEF OnTrial, fwu_check_trial_state, check_trial_state_v1,
         check_trial_state_v2, fwu_bank_accepted, Valid
    <3> QED BY <3>1, <3>2
  <2>4. \A q \in Parts : Ok(copy[q]) => Counted(copy[q])
    BY <2>2 DEF CountTrial, InWindow
  <2>5. \A q \in Parts : (Ok(copy[q]) => Counted(copy[q]))'
    BY <2>2, <2>4 DEF Counted, Valid, Ok
  <2>6. Counted(mem)'
    BY <2>1, <2>2, <2>4 DEF Counted, Valid
  <2> QED BY <2>2, <2>3, <2>5, <2>6 DEF CountTrial, Valid, Deciding
<1>4. CASE fwu_init_lost
  BY <1>4 DEF fwu_init_lost, SyncInv, Idle
<1>5. CASE boottime_checks_index
  <2>1. /\ UNCHANGED <<copy, mem, ctr, trialBoots, checked, in_trial>>
        /\ pc = "checks" /\ pc' = "trial"
    BY <1>5 DEF boottime_checks_index, store, history, RevertFacts
  <2> QED BY <2>1 DEF CountTrial, Counted, Valid, Ok, InWindow, Deciding, Idle
<1>6. CASE boottime_checks_switch \/ boottime_checks_switched
  BY <1>6 DEF boottime_checks_switch, boottime_checks_switched, RevertFacts
<1>7. CASE efi_init_fails
  BY <1>7 DEF efi_init_fails, Fault, Faults
<1>8. CASE regular_boot
  <2>1. /\ UNCHANGED <<copy, mem, trialBoots, in_trial>> /\ ~in_trial /\ sync = {}
        /\ pc = "trial" /\ pc' = "capsules" /\ ctr' = 0
    BY <1>8 DEF regular_boot, trial_counter_update, Fault, Faults
  <2>2. ~Valid(mem, mem.active)
    BY <2>1, <1>b DEF RevertFacts, Deciding
  <2>3. \A q \in Parts : copy[q] = mem
    BY <2>1, <1>c DEF Idle
  <2>4. Counted(mem)' /\ \A q \in Parts : Counted(copy[q])'
    BY <2>1, <2>2, <2>3 DEF Counted, Valid
  <2> QED BY <2>1, <2>4 DEF CountTrial, InWindow, Valid
<1>9. CASE fwu_trial_count_update
  <2>1. /\ UNCHANGED <<copy, mem, in_trial>> /\ in_trial /\ ctr \in 1..TrialCnt
        /\ pc = "trial" /\ pc' = "capsules" /\ ctr' = ctr + 1 /\ checked'
    BY <1>9 DEF fwu_trial_count_update, trial_counter_update, Fault, Faults
  <2>2. trialBoots < ctr /\ ~Valid(mem, mem.previous)
    BY <2>1 DEF CountTrial, Counted, Idle
  <2>3. trialBoots' = trialBoots + 1
    BY <1>9, <1>a, <1>g, <2>1, <2>2 DEF fwu_trial_count_update
  <2>4. trialBoots' < ctr' /\ trialBoots' <= TrialCnt + 1
    BY <1>a, <2>1, <2>2, <2>3
  <2>5. \A q \in Parts : (Ok(copy[q]) => Counted(copy[q]))'
    BY <2>1, <2>4 DEF CountTrial, Counted, Valid, Ok, InWindow
  <2>6. Counted(mem)'
    BY <2>1, <2>2, <2>4 DEF Counted, Valid
  <2> QED BY <2>1, <2>2, <2>4, <2>5, <2>6 DEF CountTrial, Valid
<1>10. CASE trial_counter_missing
  <2>1. in_trial /\ ctr = 0 /\ pc = "trial"
    BY <1>10 DEF trial_counter_missing
  <2>2. trialBoots < ctr
    BY <2>1 DEF CountTrial, Counted, Idle
  <2> QED BY <1>a, <2>1, <2>2
<1>11. CASE trial_count_exceeded
  <2>1. /\ UNCHANGED <<copy, ctr, trialBoots, in_trial, checked>> /\ in_trial
        /\ mem' = Swap(mem) /\ pc = "trial" /\ pc' = "exceeded"
    BY <1>11 DEF trial_count_exceeded, store, history, Sync
  <2>2. ~Valid(mem, mem.previous) /\ trialBoots < ctr
    BY <2>1 DEF CountTrial, Counted, Idle
  <2>2a. trialBoots <= TrialCnt
    BY <1>a, <2>2 DEF RestOK
  <2>3. ~Valid(mem', mem'.active)
    BY <2>1, <2>2 DEF Swap, Switch, SyncInv, Mdata, Valid
  <2>4. \A q \in Parts : (Ok(copy[q]) => Counted(copy[q]))'
    BY <2>1 DEF CountTrial, Counted, Valid, Ok, InWindow
  <2> QED BY <2>1, <2>2a, <2>3, <2>4 DEF CountTrial, Counted, Valid
<1>12. CASE trial_counter_delete
  <2>1. /\ UNCHANGED <<copy, mem, checked>> /\ sync = {} /\ BootedInTrial
        /\ pc = "exceeded" /\ pc' = "capsules" /\ ctr' = 0
    BY <1>12 DEF trial_counter_delete, Fault, Faults
  <2>2. ~Valid(mem, mem.active) /\ ~checked /\ trialBoots <= TrialCnt
    BY <2>1 DEF CountTrial
  <2>2a. trialBoots' <= TrialCnt + 1
    BY <1>a, <1>g, <2>1, <2>2
  <2>3. \A q \in Parts : copy[q] = mem
    BY <2>1, <1>c DEF Idle
  <2>4. Counted(mem)' /\ \A q \in Parts : Counted(copy[q])'
    BY <2>1, <2>2, <2>3 DEF Counted, Valid
  <2> QED BY <2>1, <2>2, <2>2a, <2>4 DEF CountTrial, Valid
<1>13. CASE launch_capsules
  BY <1>13, CountStays DEF launch_capsules, history, Deciding, Updating
<1>14. CASE reject_capsule
  BY <1>14, CountStays DEF reject_capsule, AtCapsule, EndCapsule, Deciding, Updating
<1>15. CASE revert_capsule
  <2>1. /\ UNCHANGED <<copy, ctr, trialBoots, in_trial, checked>> /\ in_trial /\ checked
        /\ mem' = Swap(mem) /\ pc = "capsule" /\ pc' = "ended"
    BY <1>15 DEF revert_capsule, store, history, Sync, AtCapsule,
       fwu_empty_capsule_checks_pass
  <2>2. /\ trialBoots < ctr
        /\ ~(Valid(mem, mem.active) /\ Valid(mem, mem.previous))
    BY <2>1 DEF CountTrial, Deciding
  <2>3. ~(Valid(mem', mem'.active) /\ Valid(mem', mem'.previous))
    BY <2>1, <2>2 DEF Swap, Switch, SyncInv, Mdata, Valid
  <2>4. \A q \in Parts : (Ok(copy[q]) => Counted(copy[q]))'
    BY <2>1 DEF CountTrial, Counted, Valid, Ok, InWindow
  <2> QED BY <2>1, <2>2, <2>3, <2>4 DEF CountTrial, Counted, Valid
<1>16. CASE accept_capsule \/ accept_capsule_state
  <2>1. /\ UNCHANGED <<copy, ctr, trialBoots, in_trial, checked>>
        /\ pc \in {"capsule", "accepted"} /\ pc' \in {"accepted", "ended"}
    BY <1>16 DEF accept_capsule, accept_capsule_state, store, history, Sync, AtCapsule
  <2>2. /\ mem'.active = mem.active /\ mem'.previous = mem.previous
        /\ \A b \in Banks : Valid(mem', b) => Valid(mem, b)
    BY <1>16 DEF accept_capsule, accept_capsule_state, Sync, SyncInv, Mdata, Valid
  <2>3. mem.active \in Banks /\ mem.previous \in Banks
    BY DEF SyncInv, Mdata
  <2>4. \A q \in Parts : (Ok(copy[q]) => Counted(copy[q]))'
    BY <2>1 DEF CountTrial, Counted, Valid, Ok, InWindow
  <2>5. Counted(mem)
    BY <2>1 DEF CountTrial, Idle
  <2>6. Counted(mem)'
    BY <2>1, <2>2, <2>3, <2>5 DEF Counted, Valid
  <2> QED BY <2>1, <2>2, <2>3, <2>4, <2>6 DEF CountTrial, Valid, Deciding
<1>17. CASE empty_capsule_end
  BY <1>17, CountStays DEF empty_capsule_end, EndCapsule, history, Deciding, Updating
<1>18. CASE update_capsule
  BY <1>18, CountStays
     DEF update_capsule, AtCapsule, EndCapsule, history, Deciding, Updating
<1>19. CASE set_image
  BY <1>19, CountStays DEF set_image, history, Deciding, Updating, BankInv
<1>20. CASE set_image_done
  <2>1. /\ UNCHANGED <<copy, ctr, trialBoots, in_trial, checked>>
        /\ pc = "writing" /\ pc' = "image_end"
        /\ mem' = [mem EXCEPT !.accepted[UpdateImage[1]][UpdateImage[2]]
                                = ~Head(dir).os]
    BY <1>20 DEF set_image_done, history, Sync
  <2>2. /\ mem'.active = mem.active /\ mem'.previous = mem.previous
        /\ mem'.state = mem.state
    BY <2>1 DEF SyncInv, Mdata
  <2>3. \A q \in Parts : (Ok(copy[q]) => Counted(copy[q]))'
    BY <2>1 DEF CountTrial, Counted, Valid, Ok, InWindow
  <2>4. Counted(mem)'
    BY <2>1, <2>2 DEF CountTrial, Counted, Valid, Idle
  <2> QED BY <2>1, <2>3, <2>4 DEF CountTrial, Deciding, Valid
<1>21. CASE set_image_fails
  BY <1>21, CountStays DEF set_image_fails, EndCapsule, Deciding, Updating, BankInv
<1>22. CASE image_end
  BY <1>22, CountStays DEF image_end, EndCapsule, history, Deciding, Updating, BankInv
<1>23. CASE post_update_process
  BY <1>23, <1>e, CountStays DEF PostSwitch, post_update_process, store, Deciding, Updating
<1>24. CASE post_update_state
  <2>1. /\ UNCHANGED <<copy, trialBoots>> /\ pc = "post_switched" /\ pc' = "reset"
        /\ sync = {} /\ ~err
    BY <1>24 DEF post_update_state, Sync, DiskInv
  <2>2. /\ trialBoots = 0 /\ mem.previous # mem.active /\ ~Valid(mem, mem.previous)
        /\ job.fw_accept_os
    BY <2>1 DEF CountSwitched
  <2>3. ctr' = 1 /\ mem' = [mem EXCEPT !.state[mem.active] = "VALID"] /\ sync' = Parts
    BY <1>24, <2>1, <2>2 DEF post_update_state, Sync, Fault, Faults, Parts
  <2>4. /\ mem'.previous = mem.previous /\ mem'.active = mem.active
        /\ mem'.state[mem.previous] = mem.state[mem.previous]
    BY <2>2, <2>3 DEF SyncInv, Mdata
  <2>5. Counted(mem)'
    BY <1>a, <2>1, <2>2, <2>3, <2>4 DEF Counted, Valid
  <2> QED BY <1>a, <2>1, <2>2, <2>3, <2>5 DEF CountTrial, InWindow, Deciding, Parts
<1>25. CASE DeliverCapsule
  BY <1>25, CountStays DEF DeliverCapsule, ram, history, Deciding, Updating
<1>26. CASE Reset
  <2>1. /\ UNCHANGED <<copy, ctr, trialBoots>> /\ pc' = "off" /\ ~checked' /\ ~InWindow
    BY <1>26 DEF Reset, PowerOff, InWindow
  <2> QED BY <2>1 DEF CountTrial, Counted, Valid, Ok, Idle, Deciding
<1>27. CASE PowerFailure
  <2>1. \A q \in Parts : copy'[q] = copy[q] \/ copy'[q] = Torn
    BY <1>27 DEF PowerFailure, SyncInv
  <2>2. /\ UNCHANGED <<ctr, trialBoots>> /\ pc' = "off" /\ ~checked' /\ ~InWindow
    BY <1>27 DEF PowerFailure, PowerOff, Faults, InWindow
  <2>3. \A q \in Parts : (Ok(copy[q]) => Counted(copy[q]))'
    BY <2>1, <2>2 DEF CountTrial, Counted, Valid, Ok
  <2> QED BY <2>2, <2>3 DEF CountTrial, Idle, Deciding
<1> QED BY <1>1, <1>2, <1>3, <1>4, <1>5, <1>6, <1>7, <1>8, <1>9, <1>10, <1>11,
          <1>12, <1>13, <1>14, <1>15, <1>16, <1>17, <1>18, <1>19, <1>20, <1>21,
          <1>22, <1>23, <1>24, <1>25, <1>26, <1>27 DEF Next

\* A step that is not about updates.
LEMMA UpdateElsewhere ==
  ASSUME CountUpdate,
         pc' \notin {"accepted", "ended", "capsule"}
  PROVE  CountUpdate'
  BY DEF CountUpdate

\* A capsule has been dealt with.
LEMMA UpdateEnds ==
  ASSUME DiskInv, dir # <<>>, NEW ok \in BOOLEAN, EndCapsule(ok), UNCHANGED <<mem, in_trial>>,
         ok /\ ~fwu_empty_capsule => ~in_trial
  PROVE  CountUpdate'
<1>1. pc' = "capsule"
  BY DEF EndCapsule
<1>2. ASSUME job'.capsule_update, job'.update_status
      PROVE  ~in_trial'
  <2>1. /\ job'.update_status = (job.update_status /\ ok)
        /\ job'.capsule_update = (job.capsule_update /\ ~(ok /\ fwu_empty_capsule))
    BY DEF EndCapsule, DiskInv, Jobs
  <2> QED BY <1>2, <2>1
<1> QED BY <1>1, <1>2 DEF CountUpdate

\* Every action keeps what is known of an update.
LEMMA CountUpdateStep ==
  ASSUME BankInv, DiskInv, CountUpdate, Next
  PROVE  CountUpdate'
<1>c. ASSUME pc \in Updating PROVE ~fwu_empty_capsule /\ dir # <<>>
  <2>1. /\ dir # <<>> /\ job.items \in Seq(Images) /\ job.items # <<>>
        /\ Range(job.items) \subseteq Range(Head(dir).items)
    BY <1>c DEF DiskInv, Jobs
  <2>2. Head(job.items) \in Range(Head(dir).items)
    BY <2>1, TailFacts
  <2>3. Head(dir).items # <<>>
    BY <2>2 DEF Range
  <2>4. Head(dir) \in Capsules
    BY <2>1, TailFacts DEF DiskInv
  <2> QED BY <2>1, <2>3, <2>4, CapsuleAssumption DEF fwu_empty_capsule
<1>1. CASE WriteMdata
  BY <1>1 DEF WriteMdata, CountUpdate, fwu_empty_capsule
<1>2. CASE \/ EarlierStage \/ fwu_init \/ fwu_init_lost \/ boottime_checks_index
           \/ boottime_checks_switch \/ boottime_checks_switched
           \/ efi_init_fails \/ regular_boot \/ fwu_trial_count_update
           \/ trial_counter_missing \/ trial_count_exceeded
           \/ trial_counter_delete \/ post_update_process \/ post_update_state
           \/ DeliverCapsule \/ Reset \/ PowerFailure \/ set_image \/ set_image_done
  <2>1. pc' \in {"init", "checks", "lost", "trial", "invalidated", "switched", "os",
                 "capsules", "exceeded", "post_switched", "reset", "off", "writing",
                 "image_end"}
    BY <1>2 DEF EarlierStage, fwu_init, fwu_init_lost, boottime_checks_index,
       boottime_checks_switch, boottime_checks_switched, efi_init_fails,
       regular_boot, fwu_trial_count_update, trial_counter_missing,
       trial_count_exceeded, trial_counter_delete, post_update_process, post_update_state,
       DeliverCapsule, Reset, PowerFailure, PowerOff, Sync, ram, set_image, set_image_done
  <2> QED BY <2>1, UpdateElsewhere
<1>3. CASE launch_capsules
  BY <1>3 DEF launch_capsules, CountUpdate
<1>4. CASE reject_capsule
  BY <1>4, UpdateEnds DEF reject_capsule, AtCapsule
<1>5. CASE revert_capsule \/ accept_capsule
  <2>1. fwu_empty_capsule /\ UNCHANGED dir /\ pc' \in {"accepted", "ended"}
    BY <1>5 DEF revert_capsule, accept_capsule, store, Sync, fwu_empty_capsule
  <2> QED BY <2>1 DEF CountUpdate, fwu_empty_capsule
<1>6. CASE accept_capsule_state
  <2>1. pc = "accepted" /\ UNCHANGED dir /\ pc' = "ended"
    BY <1>6 DEF accept_capsule_state, store, Sync
  <2> QED BY <2>1 DEF CountUpdate, fwu_empty_capsule
<1>7. CASE empty_capsule_end
  <2>1. /\ pc = "ended" /\ EndCapsule(job.ok /\ ~err) /\ UNCHANGED <<mem, in_trial>>
    BY <1>7 DEF empty_capsule_end
  <2>2. fwu_empty_capsule /\ dir # <<>>
    BY <2>1 DEF CountUpdate, DiskInv
  <2> QED BY <2>1, <2>2, UpdateEnds
<1>8. CASE update_capsule
  <2>1. /\ UNCHANGED <<mem, in_trial>> /\ ~in_trial /\ dir # <<>>
    BY <1>8 DEF update_capsule, AtCapsule, fwu_update_checks_pass
  <2>2. EndCapsule(TRUE) \/ pc' = "image"
    BY <1>8 DEF update_capsule
  <2> QED BY <2>1, <2>2, UpdateEnds, UpdateElsewhere
<1>9. CASE set_image_fails
  BY <1>9, <1>c, UpdateEnds DEF set_image_fails, Updating
<1>10. CASE image_end
  <2>1. /\ UNCHANGED <<mem, in_trial>> /\ pc = "image_end" /\ ~in_trial /\ dir # <<>>
    BY <1>10, <1>c DEF image_end, BankInv, Updating
  <2>2. EndCapsule(~err) \/ pc' = "image"
    BY <1>10 DEF image_end
  <2> QED BY <2>1, <2>2, UpdateEnds, UpdateElsewhere
<1> QED BY <1>1, <1>2, <1>3, <1>4, <1>5, <1>6, <1>7, <1>8, <1>9, <1>10 DEF Next

\* With version 2 metadata the platform boots in the trial state at most
\* CONFIG_FWU_TRIAL_STATE_CNT times, and once more when it finds the limit
\* passed, after an update which the operating system is to accept, wherever
\* power fails during those boots (fwu_trial_count_update() stores the counter
\* before anything else), and whatever capsules come and fail.
THEOREM CountedTheorem == Spec => []CountedTrial
<1> DEFINE Base == SyncInv /\ BankInv /\ RevertInv
           Inv == DiskInv /\ RestOK /\ CountInv
<1>1. Init => Inv
  <2> SUFFICES ASSUME Init PROVE Inv
    OBVIOUS
  <2>1. 0 \in 0..TrialCnt+1 /\ 0 \in 0..TrialCnt+2
    BY TrialAssumption
  <2>2. RestOK
    BY <2>1 DEF Init, RestOK, AllFaults, Pcs
  <2>3. CountUpdate /\ ~asked
    BY DEF Init, CountUpdate
  <2> QED BY <2>2, <2>3, DiskInit DEF CountInv
<1>2. ASSUME Base, Base', Inv, [Next]_vars PROVE Inv'
  <2>1. DiskInv' /\ RestOK'
    BY <1>2, DiskStep, RestStep
  <2> SUFFICES ASSUME Countable' PROVE CountUpdate' /\ (asked' => CountTrial' /\ CountSwitched')
    BY <2>1 DEF CountInv
  <2>2. Countable /\ NoOtherBank
    <3>1. faults \subseteq faults' /\ ver' = ver
      BY <1>2, FaultsGrow
    <3> QED BY <3>1 DEF Countable, Counting, NoOtherBank, Tolerating
  <2>3. RevertFacts /\ CountUpdate /\ (asked => CountTrial /\ CountSwitched)
    BY <1>2, <2>2 DEF RevertInv, CountInv
  <2>4. CASE UNCHANGED vars
    <3>1. asked' => CountTrial' /\ CountSwitched'
      BY <2>3, <2>4 DEF vars, store, ram, history, CountTrial, CountSwitched, Counted, Valid,
         Ok, InWindow
    <3>2. CountUpdate'
      BY <2>3, <2>4 DEF vars, store, ram, history, CountUpdate, fwu_empty_capsule
    <3> QED BY <3>1, <3>2
  <2>5. CASE Next
    BY <1>2, <2>1, <2>2, <2>3, <2>5, CountTrialStep, CountSwitchedStep, CountUpdateStep
  <2> QED BY <1>2, <2>4, <2>5
<1>3. Inv => CountedTrial
  BY DEF CountInv, Countable, CountTrial, CountedTrial
<1>4. Spec => []Base
  BY RevertInvariant
<1> HIDE DEF Base, Inv
<1> QED BY <1>1, <1>2, <1>3, <1>4, PTL DEF Spec

=============================================================================
