--------------------------- MODULE EnvFlashProofs ---------------------------
(***************************************************************************)
(* Proofs about the redundant environment on NOR flash, for every set of   *)
(* environments and of values that the flags bytes may be found with.      *)
(***************************************************************************)
EXTENDS EnvFlash, TLAPS

-----------------------------------------------------------------------------
(* Types *)

\* What the flash operations make of a copy is a copy.
LEMMA CopyTypes ==
  /\ Blank \in FlashCopies
  /\ \A d \in Data, f \in FlagValues : [crc_ok |-> TRUE, flags |-> f, data |-> d] \in FlashCopies
  /\ \A c \in FlashCopies, f \in FlagValues : [c EXCEPT !.flags = f] \in FlashCopies
BY DataAssumption, FlagsAssumption DEF Blank, FlashCopies

\* env_flash_init() chooses a copy whose CRC is right if there is one.
LEMMA InitChoice ==
  ASSUME NEW m \in [Copies -> FlashCopies]
  PROVE  /\ env_flash_init(m) \in {0, 1, 2}
         /\ env_flash_init(m) # 2 <=> m[0].crc_ok \/ m[1].crc_ok
         /\ env_flash_init(m) # 2 => m[env_flash_init(m)].crc_ok
BY DEF env_flash_init, Copies, FlashCopies

\* Power-on starts with well-typed state.
LEMMA TypeInit == Init => TypeOK
BY DataAssumption DEF Init, TypeOK, Copies, SaveSteps

\* Every step, failing or cut short, keeps the types.
LEMMA TypeStep == TypeOK /\ [Next]_vars => TypeOK'
<1> SUFFICES ASSUME TypeOK, [Next]_vars PROVE TypeOK'
  OBVIOUS
<1> USE DEF TypeOK, Copies, Other, SaveSteps
<1>1. CASE Boot
  BY <1>1, InitChoice DEF Boot, LoadFrom
<1>2. CASE env_reload
  BY <1>2 DEF env_reload, LoadFrom
<1>3. CASE LoadMarksObsolete
  <2>1. flash' \in [Copies -> FlashCopies] /\ seen' \subseteq {"flash_error", "stale_reload"}
    BY <1>3, FlagsAssumption, CopyTypes DEF LoadMarksObsolete, MarkFlag, WithFlag
  <2> QED BY <1>3, <2>1 DEF LoadMarksObsolete
<1>4. CASE LoadMarksActive
  <2>1. flash' \in [Copies -> FlashCopies] /\ seen' \subseteq {"flash_error", "stale_reload"}
    BY <1>4, FlagsAssumption, CopyTypes DEF LoadMarksActive, MarkFlag, WithFlag
  <2> QED BY <1>4, <2>1 DEF LoadMarksActive
<1>5. CASE env_import
  BY <1>5, DataAssumption DEF env_import, FlashCopies
<1>6. CASE env_set \/ SaveRefused \/ env_flash_save
  BY <1>6 DEF env_set, SaveRefused, env_flash_save
<1>12. CASE SaveEnds
  <2>1. flash_addr' \in Copies /\ pc' = "idle" /\ ret' = "OK"
    BY <1>12 DEF SaveEnds, SaveFails
  <2>2. seen' \in {seen, seen \cup {"flash_error"}}
    BY <1>12 DEF SaveEnds, SaveFails
  <2> QED BY <1>12, <2>1, <2>2 DEF SaveEnds, SaveFails
<1>13. CASE UNCHANGED vars
  BY <1>13 DEF vars
<1>7. CASE SaveErase
  BY <1>7, CopyTypes DEF SaveErase, EraseCutShort, SaveSector, SaveFails, SaveGoesOn
<1>8. Exported \in FlashCopies /\ [Exported EXCEPT !.flags = FLAG_ERASED] \in FlashCopies
  BY CopyTypes, FlagsAssumption DEF Exported
<1>9. CASE SaveWrite
  BY <1>8, <1>9 DEF SaveWrite, WriteCutShort, SaveSector, SaveFails, SaveGoesOn
<1>10. CASE SaveMarksObsolete
  BY <1>10, CopyTypes, FlagsAssumption DEF SaveMarksObsolete, WithFlag, SaveFails, SaveGoesOn
<1>11. CASE PowerFail
  BY <1>8, <1>11, CopyTypes DEF PowerFail, EraseCutShort, WriteCutShort, SaveSector
<1> QED
  BY <1>1, <1>2, <1>3, <1>4, <1>5, <1>6, <1>7, <1>9, <1>10, <1>11, <1>12, <1>13 DEF Next

\* The state of the flash environment keeps its type under every failure.
THEOREM TypeCorrect == Spec => []TypeOK
BY TypeInit, TypeStep, PTL DEF Spec

-----------------------------------------------------------------------------
(* The last loadable copy *)

\* BackupInv is inductive: a save erases and writes only the copy not in use.
LEMMA BackupStep == TypeOK /\ BackupInv /\ [Next]_vars => BackupInv'
<1> SUFFICES ASSUME TypeOK, BackupInv, [Next]_vars PROVE BackupInv'
  OBVIOUS
<1> USE DEF TypeOK, Copies, Other
<1>1. CASE Boot
  BY <1>1, InitChoice DEF Boot, LoadFrom, BackupInv
<1>2. CASE env_reload
  BY <1>2 DEF env_reload, LoadFrom, BackupInv
<1>3. CASE LoadMarksObsolete
  <2>1. \A c \in Copies : flash'[c].crc_ok = flash[c].crc_ok
    BY <1>3 DEF LoadMarksObsolete, MarkFlag, WithFlag, FlashCopies
  <2> QED BY <1>3, <2>1 DEF LoadMarksObsolete, MarkFlag, BackupInv
<1>4. CASE LoadMarksActive
  <2>1. \A c \in Copies : flash'[c].crc_ok = flash[c].crc_ok
    BY <1>4 DEF LoadMarksActive, MarkFlag, WithFlag, FlashCopies
  <2> QED BY <1>4, <2>1 DEF LoadMarksActive, MarkFlag, BackupInv
<1>5. CASE env_import \/ env_set \/ SaveRefused \/ env_flash_save
  BY <1>5 DEF env_import, env_set, SaveRefused, env_flash_save, BackupInv
<1>6. CASE SaveErase
  BY <1>6 DEF SaveErase, EraseCutShort, SaveSector, SaveFails, SaveGoesOn, BackupInv
<1>7. CASE SaveWrite
  BY <1>7 DEF SaveWrite, WriteCutShort, SaveSector, SaveFails, SaveGoesOn, BackupInv, Exported
<1>8. CASE SaveMarksObsolete
  <2>1. \A c \in Copies : flash'[c].crc_ok = flash[c].crc_ok
    BY <1>8 DEF SaveMarksObsolete, WithFlag, FlashCopies
  <2> QED BY <1>8, <2>1 DEF SaveMarksObsolete, SaveFails, SaveGoesOn, BackupInv
<1>9. CASE SaveEnds
  BY <1>9 DEF SaveEnds, SaveFails, BackupInv
<1>10. CASE PowerFail
  BY <1>10 DEF PowerFail, BackupInv
<1>11. CASE UNCHANGED vars
  BY <1>11 DEF vars, BackupInv
<1> QED
  BY <1>1, <1>2, <1>3, <1>4, <1>5, <1>6, <1>7, <1>8, <1>9, <1>10, <1>11 DEF Next

\* The copy in use stays loadable, whatever fails.
LEMMA BackupInvariant == Spec => []BackupInv
<1>1. Init => BackupInv
  BY DEF Init, BackupInv
<1> QED
  BY <1>1, BackupStep, TypeCorrect, PTL DEF Spec

\* No failure of the flash and no loss of power, in a save or in the repairs of
\* a boot, takes the last copy away that a boot could load (env_flash_save()).
THEOREM BackupKept == Spec => KeepsABackup
<1>1. TypeOK /\ TypeOK' /\ BackupInv /\ [Next]_vars =>
        [Loadable /\ env_addr # 2 /\ "stale_reload" \notin seen' => Loadable']_vars
  <2> SUFFICES ASSUME TypeOK, TypeOK', BackupInv, Next,
                      Loadable, env_addr # 2, "stale_reload" \notin seen'
               PROVE  Loadable'
    BY DEF vars, Loadable
  <2> USE DEF TypeOK, Copies, Other
  <2>1. Loadable' <=> flash'[0].crc_ok \/ flash'[1].crc_ok
    BY InitChoice DEF Loadable
  <2>2. flash[0].crc_ok \/ flash[1].crc_ok
    BY InitChoice DEF Loadable
  <2>3. CASE pc \in {"erase", "write"}
    <3>1. SaveErase \/ SaveWrite \/ PowerFail
      BY <2>3 DEF Next, Boot, env_reload, LoadMarksObsolete, LoadMarksActive, env_import, env_set,
             SaveRefused, env_flash_save, SaveMarksObsolete, SaveEnds
    <3>2. flash[flash_addr].crc_ok
      BY <2>3, <3>1 DEF BackupInv, SaveErase, SaveWrite, PowerFail, SaveFails, SaveGoesOn
    <3>3. flash'[flash_addr] = flash[flash_addr]
      <4>1. \/ flash' \in EraseCutShort \cup WriteCutShort
            \/ \E x : flash' = [flash EXCEPT ![SaveSector] = x]
        BY <2>3, <3>1 DEF SaveErase, SaveWrite, PowerFail
      <4> QED BY <4>1 DEF EraseCutShort, WriteCutShort, SaveSector
    <3> QED BY <2>1, <3>2, <3>3
  <2>4. CASE pc \notin {"erase", "write"}
    <3>1. \A c \in Copies : flash'[c].crc_ok = flash[c].crc_ok
      BY <2>4 DEF Next, Boot, env_reload, LoadMarksObsolete, LoadMarksActive, env_import, env_set,
             SaveRefused, env_flash_save, SaveErase, SaveWrite, SaveMarksObsolete, SaveEnds,
             PowerFail, MarkFlag, WithFlag, FlashCopies
    <3> QED BY <2>1, <2>2, <3>1
  <2> QED BY <2>3, <2>4
<1> QED
  BY <1>1, TypeCorrect, BackupInvariant, PTL DEF Spec, KeepsABackup

-----------------------------------------------------------------------------
(* The choice between two copies, and saves as atomic steps *)

\* A single good copy is chosen whatever its flags, and an active one is chosen
\* rather than an obsolete one.
LEMMA ChosenCopy ==
  ASSUME NEW m \in [Copies -> FlashCopies], NEW c \in Copies, m[c].crc_ok
  PROVE  /\ ~m[Other(c)].crc_ok => env_flash_init(m) = c
         /\ /\ m[c].flags = ENV_REDUND_ACTIVE
            /\ m[Other(c)].flags = ENV_REDUND_OBSOLETE
            => env_flash_init(m) = c
BY DEF env_flash_init, Copies, Other, FlashCopies, ENV_REDUND_ACTIVE, ENV_REDUND_OBSOLETE,
       FLAG_ERASED

\* The repairs of env_flash_load() confirm the choice of env_flash_init().
LEMMA RepairsConfirm ==
  ASSUME NEW m \in [Copies -> FlashCopies], NEW c \in Copies, env_flash_init(m) = c
  PROVE  /\ env_flash_init([m EXCEPT ![Other(c)].flags = ENV_REDUND_OBSOLETE]) = c
         /\ ~m[Other(c)].crc_ok \/ m[Other(c)].flags = ENV_REDUND_OBSOLETE =>
              env_flash_init([m EXCEPT ![c].flags = ENV_REDUND_ACTIVE]) = c
<1> USE DEF Copies, Other, FlashCopies, ENV_REDUND_ACTIVE, ENV_REDUND_OBSOLETE, FLAG_ERASED
<1>1. m[c].crc_ok
  BY InitChoice
<1>2. CASE c = 0
  BY <1>1, <1>2 DEF env_flash_init
<1>3. CASE c = 1
  BY <1>1, <1>3 DEF env_flash_init
<1> QED BY <1>2, <1>3

\* ChoiceInv is inductive: what a boot would choose is the copy in use until
\* a save has marked that one obsolete.
LEMMA ChoiceStep == TypeOK /\ TypeOK' /\ ChoiceInv /\ [Next]_vars => ChoiceInv'
<1> SUFFICES ASSUME TypeOK, TypeOK', ChoiceInv, [Next]_vars, pc' # "off", seen' = {}
             PROVE  ChoiceInv'
  BY DEF ChoiceInv
<1> USE DEF TypeOK, Copies, Other
<1>1. CASE Boot
  BY <1>1, InitChoice DEF Boot, LoadFrom, ChoiceInv, Loadable
<1>2. CASE env_reload
  <2>1. seen = {} /\ env_addr = flash_addr
    BY <1>2 DEF env_reload
  <2> QED BY <1>2, <2>1 DEF env_reload, LoadFrom, ChoiceInv, Loadable
<1>3. CASE LoadMarksObsolete
  <2>1. seen = {}
    BY <1>3 DEF LoadMarksObsolete, MarkFlag
  <2>0. pc = "ld_obsolete" /\ pc' = "ld_active" /\ flash_addr' = flash_addr
    BY <1>3 DEF LoadMarksObsolete
  <2>2. CASE flash' = flash
    <3>1. \/ ~flash[Other(flash_addr)].crc_ok
          \/ flash[Other(flash_addr)].flags = ENV_REDUND_OBSOLETE
      BY <1>3, <2>1, <2>2 DEF LoadMarksObsolete, MarkFlag, WithFlag, FlashCopies
    <3> QED BY <2>0, <2>1, <2>2, <3>1 DEF ChoiceInv, Loadable
  <2>3. CASE flash' = WithFlag(Other(flash_addr), ENV_REDUND_OBSOLETE)
    <3>1. Loadable' => Loadable
      BY <2>3, InitChoice DEF WithFlag, Loadable, FlashCopies
    <3>2. flash'[Other(flash_addr)].flags = ENV_REDUND_OBSOLETE
      BY <2>3 DEF WithFlag, FlashCopies
    <3>3. Loadable' => env_flash_init(flash') = flash_addr
      BY <2>0, <2>1, <2>3, <3>1, RepairsConfirm DEF WithFlag, ChoiceInv, Loadable
    <3> QED BY <2>0, <3>2, <3>3 DEF ChoiceInv
  <2> QED BY <1>3, <2>1, <2>2, <2>3 DEF LoadMarksObsolete, MarkFlag
<1>4. CASE LoadMarksActive
  <2>1. seen = {}
    BY <1>4 DEF LoadMarksActive, MarkFlag
  <2>2. CASE flash' = flash
    BY <1>4, <2>1, <2>2 DEF LoadMarksActive, ChoiceInv, Loadable
  <2>3. CASE flash' = WithFlag(flash_addr, ENV_REDUND_ACTIVE)
    <3>1. Loadable' => Loadable
      BY <2>3, InitChoice DEF WithFlag, Loadable, FlashCopies
    <3> QED
      BY <1>4, <2>1, <2>3, <3>1, RepairsConfirm DEF LoadMarksActive, WithFlag, ChoiceInv, Loadable
  <2> QED BY <1>4, <2>1, <2>2, <2>3 DEF LoadMarksActive, MarkFlag
<1>5. CASE env_import \/ env_set \/ SaveRefused \/ env_flash_save
  BY <1>5 DEF env_import, env_set, SaveRefused, env_flash_save, ChoiceInv, Loadable
<1>6. CASE SaveErase
  <2>1. seen = {} /\ pc = "erase" /\ pc' = "write" /\ flash_addr' = flash_addr
        /\ flash' = [flash EXCEPT ![Other(flash_addr)] = Blank]
    BY <1>6 DEF SaveErase, SaveFails, SaveGoesOn, SaveSector
  <2>2. ~flash'[Other(flash_addr)].crc_ok
    BY <2>1 DEF Blank
  <2>3. Loadable' => env_flash_init(flash') = flash_addr
    <3>1. Loadable' => flash'[flash_addr].crc_ok
      BY <2>2, InitChoice DEF Loadable
    <3> QED BY <2>2, <3>1, ChosenCopy
  <2> QED BY <2>1, <2>3 DEF ChoiceInv, Loadable
<1>7. CASE SaveWrite
  <2>1. pc' = "obsolete" /\ flash_addr' = flash_addr /\ env_new' = env_new
        /\ flash' = [flash EXCEPT ![Other(flash_addr)] = Exported]
    BY <1>7 DEF SaveWrite, SaveFails, SaveGoesOn, SaveSector
  <2> QED BY <2>1 DEF ChoiceInv, Exported
<1>8. CASE SaveMarksObsolete
  <2>1. seen = {} /\ pc = "obsolete" /\ pc' = "restore"
        /\ flash' = WithFlag(flash_addr, ENV_REDUND_OBSOLETE)
        /\ flash_addr' = flash_addr /\ env_new' = env_new
    BY <1>8 DEF SaveMarksObsolete, SaveFails, SaveGoesOn
  <2> QED BY <2>1 DEF ChoiceInv, WithFlag, Exported
<1>9. CASE SaveEnds
  <2>1. seen = {} /\ pc = "restore" /\ pc' = "idle" /\ flash_addr' = Other(flash_addr)
        /\ flash' = flash
    BY <1>9 DEF SaveEnds, SaveFails
  <2>2. env_flash_init(flash) = Other(flash_addr)
    BY <2>1, ChosenCopy DEF ChoiceInv, Exported
  <2> QED BY <2>1, <2>2 DEF ChoiceInv, Loadable
<1>10. CASE PowerFail
  BY <1>10 DEF PowerFail
<1>11. CASE UNCHANGED vars
  BY <1>11 DEF vars, ChoiceInv, Loadable, Exported
<1> QED
  BY <1>1, <1>2, <1>3, <1>4, <1>5, <1>6, <1>7, <1>8, <1>9, <1>10, <1>11 DEF Next

\* RAM and flash agree on the copy in use while no operation has failed.
LEMMA ChoiceInvariant == Spec => []ChoiceInv
<1>1. Init => ChoiceInv
  BY DEF Init, ChoiceInv
<1> QED
  BY <1>1, ChoiceStep, TypeCorrect, PTL DEF Spec

\* Two successive states of a step that writes at most one copy, when the copy
\* in use is the one a boot would choose: a boot finds what it would have found
\* before, or what is being written.
LEMMA StoredOrWritten ==
  ASSUME TypeOK, TypeOK', ChoiceInv, seen = {}, pc \in {"erase", "write"},
         \/ flash' = flash
         \/ flash' = [flash EXCEPT ![Other(flash_addr)] = Blank]
         \/ \E f \in FlagValues :
              flash' = [flash EXCEPT ![Other(flash_addr)] = [crc_ok |-> TRUE, flags |-> f, data |-> env_new]]
  PROVE  Stored' \in {Stored, env_new}
<1> USE DEF TypeOK, Copies, Other
<1>1. Loadable => Stored = flash[flash_addr].data
  BY DEF ChoiceInv, Loadable, Stored, StoredIn
<1>2. ~Loadable => Stored = DefaultEnv
  BY DEF Loadable, Stored, StoredIn
<1>3. flash'[flash_addr] = flash[flash_addr]
  <2>1. flash' = flash \/ \E x : flash' = [flash EXCEPT ![Other(flash_addr)] = x]
    OBVIOUS
  <2> QED BY <2>1
<1>4. CASE flash' = flash
  BY <1>4 DEF Stored
<1>5. CASE flash' = [flash EXCEPT ![Other(flash_addr)] = Blank]
  <2>1. ~flash'[Other(flash_addr)].crc_ok
    BY <1>5 DEF Blank
  <2>2. CASE flash[flash_addr].crc_ok
    <3>1. Loadable /\ env_flash_init(flash') = flash_addr
      BY <1>3, <2>1, <2>2, InitChoice, ChosenCopy DEF Loadable
    <3> QED BY <1>1, <1>3, <3>1 DEF Stored, StoredIn
  <2>3. CASE ~flash[flash_addr].crc_ok
    <3>1. ~Loadable
      BY <2>3, InitChoice DEF ChoiceInv, Loadable
    <3>2. env_flash_init(flash') = 2
      BY <1>3, <2>1, <2>3, InitChoice
    <3> QED BY <1>2, <3>1, <3>2 DEF Stored, StoredIn
  <2> QED BY <2>2, <2>3
<1>6. ASSUME NEW f \in FlagValues,
             flash' = [flash EXCEPT ![Other(flash_addr)] =
                         [crc_ok |-> TRUE, flags |-> f, data |-> env_new]]
      PROVE  Stored' \in {Stored, env_new}
  <2>1. flash'[Other(flash_addr)].crc_ok /\ flash'[Other(flash_addr)].data = env_new
    BY <1>6
  <2>2. env_flash_init(flash') \in Copies /\ flash'[env_flash_init(flash')].crc_ok
    BY <2>1, InitChoice
  <2>3. Stored' = flash'[env_flash_init(flash')].data
    BY <2>2 DEF Stored, StoredIn
  <2>4. CASE env_flash_init(flash') = Other(flash_addr)
    BY <2>1, <2>3, <2>4
  <2>5. CASE env_flash_init(flash') = flash_addr
    <3>1. Loadable
      BY <1>3, <2>2, <2>5, InitChoice DEF Loadable
    <3> QED BY <1>1, <1>3, <2>3, <2>5, <3>1
  <2> QED BY <2>2, <2>4, <2>5
<1> QED BY <1>4, <1>5, <1>6

\* The repairs of a load change nothing that a boot would find.
LEMMA RepairsKeepStored ==
  ASSUME TypeOK, TypeOK', ChoiceInv, ChoiceInv', seen = {}, seen' = {},
         LoadMarksObsolete \/ LoadMarksActive
  PROVE  Stored' = Stored
<1> USE DEF TypeOK, Copies, Other
<1>1. \A c \in Copies : flash'[c].crc_ok = flash[c].crc_ok /\ flash'[c].data = flash[c].data
  <2>1. CASE LoadMarksObsolete
    BY <2>1 DEF LoadMarksObsolete, MarkFlag, WithFlag, FlashCopies
  <2>2. CASE LoadMarksActive
    BY <2>2 DEF LoadMarksActive, MarkFlag, WithFlag, FlashCopies
  <2> QED BY <2>1, <2>2
<1>2. Loadable' <=> Loadable
  BY <1>1, InitChoice DEF Loadable
<1>3. Loadable => env_flash_init(flash) = flash_addr /\ env_flash_init(flash') = flash_addr
  BY <1>2 DEF ChoiceInv, LoadMarksObsolete, LoadMarksActive
<1> QED
  BY <1>1, <1>2, <1>3 DEF Loadable, Stored, StoredIn

\* Once the old copy is marked obsolete, the new one is what a boot finds.
LEMMA NewIsStored ==
  ASSUME TypeOK, ChoiceInv, seen = {}, pc = "restore"
  PROVE  Stored = env_new
<1>1. flash[Other(flash_addr)].crc_ok /\ flash[Other(flash_addr)].data = env_new
  BY DEF ChoiceInv, Exported
<1>2. env_flash_init(flash) = Other(flash_addr)
  BY <1>1, ChosenCopy DEF ChoiceInv, Exported, TypeOK, Copies, Other
<1> QED BY <1>1, <1>2 DEF Stored, StoredIn, TypeOK, Copies, Other

\* Every step after which no flash operation has failed, and no stale pointer
\* been followed, since power-on is a step of the atomic register EnvStore, or
\* changes neither what the next boot loads nor the save in progress: saves and
\* the repairs of a load are atomic (env_flash_save(), env_flash_load()).
THEOREM SavesAtomic == Spec => SavesAreAtomic
<1>1. TypeOK /\ TypeOK' /\ ChoiceInv /\ ChoiceInv' /\ [Next]_vars =>
        [seen' = {} => Store!Next \/ UNCHANGED Store!vars]_vars
  <2> SUFFICES ASSUME TypeOK, TypeOK', ChoiceInv, ChoiceInv', Next, seen' = {}
               PROVE  Store!Next \/ UNCHANGED Store!vars
    OBVIOUS
  <2> USE DEF TypeOK, SaveSteps
  <2>0. pc \in SaveSteps => InProgress.kind = "save" /\ InProgress.data = env_new
    BY DEF InProgress
  <2>i. ASSUME Stored' = Stored, pc \notin SaveSteps, pc' \notin SaveSteps
        PROVE  Store!Next
    <3>1. InProgress = Store!NoOp /\ InProgress' = Store!NoOp
      BY <2>i DEF InProgress, Store!NoOp
    <3> QED BY <2>i, <3>1 DEF Store!Next, Store!Idling, Store!Results
  <2>1. CASE Boot \/ env_reload \/ env_import \/ env_set \/ SaveRefused
    <3>1. flash' = flash /\ pc \notin SaveSteps /\ pc' \notin SaveSteps
      BY <2>1 DEF Boot, env_reload, env_import, env_set, SaveRefused
    <3> QED BY <2>i, <3>1 DEF Stored
  <2>2. CASE LoadMarksObsolete \/ LoadMarksActive
    <3>1. seen = {} /\ pc \notin SaveSteps /\ pc' \notin SaveSteps
      BY <2>2 DEF LoadMarksObsolete, LoadMarksActive, MarkFlag
    <3>2. Stored' = Stored
      BY <2>2, <3>1, RepairsKeepStored
    <3> QED BY <2>i, <3>1, <3>2
  <2>3. CASE env_flash_save
    <3>1. Stored' = Stored
      BY <2>3 DEF env_flash_save, Stored
    <3>2. InProgress = Store!NoOp /\ InProgress' = [kind |-> "save", data |-> env_htab]
      BY <2>3 DEF env_flash_save, InProgress, Store!NoOp
    <3>3. pc # "off" /\ pc' # "off" /\ ret' = ret
      BY <2>3 DEF env_flash_save
    <3> QED BY <3>1, <3>2, <3>3 DEF Store!Next, Store!StartSave
  <2>4. CASE SaveErase \/ SaveWrite
    <3>1. /\ seen = {} /\ pc \in {"erase", "write"} /\ pc' \in SaveSteps /\ env_new' = env_new
          /\ ret' = ret
          /\ \/ flash' = [flash EXCEPT ![Other(flash_addr)] = Blank]
             \/ flash' = [flash EXCEPT ![Other(flash_addr)] = Exported]
      BY <2>4 DEF SaveErase, SaveWrite, SaveFails, SaveGoesOn, SaveSector
    <3>2. Stored' \in {Stored, env_new}
      BY <3>1, StoredOrWritten, FlagsAssumption DEF Exported
    <3>3. InProgress' = InProgress
      BY <3>1 DEF InProgress
    <3> QED BY <2>0, <3>1, <3>2, <3>3 DEF Store!Next, Store!TakeEffect, Store!vars
  <2>5. CASE SaveMarksObsolete
    <3>1. pc \in SaveSteps /\ pc' = "restore" /\ env_new' = env_new /\ ret' = ret
      BY <2>5 DEF SaveMarksObsolete, SaveFails, SaveGoesOn
    <3>2. Stored' = env_new
      <4>1. /\ flash'[Other(flash_addr)] = Exported
            /\ flash'[flash_addr].flags = ENV_REDUND_OBSOLETE
            /\ flash_addr' = flash_addr
        BY <2>5, <3>1 DEF SaveMarksObsolete, SaveFails, SaveGoesOn, ChoiceInv, Exported
      <4>2. env_flash_init(flash') = Other(flash_addr)
        BY <4>1, ChosenCopy DEF Exported, Copies, Other
      <4> QED BY <4>1, <4>2 DEF Stored, StoredIn, Exported, Copies, Other
    <3>3. InProgress' = InProgress
      BY <3>1 DEF InProgress
    <3> QED BY <2>0, <3>1, <3>2, <3>3 DEF Store!Next, Store!TakeEffect
  <2>6. CASE SaveEnds
    <3>1. seen = {} /\ pc = "restore" /\ pc' = "idle" /\ flash' = flash /\ ret' = "OK"
      BY <2>6 DEF SaveEnds, SaveFails
    <3>2. Stored' = env_new
      BY <3>1, NewIsStored DEF Stored
    <3>3. InProgress' = Store!NoOp
      BY <3>1 DEF InProgress, Store!NoOp
    <3> QED BY <2>0, <3>1, <3>2, <3>3 DEF Store!Next, Store!CompleteSave, Store!Report
  <2>7. CASE PowerFail
    <3>1. /\ seen = {} /\ pc # "off" /\ pc' = "off" /\ ret' = ret
          /\ InProgress' = Store!NoOp
      BY <2>7 DEF PowerFail, InProgress, Store!NoOp
    <3>2. CASE pc \notin SaveSteps
      <4>1. flash' = flash
        BY <2>7, <3>2 DEF PowerFail
      <4>2. pc' \notin SaveSteps
        BY <2>7 DEF PowerFail
      <4> QED BY <2>i, <3>2, <4>1, <4>2 DEF Stored
    <3>3. CASE pc \in {"obsolete", "restore"}
      <4>1. flash' = flash
        BY <2>7, <3>3 DEF PowerFail
      <4> QED BY <2>0, <3>1, <3>3, <4>1 DEF Stored, Store!Next, Store!AbandonSave, Store!Interrupted
    <3>4. CASE pc \in {"erase", "write"}
      <4>1. \/ flash' = flash
            \/ flash' = [flash EXCEPT ![Other(flash_addr)] = Blank]
            \/ flash' = [flash EXCEPT ![Other(flash_addr)] = Exported]
            \/ flash' = [flash EXCEPT ![Other(flash_addr)] = [Exported EXCEPT !.flags = FLAG_ERASED]]
        BY <2>7, <3>4 DEF PowerFail, EraseCutShort, WriteCutShort, SaveSector
      <4>2. Stored' \in {Stored, env_new}
        BY <3>1, <3>4, <4>1, StoredOrWritten, FlagsAssumption DEF Exported
      <4> QED BY <2>0, <3>1, <3>4, <4>2 DEF Store!Next, Store!AbandonSave, Store!Interrupted
    <3> QED BY <3>2, <3>3, <3>4
  <2> QED
    BY <2>1, <2>2, <2>3, <2>4, <2>5, <2>6, <2>7 DEF Next
<1> QED
  BY <1>1, TypeCorrect, ChoiceInvariant, PTL DEF Spec, SavesAreAtomic

\* A save that returned success, with no flash operation failing since power-on,
\* is what the next boot loads (env_flash_save() and env_flash_init()).
THEOREM SavesAreStored == Spec => SuccessfulSaveIsStored
<1>1. TypeOK /\ ChoiceInv /\ [Next]_vars =>
        [seen' = {} /\ pc \in SaveSteps /\ pc' = "idle" /\ ret' = "OK" => Stored' = env_new]_vars
  <2> SUFFICES ASSUME TypeOK, ChoiceInv, Next,
                      seen' = {}, pc \in SaveSteps, pc' = "idle", ret' = "OK"
               PROVE  Stored' = env_new
    OBVIOUS
  <2>1. SaveEnds
    BY DEF Next, Boot, env_reload, LoadMarksObsolete, LoadMarksActive, env_import, env_set,
           SaveRefused, env_flash_save, SaveErase, SaveWrite, SaveMarksObsolete, PowerFail,
           SaveFails, SaveGoesOn, SaveSteps
  <2>2. seen = {} /\ pc = "restore" /\ flash' = flash
    BY <2>1 DEF SaveEnds, SaveFails
  <2> QED BY <2>2, NewIsStored DEF Stored
<1> QED
  BY <1>1, TypeCorrect, ChoiceInvariant, PTL DEF Spec, SuccessfulSaveIsStored
=============================================================================
