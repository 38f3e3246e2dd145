-------------------------- MODULE EnvRedundProofs ---------------------------
EXTENDS EnvRedund, TLAPS

USE DataAssumption, FlagsAssumption, ConfigAssumption

\* The next serial is a serial.
LEMMA BumpType == \A f \in Serials : Bump(f) \in Serials
  BY DEF Bump, Serials

\* Power-on starts with well-typed state.
LEMMA TypeInit == Init => TypeOK
  <1> USE DEF TypeOK, Copies, EnvCopies, Formats, Serials, NoOp, Torn
  <1> SUFFICES ASSUME Init PROVE TypeOK
    OBVIOUS
  <1>1. media \in [Copies -> EnvCopies]
    BY DEF Init, FactoryMedia
  <1>2. /\ op \in [kind : {"none", "save", "erase"}, data : Data]
        /\ op.kind = "none" => op = NoOp
    BY DEF Init
  <1>3. env_flags \in Serials
    BY DEF Init
  <1> QED
    BY <1>1, <1>2, <1>3 DEF Init

\* Every step keeps the types.
LEMMA TypeStep == TypeOK /\ [Next]_vars => TypeOK'
  <1> USE DEF TypeOK, Copies, EnvCopies, Formats, Serials, NoOp, Torn
  <1> SUFFICES ASSUME TypeOK, [Next]_vars PROVE TypeOK'
    OBVIOUS
  <1>l. ASSUME NEW v \in {"ENV_INVALID", "ENV_VALID", "ENV_REDUND"},
               NEW f \in Serials, env_mmc_load(v, f)
        PROVE  /\ env_valid' \in {"ENV_INVALID", "ENV_VALID", "ENV_REDUND"}
               /\ env_flags' \in Serials /\ env_htab' \in Data
               /\ ret' \in {"OK", "ERR"}
               /\ seen' \subseteq {"read_error", "write_error", "erase"}
    BY <1>l DEF env_mmc_load, env_check_redund, check_serial, ImportedCopy, ImportedFlags
  <1>1. CASE Boot
    BY <1>1, <1>l DEF Boot
  <1>2. CASE env_reload
    BY <1>2, <1>l DEF env_reload, Idle
  <1>3. CASE PowerFail
    <2>1. media' \in [Copies -> EnvCopies]
      <3>1. CASE op.kind = "save"
        BY <1>3, <3>1 DEF PowerFail, CutShort, Exported
      <3>2. CASE op.kind = "erase"
        BY <1>3, <3>2 DEF PowerFail, Erased
      <3>3. CASE op.kind = "none"
        BY <1>3, <3>3 DEF PowerFail
      <3> QED
        BY <3>1, <3>2, <3>3
    <2> QED
      BY <1>3, <2>1 DEF PowerFail
  <1>4. CASE env_set
    BY <1>4 DEF env_set
  <1>5. CASE env_mmc_save
    BY <1>5, BumpType DEF env_mmc_save, SaveTarget
  <1>6. CASE SaveDone
    BY <1>6 DEF SaveDone, Exported
  <1>7. CASE SaveFailed
    BY <1>7 DEF SaveFailed, CutShort, Exported
  <1>8. CASE env_mmc_erase
    BY <1>8 DEF env_mmc_erase
  <1>e. ASSUME NEW failed \in {FALSE, WriteErrors}, media' \in Erased(failed)
        PROVE  media' \in [Copies -> EnvCopies]
    BY <1>e DEF Erased
  <1>s. ASSUME NEW failed \in {FALSE, WriteErrors}, seen' = SeenAfter(failed)
        PROVE  seen' \subseteq {"read_error", "write_error", "erase"}
    BY <1>s DEF SeenAfter
  <1>9. CASE ErasePrimary
    <2>1. PICK failed \in {FALSE, WriteErrors} :
            media' \in Erased(failed) /\ ret' \in {"OK", "ERR"} /\ seen' = SeenAfter(failed)
      BY <1>9 DEF ErasePrimary
    <2> QED
      BY <1>9, <1>e, <1>s, <2>1 DEF ErasePrimary
  <1>12. CASE EraseRedundant
    <2>1. PICK failed \in {FALSE, WriteErrors} :
            media' \in Erased(failed) /\ ret' \in {"OK", "ERR"} /\ seen' = SeenAfter(failed)
      BY <1>12 DEF EraseRedundant, EraseResult
    <2> QED
      BY <1>12, <1>e, <1>s, <2>1 DEF EraseRedundant
  <1>11. CASE DeviceUnusable
    BY <1>11 DEF DeviceUnusable
  <1>10. CASE UNCHANGED vars
    BY <1>10 DEF vars
  <1> QED
    BY <1>1, <1>2, <1>3, <1>4, <1>5, <1>6, <1>7, <1>8, <1>9, <1>10, <1>11, <1>12 DEF Next

\* Every variable keeps its type; in particular the serial stays within the
\* byte that stores it, whatever I/O errors and power failures happen.
THEOREM TypeCorrect == Spec => []TypeOK
  BY TypeInit, TypeStep, PTL DEF Spec

-----------------------------------------------------------------------------
(* What the load code makes of two copies *)

Media == [Copies -> EnvCopies]
IsGood(m, c) == m[c].fmt = "redund"
Other(c) == 1 - c
ValidOf(c) == IF c = 0 THEN "ENV_VALID" ELSE "ENV_REDUND"

\* env_check_redund() by cases, for a device both copies of which are readable
LEMMA CheckCases ==
  ASSUME NEW m \in Media
  PROVE
    /\ IsGood(m, 0) /\ IsGood(m, 1) =>
         CheckOf(m) = [ret |-> "OK", valid |-> check_serial(m[0].flags, m[1].flags)]
    /\ IsGood(m, 0) /\ ~IsGood(m, 1) => CheckOf(m) = [ret |-> "OK", valid |-> "ENV_VALID"]
    /\ ~IsGood(m, 0) /\ IsGood(m, 1) => CheckOf(m) = [ret |-> "OK", valid |-> "ENV_REDUND"]
    /\ ~IsGood(m, 0) /\ ~IsGood(m, 1) =>
         CheckOf(m) = IF Upgrade /\ m[0].fmt = "single"
                      THEN [ret |-> "OK", valid |-> "ENV_VALID"]
                      ELSE [ret |-> "ENOMSG", valid |-> "ENV_INVALID"]
  BY DEF CheckOf, env_check_redund, IsGood

\* The serial comparison recognises a successor, across the wrap too.
LEMMA SerialSuccessor ==
  ASSUME NEW f \in Serials
  PROVE  /\ check_serial(f, Bump(f)) = "ENV_REDUND"
         /\ check_serial(Bump(f), f) = "ENV_VALID"
         /\ check_serial(f, f) = "ENV_VALID"
  BY DEF check_serial, Bump, Serials

\* Overwriting a copy that is not in use with the next serial makes it the
\* one in use; leaving it torn keeps the other one.
LEMMA WriteOther ==
  ASSUME NEW m \in Media, NEW t \in Copies, NEW c \in EnvCopies, c.fmt = "redund",
         CheckOf(m).ret = "OK" =>
            /\ CheckOf(m).valid = ValidOf(Other(t))
            /\ c.flags = Bump(ImportedFlags(m[Other(t)]))
  PROVE  /\ CheckOf([m EXCEPT ![t] = c]) = [ret |-> "OK", valid |-> ValidOf(t)]
         /\ StoredIn([m EXCEPT ![t] = c]) = c.data
         /\ StoredIn(m) = StoredIn([m EXCEPT ![t] = Torn])
  <1> DEFINE w == [m EXCEPT ![t] = c]
             b == [m EXCEPT ![t] = Torn]
  <1> USE DEF Copies, Media, EnvCopies, Formats
  <1>0. w \in Media /\ b \in Media
    BY DEF Torn, Serials
  <1>1. /\ w[t] = c /\ w[Other(t)] = m[Other(t)]
        /\ b[t] = Torn /\ b[Other(t)] = m[Other(t)]
    BY DEF Other
  <1> HIDE DEF w, b
  <1>2. CASE t = 0
    <2>1. w[0] = c /\ w[1] = m[1] /\ b[0] = Torn /\ b[1] = m[1]
      BY <1>1, <1>2 DEF Other
    <2>2. IsGood(w, 0) /\ (IsGood(w, 1) <=> IsGood(m, 1)) /\ w[0].flags = c.flags
      BY <2>1 DEF IsGood
    <2>3. CheckOf(w) = [ret |-> "OK", valid |-> "ENV_VALID"]
      <3>1. CASE IsGood(m, 1)
        <4>1. CheckOf(m).ret = "OK"
          BY <3>1, CheckCases
        <4>2. c.flags = Bump(m[1].flags) /\ m[1].flags \in Serials
          BY <4>1, <3>1, <1>2 DEF ImportedFlags, IsGood, Other
        <4> QED
          BY <1>0, <2>1, <2>2, <3>1, <4>2, CheckCases, SerialSuccessor
      <3>2. CASE ~IsGood(m, 1)
        BY <1>0, <2>2, <3>2, CheckCases
      <3> QED
        BY <3>1, <3>2
    <2>4. StoredIn(b) = StoredIn(m)
      <3>1. ~IsGood(b, 0) /\ b[0].fmt # "single" /\ (IsGood(b, 1) <=> IsGood(m, 1))
        BY <2>1 DEF IsGood, Torn
      <3>2. CASE IsGood(m, 1)
        <4>1. CheckOf(m) = [ret |-> "OK", valid |-> "ENV_REDUND"]
          BY <3>2, <1>2, CheckCases DEF ValidOf, Other
        <4>2. CheckOf(b) = [ret |-> "OK", valid |-> "ENV_REDUND"]
          BY <3>1, <3>2, <1>0, CheckCases
        <4> QED
          BY <4>1, <4>2, <2>1 DEF StoredIn, ImportedCopy
      <3>3. CASE ~IsGood(m, 1)
        <4>1. CheckOf(m).ret # "OK"
          BY <3>3, <1>2, CheckCases DEF ValidOf, Other
        <4>2. CheckOf(b).ret # "OK"
          BY <3>1, <3>3, <1>0, CheckCases
        <4> QED
          BY <4>1, <4>2 DEF StoredIn
      <3> QED
        BY <3>2, <3>3
    <2> QED
      BY <1>2, <2>1, <2>3, <2>4 DEF StoredIn, ImportedCopy, ValidOf, w, b
  <1>3. CASE t = 1
    <2>1. w[1] = c /\ w[0] = m[0] /\ b[1] = Torn /\ b[0] = m[0]
      BY <1>1, <1>3 DEF Other
    <2>2. IsGood(w, 1) /\ (IsGood(w, 0) <=> IsGood(m, 0)) /\ w[1].flags = c.flags
      BY <2>1 DEF IsGood
    <2>3. CheckOf(w) = [ret |-> "OK", valid |-> "ENV_REDUND"]
      <3>1. CASE IsGood(m, 0)
        <4>1. CheckOf(m).ret = "OK"
          BY <3>1, CheckCases
        <4>2. c.flags = Bump(m[0].flags) /\ m[0].flags \in Serials
          BY <4>1, <3>1, <1>3 DEF ImportedFlags, IsGood, Other
        <4> QED
          BY <1>0, <2>1, <2>2, <3>1, <4>2, CheckCases, SerialSuccessor
      <3>2. CASE ~IsGood(m, 0)
        BY <1>0, <2>2, <3>2, CheckCases
      <3> QED
        BY <3>1, <3>2
    <2>4. StoredIn(b) = StoredIn(m)
      <3>1. ~IsGood(b, 1) /\ (IsGood(b, 0) <=> IsGood(m, 0)) /\ b[0].fmt = m[0].fmt
        BY <2>1 DEF IsGood, Torn
      <3>2. CheckOf(m).ret = "OK" => CheckOf(m).valid = "ENV_VALID"
        BY <1>3 DEF ValidOf, Other
      <3>3. IsGood(m, 1) => CheckOf(m).ret = "OK" /\ IsGood(m, 0)
        BY <3>2, CheckCases
      <3>4. CASE IsGood(m, 0)
        <4>1. CheckOf(m) = [ret |-> "OK", valid |-> "ENV_VALID"]
          BY <3>2, <3>4, CheckCases
        <4>2. CheckOf(b) = [ret |-> "OK", valid |-> "ENV_VALID"]
          BY <3>1, <3>4, <1>0, CheckCases
        <4> QED
          BY <4>1, <4>2, <2>1 DEF StoredIn, ImportedCopy
      <3>5. CASE ~IsGood(m, 0)
        <4>1. CheckOf(b) = CheckOf(m)
          BY <3>1, <3>3, <3>5, <1>0, CheckCases
        <4> QED
          BY <4>1, <3>2, <2>1 DEF StoredIn, ImportedCopy
      <3> QED
        BY <3>4, <3>5
    <2> QED
      BY <1>3, <2>1, <2>3, <2>4 DEF StoredIn, ImportedCopy, ValidOf, w, b
  <1> QED
    BY <1>2, <1>3

\* What a boot loads is an environment.
LEMMA StoredType == \A m \in Media : StoredIn(m) \in Data
  <1> SUFFICES ASSUME NEW m \in Media PROVE StoredIn(m) \in Data
    OBVIOUS
  <1> QED
    BY DEF StoredIn, ImportedCopy, Media, Copies, EnvCopies

-----------------------------------------------------------------------------
(* The invariant: since a load without read errors RAM tracks the media *)

\* The write in progress goes to the copy not in use, with the next serial.
LEMMA SavingFacts ==
  ASSUME IInv, Calm, up, op.kind = "save"
  PROVE  /\ media \in Media /\ target \in Copies /\ op.data \in Data
         /\ env_flags \in Serials
         /\ CheckOf(media).ret = "OK" =>
              /\ CheckOf(media).valid = ValidOf(Other(target))
              /\ env_flags = Bump(ImportedFlags(media[Other(target)]))
         /\ Exported \in EnvCopies /\ Exported.fmt = "redund"
         /\ Exported.flags = env_flags /\ Exported.data = op.data
         /\ ValidOf(target) = IF env_valid = "ENV_VALID" THEN "ENV_REDUND" ELSE "ENV_VALID"
  <1>1. media \in Media /\ target \in Copies /\ op.data \in Data /\ env_flags \in Serials
    BY DEF IInv, TypeOK, Media
  <1>2. target = SaveTarget
    BY DEF IInv, RamTracksMedia
  <1>3. ASSUME CheckOf(media).ret = "OK"
        PROVE  /\ CheckOf(media).valid = ValidOf(Other(target))
               /\ env_flags = Bump(ImportedFlags(media[Other(target)]))
    <2>1. CheckOf(media).valid \in {"ENV_VALID", "ENV_REDUND"}
      BY <1>1, <1>3, CheckCases DEF check_serial
    <2>2. env_valid = CheckOf(media).valid /\ env_flags = Bump(ImportedFlags(media[InUse]))
      BY <1>3 DEF IInv, RamTracksMedia, Check
    <2> QED
      BY <1>2, <2>1, <2>2 DEF SaveTarget, ValidOf, Other, InUse, Check, ImportedCopy
  <1> QED
    BY <1>1, <1>2, <1>3 DEF Exported, EnvCopies, Formats, SaveTarget, ValidOf

\* A load that can read both copies leaves RAM in step with the media.
LEMMA LoadFacts ==
  ASSUME TypeOK, NEW v, NEW f, env_mmc_load(v, f), "read_error" \notin seen'
  PROVE  /\ env_valid' = Check.valid
         /\ Check.ret = "OK" => env_flags' = ImportedFlags(media[InUse])
  <1>1. \A w : env_check_redund(media, FALSE, FALSE, w) = Check
    BY DEF Check, CheckOf, env_check_redund
  <1> QED
    <2>1. PICK fail1 \in {FALSE, ReadErrors}, fail2 \in {FALSE, ReadErrors} :
            LET chk == env_check_redund(media, fail1, fail2, v)
                src == media[ImportedCopy(chk.valid)]
            IN /\ env_valid' = chk.valid
               /\ seen' = IF fail1 \/ fail2 THEN {"read_error"} ELSE {}
               /\ chk.ret = "OK" => env_flags' = ImportedFlags(src)
      BY DEF env_mmc_load
    <2>2. fail1 = FALSE /\ fail2 = FALSE
      BY <2>1
    <2> QED
      BY <1>1, <2>1, <2>2 DEF InUse

\* From each load that can read both copies until block I/O fails, the state in
\* RAM matches the media, across power failures, saves and erases, whatever
\* serials earlier failures left in the two copies.
THEOREM InvariantHolds == Spec => []IInv
<1>1. Init => IInv
  BY TypeInit DEF Init, IInv, EraseInOrder, RamTracksMedia, Idle, NoOp
<1>2. IInv /\ [Next]_vars => IInv'
  <2> SUFFICES ASSUME IInv, [Next]_vars PROVE IInv'
    OBVIOUS
  <2>t. TypeOK'
    BY TypeStep DEF IInv
  <2>0. media \in Media /\ media' \in Media /\ TypeOK
    BY <2>t DEF IInv, TypeOK, Media
  <2>u. (~up => Idle)'
    <3>1. CASE Boot \/ env_reload \/ env_set \/ DeviceUnusable \/ env_mmc_save
      BY <3>1 DEF Boot, env_reload, env_set, DeviceUnusable, env_mmc_save
    <3>2. CASE SaveDone \/ SaveFailed \/ EraseRedundant \/ PowerFail
      BY <3>2 DEF SaveDone, SaveFailed, EraseRedundant, PowerFail, Idle
    <3>3. CASE env_mmc_erase
      BY <3>3 DEF env_mmc_erase
    <3>5. CASE ErasePrimary
      BY <3>5 DEF ErasePrimary
    <3>4. CASE UNCHANGED vars
      BY <3>4 DEF IInv, vars, Idle
    <3> QED
      BY <3>1, <3>2, <3>3, <3>4, <3>5 DEF Next
  <2> SUFFICES ASSUME Calm' PROVE RamTracksMedia' /\ EraseInOrder'
    BY <2>t, <2>u DEF IInv
  <2>1. CASE Boot \/ env_reload
    <3>1. op = NoOp /\ media' = media /\ op' = op
      BY <2>1 DEF Boot, env_reload, IInv, Idle
    <3>2. Check.ret = "OK" => env_valid' = Check.valid /\ env_flags' = ImportedFlags(media[InUse])
      BY <2>0, <2>1, LoadFacts DEF Boot, env_reload, Calm
    <3> QED
      BY <3>1, <3>2 DEF EraseInOrder, RamTracksMedia, Check, InUse, NoOp
  <2>3. CASE env_set
    BY <2>3 DEF env_set, IInv, Calm, EraseInOrder, RamTracksMedia, Check, InUse, Idle, SaveTarget
  <2>4. CASE env_mmc_save
    BY <2>4 DEF env_mmc_save, IInv, Calm, EraseInOrder, RamTracksMedia, Check, InUse, Idle, NoOp, SaveTarget
  <2>5. CASE SaveDone
    <3>0. /\ Calm /\ up /\ op.kind = "save" /\ op' = NoOp
          /\ media' = [media EXCEPT ![target] = Exported]
      BY <2>5 DEF SaveDone, Calm
    <3>2. CheckOf(media') = [ret |-> "OK", valid |-> ValidOf(target)]
      BY <3>0, SavingFacts, WriteOther
    <3>3. env_valid' = ValidOf(target)
      BY <2>5, <3>0, SavingFacts DEF SaveDone
    <3>4. ImportedCopy(ValidOf(target)) = target /\ ImportedFlags(media'[target]) = env_flags
      BY <3>0, SavingFacts DEF ImportedCopy, ValidOf, Copies, ImportedFlags, Media
    <3>5. RamTracksMedia'
      BY <2>5, <3>2, <3>3, <3>4 DEF RamTracksMedia, SaveDone, Check, InUse, NoOp
    <3> QED
      BY <3>0, <3>5 DEF EraseInOrder, NoOp
  <2>6. CASE env_mmc_erase
    BY <2>6 DEF env_mmc_erase, EraseInOrder, RamTracksMedia, Idle, NoOp
  <2>7. CASE ErasePrimary
    <3>1. media' = [media EXCEPT ![0] = Torn]
      BY <2>7 DEF ErasePrimary, Erased, SeenAfter, Calm
    <3> QED
      BY <2>0, <2>7, <3>1
         DEF ErasePrimary, EraseInOrder, RamTracksMedia, Idle, NoOp, Media, Copies, Torn
  <2>11. CASE EraseRedundant
    <3>1. media' = [media EXCEPT ![1] = Torn] /\ Calm
      BY <2>11 DEF EraseRedundant, Erased, SeenAfter, Calm
    <3>2. ~IsGood(media', 0) /\ ~IsGood(media', 1) /\ media'[0].fmt = "bad"
      BY <2>0, <2>11, <3>1 DEF IInv, EraseInOrder, EraseRedundant, IsGood, Media, Copies, Torn
    <3>3. CheckOf(media').ret # "OK"
      BY <2>0, <3>2, CheckCases
    <3> QED
      BY <2>11, <3>3 DEF EraseRedundant, RamTracksMedia, EraseInOrder, Check, NoOp
  <2>8. CASE SaveFailed
    BY <2>8 DEF SaveFailed, Calm
  <2>9. CASE PowerFail
    BY <2>9 DEF PowerFail, RamTracksMedia, EraseInOrder, NoOp
  <2>12. CASE DeviceUnusable
    BY <2>12 DEF DeviceUnusable, IInv, Calm, RamTracksMedia, EraseInOrder, Check, InUse, Idle, NoOp
  <2>10. CASE UNCHANGED vars
    BY <2>10 DEF vars, IInv, Calm, RamTracksMedia, EraseInOrder, Check, InUse, Idle, SaveTarget
  <2> QED
    BY <2>1, <2>3, <2>4, <2>5, <2>6, <2>7, <2>8, <2>9, <2>10, <2>11, <2>12 DEF Next
<1> QED
  BY <1>1, <1>2, PTL DEF Spec

-----------------------------------------------------------------------------

\* Whatever a write in progress leaves behind, the device holds the old
\* environment or the new one.
LEMMA SavingStored ==
  ASSUME IInv, Calm, up, op.kind = "save"
  PROVE  /\ StoredIn([media EXCEPT ![target] = Torn]) = StoredIn(media)
         /\ StoredIn([media EXCEPT ![target] = Exported]) = op.data
         /\ \A c \in CutShort : StoredIn([media EXCEPT ![target] = c]) \in {StoredIn(media), op.data}
  <1>1. /\ StoredIn([media EXCEPT ![target] = Torn]) = StoredIn(media)
        /\ StoredIn([media EXCEPT ![target] = Exported]) = op.data
    BY SavingFacts, WriteOther
  <1>2. [media EXCEPT ![target] = media[target]] = media
    BY SavingFacts DEF Media
  <1> QED
    BY <1>1, <1>2 DEF CutShort

\* Every step taken while no block I/O has failed since the last load is a step
\* of the atomic register EnvStore, or changes nothing it speaks of.
LEMMA AtomicStep ==
  ASSUME IInv, IInv', Next, Calm
  PROVE  Store!Next \/ UNCHANGED Store!vars
  <2> USE DEF Stored
  <2>0. /\ media \in Media /\ media' \in Media /\ Stored \in Data /\ Stored' \in Data
        /\ op.kind \in {"none", "save", "erase"}
        /\ NoOp = Store!NoOp
        /\ env_htab \in Data
        /\ ret \in Store!Results /\ ret' \in Store!Results
        /\ up \in BOOLEAN /\ up' \in BOOLEAN
    BY StoredType DEF IInv, TypeOK, Media, NoOp, Store!NoOp, Store!Results
  <2>1. CASE media' = media /\ op' = op /\ op = NoOp
    BY <2>0, <2>1 DEF Store!Next, Store!Idling
  <2>2. CASE env_mmc_save
    BY <2>0, <2>2 DEF env_mmc_save, Idle, Store!Next, Store!StartSave
  <2>3. CASE SaveDone
    <3>0. up /\ op.kind = "save" /\ media' = [media EXCEPT ![target] = Exported]
      BY <2>3 DEF SaveDone
    <3>1. StoredIn(media') = op.data
      BY <3>0, SavingStored
    <3> QED
      BY <2>0, <2>3, <3>1 DEF SaveDone, Store!Next, Store!CompleteSave, Store!Report
  <2>4. CASE env_mmc_erase
    BY <2>0, <2>4 DEF env_mmc_erase, Idle, Store!Next, Store!StartErase
  <2>5. CASE ErasePrimary
    BY <2>0, <2>5 DEF ErasePrimary, Store!Next, Store!EraseInProgress
  <2>6. CASE EraseRedundant
    <3>1. PICK failed \in {FALSE, WriteErrors} :
            media' \in Erased(failed) /\ ret' = EraseResult(failed)
      BY <2>6 DEF EraseRedundant
    <3>2. CASE ret' = "ERR"
      BY <2>0, <2>6, <3>2 DEF EraseRedundant, Store!Next, Store!AbandonErase, Store!Report
    <3>3. CASE ret' = "OK"
      <4>1. media' = [media EXCEPT ![1] = Torn] /\ media[0].fmt = "bad"
        BY <2>6, <3>1, <3>3 DEF EraseRedundant, Erased, EraseResult, IInv, EraseInOrder
      <4>2. ~IsGood(media', 0) /\ ~IsGood(media', 1) /\ media'[0].fmt = "bad"
        BY <2>0, <4>1 DEF IsGood, Media, Copies, Torn
      <4>3. Stored' = DefaultEnv
        BY <2>0, <4>2, CheckCases DEF StoredIn
      <4> QED
        BY <2>0, <2>6, <3>3, <4>3 DEF EraseRedundant, Store!Next, Store!CompleteErase, Store!Report
    <3> QED
      BY <2>0, <3>2, <3>3 DEF Store!Results
  <2>7. CASE SaveFailed
    <3>1. Stored' \in {Stored, op.data}
      BY <2>7, SavingStored DEF SaveFailed
    <3> QED
      BY <2>0, <2>7, <3>1 DEF SaveFailed, Store!Next, Store!AbandonSave, Store!Report
  <2>8. CASE PowerFail
    <3>1. CASE op.kind = "save"
      <4>1. Stored' \in {Stored, op.data}
        BY <2>8, <3>1, SavingStored DEF PowerFail
      <4> QED
        BY <2>0, <2>8, <3>1, <4>1 DEF PowerFail, Store!Next, Store!AbandonSave, Store!Interrupted
    <3>2. CASE op.kind = "erase"
      BY <2>0, <2>8, <3>2 DEF PowerFail, Store!Next, Store!AbandonErase, Store!Interrupted
    <3>3. CASE op.kind = "none"
      BY <2>1, <2>8, <3>3 DEF PowerFail, IInv, TypeOK
    <3> QED
      BY <2>0, <3>1, <3>2, <3>3
  <2>9. CASE Boot \/ env_reload
    BY <2>1, <2>9 DEF Boot, env_reload, IInv, Idle
  <2>10. CASE env_set \/ DeviceUnusable
    BY <2>1, <2>10 DEF env_set, DeviceUnusable, Idle
  <2> QED
    BY <2>2, <2>3, <2>4, <2>5, <2>6, <2>7, <2>8, <2>9, <2>10 DEF Next

\* From each load that can read both copies, up to and including the first
\* command whose I/O fails, the redundant copies are a register that a save
\* replaces atomically, for every environment and every serial: a save that
\* reports success is what the next boot loads (env_mmc_save() and the serial
\* comparison of env_check_redund()).
THEOREM SavesAtomic == Spec => SavesAreAtomic
<1>1. IInv /\ IInv' /\ [Next]_vars => [Calm => Store!Next \/ UNCHANGED Store!vars]_vars
  BY AtomicStep
<1> QED
  BY <1>1, InvariantHolds, PTL DEF Spec, SavesAreAtomic

\* When block I/O never fails the redundant environment implements EnvStore as
\* a whole, wherever power fails.
THEOREM Refinement ==
  ASSUME WriteErrors = FALSE, ReadErrors = FALSE
  PROVE  Spec => Store!Spec
<1>1. Init => Store!Init /\ Calm
  <2> SUFFICES ASSUME Init PROVE Store!Init /\ Calm
    OBVIOUS
  <2>1. media \in Media
    BY TypeInit DEF TypeOK, Media
  <2> QED
    BY <2>1, StoredType DEF Init, Calm, Store!Init, Store!Results, Stored, NoOp, Store!NoOp
<1>2. Calm /\ [Next]_vars => Calm'
  <2> SUFFICES ASSUME Calm, [Next]_vars PROVE Calm'
    OBVIOUS
  <2>1. CASE Boot \/ env_reload
    BY <2>1 DEF Boot, env_reload, env_mmc_load, Calm
  <2>2. CASE ErasePrimary \/ EraseRedundant
    BY <2>2 DEF ErasePrimary, EraseRedundant, SeenAfter, Calm
  <2>3. CASE env_mmc_erase \/ SaveFailed
    BY <2>3 DEF env_mmc_erase, SaveFailed, Calm
  <2> QED
    BY <2>1, <2>2, <2>3 DEF Next, vars, PowerFail, env_set, DeviceUnusable, env_mmc_save, SaveDone, Calm
<1>3. IInv /\ IInv' /\ Calm /\ [Next]_vars => [Store!Next]_(Store!vars)
  <2> SUFFICES ASSUME IInv, IInv', Calm, [Next]_vars PROVE [Store!Next]_(Store!vars)
    OBVIOUS
  <2>1. CASE Next
    BY <2>1, AtomicStep
  <2>2. CASE UNCHANGED vars
    BY <2>2 DEF vars, Store!vars, Stored
  <2> QED
    BY <2>1, <2>2
<1> QED
  BY <1>1, <1>2, <1>3, InvariantHolds, PTL DEF Spec, Store!Spec

-----------------------------------------------------------------------------
(* The copy that is left when writes fail *)

\* A device whose copy c can be loaded by itself can be loaded.
LEMMA LoadableSuffices ==
  ASSUME NEW m \in Media,
         \/ IsGood(m, 0) \/ IsGood(m, 1)
         \/ Upgrade /\ m[0].fmt = "single"
  PROVE  CheckOf(m).ret = "OK"
  <1>1. CASE IsGood(m, 0) /\ IsGood(m, 1)
    BY <1>1, CheckCases
  <1>2. CASE ~(IsGood(m, 0) /\ IsGood(m, 1))
    BY <1>2, CheckCases
  <1> QED
    BY <1>1, <1>2

\* What env_check_redund() settles on is loadable.
LEMMA CheckedIsLoadable ==
  ASSUME TypeOK, Check.ret = "OK"
  PROVE  Check.valid \in {"ENV_VALID", "ENV_REDUND"} /\ Loadable(InUse)
  <1>0. media \in Media
    BY DEF TypeOK, Media
  <1>1. CASE Good(0) /\ Good(1)
    BY <1>0, <1>1, CheckCases DEF Check, InUse, ImportedCopy, Loadable, Good, IsGood, check_serial
  <1>2. CASE ~(Good(0) /\ Good(1))
    BY <1>0, <1>2, CheckCases DEF Check, InUse, ImportedCopy, Loadable, Good, IsGood
  <1> QED
    BY <1>1, <1>2

\* From each load that can read both copies until an erase, the copy that
\* gd->env_valid points at is loadable and the write in progress goes to the
\* other one, even when writes fail.
THEOREM BackupInvariant == Spec => [](TypeOK /\ BackupInv)
<1>1. Init => TypeOK /\ BackupInv
  BY TypeInit DEF Init, BackupInv, Idle, NoOp
<1>2. TypeOK /\ BackupInv /\ [Next]_vars => TypeOK' /\ BackupInv'
  <2> SUFFICES ASSUME TypeOK, BackupInv, [Next]_vars, TypeOK' PROVE BackupInv'
    BY TypeStep
  <2> USE DEF BackupInv
  <2>1. CASE Boot \/ env_reload
    <3>0. \E v \in {"ENV_INVALID", "ENV_VALID", "ENV_REDUND"}, f \in Serials : env_mmc_load(v, f)
      BY <2>1 DEF Boot, env_reload, TypeOK, Serials
    <3>1. UNCHANGED media /\ UNCHANGED op /\ op = NoOp
      BY <2>1 DEF Boot, env_reload, Idle
    <3>4. CASE "read_error" \in seen'
      BY <3>1, <3>4 DEF Idle, NoOp
    <3>2. CASE "read_error" \notin seen' /\ Check.ret = "OK"
      BY <3>0, <3>1, <3>2, LoadFacts, CheckedIsLoadable
         DEF Loadable, Good, InUse, ImportedCopy, Idle, NoOp
    <3>3. CASE "read_error" \notin seen' /\ Check.ret # "OK"
      <4>1. env_valid' = Check.valid /\ media \in Media
        BY <3>0, <3>3, LoadFacts DEF TypeOK, Media
      <4>2. ~IsGood(media, 0) /\ ~IsGood(media, 1)
        BY <3>3, <4>1, LoadableSuffices DEF Check
      <4>3. Check.valid = "ENV_INVALID"
        BY <3>3, <4>1, <4>2, CheckCases DEF Check
      <4> QED
        BY <3>1, <4>1, <4>3 DEF Idle, NoOp
    <3> QED
      BY <3>2, <3>3, <3>4
  <2>2. CASE env_set \/ DeviceUnusable \/ env_mmc_save
    BY <2>2 DEF env_set, DeviceUnusable, env_mmc_save, Loadable, Good, Idle, SaveTarget, NoOp
  <2>3. CASE SaveDone
    <3>1. /\ media' = [media EXCEPT ![target] = Exported] /\ target = SaveTarget
          /\ env_valid' = IF env_valid = "ENV_VALID" THEN "ENV_REDUND" ELSE "ENV_VALID"
      BY <2>3 DEF SaveDone
    <3>2. media'[target].fmt = "redund" /\ ImportedCopy(env_valid') = target
      BY <3>1 DEF TypeOK, Exported, ImportedCopy, SaveTarget
    <3> QED
      BY <2>3, <3>2 DEF SaveDone, Loadable, Good, Idle, NoOp
  <2>4. CASE SaveFailed
    <3>1. \E c : media' = [media EXCEPT ![target] = c]
      BY <2>4 DEF SaveFailed
    <3>2. env_valid # "ENV_INVALID" => media'[ImportedCopy(env_valid)] = media[ImportedCopy(env_valid)]
      BY <2>4, <3>1 DEF SaveFailed, TypeOK, Copies, ImportedCopy, SaveTarget
    <3>3. seen' \subseteq {"write_error"} => seen \subseteq {"write_error"}
      BY <2>4 DEF SaveFailed
    <3> QED
      BY <2>4, <3>2, <3>3 DEF SaveFailed, Loadable, Good, ImportedCopy, Idle, NoOp
  <2>5. CASE PowerFail
    BY <2>5 DEF PowerFail, Idle, NoOp
  <2>6. CASE env_mmc_erase
    BY <2>6 DEF env_mmc_erase, Idle
  <2>8. CASE ErasePrimary \/ EraseRedundant
    <3>0. up /\ op.kind = "erase"
      BY <2>8 DEF ErasePrimary, EraseRedundant
    <3>1. ~(seen \subseteq {"write_error"}) /\ up' /\ op' \in {op, NoOp}
      BY <2>8, <3>0 DEF ErasePrimary, EraseRedundant
    <3>2. seen \subseteq seen'
      BY <2>8 DEF ErasePrimary, EraseRedundant, SeenAfter
    <3> QED
      BY <3>0, <3>1, <3>2 DEF NoOp
  <2>7. CASE UNCHANGED vars
    BY <2>7 DEF vars, Loadable, Good, Idle, SaveTarget
  <2> QED
    BY <2>1, <2>2, <2>3, <2>4, <2>5, <2>6, <2>7, <2>8 DEF Next
<1> QED
  BY <1>1, <1>2, PTL DEF Spec

\* No save takes the last loadable copy away, for every environment and every
\* serial, whatever writes fail and wherever power fails, from a load that can
\* read both copies until an erase.
THEOREM BackupKept == Spec => ValidBackup
<1>1. TypeOK /\ TypeOK' /\ BackupInv /\ [Next]_vars =>
        [seen \subseteq {"write_error"} /\ env_valid # "ENV_INVALID" /\ Check.ret = "OK" => Check'.ret = "OK"]_vars
  <2> SUFFICES ASSUME TypeOK, TypeOK', BackupInv, Next,
                      seen \subseteq {"write_error"}, env_valid # "ENV_INVALID", Check.ret = "OK"
               PROVE  Check'.ret = "OK"
    OBVIOUS
  <2>1. CASE UNCHANGED media
    BY <2>1 DEF Check
  <2>2. CASE media' # media
    <3>1. up /\ op.kind = "save"
      BY <2>2 DEF Next, Boot, env_reload, PowerFail, env_set, DeviceUnusable, env_mmc_save,
                  SaveDone, SaveFailed, env_mmc_erase, ErasePrimary, EraseRedundant, BackupInv, TypeOK
    <3>2. \E c : media' = [media EXCEPT ![target] = c]
      BY <2>2, <3>1 DEF Next, Boot, env_reload, PowerFail, env_set, DeviceUnusable, env_mmc_save,
                  SaveDone, SaveFailed, env_mmc_erase, ErasePrimary, EraseRedundant
    <3>3. media'[ImportedCopy(env_valid)] = media[ImportedCopy(env_valid)]
      BY <3>1, <3>2 DEF BackupInv, TypeOK, Copies, ImportedCopy, SaveTarget
    <3>4. \/ IsGood(media', 0) \/ IsGood(media', 1)
          \/ Upgrade /\ media'[0].fmt = "single"
      BY <3>1, <3>3 DEF BackupInv, Loadable, Good, IsGood, ImportedCopy
    <3> QED
      BY <3>4, LoadableSuffices DEF TypeOK, Media, Check
  <2> QED
    BY <2>1, <2>2
<1>2. Spec => [](TypeOK /\ BackupInv)
  BY BackupInvariant
<1> QED
  BY <1>1, <1>2, PTL DEF Spec, ValidBackup

-----------------------------------------------------------------------------
(* What a successful erase leaves *)

\* "env erase" that returned success has invalidated both copies, whatever
\* reads, writes and erases fail, when both copies are in one partition
\* (env_mmc_erase() ORs the two results).
THEOREM EraseIsReported == Spec => SuccessfulEraseErases
<1>1. Init => TypeOK /\ EraseReported
  BY TypeInit DEF Init, EraseReported, NoOp, Idle
<1>2. TypeOK /\ EraseReported /\ [Next]_vars => TypeOK' /\ EraseReported'
  <2> SUFFICES ASSUME TypeOK, EraseReported, [Next]_vars PROVE EraseReported'
    BY TypeStep
  <2> USE DEF EraseReported, Idle, NoOp
  <2>1. CASE Boot \/ env_reload \/ env_set
    BY <2>1 DEF Boot, env_reload, env_set
  <2>2. CASE DeviceUnusable \/ env_mmc_save
    BY <2>2 DEF DeviceUnusable, env_mmc_save
  <2>7. CASE SaveDone \/ SaveFailed
    BY <2>7 DEF SaveDone, SaveFailed
  <2>8. CASE PowerFail
    BY <2>8 DEF PowerFail
  <2>3. CASE env_mmc_erase
    BY <2>3 DEF env_mmc_erase
  <2>4. CASE ErasePrimary
    <3>1. PICK failed \in {FALSE, WriteErrors} :
            media' \in Erased(failed) /\ ret' = IF failed THEN "ERR" ELSE "OK"
      BY <2>4 DEF ErasePrimary
    <3>2. CASE failed
      BY <2>4, <3>1, <3>2 DEF ErasePrimary
    <3>3. CASE ~failed
      BY <2>4, <3>1, <3>3 DEF ErasePrimary, Erased, Torn, TypeOK, Copies
    <3> QED
      BY <3>2, <3>3
  <2>5. CASE EraseRedundant
    BY <2>5 DEF EraseRedundant
  <2>6. CASE UNCHANGED vars
    BY <2>6 DEF vars
  <2> QED
    BY <2>1, <2>2, <2>3, <2>4, <2>5, <2>6, <2>7, <2>8 DEF Next
<1>3. TypeOK /\ TypeOK' /\ EraseReported /\ [Next]_vars =>
        [~BothHwparts /\ op.kind = "erase" /\ Idle' /\ up' /\ ret' = "OK" => Check'.ret # "OK"]_vars
  <2> SUFFICES ASSUME TypeOK, TypeOK', EraseReported, Next,
                      ~BothHwparts, op.kind = "erase", Idle', up', ret' = "OK"
               PROVE  Check'.ret # "OK"
    OBVIOUS
  <2>1. EraseRedundant
    <3>0. op # NoOp /\ op' = NoOp
      BY DEF Idle, NoOp
    <3>1. ~(Boot \/ env_reload \/ env_set \/ DeviceUnusable \/ env_mmc_save \/ env_mmc_erase)
      BY <3>0 DEF EraseReported, Boot, env_reload, env_set, DeviceUnusable, env_mmc_save,
                  env_mmc_erase, Idle
    <3>2. ~(SaveDone \/ SaveFailed)
      BY DEF SaveDone, SaveFailed
    <3>3. ~PowerFail
      BY DEF PowerFail
    <3>4. ~ErasePrimary
      BY <3>0 DEF ErasePrimary
    <3> QED
      BY <3>1, <3>2, <3>3, <3>4 DEF Next
  <2>2. media'[0].fmt = "bad" /\ media'[1].fmt = "bad"
    BY <2>1 DEF EraseRedundant, EraseResult, Erased, Torn, TypeOK, EraseReported, Copies
  <2>3. media' \in Media
    BY DEF TypeOK, Media
  <2> QED
    BY <2>2, <2>3, CheckCases DEF Check, IsGood
<1> QED
  BY <1>1, <1>2, <1>3, TypeCorrect, PTL DEF Spec, SuccessfulEraseErases
=============================================================================
