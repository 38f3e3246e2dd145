----------------------------- MODULE EnvRedund ------------------------------
(***************************************************************************)
(* The redundant environment (CONFIG_ENV_REDUNDANT) kept on an MMC device. *)
(* Two copies, each with a CRC over its data and an 8-bit serial number,   *)
(* the flags byte.  env_mmc_save() writes the copy that is not in use,     *)
(* with a serial one above that of the copy in use; env_mmc_load() reads   *)
(* both and takes the newer valid one.  Power may fail at any point, and   *)
(* block I/O may fail while U-Boot keeps running.                          *)
(***************************************************************************)
EXTENDS Naturals

CONSTANTS Data,         \* the possible contents of an environment
          DefaultEnv,   \* default_environment[]
          FlagsMax,     \* largest serial; flags is an unsigned char, so 255
          WriteErrors,  \* blk_dwrite()/blk_derase() may report an error
          ReadErrors,   \* blk_dread() may report an error
          EraseEnv,     \* CONFIG_CMD_ERASEENV
          Upgrade,      \* CONFIG_ENV_REDUNDANT_UPGRADE
          BothHwparts   \* one copy in each eMMC boot partition

ASSUME DataAssumption == DefaultEnv \in Data
ASSUME FlagsAssumption == FlagsMax \in Nat /\ FlagsMax >= 2
ASSUME ConfigAssumption ==
  {WriteErrors, ReadErrors, EraseEnv, Upgrade, BothHwparts} \subseteq BOOLEAN

VARIABLES media,      \* the two copies on the device; 0 is the primary
          up,         \* U-Boot is running
          env_valid,  \* gd->env_valid
          env_flags,  \* serial of the environment loaded or last exported
          env_htab,   \* the environment in RAM
          op,         \* the env command in progress
          target,     \* the copy which the command in progress works on
          ret,        \* what the last command that ended returned
          seen        \* history: failed I/O and erases since the last load

vars == <<media, up, env_valid, env_flags, env_htab, op, target, ret, seen>>

Copies == {0, 1}
Serials == 0..FlagsMax

\* A copy as the CRC checks see it: "redund" passes the check of env_t,
\* "single" passes only that of env_single_t, "bad" passes neither.
Formats == {"redund", "single", "bad"}
EnvCopies == [fmt : Formats, flags : Serials, data : Data]
Torn == [fmt |-> "bad", flags |-> 0, data |-> DefaultEnv]

NoOp == [kind |-> "none", data |-> DefaultEnv]
Idle == op = NoOp

\* ++env_flags on an unsigned char
Bump(f) == IF f = FlagsMax THEN 0 ELSE f + 1

-----------------------------------------------------------------------------
(* Loading *)

\* Mutated form: the wrap from 255 to 0 is not recognised.
check_serial_nowrap(f1, f2) == IF f2 > f1 THEN "ENV_REDUND" ELSE "ENV_VALID"

\* env_check_redund() when both CRCs are good: choose by serial.
check_serial(f1, f2) ==
  IF f1 = FlagsMax /\ f2 = 0 THEN "ENV_REDUND"
  ELSE IF f2 = FlagsMax /\ f1 = 0 THEN "ENV_VALID"
  ELSE IF f2 > f1 THEN "ENV_REDUND"
  ELSE "ENV_VALID"

\* env_check_redund(): the return code, and the value it leaves in
\* gd->env_valid, whose previous value is `valid'.
env_check_redund(m, fail1, fail2, valid) ==
  LET ok1 == ~fail1 /\ m[0].fmt = "redund"
      ok2 == ~fail2 /\ m[1].fmt = "redund"
  IN CASE fail1 /\ fail2 -> [ret |-> "EIO", valid |-> valid]
       [] ~(fail1 /\ fail2) /\ ok1 /\ ok2 ->
            [ret |-> "OK", valid |-> check_serial(m[0].flags, m[1].flags)]
       [] ok1 /\ ~ok2 -> [ret |-> "OK", valid |-> "ENV_VALID"]
       [] ~ok1 /\ ok2 -> [ret |-> "OK", valid |-> "ENV_REDUND"]
       [] ~(fail1 /\ fail2) /\ ~ok1 /\ ~ok2 ->
            IF Upgrade /\ ~fail1 /\ m[0].fmt = "single"
            THEN [ret |-> "OK", valid |-> "ENV_VALID"]
            ELSE [ret |-> "ENOMSG", valid |-> "ENV_INVALID"]

\* The copy env_import_redund() imports once env_check_redund() is happy.
ImportedCopy(valid) == IF valid = "ENV_VALID" THEN 0 ELSE 1

\* The serial of that copy; upgrading a single copy sets it to 0.
ImportedFlags(c) == IF c.fmt = "single" THEN 0 ELSE c.flags

\* env_mmc_load_redundant(), entered with gd->env_valid = valid and the
\* static env_flags = flags: both copies are read, and a failure of any kind
\* puts the default environment in place.
env_mmc_load(valid, flags) ==
  \E fail1, fail2 \in {FALSE, ReadErrors} :
    LET chk == env_check_redund(media, fail1, fail2, valid)
        src == media[ImportedCopy(chk.valid)]
    IN /\ env_valid' = chk.valid
       /\ seen' = IF fail1 \/ fail2 THEN {"read_error"} ELSE {}
       /\ IF chk.ret = "OK"
          THEN /\ env_flags' = ImportedFlags(src)
               /\ env_htab' = src.data
               /\ ret' = "OK"
          ELSE /\ env_flags' = flags
               /\ env_htab' = DefaultEnv
               /\ ret' = "ERR"

\* Power-on: env_init() leaves ENV_VALID since the MMC driver has no init
\* method, then env_relocate() and env_load() load the environment.
Boot ==
  /\ ~up
  /\ up' = TRUE
  /\ env_mmc_load("ENV_VALID", 0)
  /\ UNCHANGED <<media, op, target>>

\* "env load" at run time
env_reload ==
  /\ up /\ Idle
  /\ env_mmc_load(env_valid, env_flags)
  /\ UNCHANGED <<media, up, op, target>>

-----------------------------------------------------------------------------
(* Changing, saving and erasing *)

\* "env set" and friends: the contents in RAM change.
env_set ==
  /\ up /\ Idle
  /\ \E d \in Data : env_htab' = d
  /\ UNCHANGED <<media, up, env_valid, env_flags, op, target, ret, seen>>

\* Mutated form: the copy in use is overwritten.
SaveTarget_inplace == IF env_valid = "ENV_REDUND" THEN 1 ELSE 0

\* The copy env_mmc_save() writes
SaveTarget == IF env_valid = "ENV_VALID" THEN 1 ELSE 0

\* init_mmc_for_env() finds no usable device: the command just fails.
DeviceUnusable ==
  /\ WriteErrors
  /\ up /\ Idle
  /\ ret' = "ERR"
  /\ UNCHANGED <<media, up, env_valid, env_flags, env_htab, op, target, seen>>

\* env_mmc_save() up to the write: env_export() takes a new serial whether or
\* not the write then succeeds.
env_mmc_save ==
  /\ up /\ Idle
  /\ env_flags' = Bump(env_flags)
  /\ op' = [kind |-> "save", data |-> env_htab]
  /\ target' = SaveTarget
  /\ UNCHANGED <<media, up, env_valid, env_htab, ret, seen>>

Exported == [fmt |-> "redund", flags |-> env_flags, data |-> op.data]

\* What a write cut short leaves in the copy it was writing
CutShort == {media[target], Torn, Exported}

\* write_env() succeeds: the copy written becomes the one in use.
SaveDone ==
  /\ up /\ op.kind = "save"
  /\ media' = [media EXCEPT ![target] = Exported]
  /\ env_valid' = IF env_valid = "ENV_VALID" THEN "ENV_REDUND" ELSE "ENV_VALID"
  /\ op' = NoOp
  /\ ret' = "OK"
  /\ UNCHANGED <<up, env_flags, env_htab, target, seen>>

\* write_env() fails: the command returns with gd->env_valid unchanged.
SaveFailed ==
  /\ WriteErrors
  /\ up /\ op.kind = "save"
  /\ \E c \in CutShort : media' = [media EXCEPT ![target] = c]
  /\ op' = NoOp
  /\ ret' = "ERR"
  /\ seen' = seen \cup {"write_error"}
  /\ UNCHANGED <<up, env_valid, env_flags, env_htab, target>>

\* env_mmc_erase() starts with the primary copy.
env_mmc_erase ==
  /\ EraseEnv
  /\ up /\ Idle
  /\ op' = [kind |-> "erase", data |-> DefaultEnv]
  /\ target' = 0
  /\ seen' = seen \cup {"erase"}
  /\ UNCHANGED <<media, up, env_valid, env_flags, env_htab, ret>>

\* What erasing one copy leaves on the device
Erased(failed) ==
  {[media EXCEPT ![target] = Torn]} \cup (IF failed THEN {media} ELSE {})
SeenAfter(failed) == IF failed THEN seen \cup {"write_error"} ELSE seen

\* Mutated form: the result of the first erase is forgotten.
EraseResult_last(failed) == IF failed THEN "ERR" ELSE "OK"

\* The return code after the redundant copy: the OR of both results, except
\* that switching to the other boot partition overwrites the first of them.
EraseResult(failed) ==
  IF failed \/ (ret = "ERR" /\ ~BothHwparts) THEN "ERR" ELSE "OK"

\* erase_env() on the primary copy; its result goes into ret.
ErasePrimary ==
  /\ up /\ op.kind = "erase" /\ target = 0
  /\ \E failed \in {FALSE, WriteErrors} :
       /\ media' \in Erased(failed)
       /\ ret' = IF failed THEN "ERR" ELSE "OK"
       /\ seen' = SeenAfter(failed)
  /\ target' = 1
  /\ UNCHANGED <<up, env_valid, env_flags, env_htab, op>>

\* erase_env() on the redundant copy, attempted whatever became of the first.
\* A failed switch to its boot partition is a failure that erases nothing.
EraseRedundant ==
  /\ up /\ op.kind = "erase" /\ target = 1
  /\ \E failed \in {FALSE, WriteErrors} :
       /\ media' \in Erased(failed)
       /\ ret' = EraseResult(failed)
       /\ seen' = SeenAfter(failed)
  /\ op' = NoOp
  /\ UNCHANGED <<up, env_valid, env_flags, env_htab, target>>

\* Power fails.  A write or an erase in progress is cut short.
PowerFail ==
  /\ up
  /\ up' = FALSE
  /\ CASE op.kind = "save" ->
            \E c \in CutShort : media' = [media EXCEPT ![target] = c]
       [] op.kind = "erase" -> media' \in Erased(TRUE)
       [] op.kind = "none" -> media' = media
  /\ op' = NoOp
  /\ UNCHANGED <<env_valid, env_flags, env_htab, target, ret, seen>>

-----------------------------------------------------------------------------

\* A new device: the redundant copy was never written, or both copies were
\* programmed from one image and so carry the same serial.
FactoryMedia ==
  {m \in [Copies -> EnvCopies] :
     \/ m[1] = Torn
     \/ m[0] = m[1] /\ m[0].fmt = "redund"}

Init ==
  /\ media \in FactoryMedia
  /\ up = FALSE
  /\ env_valid = "ENV_INVALID"
  /\ env_flags = 0
  /\ env_htab = DefaultEnv
  /\ op = NoOp
  /\ target = 0
  /\ ret = "OK"
  /\ seen = {}

Next ==
  \/ Boot \/ env_reload \/ PowerFail
  \/ env_set
  \/ DeviceUnusable
  \/ env_mmc_save \/ SaveDone \/ SaveFailed
  \/ env_mmc_erase \/ ErasePrimary \/ EraseRedundant

Spec == Init /\ [][Next]_vars

-----------------------------------------------------------------------------

TypeOK ==
  /\ media \in [Copies -> EnvCopies]
  /\ up \in BOOLEAN
  /\ env_valid \in {"ENV_INVALID", "ENV_VALID", "ENV_REDUND"}
  /\ env_flags \in Serials
  /\ env_htab \in Data
  /\ op \in [kind : {"none", "save", "erase"}, data : Data]
  /\ op.kind = "none" => op = NoOp
  /\ target \in Copies
  /\ ret \in {"OK", "ERR"}
  /\ seen \subseteq {"read_error", "write_error", "erase"}

\* What a boot that can read both copies of m finds
CheckOf(m) == env_check_redund(m, FALSE, FALSE, "ENV_VALID")
Check == CheckOf(media)

\* The environment such a boot loads
StoredIn(m) == IF CheckOf(m).ret = "OK"
               THEN m[ImportedCopy(CheckOf(m).valid)].data
               ELSE DefaultEnv
Stored == StoredIn(media)

\* No block I/O has failed during the last load or since.
Calm == seen \subseteq {"erase"}

\* From a load on, up to and including the first command whose I/O fails, the
\* storage behaves as the register of EnvStore: a save is atomic under power
\* failure and under its own failing write, one that reports success is what
\* the next boot loads, and an erase that reports success leaves the default
\* environment (env_mmc_save(), env_mmc_erase(), env_check_redund()).  A load
\* restores this whatever earlier failures left on the device.
Store == INSTANCE EnvStore WITH stored <- Stored
SavesAreAtomic == [][Calm => Store!Next \/ UNCHANGED Store!vars]_vars

\* "env erase" that returned success has left nothing to load, even when one
\* of the two erases fails and earlier commands failed too: the next boot
\* reports a bad CRC and uses the default environment (env_mmc_erase()).  Said
\* of two copies in one partition.
SuccessfulEraseErases ==
  [][~BothHwparts /\ op.kind = "erase" /\ Idle' /\ up' /\ ret' = "OK"
       => Check'.ret # "OK"]_vars

\* Once an environment was loaded from storage or saved there, no save takes
\* the last valid copy away, whatever writes fail and wherever power fails:
\* the copy env_mmc_save() overwrites is never the only loadable one.  Said of
\* the time since a load that could read both copies, up to an erase.
ValidBackup ==
  [][seen \subseteq {"write_error"} /\ env_valid # "ENV_INVALID" /\ Check.ret = "OK"
       => Check'.ret = "OK"]_vars

-----------------------------------------------------------------------------
(* The inductive invariants behind them *)

Good(c) == media[c].fmt = "redund"
InUse == ImportedCopy(Check.valid)

\* While U-Boot runs and no I/O has failed since the last load, gd->env_valid
\* and env_flags describe the copy the next boot would choose; during a save
\* env_flags is already one ahead and the write goes to the other copy.
RamTracksMedia ==
  /\ up /\ Idle /\ Check.ret = "OK" =>
       /\ env_valid = Check.valid
       /\ env_flags = ImportedFlags(media[InUse])
  /\ up /\ op.kind = "save" =>
       /\ target = SaveTarget
       /\ Check.ret = "OK" =>
            /\ env_valid = Check.valid
            /\ env_flags = Bump(ImportedFlags(media[InUse]))

\* An erase that has reached the redundant copy has invalidated the primary.
EraseInOrder == op.kind = "erase" /\ target = 1 => media[0].fmt = "bad"

\* What carries ValidBackup: the copy which gd->env_valid points at can be
\* loaded by itself, and a save in progress writes the other one.
Loadable(c) == Good(c) \/ (c = 0 /\ Upgrade /\ media[0].fmt = "single")
BackupInv ==
  /\ seen \subseteq {"write_error"} =>
       /\ up /\ env_valid # "ENV_INVALID" => Loadable(ImportedCopy(env_valid))
       /\ op.kind # "erase"
  /\ up /\ op.kind = "save" => target = SaveTarget
  /\ ~up => Idle

\* What carries SuccessfulEraseErases: ret is OK at the redundant copy only if
\* erasing the primary succeeded.
EraseReported ==
  /\ op.kind = "erase" /\ target = 1 /\ ret = "OK" => media[0].fmt = "bad"
  /\ ~up => Idle

IInv ==
  /\ TypeOK
  /\ Calm => RamTracksMedia /\ EraseInOrder
  /\ ~up => Idle
=============================================================================
