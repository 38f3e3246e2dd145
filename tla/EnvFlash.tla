------------------------------ MODULE EnvFlash ------------------------------
(***************************************************************************)
(* The redundant environment on memory-mapped NOR flash (env/flash.c with  *)
(* CONFIG_ENV_ADDR_REDUND).  Each of the two copies has a sector of its    *)
(* own and a flags byte, which programming can only clear bits of: erased  *)
(* 0xFF, then ACTIVE, then OBSOLETE.  A save erases and writes the copy    *)
(* not in use and only then marks the other one obsolete; a boot chooses   *)
(* by CRC and flags, and finishes what an interrupted save left undone.    *)
(* Power may fail at any point and every flash operation may fail.         *)
(***************************************************************************)
EXTENDS Naturals

CONSTANTS Data,         \* the possible contents of an environment
          DefaultEnv,   \* default_environment[]
          FlagValues,   \* the values of the flags byte that can be found
          FlashErrors,  \* flash_sect_erase(), flash_write()... may fail
          CmdEnvLoad    \* CONFIG_CMD_NVEDIT_LOAD, the "env load" command

ENV_REDUND_OBSOLETE == 0
ENV_REDUND_ACTIVE == 1
FLAG_ERASED == 255

ASSUME DataAssumption == DefaultEnv \in Data
ASSUME FlagsAssumption ==
  /\ FlagValues \subseteq 0..255
  /\ {ENV_REDUND_OBSOLETE, ENV_REDUND_ACTIVE, FLAG_ERASED} \subseteq FlagValues
ASSUME ConfigAssumption == {FlashErrors, CmdEnvLoad} \subseteq BOOLEAN

VARIABLES flash,       \* the two copies; 0 is at CONFIG_ENV_ADDR
          flash_addr,  \* the copy in use; flash_addr_new is the other one
          env_addr,    \* gd->env_addr: the copy env_flash_init() chose
          env_htab,    \* the environment in RAM
          env_new,     \* the exported environment of the save in progress
          pc,          \* what U-Boot is about to do
          ret,         \* what the last env command returned
          seen         \* history: what went wrong since power-on

vars == <<flash, flash_addr, env_addr, env_htab, env_new, pc, ret, seen>>

Copies == {0, 1}
Other(c) == 1 - c
FlashCopies == [crc_ok : BOOLEAN, flags : FlagValues, data : Data]

Blank == [crc_ok |-> FALSE, flags |-> FLAG_ERASED, data |-> DefaultEnv]
Exported == [crc_ok |-> TRUE, flags |-> ENV_REDUND_ACTIVE, data |-> env_new]

\* Programming the flags byte of copy c
WithFlag(c, f) == [flash EXCEPT ![c].flags = f]

-----------------------------------------------------------------------------
(* Choosing and loading *)

\* env_flash_init(), and env_init() around it: the copy gd->env_addr is set
\* to, or 2 for default_environment.  A good CRC decides; two good copies are
\* told apart by their flags, and a pair of flags no save leaves behind goes
\* to the primary copy.
env_flash_init(m) ==
  LET f1 == m[0].flags
      f2 == m[1].flags
  IN CASE ~m[0].crc_ok /\ ~m[1].crc_ok -> 2
       [] m[0].crc_ok /\ ~m[1].crc_ok -> 0
       [] ~m[0].crc_ok /\ m[1].crc_ok -> 1
       [] m[0].crc_ok /\ m[1].crc_ok ->
            IF \/ f1 = ENV_REDUND_OBSOLETE /\ f2 = ENV_REDUND_ACTIVE
               \/ /\ f2 = FLAG_ERASED
                  /\ f1 # FLAG_ERASED
            THEN 1 ELSE 0

\* Entering env_flash_load(): the pointers are swapped unless flash_addr is
\* the copy that env_flash_init() chose.
LoadFrom(addr, chosen) == IF chosen # addr THEN Other(addr) ELSE addr

\* Power-on: flash_addr has its initial value.
Boot ==
  /\ pc = "off"
  /\ env_addr' = env_flash_init(flash)
  /\ flash_addr' = LoadFrom(0, env_flash_init(flash))
  /\ pc' = "ld_obsolete"
  /\ seen' = {}
  /\ UNCHANGED <<flash, env_htab, env_new, ret>>

\* "env load" at run time.  gd->env_addr is still what it was at power-on; a
\* save has moved flash_addr since.
env_reload ==
  /\ CmdEnvLoad
  /\ pc = "idle"
  /\ flash_addr' = LoadFrom(flash_addr, env_addr)
  /\ pc' = "ld_obsolete"
  /\ seen' = seen \cup (IF env_addr # flash_addr THEN {"stale_reload"} ELSE {})
  /\ UNCHANGED <<flash, env_addr, env_htab, env_new, ret>>

\* A write of a flag that is not needed, or that fails, leaves flash alone;
\* env_flash_load() ignores the result.
MarkFlag(c, needed, f) ==
  \/ /\ flash' = IF needed THEN WithFlag(c, f) ELSE flash
     /\ UNCHANGED seen
  \/ /\ needed /\ FlashErrors
     /\ seen' = seen \cup {"flash_error"}
     /\ UNCHANGED flash

\* Mutated form: the other copy is left as it was found.
LoadMarksObsolete_never ==
  /\ pc = "ld_obsolete"
  /\ MarkFlag(Other(flash_addr), FALSE, ENV_REDUND_OBSOLETE)
  /\ pc' = "ld_active"
  /\ UNCHANGED <<flash_addr, env_addr, env_htab, env_new, ret>>

\* env_flash_load(): a second good copy not marked obsolete is now.
LoadMarksObsolete ==
  /\ pc = "ld_obsolete"
  /\ MarkFlag(Other(flash_addr),
              /\ flash[Other(flash_addr)].flags # ENV_REDUND_OBSOLETE
              /\ flash[Other(flash_addr)].crc_ok,
              ENV_REDUND_OBSOLETE)
  /\ pc' = "ld_active"
  /\ UNCHANGED <<flash_addr, env_addr, env_htab, env_new, ret>>

\* env_flash_load(): the flag of the copy in use becomes ACTIVE, if clearing
\* bits can make it so.
LoadMarksActive ==
  /\ pc = "ld_active"
  /\ MarkFlag(flash_addr,
              /\ flash[flash_addr].flags # ENV_REDUND_ACTIVE
              /\ flash[flash_addr].flags % 2 = ENV_REDUND_ACTIVE,
              ENV_REDUND_ACTIVE)
  /\ pc' = "import"
  /\ UNCHANGED <<flash_addr, env_addr, env_htab, env_new, ret>>

\* env_import() with its own CRC check
env_import ==
  /\ pc = "import"
  /\ IF flash[flash_addr].crc_ok
     THEN env_htab' = flash[flash_addr].data /\ ret' = "OK"
     ELSE env_htab' = DefaultEnv /\ ret' = "ERR"
  /\ pc' = "idle"
  /\ UNCHANGED <<flash, flash_addr, env_addr, env_new, seen>>

-----------------------------------------------------------------------------
(* Saving *)

\* "env set" and friends
env_set ==
  /\ pc = "idle"
  /\ \E d \in Data : env_htab' = d
  /\ UNCHANGED <<flash, flash_addr, env_addr, env_new, pc, ret, seen>>

\* The sectors cannot be unprotected: the save fails before it did anything.
SaveRefused ==
  /\ FlashErrors
  /\ pc = "idle"
  /\ ret' = "ERR"
  /\ UNCHANGED <<flash, flash_addr, env_addr, env_htab, env_new, pc, seen>>

\* env_flash_save() up to the erase
env_flash_save ==
  /\ pc = "idle"
  /\ env_new' = env_htab
  /\ pc' = "erase"
  /\ UNCHANGED <<flash, flash_addr, env_addr, env_htab, ret, seen>>

\* Mutated form: the sector of the copy in use.
SaveSector_inuse == flash_addr

\* The sector which a save erases and writes
SaveSector == Other(flash_addr)

\* A save in progress ends with result r after a failure of the flash.
SaveFails(r) ==
  /\ FlashErrors
  /\ pc' = "idle"
  /\ ret' = r
  /\ seen' = seen \cup {"flash_error"}
  /\ UNCHANGED <<flash_addr, env_addr, env_htab, env_new>>

SaveGoesOn(next) ==
  /\ pc' = next
  /\ UNCHANGED <<flash_addr, env_addr, env_htab, env_new, ret, seen>>

\* What an erase or a write that does not run to its end leaves
EraseCutShort == {flash, [flash EXCEPT ![SaveSector] = Blank]}
WriteCutShort ==
  {flash, [flash EXCEPT ![SaveSector] = Exported],
   [flash EXCEPT ![SaveSector] = [Exported EXCEPT !.flags = FLAG_ERASED]]}

\* flash_sect_erase().  When it fails, or there is no memory to keep the rest
\* of the sector, rc is still the 0 of env_export().
SaveErase ==
  /\ pc = "erase"
  /\ \/ /\ flash' = [flash EXCEPT ![SaveSector] = Blank]
        /\ SaveGoesOn("write")
     \/ flash' \in EraseCutShort /\ SaveFails("OK")

SaveWrite ==
  /\ pc = "write"
  /\ \/ /\ flash' = [flash EXCEPT ![SaveSector] = Exported]
        /\ SaveGoesOn("obsolete")
     \/ flash' \in WriteCutShort /\ SaveFails("ERR")

\* Mutated form: the copy that was in use stays active.
SaveMarksObsolete_skip ==
  /\ pc = "obsolete"
  /\ UNCHANGED flash
  /\ SaveGoesOn("restore")

\* The copy that was in use becomes obsolete.
SaveMarksObsolete ==
  /\ pc = "obsolete"
  /\ \/ /\ flash' = WithFlag(flash_addr, ENV_REDUND_OBSOLETE)
        /\ SaveGoesOn("restore")
     \/ UNCHANGED flash /\ SaveFails("ERR")

\* The rest of the sector is written back and the pointers are swapped; if
\* that write fails they are not, and rc is 0 here too.
SaveEnds ==
  /\ pc = "restore"
  /\ \/ /\ flash_addr' = Other(flash_addr)
        /\ pc' = "idle"
        /\ ret' = "OK"
        /\ UNCHANGED <<env_addr, env_htab, env_new, seen>>
     \/ SaveFails("OK")
  /\ UNCHANGED flash

\* Power fails.  Programming one byte happens or does not; an erase or the
\* write of a copy may stop half-way.
PowerFail ==
  /\ pc # "off"
  /\ CASE pc = "erase" -> flash' \in EraseCutShort
       [] pc = "write" -> flash' \in WriteCutShort
       [] pc \notin {"erase", "write"} -> UNCHANGED flash
  /\ pc' = "off"
  /\ UNCHANGED <<flash_addr, env_addr, env_htab, env_new, ret, seen>>

-----------------------------------------------------------------------------

\* Flash as another tool, or U-Boot, or bits that flipped may have left it
Init ==
  /\ flash \in [Copies -> {c \in FlashCopies : ~c.crc_ok => c = Blank}]
  /\ flash_addr = 0
  /\ env_addr = 2
  /\ env_htab = DefaultEnv
  /\ env_new = DefaultEnv
  /\ pc = "off"
  /\ ret = "OK"
  /\ seen = {}

Next ==
  \/ Boot \/ env_reload \/ LoadMarksObsolete \/ LoadMarksActive \/ env_import
  \/ env_set
  \/ SaveRefused \/ env_flash_save
  \/ SaveErase \/ SaveWrite \/ SaveMarksObsolete \/ SaveEnds
  \/ PowerFail

Spec == Init /\ [][Next]_vars

-----------------------------------------------------------------------------

SaveSteps == {"erase", "write", "obsolete", "restore"}

TypeOK ==
  /\ flash \in [Copies -> FlashCopies]
  /\ flash_addr \in Copies
  /\ env_addr \in {0, 1, 2}
  /\ env_htab \in Data
  /\ env_new \in Data
  /\ pc \in {"off", "idle", "ld_obsolete", "ld_active", "import"} \cup SaveSteps
  /\ ret \in {"OK", "ERR"}
  /\ seen \subseteq {"flash_error", "stale_reload"}

\* The environment that the next boot loads
StoredIn(m) ==
  IF env_flash_init(m) = 2 THEN DefaultEnv ELSE m[env_flash_init(m)].data
Stored == StoredIn(flash)

InProgress ==
  IF pc \in SaveSteps THEN [kind |-> "save", data |-> env_new]
  ELSE [kind |-> "none", data |-> DefaultEnv]

Store == INSTANCE EnvStore WITH stored <- Stored, op <- InProgress, up <- pc # "off"

\* Since a power-on after which no flash operation failed and no stale
\* pointer was followed, the two sectors behave as the register of EnvStore:
\* power failing in any step of env_flash_save(), or of the repairs in
\* env_flash_load(), leaves the old environment or the new one, a save that
\* returns 0 has stored the new one, and loading never changes which.
SavesAreAtomic ==
  [][seen' = {} => Store!Next \/ UNCHANGED Store!vars]_vars

\* A save that ran to its end and returned 0 is what the next boot loads
\* (env_flash_save() writes, then obsoletes; env_flash_init() chooses).
SuccessfulSaveIsStored ==
  [][seen' = {} /\ pc \in SaveSteps /\ pc' = "idle" /\ ret' = "OK"
       => Stored' = env_new]_vars

\* What a load puts in RAM is what the next boot would load (env_flash_load()
\* and env_flash_init()), as long as no flash operation failed.
LoadsWhatIsStored ==
  [][pc = "import" /\ pc' = "idle" /\ seen \subseteq {"stale_reload"}
       => env_htab' = Stored']_vars

\* Once a boot has found an environment, a copy that can be loaded remains,
\* whatever flash operations fail and wherever power fails: a save never
\* erases the last one (env_flash_save() and the pointers it keeps).
Loadable == env_flash_init(flash) # 2
KeepsABackup ==
  [][Loadable /\ env_addr # 2 /\ "stale_reload" \notin seen' => Loadable']_vars

-----------------------------------------------------------------------------
(* What the two pointers and the flags have to do with each other *)

\* The copy that was found at power-on, or saved since, is good, and so is the
\* other one when the pointers are about to be swapped.  Failing operations do
\* not change that.
BackupInv ==
  /\ pc \in {"obsolete", "restore"} => flash[Other(flash_addr)].crc_ok
  /\ pc # "off" /\ env_addr # 2 /\ "stale_reload" \notin seen => flash[flash_addr].crc_ok

\* Up to the write of the new copy, flash_addr is the copy the next boot would
\* choose; the first repair of a load leaves no second copy to choose from, and
\* the flags change hands in the order that makes the new copy win in the end.
ChoiceInv ==
  pc # "off" /\ seen = {} =>
    /\ pc \notin {"obsolete", "restore"} /\ Loadable => env_flash_init(flash) = flash_addr
    /\ pc = "ld_active" =>
         \/ ~flash[Other(flash_addr)].crc_ok
         \/ flash[Other(flash_addr)].flags = ENV_REDUND_OBSOLETE
    /\ pc \in {"obsolete", "restore"} => flash[Other(flash_addr)] = Exported
    /\ pc = "restore" => flash[flash_addr].flags = ENV_REDUND_OBSOLETE
=============================================================================
