------------------------------ MODULE EnvStore ------------------------------
(***************************************************************************)
(* What persistent environment storage promises to the "env save" and      *)
(* "env erase" commands: a single register.  A save that reports success   *)
(* has replaced the register, and an erase that does has cleared it; a     *)
(* save that reports an error, or that a power failure cuts short, has     *)
(* either replaced the register or left it alone.  Nothing else may change *)
(* it, apart from an erase in progress.                                    *)
(***************************************************************************)
CONSTANTS Data,        \* the possible contents of an environment
          DefaultEnv   \* the environment built into U-Boot

VARIABLES stored,      \* the environment the next boot will load
          op,          \* the command in progress
          up,          \* U-Boot is running
          ret          \* what the last command that ended returned

vars == <<stored, op, up, ret>>

NoOp == [kind |-> "none", data |-> DefaultEnv]
Results == {"OK", "ERR"}

Init ==
  /\ stored \in Data
  /\ op = NoOp
  /\ up = FALSE
  /\ ret \in Results

\* Between saves and erases: power-on, power failure, loading, and commands
\* that are refused before they do anything.
Idling ==
  /\ op = NoOp
  /\ up' \in BOOLEAN
  /\ ret' \in Results
  /\ UNCHANGED <<stored, op>>

StartSave ==
  /\ up /\ op = NoOp
  /\ \E d \in Data : op' = [kind |-> "save", data |-> d]
  /\ UNCHANGED <<stored, up, ret>>

\* The save takes effect before it returns.
TakeEffect ==
  /\ op.kind = "save"
  /\ stored' = op.data
  /\ UNCHANGED <<op, up, ret>>

\* A command ends and reports r, or power fails in the middle of it.
Report(r) == op' = NoOp /\ ret' = r /\ UNCHANGED up
Interrupted == op' = NoOp /\ up' = FALSE /\ UNCHANGED ret

CompleteSave ==
  /\ op.kind = "save"
  /\ stored' = op.data
  /\ Report("OK")

AbandonSave ==
  /\ op.kind = "save"
  /\ stored' \in {stored, op.data}
  /\ Report("ERR") \/ Interrupted

StartErase ==
  /\ up /\ op = NoOp
  /\ op' = [kind |-> "erase", data |-> DefaultEnv]
  /\ UNCHANGED <<stored, up, ret>>

\* An erase works through the copies one at a time, so an older environment
\* may surface before it is finished or when it is abandoned.
EraseInProgress ==
  /\ op.kind = "erase"
  /\ stored' \in Data
  /\ ret' \in Results
  /\ UNCHANGED <<op, up>>

CompleteErase ==
  /\ op.kind = "erase"
  /\ stored' = DefaultEnv
  /\ Report("OK")

AbandonErase ==
  /\ op.kind = "erase"
  /\ stored' \in Data
  /\ Report("ERR") \/ Interrupted

Next == \/ Idling
        \/ StartSave \/ TakeEffect \/ CompleteSave \/ AbandonSave
        \/ StartErase \/ EraseInProgress \/ CompleteErase \/ AbandonErase

Spec == Init /\ [][Next]_vars
=============================================================================
