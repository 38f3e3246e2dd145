-------------------------------- MODULE Sched --------------------------------
(***************************************************************************)
(* Cooperative threads (lib/uthread.c), their mutex, and the cyclic        *)
(* functions (common/cyclic.c) which schedule() runs before it yields.     *)
(* Threads interleave only where one calls uthread_schedule(), so each     *)
(* action is what the current thread does between two such calls.  Threads *)
(* and cyclic functions are nondeterministic programs over the API.        *)
(***************************************************************************)
EXTENDS Naturals, Sequences, FiniteSets

CONSTANTS Threads,      \* threads made by uthread_create(), each at most once
          Main,         \* main_thread
          GroupOf,      \* the thread group of each of them
          Cyclics,      \* the struct cyclic_info there are
          Nil,          \* the null pointer
          Poison        \* LIST_POISON1

AllThreads == Threads \cup {Main}

ASSUME ThreadAssumption ==
  /\ Main \notin Threads
  /\ IsFiniteSet(Threads)
  /\ Nil \notin Cyclics /\ Poison \notin Cyclics /\ Nil # Poison

VARIABLES ring,        \* the circular list of threads, starting with main_thread
          current,     \* the thread that has the CPU
          pc,          \* where each thread is; "done" is uthread.done
          mutex,       \* the state of a mutex
          owners,      \* the threads which believe that they own it
          cyclic_list, \* gd->cyclic_list, head first
          due,         \* the registered functions whose next_call has come
          running,     \* GD_FLG_CYCLIC_RUNNING
          iter         \* cyclic_run(): the entry at hand (pos) and the next (tmp)

threadvars == <<ring, current>>
mutexvars == <<mutex, owners>>
cyclicvars == <<cyclic_list, due, running, iter>>
vars == <<ring, current, pc, mutex, owners, cyclic_list, due, running, iter>>

InList(s) == {s[i] : i \in DOMAIN s}
PosOf(x, s) == CHOOSE i \in DOMAIN s : s[i] = x

\* A thread runs its own code ("run") or a cyclic function ("callback"); from
\* either it may be waiting for the mutex.
Code == {"run", "callback"}
InCode(t) == current = t /\ pc[t] \in Code
Waits(p) == CASE p \in {"run", "lock"} -> "lock" [] p \in {"callback", "cb_lock"} -> "cb_lock"
Returns(p) == CASE p \in {"run", "lock"} -> "run" [] p \in {"callback", "cb_lock"} -> "callback"
Waiting(t) == pc[t] \in {"lock", "cb_lock"}

-----------------------------------------------------------------------------
(* lib/uthread.c *)

\* The threads after position i that are not done
Ahead(i) == {k \in (i + 1)..Len(ring) : pc[ring[k]] # "done"}
IsFirst(k, S) == k \in S /\ \A j \in S : k <= j

\* Mutated form: the walk starts at the main thread.
uthread_schedule_main ==
  \/ /\ Ahead(1) = {}
     /\ ring' = <<Main>> /\ current' = Main
  \/ \E k \in Ahead(1) :
       /\ IsFirst(k, Ahead(1))
       /\ ring' = <<Main>> \o SubSeq(ring, k, Len(ring))
       /\ current' = ring[k]

\* Mutated form: a thread is unlinked before its done flag is looked at.
uthread_schedule_unlink ==
  LET i == PosOf(current, ring)
  IN \/ /\ Ahead(i) = {}
        /\ ring' = SubSeq(ring, 1, i) /\ current' = Main
     \/ \E k \in Ahead(i) :
          /\ IsFirst(k, Ahead(i))
          /\ ring' = SubSeq(ring, 1, i) \o SubSeq(ring, k + 1, Len(ring))
          /\ current' = ring[k]

\* Walk the list from the current thread, free the threads that are done and
\* switch to the first that is not.  The walk wraps around at the main thread,
\* which is never done.
uthread_schedule ==
  LET i == PosOf(current, ring)
  IN \/ /\ Ahead(i) = {}
        /\ ring' = SubSeq(ring, 1, i) /\ current' = Main
     \/ \E k \in Ahead(i) :
          /\ IsFirst(k, Ahead(i))
          /\ ring' = SubSeq(ring, 1, i) \o SubSeq(ring, k, Len(ring))
          /\ current' = ring[k]

\* A new thread goes right before the current one.
uthread_create(t) ==
  /\ pc[t] = "none" /\ InCode(current)
  /\ pc' = [pc EXCEPT ![t] = "run"]
  /\ LET i == PosOf(current, ring)
     IN ring' = IF i = 1 THEN Append(ring, t)
                ELSE SubSeq(ring, 1, i - 1) \o <<t>> \o SubSeq(ring, i, Len(ring))
  /\ UNCHANGED <<current, mutexvars, cyclicvars>>

\* The thread function returns: on to the main thread, wherever it yielded.
uthread_trampoline(t) ==
  /\ current = t /\ t # Main /\ pc[t] = "run" /\ t \notin owners
  /\ pc' = [pc EXCEPT ![t] = "done"]
  /\ current' = Main
  /\ UNCHANGED <<ring, mutexvars, cyclicvars>>

\* Mutated form: threads that are done count until they are freed.
uthread_grp_done_listed(g) == ~\E t \in InList(ring) \ {Main} : GroupOf[t] = g

uthread_grp_done(g) ==
  ~\E t \in InList(ring) \ {Main} : GroupOf[t] = g /\ pc[t] # "done"

\* Mutated form: the mutex is taken whatever its state.
uthread_mutex_lock_notest(t) ==
  /\ InCode(t) \/ (current = t /\ Waiting(t))
  /\ t \notin owners
  /\ mutex' = "LOCKED" /\ owners' = owners \cup {t}
  /\ pc' = [pc EXCEPT ![t] = Returns(@)]
  /\ UNCHANGED <<threadvars, cyclicvars>>

\* Mutated form: the loop waits without yielding.
uthread_mutex_lock_spin(t) ==
  /\ InCode(t) \/ (current = t /\ Waiting(t))
  /\ t \notin owners
  /\ \/ /\ mutex = "LOCKED"
        /\ pc' = [pc EXCEPT ![t] = Waits(@)]
        /\ UNCHANGED mutexvars
     \/ /\ mutex = "UNLOCKED"
        /\ mutex' = "LOCKED" /\ owners' = owners \cup {t}
        /\ pc' = [pc EXCEPT ![t] = Returns(@)]
  /\ UNCHANGED <<threadvars, cyclicvars>>

\* Call of uthread_mutex_lock() by a thread that does not own the mutex, and
\* each turn of its loop: yield, or take the mutex.
uthread_mutex_lock(t) ==
  /\ InCode(t) \/ (current = t /\ Waiting(t))
  /\ t \notin owners
  /\ \/ /\ mutex = "LOCKED"
        /\ pc' = [pc EXCEPT ![t] = Waits(@)]
        /\ uthread_schedule
        /\ UNCHANGED mutexvars
     \/ /\ mutex = "UNLOCKED"
        /\ mutex' = "LOCKED" /\ owners' = owners \cup {t}
        /\ pc' = [pc EXCEPT ![t] = Returns(@)]
        /\ UNCHANGED threadvars
  /\ UNCHANGED cyclicvars

uthread_mutex_trylock(t) ==
  /\ InCode(t) /\ t \notin owners
  /\ IF mutex = "UNLOCKED"
     THEN mutex' = "LOCKED" /\ owners' = owners \cup {t}
     ELSE UNCHANGED mutexvars
  /\ UNCHANGED <<threadvars, pc, cyclicvars>>

uthread_mutex_unlock(t) ==
  /\ InCode(t) /\ t \in owners
  /\ mutex' = "UNLOCKED"
  /\ owners' = owners \ {t}
  /\ UNCHANGED <<threadvars, pc, cyclicvars>>

\* A thread, or a cyclic function it runs, calls uthread_schedule().
yield(t) ==
  /\ InCode(t)
  /\ uthread_schedule
  /\ UNCHANGED <<pc, mutexvars, cyclicvars>>

-----------------------------------------------------------------------------
(* common/cyclic.c *)

First(s) == IF s = <<>> THEN Nil ELSE s[1]

\* The list node after c.  One that hlist_del() unlinked holds LIST_POISON1.
NextOf(c) ==
  LET i == PosOf(c, cyclic_list)
  IN IF c \notin InList(cyclic_list) THEN Poison
     ELSE IF i = Len(cyclic_list) THEN Nil ELSE cyclic_list[i + 1]

\* hlist_del(), for a node that is in the list
Unlinked(c) ==
  LET i == PosOf(c, cyclic_list)
  IN IF c \notin InList(cyclic_list) THEN cyclic_list
     ELSE SubSeq(cyclic_list, 1, i - 1) \o SubSeq(cyclic_list, i + 1, Len(cyclic_list))

\* Whatever code runs may register any function at any time, also one that is
\* in the list already.  next_call is zero then, so the function is due.
cyclic_register(c) ==
  /\ InCode(current)
  /\ cyclic_list' = <<c>> \o Unlinked(c)
  /\ due' = due \cup {c}
  /\ UNCHANGED <<threadvars, pc, mutexvars, running, iter>>

\* The same for unregistering.
cyclic_unregister(c) ==
  /\ InCode(current)
  /\ c \in InList(cyclic_list)
  /\ cyclic_list' = Unlinked(c)
  /\ due' = due \ {c}
  /\ UNCHANGED <<threadvars, pc, mutexvars, running, iter>>

cyclic_unregister_all ==
  /\ InCode(current)
  /\ cyclic_list' = <<>>
  /\ due' = {}
  /\ UNCHANGED <<threadvars, pc, mutexvars, running, iter>>

\* schedule() enters cyclic_run().  Where the list is empty or the functions
\* are running already, it just yields.
cyclic_run(t) ==
  /\ current = t /\ pc[t] = "run"
  /\ cyclic_list # <<>> /\ ~running
  /\ running' = TRUE
  /\ iter' = [pos |-> First(cyclic_list), tmp |-> Nil]
  /\ pc' = [pc EXCEPT ![t] = "loop"]
  /\ UNCHANGED <<threadvars, mutexvars, cyclic_list, due>>

\* Mutated form: the loop ends at the first entry that is not due.
cyclic_loop_break(t) ==
  /\ current = t /\ pc[t] = "loop" /\ iter.pos \in Cyclics
  /\ IF iter.pos \in due
     THEN /\ due' = due \ {iter.pos}
          /\ iter' = [iter EXCEPT !.tmp = NextOf(iter.pos)]
          /\ pc' = [pc EXCEPT ![t] = "callback"]
     ELSE /\ iter' = [pos |-> Nil, tmp |-> Nil]
          /\ UNCHANGED <<due, pc>>
  /\ UNCHANGED <<threadvars, mutexvars, cyclic_list, running>>

\* The loop body: call the function when its time has come.  An entry that is
\* no longer in the list is called all the same, by its old next_call.
cyclic_loop(t) ==
  /\ current = t /\ pc[t] = "loop" /\ iter.pos \in Cyclics
  /\ \/ /\ iter.pos \in due \/ iter.pos \notin InList(cyclic_list)
        /\ due' = due \ {iter.pos}
        /\ iter' = [iter EXCEPT !.tmp = NextOf(iter.pos)]
        /\ pc' = [pc EXCEPT ![t] = "callback"]
     \/ /\ iter.pos \notin due
        /\ iter' = [pos |-> NextOf(iter.pos), tmp |-> Nil]
        /\ UNCHANGED <<due, pc>>
  /\ UNCHANGED <<threadvars, mutexvars, cyclic_list, running>>

\* Mutated form: the next entry is read only after the function returned.
callback_return_unsafe(t) ==
  /\ current = t /\ pc[t] = "callback"
  /\ iter' = [pos |-> IF iter.pos \in InList(cyclic_list) THEN NextOf(iter.pos) ELSE iter.pos,
              tmp |-> Nil]
  /\ pc' = [pc EXCEPT ![t] = "loop"]
  /\ UNCHANGED <<threadvars, mutexvars, cyclic_list, due, running>>

\* The cyclic function returns; on to the entry that followed it.
callback_return(t) ==
  /\ current = t /\ pc[t] = "callback"
  /\ iter' = [pos |-> iter.tmp, tmp |-> Nil]
  /\ pc' = [pc EXCEPT ![t] = "loop"]
  /\ UNCHANGED <<threadvars, mutexvars, cyclic_list, due, running>>

\* End of cyclic_run(), then schedule() yields.
schedule(t) ==
  /\ current = t /\ pc[t] = "loop" /\ iter.pos = Nil
  /\ running' = FALSE
  /\ pc' = [pc EXCEPT ![t] = "run"]
  /\ uthread_schedule
  /\ UNCHANGED <<mutexvars, cyclic_list, due, iter>>

\* The walk follows LIST_POISON1: the CPU takes an exception and U-Boot hangs.
cyclic_fault ==
  /\ pc[current] = "loop" /\ iter.pos = Poison
  /\ UNCHANGED vars

\* Time passes: next_call of a registered function is reached.
TimePasses(c) ==
  /\ c \in InList(cyclic_list) \ due
  /\ due' = due \cup {c}
  /\ UNCHANGED <<threadvars, pc, mutexvars, cyclic_list, running, iter>>

-----------------------------------------------------------------------------

Init ==
  /\ ring = <<Main>>
  /\ current = Main
  /\ pc = [t \in AllThreads |-> IF t = Main THEN "run" ELSE "none"]
  /\ mutex = "UNLOCKED"
  /\ owners = {}
  /\ cyclic_list = <<>>
  /\ due = {}
  /\ running = FALSE
  /\ iter = [pos |-> Nil, tmp |-> Nil]

Next ==
  \/ \E t \in Threads : uthread_create(t) \/ uthread_trampoline(t)
  \/ \E t \in AllThreads :
       \/ uthread_mutex_lock(t) \/ uthread_mutex_trylock(t) \/ uthread_mutex_unlock(t)
       \/ yield(t)
       \/ cyclic_run(t) \/ cyclic_loop(t) \/ callback_return(t) \/ schedule(t)
  \/ \E c \in Cyclics : cyclic_register(c) \/ cyclic_unregister(c) \/ TimePasses(c)
  \/ cyclic_unregister_all \/ cyclic_fault

\* The code of threads runs on and yields in the end, functions of threads and
\* cyclic functions return, the owner of the mutex releases it, and the main
\* thread goes on calling schedule().  At any time at most one thread can take
\* a step of each kind, so fairness for all threads together is enough.
Fairness ==
  /\ WF_vars(\E t \in AllThreads :
               \/ Waiting(t) /\ uthread_mutex_lock(t)
               \/ cyclic_loop(t) \/ schedule(t)
               \/ pc[t] = "run" /\ yield(t))
  /\ SF_vars(\E t \in AllThreads : callback_return(t))
  /\ SF_vars(\E t \in AllThreads : uthread_mutex_unlock(t))
  /\ \A t \in Threads : SF_vars(uthread_trampoline(t))
  /\ SF_vars(cyclic_run(Main))

Spec == Init /\ [][Next]_vars
FairSpec == Spec /\ Fairness

-----------------------------------------------------------------------------

TypeOK ==
  /\ ring \in Seq(AllThreads)
  /\ current \in AllThreads
  /\ pc \in [AllThreads -> {"none", "run", "lock", "loop", "callback", "cb_lock", "done"}]
  /\ mutex \in {"UNLOCKED", "LOCKED"}
  /\ owners \subseteq AllThreads
  /\ cyclic_list \in Seq(Cyclics)
  /\ due \subseteq Cyclics
  /\ running \in BOOLEAN
  /\ iter \in [pos : Cyclics \cup {Nil, Poison}, tmp : Cyclics \cup {Nil, Poison}]

\* Each thread is in the list once, starting with the main thread, and a
\* thread whose function has not returned is never taken out of it, so that
\* it gets the CPU again and its stack is not freed under it.
LiveThreadsListed ==
  /\ ring[1] = Main
  /\ \A i, j \in DOMAIN ring : ring[i] = ring[j] => i = j
  /\ InList(ring) \subseteq {t \in AllThreads : pc[t] # "none"}
  /\ {t \in AllThreads : pc[t] \notin {"none", "done"}} \subseteq InList(ring)
  /\ pc[current] \notin {"none", "done"} /\ pc[Main] # "done"

\* uthread_grp_done() tells whether the functions of all threads created in
\* the group have returned, freed or not ("false if the group contains at
\* least one runnable thread", uthread.h).
GrpDoneIsExact ==
  \A t \in Threads :
    uthread_grp_done(GroupOf[t])
      <=> \A u \in Threads : GroupOf[u] = GroupOf[t] => pc[u] \in {"none", "done"}

\* A mutex has at most one owner, and is locked exactly while it has one.
MutexExclusion ==
  /\ \A t, u \in owners : t = u
  /\ mutex = "LOCKED" <=> owners # {}

\* At most one thread is inside cyclic_run(), also while a cyclic function
\* has yielded to other threads; GD_FLG_CYCLIC_RUNNING says so.
InCyclicRun(t) == pc[t] \in {"loop", "callback", "cb_lock"}
CyclicRunIsExclusive ==
  /\ \A t, u \in AllThreads : InCyclicRun(t) /\ InCyclicRun(u) => t = u
  /\ running <=> \E t \in AllThreads : InCyclicRun(t)

\* cyclic_run() is at, or will go on with, an entry that is in the list:
\* functions can be registered and unregistered at any time (cyclic.rst).
CursorInList ==
  \A t \in AllThreads :
    /\ pc[t] = "loop" => iter.pos \in InList(cyclic_list) \cup {Nil}
    /\ pc[t] \in {"callback", "cb_lock"} => iter.tmp \in InList(cyclic_list) \cup {Nil}

\* cyclic_run() is never entered twice, and the one thing that makes its walk
\* leave the list is to unregister the entry that comes next, by itself or with
\* all others, while a cyclic function is being called.  Unregistering any
\* other, registering new ones, registering the next one again, and yielding
\* from the function to threads that do all that, are harmless.
CyclicWalkIsSafe ==
  [][/\ CyclicRunIsExclusive'
     /\ CursorInList =>
          CursorInList' \/ cyclic_unregister(iter.tmp) \/ cyclic_unregister_all]_vars

\* Walks of the list end, as they do unless one follows LIST_POISON1 or the
\* functions called keep registering each other again.
WalksEnd == []<>~running

\* Every thread that is created runs to its end and is freed, unless it waits
\* for the mutex, or holds it, for ever.
WithoutMutex(t) == pc[t] \in {"run", "done"} /\ t \notin owners
ThreadsFinish ==
  \A t \in Threads :
    WalksEnd /\ []<>WithoutMutex(t) => (t \in InList(ring) ~> t \notin InList(ring))

\* A thread that waits for the mutex for ever does so because others keep
\* taking and releasing it: waiting never keeps the owner from running
\* (uthread_mutex_lock() yields in its loop).
LockIsHandedOn ==
  \A t \in AllThreads :
    []<>~(pc[current] \in {"loop", "callback"}) /\ <>[]Waiting(t)
      => []<>(mutex = "UNLOCKED") /\ []<>(mutex = "LOCKED")

\* A cyclic function whose time has come is called, or unregistered, unless it
\* is registered anew again and again.
DueIsServed ==
  \A c \in Cyclics :
    WalksEnd /\ <>[][~cyclic_register(c)]_vars
      => (c \in due ~> c \notin due)

-----------------------------------------------------------------------------
(* The inductive invariant behind the safety properties *)

\* No cyclic function is registered twice.
CyclicListOK ==
  \A i, j \in DOMAIN cyclic_list : cyclic_list[i] = cyclic_list[j] => i = j

\* cyclic_run() itself does not yield; only the functions that it calls do.
LoopHasTheCPU == \A t \in AllThreads : pc[t] = "loop" => t = current

IInv ==
  /\ TypeOK
  /\ LiveThreadsListed
  /\ MutexExclusion
  /\ CyclicRunIsExclusive
  /\ CyclicListOK
  /\ LoopHasTheCPU
=============================================================================
