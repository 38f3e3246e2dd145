\* Threads, a mutex and cyclic functions, all of them arbitrary programs.
SPECIFICATION FairSpec
CONSTANTS
  t1 = t1
  t2 = t2
  Main = main
  Threads = {t1, t2}
  GroupOf <- Groups
  Cyclics = {c1, c2}
  Nil = nil
  Poison = poison
INVARIANTS LiveThreadsListed GrpDoneIsExact MutexExclusion
PROPERTIES CyclicWalkIsSafe ThreadsFinish LockIsHandedOn DueIsServed
