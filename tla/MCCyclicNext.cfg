\* The walk of cyclic_run() while its functions unregister each other.
SPECIFICATION Spec
CONSTANTS
  t1 = t1
  t2 = t2
  Main = main
  Threads = {t1, t2}
  GroupOf <- Groups
  Cyclics = {c1, c2}
  Nil = nil
  Poison = poison
INVARIANTS CursorInList
