SPECIFICATION FairSpec
CONSTANTS
  g = g
  a = a
  b = b
  c = c
  Files = {g, a, b, c}
  Makefiles <- AllMakefiles
  JobSlots = {1, 2}
  KeepGoing = {TRUE, FALSE}
  ShuffleModes = {"none", "identity", "reverse", "random"}
  OldTimes = {0, 1, 2}
  MayFail = {a, c}
INVARIANTS MakeConsistent ExitStatusTruthful RecipeAfterPrereqs
PROPERTIES RecipeStartsInTurn MakeEnds
CHECK_DEADLOCK FALSE
