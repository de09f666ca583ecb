SPECIFICATION FairSpec
CONSTANTS
  g = g
  a = a
  b = b
  c = c
  Files = {g, a, b, c}
  Makefiles <- TheGroupedCircle
  JobSlots = {1, 2}
  KeepGoing = {TRUE, FALSE}
  ShuffleModes = {"none"}
  OldTimes = {0, 1, 2}
  MayFail = {a, c}
INVARIANT RecipeAfterPrereqs
CHECK_DEADLOCK FALSE
