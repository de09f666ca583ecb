SPECIFICATION FairSpec
CONSTANTS
  root = root
  sub = sub
  j1 = j1
  j2 = j2
  k1 = k1
  k2 = k2
  none = none
  Makes = {root,sub}
  Root = root
  NoMake = none
  MayBeEmpty = {k2}
  Jobs = {j1,j2,k1,k2}
  Owner <- OwnerOf
  CommandLines <- Lines
  master_job_slots = 2
  PselectBuilds = {TRUE,FALSE}
  KeepGoing = {TRUE,FALSE}
  Loaded = TRUE
  SpawnFailures = 1
  Victims = {sub}
INVARIANTS TokensAccounted JobsAccounted
PROPERTY BuildEnds
CHECK_DEADLOCK FALSE
