SPECIFICATION FairSpec
CONSTANTS
  Actors = {a1, a2}
  Labels = {l1}
  Threads = {t1, t2}
  Muted = {a2}
  NoActor = NoActor
  NoThread = NoThread
  NoLabel = NoLabel
  MaxHandovers = 1
  a1 = a1
  a2 = a2
  l1 = l1
  t1 = t1
  t2 = t2
INVARIANT DeclinedStaysAside
INVARIANT StartNeverReveals
INVARIANT ToldTruly
PROPERTY NeverTakenBack
PROPERTY CallsReturn
CHECK_DEADLOCK FALSE
