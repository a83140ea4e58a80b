SPECIFICATION FairSpec
CONSTANTS
  Messages = {m1}
  Occurrences <- OneSchedule
  ThreadOf <- InTheThread
  Leads = {a1, a2}
  Hosts = {h1, h2}
  MaxTime = 3
  MaxSetbacks = 1
  Threads = {t1}
  NoThread = NoThread
  NoActor = NoActor
  m1 = m1
  t1 = t1
  a1 = a1
  a2 = a2
  h1 = h1
  h2 = h2
PROPERTY ImplementsLog
PROPERTY SendsTheLatest
PROPERTY NothingMissed
