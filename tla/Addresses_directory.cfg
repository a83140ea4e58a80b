SPECIFICATION Spec
CONSTANTS
  Actors = {a1, a2}
  Indexes = {1}
  Hashes = {1, 2}
  Texts = {1, 2}
  Offers <- MCOffers
  Sheets <- MCSheets
  NoRun = NoRun
  Runs = {r1, r2}
  Calls = {c1, c2}
  Walkers = {NoActor}
  Limit = 1
  DayLength = 2
  Never = Never
  NoActor = NoActor
  MaxTime = 1
  MaxRows = 2
  a1 = a1
  a2 = a2
SYMMETRY RunSymmetry
INVARIANT StatementsAgree
INVARIANT OneSheet
INVARIANT PagesTile
PROPERTY RetiredForGood
CHECK_DEADLOCK FALSE
