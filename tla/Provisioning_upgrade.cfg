SPECIFICATION FairSpec
CONSTANTS
  Servers = {s1, s2}
  ObjectCount = 2
  Columns = {chapter, member}
  ColumnsOf <- MCColumnsOf
  NoColumn = NoColumn
  Rows = {older}
  Caps = 3
  MaxFailures = 2
  MaxStarts = 4
  chapter = chapter
  member = member
INVARIANT ServedIsWhole
PROPERTY SomebodyServes
CHECK_DEADLOCK FALSE
