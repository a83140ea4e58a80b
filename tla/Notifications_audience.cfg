SPECIFICATION Spec
CONSTANTS
  Actors = {a1, a2}
  Calls = {c1, c2}
  overdue = overdue
  filed = filed
  nudge = nudge
  item = item
  survey = survey
  Events = {overdue, filed, nudge}
  Categories = {item, survey}
  CategoryOf <- MCCategoryOf
  Exempt = {survey}
  Unmutable = {filed}
  Capped = {overdue}
  CappedOnce = {nudge}
  Ids = {1, 2}
  Given = {1}
  PageLimit = 1
  NoActor = NoActor
  MaxRaises = 2
  MaxBegun = 3
  a1 = a1
  a2 = a2
  c1 = c1
  c2 = c2
SYMMETRY CallSymmetry
INVARIANT TypeOK
INVARIANT MuteIsHonoured
INVARIANT AudienceAccounted
INVARIANT FirstAcknowledgementStands
INVARIANT ReceiptsMissNobody
CHECK_DEADLOCK FALSE
