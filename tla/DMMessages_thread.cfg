SPECIFICATION DMSpec
CONSTANTS
  Actors = {creator, b}
  Creator = creator
  Initial = {}
  NoActor = NoActor
  Readers = {creator, b}
  Messages = {m1}
  Emoji = {e1}
  NoEmoji = NoEmoji
  creator = creator
  b = b
  m1 = m1
  e1 = e1
INVARIANT ReadersWereActive
PROPERTY OnlyAdminsMoveOthers
PROPERTY UncrossedCallsHold
