SPECIFICATION FairPushSpec
CONSTANTS
  Recipients = {a1, a2}
  Endpoints = {e1, e2}
  Notices = {n1, n2}
  ActorOf <- OneEach
  Slots = 1
  NoRecipient = NoRecipient
  MaxIds = 3
  a1 = a1
  a2 = a2
  n1 = n1
  n2 = n2
INVARIANT PushTypeOK
INVARIANT SentToOwnBrowsers
INVARIANT AttemptsAccounted
PROPERTY DropsOnlyTheGone
PROPERTY DeliveriesEnd
CHECK_DEADLOCK FALSE
