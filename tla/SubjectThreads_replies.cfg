SPECIFICATION FairSpec
CONSTANTS
  Actors = {a1, a2}
  Named = {a1, a2}
  Initially <- MemberFirst
  a1 = a1
  a2 = a2
  Muted = {}
  Group = Group
  NoActor = NoActor
  MaxPosts = 2
  MaxChanges = 1
  MaxCrashes = 1
INVARIANT OneThreadPerOwner
INVARIANT Confided
INVARIANT WhoIsTold
CHECK_DEADLOCK FALSE
PROPERTY ToldArePushed
