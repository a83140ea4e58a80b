SPECIFICATION ReadSpec
CONSTANTS
  Authors = {a, b}
  Readers = {a}
  MaxPosts = 3
  MaxTime = 2
  a = a
  b = b
INVARIANT UnseenIsUnread
INVARIANT PollMissesOnlyOvertaken
INVARIANT ListingDated
INVARIANT ArchiveAnswersFirst
PROPERTY ReadStaysRead
