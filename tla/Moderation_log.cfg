SPECIFICATION Spec
CONSTANTS
  Messages = {m1}
  Actors = {author, b, c}
  AuthorOf <- ByAuthor
  NoActor = NoActor
  m1 = m1
  author = author
  b = b
  c = c
INVARIANT ActsTellTheRows
INVARIANT ReviewerIsNotRemover
