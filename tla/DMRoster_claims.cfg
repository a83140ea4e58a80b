SPECIFICATION Spec
CONSTANTS
  Actors = {creator, b, c}
  Creator = creator
  Initial = {b}
  NoActor = NoActor
  creator = creator
  b = b
  c = c
INVARIANT ClaimsAreExclusive
