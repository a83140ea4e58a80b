SPECIFICATION KeySpec
CONSTANTS
  Keys = {k1, k2, k3}
  ActorOf <- MCActorOf
  Devices = {d1, d2}
  NoDevice = NoDevice
  Calls = {c1, c2}
  a = a
  b = b
  k1 = k1
  k2 = k2
  k3 = k3
  d1 = d1
  d2 = d2
  c1 = c1
  c2 = c2
SYMMETRY Symmetric
INVARIANT OneKeyPerHandset
PROPERTY LonePublishReplaces
