----------------------------- MODULE DeviceKeys -----------------------------
(***************************************************************************)
(* The public keys an actor's handsets publish, which a sender seals a     *)
(* direct message to.  A publish is three statements and no transaction:   *)
(* it writes its own row, reads the row back, and retires the other keys   *)
(* of the handset the row names; publishes of one actor run side by side,  *)
(* a key may be published again or from another handset, and a handset may *)
(* be signed out in between.                                               *)
(*                                                                         *)
(* The publishing session names the handset; a session of the phone flow   *)
(* names none (NoDevice).  A key stands for its row, actor_id and key_id.  *)
(***************************************************************************)
EXTENDS Naturals, FiniteSets

CONSTANTS
  Keys,       \* the rows there may be
  ActorOf,    \* key -> the actor it belongs to
  Devices,    \* the handsets
  NoDevice,   \* no handset
  Calls       \* the publishes that may run at the same time

ASSUME NoDeviceAssumption == NoDevice \notin Devices

VARIABLES
  row,       \* key -> its dm_device_key row, or Unpublished
  publish,   \* call -> the publish in flight
  halfway,   \* the keys whose last publish failed after its write (history)
  crowded    \* the calls that were not alone with their actor (history)

keyVars == <<row, publish, halfway, crowded>>

-----------------------------------------------------------------------------
\* device_id, and whether retired_at is NULL.
DeviceKey == [device: Devices \cup {NoDevice}, live: BOOLEAN]

Unpublished == [device |-> NoDevice, live |-> FALSE]

KeyCall ==
  [at: {"written", "read"}, key: Keys, device: Devices \cup {NoDevice}]
    \cup {[at |-> "idle"]}

NoPublish == [at |-> "idle"]

UnderWay(c) == publish[c].at # "idle"

\* The calls that publish for an actor.
Publishing(a) == {c \in Calls : UnderWay(c) /\ ActorOf[publish[c].key] = a}

\* LookupDeviceKeys: the keys a sender is given for an actor.
LookupDeviceKeys(a) == {k \in Keys : ActorOf[k] = a /\ row[k].live}

\* Those among them of one handset.
LiveOn(a, d) == {k \in LookupDeviceKeys(a) : row[k].device = d}

KeyTypeOK ==
  /\ row \in [Keys -> DeviceKey]
  /\ publish \in [Calls -> KeyCall]
  /\ halfway \subseteq Keys
  /\ crowded \subseteq Calls

KeyInit ==
  /\ row = [k \in Keys |-> Unpublished]
  /\ publish = [c \in Calls |-> NoPublish]
  /\ halfway = {}
  /\ crowded = {}

-----------------------------------------------------------------------------
(* PublishDeviceKey.                                                       *)

\* Mutant: retired_at is not among the columns a conflict updates.
PublishKey_StaysRetired(c, k, d) ==
  /\ ~UnderWay(c)
  /\ row' = [row EXCEPT ![k] = [device |-> d,
                               live |-> row[k] = Unpublished \/ row[k].live]]
  /\ publish' = [publish EXCEPT ![c] = [at |-> "written", key |-> k, device |-> d]]
  /\ halfway' = halfway \ {k}
  /\ LET others == Publishing(ActorOf[k])
     IN crowded' = IF others = {} THEN crowded \ {c}
                   ELSE crowded \cup others \cup {c}

\* The upsert on actor_id and key_id: the handset is the session's, and
\* retired_at is cleared.
PublishKey(c, k, d) ==
  /\ ~UnderWay(c)
  /\ row' = [row EXCEPT ![k] = [device |-> d, live |-> TRUE]]
  /\ publish' = [publish EXCEPT ![c] = [at |-> "written", key |-> k, device |-> d]]
  /\ halfway' = halfway \ {k}
  /\ LET others == Publishing(ActorOf[k])
     IN crowded' = IF others = {} THEN crowded \ {c}
                   ELSE crowded \cup others \cup {c}

\* The row as it is now: another publish of the key may have moved it.
ReadBack(c) ==
  /\ publish[c].at = "written"
  /\ publish' = [publish EXCEPT ![c] =
                   [at |-> "read", key |-> @.key, device |-> row[@.key].device]]
  /\ UNCHANGED <<row, halfway, crowded>>

\* Mutant: the keys of the other handsets.
Siblings_OtherHandsets(c) ==
  LookupDeviceKeys(ActorOf[publish[c].key])
    \ LiveOn(ActorOf[publish[c].key], publish[c].device)

\* The other live keys of the published row's actor and handset.
Siblings(c) ==
  LiveOn(ActorOf[publish[c].key], publish[c].device) \ {publish[c].key}

\* Its siblings are retired, unless it names no handset.
RetireSiblings(c) ==
  /\ publish[c].at = "read"
  /\ row' = IF publish[c].device = NoDevice THEN row
            ELSE [k \in Keys |-> IF k \in Siblings(c)
                                 THEN [row[k] EXCEPT !.live = FALSE]
                                 ELSE row[k]]
  /\ publish' = [publish EXCEPT ![c] = NoPublish]
  /\ UNCHANGED <<halfway, crowded>>

\* A statement fails, or the server dies: what was written stays.
Fail(c) ==
  /\ UnderWay(c)
  /\ publish' = [publish EXCEPT ![c] = NoPublish]
  /\ halfway' = halfway \cup {publish[c].key}
  /\ UNCHANGED <<row, crowded>>

-----------------------------------------------------------------------------
\* RetireDeviceKeysForDevice: whosever they are, the handset's live keys go.
RetireDevice(d) ==
  /\ row' = [k \in Keys |-> IF row[k].device = d
                            THEN [row[k] EXCEPT !.live = FALSE] ELSE row[k]]
  /\ crowded' = crowded \cup {c \in Calls : UnderWay(c)}
  /\ UNCHANGED <<publish, halfway>>

-----------------------------------------------------------------------------
KeyNext ==
  \/ \E c \in Calls :
       \/ \E k \in Keys, d \in Devices \cup {NoDevice} : PublishKey(c, k, d)
       \/ ReadBack(c)
       \/ RetireSiblings(c)
       \/ Fail(c)
  \/ \E d \in Devices : RetireDevice(d)

KeySpec == KeyInit /\ [][KeyNext]_keyVars

-----------------------------------------------------------------------------
(* A sender wraps to one key of a handset: two of its keys are live only   *)
(* while the publish of one of them is under way or after it failed half   *)
(* done, whatever publishes and moves of keys crossed each other.          *)
OneKeyPerHandset ==
  \A k, l \in Keys :
    /\ k # l /\ ActorOf[k] = ActorOf[l]
    /\ row[k].live /\ row[l].live
    /\ row[k].device = row[l].device /\ row[k].device # NoDevice
    => \E m \in {k, l} : \/ m \in halfway
                         \/ \E c \in Calls : UnderWay(c) /\ publish[c].key = m

(* A publish that was alone with its actor leaves its key the only one of  *)
(* its handset, and takes away no key of another handset or actor.         *)
LonePublishReplaces ==
  [][\A c \in Calls \ crowded : \A k \in Keys, d \in Devices \cup {NoDevice} :
       /\ publish[c].at = "read" /\ publish[c].key = k /\ row[k].device = d
       /\ ~UnderWay(c)' /\ halfway' = halfway
       => /\ k \in LookupDeviceKeys(ActorOf[k])'
          /\ d # NoDevice => LiveOn(ActorOf[k], d)' = {k}
          /\ \A l \in Keys : \/ row'[l] = row[l]
                             \/ ActorOf[l] = ActorOf[k] /\ row[l].device = d
    ]_keyVars
=============================================================================
