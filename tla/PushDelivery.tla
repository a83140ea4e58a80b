---------------------------- MODULE PushDelivery ----------------------------
(***************************************************************************)
(* Web Push: the browsers' subscriptions, and the background delivery of   *)
(* each notification raised.  A delivery waits for one of a few slots,     *)
(* lists its recipient's subscriptions once, and then sends to one after   *)
(* the other from that list, while subscriptions are taken over, replaced, *)
(* removed and dropped.                                                    *)
(*                                                                         *)
(* A push service that says an endpoint is gone never serves it again.     *)
(* The timeout of a delivery, counted from its slot, makes every later     *)
(* statement and send of it fail; it is left to chance when it strikes.    *)
(***************************************************************************)
EXTENDS Naturals, FiniteSets

CONSTANTS
  Recipients,   \* who subscribes, and whom notifications are for
  Endpoints,    \* the browsers' endpoints
  Notices,      \* the notifications that are raised
  ActorOf,      \* notification -> its recipient
  Slots,        \* how many deliveries send at a time
  NoRecipient,  \* nobody: no row holds the endpoint
  MaxIds        \* bound: the subscription ids that can be minted, 1 .. MaxIds

ASSUME ActorOfAssumption == ActorOf \in [Notices -> Recipients]
ASSUME SlotsAssumption == Slots \in Nat \ {0}
ASSUME NoRecipientAssumption == NoRecipient \notin Recipients
ASSUME MaxIdsAssumption == MaxIds \in Nat

VARIABLES
  subs,       \* endpoint -> its push_subscription row, or NoSub
  minted,     \* how many subscription ids were minted
  served,     \* the endpoints the push services still know
  job,        \* notification -> its delivery
  log,        \* the push_delivery rows
  reported,   \* the sends whose record failed, told to onFailure
  user,       \* endpoint -> who last subscribed with it (history)
  usedSince,  \* notification -> the endpoints its recipient used at some
              \* time since it was raised (history)
  sends       \* each send: notification, subscription, outcome (history)

browsers == <<subs, minted, served, user>>
pushVars == <<browsers, job, log, reported, usedSince, sends>>

-----------------------------------------------------------------------------
SubIds == 1 .. MaxIds

Subscription == [id: SubIds, owner: Recipients]
NoSub == [id |-> 0, owner |-> NoRecipient]

\* A delivery: its stage, and the subscriptions it listed and has yet to try.
Job == [at: {"none", "waiting", "listing", "sending", "done"},
        todo: SUBSET (Endpoints \X SubIds),
        late: BOOLEAN]                  \* the timeout has struck

NoJob == [at |-> "none", todo |-> {}, late |-> FALSE]

State == {"sent", "gone", "failed"}

Held(a) == {e \in Endpoints : subs[e].owner = a}

\* Mutant: the slot is not given back at the end.
SlotsTaken_NotFreed ==
  Cardinality({n \in Notices : job[n].at \in {"listing", "sending", "done"}})

SlotsTaken == Cardinality({n \in Notices : job[n].at \in {"listing", "sending"}})

PushTypeOK ==
  /\ subs \in [Endpoints -> Subscription \cup {NoSub}]
  /\ \A e, f \in Endpoints : subs[e].id = subs[f].id => e = f \/ subs[e] = NoSub
  /\ minted \in 0 .. MaxIds
  /\ served \subseteq Endpoints
  /\ job \in [Notices -> Job]
  /\ log \subseteq Notices \X SubIds \X State
  /\ reported \subseteq Notices \X SubIds
  /\ user \in [Endpoints -> Recipients \cup {NoRecipient}]
  /\ usedSince \in [Notices -> SUBSET Endpoints]
  /\ sends \subseteq Notices \X (Endpoints \X SubIds) \X State

PushInit ==
  /\ subs = [e \in Endpoints |-> NoSub]
  /\ minted = 0
  /\ served = Endpoints
  /\ job = [n \in Notices |-> NoJob]
  /\ log = {}
  /\ reported = {}
  /\ user = [e \in Endpoints |-> NoRecipient]
  /\ usedSince = [n \in Notices |-> {}]
  /\ sends = {}

\* Who uses what from now on, for the notifications already raised.
NoteUsers ==
  usedSince' = [n \in Notices |-> IF job'[n].at = "none" THEN {}
                ELSE usedSince[n] \cup
                     {e \in Endpoints : user'[e] = ActorOf[n]}]

-----------------------------------------------------------------------------
(* The browsers.                                                           *)

\* Mutant: the upsert replaces the keys and leaves the owner.
SubscribePush_KeepsOwner(a, e) ==
  /\ e \in served
  /\ minted < MaxIds
  /\ minted' = minted + 1
  /\ subs' = [subs EXCEPT ![e] = IF @ = NoSub THEN [id |-> minted', owner |-> a]
                                 ELSE @]
  /\ user' = [user EXCEPT ![e] = a]
  /\ UNCHANGED <<served, job, log, reported, sends>>
  /\ NoteUsers

\* SubscribePush's upsert: a new endpoint gets the minted id, one held
\* already keeps its id and passes to the caller.  A browser subscribes with
\* an endpoint its push service serves.
SubscribePush(a, e) ==
  /\ e \in served
  /\ minted < MaxIds
  /\ minted' = minted + 1
  /\ subs' = [subs EXCEPT ![e] = [id |-> IF @ = NoSub THEN minted' ELSE @.id,
                                  owner |-> a]]
  /\ user' = [user EXCEPT ![e] = a]
  /\ UNCHANGED <<served, job, log, reported, sends>>
  /\ NoteUsers

\* Mutant: the row stays, nobody's.
UnsubscribePush_KeepsRow(a, e) ==
  /\ subs[e].owner = a
  /\ subs' = [subs EXCEPT ![e].owner = NoRecipient]
  /\ user' = [user EXCEPT ![e] = NoRecipient]
  /\ UNCHANGED <<minted, served, job, log, reported, sends>>
  /\ NoteUsers

\* UnsubscribePush deletes the caller's own row.
UnsubscribePush(a, e) ==
  /\ subs[e].owner = a
  /\ subs' = [subs EXCEPT ![e] = NoSub]
  /\ user' = [user EXCEPT ![e] = NoRecipient]
  /\ UNCHANGED <<minted, served, job, log, reported, sends>>
  /\ NoteUsers

\* The push service forgets an endpoint.
Expire(e) ==
  /\ e \in served
  /\ served' = served \ {e}
  /\ UNCHANGED <<subs, minted, user, job, log, reported, usedSince, sends>>

-----------------------------------------------------------------------------
(* The delivery of one notification, a goroutine of its own.               *)

Advance(n, call) == job' = [job EXCEPT ![n] = call]

\* raised: counted in flight and started, whatever becomes of the caller.
OnRaised(n) ==
  /\ job[n].at = "none"
  /\ Advance(n, [NoJob EXCEPT !.at = "waiting"])
  /\ UNCHANGED <<browsers, log, reported, sends>>
  /\ NoteUsers

TakeSlot(n) ==
  /\ job[n].at = "waiting"
  /\ SlotsTaken < Slots
  /\ Advance(n, [job[n] EXCEPT !.at = "listing"])
  /\ UNCHANGED <<browsers, log, reported, usedSince, sends>>

\* The 30 seconds are over; a delivery in a slot goes on, and fails.
Timeout(n) ==
  /\ job[n].at \in {"listing", "sending"}
  /\ ~job[n].late
  /\ Advance(n, [job[n] EXCEPT !.late = TRUE])
  /\ UNCHANGED <<browsers, log, reported, usedSince, sends>>

\* With nothing left to try the goroutine ends, and frees its slot.
After(n, left) ==
  Advance(n, IF left = {} THEN [NoJob EXCEPT !.at = "done"]
             ELSE [job[n] EXCEPT !.at = "sending", !.todo = left])

\* ListPushSubscriptions of the recipient.
ListSubscriptions(n) ==
  /\ job[n].at = "listing"
  /\ ~job[n].late
  /\ After(n, {<<e, subs[e].id>> : e \in Held(ActorOf[n])})
  /\ UNCHANGED <<browsers, log, reported, usedSince, sends>>

\* The list cannot be had, the timeout having struck or the query failing.
ListFails(n) ==
  /\ job[n].at = "listing"
  /\ After(n, {})
  /\ UNCHANGED <<browsers, log, reported, usedSince, sends>>

\* Mutant: a record that fails is passed over in silence.
Record_Silently(n, s, state) ==
  /\ log' = IF job[n].late THEN log ELSE log \cup {<<n, s[2], state>>}
  /\ UNCHANGED reported

\* record: a row of the attempt, or a failure reported; no row once late.
Record(n, s, state) ==
  \/ /\ ~job[n].late
     /\ log' = log \cup {<<n, s[2], state>>}
     /\ UNCHANGED reported
  \/ /\ reported' = reported \cup {<<n, s[2]>>}
     /\ UNCHANGED log

\* Send: 404 and 410 are gone, 2xx is sent; any other answer, a redirect,
\* no answer or a timeout is a failure.
Answers(n, s) ==
  {"failed"} \cup (IF job[n].late THEN {}
                   ELSE IF s[1] \in served THEN {"sent"} ELSE {"gone"})

\* The outcome of a send, recorded, and on to the next.
Tried(n, s, state) ==
  /\ job[n].at = "sending" /\ s \in job[n].todo
  /\ state \in Answers(n, s)
  /\ sends' = sends \cup {<<n, s, state>>}
  /\ Record(n, s, state)
  /\ After(n, job[n].todo \ {s})

\* The push service takes the push of a listed subscription.
SendAccepted(n, s) ==
  /\ Tried(n, s, "sent")
  /\ UNCHANGED <<browsers, usedSince>>

\* Mutant: the subscriptions dropped are its recipient's.
Dropped_OfRecipient(n, s) ==
  [e \in Endpoints |-> IF subs[e].owner = ActorOf[n] THEN NoSub ELSE subs[e]]

\* DropPushSubscription deletes by the id listed.
Dropped(n, s) == [e \in Endpoints |-> IF subs[e].id = s[2] THEN NoSub ELSE subs[e]]

\* It answers that the endpoint is gone: the row is dropped, or the drop
\* fails and is reported.
SendGone(n, s) ==
  /\ Tried(n, s, "gone")
  /\ subs' \in {Dropped(n, s), subs}
  /\ UNCHANGED <<minted, served, user, usedSince>>

\* Anything else: refused, unreachable, or too late.  The row stays.
SendFailed(n, s) ==
  /\ Tried(n, s, "failed")
  /\ UNCHANGED <<browsers, usedSince>>

-----------------------------------------------------------------------------
Browser == \/ \E a \in Recipients, e \in Endpoints : SubscribePush(a, e)
           \/ \E a \in Recipients, e \in Endpoints : UnsubscribePush(a, e)
           \/ \E e \in Endpoints : Expire(e)

Deliver(n) == \/ TakeSlot(n)
              \/ ListSubscriptions(n) \/ ListFails(n)
              \/ \E s \in job[n].todo :
                   SendAccepted(n, s) \/ SendGone(n, s) \/ SendFailed(n, s)

PushNext ==
  \/ Browser
  \/ \E n \in Notices : OnRaised(n) \/ Deliver(n) \/ Timeout(n)

PushSpec == PushInit /\ [][PushNext]_pushVars

\* A goroutine that can go on does: the runtime schedules it, and whatever
\* it waits for, a push service or a statement, ends by the timeout.
FairPushSpec == PushSpec /\ \A n \in Notices : WF_pushVars(Deliver(n))

-----------------------------------------------------------------------------
(* A notification is sent only to browsers that its recipient used at      *)
(* some time since it was raised: the list a delivery works from may be    *)
(* stale by the length of that delivery, and no staler.                    *)
SentToOwnBrowsers ==
  \A n \in Notices : \A s \in Endpoints \X SubIds :
    <<n, s, "sent">> \in sends => s[1] \in usedSince[n]

(* The log of deliveries tells what was attempted and with what answer,    *)
(* and an attempt missing from it was reported to the host.                *)
AttemptsAccounted ==
  /\ \A t \in sends : \/ <<t[1], t[2][2], t[3]>> \in log
                         \/ <<t[1], t[2][2]>> \in reported
  /\ \A r \in log : \E e \in Endpoints : <<r[1], <<e, r[2]>>, r[3]>> \in sends

(* No delivery takes a working subscription away, its recipient's or       *)
(* anybody's: it drops a row only when the push service forgot its         *)
(* endpoint, though the row may have passed to somebody else meanwhile.    *)
DropsOnlyTheGone ==
  [][\A e \in served :
       job' # job /\ subs[e] # NoSub => subs'[e] = subs[e]]_pushVars

(* Every notification's delivery ends, whatever the push services do, and  *)
(* so DrainPushes returns: no slot is lost.                                *)
DeliveriesEnd == \A n \in Notices : job[n].at = "waiting" ~> job[n].at = "done"
=============================================================================
