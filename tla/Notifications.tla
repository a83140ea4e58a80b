---------------------------- MODULE Notifications ----------------------------
(***************************************************************************)
(* The notifications about one record: raising them to everybody the host  *)
(* names behind it, the recipients' mutes, their acknowledgements, and the *)
(* sender's walk through the receipts.                                     *)
(*                                                                         *)
(* RaiseToAudience is a loop of ordinary raises, each of them a read of    *)
(* the mute and an insert, with nothing to bind them: another call or a    *)
(* change of preference may come between any two statements.  A call with  *)
(* its result at hand rests at an answer point, so that what it answers    *)
(* can be held against all that happens before the caller has it.          *)
(*                                                                         *)
(* The read marks, the read-back of SetPreference and the receipts' filter *)
(* by event are left out.  The delivery of what is handed to Web Push is   *)
(* the module PushDelivery's.                                              *)
(***************************************************************************)
EXTENDS Naturals, FiniteSets

CONSTANTS
  Actors,        \* the recipients, by id
  Calls,         \* the handlers that may run at once
  Events,        \* the events raised about it, with the structure they name
  Categories,    \* the notification categories
  CategoryOf,    \* event -> its category
  Exempt,        \* the categories nobody can mute: survey and security
  Unmutable,     \* the events that reach whoever muted their category
  Capped,        \* the events with a cap for each recipient: items_overdue
                 \* and survey_reminder
  CappedOnce,    \* those with one for the structure: survey_nudge
  Ids,           \* the ids a row may have, bound: how many are raised
  Given,         \* those that a template may carry itself
  PageLimit,     \* the receipts on one page
  NoActor,
  MaxRaises,     \* bound: how many raises are begun, the retries included
  MaxBegun       \* bound: how many calls are begun in all

ASSUME CategoryAssumption == CategoryOf \in [Events -> Categories]
ASSUME ExemptAssumption == Exempt \subseteq Categories
ASSUME EventsAssumption ==
  Events # {} /\ Unmutable \cup Capped \cup CappedOnce \subseteq Events
ASSUME IdsAssumption == Ids \subseteq Nat \ {0} /\ Given \subseteq Ids
ASSUME NoActorAssumption == NoActor \notin Actors
ASSUME LimitsAssumption == {MaxRaises, MaxBegun} \subseteq Nat
ASSUME PageLimitAssumption == PageLimit \in Nat \ {0}

VARIABLES
  note,       \* id -> the row, or NoNote
  ack,        \* id -> which acknowledgement of it is stored, 0 for none
  muted,      \* the preferences that say muted: actor and category
  pushed,     \* the ids of the rows handed to Web Push
  op,         \* handler -> the call it is in
  walk,       \* the sender's walk through the pages of receipts
  raises,     \* how many raises were begun
  begun       \* how many calls were begun: raises, changes of a
              \* preference and acknowledgements

rows == <<note, ack, muted, pushed>>
counts == <<raises, begun>>
vars == <<rows, op, walk, counts>>

-----------------------------------------------------------------------------
Note == [actor: Actors, event: Events]
NoNote == [actor |-> NoActor]
Raised == {i \in Ids : note[i] # NoNote}
Acknowledged == {i \in Ids : ack[i] # 0}

Call == [at: {"idle", "ask", "insert", "push", "answer",
              "ackInsert", "ackReread", "ackAnswer"},
         event: Events,
         given: Given \cup {0},     \* the id the template carries, if any
         resolved: SUBSET Actors,   \* whom the host named behind the record
         todo: SUBSET Actors,       \* the recipients still to come
         actor: Actors \cup {NoActor},
         id: Ids \cup {0},          \* the row just inserted, or acknowledged
         raised: SUBSET Ids,        \* AudienceRaise.Raised
         quiet: SUBSET Actors,      \* AudienceRaise.Missed, as muted
         spent: SUBSET Actors,      \* AudienceRaise.Missed, as capped
         serial: 0 .. MaxBegun,     \* the acknowledgement tried or answered
         always: SUBSET Actors,     \* muted all through the call (history)
         ever: SUBSET Actors]       \* muted at some time in it (history)

Idle == [at |-> "idle", event |-> CHOOSE e \in Events : TRUE, given |-> 0,
         resolved |-> {}, todo |-> {}, actor |-> NoActor, id |-> 0,
         raised |-> {}, quiet |-> {}, spent |-> {}, serial |-> 0,
         always |-> {}, ever |-> {}]

Walk == [at: {"idle", "sent", "acks", "done"},
         after: Ids \cup {0},
         page: SUBSET Ids,
         seen: SUBSET Ids,          \* the receipts had so far
         seenAck: SUBSET Ids,       \* those of them with acknowledged_at
         due: SUBSET Ids,           \* raised when the walk began (history)
         dueAck: SUBSET Ids]        \* acknowledged when it began (history)

TypeOK ==
  /\ note \in [Ids -> Note \cup {NoNote}]
  /\ ack \in [Ids -> 0 .. MaxBegun]
  /\ muted \subseteq Actors \X (Categories \ Exempt)
  /\ Acknowledged \cup pushed \subseteq Raised
  /\ op \in [Calls -> Call]
  /\ walk \in Walk
  /\ raises \in 0 .. MaxRaises
  /\ begun \in 0 .. MaxBegun

Init ==
  /\ note = [i \in Ids |-> NoNote]
  /\ ack = [i \in Ids |-> 0]
  /\ muted \in SUBSET (Actors \X (Categories \ Exempt))
  /\ pushed = {}
  /\ op = [c \in Calls |-> Idle]
  /\ walk = [at |-> "idle", after |-> 0, page |-> {}, seen |-> {},
             seenAck |-> {}, due |-> {}, dueAck |-> {}]
  /\ raises = 0
  /\ begun = 0

Goto(c, call) == op' = [op EXCEPT ![c] = call]

-----------------------------------------------------------------------------
(* RaiseToAudience, and the Raise of each recipient.                       *)

MutedFor(e) == {a \in Actors : <<a, CategoryOf[e]>> \in muted}

\* audienceOf: the names without blanks and repeats, in the host's order,
\* which is any.  A single Raise is that of an audience of one.  The template
\* may carry an id, which nothing refuses.
StartRaise(c, e, audience, given) ==
  /\ op[c].at = "idle"
  /\ raises < MaxRaises /\ begun < MaxBegun
  /\ audience # {}
  /\ raises' = raises + 1 /\ begun' = begun + 1
  /\ Goto(c, [Idle EXCEPT !.at = "ask", !.event = e, !.given = given,
                          !.resolved = audience, !.todo = audience,
                          !.always = MutedFor(e), !.ever = MutedFor(e)])
  /\ UNCHANGED <<rows, walk>>

\* The rest of the loop: on to the next recipient, or the answer.
Onward(c, call) ==
  Goto(c, [call EXCEPT !.at = IF call.todo = {} THEN "answer" ELSE "ask",
                       !.actor = NoActor, !.id = 0])

\* Mutant: the loop ends at the first recipient who is missed.
Miss_Break(c, call) ==
  Goto(c, [call EXCEPT !.at = "answer", !.actor = NoActor, !.id = 0])

\* A recipient who muted the category or whose cap is spent is missed.
Miss(c, call) == Onward(c, call)

\* Mutant: the preference is not asked.
Reaches_Always(e, a) == TRUE

\* refuseIfMuted.
Reaches(e, a) == e \in Unmutable \/ <<a, CategoryOf[e]>> \notin muted

AskMuted(c) ==
  /\ op[c].at = "ask"
  /\ \E a \in op[c].todo :
       LET call == [op[c] EXCEPT !.todo = @ \ {a}, !.actor = a] IN
       IF Reaches(call.event, a)
       THEN Goto(c, [call EXCEPT !.at = "insert"])
       ELSE Miss(c, [call EXCEPT !.quiet = @ \cup {a}])
  /\ UNCHANGED <<rows, walk, counts>>

\* The three partial unique indexes, for the one subject of this module.
CapSpent(e, a) ==
  \E i \in Raised : /\ note[i].event = e
                    /\ \/ e \in Capped /\ note[i].actor = a
                       \/ e \in CappedOnce

\* classifyNotificationWrite: every unique index tells of a spent cap, that of
\* the primary key too.
Refused(call) == CapSpent(call.event, call.actor) \/ call.given \in Raised

\* The id of the row: the template's, to every recipient, or a new one.
RowIds(call) == IF call.given # 0 THEN {call.given} ELSE Ids \ Raised

InsertNote(c) ==
  /\ op[c].at = "insert"
  /\ IF Refused(op[c])
     THEN /\ Miss(c, [op[c] EXCEPT !.spent = @ \cup {op[c].actor}])
          /\ UNCHANGED note
     ELSE \E i \in RowIds(op[c]) :
            /\ note' = [note EXCEPT ![i] = [actor |-> op[c].actor,
                                            event |-> op[c].event]]
            /\ Goto(c, [op[c] EXCEPT !.at = "push", !.id = i])
  /\ UNCHANGED <<ack, muted, pushed, walk, counts>>

\* onRaised, and RaiseToAudience's entry in Raised.
HandToPush(c) ==
  /\ op[c].at = "push"
  /\ pushed' = pushed \cup {op[c].id}
  /\ Onward(c, [op[c] EXCEPT !.raised = @ \cup {op[c].id}])
  /\ UNCHANGED <<note, ack, muted, walk, counts>>

-----------------------------------------------------------------------------
(* SetPreference: one upsert of the actor's row for the category.          *)

\* What a change of the preference does to the calls' history.
Witness(a, k, m) ==
  op' = [c \in Calls |->
          IF op[c].at \notin {"ask", "insert", "push"} \/ CategoryOf[op[c].event] # k THEN op[c]
          ELSE [op[c] EXCEPT !.always = IF m THEN @ ELSE @ \ {a},
                             !.ever = IF m THEN @ \cup {a} ELSE @]]

\* Mutant: an exempt category is muted as any other.
MayMute_Any(k) == TRUE

\* NotificationPreference.Validate.
MayMute(k) == k \notin Exempt

SetPreference(a, k, m) ==
  /\ begun < MaxBegun
  /\ MayMute(k)
  /\ begun' = begun + 1
  /\ muted' = IF m THEN muted \cup {<<a, k>>} ELSE muted \ {<<a, k>>}
  /\ Witness(a, k, m)
  /\ UNCHANGED <<note, ack, pushed, walk, raises>>

-----------------------------------------------------------------------------
(* AcknowledgeNotification.  A row never changes its recipient, so reading *)
(* it and looking for its acknowledgement are one step.                    *)

AckRead(c, a, i) ==
  /\ op[c].at = "idle"
  /\ begun < MaxBegun
  /\ note[i].actor = a
  /\ begun' = begun + 1
  /\ LET call == [Idle EXCEPT !.id = i, !.actor = a] IN
     IF ack[i] # 0
     THEN Goto(c, [call EXCEPT !.at = "ackAnswer", !.serial = ack[i]])
     ELSE Goto(c, [call EXCEPT !.at = "ackInsert", !.serial = begun + 1])
  /\ UNCHANGED <<rows, walk, raises>>

\* Mutant: an upsert, the later acknowledgement replacing the first.
AckInsert_Upsert(c) ==
  /\ op[c].at = "ackInsert"
  /\ ack' = [ack EXCEPT ![op[c].id] = op[c].serial]
  /\ Goto(c, [op[c] EXCEPT !.at = "ackAnswer"])
  /\ UNCHANGED <<note, muted, pushed, walk, counts>>

\* The insert meets the unique index on notification_id or is the answer.
AckInsert(c) ==
  /\ op[c].at = "ackInsert"
  /\ IF ack[op[c].id] = 0
     THEN /\ ack' = [ack EXCEPT ![op[c].id] = op[c].serial]
          /\ Goto(c, [op[c] EXCEPT !.at = "ackAnswer"])
     ELSE /\ Goto(c, [op[c] EXCEPT !.at = "ackReread"])
          /\ UNCHANGED ack
  /\ UNCHANGED <<note, muted, pushed, walk, counts>>

AckReread(c) ==
  /\ op[c].at = "ackReread"
  /\ Goto(c, [op[c] EXCEPT !.at = "ackAnswer", !.serial = ack[op[c].id]])
  /\ UNCHANGED <<rows, walk, counts>>

-----------------------------------------------------------------------------
(* NotificationReceipts, page by page, the last id of a page being the     *)
(* cursor of the next.  Ids are random: they do not follow the raising.    *)

\* Mutant: the cursor's own row comes again.
Beyond_Inclusive(after) == {i \in Raised : i >= after}

Beyond(after) == {i \in Raised : i > after}

ReceiptsPage(after) ==
  {i \in Beyond(after) : Cardinality({j \in Beyond(after) : j <= i}) <= PageLimit}

\* The sender sets out.
StartWalk ==
  /\ walk.at = "idle"
  /\ walk' = [walk EXCEPT !.at = "sent", !.due = Raised, !.dueAck = Acknowledged]
  /\ UNCHANGED <<rows, op, counts>>

\* The first read of a call: the page of notifications sent.
ReceiptsSent ==
  /\ walk.at = "sent"
  /\ LET page == ReceiptsPage(walk.after) IN
     walk' = [walk EXCEPT !.at = IF page = {} THEN "done" ELSE "acks",
                          !.page = page]
  /\ UNCHANGED <<rows, op, counts>>

\* The second: when those on the page were acknowledged.
ReceiptsAcks ==
  /\ walk.at = "acks"
  /\ walk' = [walk EXCEPT !.at = "sent", !.page = {},
                !.after = CHOOSE i \in walk.page : \A j \in walk.page : j <= i,
                !.seen = @ \cup walk.page,
                !.seenAck = @ \cup (walk.page \cap Acknowledged)]
  /\ UNCHANGED <<rows, op, counts>>

-----------------------------------------------------------------------------
\* The caller has the answer.
Return(c) ==
  /\ op[c].at \in {"answer", "ackAnswer"}
  /\ Goto(c, Idle)
  /\ UNCHANGED <<rows, walk, counts>>

\* A store error, or the server's end, between two statements.  What was
\* raised so far stays, and the caller may call again.
Fail(c) ==
  /\ op[c].at \in {"ask", "insert", "push"}
  /\ Goto(c, Idle)
  /\ UNCHANGED <<rows, walk, counts>>

Raise(c) == AskMuted(c) \/ InsertNote(c) \/ HandToPush(c)
Acknowledge(c) == AckInsert(c) \/ AckReread(c)
Receipts == StartWalk \/ ReceiptsSent \/ ReceiptsAcks

Next ==
  \/ \E c \in Calls :
       \/ \E e \in Events, audience \in SUBSET Actors, given \in Given \cup {0} :
            StartRaise(c, e, audience, given)
       \/ \E a \in Actors, i \in Ids : AckRead(c, a, i)
       \/ Raise(c) \/ Acknowledge(c) \/ Return(c) \/ Fail(c)
  \/ \E a \in Actors, k \in Categories, m \in BOOLEAN : SetPreference(a, k, m)
  \/ Receipts

Spec == Init /\ [][Next]_vars

-----------------------------------------------------------------------------
(* Whoever had muted the category all the while a raise ran has no row of  *)
(* it, unless the event cannot be muted; and nobody is reported as muted   *)
(* who was not at some moment of the call, or who could not have been.     *)
MuteIsHonoured ==
  \A c \in Calls : op[c].at \in {"ask", "insert", "push", "answer"} =>
    /\ op[c].event \notin Unmutable =>
         \A i \in op[c].raised : note[i].actor \notin op[c].always
    /\ op[c].quiet # {} => /\ op[c].event \notin Unmutable
                           /\ op[c].quiet \subseteq op[c].ever

(* An AudienceRaise answered without an error is complete, each of those   *)
(* resolved in it once: raised for, with a row of the event of their own   *)
(* that was handed to Web Push, or missed as muted, or missed because a    *)
(* unique index stood against their row.  Nobody else is in it.            *)
AudienceAccounted ==
  \A c \in Calls : op[c].at = "answer" =>
    LET told == {note[i].actor : i \in op[c].raised} IN
    /\ told \cup op[c].quiet \cup op[c].spent = op[c].resolved
    /\ told \cap (op[c].quiet \cup op[c].spent) = {}
    /\ op[c].quiet \cap op[c].spent = {}
    /\ Cardinality(told) = Cardinality(op[c].raised)
    /\ \A i \in op[c].raised : note[i].event = op[c].event
    /\ op[c].raised \subseteq pushed
    /\ \A a \in op[c].spent :
         CapSpent(op[c].event, a) \/ op[c].given \in Raised

(* Acknowledging again, from however many devices at once, answers the     *)
(* first acknowledgement: what a caller was answered is what is stored,    *)
(* and stays so.                                                           *)
FirstAcknowledgementStands ==
  \A c \in Calls : op[c].at = "ackAnswer" =>
    op[c].serial # 0 /\ op[c].serial = ack[op[c].id]

(* A walk through the receipts passes nobody over who was told before it   *)
(* began, shows nobody twice, tells everybody who had acknowledged by then *)
(* as having done so, and nobody who never did.                            *)
ReceiptsMissNobody ==
  /\ walk.page \cap walk.seen = {}
  /\ walk.seenAck \subseteq Acknowledged
  /\ walk.at = "done" => walk.due \subseteq walk.seen /\ walk.dueAck \subseteq walk.seenAck
=============================================================================
