------------------------- MODULE NotificationsProofs -------------------------
(***************************************************************************)
(* Proofs about notifications, from the raise to the browsers it reaches:  *)
(* first the module Notifications, then PushDelivery.                      *)
(*                                                                         *)
(* NoteInv is what the properties of Notifications rest on.  The property  *)
(* of a call is stated of a value x, not of a place in op: a call then     *)
(* keeps it through the steps of others because they only add rows and     *)
(* acknowledgements (Grows), and a step of its own has only to show it of  *)
(* the call it becomes.  The walk's part says that whatever was due up to  *)
(* the cursor has been seen, which PageFacts carries over a page.          *)
(*                                                                         *)
(* PushInv says the same of a delivery: ids are minted in order and never  *)
(* come again, so a list of subscriptions read earlier names rows that are *)
(* still their endpoint's, or nobody's.                                    *)
(***************************************************************************)
EXTENDS Notifications, PushDelivery, FiniteSetTheorems, WellFoundedInduction, TLAPS

USE ActorOfAssumption

-----------------------------------------------------------------------------
(* Notifications.                                                          *)

Raising == {"ask", "insert", "push"}

\* Nobody of a raise's audience is in two places: still to come, missed for
\* one reason or for another.
Sorted(x) ==
  /\ IsFiniteSet(x.raised)
  /\ x.todo \cap x.quiet = {} /\ x.todo \cap x.spent = {} /\ x.quiet \cap x.spent = {}
  /\ x.quiet # {} => x.event \notin Unmutable
  /\ x.quiet \subseteq x.ever
  /\ x.at = "answer" => x.todo = {}

\* The rows of those it raised for, and of those whose cap was spent.
Told(x) ==
  /\ x.raised \subseteq pushed
  /\ \A i \in x.raised :
       /\ note[i].event = x.event
       /\ note[i].actor \notin x.todo \cup x.quiet \cup x.spent
       /\ x.event \notin Unmutable => note[i].actor \notin x.always
  /\ \A i, j \in x.raised : note[i].actor = note[j].actor => i = j
  /\ \A a \in x.spent : CapSpent(x.event, a) \/ x.given \in Raised

\* Where all of the audience has gone, but for those at hand.
Placed(x, hand) ==
  x.todo \cup x.quiet \cup x.spent \cup {note[i].actor : i \in x.raised} \cup hand
    = x.resolved

\* The recipient at hand, past the read of the preference.
AtHand(x) ==
  /\ Placed(x, {x.actor})
  /\ x.actor \in Actors \ (x.todo \cup x.quiet \cup x.spent)
  /\ \A i \in x.raised : note[i].actor # x.actor
  /\ x.event \notin Unmutable => x.actor \notin x.always

Inserted(x) ==
  /\ x.id \in Ids \ x.raised
  /\ note[x.id] = [actor |-> x.actor, event |-> x.event]

\* What the history says of the preferences as they are now.
HistorySound(x) == x.always \subseteq MutedFor(x.event) /\ MutedFor(x.event) \subseteq x.ever

RaiseSound(x) ==
  /\ x.at \in Raising \cup {"answer"} => Sorted(x) /\ Told(x)
  /\ x.at \in {"ask", "answer"} => Placed(x, {})
  /\ x.at \in {"insert", "push"} => AtHand(x)
  /\ x.at = "push" => Inserted(x)

AckSound(x) ==
  /\ x.at \in {"ackInsert", "ackReread", "ackAnswer"} => x.id \in Raised
  /\ x.at \in {"ackInsert", "ackAnswer"} => x.serial # 0
  /\ x.at = "ackReread" => ack[x.id] # 0
  /\ x.at = "ackAnswer" => x.serial = ack[x.id]

Sound(x) == RaiseSound(x) /\ AckSound(x)

CallsSound == \A c \in Calls, x \in Call : op[c] = x => Sound(x)

HistoriesSound == \A c \in Calls : op[c].at \in Raising => HistorySound(op[c])

WalkSound ==
  /\ walk.at = "idle" => walk.after = 0 /\ walk.seen = {} /\ walk.seenAck = {}
                         /\ walk.due = {} /\ walk.dueAck = {}
  /\ walk.due \subseteq Raised
  /\ walk.dueAck \subseteq walk.due \cap Acknowledged
  /\ \A i \in walk.page : walk.after < i
  /\ \A i \in walk.seen : i <= walk.after
  /\ \A i \in walk.due : i <= walk.after => i \in walk.seen
  /\ walk.dueAck \cap walk.seen \subseteq walk.seenAck
  /\ walk.seenAck \subseteq Acknowledged
  /\ walk.at # "acks" => walk.page = {}
  /\ walk.at = "acks" =>
       /\ \E m \in walk.page : \A i \in walk.page : i <= m
       /\ \A i \in walk.due, m \in walk.page : walk.after < i /\ i <= m => i \in walk.page
  /\ walk.at = "done" => walk.due \subseteq walk.seen

NoteInv == TypeOK /\ CallsSound /\ HistoriesSound /\ WalkSound

LEMMA IdleCall ==
  /\ Idle \in Call /\ Idle.at = "idle"
  /\ Sound(Idle)
  BY EventsAssumption, LimitsAssumption
  DEF Idle, Call, Sound, RaiseSound, AckSound, Raising

LEMMA InitNoteInv == Init => NoteInv
  <1> SUFFICES ASSUME Init PROVE NoteInv
    OBVIOUS
  <1>1. TypeOK
    BY IdleCall, LimitsAssumption DEF Init, TypeOK, Walk, Raised, Acknowledged
  <1>2. CallsSound /\ HistoriesSound
    BY IdleCall DEF Init, CallsSound, HistoriesSound, Raising
  <1>3. WalkSound
    BY DEF Init, WalkSound
  <1> QED
    BY <1>1, <1>2, <1>3 DEF NoteInv

\* No step takes a row back, changes it, or replaces an acknowledgement.
Grows ==
  /\ \A i \in Raised : i \in Raised' /\ note'[i] = note[i]
  /\ pushed \subseteq pushed'
  /\ \A i \in Ids : ack[i] # 0 => ack'[i] = ack[i]

LEMMA NoNoteIsNone ==
  /\ NoNote \notin Note
  /\ \A i \in Note : i.actor # NoActor
  BY NoActorAssumption DEF Note, NoNote

LEMMA CapStays ==
  ASSUME TypeOK, Grows, NEW e \in Events, NEW a \in Actors, CapSpent(e, a)
  PROVE  CapSpent(e, a)'
  BY DEF CapSpent, Grows

LEMMA SoundStays ==
  ASSUME TypeOK, Grows, NEW x \in Call
  PROVE  /\ Told(x) => Told(x)'
         /\ \A h : Told(x) /\ Placed(x, h) => Placed(x, h)'
         /\ Told(x) /\ AtHand(x) => AtHand(x)'
         /\ Inserted(x) => Inserted(x)'
         /\ RaiseSound(x) => RaiseSound(x)'
         /\ AckSound(x) => AckSound(x)'
         /\ Sound(x) => Sound(x)'
  <1>1. x.event \in Events /\ x.spent \subseteq Actors /\ pushed \subseteq Raised
        /\ x.actor \in Actors \cup {NoActor}
    BY DEF TypeOK, Call
  <1>2. Told(x) => Told(x)'
    BY <1>1, CapStays DEF Told, Grows
  <1>3. ASSUME NEW h, Told(x), Placed(x, h) PROVE Placed(x, h)'
    <2>1. {note'[i].actor : i \in x.raised} = {note[i].actor : i \in x.raised}
      BY <1>1, <1>3 DEF Told, Grows
    <2> QED
      BY <1>3, <2>1 DEF Placed
  <1>4. Told(x) /\ AtHand(x) => AtHand(x)'
    BY <1>1, <1>3 DEF Told, AtHand, Grows
  <1>5. Inserted(x) => Inserted(x)'
    <2> SUFFICES ASSUME Inserted(x) PROVE Inserted(x)'
      OBVIOUS
    <2>1. x.id \in Raised
      <3>1. x.id \in Ids /\ note[x.id].event = x.event /\ note[x.id] \in Note \cup {NoNote}
        BY DEF Inserted, TypeOK
      <3>2. note[x.id] = [actor |-> x.actor, event |-> x.event]
        BY DEF Inserted
      <3>3. [actor |-> x.actor, event |-> x.event] # NoNote
        BY DEF NoNote
      <3> QED
        BY <3>1, <3>2, <3>3 DEF Raised
    <2> QED
      BY <2>1 DEF Inserted, Grows
  <1>6. AckSound(x) => AckSound(x)'
    BY DEF AckSound, Grows, Raised
  <1>7. RaiseSound(x) => RaiseSound(x)'
    BY <1>2, <1>3, <1>4, <1>5 DEF RaiseSound, Raising, Sorted
  <1> QED
    BY <1>2, <1>3, <1>4, <1>5, <1>6, <1>7 DEF Sound

\* One call moves on: it is enough to see to the call it becomes.
LEMMA CallMoves ==
  ASSUME TypeOK, CallsSound, Grows, NEW c \in Calls, NEW y \in Call, Goto(c, y), Sound(y)'
  PROVE  op' \in [Calls -> Call] /\ CallsSound'
  <1>1. op' \in [Calls -> Call] /\ op'[c] = y /\ \A d \in Calls \ {c} : op'[d] = op[d]
    BY DEF TypeOK, Goto
  <1>2. ASSUME NEW d \in Calls, NEW x \in Call, op'[d] = x PROVE Sound(x)'
    <2>1. CASE d = c
      BY <1>1, <1>2, <2>1
    <2>2. CASE d # c
      <3>1. op[d] = x
        BY <1>1, <1>2, <2>2
      <3> QED
        BY <3>1, SoundStays DEF CallsSound
    <2> QED
      BY <2>1, <2>2
  <1> QED
    BY <1>1, <1>2 DEF CallsSound

\* Preferences aside, so are the histories.
LEMMA HistoriesStay ==
  ASSUME TypeOK, HistoriesSound, muted' = muted, NEW c \in Calls, NEW y \in Call, Goto(c, y),
         y.at \in Raising => HistorySound(y)
  PROVE  HistoriesSound'
  <1>1. op'[c] = y /\ \A d \in Calls \ {c} : op'[d] = op[d]
    BY DEF TypeOK, Goto
  <1> QED
    BY <1>1 DEF HistoriesSound, HistorySound, MutedFor

\* The walk looks only at what was raised and acknowledged.
LEMMA WalkStays ==
  ASSUME TypeOK, WalkSound, Grows, walk' = walk
  PROVE  WalkSound'
  <1>1. Raised \subseteq Raised' /\ Acknowledged \subseteq Acknowledged'
    BY DEF Grows, Acknowledged
  <1> QED
    BY <1>1 DEF WalkSound

LEMMA RowsKept ==
  ASSUME UNCHANGED rows
  PROVE  Grows /\ muted' = muted /\ Raised' = Raised /\ Acknowledged' = Acknowledged
  BY DEF Grows, rows, Raised, Acknowledged

-----------------------------------------------------------------------------
(* Each step of a raise.                                                   *)

LEMMA InCall ==
  ASSUME NoteInv, NEW c \in Calls
  PROVE  op[c] \in Call /\ RaiseSound(op[c]) /\ AckSound(op[c])
         /\ (op[c].at \in Raising => HistorySound(op[c]))
  BY DEF NoteInv, TypeOK, CallsSound, Sound, HistoriesSound

\* A step that leaves the rows and the preferences alone moves one call on.
LEMMA OnlyTheCall ==
  ASSUME NoteInv, NEW c \in Calls, UNCHANGED rows,
         \E y \in Call : /\ Goto(c, y) /\ RaiseSound(y) /\ AckSound(y)
                         /\ y.at \in Raising => HistorySound(y)
  PROVE  /\ op' \in [Calls -> Call] /\ CallsSound' /\ HistoriesSound'
         /\ note' = note /\ ack' = ack /\ muted' = muted /\ pushed' = pushed
         /\ Raised' = Raised /\ Acknowledged' = Acknowledged
         /\ walk' = walk => WalkSound'
  <1>1. PICK y \in Call : /\ Goto(c, y) /\ Sound(y)
                          /\ y.at \in Raising => HistorySound(y)
    BY DEF Sound
  <1>2. Grows /\ TypeOK /\ Sound(y)'
    BY <1>1, RowsKept, SoundStays DEF NoteInv
  <1> QED
    BY <1>1, <1>2, RowsKept, CallMoves, HistoriesStay, WalkStays DEF NoteInv, rows

LEMMA StartRaiseKeeps ==
  ASSUME NoteInv, NEW c \in Calls, NEW e \in Events, NEW s \in SUBSET Actors,
         NEW g \in Given \cup {0}, StartRaise(c, e, s, g)
  PROVE  NoteInv'
  <1>1. \E y \in Call : /\ Goto(c, y) /\ RaiseSound(y) /\ AckSound(y)
                        /\ y.at \in Raising => HistorySound(y)
    <2> DEFINE y == [Idle EXCEPT !.at = "ask", !.event = e, !.given = g,
                                 !.resolved = s, !.todo = s,
                                 !.always = MutedFor(e), !.ever = MutedFor(e)]
    <2>1. y \in Call /\ y.at = "ask" /\ y.event = e /\ y.raised = {} /\ y.quiet = {} /\ y.spent = {}
          /\ y.todo = s /\ y.resolved = s
          /\ y.always = MutedFor(e) /\ y.ever = MutedFor(e)
      BY IdleCall DEF Idle, Call, MutedFor
    <2>2. Goto(c, y)
      BY DEF StartRaise
    <2> HIDE DEF y
    <2>3. RaiseSound(y) /\ AckSound(y) /\ HistorySound(y)
      BY <2>1, FS_EmptySet DEF RaiseSound, Sorted, Told, Placed, AckSound, HistorySound, Raising
    <2> QED
      BY <2>1, <2>2, <2>3
  <1>2. UNCHANGED rows /\ walk' = walk /\ raises' = raises + 1 /\ raises < MaxRaises
        /\ begun' = begun + 1 /\ begun < MaxBegun
    BY DEF StartRaise
  <1>3. op' \in [Calls -> Call] /\ CallsSound' /\ HistoriesSound' /\ WalkSound'
    BY <1>1, <1>2, OnlyTheCall
  <1>4. TypeOK'
    BY <1>1, <1>2, <1>3, OnlyTheCall, LimitsAssumption DEF NoteInv, TypeOK
  <1> QED
    BY <1>3, <1>4 DEF NoteInv

\* What a raise is like past a recipient who was missed or raised for.
LEMMA OnwardSound ==
  ASSUME TypeOK, NEW call \in Call, Sorted([call EXCEPT !.at = "ask"]), Told(call),
         Placed(call, {}), HistorySound(call), NEW c \in Calls, NEW y,
         y = [call EXCEPT !.at = IF call.todo = {} THEN "answer" ELSE "ask",
                          !.actor = NoActor, !.id = 0]
  PROVE  y \in Call /\ RaiseSound(y) /\ AckSound(y) /\ HistorySound(y)
  <1>1. y \in Call
    BY DEF Call
  <1>2. /\ y.at = IF call.todo = {} THEN "answer" ELSE "ask"
        /\ y.event = call.event /\ y.todo = call.todo /\ y.raised = call.raised
        /\ y.quiet = call.quiet /\ y.spent = call.spent
        /\ y.given = call.given /\ y.resolved = call.resolved
        /\ y.always = call.always /\ y.ever = call.ever
    BY DEF Call
  <1>3. Sorted(y)
    <2> DEFINE z == [call EXCEPT !.at = "ask"]
    <2>1. z.raised = call.raised /\ z.event = call.event /\ z.todo = call.todo
          /\ z.quiet = call.quiet /\ z.spent = call.spent /\ z.ever = call.ever
      BY DEF Call
    <2> HIDE DEF z
    <2> QED
      BY <1>2, <2>1 DEF Sorted, z
  <1>4. Told(y) /\ Placed(y, {}) /\ HistorySound(y)
    BY <1>2 DEF Told, Placed, HistorySound
  <1>5. y.at \in {"ask", "answer"}
    BY <1>2
  <1> QED
    BY <1>1, <1>3, <1>4, <1>5 DEF RaiseSound, AckSound

LEMMA AskMutedKeeps ==
  ASSUME NoteInv, NEW c \in Calls, AskMuted(c)
  PROVE  NoteInv'
  <1>1. op[c].at = "ask" /\ UNCHANGED rows /\ UNCHANGED <<walk, counts>>
    BY DEF AskMuted
  <1>2. /\ op[c] \in Call /\ Sorted(op[c]) /\ Told(op[c]) /\ HistorySound(op[c])
        /\ Placed(op[c], {})
    BY <1>1, InCall DEF RaiseSound, Raising
  <1>3. PICK a \in op[c].todo :
          LET call == [op[c] EXCEPT !.todo = @ \ {a}, !.actor = a] IN
          IF Reaches(call.event, a)
          THEN Goto(c, [call EXCEPT !.at = "insert"])
          ELSE Miss(c, [call EXCEPT !.quiet = @ \cup {a}])
    BY DEF AskMuted
  <1>4. a \in Actors
    BY <1>2 DEF Call
  <1>5. \E y \in Call : Goto(c, y) /\ RaiseSound(y) /\ AckSound(y) /\ HistorySound(y)
    <2>1. CASE Reaches(op[c].event, a)
      <3> DEFINE y == [op[c] EXCEPT !.todo = @ \ {a}, !.actor = a, !.at = "insert"]
      <3>1. /\ y \in Call /\ y.at = "insert" /\ y.actor = a /\ y.todo = op[c].todo \ {a}
            /\ y.event = op[c].event /\ y.raised = op[c].raised /\ y.quiet = op[c].quiet
            /\ y.spent = op[c].spent /\ y.always = op[c].always /\ y.ever = op[c].ever
            /\ y.given = op[c].given /\ y.resolved = op[c].resolved
        BY <1>2, <1>4 DEF Call
      <3>2. Goto(c, y)
        BY <1>2, <1>3, <2>1 DEF Goto, Call
      <3> HIDE DEF y
      <3>3. Sorted(y) /\ Told(y) /\ HistorySound(y)
        BY <1>2, <3>1 DEF Sorted, Told, HistorySound
      <3>4. y.event \notin Unmutable => a \notin y.always
        BY <1>2, <2>1, <3>1, <1>4 DEF Reaches, HistorySound, MutedFor
      <3>5. AtHand(y)
        <4>1. Placed(y, {a})
          BY <1>2, <3>1 DEF Placed
        <4> QED
          BY <1>2, <1>4, <3>1, <3>4, <4>1 DEF AtHand, Sorted, Told
      <3> QED
        BY <3>1, <3>2, <3>3, <3>5 DEF RaiseSound, AckSound
    <2>2. CASE ~Reaches(op[c].event, a)
      <3> DEFINE z == [op[c] EXCEPT !.todo = @ \ {a}, !.actor = a, !.quiet = @ \cup {a}]
                 y == [z EXCEPT !.at = IF z.todo = {} THEN "answer" ELSE "ask",
                                !.actor = NoActor, !.id = 0]
      <3>1. /\ z \in Call /\ z.at = "ask" /\ z.todo = op[c].todo \ {a}
            /\ z.event = op[c].event /\ z.raised = op[c].raised /\ z.quiet = op[c].quiet \cup {a}
            /\ z.spent = op[c].spent /\ z.always = op[c].always /\ z.ever = op[c].ever
            /\ z.given = op[c].given /\ z.resolved = op[c].resolved
        BY <1>1, <1>2, <1>4 DEF Call
      <3>2. Goto(c, y)
        <4>1. Miss(c, z)
          BY <1>2, <1>3, <2>2 DEF Call
        <4> QED
          BY <4>1 DEF Miss, Onward
      <3> HIDE DEF z
      <3>3. [z EXCEPT !.at = "ask"] = z
        BY <3>1 DEF Call
      <3>4. a \in z.ever /\ z.event \notin Unmutable
        BY <1>2, <2>2, <3>1, <1>4 DEF Reaches, HistorySound, MutedFor
      <3>5. Sorted(z) /\ Told(z) /\ HistorySound(z)
        BY <1>2, <3>1, <3>4 DEF Sorted, Told, HistorySound
      <3>6. Placed(z, {})
        BY <1>2, <3>1 DEF Placed
      <3>7. y \in Call /\ RaiseSound(y) /\ AckSound(y) /\ HistorySound(y)
        BY <3>1, <3>3, <3>5, <3>6, OnwardSound DEF NoteInv
      <3> QED
        BY <3>2, <3>7
    <2> QED
      BY <2>1, <2>2
  <1>6. op' \in [Calls -> Call] /\ CallsSound' /\ HistoriesSound' /\ WalkSound'
    BY <1>1, <1>5, OnlyTheCall
  <1>7. TypeOK'
    BY <1>1, <1>5, <1>6, OnlyTheCall DEF NoteInv, TypeOK, counts
  <1> QED
    BY <1>6, <1>7 DEF NoteInv

LEMMA InsertNoteKeeps ==
  ASSUME NoteInv, NEW c \in Calls, InsertNote(c)
  PROVE  NoteInv'
  <1> DEFINE a == op[c].actor
             e == op[c].event
  <1>1. op[c].at = "insert" /\ UNCHANGED <<ack, muted, pushed, walk, counts>>
    BY DEF InsertNote
  <1>2. /\ op[c] \in Call /\ Sorted(op[c]) /\ Told(op[c]) /\ HistorySound(op[c])
        /\ AtHand(op[c]) /\ a \in Actors /\ e \in Events
    BY <1>1, InCall DEF RaiseSound, Raising, AtHand, Call
  <1>3. CASE Refused(op[c])
    <2>1. \E y \in Call : /\ Goto(c, y) /\ RaiseSound(y) /\ AckSound(y)
                          /\ y.at \in Raising => HistorySound(y)
      <3> DEFINE z == [op[c] EXCEPT !.spent = @ \cup {a}]
                 w == [z EXCEPT !.at = "ask"]
                 y == [z EXCEPT !.at = IF z.todo = {} THEN "answer" ELSE "ask",
                                !.actor = NoActor, !.id = 0]
      <3>1. /\ z \in Call /\ z.todo = op[c].todo
            /\ z.event = e /\ z.raised = op[c].raised /\ z.quiet = op[c].quiet
            /\ z.spent = op[c].spent \cup {a} /\ z.always = op[c].always /\ z.ever = op[c].ever
            /\ z.given = op[c].given /\ z.resolved = op[c].resolved
        BY <1>2 DEF Call
      <3>2. Goto(c, y)
        BY <1>3 DEF InsertNote, Miss, Onward
      <3> HIDE DEF z
      <3>3. /\ w.at = "ask" /\ w.todo = z.todo /\ w.event = z.event /\ w.raised = z.raised
            /\ w.quiet = z.quiet /\ w.spent = z.spent /\ w.ever = z.ever
        BY <3>1 DEF Call
      <3> HIDE DEF w
      <3>4. Sorted(w) /\ Told(z) /\ HistorySound(z) /\ Placed(z, {})
        <4>1. Placed(z, {})
          BY <1>2, <3>1 DEF AtHand, Placed
        <4>2. CapSpent(e, a) \/ op[c].given \in Raised
          BY <1>3 DEF Refused
        <4> QED
          BY <1>2, <3>1, <3>3, <4>1, <4>2 DEF Sorted, Told, HistorySound, AtHand
      <3>5. y \in Call /\ RaiseSound(y) /\ AckSound(y) /\ HistorySound(y)
        BY <3>1, <3>4, OnwardSound DEF NoteInv, w
      <3> QED
        BY <3>2, <3>5
    <2>2. UNCHANGED rows
      BY <1>1, <1>3 DEF InsertNote, rows
    <2>3. op' \in [Calls -> Call] /\ CallsSound' /\ HistoriesSound' /\ WalkSound'
      BY <1>1, <2>1, <2>2, OnlyTheCall
    <2>4. TypeOK'
      BY <1>1, <2>1, <2>2, <2>3, OnlyTheCall DEF NoteInv, TypeOK, counts
    <2> QED
      BY <2>3, <2>4 DEF NoteInv
  <1>4. CASE ~Refused(op[c])
    <2>1. PICK i \in Ids \ Raised :
            /\ note' = [note EXCEPT ![i] = [actor |-> a, event |-> e]]
            /\ Goto(c, [op[c] EXCEPT !.at = "push", !.id = i])
      <3>1. RowIds(op[c]) \subseteq Ids \ Raised
        BY <1>2, <1>4, IdsAssumption DEF RowIds, Refused, Call
      <3> QED
        BY <1>4, <3>1 DEF InsertNote
    <2>2. note[i] = NoNote /\ note \in [Ids -> Note \cup {NoNote}] /\ i \in Ids
          /\ ack \in [Ids -> 0 .. MaxBegun] /\ Acknowledged \cup pushed \subseteq Raised
      BY <2>1 DEF Raised, NoteInv, TypeOK
    <2>3. [actor |-> a, event |-> e] \in Note /\ [actor |-> a, event |-> e] # NoNote
      BY <1>2, NoNoteIsNone DEF Note
    <2>4. /\ note' \in [Ids -> Note \cup {NoNote}]
          /\ note'[i] = [actor |-> a, event |-> e]
          /\ \A j \in Ids \ {i} : note'[j] = note[j]
      BY <2>1, <2>2, <2>3
    <2>5. Raised' = Raised \cup {i} /\ Acknowledged' = Acknowledged
      BY <1>1, <2>1, <2>3, <2>4 DEF Raised, Acknowledged
    <2>6. Grows
      BY <1>1, <2>1, <2>4, <2>5 DEF Grows, Raised
    <2>7. \E y \in Call : /\ Goto(c, y) /\ Sound(y)'
                          /\ y.at \in Raising => HistorySound(y)
      <3> DEFINE y == [op[c] EXCEPT !.at = "push", !.id = i]
      <3>1. /\ y \in Call /\ y.at = "push" /\ y.id = i /\ y.actor = a /\ y.todo = op[c].todo
            /\ y.event = e /\ y.raised = op[c].raised /\ y.quiet = op[c].quiet
            /\ y.spent = op[c].spent /\ y.always = op[c].always /\ y.ever = op[c].ever
            /\ y.given = op[c].given /\ y.resolved = op[c].resolved
        BY <1>2, <2>1 DEF Call
      <3>2. Goto(c, y)
        BY <2>1
      <3> HIDE DEF y
      <3>3. Sorted(y) /\ Told(y) /\ AtHand(y) /\ HistorySound(y)
        BY <1>2, <3>1 DEF Sorted, Told, HistorySound, AtHand, Placed
      <3>4. PICK x \in Call : x = y
        BY <3>1
      <3>5. /\ x.at = "push" /\ x.id = i /\ x.actor = a /\ x.event = e /\ x.raised = op[c].raised
            /\ Sorted(x) /\ Told(x) /\ AtHand(x) /\ HistorySound(x) /\ Goto(c, x)
        BY <3>1, <3>2, <3>3, <3>4
      <3>6. Told(x)' /\ AtHand(x)' /\ Sorted(x)'
        BY <2>6, <3>5, SoundStays DEF NoteInv, Sorted
      <3>7. Inserted(x)'
        <4>1. i \notin op[c].raised
          BY <1>2, <2>1, <2>2 DEF Told
        <4> QED
          BY <2>1, <2>4, <3>5, <4>1 DEF Inserted
      <3>8. RaiseSound(x)' /\ AckSound(x)'
        BY <3>5, <3>6, <3>7 DEF RaiseSound, AckSound
      <3> QED
        BY <3>5, <3>8 DEF Sound
    <2>8. op' \in [Calls -> Call] /\ CallsSound' /\ HistoriesSound' /\ WalkSound'
      BY <1>1, <2>6, <2>7, CallMoves, HistoriesStay, WalkStays DEF NoteInv
    <2>9. TypeOK'
      BY <1>1, <2>2, <2>4, <2>5, <2>8 DEF NoteInv, TypeOK, counts
    <2> QED
      BY <2>8, <2>9 DEF NoteInv
  <1> QED
    BY <1>3, <1>4

LEMMA HandToPushKeeps ==
  ASSUME NoteInv, NEW c \in Calls, HandToPush(c)
  PROVE  NoteInv'
  <1>1. /\ op[c].at = "push" /\ UNCHANGED <<note, ack, muted, walk, counts>>
        /\ pushed' = pushed \cup {op[c].id}
        /\ Onward(c, [op[c] EXCEPT !.raised = @ \cup {op[c].id}])
    BY DEF HandToPush
  <1>2. /\ op[c] \in Call /\ Sorted(op[c]) /\ Told(op[c]) /\ HistorySound(op[c])
        /\ AtHand(op[c]) /\ Inserted(op[c]) /\ op[c].actor \in Actors
    BY <1>1, InCall DEF RaiseSound, Raising, AtHand
  <1>3. PICK i \in Ids : i = op[c].id
    BY <1>2 DEF Inserted
  <1>4. i \notin op[c].raised /\ i \in Raised
        /\ note[i].actor = op[c].actor /\ note[i].event = op[c].event
    BY <1>2, <1>3, NoActorAssumption DEF Inserted, Raised, NoNote
  <1>5. Grows /\ Raised' = Raised /\ Acknowledged' = Acknowledged
    BY <1>1 DEF Grows, Raised, Acknowledged
  <1>6. PICK z \in Call : z = [op[c] EXCEPT !.raised = @ \cup {i}]
    BY <1>2 DEF Call
  <1>7. /\ z.todo = op[c].todo /\ z.event = op[c].event /\ z.raised = op[c].raised \cup {i}
        /\ z.quiet = op[c].quiet /\ z.spent = op[c].spent
        /\ z.given = op[c].given /\ z.resolved = op[c].resolved
        /\ z.always = op[c].always /\ z.ever = op[c].ever
    BY <1>2, <1>6 DEF Call
  <1>8. PICK p \in {"ask", "answer"} : p = IF z.todo = {} THEN "answer" ELSE "ask"
    OBVIOUS
  <1>9. PICK y \in Call : y = [z EXCEPT !.at = p, !.actor = NoActor, !.id = 0]
    BY <1>8 DEF Call
  <1>10. Goto(c, y) /\ y.at = p
         /\ y.todo = z.todo /\ y.event = z.event /\ y.raised = z.raised
         /\ y.quiet = z.quiet /\ y.spent = z.spent
         /\ y.given = z.given /\ y.resolved = z.resolved
         /\ y.always = z.always /\ y.ever = z.ever
    <2>1. Goto(c, y)
      BY <1>1, <1>3, <1>6, <1>8, <1>9 DEF Onward
    <2> QED
      BY <1>9, <2>1 DEF Call
  <1>11. Sorted(y)'
    <2>1. IsFiniteSet(y.raised)
      BY <1>2, <1>7, <1>10, FS_AddElement DEF Sorted
    <2> QED
      BY <1>2, <1>7, <1>8, <1>10, <2>1 DEF Sorted
  <1>12. Told(y)'
    <2>1. y.raised \subseteq pushed'
      BY <1>1, <1>2, <1>3, <1>7, <1>10 DEF Told
    <2>2. \A j \in y.raised :
            /\ note'[j].event = y.event
            /\ note'[j].actor \notin y.todo \cup y.quiet \cup y.spent
            /\ y.event \notin Unmutable => note'[j].actor \notin y.always
      BY <1>1, <1>2, <1>4, <1>7, <1>10 DEF Told, AtHand
    <2>3. \A j, k \in y.raised : note'[j].actor = note'[k].actor => j = k
      BY <1>1, <1>2, <1>4, <1>7, <1>10 DEF Told, AtHand
    <2>4. \A a \in y.spent : CapSpent(y.event, a)' \/ y.given \in Raised'
      BY <1>1, <1>2, <1>5, <1>7, <1>10 DEF Told, CapSpent
    <2> QED
      BY <2>1, <2>2, <2>3, <2>4 DEF Told
  <1>13. Placed(y, {})'
    <2>1. {note'[j].actor : j \in y.raised}
            = {note[j].actor : j \in op[c].raised} \cup {op[c].actor}
      BY <1>1, <1>4, <1>7, <1>10
    <2> QED
      BY <1>2, <1>7, <1>10, <2>1 DEF AtHand, Placed
  <1>14. Sound(y)' /\ HistorySound(y)
    <2>1. y.at \in {"ask", "answer"} /\ (y.at = "answer" => y.todo = {})
      BY <1>8, <1>10
    <2>2. HistorySound(y)
      BY <1>2, <1>7, <1>10 DEF HistorySound
    <2> QED
      BY <1>11, <1>12, <1>13, <2>1, <2>2 DEF Sound, RaiseSound, AckSound
  <1>15. op' \in [Calls -> Call] /\ CallsSound' /\ HistoriesSound' /\ WalkSound'
    BY <1>1, <1>5, <1>10, <1>14, CallMoves, HistoriesStay, WalkStays DEF NoteInv
  <1>16. TypeOK'
    BY <1>1, <1>3, <1>4, <1>5, <1>15 DEF NoteInv, TypeOK, counts
  <1> QED
    BY <1>15, <1>16 DEF NoteInv

-----------------------------------------------------------------------------
(* A preference is set: the histories of the raises under way follow.      *)

LEMMA SetPreferenceKeeps ==
  ASSUME NoteInv, NEW a \in Actors, NEW k \in Categories, NEW m \in BOOLEAN, SetPreference(a, k, m)
  PROVE  NoteInv'
  <1>1. /\ begun < MaxBegun /\ begun' = begun + 1 /\ k \notin Exempt
        /\ muted' = IF m THEN muted \cup {<<a, k>>} ELSE muted \ {<<a, k>>}
        /\ Witness(a, k, m)
        /\ UNCHANGED <<note, ack, pushed, walk, raises>>
    BY DEF SetPreference, MayMute
  <1>2. Grows /\ Raised' = Raised /\ Acknowledged' = Acknowledged
    BY <1>1 DEF Grows, Raised, Acknowledged
  <1>3. \A e \in Events : MutedFor(e)' = IF CategoryOf[e] # k THEN MutedFor(e)
                                         ELSE IF m THEN MutedFor(e) \cup {a}
                                         ELSE MutedFor(e) \ {a}
    <2> TAKE e \in Events
    <2>1. \A b \in Actors : <<b, CategoryOf[e]>> \in muted' <=>
            IF CategoryOf[e] # k THEN <<b, CategoryOf[e]>> \in muted
            ELSE IF b = a THEN m ELSE <<b, CategoryOf[e]>> \in muted
      BY <1>1
    <2>2. CASE CategoryOf[e] # k
      BY <2>1, <2>2 DEF MutedFor
    <2>3. CASE CategoryOf[e] = k /\ m
      BY <2>1, <2>3 DEF MutedFor
    <2>4. CASE CategoryOf[e] = k /\ ~m
      BY <2>1, <2>4 DEF MutedFor
    <2> QED
      BY <2>2, <2>3, <2>4
  <1>4. ASSUME NEW c \in Calls
        PROVE  /\ op'[c] \in Call
               /\ RaiseSound(op'[c]) /\ AckSound(op'[c])
               /\ \A x \in Call : op'[c] = x /\ x.at \in Raising => HistorySound(x)'
    <2>1. op[c] \in Call /\ RaiseSound(op[c]) /\ AckSound(op[c])
          /\ (op[c].at \in Raising => HistorySound(op[c])) /\ op[c].event \in Events
      BY InCall DEF Call
    <2>2. CASE op[c].at \notin Raising \/ CategoryOf[op[c].event] # k
      <3>1. op'[c] = op[c]
        BY <1>1, <2>2 DEF Witness, Raising
      <3>2. ASSUME NEW x \in Call, op'[c] = x, x.at \in Raising PROVE HistorySound(x)'
        BY <1>3, <2>1, <2>2, <3>1, <3>2 DEF HistorySound
      <3> QED
        BY <2>1, <3>1, <3>2
    <2>3. CASE op[c].at \in Raising /\ CategoryOf[op[c].event] = k
      <3>1. op'[c] = [op[c] EXCEPT !.always = IF m THEN @ ELSE @ \ {a},
                                   !.ever = IF m THEN @ \cup {a} ELSE @]
        BY <1>1, <2>3 DEF Witness, Raising
      <3>2. /\ op'[c] \in Call /\ op'[c].at = op[c].at /\ op'[c].event = op[c].event
            /\ op'[c].todo = op[c].todo /\ op'[c].actor = op[c].actor /\ op'[c].id = op[c].id
            /\ op'[c].raised = op[c].raised /\ op'[c].quiet = op[c].quiet
            /\ op'[c].spent = op[c].spent /\ op'[c].serial = op[c].serial
            /\ op'[c].given = op[c].given /\ op'[c].resolved = op[c].resolved
            /\ op'[c].always = (IF m THEN op[c].always ELSE op[c].always \ {a})
            /\ op'[c].ever = (IF m THEN op[c].ever \cup {a} ELSE op[c].ever)
        <4>1. CASE m
          <5>1. op'[c] = [op[c] EXCEPT !.ever = @ \cup {a}]
            BY <2>1, <3>1, <4>1 DEF Call
          <5>2. op[c].ever \cup {a} \in SUBSET Actors
            BY <2>1 DEF Call
          <5> QED
            BY <2>1, <4>1, <5>1, <5>2 DEF Call
        <4>2. CASE ~m
          BY <2>1, <3>1, <4>2 DEF Call
        <4> QED
          BY <4>1, <4>2
      <3>3. AckSound(op'[c])
        BY <2>1, <3>2 DEF AckSound
      <3>4. RaiseSound(op'[c])
        <4>1. Sorted(op'[c]) /\ Told(op'[c])
          BY <2>1, <2>3, <3>2 DEF RaiseSound, Sorted, Told, Raising
        <4>2. op'[c].at \in {"insert", "push"} => AtHand(op'[c])
          BY <2>1, <3>2 DEF RaiseSound, AtHand, Placed
        <4>3. op'[c].at = "push" => Inserted(op'[c])
          BY <2>1, <3>2 DEF RaiseSound, Inserted
        <4>4. op'[c].at \in {"ask", "answer"} => Placed(op'[c], {})
          BY <2>1, <3>2 DEF RaiseSound, Placed
        <4> QED
          BY <4>1, <4>2, <4>3, <4>4 DEF RaiseSound
      <3>5. ASSUME NEW x \in Call, op'[c] = x, x.at \in Raising PROVE HistorySound(x)'
        <4>1. CASE m
          BY <1>3, <2>1, <2>3, <3>2, <3>5, <4>1 DEF HistorySound
        <4>2. CASE ~m
          BY <1>3, <2>1, <2>3, <3>2, <3>5, <4>2 DEF HistorySound
        <4> QED
          BY <4>1, <4>2
      <3> QED
        BY <3>2, <3>3, <3>4, <3>5
    <2> QED
      BY <2>2, <2>3
  <1>5. op' \in [Calls -> Call]
    <2>1. op' = [c \in Calls |-> op'[c]]
      BY <1>1 DEF Witness
    <2> QED
      BY <1>4, <2>1
  <1>6. CallsSound'
    <2>1. ASSUME NEW c \in Calls, NEW x \in Call, op'[c] = x PROVE Sound(x)'
      <3>1. Sound(x)
        BY <1>4, <2>1 DEF Sound
      <3> QED
        BY <1>2, <3>1, SoundStays DEF NoteInv
    <2> QED
      BY <2>1 DEF CallsSound
  <1>7. HistoriesSound'
    <2>1. ASSUME NEW c \in Calls, op'[c].at \in Raising PROVE HistorySound(op[c])'
      <3>1. PICK x \in Call : op'[c] = x
        BY <1>4
      <3>2. HistorySound(x)'
        BY <1>4, <2>1, <3>1
      <3> QED
        BY <3>1, <3>2 DEF HistorySound
    <2> QED
      BY <2>1 DEF HistoriesSound
  <1>8. WalkSound'
    BY <1>1, <1>2, WalkStays DEF NoteInv
  <1>9. TypeOK'
    <2>1. muted' \subseteq Actors \X (Categories \ Exempt) /\ begun' \in 0 .. MaxBegun
      BY <1>1, LimitsAssumption DEF NoteInv, TypeOK
    <2> QED
      BY <1>1, <1>2, <1>5, <2>1 DEF NoteInv, TypeOK
  <1> QED
    BY <1>5, <1>6, <1>7, <1>8, <1>9 DEF NoteInv

-----------------------------------------------------------------------------
(* Each step of an acknowledgement, and the end of a call.                 *)

LEMMA AckReadKeeps ==
  ASSUME NoteInv, NEW c \in Calls, NEW a \in Actors, NEW i \in Ids, AckRead(c, a, i)
  PROVE  NoteInv'
  <1>1. /\ begun < MaxBegun /\ begun' = begun + 1
        /\ UNCHANGED rows /\ UNCHANGED <<walk, raises>>
        /\ note[i].actor = a
    BY DEF AckRead
  <1>2. i \in Raised /\ begun \in Nat /\ ack[i] \in 0 .. MaxBegun
        /\ begun + 1 \in 0 .. MaxBegun /\ begun + 1 # 0
    BY <1>1, NoActorAssumption, LimitsAssumption DEF Raised, NoNote, NoteInv, TypeOK
  <1>3. \E y \in Call : /\ Goto(c, y) /\ RaiseSound(y) /\ AckSound(y)
                        /\ y.at \in Raising => HistorySound(y)
    <2>1. CASE ack[i] # 0
      <3> DEFINE y == [Idle EXCEPT !.id = i, !.actor = a, !.at = "ackAnswer", !.serial = ack[i]]
      <3>1. y \in Call /\ y.at = "ackAnswer" /\ y.id = i /\ y.serial = ack[i]
        BY <1>2, IdleCall DEF Idle, Call
      <3>2. Goto(c, y)
        BY <2>1, IdleCall DEF AckRead, Goto, Idle
      <3> HIDE DEF y
      <3> QED
        BY <1>2, <2>1, <3>1, <3>2 DEF RaiseSound, AckSound, Raising
    <2>2. CASE ack[i] = 0
      <3> DEFINE y == [Idle EXCEPT !.id = i, !.actor = a, !.at = "ackInsert", !.serial = begun + 1]
      <3>1. y \in Call /\ y.at = "ackInsert" /\ y.id = i /\ y.serial = begun + 1
        BY <1>2, IdleCall, LimitsAssumption DEF Idle, Call
      <3>2. Goto(c, y)
        BY <2>2, IdleCall DEF AckRead, Goto, Idle
      <3> HIDE DEF y
      <3> QED
        BY <1>2, <2>2, <3>1, <3>2 DEF RaiseSound, AckSound, Raising
    <2> QED
      BY <2>1, <2>2
  <1>4. op' \in [Calls -> Call] /\ CallsSound' /\ HistoriesSound' /\ WalkSound'
    BY <1>1, <1>3, OnlyTheCall
  <1>5. TypeOK'
    BY <1>1, <1>2, <1>3, <1>4, OnlyTheCall, LimitsAssumption DEF NoteInv, TypeOK
  <1> QED
    BY <1>4, <1>5 DEF NoteInv

LEMMA AckInsertKeeps ==
  ASSUME NoteInv, NEW c \in Calls, AckInsert(c)
  PROVE  NoteInv'
  <1>1. op[c].at = "ackInsert" /\ UNCHANGED <<note, muted, pushed, walk, counts>>
    BY DEF AckInsert
  <1>2. /\ op[c] \in Call /\ op[c].id \in Raised /\ op[c].serial # 0
        /\ op[c].serial \in 0 .. MaxBegun
    BY <1>1, InCall DEF AckSound, Call
  <1>3. CASE ack[op[c].id] = 0
    <2>1. PICK y \in Call : y = [op[c] EXCEPT !.at = "ackAnswer"]
      BY <1>2 DEF Call
    <2>2. y.at = "ackAnswer" /\ y.id = op[c].id /\ y.serial = op[c].serial
      BY <1>2, <2>1 DEF Call
    <2>3. Goto(c, y) /\ ack' = [ack EXCEPT ![op[c].id] = op[c].serial]
      BY <1>3, <2>1 DEF AckInsert
    <2>4. ack \in [Ids -> 0 .. MaxBegun] /\ op[c].id \in Ids
      BY <1>2 DEF NoteInv, TypeOK, Raised
    <2>5. Grows /\ Raised' = Raised /\ Acknowledged' = Acknowledged \cup {op[c].id}
      BY <1>1, <1>2, <1>3, <2>3, <2>4 DEF Grows, Raised, Acknowledged
    <2>6. Sound(y)'
      BY <1>2, <2>2, <2>3, <2>4, <2>5 DEF Sound, RaiseSound, AckSound, Raising
    <2>7. op' \in [Calls -> Call] /\ CallsSound' /\ HistoriesSound' /\ WalkSound'
      BY <1>1, <2>2, <2>3, <2>5, <2>6, CallMoves, HistoriesStay, WalkStays DEF NoteInv, Raising
    <2>8. ack' \in [Ids -> 0 .. MaxBegun]
      BY <1>2, <2>3, <2>4
    <2>9. TypeOK'
      BY <1>1, <1>2, <2>5, <2>7, <2>8 DEF NoteInv, TypeOK, counts
    <2> QED
      BY <2>7, <2>9 DEF NoteInv
  <1>4. CASE ack[op[c].id] # 0
    <2>1. \E y \in Call : /\ Goto(c, y) /\ RaiseSound(y) /\ AckSound(y)
                          /\ y.at \in Raising => HistorySound(y)
      <3>1. PICK y \in Call : y = [op[c] EXCEPT !.at = "ackReread"]
        BY <1>2 DEF Call
      <3>2. y.at = "ackReread" /\ y.id = op[c].id
        BY <1>2, <3>1 DEF Call
      <3>3. Goto(c, y)
        BY <1>4, <3>1 DEF AckInsert
      <3> QED
        BY <1>2, <1>4, <3>2, <3>3 DEF RaiseSound, AckSound, Raising
    <2>2. UNCHANGED rows
      BY <1>1, <1>4 DEF AckInsert, rows
    <2>3. op' \in [Calls -> Call] /\ CallsSound' /\ HistoriesSound' /\ WalkSound'
      BY <1>1, <2>1, <2>2, OnlyTheCall
    <2>4. TypeOK'
      BY <1>1, <2>1, <2>2, <2>3, OnlyTheCall DEF NoteInv, TypeOK, counts
    <2> QED
      BY <2>3, <2>4 DEF NoteInv
  <1> QED
    BY <1>3, <1>4

LEMMA CallEndsKeeps ==
  ASSUME NoteInv, NEW c \in Calls, AckReread(c) \/ Return(c) \/ Fail(c)
  PROVE  NoteInv'
  <1>1. CASE AckReread(c)
    <2>1. op[c].at = "ackReread" /\ UNCHANGED rows /\ UNCHANGED <<walk, counts>>
          /\ Goto(c, [op[c] EXCEPT !.at = "ackAnswer", !.serial = ack[op[c].id]])
      BY <1>1 DEF AckReread
    <2>2. /\ op[c] \in Call /\ op[c].id \in Raised /\ ack[op[c].id] # 0
          /\ ack[op[c].id] \in 0 .. MaxBegun
      BY <2>1, InCall DEF AckSound, Raised, NoteInv, TypeOK
    <2>3. PICK y \in Call : y = [op[c] EXCEPT !.at = "ackAnswer", !.serial = ack[op[c].id]]
      BY <2>2 DEF Call
    <2>4. y.at = "ackAnswer" /\ y.id = op[c].id /\ y.serial = ack[op[c].id]
      BY <2>2, <2>3 DEF Call
    <2>5. Goto(c, y) /\ RaiseSound(y) /\ AckSound(y) /\ y.at \notin Raising
      BY <2>1, <2>2, <2>3, <2>4 DEF RaiseSound, AckSound, Raising
    <2>6. op' \in [Calls -> Call] /\ CallsSound' /\ HistoriesSound' /\ WalkSound'
      BY <2>1, <2>5, OnlyTheCall
    <2>7. TypeOK'
      BY <2>1, <2>5, <2>6, OnlyTheCall DEF NoteInv, TypeOK, counts
    <2> QED
      BY <2>6, <2>7 DEF NoteInv
  <1>2. CASE Return(c) \/ Fail(c)
    <2>1. Goto(c, Idle) /\ UNCHANGED rows /\ UNCHANGED <<walk, counts>>
      BY <1>2 DEF Return, Fail
    <2>2. Idle \in Call /\ RaiseSound(Idle) /\ AckSound(Idle) /\ Idle.at \notin Raising
      BY IdleCall DEF Sound, Raising
    <2>3. op' \in [Calls -> Call] /\ CallsSound' /\ HistoriesSound' /\ WalkSound'
      BY <2>1, <2>2, OnlyTheCall
    <2>4. TypeOK'
      BY <2>1, <2>2, <2>3, OnlyTheCall DEF NoteInv, TypeOK, counts
    <2> QED
      BY <2>3, <2>4 DEF NoteInv
  <1> QED
    BY <1>1, <1>2

-----------------------------------------------------------------------------
(* The pages of receipts.                                                  *)

\* Of a set of ids that is not empty one is the least.
LEMMA LeastId ==
  ASSUME NEW S \in SUBSET Nat, S # {}
  PROVE  \E x \in S : \A y \in S : x <= y
  <1> DEFINE R == OpToRel(<, Nat)
  <1>1. IsWellFoundedOn(R, Nat)
    BY NatLessThanWellFounded
  <1> HIDE DEF R
  <1>2. PICK x \in S : \A y \in S : <<y, x>> \notin R
    BY <1>1, WFMin
  <1>3. \A y \in S : ~(y < x)
    BY <1>2 DEF R, OpToRel
  <1> QED
    BY <1>3

\* The ids of a set up to a given one are finitely many, and more the
\* further one counts.
LEMMA RanksGrow ==
  ASSUME NEW B \in SUBSET Nat, NEW i \in B
  PROVE  LET Upto(k) == {j \in B : j <= k} IN
         /\ Cardinality(Upto(i)) \in Nat
         /\ \A j \in B : j <= i => Cardinality(Upto(j)) <= Cardinality(Upto(i))
         /\ \A j \in B : j < i => Cardinality(Upto(j)) < Cardinality(Upto(i))
  <1> DEFINE Upto(k) == {j \in B : j <= k}
  <1>1. IsFiniteSet(Upto(i))
    <2>1. Upto(i) \in SUBSET Nat /\ \A s \in Upto(i) : s <= i
      OBVIOUS
    <2> HIDE DEF Upto
    <2> QED
      BY <2>1, FS_BoundedSetOfNaturals
  <1>2. Cardinality(Upto(i)) \in Nat
    BY <1>1, FS_CardinalityType
  <1>3. ASSUME NEW j \in B, j <= i
        PROVE  /\ Cardinality(Upto(j)) <= Cardinality(Upto(i))
               /\ j # i => Cardinality(Upto(j)) < Cardinality(Upto(i))
    <2>1. Upto(j) \subseteq Upto(i) /\ (j # i => i \in Upto(i) \ Upto(j))
      <3>1. i \in Nat /\ j \in Nat /\ B \subseteq Nat
        OBVIOUS
      <3>2. \A k \in B : k <= j => k <= i
        BY <1>3, <3>1
      <3>3. j # i => ~(i <= j)
        BY <1>3, <3>1
      <3>4. i \in Upto(i)
        BY <3>1
      <3> QED
        BY <3>2, <3>3, <3>4
    <2> HIDE DEF Upto
    <2>2. /\ IsFiniteSet(Upto(j)) /\ Cardinality(Upto(j)) <= Cardinality(Upto(i))
          /\ Cardinality(Upto(i)) = Cardinality(Upto(j)) => Upto(i) = Upto(j)
      BY <1>1, <2>1, FS_Subset
    <2>3. Cardinality(Upto(j)) \in Nat
      BY <2>2, FS_CardinalityType
    <2> QED
      BY <1>2, <2>1, <2>2, <2>3
  <1>4. \A j \in B : j < i => j <= i /\ j # i
    OBVIOUS
  <1> HIDE DEF Upto
  <1>5. /\ \A j \in B : j <= i => Cardinality(Upto(j)) <= Cardinality(Upto(i))
        /\ \A j \in B : j < i => Cardinality(Upto(j)) < Cardinality(Upto(i))
    BY <1>3, <1>4
  <1> QED
    BY <1>2, <1>5 DEF Upto

\* A page is the first so many receipts beyond the cursor: it skips none,
\* it has a last one, and it is empty only if there are none left.
LEMMA PageFacts ==
  ASSUME TypeOK, NEW after \in Nat
  PROVE  LET B == Beyond(after)
             P == ReceiptsPage(after) IN
         /\ P \subseteq B
         /\ \A i \in P, j \in B : j <= i => j \in P
         /\ P = {} => B = {}
         /\ P # {} => \E m \in P : \A i \in P : i <= m
  <1> DEFINE B == Beyond(after)
             P == ReceiptsPage(after)
             Rank(i) == Cardinality({j \in B : j <= i})
  <1>1. B \in SUBSET Nat
    BY IdsAssumption DEF Beyond, Raised
  <1>2. P = {i \in B : Rank(i) <= PageLimit}
    BY DEF ReceiptsPage
  <1> HIDE DEF B, P
  <1>3. \A i \in B : /\ Rank(i) \in Nat
                     /\ \A j \in B : j <= i => Rank(j) <= Rank(i)
                     /\ \A j \in B : j < i => Rank(j) < Rank(i)
    BY <1>1, RanksGrow
  <1>4. ASSUME B # {} PROVE P # {}
    <2>1. PICK b \in B : \A j \in B : b <= j
      BY <1>1, <1>4, LeastId
    <2>2. {j \in B : j <= b} = {b}
      <3>1. \A j \in B : j \in Nat /\ (j <= b => j = b) /\ b <= b
        BY <1>1, <2>1
      <3> QED
        BY <3>1
    <2>3. Rank(b) = 1
      BY <2>2, FS_Singleton
    <2> HIDE DEF Rank
    <2> QED
      BY <1>2, <2>3, PageLimitAssumption
  <1> HIDE DEF Rank
  <1>5. P \subseteq B
    BY <1>2
  <1>6. \A i \in P, j \in B : j <= i => j \in P
    BY <1>2, <1>3, PageLimitAssumption
  <1>7. ASSUME P # {} PROVE \E m \in P : \A i \in P : i <= m
    <2> DEFINE T == {PageLimit - Rank(i) : i \in P}
    <2>1. \A i \in P : PageLimit - Rank(i) \in Nat
      BY <1>2, <1>3, PageLimitAssumption
    <2>2. T \in SUBSET Nat /\ T # {}
      BY <1>7, <2>1
    <2>3. PICK t \in T : \A u \in T : t <= u
      <3> HIDE DEF T
      <3> QED
        BY <2>2, LeastId
    <2>4. PICK m \in P : t = PageLimit - Rank(m)
      OBVIOUS
    <2>5. ASSUME NEW i \in P PROVE i <= m
      <3>1. PageLimit - Rank(m) <= PageLimit - Rank(i)
        BY <2>3, <2>4
      <3>2. i \in B /\ m \in B /\ i \in Nat /\ m \in Nat
        BY <1>1, <1>5
      <3>3. Rank(i) \in Nat /\ Rank(m) \in Nat /\ (m < i => Rank(m) < Rank(i))
        BY <1>3, <3>2
      <3> HIDE DEF T
      <3> QED
        BY <3>1, <3>2, <3>3, PageLimitAssumption
    <2> QED
      BY <2>5
  <1> QED
    BY <1>4, <1>5, <1>6, <1>7 DEF B, P

LEMMA WalkIds ==
  ASSUME TypeOK
  PROVE  walk \in Walk /\ walk.after \in Nat /\ walk.page \subseteq Nat
         /\ walk.seen \subseteq Nat /\ walk.due \subseteq Nat
  <1>1. \A i \in Ids \cup {0} : i \in Nat
    BY IdsAssumption
  <1>2. /\ walk \in Walk /\ walk.after \in Ids \cup {0} /\ walk.page \subseteq Ids
        /\ walk.seen \subseteq Ids /\ walk.due \subseteq Ids
    BY DEF TypeOK, Walk
  <1>3. walk.after \in Nat
    BY <1>1, <1>2, Zenon
  <1> QED
    BY <1>1, <1>2, <1>3

LEMMA ReceiptsKeep ==
  ASSUME NoteInv, Receipts
  PROVE  NoteInv'
  <1>1. UNCHANGED <<rows, op, counts>>
    BY DEF Receipts, StartWalk, ReceiptsSent, ReceiptsAcks
  <1>2. /\ note' = note /\ ack' = ack /\ muted' = muted /\ pushed' = pushed /\ op' = op
        /\ Raised' = Raised /\ Acknowledged' = Acknowledged /\ Grows
    BY <1>1, RowsKept DEF rows
  <1>3. CallsSound' /\ HistoriesSound'
    <2>1. ASSUME NEW c \in Calls, NEW x \in Call, op'[c] = x PROVE Sound(x)'
      BY <1>2, <2>1, SoundStays DEF NoteInv, CallsSound
    <2> QED
      BY <1>2, <2>1 DEF CallsSound, HistoriesSound, HistorySound, MutedFor, NoteInv
  <1>4. walk \in Walk /\ walk.after \in Nat /\ walk.page \subseteq Nat /\ walk.seen \subseteq Nat
        /\ walk.due \subseteq Nat /\ Raised \subseteq Ids /\ WalkSound
    BY WalkIds DEF NoteInv, Raised
  <1>5. walk' \in Walk /\ WalkSound'
    <2>1. CASE StartWalk
      <3>1. /\ walk.at = "idle"
            /\ walk' = [walk EXCEPT !.at = "sent", !.due = Raised, !.dueAck = Acknowledged]
        BY <2>1 DEF StartWalk
      <3>2. /\ walk' \in Walk /\ walk'.at = "sent" /\ walk'.due = Raised
            /\ walk'.dueAck = Acknowledged /\ walk'.after = walk.after
            /\ walk'.page = walk.page /\ walk'.seen = walk.seen /\ walk'.seenAck = walk.seenAck
        BY <1>4, <3>1 DEF Walk, Acknowledged
      <3>3. Acknowledged \subseteq Raised
        BY DEF NoteInv, TypeOK
      <3> QED
        BY <1>2, <1>4, <3>1, <3>2, <3>3, IdsAssumption DEF WalkSound
    <2>2. CASE ReceiptsSent
      <3> DEFINE P == ReceiptsPage(walk.after)
                 B == Beyond(walk.after)
      <3>1. /\ walk.at = "sent"
            /\ walk' = [walk EXCEPT !.at = IF P = {} THEN "done" ELSE "acks", !.page = P]
        BY <2>2 DEF ReceiptsSent
      <3>2. /\ P \subseteq B
            /\ \A i \in P, j \in B : j <= i => j \in P
            /\ P = {} => B = {}
            /\ P # {} => \E m \in P : \A i \in P : i <= m
        BY <1>4, PageFacts DEF NoteInv
      <3>3. B = {i \in Raised : i > walk.after}
        BY DEF Beyond
      <3> HIDE DEF P, B
      <3>4. /\ walk' \in Walk /\ walk'.at = (IF P = {} THEN "done" ELSE "acks")
            /\ walk'.page = P /\ walk'.due = walk.due
            /\ walk'.dueAck = walk.dueAck /\ walk'.after = walk.after
            /\ walk'.seen = walk.seen /\ walk'.seenAck = walk.seenAck
        BY <1>4, <3>1, <3>2, <3>3 DEF Walk
      <3>5. \A i \in P : walk.after < i
        BY <1>4, <3>2, <3>3
      <3>6. \A i \in walk.due, m \in P : walk.after < i /\ i <= m => i \in P
        BY <1>4, <3>2, <3>3 DEF WalkSound
      <3>7. P = {} => walk.due \subseteq walk.seen
        BY <1>4, <3>2, <3>3 DEF WalkSound
      <3>8. walk'.at # "idle" /\ (walk'.at = "acks" <=> P # {}) /\ (walk'.at = "done" <=> P = {})
        BY <3>4
      <3> QED
        BY <1>2, <1>4, <3>2, <3>4, <3>5, <3>6, <3>7, <3>8 DEF WalkSound
    <2>3. CASE ReceiptsAcks
      <3> DEFINE m == CHOOSE i \in walk.page : \A j \in walk.page : j <= i
      <3>1. /\ walk.at = "acks"
            /\ walk' = [walk EXCEPT !.at = "sent", !.page = {}, !.after = m,
                         !.seen = @ \cup walk.page,
                         !.seenAck = @ \cup (walk.page \cap Acknowledged)]
        BY <2>3 DEF ReceiptsAcks
      <3>2. m \in walk.page /\ \A j \in walk.page : j <= m
        BY <1>4, <3>1 DEF WalkSound
      <3> HIDE DEF m
      <3>3. /\ walk' \in Walk /\ walk'.at = "sent" /\ walk'.page = {} /\ walk'.after = m
            /\ walk'.seen = walk.seen \cup walk.page
            /\ walk'.seenAck = walk.seenAck \cup (walk.page \cap Acknowledged)
            /\ walk'.due = walk.due /\ walk'.dueAck = walk.dueAck
        BY <1>4, <3>1, <3>2 DEF Walk
      <3>4. m \in Nat /\ walk.after < m
        BY <1>4, <3>2 DEF WalkSound
      <3>5. \A i \in walk'.seen : i <= m
        BY <1>4, <3>2, <3>3, <3>4 DEF WalkSound
      <3>6. \A i \in walk.due : i <= m => i \in walk'.seen
        BY <1>4, <3>1, <3>2, <3>3, <3>4 DEF WalkSound
      <3>7. walk.dueAck \cap walk'.seen \subseteq walk'.seenAck
            /\ walk'.seenAck \subseteq Acknowledged
        BY <1>4, <3>3 DEF WalkSound
      <3> QED
        BY <1>2, <1>4, <3>3, <3>5, <3>6, <3>7 DEF WalkSound
    <2> QED
      BY <2>1, <2>2, <2>3 DEF Receipts
  <1>6. TypeOK'
    BY <1>1, <1>2, <1>5 DEF NoteInv, TypeOK, counts
  <1> QED
    BY <1>3, <1>5, <1>6 DEF NoteInv

-----------------------------------------------------------------------------
LEMMA NextNoteInv == NoteInv /\ [Next]_vars => NoteInv'
  <1> SUFFICES ASSUME NoteInv, [Next]_vars PROVE NoteInv'
    OBVIOUS
  <1>1. ASSUME NEW c \in Calls, NEW e \in Events, NEW s \in SUBSET Actors,
               NEW g \in Given \cup {0}, StartRaise(c, e, s, g)
        PROVE  NoteInv'
    BY <1>1, StartRaiseKeeps
  <1>2. ASSUME NEW c \in Calls, NEW a \in Actors, NEW i \in Ids, AckRead(c, a, i) PROVE NoteInv'
    BY <1>2, AckReadKeeps
  <1>3. ASSUME NEW c \in Calls, Raise(c) PROVE NoteInv'
    BY <1>3, AskMutedKeeps, InsertNoteKeeps, HandToPushKeeps DEF Raise
  <1>4. ASSUME NEW c \in Calls, Acknowledge(c) \/ Return(c) \/ Fail(c) PROVE NoteInv'
    BY <1>4, AckInsertKeeps, CallEndsKeeps DEF Acknowledge
  <1>5. ASSUME NEW a \in Actors, NEW k \in Categories, NEW m \in BOOLEAN, SetPreference(a, k, m)
        PROVE  NoteInv'
    BY <1>5, SetPreferenceKeeps
  <1>6. CASE Receipts
    BY <1>6, ReceiptsKeep
  <1>7. CASE UNCHANGED vars
    <2>1. UNCHANGED rows /\ op' = op /\ walk' = walk /\ UNCHANGED counts
      BY <1>7 DEF vars
    <2>2. Grows /\ muted' = muted /\ Raised' = Raised /\ Acknowledged' = Acknowledged
      BY <2>1, RowsKept
    <2>3. CallsSound'
      <3>1. ASSUME NEW c \in Calls, NEW x \in Call, op'[c] = x PROVE Sound(x)'
        BY <2>1, <2>2, <3>1, SoundStays DEF NoteInv, CallsSound
      <3> QED
        BY <3>1 DEF CallsSound
    <2>4. HistoriesSound' /\ WalkSound'
      BY <2>1, <2>2, WalkStays DEF NoteInv, HistoriesSound, HistorySound, MutedFor
    <2>5. TypeOK'
      BY <2>1, <2>2 DEF rows, counts, NoteInv, TypeOK
    <2> QED
      BY <2>3, <2>4, <2>5 DEF NoteInv
  <1> QED
    BY <1>1, <1>2, <1>3, <1>4, <1>5, <1>6, <1>7 DEF Next

\* What the notifications, the calls about them and the sender's walk stay
\* true to in every step.
THEOREM NoteInvariance == Spec => []NoteInv
  BY InitNoteInv, NextNoteInv, PTL DEF Spec

(* Rows of both kinds keep their types, a row that was acknowledged or     *)
(* handed to Web Push was raised, and no preference mutes an exempt        *)
(* category.                                                               *)
THEOREM NoteTypeCorrect == Spec => []TypeOK
  BY NoteInvariance, PTL DEF NoteInv

(* Raise and RaiseToAudience reach nobody who had muted the category all   *)
(* the while, unless the event cannot be muted, whatever preferences are   *)
(* set between the read of the mute and the insert.                        *)
THEOREM MutesHonoured == Spec => []MuteIsHonoured
  <1>1. NoteInv => MuteIsHonoured
    <2> SUFFICES ASSUME NoteInv, NEW c \in Calls, op[c].at \in {"ask", "insert", "push", "answer"}
                 PROVE  /\ op[c].event \notin Unmutable =>
                             \A i \in op[c].raised : note[i].actor \notin op[c].always
                        /\ op[c].quiet # {} => /\ op[c].event \notin Unmutable
                                               /\ op[c].quiet \subseteq op[c].ever
      BY DEF MuteIsHonoured
    <2>1. Sorted(op[c]) /\ Told(op[c])
      BY InCall DEF RaiseSound, Raising
    <2> QED
      BY <2>1 DEF Sorted, Told
  <1> QED
    BY <1>1, NoteInvariance, PTL

(* RaiseToAudience's answer is complete: of those resolved each was raised *)
(* for once, with a row of their own handed to Web Push, or is missed for  *)
(* one reason, and nobody else is in it, however many calls and changes    *)
(* came between.                                                           *)
THEOREM AudienceComplete == Spec => []AudienceAccounted
  <1>1. NoteInv => AudienceAccounted
    <2> SUFFICES ASSUME NoteInv, NEW c \in Calls, op[c].at = "answer"
                 PROVE  LET told == {note[i].actor : i \in op[c].raised} IN
                        /\ told \cup op[c].quiet \cup op[c].spent = op[c].resolved
                        /\ told \cap (op[c].quiet \cup op[c].spent) = {}
                        /\ op[c].quiet \cap op[c].spent = {}
                        /\ Cardinality(told) = Cardinality(op[c].raised)
                        /\ \A i \in op[c].raised : note[i].event = op[c].event
                        /\ op[c].raised \subseteq pushed
                        /\ \A a \in op[c].spent :
                             CapSpent(op[c].event, a) \/ op[c].given \in Raised
      BY DEF AudienceAccounted
    <2> DEFINE told == {note[i].actor : i \in op[c].raised}
               f == [i \in op[c].raised |-> note[i].actor]
    <2>1. Sorted(op[c]) /\ Told(op[c]) /\ Placed(op[c], {}) /\ op[c].at = "answer"
      BY InCall DEF RaiseSound
    <2>2. told \cup op[c].quiet \cup op[c].spent = op[c].resolved
      BY <2>1 DEF Sorted, Placed
    <2>3. f \in Bijection(op[c].raised, told)
      BY <2>1 DEF Told, Bijection, Injection, Surjection, IsInjective
    <2>4. Cardinality(told) = Cardinality(op[c].raised)
      <3> HIDE DEF f, told
      <3> QED
        BY <2>1, <2>3, FS_Bijection DEF Sorted, ExistsBijection
    <2>5. told \cap (op[c].quiet \cup op[c].spent) = {}
      BY <2>1 DEF Told
    <2> QED
      BY <2>1, <2>2, <2>4, <2>5 DEF Sorted, Told
  <1> QED
    BY <1>1, NoteInvariance, PTL

(* AcknowledgeNotification answers the first acknowledgement, whichever of *)
(* the devices that raced for it is asked, and that one stays stored.      *)
THEOREM FirstStands == Spec => []FirstAcknowledgementStands
  <1>1. NoteInv => FirstAcknowledgementStands
    BY InCall DEF FirstAcknowledgementStands, AckSound
  <1> QED
    BY <1>1, NoteInvariance, PTL

(* NotificationReceipts, walked page by page while notifications are still *)
(* raised and acknowledged, passes over none that was there when the walk  *)
(* began and shows none twice, whatever the page's limit.                  *)
THEOREM NobodyMissed == Spec => []ReceiptsMissNobody
  <1>1. NoteInv => ReceiptsMissNobody
    <2> SUFFICES ASSUME NoteInv PROVE ReceiptsMissNobody
      OBVIOUS
    <2>1. WalkSound /\ walk.after \in Nat /\ walk.page \subseteq Nat
      BY WalkIds DEF NoteInv
    <2>2. walk.page \cap walk.seen = {}
      BY <2>1 DEF WalkSound
    <2> QED
      BY <2>1, <2>2 DEF WalkSound, ReceiptsMissNobody
  <1> QED
    BY <1>1, NoteInvariance, PTL

-----------------------------------------------------------------------------
(* Web Push.                                                               *)

\* Ids are minted in order, and whoever holds a row is its last subscriber.
RowsMinted == \A e \in Endpoints : /\ subs[e].id <= minted
                                   /\ subs[e] # NoSub => user[e] = subs[e].owner

\* What the recipient of a raised notification uses is noted for it.
UsersNoted ==
  \A n \in Notices : job[n].at # "none" =>
    \A e \in Endpoints : user[e] = ActorOf[n] => e \in usedSince[n]

\* A listed id is of the endpoint it was listed with, or of none any more.
Listed(n, s) ==
  /\ s[1] \in usedSince[n]
  /\ s[2] <= minted
  /\ \A e \in Endpoints : subs[e].id = s[2] => e = s[1]

ListsSound == \A n \in Notices : \A s \in job[n].todo : Listed(n, s)

\* What is not raised is not listed for and not sent.
NotBefore ==
  \A n \in Notices : job[n].at = "none" =>
    job[n].todo = {} /\ \A t \in sends : t[1] # n

PushInv ==
  /\ PushTypeOK /\ RowsMinted /\ UsersNoted /\ ListsSound /\ NotBefore
  /\ SentToOwnBrowsers /\ AttemptsAccounted

LEMMA InitPushInv == PushInit => PushInv
  BY MaxIdsAssumption DEF PushInit, PushInv, PushTypeOK, RowsMinted, UsersNoted,
     ListsSound, NotBefore, SentToOwnBrowsers, AttemptsAccounted, NoSub, NoJob, Job

\* The rows there are, and what is no row.
LEMMA RowsTyped ==
  ASSUME PushTypeOK, NEW e \in Endpoints
  PROVE  /\ subs[e] # NoSub => subs[e] \in Subscription
         /\ subs[e].id \in Nat
         /\ subs[e].owner \in Recipients => subs[e] # NoSub
  BY NoRecipientAssumption DEF PushTypeOK, Subscription, NoSub, SubIds

\* What was noted for a raised notification stays noted, with who uses what now.
LEMMA NotesGrow ==
  ASSUME PushTypeOK, NoteUsers, user' \in [Endpoints -> Recipients \cup {NoRecipient}]
  PROVE  /\ usedSince' \in [Notices -> SUBSET Endpoints]
         /\ \A n \in Notices : job'[n].at # "none" =>
              /\ usedSince[n] \subseteq usedSince'[n]
              /\ \A e \in Endpoints : user'[e] = ActorOf[n] => e \in usedSince'[n]
  BY DEF PushTypeOK, NoteUsers

\* A browser's row changes hands, comes or goes: lists made before it name
\* the endpoint by an id no other endpoint gets.
LEMMA BrowserKeepsInv ==
  ASSUME PushInv, NEW e \in Endpoints, NEW r \in Subscription \cup {NoSub},
         NEW u \in Recipients \cup {NoRecipient},
         subs' = [subs EXCEPT ![e] = r], user' = [user EXCEPT ![e] = u],
         minted' \in minted .. MaxIds,
         r # NoSub => /\ u = r.owner /\ r.id <= minted'
                      /\ r.id = subs[e].id \/ r.id > minted,
         NoteUsers, UNCHANGED <<served, job, log, reported, sends>>
  PROVE  PushInv'
  <1>1. PushTypeOK /\ RowsMinted
    BY DEF PushInv
  <1>2. minted \in Nat /\ minted' \in Nat /\ minted <= minted'
    BY <1>1 DEF PushTypeOK
  <1>3. /\ subs'[e] = r /\ user'[e] = u
        /\ \A f \in Endpoints \ {e} : subs'[f] = subs[f] /\ user'[f] = user[f]
    BY <1>1 DEF PushTypeOK
  <1>4. user' \in [Endpoints -> Recipients \cup {NoRecipient}]
    BY <1>1 DEF PushTypeOK
  <1>5. /\ usedSince' \in [Notices -> SUBSET Endpoints]
        /\ \A n \in Notices : job[n].at # "none" =>
             /\ usedSince[n] \subseteq usedSince'[n]
             /\ \A f \in Endpoints : user'[f] = ActorOf[n] => f \in usedSince'[n]
    BY <1>1, <1>4, NotesGrow
  <1>6. /\ r # NoSub => r.id \in Nat \ {0}
        /\ NoSub.id = 0 /\ \A f \in Endpoints : subs[f].id \in Nat
        /\ \A f \in Endpoints : subs[f] # NoSub => subs[f].id # 0
    BY <1>1, RowsTyped DEF Subscription, SubIds, NoSub
  <1>7. RowsMinted'
    BY <1>1, <1>2, <1>3, <1>6 DEF RowsMinted
  <1>8. ASSUME NEW f \in Endpoints, NEW g \in Endpoints, subs'[f].id = subs'[g].id
        PROVE  f = g \/ subs'[f] = NoSub
    BY <1>1, <1>2, <1>3, <1>6, <1>8 DEF PushTypeOK, RowsMinted
  <1>9. PushTypeOK'
    BY <1>1, <1>2, <1>4, <1>5, <1>8 DEF PushTypeOK
  <1>10. ASSUME NEW n \in Notices, NEW s \in job[n].todo
         PROVE  s[1] \in usedSince'[n] /\ s[2] <= minted'
                /\ \A f \in Endpoints : subs'[f].id = s[2] => f = s[1]
    <2>1. Listed(n, s) /\ s[2] \in SubIds
      BY <1>1, <1>10 DEF PushInv, ListsSound, PushTypeOK, Job
    <2>2. job[n].at # "none"
      BY <1>10 DEF PushInv, NotBefore
    <2>3. s[2] \in Nat \ {0}
      BY <2>1 DEF SubIds
    <2> QED
      BY <1>2, <1>3, <1>5, <1>6, <2>1, <2>2, <2>3 DEF Listed
  <1>11. ListsSound' /\ NotBefore' /\ UsersNoted'
    BY <1>5, <1>10 DEF ListsSound, Listed, PushInv, NotBefore, UsersNoted
  <1>12. SentToOwnBrowsers'
    BY <1>5 DEF PushInv, NotBefore, SentToOwnBrowsers
  <1>13. AttemptsAccounted'
    BY DEF PushInv, AttemptsAccounted
  <1> QED
    BY <1>7, <1>9, <1>11, <1>12, <1>13 DEF PushInv

\* The three things a browser does.
LEMMA BrowserKeepsPush ==
  ASSUME PushInv, Browser
  PROVE  PushInv'
  <1>1. PushTypeOK /\ minted \in Nat /\ MaxIds \in Nat
    BY MaxIdsAssumption DEF PushInv, PushTypeOK
  <1>2. ASSUME NEW a \in Recipients, NEW e \in Endpoints, SubscribePush(a, e)
        PROVE  PushInv'
    <2> DEFINE r == [id |-> IF subs[e] = NoSub THEN minted' ELSE subs[e].id, owner |-> a]
    <2>1. subs' = [subs EXCEPT ![e] = r] /\ user' = [user EXCEPT ![e] = a]
      BY <1>2 DEF SubscribePush
    <2>2. minted' = minted + 1 /\ minted < MaxIds
      BY <1>2 DEF SubscribePush
    <2>3. subs[e] # NoSub => subs[e].id \in SubIds /\ subs[e].id <= minted
      BY <1>1, RowsTyped DEF Subscription, PushInv, RowsMinted
    <2>4. r \in Subscription /\ r.id <= minted' /\ r.owner = a
      BY <1>1, <2>2, <2>3 DEF Subscription, SubIds
    <2>5. r.id = subs[e].id \/ r.id > minted
      BY <1>1, <2>2
    <2>6. minted' \in minted .. MaxIds
      BY <1>1, <2>2
    <2> HIDE DEF r
    <2> QED
      BY <1>2, <2>1, <2>4, <2>5, <2>6, BrowserKeepsInv DEF SubscribePush
  <1>3. ASSUME NEW a \in Recipients, NEW e \in Endpoints, UnsubscribePush(a, e)
        PROVE  PushInv'
    <2>1. minted' \in minted .. MaxIds
      BY <1>1, <1>3 DEF UnsubscribePush, PushTypeOK
    <2> QED
      BY <1>3, <2>1, BrowserKeepsInv DEF UnsubscribePush
  <1>4. ASSUME NEW e \in Endpoints, Expire(e) PROVE PushInv'
    BY <1>4 DEF Expire, PushInv, PushTypeOK, RowsMinted, UsersNoted, ListsSound,
       Listed, NotBefore, SentToOwnBrowsers, AttemptsAccounted
  <1> QED
    BY <1>2, <1>3, <1>4 DEF Browser

\* A delivery moves on, and its list grows by nothing but what is its
\* recipient's.
LEMMA MoveKeepsInv ==
  ASSUME PushInv, NEW n \in Notices, NEW j \in Job, job' = [job EXCEPT ![n] = j],
         j.at # "none", job[n].at # "none",
         \A s \in j.todo : Listed(n, s),
         UNCHANGED <<browsers, log, reported, usedSince, sends>>
  PROVE  PushInv'
  <1> USE DEF browsers
  <1>1. job'[n] = j /\ \A m \in Notices \ {n} : job'[m] = job[m]
    BY DEF PushInv, PushTypeOK
  <1>2. PushTypeOK' /\ RowsMinted'
    BY DEF PushInv, PushTypeOK, RowsMinted
  <1>3. UsersNoted' /\ ListsSound' /\ NotBefore'
    BY <1>1 DEF PushInv, UsersNoted, ListsSound, Listed, NotBefore
  <1>4. SentToOwnBrowsers' /\ AttemptsAccounted'
    BY DEF PushInv, SentToOwnBrowsers, AttemptsAccounted
  <1> QED
    BY <1>2, <1>3, <1>4 DEF PushInv

\* The stages of a delivery are deliveries.
LEMMA StagesTyped ==
  ASSUME PushTypeOK, NEW n \in Notices
  PROVE  /\ \A p \in {"waiting", "done"} :
              [NoJob EXCEPT !.at = p] \in Job /\ [NoJob EXCEPT !.at = p].at = p
              /\ [NoJob EXCEPT !.at = p].todo = {}
         /\ LET j == [job[n] EXCEPT !.at = "listing"] IN
              j \in Job /\ j.at = "listing" /\ j.todo = job[n].todo
         /\ LET j == [job[n] EXCEPT !.late = TRUE] IN
              j \in Job /\ j.at = job[n].at /\ j.todo = job[n].todo
         /\ \A left \in SUBSET (Endpoints \X SubIds) :
              LET j == [job[n] EXCEPT !.at = "sending", !.todo = left] IN
              j \in Job /\ j.at = "sending" /\ j.todo = left
  BY DEF PushTypeOK, Job, NoJob

\* On to the rest of the list, or the end.
LEMMA AfterMoves ==
  ASSUME PushTypeOK, NEW n \in Notices, NEW left \in SUBSET (Endpoints \X SubIds),
         After(n, left)
  PROVE  \E j \in Job : /\ job' = [job EXCEPT ![n] = j]
                        /\ j.at # "none" /\ j.todo = left
  <1>1. CASE left = {}
    <2> DEFINE j == [NoJob EXCEPT !.at = "done"]
    <2>1. j \in Job /\ j.at = "done" /\ j.todo = {}
      BY StagesTyped
    <2>2. job' = [job EXCEPT ![n] = j]
      BY <1>1 DEF After, Advance
    <2> HIDE DEF j
    <2> QED
      BY <1>1, <2>1, <2>2
  <1>2. CASE left # {}
    <2> DEFINE j == [job[n] EXCEPT !.at = "sending", !.todo = left]
    <2>1. j \in Job /\ j.at = "sending" /\ j.todo = left
      BY StagesTyped
    <2>2. job' = [job EXCEPT ![n] = j]
      BY <1>2 DEF After, Advance
    <2> HIDE DEF j
    <2> QED
      BY <2>1, <2>2
  <1> QED
    BY <1>1, <1>2

\* A notification is raised: who uses what is noted from now on.
LEMMA RaisedKeepsInv ==
  ASSUME PushInv, NEW n \in Notices, OnRaised(n)
  PROVE  PushInv'
  <1> DEFINE j == [NoJob EXCEPT !.at = "waiting"]
  <1> USE DEF browsers
  <1>1. PushTypeOK /\ j \in Job /\ j.at = "waiting" /\ j.todo = {}
    BY StagesTyped DEF PushInv
  <1>2. job' = [job EXCEPT ![n] = j] /\ NoteUsers
    BY DEF OnRaised, Advance
  <1> HIDE DEF j
  <1>3. job'[n] = j /\ \A m \in Notices \ {n} : job'[m] = job[m]
    BY <1>1, <1>2 DEF PushTypeOK
  <1>4. user' \in [Endpoints -> Recipients \cup {NoRecipient}]
    BY <1>1 DEF OnRaised, PushTypeOK
  <1>5. /\ usedSince' \in [Notices -> SUBSET Endpoints]
        /\ \A m \in Notices : job'[m].at # "none" =>
             /\ usedSince[m] \subseteq usedSince'[m]
             /\ \A e \in Endpoints : user'[e] = ActorOf[m] => e \in usedSince'[m]
    BY <1>1, <1>2, <1>4, NotesGrow
  <1>6. PushTypeOK' /\ RowsMinted'
    BY <1>1, <1>2, <1>5 DEF OnRaised, PushInv, PushTypeOK, RowsMinted
  <1>7. ListsSound'
    <2> SUFFICES ASSUME NEW m \in Notices, NEW s \in job'[m].todo PROVE Listed(m, s)'
      BY DEF ListsSound
    <2>1. m # n /\ s \in job[m].todo
      BY <1>1, <1>3
    <2>2. Listed(m, s) /\ job'[m].at # "none"
      BY <1>3, <2>1 DEF PushInv, ListsSound, NotBefore
    <2> QED
      BY <1>5, <2>2 DEF Listed, OnRaised
  <1>8. NotBefore' /\ UsersNoted'
    BY <1>1, <1>3, <1>5 DEF PushInv, NotBefore, UsersNoted, OnRaised
  <1>9. SentToOwnBrowsers'
    BY <1>1, <1>3, <1>5 DEF PushInv, NotBefore, SentToOwnBrowsers, OnRaised
  <1>10. AttemptsAccounted'
    BY DEF PushInv, AttemptsAccounted, OnRaised
  <1> QED
    BY <1>6, <1>7, <1>8, <1>9, <1>10 DEF PushInv

\* The list is of the rows the recipient holds at the moment.
LEMMA ListingKeepsInv ==
  ASSUME PushInv, NEW n \in Notices,
         TakeSlot(n) \/ Timeout(n) \/ ListSubscriptions(n) \/ ListFails(n)
  PROVE  PushInv'
  <1>1. PushTypeOK /\ \A s \in job[n].todo : Listed(n, s)
    BY DEF PushInv, ListsSound
  <1>2. CASE TakeSlot(n)
    <2> DEFINE j == [job[n] EXCEPT !.at = "listing"]
    <2>1. j \in Job /\ j.at = "listing" /\ j.todo = job[n].todo
      BY <1>1, StagesTyped
    <2>2. job' = [job EXCEPT ![n] = j]
      BY <1>2 DEF TakeSlot, Advance
    <2> HIDE DEF j
    <2> QED
      BY <1>1, <1>2, <2>1, <2>2, MoveKeepsInv DEF TakeSlot
  <1>3. CASE Timeout(n)
    <2> DEFINE j == [job[n] EXCEPT !.late = TRUE]
    <2>1. j \in Job /\ j.at = job[n].at /\ j.todo = job[n].todo
      BY <1>1, StagesTyped
    <2>2. job' = [job EXCEPT ![n] = j]
      BY <1>3 DEF Timeout, Advance
    <2> HIDE DEF j
    <2> QED
      BY <1>1, <1>3, <2>1, <2>2, MoveKeepsInv DEF Timeout
  <1>4. CASE ListSubscriptions(n)
    <2> DEFINE left == {<<e, subs[e].id>> : e \in Held(ActorOf[n])}
    <2>1. job[n].at = "listing" /\ After(n, left)
      BY <1>4 DEF ListSubscriptions
    <2>2. ASSUME NEW e \in Held(ActorOf[n])
          PROVE  <<e, subs[e].id>> \in Endpoints \X SubIds /\ Listed(n, <<e, subs[e].id>>)
      <3>1. e \in Endpoints /\ subs[e].owner = ActorOf[n] /\ ActorOf[n] \in Recipients
        BY DEF Held
      <3>2. subs[e] # NoSub /\ subs[e] \in Subscription
        BY <1>1, <3>1, RowsTyped
      <3>3. e \in usedSince[n]
        BY <2>1, <3>1, <3>2 DEF PushInv, RowsMinted, UsersNoted
      <3>4. \A f \in Endpoints : subs[f].id = subs[e].id => f = e
        BY <1>1, <3>1, <3>2 DEF PushTypeOK
      <3> QED
        BY <3>1, <3>2, <3>3, <3>4 DEF PushInv, RowsMinted, Listed, Subscription
    <2>3. left \in SUBSET (Endpoints \X SubIds) /\ \A s \in left : Listed(n, s)
      BY <2>2
    <2> HIDE DEF left
    <2>4. PICK j \in Job : job' = [job EXCEPT ![n] = j] /\ j.at # "none" /\ j.todo = left
      BY <1>1, <2>1, <2>3, AfterMoves
    <2> QED
      BY <1>4, <2>1, <2>3, <2>4, MoveKeepsInv DEF ListSubscriptions
  <1>5. CASE ListFails(n)
    <2>1. PICK j \in Job : job' = [job EXCEPT ![n] = j] /\ j.at # "none" /\ j.todo = {}
      BY <1>1, <1>5, AfterMoves DEF ListFails
    <2> QED
      BY <1>5, <2>1, MoveKeepsInv DEF ListFails
  <1> QED
    BY <1>2, <1>3, <1>4, <1>5

\* A send, whatever comes of it, is of a listed subscription, and is recorded
\* or reported; at most the row of the listed id goes.
LEMMA SendKeepsInv ==
  ASSUME PushInv, NEW n \in Notices, NEW s \in job[n].todo, NEW state \in State,
         Tried(n, s, state), subs' \in {Dropped(n, s), subs},
         UNCHANGED <<minted, served, user, usedSince>>
  PROVE  PushInv'
  <1>1. /\ PushTypeOK /\ Listed(n, s) /\ job[n].at = "sending"
        /\ s \in Endpoints \X SubIds /\ job[n].todo \in SUBSET (Endpoints \X SubIds)
    BY DEF PushInv, ListsSound, Tried, PushTypeOK, Job
  <1>2. PICK j \in Job :
          job' = [job EXCEPT ![n] = j] /\ j.at # "none" /\ j.todo = job[n].todo \ {s}
    <2>1. job[n].todo \ {s} \in SUBSET (Endpoints \X SubIds)
      BY <1>1
    <2> QED
      BY <1>1, <2>1, AfterMoves DEF Tried
  <1>3. job'[n] = j /\ \A m \in Notices \ {n} : job'[m] = job[m]
    BY <1>1, <1>2 DEF PushTypeOK
  <1>4. \A e \in Endpoints : subs'[e] = subs[e] \/ subs'[e] = NoSub
    BY DEF Dropped
  <1>5. subs' \in [Endpoints -> Subscription \cup {NoSub}]
    BY <1>1 DEF Dropped, PushTypeOK
  <1>6. /\ sends' = sends \cup {<<n, s, state>>}
        /\ \/ log' = log \cup {<<n, s[2], state>>} /\ reported' = reported
           \/ reported' = reported \cup {<<n, s[2]>>} /\ log' = log
    BY DEF Tried, Record
  <1>7. /\ s[1] \in Endpoints /\ s[2] \in SubIds /\ s = <<s[1], s[2]>>
    BY <1>1
  <1>8. \A e, f \in Endpoints : subs'[e].id = subs'[f].id => e = f \/ subs'[e] = NoSub
    <2>1. \A e \in Endpoints : subs[e] # NoSub => subs[e].id # NoSub.id
      BY <1>1, RowsTyped DEF Subscription, SubIds, NoSub
    <2> QED
      BY <1>1, <1>4, <2>1 DEF PushTypeOK
  <1>9. PushTypeOK'
    BY <1>1, <1>2, <1>5, <1>6, <1>7, <1>8 DEF PushTypeOK
  <1>10. RowsMinted'
    <2>1. minted \in Nat /\ NoSub.id = 0
      BY <1>1 DEF PushTypeOK, NoSub
    <2> QED
      BY <1>4, <2>1 DEF PushInv, RowsMinted
  <1>11. UsersNoted'
    BY <1>1, <1>3 DEF PushInv, UsersNoted
  <1>12. ListsSound'
    <2> SUFFICES ASSUME NEW m \in Notices, NEW t \in job'[m].todo PROVE Listed(m, t)'
      BY DEF ListsSound
    <2>1. t \in job[m].todo
      BY <1>2, <1>3
    <2>2. Listed(m, t) /\ t[2] \in SubIds
      BY <1>1, <2>1 DEF PushInv, ListsSound, PushTypeOK, Job
    <2>3. NoSub.id # t[2]
      BY <2>2 DEF SubIds, NoSub
    <2> QED
      BY <1>4, <2>2, <2>3 DEF Listed
  <1>13. NotBefore'
    BY <1>2, <1>3, <1>6 DEF PushInv, NotBefore
  <1>14. SentToOwnBrowsers'
    BY <1>1, <1>6 DEF PushInv, SentToOwnBrowsers, Listed
  <1>15. AttemptsAccounted'
    <2>1. \A t \in sends : \/ <<t[1], t[2][2], t[3]>> \in log
                           \/ <<t[1], t[2][2]>> \in reported
      BY DEF PushInv, AttemptsAccounted
    <2>2. \A r \in log : \E e \in Endpoints : <<r[1], <<e, r[2]>>, r[3]>> \in sends
      BY DEF PushInv, AttemptsAccounted
    <2> DEFINE t == <<n, s, state>>
               r == <<n, s[2], state>>
    <2>3. t[1] = n /\ t[2] = s /\ t[3] = state
      OBVIOUS
    <2>4. r[1] = n /\ r[2] = s[2] /\ r[3] = state
      OBVIOUS
    <2>5. sends' = sends \cup {t} /\ sends \subseteq sends'
      BY <1>6
    <2>6. \/ log' = log \cup {r} /\ reported' = reported
          \/ reported' = reported \cup {<<n, s[2]>>} /\ log' = log
      BY <1>6
    <2>7. <<t[1], t[2][2], t[3]>> \in log' \/ <<t[1], t[2][2]>> \in reported'
      BY <2>3, <2>6
    <2>8. \E e \in Endpoints : <<r[1], <<e, r[2]>>, r[3]>> \in sends'
      BY <1>7, <2>4, <2>5
    <2> HIDE DEF t, r
    <2>9. \A u \in sends' : \/ <<u[1], u[2][2], u[3]>> \in log'
                            \/ <<u[1], u[2][2]>> \in reported'
      <3> SUFFICES ASSUME NEW u \in sends'
                   PROVE  \/ <<u[1], u[2][2], u[3]>> \in log'
                          \/ <<u[1], u[2][2]>> \in reported'
        OBVIOUS
      <3>1. CASE u = t
        BY <2>7, <3>1
      <3>2. CASE u \in sends
        BY <2>1, <2>6, <3>2
      <3> QED
        BY <2>5, <3>1, <3>2
    <2>10. \A u \in log' : \E e \in Endpoints : <<u[1], <<e, u[2]>>, u[3]>> \in sends'
      <3> SUFFICES ASSUME NEW u \in log'
                   PROVE  \E e \in Endpoints : <<u[1], <<e, u[2]>>, u[3]>> \in sends'
        OBVIOUS
      <3>1. CASE u = r
        BY <2>8, <3>1
      <3>2. CASE u \in log
        BY <2>2, <2>5, <3>2
      <3> QED
        BY <2>6, <3>1, <3>2
    <2> QED
      BY <2>9, <2>10 DEF AttemptsAccounted
  <1> QED
    BY <1>9, <1>10, <1>11, <1>12, <1>13, <1>14, <1>15 DEF PushInv

\* Every step keeps the invariant.
LEMMA NextPushInv == PushInv /\ [PushNext]_pushVars => PushInv'
  <1> SUFFICES ASSUME PushInv, [PushNext]_pushVars PROVE PushInv'
    OBVIOUS
  <1>1. CASE Browser
    BY <1>1, BrowserKeepsPush
  <1>2. ASSUME NEW n \in Notices, Deliver(n) PROVE PushInv'
    <2>1. ASSUME NEW s \in job[n].todo, SendAccepted(n, s) PROVE PushInv'
      BY <2>1, SendKeepsInv DEF SendAccepted, State, browsers
    <2>2. ASSUME NEW s \in job[n].todo, SendGone(n, s) PROVE PushInv'
      BY <2>2, SendKeepsInv DEF SendGone, State
    <2>3. ASSUME NEW s \in job[n].todo, SendFailed(n, s) PROVE PushInv'
      BY <2>3, SendKeepsInv DEF SendFailed, State, browsers
    <2> QED
      BY <1>2, <2>1, <2>2, <2>3, ListingKeepsInv DEF Deliver
  <1>3. CASE UNCHANGED pushVars
    BY <1>3 DEF pushVars, browsers, PushInv, PushTypeOK, RowsMinted, UsersNoted,
       ListsSound, Listed, NotBefore, SentToOwnBrowsers, AttemptsAccounted
  <1> QED
    BY <1>1, <1>2, <1>3, RaisedKeepsInv, ListingKeepsInv DEF PushNext

\* What the subscriptions, the lists read from them and the records of the
\* deliveries stay true to in every step.
THEOREM PushInvariance == PushSpec => []PushInv
  BY InitPushInv, NextPushInv, PTL DEF PushSpec

\* Rows, deliveries and records keep their types, and an id names one row.
THEOREM PushTypeCorrect == PushSpec => []PushTypeOK
  BY PushInvariance, PTL DEF PushInv

\* No push reaches a browser its recipient did not use since it was raised.
THEOREM OwnBrowsersOnly == PushSpec => []SentToOwnBrowsers
  BY PushInvariance, PTL DEF PushInv

\* Every send is in the log or was reported, and the log holds nothing else.
THEOREM SendsAccounted == PushSpec => []AttemptsAccounted
  BY PushInvariance, PTL DEF PushInv

\* Whoever the row of a listed id has passed to, it goes only with its
\* endpoint.
THEOREM WorkingStay == PushSpec => DropsOnlyTheGone
  <1>1. PushInv /\ [PushNext]_pushVars =>
          [\A e \in served : job' # job /\ subs[e] # NoSub => subs'[e] = subs[e]]_pushVars
    <2> SUFFICES ASSUME PushInv, PushNext, NEW e \in served, job' # job, subs[e] # NoSub
                 PROVE  subs'[e] = subs[e]
      OBVIOUS
    <2>1. ~Browser
      BY DEF Browser, SubscribePush, UnsubscribePush, Expire
    <2>2. ASSUME NEW n \in Notices, NEW s \in job[n].todo, SendGone(n, s)
          PROVE  subs'[e] = subs[e]
      <3>1. s[1] \notin served
        BY <2>2 DEF SendGone, Tried, Answers
      <3>2. e \in Endpoints /\ \A f \in Endpoints : subs[f].id = s[2] => f = s[1]
        BY DEF PushInv, PushTypeOK, ListsSound, Listed
      <3> QED
        BY <2>2, <3>1, <3>2 DEF SendGone, Dropped
    <2>3. ASSUME UNCHANGED subs PROVE subs'[e] = subs[e]
      BY <2>3
    <2> QED
      BY <2>1, <2>2, <2>3 DEF PushNext, Deliver, OnRaised, TakeSlot, Timeout,
         ListSubscriptions, ListFails, SendAccepted, SendFailed, browsers
  <1> QED
    BY <1>1, PushInvariance, PTL DEF PushSpec, DropsOnlyTheGone
=============================================================================
