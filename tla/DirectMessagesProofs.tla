------------------------ MODULE DirectMessagesProofs ------------------------
(***************************************************************************)
(* What holds of direct messages for every set of actors, readers and      *)
(* messages, and every set of keys, handsets and calls.                    *)
(*                                                                         *)
(* Of the roster and the messages two facts carry the rest: the admin      *)
(* flag, once given, stays, so a call that asked for it may rely on it     *)
(* later; and a reader who is active, or in a call begun active, is        *)
(* entitled to all there is.                                               *)
(*                                                                         *)
(* Of the device keys: whoever wrote a key's row last is the one to retire *)
(* its siblings, and knows the handset the row names for as long as no     *)
(* later write moves the key: such a call is fresh.  Two keys of a handset *)
(* are both live only while a fresh publish of one of them is under way,   *)
(* or after it failed.                                                     *)
(***************************************************************************)
EXTENDS DMMessages, DeviceKeys, FiniteSetTheorems, TLAPS

USE CreatorAssumption, InitialAssumption, NoActorAssumption,
    ReadersAssumption, NoEmojiAssumption

RowsTyped == roster \in [Actors -> Participant] /\ op \in [Actors -> Call]

\* A call that passed isAdmin is an admin's still.
CallsOfAdmins ==
  \A b \in Actors : op[b].at \in AdminActs \cup {"inviteWrite"}
                    => roster[b].admin

\* What a call relies on of the roster it read, as long as no change of the
\* roster crosses it.
ReliesOn(a) ==
  /\ op[a].at \in AdminActs \cup {"inviteWrite"} => IsAdmin(a)
  /\ op[a].at = "inviteWrite" => roster[op[a].on].state # "active"
  /\ op[a].at = "leaveCountActive"
       => op[a].lastAdmin = (Cardinality(ActiveAdmins) = 1)
  /\ op[a].at = "leave"
       => ~(IsAdmin(a) /\ Cardinality(ActiveAdmins) = 1 /\ Cardinality(Active) > 1)
  /\ op[a].at = "claim" => roster[a].state = "left" /\ Active = {}

Undisturbed == \A a \in Actors \ crossed : ReliesOn(a)

RosterInv == TypeOK /\ CallsOfAdmins

CrossInv == RosterInv /\ Undisturbed

-----------------------------------------------------------------------------
(* The roster.                                                             *)

\* Right after CreateThread the roster is well typed and nobody is calling.
LEMMA InitRosterInv == Init => RosterInv
  BY DEF Init, RosterInv, TypeOK, CallsOfAdmins, Participant, State,
     OffRoster, Call, Idle, AdminActs

\* A call that is moved on to another point is still a call.
LEMMA MovedCall ==
  ASSUME NEW p \in AdminActs \cup {"idle", "inviteWrite", "leaveCountAdmins",
                                   "leaveCountActive", "leave", "claim", "won"},
         NEW a \in Actors \cup {NoActor}
  PROVE  [Idle EXCEPT !.at = p, !.on = a] \in Call
  BY DEF Call, Idle

\* A participant whose state is set is a participant with the same flag.
LEMMA SetStateKeeps ==
  ASSUME TypeOK, NEW a \in Actors, NEW s \in State, SetState(a, s)
  PROVE  /\ roster' \in [Actors -> Participant]
         /\ \A b \in Actors : /\ roster'[b].admin = roster[b].admin
                              /\ b # a => roster'[b] = roster[b]
  BY DEF TypeOK, SetState, OnRoster, Participant, OffRoster, State

\* A row that keeps its flag or is given it leaves every flag given standing.
LEMMA RowWritten ==
  ASSUME TypeOK, NEW a \in Actors, NEW r \in Participant,
         roster[a].admin => r.admin, roster' = [roster EXCEPT ![a] = r]
  PROVE  /\ roster' \in [Actors -> Participant]
         /\ \A b \in Actors : roster[b].admin => roster'[b].admin
         /\ \A b \in Actors \ {a} : roster'[b] = roster[b]
  BY DEF TypeOK

\* Whoever's row it is, or nobody's, the admin flag is TRUE or FALSE.
LEMMA FlagIsBoolean ==
  ASSUME TypeOK, NEW a \in Actors
  PROVE  roster[a].admin \in BOOLEAN
  <1>1. roster[a] \in Participant
    BY DEF TypeOK
  <1>2. CASE roster[a] = OffRoster
    BY <1>2 DEF OffRoster
  <1>3. CASE roster[a] \in [state: State, admin: BOOLEAN]
    BY <1>3
  <1> QED
    BY <1>1, <1>2, <1>3 DEF Participant

\* A row with the flag given is a row.
LEMMA PromotedRow ==
  ASSUME NEW r \in [state: State, admin: BOOLEAN]
  PROVE  [r EXCEPT !.admin = TRUE] \in Participant
         /\ [r EXCEPT !.admin = TRUE].admin
  BY DEF Participant

\* What an admin's call leaves: the types of rows and calls, every admin's flag, and the rows
\* of all but its target.
LEMMA AdminStepKeeps ==
  ASSUME RosterInv, NEW by \in Actors, NEW a \in Actors, AdminStep(by, a)
  PROVE  /\ RowsTyped'
         /\ \A b \in Actors : roster[b].admin => roster'[b].admin
         /\ \A b \in Actors \ {a} : roster'[b] = roster[b]
         /\ \A b \in Actors \ {by} : op'[b] = op[b]
         /\ op'[by].at \in AdminActs \cup {"inviteWrite"} => roster[by].admin
         /\ roster' # roster => roster[by].admin /\ op'[by] # op[by]
  <1> USE DEF RosterInv, RowsTyped
  <1>1. ASSUME NEW act \in AdminActs, AskAdmin(by, act, a)
        PROVE  /\ op' = [op EXCEPT ![by] = [Idle EXCEPT !.at = act, !.on = a]]
               /\ roster' = roster /\ roster[by].admin
    BY <1>1 DEF AskAdmin, Goto, IsAdmin
  <1>2. CASE \E act \in AdminActs : AskAdmin(by, act, a)
    <2>1. PICK act \in AdminActs : AskAdmin(by, act, a)
      BY <1>2
    <2> DEFINE c == [Idle EXCEPT !.at = act, !.on = a]
    <2>2. op' = [op EXCEPT ![by] = c] /\ roster' = roster /\ roster[by].admin
      BY <1>1, <2>1
    <2>3. c \in Call
      BY MovedCall
    <2> HIDE DEF c
    <2> QED
      BY <2>2, <2>3 DEF TypeOK
  <1>3. CASE InviteFind(by, a)
    <2>1. roster[by].admin /\ roster' = roster
      BY <1>3 DEF InviteFind, CallsOfAdmins, AdminActs
    <2>2. \/ op' = [op EXCEPT ![by] = Idle]
          \/ op' = [op EXCEPT ![by] = [Idle EXCEPT !.at = "inviteWrite", !.on = a]]
      BY <1>3 DEF InviteFind, Goto, Return
    <2>3. Idle \in Call /\ [Idle EXCEPT !.at = "inviteWrite", !.on = a] \in Call
      BY MovedCall DEF Call, Idle
    <2> QED
      BY <2>1, <2>2, <2>3 DEF TypeOK
  <1>4. CASE InviteWrite(by, a) \/ Kick(by, a) \/ Promote(by, a) \/ ReEnable(by, a)
    <2>1. /\ roster[by].admin
          /\ op[by].at \in AdminActs \cup {"inviteWrite"}
          /\ op' = [op EXCEPT ![by] = Idle]
      BY <1>4 DEF InviteWrite, Kick, Promote, ReEnable, Return, CallsOfAdmins,
         AdminActs
    <2>2. /\ roster' \in [Actors -> Participant]
          /\ \A b \in Actors : roster[b].admin => roster'[b].admin
          /\ \A b \in Actors \ {a} : roster'[b] = roster[b]
      <3>1. CASE Kick(by, a) \/ ReEnable(by, a)
        BY <3>1, SetStateKeeps DEF Kick, ReEnable, State
      <3>2. CASE InviteWrite(by, a)
        <4> DEFINE r == [state |-> "invited", admin |-> roster[a].admin]
        <4>1. roster[a].admin \in BOOLEAN
          BY FlagIsBoolean
        <4>2. r \in Participant /\ r.admin = roster[a].admin
          BY <4>1 DEF Participant, State
        <4>3. roster' = [roster EXCEPT ![a] = r]
          BY <3>2 DEF InviteWrite
        <4> HIDE DEF r
        <4> QED
          BY <4>2, <4>3, RowWritten
      <3>3. CASE Promote(by, a)
        <4> DEFINE r == [roster[a] EXCEPT !.admin = TRUE]
        <4>1. CASE ~OnRoster(a)
          BY <3>3, <4>1 DEF Promote, TypeOK
        <4>2. CASE OnRoster(a)
          <5>1. roster[a] \in [state: State, admin: BOOLEAN]
            <6>1. roster[a] \in Participant /\ roster[a] # OffRoster
              BY <4>2 DEF OnRoster, TypeOK, OffRoster
            <6> QED
              BY <6>1 DEF Participant
          <5>2. r \in Participant /\ r.admin
            BY <5>1, PromotedRow
          <5>3. roster' = [roster EXCEPT ![a] = r]
            BY <3>3, <4>2 DEF Promote, TypeOK
          <5> HIDE DEF r
          <5> QED
            BY <5>2, <5>3, RowWritten
        <4> QED
          BY <4>1, <4>2
      <3> QED
        BY <1>4, <3>1, <3>2, <3>3
    <2>3. Idle \in Call /\ Idle.at = "idle" /\ "idle" \notin AdminActs
      BY DEF Call, Idle, AdminActs
    <2> QED
      BY <2>1, <2>2, <2>3 DEF TypeOK
  <1> QED
    BY <1>2, <1>3, <1>4 DEF AdminStep

\* What a call about oneself leaves: the types, every flag and others' rows.
LEMMA OwnStepKeeps ==
  ASSUME RosterInv, NEW a \in Actors, OwnStep(a)
  PROVE  /\ RowsTyped'
         /\ \A b \in Actors : roster'[b].admin = roster[b].admin
         /\ \A b \in Actors \ {a} : roster'[b] = roster[b] /\ op'[b] = op[b]
         /\ op'[a] = op[a] \/ op'[a].at \notin AdminActs \cup {"inviteWrite"}
  <1> USE DEF RosterInv, RowsTyped
  <1>1. Idle \in Call /\ Idle.at = "idle"
    BY DEF Call, Idle
  <1>2. CASE Accept(a)
    BY <1>2, SetStateKeeps DEF Accept, State, TypeOK
  <1>3. CASE LeaveRead(a)
    BY <1>3, MovedCall DEF LeaveRead, Goto, TypeOK, Idle, AdminActs
  <1>4. CASE LeaveCountAdmins(a) \/ LeaveCountActive(a)
    <2>1. roster' = roster
      BY <1>4 DEF LeaveCountAdmins, LeaveCountActive
    <2>2. op[a] \in Call
      BY DEF TypeOK
    <2>3. \E c \in Call : /\ op' = [op EXCEPT ![a] = c]
                          /\ c.at \in {"idle", "leave", "leaveCountActive"}
      <3>1. CASE LeaveCountAdmins(a)
        <4> DEFINE last == Cardinality(ActiveAdmins) = 1
                   c == [op[a] EXCEPT !.at = "leaveCountActive", !.lastAdmin = last]
        <4>1. op' = [op EXCEPT ![a] = c]
          BY <3>1 DEF LeaveCountAdmins, TypeOK
        <4>2. last \in BOOLEAN
          OBVIOUS
        <4> HIDE DEF last
        <4>3. c \in Call /\ c.at = "leaveCountActive"
          BY <2>2, <4>2 DEF Call
        <4> QED
          BY <4>1, <4>3
      <3>2. CASE LeaveCountActive(a)
        <4> DEFINE c == [op[a] EXCEPT !.at = "leave"]
        <4>1. op' = [op EXCEPT ![a] = Idle] \/ op' = [op EXCEPT ![a] = c]
          BY <3>2 DEF LeaveCountActive, Return
        <4>2. c \in Call /\ c.at = "leave"
          BY <2>2 DEF Call
        <4> QED
          BY <1>1, <4>1, <4>2
      <3> QED
        BY <1>4, <3>1, <3>2
    <2>4. PICK c \in Call : /\ op' = [op EXCEPT ![a] = c]
                            /\ c.at \in {"idle", "leave", "leaveCountActive"}
      BY <2>3
    <2> QED
      BY <2>1, <2>4 DEF TypeOK, AdminActs
  <1>5. CASE Leave(a)
    BY <1>1, <1>5, SetStateKeeps DEF Leave, Return, State, TypeOK, AdminActs
  <1>6. CASE ClaimRead(a)
    BY <1>6, MovedCall DEF ClaimRead, Goto, TypeOK, Idle, AdminActs
  <1>7. CASE ClaimWrite(a)
    <2>1. CASE roster[a].state = "left"
      <3>1. roster' = [roster EXCEPT ![a].state = "active"]
            /\ op' = [op EXCEPT ![a] = [Idle EXCEPT !.at = "won", !.on = NoActor]]
        BY <1>7, <2>1 DEF ClaimWrite, Goto
      <3>2. /\ roster' \in [Actors -> Participant]
            /\ \A b \in Actors : roster'[b].admin = roster[b].admin
            /\ \A b \in Actors \ {a} : roster'[b] = roster[b]
        BY <2>1, <3>1 DEF TypeOK, Participant, State, OffRoster
      <3> QED
        BY <2>1, <3>1, <3>2, MovedCall DEF TypeOK, Idle, AdminActs
    <2>2. CASE roster[a].state # "left"
      BY <1>1, <1>7, <2>2 DEF ClaimWrite, Return, TypeOK, AdminActs
    <2> QED
      BY <2>1, <2>2
  <1>8. CASE ClaimAnswer(a)
    BY <1>1, <1>8 DEF ClaimAnswer, Return, TypeOK, AdminActs
  <1> QED
    BY <1>2, <1>3, <1>4, <1>5, <1>6, <1>7, <1>8 DEF OwnStep

\* Every step of the roster keeps its invariant.
LEMMA NextRosterInv == RosterInv /\ [Next]_vars => RosterInv'
  <1> SUFFICES ASSUME RosterInv, [Next]_vars PROVE RosterInv'
    OBVIOUS
  <1> USE DEF RosterInv
  <1>1. ASSUME NEW by \in Actors, NEW a \in Actors, AdminStep(by, a)
        PROVE  RowsTyped' /\ CallsOfAdmins'
    <2>1. CallsOfAdmins'
      BY <1>1, AdminStepKeeps DEF CallsOfAdmins
    <2> QED
      BY <1>1, <2>1, AdminStepKeeps
  <1>2. ASSUME NEW a \in Actors, OwnStep(a) PROVE RowsTyped' /\ CallsOfAdmins'
    <2>1. CallsOfAdmins'
      BY <1>2, OwnStepKeeps DEF CallsOfAdmins
    <2> QED
      BY <1>2, <2>1, OwnStepKeeps
  <1>3. CASE UNCHANGED vars
    BY <1>3 DEF vars, TypeOK, CallsOfAdmins
  <1>4. NoteCrossings => crossed' \subseteq Actors
    BY DEF NoteCrossings
  <1> QED
    BY <1>1, <1>2, <1>3, <1>4 DEF Next, RowsTyped, TypeOK

THEOREM RosterInvariance == Spec => []RosterInv
  BY InitRosterInv, NextRosterInv, PTL DEF Spec

\* However the calls interleave, a row is changed by its own actor or by a
\* call of somebody who holds the admin flag (isAdmin, asked earlier).
THEOREM OnlyAdmins == Spec => OnlyAdminsMoveOthers
  <1>1. RosterInv /\ [Next]_vars =>
          [\A a \in Actors : roster'[a] # roster[a] =>
             \/ \A b \in Actors \ {a} : op'[b] = op[b]
             \/ \E b \in Actors \ {a} : op'[b] # op[b] /\ roster[b].admin]_vars
    <2> SUFFICES ASSUME RosterInv, Next, NEW a \in Actors,
                        roster'[a] # roster[a]
                 PROVE  \/ \A b \in Actors \ {a} : op'[b] = op[b]
                        \/ \E b \in Actors \ {a} : op'[b] # op[b] /\ roster[b].admin
      BY DEF vars
    <2>1. ASSUME NEW by \in Actors, NEW c \in Actors, AdminStep(by, c)
          PROVE  \/ \A b \in Actors \ {a} : op'[b] = op[b]
                 \/ \E b \in Actors \ {a} : op'[b] # op[b] /\ roster[b].admin
      <3>1. CASE by = a
        BY <2>1, <3>1, AdminStepKeeps
      <3>2. CASE by # a
        BY <2>1, <3>2, AdminStepKeeps
      <3> QED
        BY <3>1, <3>2
    <2>2. ASSUME NEW c \in Actors, OwnStep(c)
          PROVE  \A b \in Actors \ {a} : op'[b] = op[b]
      BY <2>2, OwnStepKeeps
    <2> QED
      BY <2>1, <2>2 DEF Next
  <1> QED
    BY <1>1, RosterInvariance, PTL DEF Spec, OnlyAdminsMoveOthers

-----------------------------------------------------------------------------
(* Calls that nothing crossed.                                             *)

\* On the roster it read, a call that did not move relies on what it did.
LEMMA SameRosterRelied ==
  ASSUME NEW a, roster' = roster, op'[a] = op[a], ReliesOn(a)
  PROVE  ReliesOn(a)'
  <1>1. ActiveAdmins' = ActiveAdmins /\ Active' = Active /\ (IsAdmin(a)' <=> IsAdmin(a))
    BY DEF ActiveAdmins, Active, IsAdmin
  <1> QED
    BY <1>1 DEF ReliesOn

\* A call that did not move, and is not crossed, relies on what it did.
LEMMA StillRelies ==
  ASSUME RosterInv, Undisturbed, NoteCrossings,
         NEW a \in Actors \ crossed', op'[a] = op[a]
  PROVE  ReliesOn(a)'
  <1>1. CASE op[a].at = "idle"
    BY <1>1 DEF ReliesOn, AdminActs
  <1>2. CASE op[a].at # "idle"
    <2>1. a \notin crossed /\ roster' = roster
      BY <1>2 DEF NoteCrossings
    <2>2. ReliesOn(a)
      BY <2>1 DEF Undisturbed
    <2> QED
      BY <2>1, <2>2, SameRosterRelied
  <1> QED
    BY <1>1, <1>2

\* A call that goes on to another point was not crossed before, if it is not now.
LEMMA GoesOnUncrossed ==
  ASSUME NoteCrossings, NEW a \in Actors \ crossed', op'[a].at # "idle"
  PROVE  a \notin crossed
  BY DEF NoteCrossings

\* An admin's call relies on what it has just read.
LEMMA AdminRelies ==
  ASSUME RosterInv, Undisturbed, NoteCrossings, NEW by \in Actors,
         NEW a \in Actors, AdminStep(by, a), by \notin crossed'
  PROVE  ReliesOn(by)'
  <1> USE DEF RosterInv, TypeOK
  <1>1. CASE op'[by].at = "idle"
    BY <1>1 DEF ReliesOn, AdminActs
  <1>2. ASSUME NEW act \in AdminActs, AskAdmin(by, act, a)
        PROVE  ReliesOn(by)'
    <2>1. roster' = roster /\ IsAdmin(by) /\ op'[by].at = act
      BY <1>2 DEF AskAdmin, Goto, Idle
    <2> QED
      BY <2>1 DEF ReliesOn, IsAdmin, AdminActs
  <1>3. CASE InviteFind(by, a) /\ op'[by].at # "idle"
    <2>1. by \notin crossed
      BY <1>3, GoesOnUncrossed
    <2>2. /\ roster' = roster /\ roster[a].state # "active"
          /\ op'[by].at = "inviteWrite" /\ op'[by].on = a
      <3>1. /\ roster' = roster /\ Idle.at = "idle"
            /\ IF roster[a].state = "active" THEN op' = [op EXCEPT ![by] = Idle]
               ELSE op' = [op EXCEPT ![by] = [Idle EXCEPT !.at = "inviteWrite", !.on = a]]
        BY <1>3 DEF InviteFind, Goto, Return, Idle
      <3>2. CASE roster[a].state = "active"
        BY <1>3, <3>1, <3>2
      <3>3. CASE roster[a].state # "active"
        BY <3>1, <3>3 DEF Idle
      <3> QED
        BY <3>2, <3>3
    <2>3. IsAdmin(by)
      BY <1>3, <2>1 DEF InviteFind, Undisturbed, ReliesOn, AdminActs
    <2> QED
      BY <2>2, <2>3 DEF ReliesOn, IsAdmin
  <1>4. CASE InviteWrite(by, a) \/ Kick(by, a) \/ Promote(by, a) \/ ReEnable(by, a)
    <2>1. op'[by].at = "idle"
      BY <1>4 DEF InviteWrite, Kick, Promote, ReEnable, Return, Idle
    <2> QED
      BY <1>1, <2>1
  <1> QED
    BY <1>1, <1>2, <1>3, <1>4 DEF AdminStep

\* So does a call about oneself.
LEMMA OwnRelies ==
  ASSUME RosterInv, Undisturbed, NoteCrossings, NEW a \in Actors, OwnStep(a),
         a \notin crossed'
  PROVE  ReliesOn(a)'
  <1> USE DEF RosterInv, TypeOK
  <1>1. CASE op'[a].at \in {"idle", "won", "leaveCountAdmins"}
    BY <1>1 DEF ReliesOn, AdminActs
  <1>2. CASE Accept(a)
    BY <1>2, StillRelies DEF Accept
  <1>3. CASE LeaveRead(a) /\ op'[a].at # "leaveCountAdmins"
    <2>1. roster' = roster /\ ~IsAdmin(a) /\ op'[a].at = "leave"
      BY <1>3 DEF LeaveRead, Goto, Idle
    <2> QED
      BY <2>1 DEF ReliesOn, IsAdmin, AdminActs
  <1>4. CASE LeaveCountAdmins(a)
    <2>1. /\ roster' = roster /\ op'[a].at = "leaveCountActive"
          /\ op'[a].lastAdmin = (Cardinality(ActiveAdmins) = 1)
      <3>1. op[a] \in Call
        OBVIOUS
      <3> QED
        BY <1>4, <3>1 DEF LeaveCountAdmins, Call
    <2> QED
      BY <2>1 DEF ReliesOn, ActiveAdmins, IsAdmin, AdminActs
  <1>5. CASE LeaveCountActive(a) /\ op'[a].at # "idle"
    <2>1. a \notin crossed
      BY <1>5, GoesOnUncrossed
    <2>2. op[a].lastAdmin = (Cardinality(ActiveAdmins) = 1)
      BY <1>5, <2>1 DEF LeaveCountActive, Undisturbed, ReliesOn
    <2>3. /\ roster' = roster /\ op'[a].at = "leave"
          /\ ~(op[a].lastAdmin /\ Cardinality(Active) > 1)
      <3>1. op[a] \in Call
        OBVIOUS
      <3> QED
        BY <1>5, <3>1 DEF LeaveCountActive, Return, Idle, Call
    <2> QED
      BY <2>2, <2>3 DEF ReliesOn, ActiveAdmins, Active, IsAdmin, AdminActs
  <1>6. CASE Leave(a) \/ ClaimWrite(a) \/ ClaimAnswer(a)
    <2>1. op'[a].at \in {"idle", "won"}
      <3>1. \/ op' = [op EXCEPT ![a] = Idle]
            \/ op' = [op EXCEPT ![a] = [Idle EXCEPT !.at = "won", !.on = NoActor]]
        BY <1>6 DEF Leave, ClaimWrite, ClaimAnswer, Return, Goto
      <3>2. Idle.at = "idle" /\ [Idle EXCEPT !.at = "won", !.on = NoActor].at = "won"
        BY DEF Idle
      <3> QED
        BY <3>1, <3>2
    <2> QED
      BY <1>1, <2>1
  <1>7. CASE ClaimRead(a)
    <2>1. /\ roster' = roster /\ op'[a].at = "claim"
          /\ roster[a].state = "left" /\ Active = {}
      BY <1>7 DEF ClaimRead, Goto, Idle
    <2> QED
      BY <2>1 DEF ReliesOn, Active, AdminActs
  <1> QED
    BY <1>1, <1>2, <1>3, <1>4, <1>5, <1>6, <1>7 DEF OwnStep

\* Every step keeps what the uncrossed calls rely on.
LEMMA NextCrossInv == CrossInv /\ [Next]_vars => CrossInv'
  <1> SUFFICES ASSUME CrossInv, [Next]_vars PROVE CrossInv'
    OBVIOUS
  <1> USE DEF CrossInv
  <1>1. RosterInv'
    BY NextRosterInv
  <1>2. ASSUME NEW by \in Actors, NEW a \in Actors, AdminStep(by, a), NoteCrossings
        PROVE  Undisturbed'
    <2>1. \A b \in Actors \ {by} : op'[b] = op[b]
      BY <1>2, AdminStepKeeps
    <2> QED
      BY <1>2, <2>1, AdminRelies, StillRelies DEF Undisturbed
  <1>3. ASSUME NEW a \in Actors, OwnStep(a), NoteCrossings
        PROVE  Undisturbed'
    <2>1. \A b \in Actors \ {a} : op'[b] = op[b]
      BY <1>3, OwnStepKeeps
    <2> QED
      BY <1>3, <2>1, OwnRelies, StillRelies DEF Undisturbed
  <1>4. CASE UNCHANGED vars
    <2>1. crossed' = crossed /\ roster' = roster /\ op' = op
      BY <1>4 DEF vars
    <2>2. \A a \in Actors \ crossed' : ReliesOn(a)'
      BY <2>1, SameRosterRelied DEF Undisturbed
    <2> QED
      BY <1>1, <2>2 DEF Undisturbed
  <1> QED
    BY <1>1, <1>2, <1>3, <1>4 DEF Next

\* With what each uncrossed call relies on, the invariant is inductive too.
THEOREM CrossInvariance == Spec => []CrossInv
  <1>1. Init => CrossInv
    <2>1. Init => Undisturbed
      BY DEF Init, Undisturbed, ReliesOn, Idle, AdminActs
    <2> QED
      BY <2>1, InitRosterInv DEF CrossInv
  <1> QED
    BY <1>1, NextCrossInv, PTL DEF Spec

\* Who leaves is not the last admin of others, by the two counts.
LEMMA LeaverIsSpared ==
  ASSUME NEW a \in Actors, RosterInv, ReliesOn(a), op[a].at = "leave", Leave(a),
         ActiveAdmins # {}
  PROVE  Active' = {} \/ ActiveAdmins' # {}
  <1> USE DEF RosterInv, TypeOK
  <1>1. \A b \in Actors : /\ b # a => roster'[b] = roster[b]
                          /\ roster'[b].admin = roster[b].admin
    BY SetStateKeeps DEF Leave, State
  <1>2. ActiveAdmins \ {a} \subseteq ActiveAdmins'
    BY <1>1 DEF ActiveAdmins, IsAdmin
  <1>3. CASE ActiveAdmins # {a}
    BY <1>2, <1>3
  <1>4. CASE ActiveAdmins = {a}
    <2>1. IsAdmin(a) /\ roster[a].state = "active"
      BY <1>4 DEF ActiveAdmins, IsAdmin
    <2>2. Cardinality(ActiveAdmins) = 1
      BY <1>4, FS_Singleton
    <2>3. ~(Cardinality(Active) > 1)
      BY <2>1, <2>2 DEF ReliesOn
    <2>4. IsFiniteSet(Active) /\ Cardinality(Active) \in Nat
      BY ActorsAssumption, FS_Subset, FS_CardinalityType DEF Active
    <2>5. {a} \subseteq Active /\ Cardinality({a}) = 1
      BY <2>1, FS_Singleton DEF Active
    <2>6. Active = {a}
      BY <2>3, <2>4, <2>5, FS_Subset
    <2>7. roster'[a].state = "left"
      <3>1. roster[a] # OffRoster /\ roster[a] \in Participant
        BY <2>1 DEF OffRoster
      <3>2. roster[a] \in [state: State, admin: BOOLEAN]
        BY <3>1 DEF Participant
      <3> QED
        BY <2>1, <3>2 DEF Leave, SetState, OnRoster
    <2>8. Active' = {}
      BY <1>1, <2>6, <2>7 DEF Active
    <2> QED
      BY <2>8
  <1> QED
    BY <1>3, <1>4

\* A call that no change of the roster crossed takes effect as one statement
\* would: claimEmptiedThread, Leave's two counts, and the acts behind isAdmin.
THEOREM UncrossedHold == Spec => UncrossedCallsHold
  <1>1. CrossInv /\ [Next]_vars =>
          [\A a \in Actors \ crossed : op'[a] # op[a] =>
             /\ op[a].at = "claim" => op'[a].at = "won" /\ Active' = {a}
             /\ op[a].at = "leave" /\ ActiveAdmins # {}
                  => Active' = {} \/ ActiveAdmins' # {}
             /\ op[a].at \in AdminActs \cup {"inviteWrite"} => IsAdmin(a)
             /\ op[a].at = "inviteWrite" => roster[op[a].on].state # "active"]_vars
    <2> SUFFICES ASSUME CrossInv, Next, NEW a \in Actors \ crossed, op'[a] # op[a]
                 PROVE  /\ op[a].at = "claim" => op'[a].at = "won" /\ Active' = {a}
                        /\ op[a].at = "leave" /\ ActiveAdmins # {}
                             => Active' = {} \/ ActiveAdmins' # {}
                        /\ op[a].at \in AdminActs \cup {"inviteWrite"} => IsAdmin(a)
                        /\ op[a].at = "inviteWrite"
                             => roster[op[a].on].state # "active"
      BY DEF vars
    <2> USE DEF CrossInv
    <2>1. ReliesOn(a)
      BY DEF Undisturbed
    <2>2. ASSUME op[a].at \in {"claim", "leave"} PROVE OwnStep(a)
      <3>1. ASSUME NEW by \in Actors, NEW c \in Actors, AdminStep(by, c) PROVE FALSE
        <4>1. by = a
          BY <3>1, AdminStepKeeps
        <4> QED
          BY <2>2, <3>1, <4>1 DEF AdminStep, AskAdmin, InviteFind, InviteWrite,
             Kick, Promote, ReEnable
      <3>2. ASSUME NEW c \in Actors, OwnStep(c) PROVE c = a
        BY <3>2, OwnStepKeeps
      <3> QED
        BY <3>1, <3>2 DEF Next
    <2>3. ASSUME op[a].at = "claim" PROVE op'[a].at = "won" /\ Active' = {a}
      <3>1. ClaimWrite(a)
        BY <2>2, <2>3 DEF OwnStep, Accept, LeaveRead, LeaveCountAdmins,
           LeaveCountActive, Leave, ClaimRead, ClaimAnswer
      <3>2. roster[a].state = "left" /\ Active = {}
        BY <2>1, <2>3 DEF ReliesOn
      <3>3. /\ roster' = [roster EXCEPT ![a].state = "active"]
            /\ op' = [op EXCEPT ![a] = [Idle EXCEPT !.at = "won", !.on = NoActor]]
        BY <3>1, <3>2 DEF ClaimWrite, Goto
      <3>4. roster[a] \in [state: State, admin: BOOLEAN]
        <4>1. roster[a] \in Participant /\ roster[a] # OffRoster
          BY <3>2 DEF RosterInv, TypeOK, OffRoster
        <4> QED
          BY <4>1 DEF Participant
      <3>5. roster'[a].state = "active" /\ \A b \in Actors \ {a} : roster'[b] = roster[b]
        BY <3>3, <3>4 DEF RosterInv, TypeOK
      <3>6. op'[a].at = "won"
        BY <3>3 DEF RosterInv, TypeOK, Idle
      <3> QED
        BY <3>2, <3>5, <3>6 DEF Active
    <2>4. ASSUME op[a].at = "leave", ActiveAdmins # {}
          PROVE  Active' = {} \/ ActiveAdmins' # {}
      <3>1. Leave(a)
        BY <2>2, <2>4 DEF OwnStep, Accept, LeaveRead, LeaveCountAdmins,
           LeaveCountActive, ClaimRead, ClaimWrite, ClaimAnswer
      <3> QED
        BY <2>1, <2>4, <3>1, LeaverIsSpared
    <2> QED
      BY <2>1, <2>3, <2>4 DEF ReliesOn
  <1> QED
    BY <1>1, CrossInvariance, PTL DEF Spec, UncrossedCallsHold

-----------------------------------------------------------------------------
(* The messages.                                                           *)

\* Who is active, or in a call begun active, is entitled to all there is,
\* nobody to more; what was shown or reacted to is within that, and a call on
\* a message found it.
Entitlement ==
  /\ \A a \in Readers :
       /\ entitled[a] \subseteq posted
       /\ roster[a].state = "active" \/ Busy(a) => posted \subseteq entitled[a]
       /\ shown[a] \subseteq entitled[a]
       /\ task[a].at \in {"set", "clear"} => task[a].on \in posted
  /\ ReadersWereActive

DMInv == RosterInv /\ DMTypeOK /\ Entitlement

\* Before the first message nobody is entitled to anything.
LEMMA InitDMInv == DMInit => DMInv
  BY InitRosterInv
     DEF DMInit, DMInv, RosterInv, DMTypeOK, Entitlement, ReadersWereActive,
         Busy, Task, NoTask

\* A step of the roster or a post leaves everybody entitled as they should be.
LEMMA NotedKeeps ==
  ASSUME DMInv, RosterInv', NoteEntitled, expired' = expired,
         posted \subseteq posted', posted' \subseteq Messages,
         UNCHANGED <<reaction, task, shown>>
  PROVE  DMInv'
  <1>1. \A a \in Readers : /\ entitled[a] \subseteq entitled'[a]
                           /\ entitled'[a] \subseteq posted'
                           /\ roster'[a].state = "active" \/ Busy(a)
                                => posted' \subseteq entitled'[a]
    BY DEF NoteEntitled, DMInv, Entitlement
  <1>2. DMTypeOK'
    <2>1. entitled' \in [Readers -> SUBSET Messages]
      BY <1>1 DEF NoteEntitled
    <2> QED
      BY <2>1 DEF DMInv, DMTypeOK, RosterInv
  <1>3. ReadersWereActive'
    BY <1>1 DEF DMInv, Entitlement, ReadersWereActive
  <1>4. Entitlement'
    <2> SUFFICES ASSUME NEW a \in Readers
                 PROVE  /\ shown'[a] \subseteq entitled'[a]
                        /\ task'[a].at \in {"set", "clear"} => task'[a].on \in posted'
                        /\ Busy(a)' = Busy(a)
      BY <1>1, <1>3 DEF Entitlement
    <2> QED
      BY <1>1 DEF DMInv, Entitlement, Busy
  <1> QED
    BY <1>2, <1>4 DEF DMInv

\* The time passing changes nothing of it.
LEMMA ExpireKeeps ==
  ASSUME DMInv, NEW m \in Messages, Expire(m)
  PROVE  DMInv'
  BY DEF DMInv, RosterInv, TypeOK, CallsOfAdmins, vars, DMTypeOK, Entitlement,
     ReadersWereActive, Busy, Expire

\* A reader's step moves only the reader's own call; it shows or takes a
\* reaction to what the reader is entitled to.
LEMMA ReaderKeeps ==
  ASSUME DMInv, NEW a \in Readers, ReaderStep(a)
  PROVE  DMInv'
  <1> USE DEF DMInv
  <1>1. /\ UNCHANGED <<vars, posted, expired, entitled>>
        /\ RosterInv'
    BY DEF ReaderStep, ListFence, ReactionFence, Begin, ListMessages,
       ListReactions, SetReaction, ClearReaction, Refuse, RosterInv, TypeOK,
       CallsOfAdmins, vars
  <1>2. NoTask \in Task /\ NoTask.at = "idle"
    BY DEF NoTask, Task
  <1>3. CASE ListFence(a) \/ \E m \in Messages : ReactionFence(a, m)
    <2>1. PICK t \in Task : /\ task' = [task EXCEPT ![a] = t]
                            /\ roster[a].state = "active"
                            /\ t.at \in {"set", "clear"} => t.on \in posted
                            /\ UNCHANGED <<reaction, shown>>
      BY <1>3 DEF ListFence, ReactionFence, Begin, ActiveOnRoster, Task
    <2>2. DMTypeOK'
      BY <1>1, <2>1 DEF DMTypeOK, RosterInv
    <2>3. Entitlement'
      BY <1>1, <2>1 DEF Entitlement, ReadersWereActive, Busy, DMTypeOK, vars
    <2> QED
      BY <1>1, <2>2, <2>3
  <1>4. CASE ListMessages(a) \/ ListReactions(a) \/ Refuse(a)
    <2>1. PICK S \in SUBSET posted :
             /\ shown' = [shown EXCEPT ![a] = @ \cup S]
             /\ Busy(a)
             /\ task' = [task EXCEPT ![a] = NoTask]
             /\ UNCHANGED reaction
      <3>1. CASE ListMessages(a)
        <4>1. posted \ expired \in SUBSET posted
          OBVIOUS
        <4> QED
          BY <3>1, <4>1 DEF ListMessages, Done, Busy
      <3>2. CASE ListReactions(a)
        <4> DEFINE S == {m \in posted : \E b \in Readers : reaction[m][b] # NoEmoji}
        <4>1. S \in SUBSET posted
          OBVIOUS
        <4> QED
          BY <3>2, <4>1 DEF ListReactions, Done, Busy
      <3>3. CASE Refuse(a)
        <4>1. shown = [shown EXCEPT ![a] = @ \cup {}]
          BY DEF DMTypeOK
        <4> QED
          BY <3>3, <4>1, {} \in SUBSET posted DEF Refuse, Done, Busy
      <3> QED
        BY <1>4, <3>1, <3>2, <3>3
    <2>2. S \subseteq entitled[a] /\ S \subseteq Messages
      BY <2>1 DEF Entitlement, DMTypeOK
    <2>3. DMTypeOK'
      BY <1>1, <1>2, <2>1, <2>2 DEF DMTypeOK, RosterInv
    <2>4. Entitlement'
      BY <1>1, <1>2, <2>1, <2>2 DEF Entitlement, ReadersWereActive, Busy,
         DMTypeOK, vars
    <2> QED
      BY <1>1, <2>3, <2>4
  <1>5. CASE (\E e \in Emoji : SetReaction(a, e)) \/ ClearReaction(a)
    <2>1. PICK e \in Emoji \cup {NoEmoji} :
             /\ reaction' = [reaction EXCEPT ![task[a].on][a] = e]
             /\ task[a].at \in {"set", "clear"}
             /\ task' = [task EXCEPT ![a] = NoTask]
             /\ UNCHANGED shown
      BY <1>5 DEF SetReaction, ClearReaction, Done
    <2> DEFINE n == task[a].on
    <2>2. n \in posted /\ n \in Messages /\ n \in entitled[a]
      BY <2>1 DEF Entitlement, DMTypeOK, Busy
    <2> HIDE DEF n
    <2>3. reaction' = [reaction EXCEPT ![n][a] = e]
      BY <2>1 DEF n
    <2>4. reaction' \in [Messages -> [Readers -> Emoji \cup {NoEmoji}]]
      BY <2>2, <2>3 DEF DMTypeOK
    <2>5. \A m \in Messages : \A b \in Readers :
             reaction'[m][b] = reaction[m][b] \/ (m = n /\ b = a)
      BY <2>2, <2>3 DEF DMTypeOK
    <2>6. DMTypeOK'
      BY <1>1, <1>2, <2>1, <2>4 DEF DMTypeOK, RosterInv
    <2>7. ReadersWereActive'
      BY <1>1, <2>1, <2>2, <2>5 DEF Entitlement, ReadersWereActive
    <2>8. Entitlement'
      BY <1>1, <1>2, <2>1, <2>7 DEF Entitlement, Busy, DMTypeOK, vars
    <2> QED
      BY <1>1, <2>6, <2>8
  <1> QED
    BY <1>3, <1>4, <1>5 DEF ReaderStep

\* Every step of thread and roster keeps the invariant of both.
LEMMA NextDMInv == DMInv /\ [DMNext]_dmVars => DMInv'
  <1> SUFFICES ASSUME DMInv, [DMNext]_dmVars PROVE DMInv'
    OBVIOUS
  <1>1. CASE RosterStep
    <2>1. RosterInv'
      BY <1>1, NextRosterInv DEF RosterStep, DMInv
    <2> QED
      BY <1>1, <2>1, NotedKeeps DEF RosterStep, DMInv, DMTypeOK
  <1>2. ASSUME NEW m \in Messages, Post(m) PROVE DMInv'
    <2>1. RosterInv'
      BY <1>2 DEF Post, DMInv, RosterInv, TypeOK, CallsOfAdmins, vars
    <2> QED
      BY <1>2, <2>1, NotedKeeps DEF Post, DMInv, DMTypeOK
  <1>3. CASE UNCHANGED dmVars
    BY <1>3 DEF dmVars, messageVars, vars, DMInv, RosterInv, TypeOK,
       CallsOfAdmins, DMTypeOK, Entitlement, ReadersWereActive, Busy
  <1> QED
    BY <1>1, <1>2, <1>3, ExpireKeeps, ReaderKeeps DEF DMNext

\* Rows, calls, messages and reactions keep their types, and readers stay
\* within what they are entitled to.
THEOREM Invariance == DMSpec => []DMInv
  BY InitDMInv, NextDMInv, PTL DEF DMSpec

\* Every thread, reaction and call keeps its type whatever the actors do.
THEOREM TypeCorrect == DMSpec => []DMTypeOK
  <1>1. DMInv => DMTypeOK
    BY DEF DMInv
  <1> QED
    BY <1>1, Invariance, PTL

\* The fences of ListDMMessagesFor, ListDMReactionsFor and SetDMReactionFor
\* hold although they are asked a statement early.
THEOREM ReadersFenced == DMSpec => []ReadersWereActive
  <1>1. DMInv => ReadersWereActive
    BY DEF DMInv, Entitlement
  <1> QED
    BY <1>1, Invariance, PTL

\* The thread's messages do nothing to its roster: composed with them it is
\* the roster of DMRoster still, with all that was proved of it.
THEOREM RosterImplemented == DMSpec => Spec
  <1>1. DMInit => Init
    BY DEF DMInit
  <1>2. [DMNext]_dmVars => [Next]_vars
    BY DEF DMNext, dmVars, RosterStep, Post, Expire, ReaderStep, ListFence,
       ReactionFence, Begin, ListMessages, ListReactions, SetReaction,
       ClearReaction, Refuse
  <1> QED
    BY <1>1, <1>2, PTL DEF DMSpec, Spec

-----------------------------------------------------------------------------
(* The device keys.                                                        *)

USE NoDeviceAssumption

\* c publishes k and has not yet been overtaken by a later publish of k.
Fresh(c, k) ==
  /\ UnderWay(c) /\ publish[c].key = k
  /\ publish[c].at = "written" \/ publish[c].device = row[k].device

\* Keys a sender may not be given both, if all is at rest.
Rivals(k, l) ==
  /\ k # l /\ ActorOf[k] = ActorOf[l]
  /\ row[k].live /\ row[l].live
  /\ row[k].device = row[l].device /\ row[k].device # NoDevice

RivalsExplained ==
  \A k, l \in Keys : Rivals(k, l) =>
    \E m \in {k, l} : m \in halfway \/ \E c \in Calls : Fresh(c, m)

\* No other call publishes for c's actor.
Alone(c) ==
  \A b \in Calls :
    UnderWay(b) /\ ActorOf[publish[b].key] = ActorOf[publish[c].key] => b = c

\* A call alone with its actor finds all as it left it.
LoneUndisturbed ==
  \A c \in Calls \ crowded : UnderWay(c) =>
    /\ Alone(c)
    /\ publish[c].key \notin halfway
    /\ row[publish[c].key].live /\ row[publish[c].key].device = publish[c].device

KeysInv == KeyTypeOK /\ RivalsExplained /\ LoneUndisturbed

-----------------------------------------------------------------------------
\* Before anything is published there is nothing to explain.
LEMMA InitKeysInv == KeyInit => KeysInv
  BY DEF KeyInit, KeysInv, KeyTypeOK, RivalsExplained, Rivals, LoneUndisturbed,
     DeviceKey, Unpublished, KeyCall, NoPublish, UnderWay

\* The upsert makes its call fresh, and crowds whoever publishes for the actor.
LEMMA PublishKeepsInv ==
  ASSUME KeysInv, NEW c \in Calls, NEW k \in Keys,
         NEW d \in Devices \cup {NoDevice}, PublishKey(c, k, d)
  PROVE  KeysInv'
  <1> DEFINE r == [device |-> d, live |-> TRUE]
             p == [at |-> "written", key |-> k, device |-> d]
  <1>1. /\ ~UnderWay(c)
        /\ row' = [row EXCEPT ![k] = r]
        /\ publish' = [publish EXCEPT ![c] = p]
        /\ halfway' = halfway \ {k}
    BY DEF PublishKey
  <1>2. r \in DeviceKey /\ p \in KeyCall
    BY DEF DeviceKey, KeyCall
  <1>3. crowded' = IF Publishing(ActorOf[k]) = {} THEN crowded \ {c}
                   ELSE crowded \cup Publishing(ActorOf[k]) \cup {c}
    BY DEF PublishKey
  <1>4. Publishing(ActorOf[k]) \subseteq Calls
    BY DEF Publishing
  <1>5. KeyTypeOK'
    BY <1>1, <1>2, <1>3, <1>4 DEF KeysInv, KeyTypeOK
  <1>6. /\ row'[k] = r /\ \A l \in Keys \ {k} : row'[l] = row[l]
        /\ publish'[c] = p /\ \A b \in Calls \ {c} : publish'[b] = publish[b]
        /\ UnderWay(c)' /\ \A b \in Calls \ {c} : UnderWay(b)' = UnderWay(b)
    BY <1>1 DEF KeysInv, KeyTypeOK, UnderWay
  <1>7. RivalsExplained'
    <2> SUFFICES ASSUME NEW i \in Keys, NEW j \in Keys, Rivals(i, j)'
                 PROVE  \E m \in {i, j} :
                          m \in halfway' \/ \E b \in Calls : Fresh(b, m)'
      BY DEF RivalsExplained
    <2>1. Fresh(c, k)'
      BY <1>6 DEF Fresh
    <2>2. CASE k \in {i, j}
      BY <2>1, <2>2
    <2>3. CASE k \notin {i, j}
      <3>1. Rivals(i, j)
        BY <1>6, <2>3 DEF Rivals
      <3>2. PICK m \in {i, j} : m \in halfway \/ \E b \in Calls : Fresh(b, m)
        BY <3>1 DEF KeysInv, RivalsExplained
      <3>3. \A b \in Calls : Fresh(b, m) => Fresh(b, m)'
        BY <1>1, <1>6, <2>3, <3>2 DEF Fresh
      <3> QED
        BY <1>1, <2>3, <3>2, <3>3
    <2> QED
      BY <2>2, <2>3
  <1>8. LoneUndisturbed'
    <2> SUFFICES ASSUME NEW b \in Calls, b \notin crowded', UnderWay(b)'
                 PROVE  /\ Alone(b)'
                        /\ publish'[b].key \notin halfway'
                        /\ row'[publish'[b].key].live
                        /\ row'[publish'[b].key].device = publish'[b].device
      BY DEF LoneUndisturbed
    <2>1. CASE b = c
      <3>1. Publishing(ActorOf[k]) = {}
        BY <1>3, <2>1
      <3>2. Alone(c)'
        BY <1>6, <3>1 DEF Publishing, Alone
      <3> QED
        BY <1>1, <1>6, <2>1, <3>2 DEF Alone
    <2>2. CASE b # c
      <3>1. UnderWay(b) /\ publish'[b] = publish[b] /\ b \notin crowded
        BY <1>3, <1>6, <2>2
      <3>2. b \notin Publishing(ActorOf[k])
        BY <1>3, <2>2
      <3>3. ActorOf[publish[b].key] # ActorOf[k]
        BY <3>1, <3>2 DEF Publishing
      <3>4. /\ Alone(b)
            /\ publish[b].key \notin halfway
            /\ row[publish[b].key].live /\ row[publish[b].key].device = publish[b].device
        BY <3>1 DEF KeysInv, LoneUndisturbed
      <3>5. publish[b].key \in Keys \ {k}
        BY <3>1, <3>3 DEF KeysInv, KeyTypeOK, KeyCall, UnderWay
      <3>6. Alone(b)'
        BY <1>6, <3>1, <3>3, <3>4 DEF Alone
      <3> QED
        BY <1>1, <1>6, <3>1, <3>4, <3>5, <3>6 DEF Alone
    <2> QED
      BY <2>1, <2>2
  <1> QED
    BY <1>5, <1>7, <1>8 DEF KeysInv

\* The read gives its call the handset the row names now.
LEMMA ReadKeepsInv ==
  ASSUME KeysInv, NEW c \in Calls, ReadBack(c)
  PROVE  KeysInv'
  <1> DEFINE k == publish[c].key
             p == [at |-> "read", key |-> k, device |-> row[k].device]
  <1>1. /\ publish[c] \in KeyCall /\ publish[c].at = "written" /\ k \in Keys
        /\ row[k] \in DeviceKey
    BY DEF ReadBack, KeysInv, KeyTypeOK, KeyCall
  <1>2. p \in KeyCall /\ p.at = "read" /\ p.key = k /\ p.device = row[k].device
    BY <1>1 DEF KeyCall, DeviceKey
  <1>3. publish' = [publish EXCEPT ![c] = p] /\ UNCHANGED <<row, halfway, crowded>>
    BY DEF ReadBack
  <1> HIDE DEF p
  <1>4. KeyTypeOK'
    BY <1>2, <1>3 DEF KeysInv, KeyTypeOK
  <1>5. /\ publish'[c] = p /\ \A b \in Calls \ {c} : publish'[b] = publish[b]
        /\ \A b \in Calls : UnderWay(b)' = UnderWay(b) /\ publish'[b].key = publish[b].key
    BY <1>1, <1>2, <1>3 DEF KeysInv, KeyTypeOK, UnderWay
  <1>6. \A b \in Calls, m \in Keys : Fresh(b, m) => Fresh(b, m)'
    BY <1>2, <1>3, <1>5 DEF Fresh
  <1>7. RivalsExplained'
    BY <1>3, <1>6 DEF KeysInv, RivalsExplained, Rivals
  <1>8. LoneUndisturbed'
    BY <1>1, <1>2, <1>3, <1>5 DEF KeysInv, LoneUndisturbed, Alone, UnderWay
  <1> QED
    BY <1>4, <1>7, <1>8 DEF KeysInv

\* A call that ends leaves the others as they were.
LEMMA EndedCall ==
  ASSUME KeysInv, NEW c \in Calls, UnderWay(c),
         publish' = [publish EXCEPT ![c] = NoPublish], crowded' = crowded
  PROVE  /\ publish' \in [Calls -> KeyCall]
         /\ publish[c].key \in Keys
         /\ \A b \in Calls : b # c => publish'[b] = publish[b] /\ UnderWay(b)' = UnderWay(b)
         /\ ~UnderWay(c)'
  BY DEF KeysInv, KeyTypeOK, KeyCall, NoPublish, UnderWay

\* A fresh call retires its key's rivals; one overtaken retires what another
\* call answers for.
LEMMA RetireKeepsInv ==
  ASSUME KeysInv, NEW c \in Calls, RetireSiblings(c)
  PROVE  KeysInv'
  <1> DEFINE k == publish[c].key
             D == publish[c].device
             a == ActorOf[k]
             Gone == {l \in Keys : /\ l # k /\ ActorOf[l] = a
                                   /\ row[l].live /\ row[l].device = D}
  <1>1. /\ UnderWay(c) /\ k \in Keys /\ publish[c].at = "read"
        /\ publish' = [publish EXCEPT ![c] = NoPublish]
        /\ UNCHANGED <<halfway, crowded>>
    BY DEF RetireSiblings, KeysInv, KeyTypeOK, KeyCall, UnderWay
  <1>2. /\ publish' \in [Calls -> KeyCall]
        /\ \A b \in Calls : b # c => publish'[b] = publish[b] /\ UnderWay(b)' = UnderWay(b)
        /\ ~UnderWay(c)'
    BY <1>1, EndedCall
  <1>3. row' = IF D = NoDevice THEN row
               ELSE [l \in Keys |-> IF l \in Gone
                                    THEN [row[l] EXCEPT !.live = FALSE]
                                    ELSE row[l]]
    BY DEF RetireSiblings, Siblings, LiveOn, LookupDeviceKeys
  <1>4. row' \in [Keys -> DeviceKey]
    BY <1>3 DEF KeysInv, KeyTypeOK, DeviceKey
  <1>5. \A l \in Keys : /\ row'[l].device = row[l].device
                        /\ row'[l].live => row[l].live
                        /\ D = NoDevice \/ l \notin Gone => row'[l] = row[l]
                        /\ D # NoDevice /\ l \in Gone => ~row'[l].live
    BY <1>3 DEF KeysInv, KeyTypeOK, DeviceKey
  <1>6. KeyTypeOK'
    BY <1>1, <1>2, <1>4 DEF KeysInv, KeyTypeOK
  <1>7. RivalsExplained'
    <2> SUFFICES ASSUME NEW i \in Keys, NEW j \in Keys, Rivals(i, j)'
                 PROVE  \E m \in {i, j} :
                          m \in halfway' \/ \E b \in Calls : Fresh(b, m)'
      BY DEF RivalsExplained
    <2>1. Rivals(i, j)
      BY <1>5 DEF Rivals
    <2>2. PICK m \in {i, j} : m \in halfway \/ \E b \in Calls : Fresh(b, m)
      BY <2>1 DEF KeysInv, RivalsExplained
    <2>3. CASE m \in halfway
      BY <1>1, <2>3
    <2>4. ASSUME NEW b \in Calls, Fresh(b, m)
          PROVE  \E n \in Calls : Fresh(n, m)'
      <3>1. b # c
        <4> SUFFICES ASSUME b = c PROVE FALSE
          OBVIOUS
        <4>1. m = k /\ D = row[k].device
          BY <1>1, <2>4 DEF Fresh
        <4>2. D # NoDevice
          BY <2>1, <2>2, <4>1 DEF Rivals
        <4>3. PICK l \in {i, j} : l # k
          BY <2>1 DEF Rivals
        <4>4. l \in Gone
          BY <2>1, <2>2, <4>1, <4>3 DEF Rivals
        <4> QED
          BY <1>5, <4>2, <4>4 DEF Rivals
      <3> QED
        BY <1>2, <1>5, <2>4, <3>1 DEF Fresh
    <2> QED
      BY <2>2, <2>3, <2>4
  <1>8. LoneUndisturbed'
    <2> SUFFICES ASSUME NEW b \in Calls, b \notin crowded', UnderWay(b)'
                 PROVE  /\ Alone(b)'
                        /\ publish'[b].key \notin halfway'
                        /\ row'[publish'[b].key].live
                        /\ row'[publish'[b].key].device = publish'[b].device
      BY DEF LoneUndisturbed
    <2>1. b # c /\ UnderWay(b) /\ b \notin crowded /\ publish'[b] = publish[b]
      BY <1>1, <1>2
    <2>2. /\ Alone(b)
          /\ publish[b].key \notin halfway
          /\ row[publish[b].key].live /\ row[publish[b].key].device = publish[b].device
          /\ publish[b].key \in Keys
      BY <2>1 DEF KeysInv, LoneUndisturbed, KeyTypeOK, KeyCall, UnderWay
    <2>3. ActorOf[publish[b].key] # a
      BY <1>1, <2>1, <2>2 DEF Alone
    <2>4. Alone(b)'
      BY <1>2, <2>1, <2>2 DEF Alone
    <2> QED
      BY <1>1, <1>5, <2>1, <2>2, <2>3, <2>4
  <1> QED
    BY <1>6, <1>7, <1>8 DEF KeysInv

\* What a failed publish leaves undone is its key's to answer for.
LEMMA FailKeepsInv ==
  ASSUME KeysInv, NEW c \in Calls, Fail(c)
  PROVE  KeysInv'
  <1> DEFINE k == publish[c].key
  <1>1. /\ UnderWay(c) /\ halfway' = halfway \cup {k}
        /\ publish' = [publish EXCEPT ![c] = NoPublish]
        /\ UNCHANGED <<row, crowded>>
    BY DEF Fail
  <1>2. /\ publish' \in [Calls -> KeyCall] /\ k \in Keys
        /\ \A b \in Calls : b # c => publish'[b] = publish[b] /\ UnderWay(b)' = UnderWay(b)
        /\ ~UnderWay(c)'
    BY <1>1, EndedCall
  <1>3. KeyTypeOK'
    BY <1>1, <1>2 DEF KeysInv, KeyTypeOK
  <1>4. RivalsExplained'
    <2>1. \A b \in Calls, m \in Keys : Fresh(b, m) => m \in halfway' \/ Fresh(b, m)'
      BY <1>1, <1>2 DEF Fresh
    <2> QED
      BY <1>1, <2>1 DEF KeysInv, RivalsExplained, Rivals
  <1>5. LoneUndisturbed'
    <2> SUFFICES ASSUME NEW b \in Calls, b \notin crowded', UnderWay(b)'
                 PROVE  /\ Alone(b)'
                        /\ publish'[b].key \notin halfway'
                        /\ row'[publish'[b].key].live
                        /\ row'[publish'[b].key].device = publish'[b].device
      BY DEF LoneUndisturbed
    <2>1. b # c /\ UnderWay(b) /\ b \notin crowded /\ publish'[b] = publish[b]
      BY <1>1, <1>2
    <2>2. /\ Alone(b)
          /\ publish[b].key \notin halfway
          /\ row[publish[b].key].live /\ row[publish[b].key].device = publish[b].device
      BY <2>1 DEF KeysInv, LoneUndisturbed
    <2>3. publish[b].key # k
      BY <1>1, <2>1, <2>2 DEF Alone
    <2>4. Alone(b)'
      BY <1>2, <2>1, <2>2 DEF Alone
    <2> QED
      BY <1>1, <2>1, <2>2, <2>3, <2>4
  <1> QED
    BY <1>3, <1>4, <1>5 DEF KeysInv

\* A sign-out takes keys away and moves none.
LEMMA RetireDeviceKeepsInv ==
  ASSUME KeysInv, NEW d \in Devices, RetireDevice(d)
  PROVE  KeysInv'
  <1>1. /\ row' = [k \in Keys |-> IF row[k].device = d
                                  THEN [row[k] EXCEPT !.live = FALSE] ELSE row[k]]
        /\ crowded' = crowded \cup {c \in Calls : UnderWay(c)}
        /\ UNCHANGED <<publish, halfway>>
    BY DEF RetireDevice
  <1>2. row' \in [Keys -> DeviceKey]
    BY <1>1 DEF KeysInv, KeyTypeOK, DeviceKey
  <1>3. \A k \in Keys : /\ row'[k].device = row[k].device
                        /\ row'[k].live => row[k].live
    BY <1>1 DEF KeysInv, KeyTypeOK, DeviceKey
  <1>4. KeyTypeOK'
    BY <1>1, <1>2 DEF KeysInv, KeyTypeOK
  <1>5. \A c \in Calls, k \in Keys : Fresh(c, k) => Fresh(c, k)'
    BY <1>1, <1>3 DEF Fresh, UnderWay
  <1>6. RivalsExplained'
    <2> SUFFICES ASSUME NEW i \in Keys, NEW j \in Keys, Rivals(i, j)'
                 PROVE  \E m \in {i, j} :
                          m \in halfway' \/ \E b \in Calls : Fresh(b, m)'
      BY DEF RivalsExplained
    <2>1. Rivals(i, j)
      BY <1>3 DEF Rivals
    <2> QED
      BY <1>1, <1>5, <2>1 DEF KeysInv, RivalsExplained
  <1>7. LoneUndisturbed'
    BY <1>1 DEF LoneUndisturbed, UnderWay
  <1> QED
    BY <1>4, <1>6, <1>7 DEF KeysInv

\* Every step keeps the invariant.
LEMMA NextKeysInv == KeysInv /\ [KeyNext]_keyVars => KeysInv'
  <1>1. CASE UNCHANGED keyVars
    BY <1>1 DEF keyVars, KeysInv, KeyTypeOK, RivalsExplained, Rivals, Fresh,
       LoneUndisturbed, Alone, UnderWay
  <1> QED
    BY <1>1, PublishKeepsInv, ReadKeepsInv, RetireKeepsInv, FailKeepsInv,
       RetireDeviceKeepsInv DEF KeyNext

\* Rows and calls keep their types; rivals are explained, and calls alone
\* with their actor undisturbed.
THEOREM KeyInvariance == KeySpec => []KeysInv
  BY InitKeysInv, NextKeysInv, PTL DEF KeySpec

\* Rows and publishes in flight keep their types.
THEOREM KeyTypeCorrect == KeySpec => []KeyTypeOK
  BY KeyInvariance, PTL DEF KeysInv

\* A sender is given two keys of one handset only while PublishDeviceKey is at
\* work on one of them, or after it failed between its statements.
THEOREM HandsetKey == KeySpec => []OneKeyPerHandset
  <1>1. KeysInv => OneKeyPerHandset
    BY DEF KeysInv, RivalsExplained, Rivals, Fresh, OneKeyPerHandset
  <1> QED
    BY <1>1, KeyInvariance, PTL

\* A publish alone with its actor finds the handset of its row unmoved, so it
\* retires every other key of it and no more.
LEMMA LoneRetires ==
  ASSUME KeysInv, NEW c \in Calls \ crowded, NEW k \in Keys,
         NEW d, row[k].device = d,
         publish[c].key = k, RetireSiblings(c)
  PROVE  /\ k \in LookupDeviceKeys(ActorOf[k])'
         /\ d # NoDevice => LiveOn(ActorOf[k], d)' = {k}
         /\ \A l \in Keys : \/ row'[l] = row[l]
                            \/ ActorOf[l] = ActorOf[k] /\ row[l].device = d
  <1> DEFINE a == ActorOf[k]
             Gone == {l \in Keys : /\ l # k /\ ActorOf[l] = a
                                   /\ row[l].live /\ row[l].device = d}
  <1>1. row[k].live /\ publish[c].device = d
    BY DEF KeysInv, LoneUndisturbed, RetireSiblings, UnderWay
  <1>2. row' = IF d = NoDevice THEN row
               ELSE [l \in Keys |-> IF l \in Gone
                                    THEN [row[l] EXCEPT !.live = FALSE]
                                    ELSE row[l]]
    BY <1>1 DEF RetireSiblings, Siblings, LiveOn, LookupDeviceKeys
  <1>3. \A l \in Keys : /\ row'[l].device = row[l].device
                        /\ d = NoDevice \/ l \notin Gone => row'[l] = row[l]
                        /\ d # NoDevice /\ l \in Gone => ~row'[l].live
    BY <1>2 DEF KeysInv, KeyTypeOK, DeviceKey
  <1>4. k \in LookupDeviceKeys(a)'
    BY <1>1, <1>3 DEF LookupDeviceKeys
  <1>5. ASSUME d # NoDevice PROVE LiveOn(a, d)' = {k}
    BY <1>3, <1>4, <1>5 DEF LiveOn, LookupDeviceKeys
  <1> QED
    BY <1>3, <1>4, <1>5

\* PublishDeviceKey replaces the handset's key, and touches no other, when no
\* other publish of the actor and no sign-out crossed it.
THEOREM LoneReplaces == KeySpec => LonePublishReplaces
  <1> DEFINE Replaces(c, k, d) ==
        /\ k \in LookupDeviceKeys(ActorOf[k])'
        /\ d # NoDevice => LiveOn(ActorOf[k], d)' = {k}
        /\ \A l \in Keys : \/ row'[l] = row[l]
                           \/ ActorOf[l] = ActorOf[k] /\ row[l].device = d
  <1>1. KeysInv /\ [KeyNext]_keyVars =>
          [\A c \in Calls \ crowded : \A k \in Keys, d \in Devices \cup {NoDevice} :
             /\ publish[c].at = "read" /\ publish[c].key = k /\ row[k].device = d
             /\ ~UnderWay(c)' /\ halfway' = halfway
             => Replaces(c, k, d)]_keyVars
    <2> SUFFICES ASSUME KeysInv, KeyNext, NEW c \in Calls \ crowded, NEW k \in Keys,
                        NEW d \in Devices \cup {NoDevice}, row[k].device = d,
                        publish[c].at = "read", publish[c].key = k,
                        ~UnderWay(c)', halfway' = halfway
                 PROVE  Replaces(c, k, d)
      BY DEF keyVars
    <2> SUFFICES RetireSiblings(c)
      BY LoneRetires
    <2>1. UnderWay(c) /\ k \notin halfway
      BY DEF KeysInv, LoneUndisturbed, UnderWay
    <2>2. ASSUME NEW b \in Calls, NEW l \in Keys, NEW e \in Devices \cup {NoDevice},
                 PublishKey(b, l, e)
          PROVE  FALSE
      BY <2>1, <2>2 DEF PublishKey, UnderWay, KeysInv, KeyTypeOK
    <2>3. ASSUME NEW b \in Calls, ReadBack(b) PROVE FALSE
      BY <2>1, <2>3 DEF ReadBack, UnderWay, KeysInv, KeyTypeOK
    <2>4. ASSUME NEW b \in Calls, RetireSiblings(b) PROVE b = c
      BY <2>1, <2>4 DEF RetireSiblings, UnderWay, KeysInv, KeyTypeOK
    <2>5. ASSUME NEW b \in Calls, Fail(b) PROVE FALSE
      BY <2>1, <2>5 DEF Fail, UnderWay, KeysInv, KeyTypeOK
    <2>6. ASSUME NEW e \in Devices, RetireDevice(e) PROVE FALSE
      BY <2>1, <2>6 DEF RetireDevice, UnderWay
    <2> QED
      BY <2>2, <2>3, <2>4, <2>5, <2>6 DEF KeyNext
  <1> QED
    BY <1>1, KeyInvariance, PTL DEF KeySpec, LonePublishReplaces
=============================================================================
