------------------------------ MODULE DMRoster ------------------------------
(***************************************************************************)
(* The roster of one direct-message thread, right after CreateThread: who  *)
(* is invited, active, gone or kicked, and who may invite, kick and        *)
(* promote.  None of these calls is a transaction: each asks whether its   *)
(* caller is an active admin in one statement and writes in a later one,   *)
(* and the calls of different actors interleave between the two.           *)
(*                                                                         *)
(* A participant row is never deleted, so a row once found stays found.    *)
(* The statement of claimEmptiedThread reads the whole roster from its     *)
(* snapshot and writes its own row only; two of them on different rows do  *)
(* not wait for each other (Postgres, READ COMMITTED), so it is cut in two.*)
(***************************************************************************)
EXTENDS Naturals, FiniteSets

CONSTANTS
  Actors,    \* who may be on the roster
  Creator,   \* who opened the thread
  Initial,   \* who was invited at the opening
  NoActor    \* nobody in particular

ASSUME ActorsAssumption == IsFiniteSet(Actors)
ASSUME CreatorAssumption == Creator \in Actors
ASSUME InitialAssumption == Initial \subseteq Actors
ASSUME NoActorAssumption == NoActor \notin Actors

VARIABLES
  roster,  \* actor -> the dm_participant row, or OffRoster
  op,      \* actor -> the call in flight
  crossed  \* whose call in flight saw the roster change meanwhile (history)

vars == <<roster, op, crossed>>

-----------------------------------------------------------------------------
State == {"invited", "active", "left", "kicked"}

OffRoster == [state |-> "none", admin |-> FALSE]

Participant == [state: State, admin: BOOLEAN] \cup {OffRoster}

OnRoster(a) == roster[a].state # "none"
Active == {a \in Actors : roster[a].state = "active"}

\* Mutant: whoever is active may write the roster.
IsAdmin_Active(a) == roster[a].state = "active"

IsAdmin(a) == roster[a].admin /\ roster[a].state = "active"

ActiveAdmins == {a \in Actors : IsAdmin(a)}

\* The acts only an active admin may make on another's row.
AdminActs == {"inviteFind", "kick", "promote", "reEnable"}

Call == [at: AdminActs \cup {"idle", "inviteWrite", "leaveCountAdmins",
                             "leaveCountActive", "leave", "claim", "won"},
         on: Actors \cup {NoActor},
         lastAdmin: BOOLEAN]

Idle == [at |-> "idle", on |-> NoActor, lastAdmin |-> FALSE]

TypeOK == /\ roster \in [Actors -> Participant]
          /\ op \in [Actors -> Call]
          /\ crossed \subseteq Actors

Init ==
  /\ roster = [a \in Actors |->
                 IF a = Creator THEN [state |-> "active", admin |-> TRUE]
                 ELSE IF a \in Initial THEN [state |-> "invited", admin |-> FALSE]
                 ELSE OffRoster]
  /\ op = [a \in Actors |-> Idle]
  /\ crossed = {}

Goto(by, point, a) ==
  op' = [op EXCEPT ![by] = [Idle EXCEPT !.at = point, !.on = a]]
Return(by) == op' = [op EXCEPT ![by] = Idle]

\* The update of a participant's state, which a missing row refuses.
SetState(a, state) ==
  roster' = IF OnRoster(a) THEN [roster EXCEPT ![a].state = state] ELSE roster

-----------------------------------------------------------------------------
(* The admins' calls.                                                      *)

\* isAdmin, the first statement of Invite, Kick, Promote and, for another,
\* ReEnable.  A kick of oneself is refused, a re-enable needs the row first.
AskAdmin(by, act, a) ==
  /\ op[by].at = "idle"
  /\ IsAdmin(by)
  /\ act = "kick" => a # by
  /\ act = "reEnable" => a # by /\ OnRoster(a)
  /\ Goto(by, act, a)
  /\ UNCHANGED roster

\* Invite looks whether its guest is active already.
InviteFind(by, a) ==
  /\ op[by].at = "inviteFind" /\ op[by].on = a
  /\ IF roster[a].state = "active" THEN Return(by)
     ELSE Goto(by, "inviteWrite", a)
  /\ UNCHANGED roster

\* The upsert: a new row is no admin's, an old one keeps is_admin.
InviteWrite(by, a) ==
  /\ op[by].at = "inviteWrite" /\ op[by].on = a
  /\ roster' = [roster EXCEPT ![a] = [state |-> "invited",
                                      admin |-> roster[a].admin]]
  /\ Return(by)

Kick(by, a) ==
  /\ op[by].at = "kick" /\ op[by].on = a
  /\ SetState(a, "kicked")
  /\ Return(by)

\* The flag alone, whatever the state, on a row that exists.
Promote(by, a) ==
  /\ op[by].at = "promote" /\ op[by].on = a
  /\ roster' = IF OnRoster(a) THEN [roster EXCEPT ![a].admin = TRUE] ELSE roster
  /\ Return(by)

\* An admin re-enables another, whatever their state.
ReEnable(by, a) ==
  /\ op[by].at = "reEnable" /\ op[by].on = a
  /\ SetState(a, "invited")
  /\ Return(by)

-----------------------------------------------------------------------------
(* The calls about oneself.                                                *)

\* One update, whatever the state was.
Accept(a) ==
  /\ op[a].at = "idle"
  /\ OnRoster(a)
  /\ SetState(a, "active")
  /\ UNCHANGED op

\* Leave: only an active admin has to count who stays.
LeaveRead(a) ==
  /\ op[a].at = "idle"
  /\ OnRoster(a)
  /\ Goto(a, IF IsAdmin(a) THEN "leaveCountAdmins" ELSE "leave", NoActor)
  /\ UNCHANGED roster

\* Mutant: whoever is active is counted, an admin or not.
LeaveCountAdmins_Active(a) ==
  /\ op[a].at = "leaveCountAdmins"
  /\ op' = [op EXCEPT ![a].at = "leaveCountActive",
                      ![a].lastAdmin = Cardinality(Active) = 1]
  /\ UNCHANGED roster

LeaveCountAdmins(a) ==
  /\ op[a].at = "leaveCountAdmins"
  /\ op' = [op EXCEPT ![a].at = "leaveCountActive",
                      ![a].lastAdmin = Cardinality(ActiveAdmins) = 1]
  /\ UNCHANGED roster

LeaveCountActive(a) ==
  /\ op[a].at = "leaveCountActive"
  /\ IF op[a].lastAdmin /\ Cardinality(Active) > 1 THEN Return(a)
     ELSE op' = [op EXCEPT ![a].at = "leave"]
  /\ UNCHANGED roster

Leave(a) ==
  /\ op[a].at = "leave"
  /\ SetState(a, "left")
  /\ Return(a)

\* claimEmptiedThread as its snapshot sees the roster.
ClaimRead(a) ==
  /\ op[a].at = "idle"
  /\ roster[a].state = "left"
  /\ Active = {}
  /\ Goto(a, "claim", NoActor)
  /\ UNCHANGED roster

\* ... and its write, which another writer of the same row makes look again.
ClaimWrite(a) ==
  /\ op[a].at = "claim"
  /\ IF roster[a].state = "left"
     THEN /\ roster' = [roster EXCEPT ![a].state = "active"]
          /\ Goto(a, "won", NoActor)
     ELSE Return(a) /\ UNCHANGED roster

\* The winner's row is read once more and answered.
ClaimAnswer(a) ==
  /\ op[a].at = "won"
  /\ Return(a)
  /\ UNCHANGED roster

-----------------------------------------------------------------------------
AdminStep(by, a) == \/ \E act \in AdminActs : AskAdmin(by, act, a)
                    \/ InviteFind(by, a)
                    \/ InviteWrite(by, a)
                    \/ Kick(by, a)
                    \/ Promote(by, a)
                    \/ ReEnable(by, a)

OwnStep(a) == \/ Accept(a)
              \/ LeaveRead(a)
              \/ LeaveCountAdmins(a)
              \/ LeaveCountActive(a)
              \/ Leave(a)
              \/ ClaimRead(a)
              \/ ClaimWrite(a)
              \/ ClaimAnswer(a)

\* A change of the roster crosses every call in flight but the one it is of.
NoteCrossings ==
  crossed' = {a \in Actors : /\ op'[a].at # "idle"
                             /\ a \in crossed \/ (op'[a] = op[a] /\ roster' # roster)}

Next == /\ \/ \E by, a \in Actors : AdminStep(by, a)
           \/ \E a \in Actors : OwnStep(a)
        /\ NoteCrossings

Spec == Init /\ [][Next]_vars

-----------------------------------------------------------------------------
(* Somebody's row is changed by nobody but themselves and those who are,   *)
(* or at some time were, admins: no call of a plain participant or of an   *)
(* outsider touches another's row.                                         *)
OnlyAdminsMoveOthers ==
  [][\A a \in Actors : roster'[a] # roster[a] =>
       \/ \A b \in Actors \ {a} : op'[b] = op[b]
       \/ \E b \in Actors \ {a} : op'[b] # op[b] /\ roster[b].admin]_vars

(* A call that no change of the roster crossed is as good as one           *)
(* statement, however many others are in flight: who claims the emptied    *)
(* thread gets it and is alone in it, who leaves leaves an active admin    *)
(* behind as long as anybody active stays, and an admin's act is still an  *)
(* admin's when it is written, an invitation on nobody who is active.      *)
UncrossedCallsHold ==
  [][\A a \in Actors \ crossed : op'[a] # op[a] =>
       /\ op[a].at = "claim" => op'[a].at = "won" /\ Active' = {a}
       /\ op[a].at = "leave" /\ ActiveAdmins # {}
            => Active' = {} \/ ActiveAdmins' # {}
       /\ op[a].at \in AdminActs \cup {"inviteWrite"} => IsAdmin(a)
       /\ op[a].at = "inviteWrite" => roster[op[a].on].state # "active"]_vars

(* As the operations document has it, of two departed participants who     *)
(* re-enable themselves both cannot win.                                   *)
ClaimsAreExclusive ==
  \A a, b \in Active : op[a].at = "won" /\ op[b].at = "won" => a = b
=============================================================================
