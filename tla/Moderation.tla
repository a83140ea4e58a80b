----------------------------- MODULE Moderation -----------------------------
(***************************************************************************)
(* The moderation of a room's messages: withholding one, leaving its       *)
(* reports standing, the author's dispute of a removal and the reviewer's  *)
(* decision, each with its entry in the act log.  Reports themselves are   *)
(* filed beside all this and are read by none of it.                       *)
(*                                                                         *)
(* A call is cut at what it reads outside a lock.  What a transaction      *)
(* writes, the act included, takes effect in the step that commits it.     *)
(* There is at most one removal per message and one dispute per removal    *)
(* (unique indexes), so both are indexed by the message.                   *)
(***************************************************************************)
EXTENDS Naturals, Sequences

CONSTANTS
  Messages,  \* the messages of the room
  Actors,    \* who may call: moderators, reviewers, members
  AuthorOf,  \* message -> who wrote it
  NoActor    \* nobody: no row, or a column left empty

ASSUME NoActorAssumption == NoActor \notin Actors
ASSUME AuthorOfAssumption == AuthorOf \in [Messages -> Actors]

VARIABLES
  removal,    \* message -> removed_by of its removal row, or NoActor
  dismissal,  \* message -> dismissed_by of its dismissal row, or NoActor
  dispute,    \* message -> the dispute row of its removal
  acts,       \* message -> the entries of the act log about it, in order
  op          \* actor -> the call in flight

vars == <<removal, dismissal, dispute, acts, op>>

-----------------------------------------------------------------------------
Outcomes == {"reinstated", "upheld"}

Dispute == [state: {"none", "open"} \cup Outcomes,
            decidedBy: Actors \cup {NoActor}]

NoDispute == [state |-> "none", decidedBy |-> NoActor]

ActKind == {"post_withheld", "report_left_standing",
            "post_restored", "removal_left_standing"}

\* DisputeOutcomeAct's choice of kind.
OutcomeAct(outcome) ==
  IF outcome = "reinstated" THEN "post_restored" ELSE "removal_left_standing"

Call == [at: {"idle", "dismiss", "dispute", "decide"},
         message: Messages \cup {NoActor}]

Idle == [at |-> "idle", message |-> NoActor]

TypeOK ==
  /\ removal \in [Messages -> Actors \cup {NoActor}]
  /\ dismissal \in [Messages -> Actors \cup {NoActor}]
  /\ dispute \in [Messages -> Dispute]
  /\ acts \in [Messages -> Seq([kind: ActKind, actor: Actors])]
  /\ op \in [Actors -> Call]

Init ==
  /\ removal = [m \in Messages |-> NoActor]
  /\ dismissal = [m \in Messages |-> NoActor]
  /\ dispute = [m \in Messages |-> NoDispute]
  /\ acts = [m \in Messages |-> <<>>]
  /\ op = [a \in Actors |-> Idle]

Goto(a, point, m) == op' = [op EXCEPT ![a] = [at |-> point, message |-> m]]
Return(a) == op' = [op EXCEPT ![a] = Idle]

\* The act written in the transaction of the row it is about.
WriteAct(kind, m, a) ==
  acts' = [acts EXCEPT ![m] = Append(@, [kind |-> kind, actor |-> a])]

-----------------------------------------------------------------------------
\* CreateRemoval: one transaction, refused by the unique message_id.  It does
\* not look at the dismissals.
CreateRemoval(a, m) ==
  /\ op[a].at = "idle"
  /\ removal[m] = NoActor
  /\ removal' = [removal EXCEPT ![m] = a]
  /\ WriteAct("post_withheld", m, a)
  /\ UNCHANGED <<dismissal, dispute, op>>

\* DismissReports' SELECT ... FOR UPDATE: where there is no removal there is
\* no row to lock.
DismissCheck(a, m) ==
  /\ op[a].at = "idle"
  /\ removal[m] = NoActor
  /\ Goto(a, "dismiss", m)
  /\ UNCHANGED <<removal, dismissal, dispute, acts>>

\* Mutant: the act is written whether or not the unique message_id takes the row.
DismissCommit_ActAnyway(a, m) ==
  /\ op[a] = [at |-> "dismiss", message |-> m]
  /\ dismissal' = [dismissal EXCEPT ![m] = IF @ = NoActor THEN a ELSE @]
  /\ WriteAct("report_left_standing", m, a)
  /\ Return(a)
  /\ UNCHANGED <<removal, dispute>>

\* The insert, the act and the commit.
DismissCommit(a, m) ==
  /\ op[a] = [at |-> "dismiss", message |-> m]
  /\ dismissal[m] = NoActor
  /\ dismissal' = [dismissal EXCEPT ![m] = a]
  /\ WriteAct("report_left_standing", m, a)
  /\ Return(a)
  /\ UNCHANGED <<removal, dispute>>

-----------------------------------------------------------------------------
\* CreateDispute's read of the removal, outside any transaction.  raised_by
\* is taken as the caller gives it.
DisputeCheck(a, m) ==
  /\ op[a].at = "idle"
  /\ removal[m] # NoActor
  /\ Goto(a, "dispute", m)
  /\ UNCHANGED <<removal, dismissal, dispute, acts>>

\* The insert, refused by the unique removal_id.
DisputeInsert(a, m) ==
  /\ op[a] = [at |-> "dispute", message |-> m]
  /\ dispute[m].state = "none"
  /\ dispute' = [dispute EXCEPT ![m] = [NoDispute EXCEPT !.state = "open"]]
  /\ Return(a)
  /\ UNCHANGED <<removal, dismissal, acts>>

\* Mutant: the remover may review the removal.
DecideRead_AnyReviewer(a, m) ==
  /\ op[a].at = "idle"
  /\ dispute[m].state = "open"
  /\ Goto(a, "decide", m)
  /\ UNCHANGED <<removal, dismissal, dispute, acts>>

\* DecideDispute's transaction up to its update: the dispute is open and the
\* reviewer is not the remover.
DecideRead(a, m) ==
  /\ op[a].at = "idle"
  /\ dispute[m].state = "open"
  /\ removal[m] # a
  /\ Goto(a, "decide", m)
  /\ UNCHANGED <<removal, dismissal, dispute, acts>>

\* The update names the dispute by its id alone, then the act, the commit.
DecideCommit(a, m, outcome) ==
  /\ op[a] = [at |-> "decide", message |-> m]
  /\ dispute' = [dispute EXCEPT ![m] = [state |-> outcome, decidedBy |-> a]]
  /\ WriteAct(OutcomeAct(outcome), m, a)
  /\ Return(a)
  /\ UNCHANGED <<removal, dismissal>>

\* A call ends without effect: a unique index refuses its insert, or a write
\* fails, the act's among them, and the transaction rolls back.
Rollback(a) ==
  /\ op[a].at # "idle"
  /\ Return(a)
  /\ UNCHANGED <<removal, dismissal, dispute, acts>>

Next == \E a \in Actors :
          \/ Rollback(a)
          \/ \E m \in Messages : \/ CreateRemoval(a, m)
                                 \/ DismissCheck(a, m)
                                 \/ DismissCommit(a, m)
                                 \/ DisputeCheck(a, m)
                                 \/ DisputeInsert(a, m)
                                 \/ DecideRead(a, m)
                                 \/ \E outcome \in Outcomes :
                                      DecideCommit(a, m, outcome)

Spec == Init /\ [][Next]_vars

-----------------------------------------------------------------------------
Entries(m, kinds) == {i \in DOMAIN acts[m] : acts[m][i].kind \in kinds}

\* One entry of the kind, by `who', if anybody; none if nobody.
ToldOnce(m, kind, who) ==
  IF who = NoActor
  THEN Entries(m, {kind}) = {}
  ELSE \E i \in Entries(m, {kind}) : /\ acts[m][i].actor = who
                                     /\ Entries(m, {kind}) = {i}

\* The last entry about an outcome is the dispute's; none without one.
OutcomeTold(m) ==
  LET decided == Entries(m, {"post_restored", "removal_left_standing"})
  IN IF dispute[m].state \in Outcomes
     THEN \E i \in decided :
            /\ \A j \in decided : j <= i
            /\ acts[m][i] = [kind |-> OutcomeAct(dispute[m].state),
                             actor |-> dispute[m].decidedBy]
     ELSE decided = {}

(* The act log tells exactly what the rows tell, who did it included, and  *)
(* the latest outcome it names is the one the dispute holds: an act is     *)
(* written in the transaction of its row.                                  *)
ActsTellTheRows ==
  \A m \in Messages : /\ ToldOnce(m, "post_withheld", removal[m])
                      /\ ToldOnce(m, "report_left_standing", dismissal[m])
                      /\ OutcomeTold(m)

(* No removal is reviewed by whoever removed the message, however the      *)
(* removal, the dispute and the decisions interleave.                      *)
ReviewerIsNotRemover ==
  \A m \in Messages : dispute[m].state \in Outcomes =>
    /\ removal[m] # NoActor
    /\ dispute[m].decidedBy \notin {removal[m], NoActor}
=============================================================================
