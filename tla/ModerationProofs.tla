-------------------------- MODULE ModerationProofs --------------------------
(***************************************************************************)
(* What holds of moderation for every set of messages and callers.  A      *)
(* removal is never withdrawn and keeps its remover, so what a call read   *)
(* of it outside its transaction is still so when the call writes.         *)
(***************************************************************************)
EXTENDS Moderation, TLAPS

USE NoActorAssumption

\* Only what was removed is disputed.
DisputedWasRemoved ==
  \A m \in Messages : dispute[m].state # "none" => removal[m] # NoActor

\* What a call that disputes or decides has read is still so.
ReadsHold ==
  \A a \in Actors : op[a].at \in {"dispute", "decide"} =>
    /\ op[a].message \in Messages
    /\ removal[op[a].message] # NoActor
    /\ op[a].at = "decide" => removal[op[a].message] # a

ModInv == TypeOK /\ DisputedWasRemoved /\ ReadsHold /\ ReviewerIsNotRemover

-----------------------------------------------------------------------------
\* In an empty room nothing is disputed and nobody is at work.
LEMMA InitModInv == Init => ModInv
  BY DEF Init, ModInv, TypeOK, DisputedWasRemoved, ReadsHold, ReviewerIsNotRemover,
     Dispute, NoDispute, Outcomes, Call, Idle

\* The calls' own records are well formed.
LEMMA CallsTyped ==
  /\ Idle \in Call
  /\ \A p \in {"dismiss", "dispute", "decide"}, m \in Messages :
       [at |-> p, message |-> m] \in Call
  BY DEF Idle, Call

\* An act appended to a log of acts leaves it one.
LEMMA WriteActTyped ==
  ASSUME acts \in [Messages -> Seq([kind: ActKind, actor: Actors])],
         NEW k \in ActKind, NEW m \in Messages, NEW a \in Actors,
         WriteAct(k, m, a)
  PROVE  acts' \in [Messages -> Seq([kind: ActKind, actor: Actors])]
  <1> DEFINE Act == [kind: ActKind, actor: Actors]
             e == [kind |-> k, actor |-> a]
  <1>1. e \in Act /\ acts[m] \in Seq(Act)
    OBVIOUS
  <1> HIDE DEF Act, e
  <1>2. Append(acts[m], e) \in Seq(Act)
    BY <1>1
  <1> USE DEF Act, e
  <1> QED
    BY <1>2 DEF WriteAct

\* A removal is of a message that was not removed: nobody can have read it.
LEMMA RemovalKeepsInv ==
  ASSUME ModInv, NEW a \in Actors, NEW m \in Messages, CreateRemoval(a, m)
  PROVE  ModInv'
  <1>1. /\ removal[m] = NoActor /\ removal' = [removal EXCEPT ![m] = a]
        /\ UNCHANGED <<dismissal, dispute, op>>
    BY DEF CreateRemoval
  <1>2. acts' \in [Messages -> Seq([kind: ActKind, actor: Actors])]
    BY WriteActTyped DEF CreateRemoval, ModInv, TypeOK, ActKind
  <1>3. TypeOK'
    BY <1>1, <1>2 DEF ModInv, TypeOK
  <1>4. \A n \in Messages : removal[n] # NoActor => removal'[n] = removal[n]
    BY <1>1 DEF ModInv, TypeOK
  <1>5. DisputedWasRemoved' /\ ReadsHold'
    BY <1>1, <1>4 DEF ModInv, DisputedWasRemoved, ReadsHold
  <1>6. ReviewerIsNotRemover'
    BY <1>1, <1>4 DEF ModInv, ReviewerIsNotRemover
  <1> QED
    BY <1>3, <1>5, <1>6 DEF ModInv

\* A decision is by a reviewer who read, of a removal that cannot change,
\* that they are not the remover.
LEMMA DecisionKeepsInv ==
  ASSUME ModInv, NEW a \in Actors, NEW m \in Messages, NEW outcome \in Outcomes,
         DecideCommit(a, m, outcome)
  PROVE  ModInv'
  <1> DEFINE d == [state |-> outcome, decidedBy |-> a]
  <1>1. /\ op[a] = [at |-> "decide", message |-> m]
        /\ dispute' = [dispute EXCEPT ![m] = d]
        /\ op' = [op EXCEPT ![a] = Idle]
        /\ UNCHANGED <<removal, dismissal>>
    BY DEF DecideCommit, Return
  <1>2. OutcomeAct(outcome) \in ActKind
    BY DEF OutcomeAct, ActKind
  <1>3. acts' \in [Messages -> Seq([kind: ActKind, actor: Actors])]
    BY <1>2, WriteActTyped DEF DecideCommit, ModInv, TypeOK
  <1>4. d \in Dispute
    BY DEF Dispute
  <1>5. TypeOK'
    BY <1>1, <1>3, <1>4, CallsTyped DEF ModInv, TypeOK
  <1>6. removal[m] \notin {NoActor, a}
    BY <1>1 DEF ModInv, ReadsHold
  <1>7. DisputedWasRemoved'
    BY <1>1, <1>6 DEF ModInv, TypeOK, DisputedWasRemoved
  <1>8. ReadsHold'
    BY <1>1 DEF ModInv, TypeOK, ReadsHold, Idle
  <1>9. ReviewerIsNotRemover'
    BY <1>1, <1>6 DEF ModInv, TypeOK, ReviewerIsNotRemover
  <1> QED
    BY <1>5, <1>7, <1>8, <1>9 DEF ModInv

\* The steps that change at most a call, a dismissal or an open dispute.
LEMMA OtherKeepsInv ==
  ASSUME ModInv, NEW a \in Actors,
         \/ Rollback(a)
         \/ \E m \in Messages : \/ DismissCheck(a, m)
                                \/ DismissCommit(a, m)
                                \/ DisputeCheck(a, m)
                                \/ DisputeInsert(a, m)
                                \/ DecideRead(a, m)
  PROVE  ModInv'
  <1>1. CASE Rollback(a)
    BY <1>1, CallsTyped DEF Rollback, Return, Idle, ModInv, TypeOK,
       DisputedWasRemoved, ReadsHold, ReviewerIsNotRemover
  <1>2. ASSUME NEW m \in Messages, DismissCheck(a, m) PROVE ModInv'
    BY <1>2, CallsTyped DEF DismissCheck, Goto, ModInv, TypeOK,
       DisputedWasRemoved, ReadsHold, ReviewerIsNotRemover
  <1>3. ASSUME NEW m \in Messages, DismissCommit(a, m) PROVE ModInv'
    <2>1. acts' \in [Messages -> Seq([kind: ActKind, actor: Actors])]
      BY <1>3, WriteActTyped DEF DismissCommit, ModInv, TypeOK, ActKind
    <2>2. /\ dismissal' = [dismissal EXCEPT ![m] = a]
          /\ op' = [op EXCEPT ![a] = Idle]
          /\ UNCHANGED <<removal, dispute>>
      BY <1>3 DEF DismissCommit, Return
    <2>3. TypeOK'
      BY <2>1, <2>2, CallsTyped DEF ModInv, TypeOK
    <2>4. ReadsHold'
      BY <2>2 DEF ModInv, TypeOK, ReadsHold, Idle
    <2>5. DisputedWasRemoved' /\ ReviewerIsNotRemover'
      BY <2>2 DEF ModInv, DisputedWasRemoved, ReviewerIsNotRemover
    <2> QED
      BY <2>3, <2>4, <2>5 DEF ModInv
  <1>4. ASSUME NEW m \in Messages, DisputeCheck(a, m) PROVE ModInv'
    BY <1>4, CallsTyped DEF DisputeCheck, Goto, ModInv, TypeOK,
       DisputedWasRemoved, ReadsHold, ReviewerIsNotRemover
  <1>5. ASSUME NEW m \in Messages, DisputeInsert(a, m) PROVE ModInv'
    <2> DEFINE d == [state |-> "open", decidedBy |-> NoActor]
    <2>1. [NoDispute EXCEPT !.state = "open"] = d
      BY DEF NoDispute
    <2>2. /\ op[a] = [at |-> "dispute", message |-> m]
          /\ dispute' = [dispute EXCEPT ![m] = d]
          /\ op' = [op EXCEPT ![a] = Idle]
          /\ UNCHANGED <<removal, dismissal, acts>>
      BY <1>5, <2>1 DEF DisputeInsert, Return
    <2>3. d \in Dispute
      BY DEF Dispute
    <2>4. TypeOK'
      BY <2>2, <2>3, CallsTyped DEF ModInv, TypeOK
    <2>5. removal[m] # NoActor
      BY <2>2 DEF ModInv, ReadsHold
    <2>6. DisputedWasRemoved'
      BY <2>2, <2>5 DEF ModInv, TypeOK, DisputedWasRemoved
    <2>7. ReadsHold'
      BY <2>2 DEF ModInv, TypeOK, ReadsHold, Idle
    <2>8. ReviewerIsNotRemover'
      BY <2>2 DEF ModInv, TypeOK, ReviewerIsNotRemover, Outcomes
    <2> QED
      BY <2>4, <2>6, <2>7, <2>8 DEF ModInv
  <1>6. ASSUME NEW m \in Messages, DecideRead(a, m) PROVE ModInv'
    <2>1. removal[m] # NoActor /\ removal[m] # a
      BY <1>6 DEF DecideRead, ModInv, DisputedWasRemoved
    <2> QED
      BY <1>6, <2>1, CallsTyped DEF DecideRead, Goto, ModInv, TypeOK,
         DisputedWasRemoved, ReadsHold, ReviewerIsNotRemover
  <1> QED
    BY <1>1, <1>2, <1>3, <1>4, <1>5, <1>6

\* Every step keeps the invariant.
LEMMA NextModInv == ModInv /\ [Next]_vars => ModInv'
  <1> SUFFICES ASSUME ModInv, [Next]_vars PROVE ModInv'
    OBVIOUS
  <1>1. CASE Next
    BY <1>1, RemovalKeepsInv, DecisionKeepsInv, OtherKeepsInv DEF Next
  <1>2. CASE UNCHANGED vars
    BY <1>2 DEF vars, ModInv, TypeOK, DisputedWasRemoved, ReadsHold, ReviewerIsNotRemover
  <1> QED
    BY <1>1, <1>2

\* The inductive invariant holds throughout.
THEOREM Invariance == Spec => []ModInv
  BY InitModInv, NextModInv, PTL DEF Spec

\* Every variable keeps to its type.
THEOREM TypeCorrect == Spec => []TypeOK
  BY Invariance, PTL DEF ModInv

\* However many moderators and reviewers are at work, none reviews what they
\* removed: DecideDispute's check holds to its commit.
THEOREM NoSelfReview == Spec => []ReviewerIsNotRemover
  BY Invariance, PTL DEF ModInv-----------------------------------------------------------------------------
(* The act log.                                                            *)

\* An act adds one entry to its message's log, and none to another's.
LEMMA WriteActAdds ==
  ASSUME TypeOK, NEW k \in ActKind, NEW m \in Messages, NEW a \in Actors,
         WriteAct(k, m, a)
  PROVE  \E last \in Nat :
           /\ last \notin DOMAIN acts[m]
           /\ \A i \in DOMAIN acts[m] : i \in Nat /\ i < last
           /\ acts'[m][last] = [kind |-> k, actor |-> a]
           /\ \A kinds \in SUBSET ActKind :
                Entries(m, kinds)'
                  = Entries(m, kinds) \cup IF k \in kinds THEN {last} ELSE {}
           /\ \A i \in DOMAIN acts[m] : acts'[m][i] = acts[m][i]
           /\ \A n \in Messages \ {m} : acts'[n] = acts[n]
  <1> DEFINE Act == [kind: ActKind, actor: Actors]
             e == [kind |-> k, actor |-> a]
             last == Len(acts[m]) + 1
  <1>1. e \in Act /\ acts[m] \in Seq(Act) /\ e.kind = k
    BY DEF TypeOK
  <1>2. /\ acts'[m] = Append(acts[m], e)
        /\ \A n \in Messages \ {m} : acts'[n] = acts[n]
    BY DEF WriteAct, TypeOK
  <1> HIDE DEF Act, e
  <1>3. /\ last \in Nat /\ DOMAIN acts[m] = 1 .. Len(acts[m]) /\ Len(acts[m]) \in Nat
        /\ DOMAIN acts'[m] = DOMAIN acts[m] \cup {last}
        /\ acts'[m][last] = e
        /\ \A i \in DOMAIN acts[m] : acts'[m][i] = acts[m][i]
    BY <1>1, <1>2
  <1>4. \A kinds \in SUBSET ActKind :
          Entries(m, kinds)' = Entries(m, kinds) \cup IF k \in kinds THEN {last} ELSE {}
    BY <1>1, <1>3 DEF Entries
  <1>5. /\ last \notin DOMAIN acts[m]
        /\ \A i \in DOMAIN acts[m] : i \in Nat /\ i < last
    BY <1>3
  <1> HIDE DEF last
  <1> QED
    BY <1>2, <1>3, <1>4, <1>5 DEF e

\* What is told of a message stays told while its log and row stay.
LEMMA ToldStays ==
  ASSUME NEW m \in Messages, acts'[m] = acts[m]
  PROVE  /\ \A kinds : Entries(m, kinds)' = Entries(m, kinds)
         /\ \A k, who : ToldOnce(m, k, who)' <=> ToldOnce(m, k, who)
         /\ dispute'[m] = dispute[m] => (OutcomeTold(m)' <=> OutcomeTold(m))
  BY DEF Entries, ToldOnce, OutcomeTold

\* An act of another kind changes nothing a row is told by; the only one of
\* its kind tells the row written with it.
LEMMA ToldBesides ==
  ASSUME TypeOK, NEW k \in ActKind, NEW m \in Messages, NEW a \in Actors,
         WriteAct(k, m, a)
  PROVE  /\ \A j \in ActKind \ {k} : \A who : ToldOnce(m, j, who) => ToldOnce(m, j, who)'
         /\ ToldOnce(m, k, NoActor) => ToldOnce(m, k, a)'
  <1>1. PICK last \in Nat :
          /\ last \notin DOMAIN acts[m]
          /\ acts'[m][last] = [kind |-> k, actor |-> a]
          /\ \A kinds \in SUBSET ActKind :
               Entries(m, kinds)' = Entries(m, kinds) \cup IF k \in kinds THEN {last} ELSE {}
          /\ \A i \in DOMAIN acts[m] : acts'[m][i] = acts[m][i]
    BY WriteActAdds
  <1>2. ASSUME NEW j \in ActKind \ {k}, NEW who, ToldOnce(m, j, who)
        PROVE  ToldOnce(m, j, who)'
    <2>1. Entries(m, {j})' = Entries(m, {j}) /\ Entries(m, {j}) \subseteq DOMAIN acts[m]
      BY <1>1 DEF Entries
    <2> QED
      BY <1>1, <1>2, <2>1 DEF ToldOnce
  <1>3. ASSUME ToldOnce(m, k, NoActor) PROVE ToldOnce(m, k, a)'
    <2>1. Entries(m, {k})' = {last}
      BY <1>1, <1>3 DEF ToldOnce
    <2> QED
      BY <1>1, <2>1 DEF ToldOnce
  <1> QED
    BY <1>2, <1>3

\* An act about no outcome leaves what is told of the outcome.
LEMMA OutcomeBesides ==
  ASSUME TypeOK, NEW k \in ActKind, k \in {"post_withheld", "report_left_standing"},
         NEW m \in Messages, NEW a \in Actors, WriteAct(k, m, a),
         dispute'[m] = dispute[m], OutcomeTold(m)
  PROVE  OutcomeTold(m)'
  <1>1. PICK last \in Nat :
          /\ last \notin DOMAIN acts[m]
          /\ acts'[m][last] = [kind |-> k, actor |-> a]
          /\ \A kinds \in SUBSET ActKind :
               Entries(m, kinds)' = Entries(m, kinds) \cup IF k \in kinds THEN {last} ELSE {}
          /\ \A i \in DOMAIN acts[m] : acts'[m][i] = acts[m][i]
    BY WriteActAdds
  <1> DEFINE outcomes == {"post_restored", "removal_left_standing"}
  <1>2. k \notin outcomes /\ outcomes \in SUBSET ActKind
    BY DEF ActKind
  <1>3. Entries(m, outcomes)' = Entries(m, outcomes)
    BY <1>1, <1>2
  <1>4. Entries(m, outcomes) \subseteq DOMAIN acts[m]
    BY DEF Entries
  <1> QED
    BY <1>1, <1>3, <1>4 DEF OutcomeTold

\* The act of a decision is the last, and the dispute's.
LEMMA DecisionTold ==
  ASSUME TypeOK, NEW m \in Messages, NEW a \in Actors, NEW outcome \in Outcomes,
         WriteAct(OutcomeAct(outcome), m, a),
         dispute'[m] = [state |-> outcome, decidedBy |-> a]
  PROVE  OutcomeTold(m)'
  <1> DEFINE kinds == {"post_restored", "removal_left_standing"}
             k == OutcomeAct(outcome)
  <1>1. k \in kinds /\ kinds \in SUBSET ActKind
    BY DEF OutcomeAct, ActKind
  <1>2. PICK last \in Nat :
          /\ \A i \in DOMAIN acts[m] : i \in Nat /\ i < last
          /\ acts'[m][last] = [kind |-> k, actor |-> a]
          /\ Entries(m, kinds)' = Entries(m, kinds) \cup {last}
    BY <1>1, WriteActAdds
  <1>3. \A j \in Entries(m, kinds)' : j <= last
    BY <1>2 DEF Entries
  <1>4. dispute'[m].state = outcome /\ dispute'[m].decidedBy = a
    OBVIOUS
  <1> QED
    BY <1>2, <1>3, <1>4 DEF OutcomeTold

\* Every step writes the act of the row it writes, and no other.
LEMMA NextTold == ModInv /\ ActsTellTheRows /\ [Next]_vars => ActsTellTheRows'
  <1> SUFFICES ASSUME ModInv, ActsTellTheRows, [Next]_vars PROVE ActsTellTheRows'
    OBVIOUS
  <1>1. TypeOK
    BY DEF ModInv
  <1>2. ASSUME UNCHANGED <<removal, dismissal, dispute, acts>> PROVE ActsTellTheRows'
    BY <1>2, ToldStays DEF ActsTellTheRows
  <1>3. ASSUME NEW k \in ActKind, NEW m \in Messages, NEW a \in Actors,
               WriteAct(k, m, a),
               \A n \in Messages \ {m} : /\ removal'[n] = removal[n]
                                         /\ dismissal'[n] = dismissal[n]
                                         /\ dispute'[n] = dispute[n],
               ToldOnce(m, "post_withheld", removal[m])',
               ToldOnce(m, "report_left_standing", dismissal[m])',
               OutcomeTold(m)'
        PROVE  ActsTellTheRows'
    <2>1. \A n \in Messages \ {m} : acts'[n] = acts[n]
      BY <1>1, <1>3, WriteActAdds
    <2>2. ASSUME NEW n \in Messages \ {m}
          PROVE  /\ ToldOnce(n, "post_withheld", removal[n])'
                 /\ ToldOnce(n, "report_left_standing", dismissal[n])'
                 /\ OutcomeTold(n)'
      BY <1>3, <2>1, ToldStays DEF ActsTellTheRows
    <2> QED
      BY <1>3, <2>2 DEF ActsTellTheRows
  <1>4. ASSUME NEW a \in Actors, NEW m \in Messages, CreateRemoval(a, m)
        PROVE  ActsTellTheRows'
    <2>1. /\ removal[m] = NoActor /\ removal'[m] = a
          /\ \A n \in Messages \ {m} : removal'[n] = removal[n]
          /\ WriteAct("post_withheld", m, a) /\ UNCHANGED <<dismissal, dispute>>
      BY <1>1, <1>4 DEF CreateRemoval, TypeOK
    <2>2. /\ ToldOnce(m, "post_withheld", NoActor)
          /\ ToldOnce(m, "report_left_standing", dismissal[m])
          /\ OutcomeTold(m)
      BY <2>1 DEF ActsTellTheRows
    <2>3. "post_withheld" \in ActKind /\ "report_left_standing" \in ActKind \ {"post_withheld"}
      BY DEF ActKind
    <2>4. ToldOnce(m, "post_withheld", removal[m])'
      <3>1. ToldOnce(m, "post_withheld", a)'
        BY <1>1, <2>1, <2>2, <2>3, ToldBesides
      <3> QED
        BY <2>1, <3>1 DEF ToldOnce
    <2>5. ToldOnce(m, "report_left_standing", dismissal[m])'
      <3>1. \A who : ToldOnce(m, "report_left_standing", who)
                       => ToldOnce(m, "report_left_standing", who)'
        BY <1>1, <2>1, <2>3, ToldBesides
      <3> QED
        BY <2>1, <2>2, <3>1 DEF ToldOnce
    <2>6. OutcomeTold(m)'
      BY <1>1, <2>1, <2>2, <2>3, OutcomeBesides
    <2> QED
      BY <1>3, <2>1, <2>3, <2>4, <2>5, <2>6
  <1>5. ASSUME NEW a \in Actors, NEW m \in Messages, DismissCommit(a, m)
        PROVE  ActsTellTheRows'
    <2>1. /\ dismissal[m] = NoActor /\ dismissal'[m] = a
          /\ \A n \in Messages \ {m} : dismissal'[n] = dismissal[n]
          /\ WriteAct("report_left_standing", m, a) /\ UNCHANGED <<removal, dispute>>
      BY <1>1, <1>5 DEF DismissCommit, TypeOK
    <2>2. /\ ToldOnce(m, "post_withheld", removal[m])
          /\ ToldOnce(m, "report_left_standing", NoActor)
          /\ OutcomeTold(m)
      BY <2>1 DEF ActsTellTheRows
    <2>3. "report_left_standing" \in ActKind /\ "post_withheld" \in ActKind \ {"report_left_standing"}
      BY DEF ActKind
    <2>4. ToldOnce(m, "report_left_standing", dismissal[m])'
      <3>1. ToldOnce(m, "report_left_standing", a)'
        BY <1>1, <2>1, <2>2, <2>3, ToldBesides
      <3> QED
        BY <2>1, <3>1 DEF ToldOnce
    <2>5. ToldOnce(m, "post_withheld", removal[m])'
      <3>1. \A who : ToldOnce(m, "post_withheld", who) => ToldOnce(m, "post_withheld", who)'
        BY <1>1, <2>1, <2>3, ToldBesides
      <3> QED
        BY <2>1, <2>2, <3>1 DEF ToldOnce
    <2>6. OutcomeTold(m)'
      BY <1>1, <2>1, <2>2, <2>3, OutcomeBesides
    <2> QED
      BY <1>3, <2>1, <2>3, <2>4, <2>5, <2>6
  <1>6. ASSUME NEW a \in Actors, NEW m \in Messages, NEW outcome \in Outcomes,
               DecideCommit(a, m, outcome)
        PROVE  ActsTellTheRows'
    <2>1. /\ dispute'[m] = [state |-> outcome, decidedBy |-> a]
          /\ \A n \in Messages \ {m} : dispute'[n] = dispute[n]
          /\ WriteAct(OutcomeAct(outcome), m, a) /\ UNCHANGED <<removal, dismissal>>
      BY <1>1, <1>6 DEF DecideCommit, TypeOK
    <2>2. /\ OutcomeAct(outcome) \in ActKind
          /\ {"post_withheld", "report_left_standing"} \subseteq ActKind \ {OutcomeAct(outcome)}
      BY DEF OutcomeAct, ActKind
    <2>3. ASSUME NEW k \in {"post_withheld", "report_left_standing"}
          PROVE  \A who : ToldOnce(m, k, who) => ToldOnce(m, k, who)'
      BY <1>1, <2>1, <2>2, ToldBesides
    <2>4. /\ ToldOnce(m, "post_withheld", removal[m])'
          /\ ToldOnce(m, "report_left_standing", dismissal[m])'
      BY <2>1, <2>3 DEF ActsTellTheRows, ToldOnce
    <2>5. OutcomeTold(m)'
      BY <1>1, <2>1, DecisionTold
    <2> QED
      BY <1>3, <2>1, <2>2, <2>4, <2>5
  <1>7. ASSUME NEW a \in Actors, NEW m \in Messages, DisputeInsert(a, m)
        PROVE  ActsTellTheRows'
    <2>1. /\ dispute[m].state = "none" /\ dispute'[m].state = "open"
          /\ \A n \in Messages \ {m} : dispute'[n] = dispute[n]
          /\ UNCHANGED <<removal, dismissal, acts>>
      BY <1>1, <1>7 DEF DisputeInsert, TypeOK, NoDispute
    <2>2. OutcomeTold(m)'
      BY <2>1 DEF ActsTellTheRows, OutcomeTold, Entries, Outcomes
    <2> QED
      BY <2>1, <2>2, ToldStays DEF ActsTellTheRows
  <1>8. ASSUME NEW a \in Actors,
               \/ Rollback(a)
               \/ \E m \in Messages : \/ DismissCheck(a, m)
                                      \/ DisputeCheck(a, m)
                                      \/ DecideRead(a, m)
        PROVE  ActsTellTheRows'
    BY <1>2, <1>8 DEF Rollback, DismissCheck, DisputeCheck, DecideRead
  <1>9. CASE UNCHANGED vars
    BY <1>2, <1>9 DEF vars
  <1> QED
    BY <1>4, <1>5, <1>6, <1>7, <1>8, <1>9 DEF Next

\* Log and rows are written in one transaction, so neither tells what the
\* other does not.
THEOREM LogIsTrue == Spec => []ActsTellTheRows
  <1>1. Init => ActsTellTheRows
    <2> SUFFICES ASSUME Init, NEW m \in Messages
                 PROVE  /\ ToldOnce(m, "post_withheld", removal[m])
                        /\ ToldOnce(m, "report_left_standing", dismissal[m])
                        /\ OutcomeTold(m)
      BY DEF ActsTellTheRows
    <2>1. \A kinds : Entries(m, kinds) = {}
      BY DEF Init, Entries
    <2>2. removal[m] = NoActor /\ dismissal[m] = NoActor /\ dispute[m].state \notin Outcomes
      BY DEF Init, NoDispute, Outcomes
    <2> QED
      BY <2>1, <2>2 DEF ToldOnce, OutcomeTold
  <1> QED
    BY <1>1, NextTold, Invariance, PTL DEF Spec
=============================================================================
