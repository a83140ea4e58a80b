-------------------------- MODULE SubjectThreadsProofs --------------------------
(***************************************************************************)
(* Proofs about SubjectThreads.  What a call in flight holds was read from *)
(* rows and from a host that may have changed since.  CallOK says what of  *)
(* it stays true: the standing it was fenced with was once given, whom it  *)
(* is to tell were and stay parties, and what it has still to push was not *)
(* pushed.  With it the safety properties of the runs are inductive.       *)
(***************************************************************************)
EXTENDS SubjectThreads, TLAPS

\* The calls that are past the fence.
Fencing == {"read", "askAnswerers", "postRead", "postInsert", "push"}

\* b wrote message j, in thread t and from the audience.
Wrote(b, j, t) == /\ messages[j].thread = t
                  /\ messages[j].author = b
                  /\ ~messages[j].byAnswerer

TellOK(a, call) ==
  IF ownerOf[call.thread] = Group
  THEN /\ \A b \in call.tell : b # a /\ \E j \in 1 .. Len(messages) : Wrote(b, j, call.thread)
       /\ \A j \in 1 .. call.before : \A b \in Actors \ {a} :
            Wrote(b, j, call.thread) => b \in call.tell
  ELSE \A b \in call.tell : b # a /\ (b = ownerOf[call.thread] \/ b \in everAnswered)

PushOK(a, call) ==
  /\ call.message \in 1 .. Len(messages)
  /\ messages[call.message].author = a
  /\ call.tell \subseteq told[call.message]
  /\ \A j \in DOMAIN pushed[call.message] : pushed[call.message][j] \notin call.tell

CallOK(a, call) ==
  /\ call.standing = "answerer" => a \in everAnswered
  /\ call.before <= Len(messages)
  /\ call.at \in Fencing =>
       /\ call.thread \in 1 .. Len(ownerOf)
       /\ ownerOf[call.thread] \in {a, Group} \/ call.standing = "answerer"
  /\ call.at \in {"askAnswerers", "postRead"} => call.tell \subseteq everAnswered \ {a}
  /\ call.at = "postInsert" => TellOK(a, call)
  /\ call.at = "push" => PushOK(a, call)

CallsOK == \A a \in Actors : CallOK(a, op[a])

HostOK == \A a \in Actors : standing[a] = "answerer" => a \in everAnswered

\* What an opening answered is there, and it is the only one.
OpenedThere ==
  \A o \in Owners : opened[o] \subseteq Of(o) /\ \A t, u \in Of(o) : t = u

ThreadsThere == \A i \in DOMAIN messages : /\ messages[i].thread \in 1 .. Len(ownerOf)
                                           /\ messages[i].before < i

TellingOK == ThreadsThere /\ ToldAreParties /\ EarlierAuthorsTold

Inv == TypeOK /\ CallsOK /\ HostOK /\ OpenedThere /\ TellingOK /\ PushedOnceCommitted

USE BoundsAssumption, GroupAssumption

-----------------------------------------------------------------------------
LEMMA IdleIsCall == Idle \in Call
BY DEF Idle, Call, Owners, Standings

LEMMA IdleOK == ASSUME TypeOK, NEW a \in Actors PROVE CallOK(a, Idle)
BY DEF CallOK, Idle, Fencing, TypeOK

LEMMA InitInv == Init => Inv
<1> SUFFICES ASSUME Init PROVE Inv
  OBVIOUS
<1>1. TypeOK
  <2>1. standing \in [Actors -> Standings]
    BY InitiallyAssumption DEF Init, Standings
  <2>2. op \in [Actors -> Call]
    BY IdleIsCall DEF Init
  <2>3. ownerOf \in Seq(Owners) /\ messages \in Seq(Message) /\ told \in Seq(SUBSET Actors)
    BY DEF Init
  <2>4. Len(messages) <= MaxPosts /\ Len(told) = Len(messages)
    BY DEF Init
  <2>5. pushed \in [1 .. MaxPosts -> Seq(Actors)]
    BY DEF Init
  <2>6. changes \in 0 .. MaxChanges /\ crashes \in 0 .. MaxCrashes
    BY DEF Init
  <2>7. everAnswered \subseteq Actors /\ opened \in [Owners -> SUBSET Nat]
    BY DEF Init
  <2> QED BY <2>1, <2>2, <2>3, <2>4, <2>5, <2>6, <2>7 DEF TypeOK
<1>2. CallsOK
  BY <1>1, IdleOK DEF Init, CallsOK
<1>3. HostOK
  BY DEF Init, HostOK
<1>4. OpenedThere
  BY DEF Init, OpenedThere, Of
<1>5. TellingOK
  BY DEF Init, TellingOK, ThreadsThere, ToldAreParties, EarlierAuthorsTold
<1>6. PushedOnceCommitted
  BY DEF Init, PushedOnceCommitted
<1> QED BY <1>1, <1>2, <1>3, <1>4, <1>5, <1>6 DEF Inv

-----------------------------------------------------------------------------
\* A step that only moves one call on, to where what it holds is true.
LEMMA MoveInv ==
  ASSUME Inv, NEW a \in Actors, NEW call \in Call, CallOK(a, call), Goto(a, call),
         UNCHANGED <<rows, pushed, host>>
  PROVE  /\ op' \in [Actors -> Call]
         /\ CallsOK' /\ HostOK' /\ TellingOK' /\ PushedOnceCommitted'
<1>1. op' = [op EXCEPT ![a] = call] /\ op \in [Actors -> Call]
  BY DEF Goto, Inv, TypeOK
<1>2. UNCHANGED <<ownerOf, messages, told, pushed, standing, everAnswered>>
  BY DEF rows, host
<1>3. \A b \in Actors : CallOK(b, op'[b])
  BY <1>1 DEF Inv, CallsOK
<1>4. CallsOK'
  <2> SUFFICES ASSUME NEW b \in Actors PROVE CallOK(b, op[b])'
    BY DEF CallsOK
  <2> QED BY <1>2, <1>3 DEF CallOK, TellOK, PushOK, Wrote
<1>5. HostOK' /\ TellingOK'
  BY <1>2 DEF Inv, HostOK, TellingOK, ThreadsThere, ToldAreParties, EarlierAuthorsTold
<1>6. PushedOnceCommitted'
  BY <1>2 DEF Inv, PushedOnceCommitted
<1> QED BY <1>1, <1>4, <1>5, <1>6

\* The same when nothing is opened by it.
LEMMA StepInv ==
  ASSUME Inv, NEW a \in Actors, NEW call \in Call, CallOK(a, call), Goto(a, call),
         UNCHANGED <<rows, pushed, host, opened>>, crashes' \in 0 .. MaxCrashes
  PROVE  Inv'
<1>1. /\ op' \in [Actors -> Call]
      /\ CallsOK' /\ HostOK' /\ TellingOK' /\ PushedOnceCommitted'
  BY MoveInv
<1>2. TypeOK'
  BY <1>1 DEF Inv, TypeOK, rows, host
<1>3. OpenedThere'
  BY DEF Inv, OpenedThere, Of, rows
<1> QED BY <1>1, <1>2, <1>3 DEF Inv

LEMMA ReturnInv ==
  ASSUME Inv, NEW a \in Actors, Return(a),
         UNCHANGED <<rows, pushed, host, opened>>, crashes' \in 0 .. MaxCrashes
  PROVE  Inv'
BY StepInv, IdleIsCall, IdleOK DEF Return, Inv

-----------------------------------------------------------------------------
\* An opening is answered with a thread that is there.
LEMMA AnswerInv ==
  ASSUME Inv, NEW o \in Owners, NEW t \in Of(o), Answer(o, t), UNCHANGED ownerOf
  PROVE  opened' \in [Owners -> SUBSET Nat] /\ OpenedThere'
<1>1. opened' = [opened EXCEPT ![o] = @ \cup {t}] /\ opened \in [Owners -> SUBSET Nat]
  BY DEF Answer, Inv, TypeOK
<1>2. t \in Nat
  BY DEF Of, Inv, TypeOK
<1>3. opened' \in [Owners -> SUBSET Nat]
  BY <1>1, <1>2
<1>4. \A p \in Owners : Of(p)' = Of(p)
  BY DEF Of
<1>5. \A p \in Owners : opened'[p] \subseteq Of(p)
  BY <1>1 DEF Inv, OpenedThere
<1>6. OpenedThere'
  BY <1>4, <1>5 DEF Inv, OpenedThere
<1> QED BY <1>3, <1>6

LEMMA OpenResolveInv ==
  ASSUME Inv, NEW a \in Actors, NEW o \in Owners, OpenResolve(a, o)
  PROVE  Inv'
<1>1. CASE Of(o) # {}
  <2>1. PICK t \in Of(o) : Answer(o, t)
    BY <1>1 DEF OpenResolve
  <2>2. opened' \in [Owners -> SUBSET Nat] /\ OpenedThere'
    BY <2>1, AnswerInv DEF OpenResolve, rows
  <2>3. UNCHANGED <<ownerOf, messages, told, pushed, standing, changes, everAnswered, crashes, op>>
    BY <1>1 DEF OpenResolve, rows, host
  <2>4. TypeOK'
    BY <2>2, <2>3 DEF Inv, TypeOK
  <2>5. CallsOK'
    BY <2>3 DEF Inv, CallsOK, CallOK, TellOK, PushOK, Wrote
  <2>6. HostOK' /\ TellingOK'
    BY <2>3 DEF Inv, HostOK, TellingOK, ThreadsThere, ToldAreParties, EarlierAuthorsTold
  <2>7. PushedOnceCommitted'
    BY <2>3 DEF Inv, PushedOnceCommitted
  <2> QED BY <2>2, <2>4, <2>5, <2>6, <2>7 DEF Inv
<1>2. CASE Of(o) = {}
  <2> DEFINE call == [Idle EXCEPT !.at = "openInsert", !.owner = o]
  <2>1. call \in Call
    BY IdleIsCall DEF Call
  <2>2. CallOK(a, call)
    BY DEF CallOK, Idle, Fencing, Inv, TypeOK
  <2>3. Goto(a, call)
    BY <1>2 DEF OpenResolve
  <2> HIDE DEF call
  <2>4. UNCHANGED <<rows, pushed, host, opened>> /\ crashes' \in 0 .. MaxCrashes
    BY <1>2 DEF OpenResolve, Inv, TypeOK
  <2> QED BY <2>1, <2>2, <2>3, <2>4, StepInv
<1> QED BY <1>1, <1>2

LEMMA OpenConflictInv ==
  ASSUME Inv, NEW a \in Actors, OpenConflict(a)
  PROVE  Inv'
<1>1. op[a].owner \in Owners
  BY DEF Inv, TypeOK, Call
<1>2. opened' \in [Owners -> SUBSET Nat] /\ OpenedThere'
  BY <1>1, AnswerInv DEF OpenConflict, rows
<1>3. /\ op' \in [Actors -> Call]
      /\ CallsOK' /\ HostOK' /\ TellingOK' /\ PushedOnceCommitted'
  BY MoveInv, IdleIsCall, IdleOK DEF OpenConflict, Return, Inv
<1>4. TypeOK'
  BY <1>2, <1>3 DEF OpenConflict, Inv, TypeOK, rows, host
<1> QED BY <1>2, <1>3, <1>4 DEF Inv

LEMMA OpenInsertInv ==
  ASSUME Inv, NEW a \in Actors, OpenInsert(a)
  PROVE  Inv'
<1>0. PICK o \in Owners : o = op[a].owner
  BY DEF Inv, TypeOK, Call
<1> DEFINE n == Len(ownerOf)
<1>1. ownerOf \in Seq(Owners) /\ n \in Nat
  BY DEF Inv, TypeOK
<1>2. ownerOf' = Append(ownerOf, o) /\ Of(o) = {}
  BY <1>0 DEF OpenInsert, InsertThread
<1>3. /\ ownerOf' \in Seq(Owners)
      /\ Len(ownerOf') = n + 1
      /\ ownerOf'[n + 1] = o
      /\ \A t \in 1 .. n : ownerOf'[t] = ownerOf[t]
  BY <1>1, <1>2
<1>4. UNCHANGED <<messages, told, pushed, standing, changes, everAnswered, crashes>>
  BY DEF OpenInsert, InsertThread, host
<1>5. opened' = [opened EXCEPT ![o] = @ \cup {n + 1}] /\ opened \in [Owners -> SUBSET Nat]
  BY <1>0, <1>3 DEF OpenInsert, InsertThread, Answer, Inv, TypeOK
<1>6. op' = [op EXCEPT ![a] = Idle] /\ op \in [Actors -> Call]
  BY DEF OpenInsert, InsertThread, Return, Goto, Inv, TypeOK
<1> HIDE DEF n
<1>7. opened' \in [Owners -> SUBSET Nat]
  BY <1>1, <1>5
<1>8. op' \in [Actors -> Call]
  BY <1>6, IdleIsCall
<1>9. TypeOK'
  BY <1>3, <1>4, <1>7, <1>8 DEF Inv, TypeOK
<1>10. DOMAIN ownerOf = 1 .. n /\ DOMAIN ownerOf' = 1 .. n + 1
  BY <1>1, <1>3 DEF n
<1>11. OpenedThere'
  <2>1. \A p \in Owners \ {o} : Of(p)' = Of(p)
    BY <1>1, <1>3, <1>10 DEF Of
  <2>2. Of(o)' = {n + 1}
    BY <1>1, <1>2, <1>3, <1>10 DEF Of
  <2>3. opened[o] = {}
    BY <1>1, <1>2 DEF Inv, OpenedThere
  <2>4. opened'[o] = {n + 1} /\ \A p \in Owners \ {o} : opened'[p] = opened[p]
    BY <1>1, <1>5, <2>3
  <2> QED BY <2>1, <2>2, <2>4 DEF Inv, OpenedThere
<1>12. \A b \in Actors : CallOK(b, op'[b])
  BY <1>6, IdleOK DEF Inv, CallsOK
<1>13. CallsOK'
  <2> SUFFICES ASSUME NEW b \in Actors PROVE CallOK(b, op[b])'
    BY DEF CallsOK
  <2>1. op'[b].at \in Fencing => op'[b].thread \in 1 .. n
    BY <1>12 DEF CallOK, n
  <2>2. op'[b].at \in Fencing => ownerOf'[op'[b].thread] = ownerOf[op'[b].thread]
    BY <1>3, <2>1
  <2>3. op'[b].at \in Fencing => op'[b].thread \in 1 .. Len(ownerOf')
    BY <1>1, <1>3, <2>1
  <2>4. CallOK(b, op'[b])
    BY <1>12
  <2>5. op'[b].at = "postInsert" => TellOK(b, op[b])'
    BY <1>4, <2>2, <2>4 DEF CallOK, TellOK, Wrote, Fencing
  <2>6. op'[b].at = "push" => PushOK(b, op[b])'
    BY <1>4, <2>4 DEF CallOK, PushOK
  <2> QED BY <1>4, <2>2, <2>3, <2>4, <2>5, <2>6 DEF CallOK
<1>14. HostOK' /\ PushedOnceCommitted'
  BY <1>4 DEF Inv, HostOK, PushedOnceCommitted
<1>15. TellingOK'
  <2>1. \A i \in DOMAIN messages : /\ messages[i].thread \in 1 .. n
                                  /\ messages[i].before < i
                                  /\ ownerOf'[messages[i].thread] = ownerOf[messages[i].thread]
    BY <1>3 DEF Inv, TellingOK, ThreadsThere, n
  <2>2. ThreadsThere'
    BY <1>1, <1>3, <1>4, <2>1 DEF ThreadsThere
  <2>3. DOMAIN told = DOMAIN messages
    BY DEF Inv, TypeOK
  <2>4. ToldAreParties'
    BY <1>4, <2>1, <2>3 DEF Inv, TellingOK, ToldAreParties
  <2>5. EarlierAuthorsTold'
    BY <1>4, <2>1 DEF Inv, TellingOK, EarlierAuthorsTold
  <2> QED BY <2>2, <2>4, <2>5 DEF TellingOK
<1> QED BY <1>9, <1>11, <1>13, <1>14, <1>15 DEF Inv

-----------------------------------------------------------------------------
\* A call past the fence holds a standing it was given, on a thread it may
\* read, and everything committed by then was committed before it.
LEMMA FencedInv ==
  ASSUME Inv, NEW a \in Actors, NEW t \in DOMAIN ownerOf,
         NEW point \in {"read", "askAnswerers", "postRead"}, Fenced(a, t, point),
         UNCHANGED <<rows, pushed, host, opened, crashes>>
  PROVE  Inv'
<1> DEFINE call == [Idle EXCEPT !.at = point, !.thread = t,
                                !.standing = standing[a], !.before = Len(messages)]
<1>1. Goto(a, call)
  BY DEF Fenced
<1>2. /\ t \in 1 .. Len(ownerOf) /\ t \in Nat
      /\ standing[a] \in Standings
      /\ Len(messages) \in 0 .. MaxPosts
  <2>1. ownerOf \in Seq(Owners) /\ messages \in Seq(Message) /\ Len(messages) <= MaxPosts
    BY DEF Inv, TypeOK
  <2>2. standing \in [Actors -> Standings]
    BY DEF Inv, TypeOK
  <2> QED BY <2>1, <2>2
<1>3. /\ call.at = point /\ call.thread = t /\ call.standing = standing[a]
      /\ call.before = Len(messages) /\ call.tell = {}
  BY DEF Idle
<1>4. call \in Call
  BY <1>2, IdleIsCall DEF Call
<1> HIDE DEF call
<1>5. ownerOf[t] \in {a, Group} \/ standing[a] = "answerer"
  BY DEF Fenced, ReadableBy
<1>6. standing[a] = "answerer" => a \in everAnswered
  BY DEF Inv, HostOK
<1>7. CallOK(a, call)
  BY <1>2, <1>3, <1>5, <1>6 DEF CallOK, Fencing
<1> QED BY <1>1, <1>4, <1>7, StepInv DEF Inv, TypeOK

LEMMA ReadFenceInv ==
  ASSUME Inv, NEW a \in Actors, NEW t \in DOMAIN ownerOf, ReadFence(a, t)
  PROVE  Inv'
BY FencedInv DEF ReadFence

LEMMA PostFenceInv ==
  ASSUME Inv, NEW a \in Actors, NEW t \in DOMAIN ownerOf, PostFence(a, t)
  PROVE  Inv'
BY FencedInv DEF PostFence

LEMMA ReadMessagesInv ==
  ASSUME Inv, NEW a \in Actors, ReadMessages(a)
  PROVE  Inv'
BY ReturnInv DEF ReadMessages, Inv, TypeOK

LEMMA AskAnswerersInv ==
  ASSUME Inv, NEW a \in Actors, AskAnswerers(a)
  PROVE  Inv'
<1> DEFINE call == [op[a] EXCEPT !.at = "postRead", !.tell = AnswerersToTell(a)]
<1>1. Goto(a, call) /\ op[a].at = "askAnswerers"
  BY DEF AskAnswerers
<1>2. op[a] \in Call /\ CallOK(a, op[a])
  BY DEF Inv, TypeOK, CallsOK
<1>3. AnswerersToTell(a) \subseteq everAnswered \ {a} /\ AnswerersToTell(a) \subseteq Actors
  BY NamedAssumption DEF AnswerersToTell, Inv, HostOK
<1>4. call \in Call
  BY <1>2, <1>3 DEF Call
<1>5. /\ call.at = "postRead" /\ call.tell = AnswerersToTell(a)
      /\ call.thread = op[a].thread /\ call.standing = op[a].standing
      /\ call.before = op[a].before
  BY <1>2 DEF Call
<1> HIDE DEF call
<1>6. CallOK(a, call)
  BY <1>1, <1>2, <1>3, <1>5 DEF CallOK, Fencing
<1> QED BY <1>1, <1>4, <1>6, StepInv DEF AskAnswerers, Inv, TypeOK

LEMMA MessageFields == \A m \in Message : /\ m.thread \in Nat /\ m.author \in Actors
                                          /\ m.byAnswerer \in BOOLEAN
                                          /\ m.before \in 0 .. MaxPosts
BY DEF Message

LEMMA RecipientsAreActors ==
  ASSUME Inv, NEW a \in Actors, op[a].at = "postRead"
  PROVE  ReplyRecipients(a) \subseteq Actors
<1>1. op[a].tell \subseteq Actors /\ op[a].thread \in 1 .. Len(ownerOf)
  BY DEF Call, CallsOK, CallOK, Fencing, Inv, TypeOK
<1>2. ownerOf[op[a].thread] \in Owners
  BY <1>1 DEF Inv, TypeOK
<1>3. \A j \in DOMAIN messages : messages[j].author \in Actors
  BY MessageFields DEF Inv, TypeOK
<1>4. AudienceAuthors(op[a].thread) \subseteq Actors
  BY <1>3 DEF AudienceAuthors
<1> QED BY <1>1, <1>2, <1>4 DEF ReplyRecipients, Owners

\* Whom a reply is for are parties to the thread.
LEMMA RecipientsOK ==
  ASSUME Inv, NEW a \in Actors, op[a].at = "postRead", NEW call \in Call,
         call.thread = op[a].thread, call.before = op[a].before,
         call.tell = ReplyRecipients(a)
  PROVE  TellOK(a, call)
<1> DEFINE t == op[a].thread
<1>1. /\ t \in 1 .. Len(ownerOf) /\ ownerOf[t] \in Owners
      /\ op[a].tell \subseteq everAnswered \ {a}
      /\ op[a].before <= Len(messages) /\ op[a].before \in Nat
      /\ everAnswered \subseteq Actors /\ op[a].tell \subseteq Actors
  BY DEF Inv, TypeOK, CallsOK, CallOK, Fencing, Call
<1>2. CASE ownerOf[t] = Group
  <2>1. ReplyRecipients(a) = AudienceAuthors(t) \ {a}
    BY <1>2 DEF ReplyRecipients
  <2>2. \A b \in AudienceAuthors(t) : \E j \in 1 .. Len(messages) : Wrote(b, j, t)
    BY DEF AudienceAuthors, Wrote, Inv, TypeOK
  <2>3. \A b \in Actors, j \in 1 .. op[a].before : Wrote(b, j, t) => b \in AudienceAuthors(t)
    BY <1>1 DEF AudienceAuthors, Wrote, Inv, TypeOK
  <2> QED BY <1>2, <2>1, <2>2, <2>3 DEF TellOK
<1>3. CASE ownerOf[t] # Group
  <2>1. \/ ReplyRecipients(a) = {ownerOf[t]} /\ ownerOf[t] # a
        \/ ReplyRecipients(a) = op[a].tell
    BY <1>3 DEF ReplyRecipients
  <2>2. ownerOf[t] \in Actors
    BY <1>1, <1>3 DEF Owners
  <2> QED BY <1>1, <1>3, <2>1, <2>2 DEF TellOK
<1> QED BY <1>2, <1>3

LEMMA PostReadInv ==
  ASSUME Inv, NEW a \in Actors, PostRead(a)
  PROVE  Inv'
<1> DEFINE call == [op[a] EXCEPT !.at = "postInsert", !.tell = ReplyRecipients(a)]
<1>1. Goto(a, call) /\ op[a].at = "postRead"
  BY DEF PostRead
<1>2. op[a] \in Call /\ CallOK(a, op[a])
  BY DEF Inv, TypeOK, CallsOK
<1>3. /\ call.at = "postInsert" /\ call.tell = ReplyRecipients(a)
      /\ call.thread = op[a].thread /\ call.standing = op[a].standing
      /\ call.before = op[a].before
  BY <1>2 DEF Call
<1>4. ReplyRecipients(a) \subseteq Actors
  BY <1>1, RecipientsAreActors
<1>5. call \in Call
  BY <1>2, <1>4 DEF Call
<1> HIDE DEF call
<1>6. TellOK(a, call)
  BY <1>1, <1>3, <1>5, RecipientsOK
<1>7. CallOK(a, call)
  BY <1>1, <1>2, <1>3, <1>6 DEF CallOK, Fencing
<1> QED BY <1>1, <1>5, <1>7, StepInv DEF PostRead, Inv, TypeOK

-----------------------------------------------------------------------------
\* What a commit does to the messages and their notifications.
LEMMA Committed ==
  ASSUME TypeOK, NEW m \in Message, NEW R \in SUBSET Actors, Len(messages) < MaxPosts,
         messages' = Append(messages, m), told' = Append(told, R)
  PROVE  /\ messages' \in Seq(Message) /\ told' \in Seq(SUBSET Actors)
         /\ Len(messages') = Len(messages) + 1 /\ Len(told') = Len(messages')
         /\ Len(messages) \in Nat /\ Len(messages') <= MaxPosts
         /\ messages'[Len(messages) + 1] = m /\ told'[Len(messages) + 1] = R
         /\ \A i \in 1 .. Len(messages) : messages'[i] = messages[i] /\ told'[i] = told[i]
         /\ DOMAIN messages' = 1 .. Len(messages) + 1 /\ DOMAIN told' = 1 .. Len(messages) + 1
         /\ DOMAIN messages = 1 .. Len(messages) /\ DOMAIN told = 1 .. Len(messages)
BY DEF TypeOK

LEMMA PostCommitInv ==
  ASSUME Inv, NEW a \in Actors, PostCommit(a)
  PROVE  Inv'
<1>1. PICK m : m = Posted(a)
  OBVIOUS
<1>2. PICK R : R = Raised(a)
  OBVIOUS
<1>3. PICK n : n = Len(messages)
  OBVIOUS
<1>4. op[a] \in Call /\ CallOK(a, op[a]) /\ op[a].at = "postInsert"
  BY DEF Inv, TypeOK, CallsOK, PostCommit, Commit
<1>5. /\ m.thread = op[a].thread /\ m.author = a /\ m.before = op[a].before
      /\ m.byAnswerer = (op[a].standing = "answerer")
  BY <1>1 DEF Posted
<1>6. m \in Message
  BY <1>1, <1>4 DEF Posted, Message, Call
<1>7. R = op[a].tell \ Muted /\ R \in SUBSET Actors
  BY <1>2, <1>4 DEF Raised, Call
<1>8. messages' = Append(messages, m) /\ told' = Append(told, R) /\ n < MaxPosts
  BY <1>1, <1>2, <1>3 DEF PostCommit, Commit
<1>9. /\ messages' \in Seq(Message) /\ told' \in Seq(SUBSET Actors)
      /\ Len(messages') = n + 1 /\ Len(told') = Len(messages')
      /\ n \in Nat /\ Len(messages') <= MaxPosts
      /\ messages'[n + 1] = m /\ told'[n + 1] = R
      /\ \A i \in 1 .. n : messages'[i] = messages[i] /\ told'[i] = told[i]
      /\ DOMAIN messages' = 1 .. n + 1 /\ DOMAIN told' = 1 .. n + 1
      /\ DOMAIN messages = 1 .. n /\ DOMAIN told = 1 .. n
  <2>1. TypeOK
    BY DEF Inv
  <2> QED BY <1>3, <1>6, <1>7, <1>8, <2>1, Committed
<1>10. UNCHANGED <<ownerOf, pushed, standing, changes, everAnswered, opened, crashes>>
  BY DEF PostCommit, Commit, host
<1>11. PICK call : /\ op' = [op EXCEPT ![a] = call]
                   /\ call = IF R = {} THEN Idle
                             ELSE [op[a] EXCEPT !.at = "push", !.tell = R, !.message = n + 1]
  BY <1>2, <1>3, <1>9 DEF PostCommit, Commit, PushLeft, Goto
<1>12. call \in Call
  <2>1. n + 1 \in 0 .. MaxPosts
    BY <1>8, <1>9
  <2> QED BY <1>4, <1>7, <1>11, <2>1, IdleIsCall DEF Call
<1>13. op' \in [Actors -> Call] /\ op'[a] = call /\ \A b \in Actors \ {a} : op'[b] = op[b]
  BY <1>11, <1>12 DEF Inv, TypeOK
<1>14. TypeOK'
  BY <1>9, <1>10, <1>13 DEF Inv, TypeOK
<1>15. ASSUME NEW b \in Actors \ {a} PROVE CallOK(b, op[b])'
  <2>1. CallOK(b, op[b]) /\ op'[b] = op[b] /\ op[b] \in Call
    BY <1>13 DEF Inv, CallsOK, TypeOK
  <2>2. op[b].before <= n + 1 /\ op[b].before \in Nat
    BY <1>3, <1>9, <2>1 DEF CallOK, Call
  <2>3. op[b].before \in 0 .. n
    BY <1>3, <1>9, <2>1 DEF CallOK, Call
  <2>4. op[b].at = "postInsert" => TellOK(b, op[b])'
    <3> SUFFICES ASSUME op[b].at = "postInsert" PROVE TellOK(b, op[b])'
      OBVIOUS
    <3>1. TellOK(b, op[b])
      BY <2>1 DEF CallOK
    <3>2. \A j \in 1 .. n : \A c, t : Wrote(c, j, t)' = Wrote(c, j, t)
      BY <1>9 DEF Wrote
    <3>3. \A j \in 1 .. op[b].before : j \in 1 .. n
      BY <2>3, <1>9
    <3>4. \A j \in 1 .. n : j \in 1 .. n + 1
      BY <1>9
    <3>5. op[b]' = op[b]
      BY <2>1
    <3> QED BY <1>3, <1>9, <1>10, <3>1, <3>2, <3>3, <3>4, <3>5 DEF TellOK
  <2>5. op[b].at = "push" => PushOK(b, op[b])'
    BY <1>3, <1>9, <1>10, <2>1 DEF CallOK, PushOK
  <2> QED BY <1>9, <1>10, <2>1, <2>2, <2>4, <2>5 DEF CallOK
<1>16. CallOK(a, op[a])'
  <2>1. CASE R = {}
    BY <1>9, <1>11, <1>13, <2>1 DEF CallOK, Idle, Fencing
  <2>2. CASE R # {}
    <3>1. /\ call.at = "push" /\ call.tell = R /\ call.message = n + 1
          /\ call.thread = op[a].thread /\ call.standing = op[a].standing
          /\ call.before = op[a].before
      BY <1>4, <1>11, <2>2 DEF Call
    <3>2. n + 1 \in 1 .. MaxPosts /\ n + 1 \notin DOMAIN told
      BY <1>8, <1>9
    <3>3. n + 1 \in DOMAIN pushed
      BY <3>2 DEF Inv, TypeOK
    <3>4. DOMAIN pushed[n + 1] = {}
      BY <3>2, <3>3 DEF Inv, PushedOnceCommitted
    <3>5. PushOK(a, op[a])'
      BY <1>5, <1>9, <1>10, <1>13, <3>1, <3>4 DEF PushOK
    <3>6. op[a].before <= n + 1
      BY <1>3, <1>4, <1>9 DEF CallOK, Call
    <3> QED BY <1>4, <1>9, <1>10, <1>13, <3>1, <3>5, <3>6 DEF CallOK, Fencing
  <2> QED BY <2>1, <2>2
<1>17. CallsOK'
  BY <1>15, <1>16 DEF CallsOK
<1>18. HostOK' /\ OpenedThere'
  BY <1>10 DEF Inv, HostOK, OpenedThere, Of
<1>19. TellingOK'
  <2>1. ThreadsThere'
    <3>1. m.thread \in 1 .. Len(ownerOf) /\ m.before < n + 1
      BY <1>3, <1>4, <1>5, <1>9 DEF CallOK, Fencing, Call
    <3> QED BY <1>9, <1>10, <3>1 DEF Inv, TellingOK, ThreadsThere
  <2>2. TellOK(a, op[a])
    BY <1>4 DEF CallOK
  <2>3. ToldAreParties'
    <3> SUFFICES ASSUME NEW i \in 1 .. n + 1, NEW b \in told'[i]
        PROVE  /\ b # messages'[i].author
               /\ IF ownerOf[messages'[i].thread] = Group
                  THEN \E j \in 1 .. (i - 1) : /\ messages'[j].thread = messages'[i].thread
                                               /\ messages'[j].author = b
                                               /\ ~messages'[j].byAnswerer
                  ELSE b = ownerOf[messages'[i].thread] \/ b \in everAnswered
      BY <1>9, <1>10 DEF ToldAreParties
    <3>1. CASE i \in 1 .. n
      <4>1. i \in DOMAIN told /\ b \in told[i] /\ messages'[i] = messages[i]
        BY <1>9, <3>1
      <4>2. \A j \in 1 .. (i - 1) : messages'[j] = messages[j]
        BY <1>9, <3>1
      <4> QED BY <4>1, <4>2 DEF Inv, TellingOK, ToldAreParties
    <3>2. CASE i = n + 1
      <4>1. b \in op[a].tell /\ messages'[i] = m /\ i - 1 = n
        BY <1>7, <1>9, <3>2
      <4>2. \A j \in 1 .. n : messages'[j] = messages[j]
        BY <1>9
      <4> QED BY <1>3, <1>5, <2>2, <4>1, <4>2 DEF TellOK, Wrote
    <3> QED BY <1>9, <3>1, <3>2
  <2>4. EarlierAuthorsTold'
    <3> SUFFICES ASSUME NEW i \in 1 .. n + 1, ownerOf[messages'[i].thread] = Group,
                        NEW j \in 1 .. messages'[i].before,
                        messages'[j].thread = messages'[i].thread,
                        ~messages'[j].byAnswerer,
                        messages'[j].author \notin Muted \cup {messages'[i].author}
        PROVE  messages'[j].author \in told'[i]
      BY <1>9, <1>10 DEF EarlierAuthorsTold
    <3>1. messages'[i].before \in 0 .. n /\ j \in 1 .. n
      <4>1. CASE i = n + 1
        BY <1>3, <1>4, <1>5, <1>9, <4>1 DEF CallOK, Call
      <4>2. CASE i \in 1 .. n
        <5>1. messages[i].before \in Nat /\ messages[i].before < i
          <6>1. messages[i] \in Message
            BY <1>9, <4>2 DEF Inv, TypeOK
          <6> QED BY <1>9, <4>2, <6>1, MessageFields DEF Inv, TellingOK, ThreadsThere
        <5> QED BY <1>9, <4>2, <5>1
      <4> QED BY <1>9, <4>1, <4>2
    <3>2. messages'[j] = messages[j]
      BY <1>9, <3>1
    <3>3. CASE i \in 1 .. n
      BY <1>9, <3>2, <3>3 DEF Inv, TellingOK, EarlierAuthorsTold
    <3>4. CASE i = n + 1
      <4>1. messages[j].author \in Actors
        BY <1>9, <3>1, MessageFields DEF Inv, TypeOK
      <4>2. Wrote(messages[j].author, j, op[a].thread) /\ messages[j].author # a
        BY <1>5, <1>9, <3>2, <3>4 DEF Wrote
      <4>3. messages[j].author \in op[a].tell
        BY <1>5, <1>9, <2>2, <3>4, <4>1, <4>2 DEF TellOK
      <4> QED BY <1>7, <1>9, <3>2, <3>4, <4>3
    <3> QED BY <1>9, <3>3, <3>4
  <2> QED BY <2>1, <2>3, <2>4 DEF TellingOK
<1>20. PushedOnceCommitted'
  BY <1>9, <1>10 DEF Inv, PushedOnceCommitted
<1> QED BY <1>14, <1>17, <1>18, <1>19, <1>20 DEF Inv

-----------------------------------------------------------------------------
LEMMA PushOneInv ==
  ASSUME Inv, NEW a \in Actors, NEW b \in Actors, PushOne(a, b)
  PROVE  Inv'
<1>1. PICK i : i = op[a].message
  OBVIOUS
<1>2. PICK left : left = op[a].tell \ {b}
  OBVIOUS
<1>3. /\ op[a] \in Call /\ CallOK(a, op[a]) /\ op[a].at = "push" /\ b \in op[a].tell
      /\ PushOK(a, op[a])
  BY DEF PushOne, Inv, TypeOK, CallsOK, CallOK
<1>4. /\ i \in 1 .. MaxPosts /\ i \in 1 .. Len(messages)
      /\ messages[i].author = a /\ b \in told[i] /\ left \subseteq told[i]
      /\ i \in DOMAIN told
  BY <1>1, <1>2, <1>3 DEF PushOK, Inv, TypeOK
<1>5. pushed' = [pushed EXCEPT ![i] = Append(@, b)] /\ pushed \in [1 .. MaxPosts -> Seq(Actors)]
  BY <1>1 DEF PushOne, Inv, TypeOK
<1>6. pushed[i] \in Seq(Actors)
  BY <1>4, <1>5
<1>7. PICK k \in Nat : k = Len(pushed[i])
  BY <1>6
<1>8. /\ pushed' \in [1 .. MaxPosts -> Seq(Actors)]
      /\ DOMAIN pushed[i] = 1 .. k /\ DOMAIN pushed'[i] = 1 .. k + 1
      /\ pushed'[i][k + 1] = b
      /\ \A j \in 1 .. k : pushed'[i][j] = pushed[i][j]
      /\ \A h \in 1 .. MaxPosts : h # i => pushed'[h] = pushed[h]
  BY <1>4, <1>5, <1>6, <1>7
<1>9. UNCHANGED <<ownerOf, messages, told, standing, changes, everAnswered, opened, crashes>>
  BY DEF PushOne, rows, host
<1>10. PICK call : /\ op' = [op EXCEPT ![a] = call]
                   /\ call = IF left = {} THEN Idle
                             ELSE [op[a] EXCEPT !.at = "push", !.tell = left, !.message = i]
  BY <1>1, <1>2 DEF PushOne, PushLeft, Goto
<1>11. call \in Call
  <2>1. left \subseteq Actors /\ i \in 0 .. MaxPosts
    BY <1>1, <1>2, <1>3 DEF Call
  <2> QED BY <1>3, <1>10, <2>1, IdleIsCall DEF Call
<1>12. op' \in [Actors -> Call] /\ op'[a] = call /\ \A c \in Actors \ {a} : op'[c] = op[c]
  BY <1>10, <1>11 DEF Inv, TypeOK
<1>13. TypeOK'
  BY <1>8, <1>9, <1>12 DEF Inv, TypeOK
<1>14. \A j \in 1 .. k : pushed[i][j] \notin op[a].tell /\ pushed[i][j] # b
  BY <1>1, <1>3, <1>8 DEF PushOK
<1>15. ASSUME NEW c \in Actors \ {a} PROVE CallOK(c, op[c])'
  <2>1. CallOK(c, op[c]) /\ op'[c] = op[c]
    BY <1>12 DEF Inv, CallsOK
  <2>2. op[c].at = "push" => PushOK(c, op[c])'
    <3>1. op[c].at = "push" => op[c].message \in 1 .. MaxPosts /\ op[c].message # i
      BY <1>4, <2>1 DEF CallOK, PushOK, Inv, TypeOK
    <3> QED BY <1>8, <1>9, <2>1, <3>1 DEF CallOK, PushOK
  <2> QED BY <1>9, <2>1, <2>2 DEF CallOK, TellOK, Wrote
<1>16. CallOK(a, op[a])'
  <2>1. CASE left = {}
    BY <1>9, <1>10, <1>12, <1>13, <2>1, IdleOK DEF CallOK, Idle, Fencing, TypeOK
  <2>2. CASE left # {}
    <3>1. /\ call.at = "push" /\ call.tell = left /\ call.message = i
          /\ call.thread = op[a].thread /\ call.standing = op[a].standing
          /\ call.before = op[a].before
      BY <1>3, <1>10, <2>2 DEF Call
    <3>2. PushOK(a, op[a])'
      BY <1>2, <1>4, <1>8, <1>9, <1>12, <1>14, <3>1 DEF PushOK
    <3> QED BY <1>3, <1>9, <1>12, <3>1, <3>2 DEF CallOK, Fencing
  <2> QED BY <2>1, <2>2
<1>17. CallsOK'
  BY <1>15, <1>16 DEF CallsOK
<1>18. HostOK' /\ OpenedThere' /\ TellingOK'
  BY <1>9 DEF Inv, HostOK, OpenedThere, Of, TellingOK, ThreadsThere, ToldAreParties, EarlierAuthorsTold
<1>19. PushedOnceCommitted'
  <2> SUFFICES ASSUME NEW h \in 1 .. MaxPosts, NEW j \in DOMAIN pushed'[h]
      PROVE  /\ h \in DOMAIN told
             /\ pushed'[h][j] \in told[h]
             /\ \A l \in DOMAIN pushed'[h] : pushed'[h][j] = pushed'[h][l] => j = l
    BY <1>8, <1>9 DEF PushedOnceCommitted
  <2>1. CASE h = i
    <3>1. \A l \in 1 .. k : pushed[i][l] \in told[i]
      BY <1>4, <1>5, <1>8 DEF Inv, PushedOnceCommitted
    <3>2. \A l, m \in 1 .. k : pushed[i][l] = pushed[i][m] => l = m
      BY <1>4, <1>5, <1>8 DEF Inv, PushedOnceCommitted
    <3>3. pushed'[h][j] \in told[h]
      <4>1. j \in 1 .. k + 1
        BY <1>8, <2>1
      <4>2. CASE j \in 1 .. k
        BY <1>8, <2>1, <3>1, <4>2
      <4>3. CASE j = k + 1
        BY <1>4, <1>8, <2>1, <4>3
      <4> QED BY <1>7, <4>1, <4>2, <4>3
    <3>4. ASSUME NEW l \in 1 .. k + 1, pushed'[i][j] = pushed'[i][l] PROVE j = l
      <4>1. j \in 1 .. k + 1
        BY <1>8, <2>1
      <4>2. CASE j \in 1 .. k /\ l \in 1 .. k
        BY <1>8, <3>2, <3>4, <4>2
      <4>3. CASE j = k + 1 /\ l \in 1 .. k
        BY <1>8, <1>14, <3>4, <4>3
      <4>4. CASE j \in 1 .. k /\ l = k + 1
        BY <1>8, <1>14, <3>4, <4>4
      <4> QED BY <1>7, <4>1, <4>2, <4>3, <4>4
    <3> QED BY <1>4, <1>8, <2>1, <3>3, <3>4
  <2>2. CASE h # i
    BY <1>5, <1>8, <2>2 DEF Inv, PushedOnceCommitted
  <2> QED BY <2>1, <2>2
<1> QED BY <1>13, <1>17, <1>18, <1>19 DEF Inv

LEMMA FailInv ==
  ASSUME Inv, NEW a \in Actors, Fail(a)
  PROVE  Inv'
BY ReturnInv DEF Fail, Inv, TypeOK

LEMMA CrashInv ==
  ASSUME Inv, NEW a \in Actors, Crash(a)
  PROVE  Inv'
<1>1. crashes' \in 0 .. MaxCrashes
  BY DEF Crash, Inv, TypeOK
<1> QED BY <1>1, ReturnInv DEF Crash

\* The host's answers change under the calls in flight.
LEMMA ChangeStandingInv ==
  ASSUME Inv, NEW a \in Actors, NEW st \in Standings, ChangeStanding(a, st)
  PROVE  Inv'
<1>1. UNCHANGED <<ownerOf, messages, told, pushed, opened, crashes, op>>
  BY DEF ChangeStanding, rows
<1>2. standing' \in [Actors -> Standings] /\ changes' \in 0 .. MaxChanges
  BY DEF ChangeStanding, Inv, TypeOK
<1>3. everAnswered \subseteq everAnswered' /\ everAnswered' \subseteq Actors
  BY DEF ChangeStanding, Inv, TypeOK
<1>4. TypeOK'
  BY <1>1, <1>2, <1>3 DEF Inv, TypeOK
<1>5. HostOK'
  BY <1>3 DEF ChangeStanding, Inv, TypeOK, HostOK
<1>6. CallsOK'
  <2> SUFFICES ASSUME NEW b \in Actors PROVE CallOK(b, op[b])'
    BY DEF CallsOK
  <2> QED BY <1>1, <1>3 DEF Inv, CallsOK, CallOK, TellOK, PushOK, Wrote
<1>7. OpenedThere' /\ PushedOnceCommitted'
  BY <1>1 DEF Inv, OpenedThere, Of, PushedOnceCommitted
<1>8. TellingOK'
  BY <1>1, <1>3 DEF Inv, TellingOK, ThreadsThere, ToldAreParties, EarlierAuthorsTold
<1> QED BY <1>4, <1>5, <1>6, <1>7, <1>8 DEF Inv

LEMMA NextInv == Inv /\ [Next]_vars => Inv'
<1> SUFFICES ASSUME Inv, [Next]_vars PROVE Inv'
  OBVIOUS
<1>1. ASSUME NEW a \in Actors, Begin(a) PROVE Inv'
  BY <1>1, OpenResolveInv, ReadFenceInv, PostFenceInv DEF Begin
<1>2. ASSUME NEW a \in Actors, Continue(a) PROVE Inv'
  BY <1>2, OpenInsertInv, OpenConflictInv, ReadMessagesInv, AskAnswerersInv,
     PostReadInv, PostCommitInv, PushOneInv, FailInv DEF Continue
<1>3. ASSUME NEW a \in Actors, Crash(a) PROVE Inv'
  BY <1>3, CrashInv
<1>4. ASSUME NEW a \in Actors, NEW st \in Standings, ChangeStanding(a, st) PROVE Inv'
  BY <1>4, ChangeStandingInv
<1>5. CASE UNCHANGED vars
  <2>1. UNCHANGED <<ownerOf, messages, told, pushed, standing, changes, everAnswered,
                    opened, crashes, op>>
    BY <1>5 DEF vars, rows, host
  <2>2. TypeOK'
    BY <2>1 DEF Inv, TypeOK
  <2>3. CallsOK'
    BY <2>1 DEF Inv, CallsOK, CallOK, TellOK, PushOK, Wrote
  <2>4. HostOK' /\ OpenedThere' /\ PushedOnceCommitted'
    BY <2>1 DEF Inv, HostOK, OpenedThere, Of, PushedOnceCommitted
  <2>5. TellingOK'
    BY <2>1 DEF Inv, TellingOK, ThreadsThere, ToldAreParties, EarlierAuthorsTold
  <2> QED BY <2>2, <2>3, <2>4, <2>5 DEF Inv
<1> QED BY <1>1, <1>2, <1>3, <1>4, <1>5 DEF Next

\* The inductive invariant holds for ever.
THEOREM Invariance == Spec => []Inv
<1>1. Init => Inv
  BY InitInv
<1>2. Inv /\ [Next]_vars => Inv'
  BY NextInv
<1> QED BY <1>1, <1>2, PTL DEF Spec
-----------------------------------------------------------------------------
\* Every variable keeps its type.
THEOREM TypeCorrect == Spec => []TypeOK
BY Invariance, PTL DEF Inv

\* However openings interleave, an owner has one thread about the subject
\* and every opening answered it (SubjectThreadStore.Open's two Resolves).
THEOREM OneThread == Spec => []OneThreadPerOwner
<1>1. Inv => OneThreadPerOwner
  BY DEF Inv, OpenedThere, OneThreadPerOwner
<1> QED BY <1>1, Invariance, PTL

LEMMA ConfidedIn == Inv => Confided
<1> SUFFICES ASSUME Inv PROVE Confided
  OBVIOUS
<1>1. PrivateStaysPrivate
  BY DEF Inv, CallsOK, CallOK, Fencing, PrivateStaysPrivate
<1>2. ASSUME NEW a \in Actors \ everAnswered, NEW s \in Shown(a), s[2] # NoActor
      PROVE  ~messages[s[1]].byAnswerer
  <2>1. op[a].standing # "answerer"
    BY DEF Inv, CallsOK, CallOK
  <2>2. PICK i \in DOMAIN messages : s = <<i, NameFor(messages[i], op[a].standing)>>
    BY DEF Shown
  <2> QED BY <1>2, <2>1, <2>2 DEF NameFor
<1>3. AnsweringSideUnnamed
  BY <1>2 DEF AnsweringSideUnnamed
<1> QED BY <1>1, <1>3 DEF Confided

\* What a call in flight reads, and the names it is answered, stay within
\* what its caller was let see (readableThread, SubjectThreadMessage.For).
THEOREM StaysConfided == Spec => []Confided
BY ConfidedIn, Invariance, PTL

\* Whom a committed message was told to (replyRecipients, raiseReplies in
\* the transaction of Post), for any number of posts at once.
THEOREM RightlyTold == Spec => []WhoIsTold
<1>1. Inv => WhoIsTold
  BY DEF Inv, TellingOK, WhoIsTold
<1> QED BY <1>1, Invariance, PTL

\* Nothing is pushed that is not committed, nor twice (Post's raised).
THEOREM PushedOnce == Spec => []PushedOnceCommitted
BY Invariance, PTL DEF Inv
=============================================================================
