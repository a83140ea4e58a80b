--------------------------- MODULE SubjectThreads ---------------------------
(***************************************************************************)
(* The threads about one subject: opening them, reading them, and posting  *)
(* with the notifications a post raises.  Whom a thread is open to is the  *)
(* host's to say: a caller's standing on the subject is asked at the start *)
(* of a call, and may change while the call runs.                          *)
(*                                                                         *)
(* A post's transaction is cut where it reads the authors to tell: another *)
(* post may commit between that read and the insert (READ COMMITTED).  The *)
(* message and its notifications take effect in the step that commits      *)
(* them; the pushes follow one by one, outside the transaction.            *)
(*                                                                         *)
(* The names the host's Answerers returns are each held to Standing in one *)
(* step; the Recipients hook, which may replace the names, is left out.    *)
(***************************************************************************)
EXTENDS Naturals, Sequences

CONSTANTS
  Actors,       \* the callers, by id
  Initially,    \* the standings the host may answer at first
  Named,        \* whom the host's Answerers names for the subject
  Muted,        \* who has muted the category chat
  Group,        \* the owner_id of the group thread: nobody's
  NoActor,      \* an author's name left out
  MaxPosts,     \* bound: how many messages are posted
  MaxChanges,   \* bound: how many times the host changes a standing
  MaxCrashes    \* bound: how many times a server dies

ASSUME InitiallyAssumption ==
  Initially \subseteq [Actors -> {"none", "audience", "answerer"}]
ASSUME NamedAssumption == Named \subseteq Actors
ASSUME GroupAssumption == Group \notin Actors
ASSUME NoActorAssumption == NoActor \notin Actors \cup {Group}
ASSUME BoundsAssumption == {MaxPosts, MaxChanges, MaxCrashes} \subseteq Nat

Owners == Actors \cup {Group}
Standings == {"none", "audience", "answerer"}

VARIABLES
  ownerOf,       \* for each thread, the owner_id of its row
  messages,      \* the messages of all the threads, as they were committed
  told,          \* for each message, to whom a notification of it went
  pushed,        \* for each message, who was handed to Web Push, in order
  standing,      \* the host's answer: actor -> standing on the subject
  changes,       \* how often it changed
  everAnswered,  \* who was an answerer at some time (history)
  opened,        \* owner -> the threads an opening answered with (history)
  crashes,       \* how many servers died
  op             \* actor -> the call in flight

rows == <<ownerOf, messages, told>>
host == <<standing, changes, everAnswered>>
vars == <<rows, pushed, host, opened, crashes, op>>

-----------------------------------------------------------------------------
Message == [thread: Nat, author: Actors, byAnswerer: BOOLEAN,
            before: 0 .. MaxPosts]    \* how many were committed at the start

Call == [at: {"idle", "openInsert", "read", "askAnswerers", "postRead",
              "postInsert", "push"},
         owner: Owners,                \* of the thread to open
         thread: Nat,                  \* the thread fenced
         standing: Standings,          \* as the fence had it
         before: 0 .. MaxPosts,
         tell: SUBSET Actors,          \* whom to tell, or still to push to
         message: 0 .. MaxPosts]       \* the message committed

Idle == [at |-> "idle", owner |-> Group, thread |-> 0, standing |-> "none",
         before |-> 0, tell |-> {}, message |-> 0]

TypeOK ==
  /\ ownerOf \in Seq(Owners)
  /\ messages \in Seq(Message)
  /\ Len(messages) <= MaxPosts
  /\ told \in Seq(SUBSET Actors)
  /\ Len(told) = Len(messages)
  /\ pushed \in [1 .. MaxPosts -> Seq(Actors)]
  /\ standing \in [Actors -> Standings]
  /\ changes \in 0 .. MaxChanges
  /\ everAnswered \subseteq Actors
  /\ opened \in [Owners -> SUBSET Nat]
  /\ crashes \in 0 .. MaxCrashes
  /\ op \in [Actors -> Call]

Init ==
  /\ ownerOf = <<>>
  /\ messages = <<>>
  /\ told = <<>>
  /\ pushed = [i \in 1 .. MaxPosts |-> <<>>]
  /\ standing \in Initially
  /\ changes = 0
  /\ everAnswered = {a \in Actors : standing[a] = "answerer"}
  /\ opened = [o \in Owners |-> {}]
  /\ crashes = 0
  /\ op = [a \in Actors |-> Idle]

Goto(a, call) == op' = [op EXCEPT ![a] = call]
Return(a) == Goto(a, Idle)

\* The thread Open resolves: subject and audience are given by the owner.
Of(o) == {t \in DOMAIN ownerOf : ownerOf[t] = o}

\* Mutant: every thread of the subject is open to its audience.
ReadableBy_Audience(t, a) == standing[a] # "none"

\* SubjectThread.ReadableBy, for the standing the fence was answered.
ReadableBy(t, a) ==
  \/ standing[a] = "answerer"
  \/ standing[a] = "audience" /\ ownerOf[t] \in {a, Group}

\* readableThread: the thread there is, under the caller's standing now.
Fenced(a, t, point) ==
  /\ op[a].at = "idle"
  /\ ReadableBy(t, a)
  /\ Goto(a, [Idle EXCEPT !.at = point, !.thread = t,
                          !.standing = standing[a],
                          !.before = Len(messages)])

-----------------------------------------------------------------------------
(* OpenSubjectThreadFor.                                                   *)

Answer(o, t) == opened' = [opened EXCEPT ![o] = @ \cup {t}]

\* Whose thread the caller may open: one of their own if the subject reached
\* them, the group's if they have any standing.
MayOpen(a, o) == \/ o = Group /\ standing[a] # "none"
                 \/ o = a /\ standing[a] = "audience"

\* The standing, and Open's first Resolve.
OpenResolve(a, o) ==
  /\ op[a].at = "idle"
  /\ MayOpen(a, o)
  /\ IF Of(o) # {}
     THEN /\ \E t \in Of(o) : Answer(o, t)
          /\ UNCHANGED op
     ELSE /\ Goto(a, [Idle EXCEPT !.at = "openInsert", !.owner = o])
          /\ UNCHANGED opened
  /\ UNCHANGED <<rows, pushed, host, crashes>>

\* The next id is as good as any.
InsertThread(a) ==
  /\ ownerOf' = Append(ownerOf, op[a].owner)
  /\ Answer(op[a].owner, Len(ownerOf'))
  /\ Return(a)
  /\ UNCHANGED <<messages, told, pushed, host, crashes>>

\* Mutant: no unique index on the subject and its owner.
OpenInsert_NoIndex(a) ==
  /\ op[a].at = "openInsert"
  /\ InsertThread(a)

OpenInsert(a) ==
  /\ op[a].at = "openInsert"
  /\ Of(op[a].owner) = {}
  /\ InsertThread(a)

\* The index refuses the insert: the second Resolve answers the winner's.
OpenConflict(a) ==
  /\ op[a].at = "openInsert"
  /\ \E t \in Of(op[a].owner) : Answer(op[a].owner, t)
  /\ Return(a)
  /\ UNCHANGED <<rows, pushed, host, crashes>>

-----------------------------------------------------------------------------
(* ListSubjectMessagesFor: the fence, and the messages in a later statement.*)

ReadFence(a, t) ==
  /\ Fenced(a, t, "read")
  /\ UNCHANGED <<rows, pushed, host, opened, crashes>>

\* SubjectThreadMessage.For.
NameFor(m, st) == IF m.byAnswerer /\ st # "answerer" THEN NoActor ELSE m.author

\* What the call in flight would answer: each message with its name.
Shown(a) == IF op[a].at # "read" THEN {}
            ELSE {<<i, NameFor(messages[i], op[a].standing)>> :
                    i \in {j \in DOMAIN messages :
                             messages[j].thread = op[a].thread}}

ReadMessages(a) ==
  /\ op[a].at = "read"
  /\ Return(a)
  /\ UNCHANGED <<rows, pushed, host, opened, crashes>>

-----------------------------------------------------------------------------
(* PostSubjectMessageFor.                                                  *)

\* The fence; a post in one's own private thread asks for answerers next.
PostFence(a, t) ==
  /\ Fenced(a, t, IF ownerOf[t] # Group /\ standing[a] = "audience"
                  THEN "askAnswerers" ELSE "postRead")
  /\ UNCHANGED <<rows, pushed, host, opened, crashes>>

\* Mutant: whom the host names is told, whatever their standing.
AnswerersToTell_Named(a) == Named \ {a}

AnswerersToTell(a) == {b \in Named \ {a} : standing[b] = "answerer"}

AskAnswerers(a) ==
  /\ op[a].at = "askAnswerers"
  /\ Goto(a, [op[a] EXCEPT !.at = "postRead", !.tell = AnswerersToTell(a)])
  /\ UNCHANGED <<rows, pushed, host, opened, crashes>>

\* AudienceAuthors: who posted in the thread from the subject's audience.
AudienceAuthors(t) ==
  {messages[i].author : i \in {j \in DOMAIN messages :
     messages[j].thread = t /\ ~messages[j].byAnswerer}}

\* replyRecipients, by the standing the fence had.
ReplyRecipients(a) ==
  LET call == op[a]
      owner == ownerOf[call.thread]
  IN  CASE owner = Group -> AudienceAuthors(call.thread) \ {a}
        [] owner # Group /\ call.standing = "answerer" /\ owner # a -> {owner}
        [] OTHER -> call.tell

\* The transaction begins and reads whom to tell.
PostRead(a) ==
  /\ op[a].at = "postRead"
  /\ Len(messages) < MaxPosts
  /\ Goto(a, [op[a] EXCEPT !.at = "postInsert", !.tell = ReplyRecipients(a)])
  /\ UNCHANGED <<rows, pushed, host, opened, crashes>>

Posted(a) == [thread |-> op[a].thread, author |-> a,
              byAnswerer |-> op[a].standing = "answerer",
              before |-> op[a].before]

\* raiseReplies: one notification each, a muted recipient skipped.
Raised(a) == op[a].tell \ Muted

\* What is left to hand over, or the end of the call.
PushLeft(a, i, left) ==
  Goto(a, IF left = {} THEN Idle
          ELSE [op[a] EXCEPT !.at = "push", !.tell = left, !.message = i])

\* The message with its notifications, and the commit.
Commit(a, recipients) ==
  /\ op[a].at = "postInsert"
  /\ Len(messages) < MaxPosts
  /\ messages' = Append(messages, Posted(a))
  /\ told' = Append(told, recipients)
  /\ PushLeft(a, Len(messages'), recipients)
  /\ UNCHANGED <<ownerOf, pushed, host, opened, crashes>>

\* Mutant: the notifications are raised by a store that pushes nothing.
PostCommit_Unpushed(a) ==
  /\ op[a].at = "postInsert"
  /\ Len(messages) < MaxPosts
  /\ messages' = Append(messages, Posted(a))
  /\ told' = Append(told, Raised(a))
  /\ Return(a)
  /\ UNCHANGED <<ownerOf, pushed, host, opened, crashes>>

PostCommit(a) == Commit(a, Raised(a))

\* onRaised, for each notification in turn.
PushOne(a, b) ==
  /\ op[a].at = "push"
  /\ b \in op[a].tell
  /\ pushed' = [pushed EXCEPT ![op[a].message] = Append(@, b)]
  /\ PushLeft(a, op[a].message, op[a].tell \ {b})
  /\ UNCHANGED <<rows, host, opened, crashes>>

-----------------------------------------------------------------------------
\* A lookup of the host or a statement fails: the transaction, if it was
\* open, rolls back, and the caller is answered the error.
Fail(a) ==
  /\ op[a].at \in {"openInsert", "read", "askAnswerers", "postRead", "postInsert"}
  /\ Return(a)
  /\ UNCHANGED <<rows, pushed, host, opened, crashes>>

\* The server dies after the commit, with pushes still to hand over.
Crash(a) ==
  /\ op[a].at = "push"
  /\ crashes < MaxCrashes
  /\ crashes' = crashes + 1
  /\ Return(a)
  /\ UNCHANGED <<rows, pushed, host, opened>>

\* The host answers another standing from now on.
ChangeStanding(a, st) ==
  /\ changes < MaxChanges
  /\ st # standing[a]
  /\ standing' = [standing EXCEPT ![a] = st]
  /\ changes' = changes + 1
  /\ everAnswered' = IF st = "answerer" THEN everAnswered \cup {a}
                     ELSE everAnswered
  /\ UNCHANGED <<rows, pushed, opened, crashes, op>>

Begin(a) ==
  \/ \E o \in Owners : OpenResolve(a, o)
  \/ \E t \in DOMAIN ownerOf : ReadFence(a, t) \/ PostFence(a, t)

Continue(a) ==
  \/ OpenInsert(a) \/ OpenConflict(a)
  \/ ReadMessages(a)
  \/ AskAnswerers(a) \/ PostRead(a) \/ PostCommit(a)
  \/ \E b \in Actors : PushOne(a, b)
  \/ Fail(a)

Next == \/ \E a \in Actors : Begin(a) \/ Continue(a) \/ Crash(a)
        \/ \E a \in Actors, st \in Standings : ChangeStanding(a, st)

Spec == Init /\ [][Next]_vars

\* A server that lives runs the statements of a call one after another.
FairSpec == Spec /\ \A a \in Actors : WF_vars(Continue(a))

-----------------------------------------------------------------------------
(* Opening twice, by whomever and however interleaved, answers one thread  *)
(* for ever: no two callers talk past each other in two threads.           *)
OneThreadPerOwner ==
  \A o \in Owners : \A t, u \in opened[o] \cup Of(o) : t = u

(* A private thread is read by the one it is with and by who answers, or   *)
(* answered, for the subject: no change of standing in the middle of a     *)
(* call shows it to anybody else.                                          *)
PrivateStaysPrivate ==
  \A a \in Actors : op[a].at = "read" =>
    ownerOf[op[a].thread] \in {a, Group} \/ a \in everAnswered

(* A reply is signed by the answering side: nobody who was never on that   *)
(* side is shown the name behind a reply it posted.                        *)
AnsweringSideUnnamed ==
  \A a \in Actors \ everAnswered : \A s \in Shown(a) :
    s[2] # NoActor => ~messages[s[1]].byAnswerer

\* What is said in confidence.
Confided == PrivateStaysPrivate /\ AnsweringSideUnnamed

(* Who is told: nobody of their own message; of a private thread's, its    *)
(* owner or somebody who answered for the subject; of the group's, only    *)
(* who wrote there from the audience before.                               *)
ToldAreParties ==
  \A i \in DOMAIN told : \A b \in told[i] :
    LET m == messages[i] IN
    /\ b # m.author
    /\ IF ownerOf[m.thread] = Group
       THEN \E j \in 1 .. (i - 1) : /\ messages[j].thread = m.thread
                                    /\ messages[j].author = b
                                    /\ ~messages[j].byAnswerer
       ELSE b = ownerOf[m.thread] \/ b \in everAnswered

(* A message and its notifications are stored together or not at all: who  *)
(* was in the group's conversation before a post began has its notice.     *)
EarlierAuthorsTold ==
  \A i \in DOMAIN messages : ownerOf[messages[i].thread] = Group =>
    \A j \in 1 .. messages[i].before :
      LET b == messages[j].author IN
      /\ messages[j].thread = messages[i].thread
      /\ ~messages[j].byAnswerer
      /\ b \notin Muted \cup {messages[i].author}
      => b \in told[i]

\* Who is told is a party, and every party there before is told.
WhoIsTold == ToldAreParties /\ EarlierAuthorsTold

(* What is handed to Web Push is a notification that is committed, and     *)
(* each is handed over once at most: a post rolled back pushes nothing.    *)
PushedOnceCommitted ==
  \A i \in DOMAIN pushed : \A j \in DOMAIN pushed[i] :
    /\ i \in DOMAIN told
    /\ pushed[i][j] \in told[i]
    /\ \A k \in DOMAIN pushed[i] : pushed[i][j] = pushed[i][k] => j = k

(* Every notification of a post is handed to Web Push in the end, unless a *)
(* server died: nothing remembers what a dead server still had to push.    *)
ToldArePushed ==
  \A i \in 1 .. MaxPosts : \A b \in Actors :
    (i \in DOMAIN told /\ b \in told[i])
      ~> (crashes > 0 \/ \E j \in DOMAIN pushed[i] : pushed[i][j] = b)
=============================================================================
