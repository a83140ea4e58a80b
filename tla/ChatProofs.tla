----------------------------- MODULE ChatProofs -----------------------------
(***************************************************************************)
(* What holds of the chat for every set of actors, labels and thread ids,  *)
(* and any number of posts and instants.                                   *)
(*                                                                         *)
(* ChatThreads: the invariants of the runs are not inductive by            *)
(* themselves, what a call in flight remembers of its thread has to be     *)
(* part of them.                                                           *)
(*                                                                         *)
(* ChatReading: posts are never taken from the table and a read point      *)
(* never goes back, so nothing read becomes unread; a call about to read   *)
(* its archive back would be crossed by whatever changed the row.  What a  *)
(* client holds is all of the table up to its newest post, except what     *)
(* landed late behind one of its posts, so a poll by that post loses only  *)
(* such posts, and marking by what was shown passes only them.             *)
(***************************************************************************)
EXTENDS ChatThreads, ChatReading, TLAPS


ThreadPoints == {"openWrite", "declineRead", "declineWrite", "postCheck",
                 "postInsert"}

\* A row that is not minted yet is nobody's, and nothing names it.
UnmintedIsClean ==
  \A t \in Threads : ~Minted(t) =>
    /\ ~thread[t].declined
    /\ thread[t].requestedBy = NoActor
    /\ toldDecline[t] = 0
    /\ toldRequest[t] = {}
    /\ authors[t] = {}

\* Nobody has been told of a decline of a thread the leads still consider.
UndecidedIsUntold ==
  \A t \in Threads :
    thread[t].audience = "leads" /\ ~thread[t].declined => toldDecline[t] = 0

\* What a call of a read and relies on still holds when it writes.
Sound(a, call) ==
  /\ call.at \in ThreadPoints =>
       /\ call.thread \in Threads
       /\ Minted(call.thread)
  /\ call.at = "declineWrite" => thread[call.thread].requestedBy # NoActor
  /\ call.at \in {"postCheck", "postInsert"} =>
       ReadableBy(call.thread, a, a \in everLed)
  /\ call.at = "requestInsert" => call.tell \subseteq everLed \ {a}
  /\ call.at \in {"startInsert", "requestInsert"} => call.label \in Labels

CallsAreSound == \A a \in Actors : Sound(a, op[a])

IInv ==
  /\ TypeOK
  /\ leads \subseteq everLed
  /\ UnmintedIsClean
  /\ UndecidedIsUntold
  /\ CallsAreSound
  /\ DeclinedStaysAside
  /\ ToldOfDeclineOnce
  /\ ToldOfRealRequests
  /\ StartNeverReveals
  /\ PostersCouldRead

USE NoActorAssumption, NoThreadAssumption, NoLabelAssumption,
    MutedAssumption, HandoversAssumption

-----------------------------------------------------------------------------
(* A step that writes no row: only where the call stands changes.          *)

\* An idle call promises nothing.
LEMMA IdleIsSound ==
  ASSUME NEW a \in Actors PROVE Idle \in Call /\ Sound(a, Idle)
  BY DEF Idle, Call, Points, Sound, ThreadPoints

\* A step that only moves one call on keeps the invariant, if the call it
\* leaves behind promises no more than the rows hold.
LEMMA ReadStep ==
  ASSUME IInv, NEW a \in Actors, NEW c \in Call, Sound(a, c),
         Goto(a, c), UNCHANGED <<db, host, answers>>
  PROVE  IInv'
  <1> USE DEF IInv, db, host, Goto
  <1>1. TypeOK'
    BY DEF TypeOK
  <1>2. CallsAreSound'
    <2> SUFFICES ASSUME NEW b \in Actors PROVE Sound(b, op[b])'
      BY DEF CallsAreSound
    <2>1. op'[b] = IF b = a THEN c ELSE op[b]
      BY DEF TypeOK
    <2>2. Sound(b, op'[b])
      BY <2>1 DEF CallsAreSound
    <2> QED
      BY <2>2 DEF Sound, Minted, ReadableBy
  <1>3. (leads \subseteq everLed)' /\ UnmintedIsClean' /\ UndecidedIsUntold'
    BY DEF UnmintedIsClean, UndecidedIsUntold, Minted
  <1>4. DeclinedStaysAside' /\ ToldOfDeclineOnce' /\ ToldOfRealRequests'
    BY DEF DeclinedStaysAside, ToldOfDeclineOnce, ToldOfRealRequests
  <1>5. StartNeverReveals' /\ PostersCouldRead'
    BY DEF StartNeverReveals, PostersCouldRead, ReadableBy
  <1> QED
    BY <1>1, <1>2, <1>3, <1>4, <1>5

-----------------------------------------------------------------------------
\* The empty room satisfies the invariant.
LEMMA InitIInv == Init => IInv
  <1> SUFFICES ASSUME Init PROVE IInv
    OBVIOUS
  <1>1. TypeOK
    BY DEF Init, TypeOK, ThreadRow, Unminted, Call, Points, Idle
  <1>2. CallsAreSound
    BY IdleIsSound DEF Init, CallsAreSound
  <1> QED
    BY <1>1, <1>2 DEF Init, IInv, Unminted, UnmintedIsClean, Minted,
       UndecidedIsUntold, DeclinedStaysAside, ToldOfDeclineOnce,
       ToldOfRealRequests, StartNeverReveals, PostersCouldRead

-----------------------------------------------------------------------------
(* The reads, each an instance of ReadStep.                                *)

\* The reads of a lead's start.
LEMMA StartReads ==
  ASSUME IInv, NEW a \in Actors,
         \/ \E l \in Labels : StartResolve(a, l)
         \/ StartConflict(a) \/ StartRescue(a)
  PROVE  IInv'
  <1>1. CASE \E l \in Labels : StartResolve(a, l)
    <2> PICK l \in Labels : StartResolve(a, l)
      BY <1>1
    <2> DEFINE c == Starting("startInsert", l, ResolveThread(l) # NoThread, {})
    <2>1. c \in Call /\ Sound(a, c)
      BY DEF Call, Points, Starting, Idle, Sound, ThreadPoints
    <2> QED
      BY <2>1, ReadStep DEF StartResolve
  <1>2. CASE StartConflict(a)
    <2> DEFINE c == [op[a] EXCEPT !.at = "startRescue"]
    <2>1. c \in Call /\ Sound(a, c)
      BY DEF IInv, TypeOK, Call, Points, Sound, ThreadPoints
    <2> QED
      BY <1>2, <2>1, ReadStep DEF StartConflict
  <1>3. CASE StartRescue(a)
    BY <1>3, ReadStep, IdleIsSound DEF StartRescue, Return
  <1> QED
    BY <1>1, <1>2, <1>3

\* The reads, the retry and the rollback of an open and of a decline.
LEMMA OpenAndDeclineReads ==
  ASSUME IInv, NEW a \in Actors,
         \/ \E t \in Threads : OpenRead(a, t) \/ DeclineFence(a, t)
         \/ DeclineRead(a) \/ DeclineAgain(a) \/ DeclineRollback(a)
         \/ RequestRollback(a)
  PROVE  IInv'
  <1>1. ASSUME NEW t \in Threads, OpenRead(a, t) PROVE IInv'
    <2>1. On("openWrite", t) \in Call /\ Sound(a, On("openWrite", t))
      BY <1>1 DEF OpenRead, Call, Points, On, Idle, Sound, ThreadPoints, Minted
    <2> QED
      BY <1>1, <2>1, ReadStep DEF OpenRead
  <1>2. ASSUME NEW t \in Threads, Minted(t)
        PROVE  On("declineRead", t) \in Call /\ Sound(a, On("declineRead", t))
    BY <1>2 DEF Call, Points, On, Idle, Sound, ThreadPoints
  <1>3. ASSUME NEW t \in Threads, DeclineFence(a, t) PROVE IInv'
    BY <1>2, <1>3, ReadStep DEF DeclineFence
  <1>4. CASE DeclineRead(a)
    <2> DEFINE t == op[a].thread
               c == IF Declinable(t) THEN [op[a] EXCEPT !.at = "declineWrite"]
                    ELSE Idle
    <2>1. t \in Threads /\ Minted(t)
      BY <1>4 DEF IInv, CallsAreSound, Sound, ThreadPoints, DeclineRead
    <2>2. CASE Declinable(t)
      <3>1. c \in Call /\ Sound(a, c)
        BY <2>1, <2>2 DEF IInv, TypeOK, Call, Points, Sound, ThreadPoints,
           Declinable
      <3> QED
        BY <1>4, <2>2, <3>1, ReadStep DEF DeclineRead
    <2>3. CASE ~Declinable(t)
      BY <1>4, <2>3, ReadStep, IdleIsSound DEF DeclineRead
    <2> QED
      BY <2>2, <2>3
  <1>5. CASE DeclineAgain(a)
    <2>1. op[a].thread \in Threads /\ Minted(op[a].thread)
      BY <1>5 DEF IInv, CallsAreSound, Sound, ThreadPoints, DeclineAgain
    <2> QED
      BY <1>2, <1>5, <2>1, ReadStep DEF DeclineAgain
  <1>6. CASE DeclineRollback(a) \/ RequestRollback(a)
    BY <1>6, ReadStep, IdleIsSound DEF DeclineRollback, RequestRollback, Return
  <1> QED
    BY <1>1, <1>3, <1>4, <1>5, <1>6

\* A call moved on to the insert of its post.
LEMMA PostInsertCall ==
  ASSUME NEW r \in Call
  PROVE  LET c == [r EXCEPT !.at = "postInsert"] IN
         c \in Call /\ c.thread = r.thread /\ c.at = "postInsert"
  BY DEF Call, Points

\* The fence and the decline check of a post.
LEMMA PostReads ==
  ASSUME IInv, NEW a \in Actors,
         (\E t \in Threads : PostFence(a, t)) \/ PostCheck(a)
  PROVE  IInv'
  <1>1. ASSUME NEW t \in Threads, PostFence(a, t) PROVE IInv'
    <2>1. Minted(t) /\ ReadableBy(t, a, a \in everLed)
      BY <1>1 DEF PostFence, ReadableBy, Minted, IInv
    <2>2. On("postCheck", t) \in Call /\ Sound(a, On("postCheck", t))
      BY <2>1 DEF Call, Points, On, Idle, Sound, ThreadPoints
    <2> QED
      BY <1>1, <2>2, ReadStep DEF PostFence
  <1>2. CASE PostCheck(a)
    <2> DEFINE t == op[a].thread
               c == [op[a] EXCEPT !.at = "postInsert"]
    <2>1. c \in Call /\ Sound(a, c)
      <3>1. /\ t \in Threads /\ Minted(t)
            /\ ReadableBy(t, a, a \in everLed)
        BY <1>2 DEF IInv, CallsAreSound, Sound, ThreadPoints, PostCheck
      <3>2. op[a] \in Call
        BY DEF IInv, TypeOK
      <3>3. c \in Call /\ c.thread = t /\ c.at = "postInsert"
        BY <3>2, PostInsertCall
      <3> QED
        BY <3>1, <3>3 DEF Sound, ThreadPoints
    <2>2. CASE thread[t].declined
      BY <1>2, <2>2, ReadStep, IdleIsSound DEF PostCheck
    <2>3. CASE ~thread[t].declined
      BY <1>2, <2>1, <2>3, ReadStep DEF PostCheck
    <2> QED
      BY <2>2, <2>3
  <1> QED
    BY <1>1, <1>2

-----------------------------------------------------------------------------
(* Steps that write.  A row only ever grows more readable.                 *)

Grows ==
  \A t \in Threads : Minted(t) =>
    /\ thread'[t].requestedBy = thread[t].requestedBy
    /\ thread'[t].audience \in {thread[t].audience, "group"}

\* What is readable stays readable while rows only grow.
LEMMA GrowingKeeps ==
  ASSUME IInv, TypeOK', Grows, everLed \subseteq everLed',
         NEW t \in Threads, Minted(t), NEW a \in Actors,
         NEW b \in BOOLEAN, NEW c \in BOOLEAN, b => c, ReadableBy(t, a, b)
  PROVE  /\ Minted(t)'
         /\ thread'[t].audience = "group" \/ (thread'[t].audience = "leads"
              /\ (c \/ thread'[t].requestedBy = a))
  BY DEF IInv, TypeOK, ThreadRow, Grows, Minted, ReadableBy

\* What a call in flight relies on holds on while rows only grow.
LEMMA GrowingCalls ==
  ASSUME IInv, TypeOK', Grows, everLed \subseteq everLed', NEW a \in Actors,
         op' = op \/ Return(a)
  PROVE  CallsAreSound'
  <1> SUFFICES ASSUME NEW b \in Actors PROVE Sound(b, op[b])'
    BY DEF CallsAreSound
  <1>1. op'[b] = op[b] \/ op'[b] = Idle
    BY DEF IInv, TypeOK, Return, Goto
  <1>2. CASE op'[b] = Idle
    BY <1>2 DEF Sound, Idle, ThreadPoints
  <1>3. CASE op'[b] = op[b]
    <2> DEFINE t == op[b].thread
    <2>1. Sound(b, op[b])
      BY DEF IInv, CallsAreSound
    <2>2. /\ op[b].at = "requestInsert" => op[b].tell \subseteq everLed' \ {b}
          /\ op[b].at \in {"startInsert", "requestInsert"} => op[b].label \in Labels
      BY <2>1 DEF Sound
    <2>3. CASE op[b].at \notin ThreadPoints
      BY <1>3, <2>2, <2>3 DEF Sound, ThreadPoints
    <2>4. CASE op[b].at \in ThreadPoints
      <3>1. t \in Threads /\ Minted(t)
        BY <2>1, <2>4 DEF Sound
      <3>2. /\ thread'[t].audience # "unminted"
            /\ thread'[t].requestedBy = thread[t].requestedBy
        BY <3>1 DEF Grows, Minted
      <3>3. op[b].at \in {"postCheck", "postInsert"} =>
              thread'[t].audience = "group" \/ (thread'[t].audience = "leads"
                /\ (b \in everLed' \/ thread'[t].requestedBy = b))
        BY <2>1, <3>1 DEF Sound, ReadableBy, Grows
      <3> QED
        BY <1>3, <2>1, <2>2, <3>1, <3>2, <3>3 DEF Sound, ReadableBy, Minted
    <2> QED
      BY <2>3, <2>4
  <1> QED
    BY <1>1, <1>2, <1>3

\* What starts answered and posts were let into stays so while rows grow.
LEMMA GrowingReads ==
  ASSUME IInv, TypeOK', Grows, everLed \subseteq everLed',
         \A a \in Actors : \A t \in answers'[a] :
            t \in answers[a] \/ ReadableBy(t, a, FALSE)',
         \A t \in Threads : \A a \in authors'[t] :
            a \in authors[t] \/ ReadableBy(t, a, a \in everLed)'
  PROVE  StartNeverReveals' /\ PostersCouldRead'
  <1>1. ASSUME NEW a \in Actors, NEW t \in answers[a], t \in Threads
        PROVE  ReadableBy(t, a, FALSE)'
    <2>1. ReadableBy(t, a, FALSE) /\ Minted(t)
      BY <1>1 DEF IInv, StartNeverReveals, ReadableBy, Minted
    <2> QED
      BY <1>1, <2>1, GrowingKeeps DEF ReadableBy
  <1>2. ASSUME NEW t \in Threads, NEW a \in authors[t], a \in Actors
        PROVE  ReadableBy(t, a, a \in everLed)'
    <2>1. ReadableBy(t, a, a \in everLed) /\ Minted(t)
      BY <1>2 DEF IInv, PostersCouldRead, ReadableBy, Minted
    <2> QED
      BY <1>2, <2>1, GrowingKeeps DEF ReadableBy
  <1>3. \A a \in Actors : answers'[a] \subseteq Threads
    BY DEF TypeOK
  <1>4. \A t \in Threads : authors'[t] \subseteq Actors
    BY DEF TypeOK
  <1> QED
    BY <1>1, <1>2, <1>3, <1>4 DEF StartNeverReveals, PostersCouldRead

\* The parts of IInv that speak of one row at a time.
RowParts ==
  /\ UnmintedIsClean
  /\ UndecidedIsUntold
  /\ DeclinedStaysAside
  /\ ToldOfDeclineOnce
  /\ ToldOfRealRequests

\* A new row breaks nothing that is said of the rows.
LEMMA MintStep ==
  ASSUME IInv, NEW t \in Threads, ~Minted(t), NEW row \in ThreadRow,
         row.audience # "unminted", ~row.declined, NEW tell \in SUBSET Actors,
         tell # {} => /\ row.requestedBy # NoActor
                      /\ tell \subseteq everLed \ {row.requestedBy},
         thread' = [thread EXCEPT ![t] = row],
         toldRequest' = [toldRequest EXCEPT ![t] = tell],
         authors' = authors, toldDecline' = toldDecline,
         leads' = leads, everLed' = everLed
  PROVE  /\ thread' \in [Threads -> ThreadRow]
         /\ toldRequest' \in [Threads -> SUBSET Actors]
         /\ Grows /\ RowParts'
  <1> USE DEF IInv, TypeOK
  <1>1. \A u \in Threads : thread'[u] = IF u = t THEN row ELSE thread[u]
    OBVIOUS
  <1>2. thread' \in [Threads -> ThreadRow]
    OBVIOUS
  <1>3. Grows
    BY <1>1 DEF Grows, Minted, ThreadRow
  <1>4. toldDecline[t] = 0
    BY DEF UnmintedIsClean
  <1>5. UnmintedIsClean' /\ UndecidedIsUntold'
    BY <1>1, <1>4 DEF UnmintedIsClean, UndecidedIsUntold, Minted
  <1>6. DeclinedStaysAside' /\ ToldOfDeclineOnce' /\ ToldOfRealRequests'
    BY <1>1, <1>4
       DEF DeclinedStaysAside, ToldOfDeclineOnce, ToldOfRealRequests
  <1> QED
    BY <1>2, <1>3, <1>5, <1>6 DEF RowParts

\* The row a start inserts.
LEMMA MintRowType ==
  ASSUME NEW l \in Labels, NEW aside \in BOOLEAN,
         NEW asker \in Actors \cup {NoActor}
  PROVE  /\ MintRow(l, aside, asker) \in ThreadRow
         /\ MintRow(l, aside, asker).audience = "leads"
         /\ ~MintRow(l, aside, asker).declined
         /\ MintRow(l, aside, asker).requestedBy = asker
  BY DEF MintRow, ThreadRow

\* A lead's insert keeps the invariant.
LEMMA StartInsertStep ==
  ASSUME IInv, NEW a \in Actors, NEW t \in Threads, StartInsert(a, t)
  PROVE  IInv'
  <1> USE DEF StartInsert
  <1>0. op[a].label \in Labels
    BY DEF IInv, CallsAreSound, Sound
  <1>1. toldRequest[t] = {}
    BY DEF IInv, UnmintedIsClean
  <1>2. /\ op[a].aside \in BOOLEAN
        /\ toldRequest' = [toldRequest EXCEPT ![t] = {}]
    BY <1>1 DEF IInv, TypeOK, Call
  <1>3. /\ thread' \in [Threads -> ThreadRow]
        /\ Grows /\ RowParts'
    <2> DEFINE row == MintRow(op[a].label, op[a].aside, NoActor)
    <2>1. /\ row \in ThreadRow /\ row.audience # "unminted"
          /\ ~row.declined /\ {} \in SUBSET Actors
      BY <1>0, <1>2, MintRowType
    <2>2. thread' = [thread EXCEPT ![t] = row]
      OBVIOUS
    <2>3. /\ authors' = authors /\ toldDecline' = toldDecline
          /\ leads' = leads /\ everLed' = everLed /\ ~Minted(t)
      BY DEF host
    <2> HIDE DEF row, StartInsert
    <2> QED
      BY <1>2, <2>1, <2>2, <2>3, MintStep
  <1>4. TypeOK'
    BY <1>3, IdleIsSound DEF IInv, TypeOK, Return, Goto, host
  <1>5. StartNeverReveals' /\ PostersCouldRead'
    BY <1>3, <1>4, GrowingReads DEF host, IInv, TypeOK
  <1>6. CallsAreSound'
    BY <1>3, <1>4, GrowingCalls DEF host
  <1> QED
    BY <1>3, <1>4, <1>5, <1>6 DEF IInv, RowParts, host

\* A member's commit keeps the invariant: the notices come with the row.
LEMMA RequestCommitStep ==
  ASSUME IInv, NEW a \in Actors, NEW t \in Threads, RequestCommit(a, t)
  PROVE  IInv'
  <1> USE DEF RequestCommit
  <1>0. op[a].label \in Labels
    BY DEF IInv, CallsAreSound, Sound
  <1> DEFINE tell == op[a].tell \ Muted
  <1>1. /\ op[a].aside \in BOOLEAN /\ tell \in SUBSET Actors
        /\ tell \subseteq everLed \ {a}
    BY DEF IInv, TypeOK, Call, CallsAreSound, Sound
  <1>2. a # NoActor
    OBVIOUS
  <1>3. /\ thread' \in [Threads -> ThreadRow]
        /\ toldRequest' \in [Threads -> SUBSET Actors]
        /\ Grows /\ RowParts'
    <2> DEFINE row == MintRow(op[a].label, op[a].aside, a)
    <2>1. /\ row \in ThreadRow /\ row.audience # "unminted"
          /\ ~row.declined /\ row.requestedBy = a
      BY <1>0, <1>1, MintRowType
    <2>2. /\ thread' = [thread EXCEPT ![t] = row]
          /\ toldRequest' = [toldRequest EXCEPT ![t] = tell]
      OBVIOUS
    <2>3. /\ authors' = authors /\ toldDecline' = toldDecline
          /\ leads' = leads /\ everLed' = everLed /\ ~Minted(t)
      BY DEF host
    <2> HIDE DEF row, tell, RequestCommit
    <2> QED
      BY <1>1, <1>2, <2>1, <2>2, <2>3, MintStep
  <1>4. TypeOK'
    BY <1>3, IdleIsSound DEF IInv, TypeOK, Return, Goto, host, Answer
  <1>5. ReadableBy(t, a, FALSE)'
    BY DEF ReadableBy, MintRow, IInv, TypeOK
  <1>6. \A b \in Actors : \A u \in answers'[b] :
          u \in answers[b] \/ (u = t /\ b = a)
    BY DEF Answer, IInv, TypeOK
  <1>7. StartNeverReveals' /\ PostersCouldRead'
    <2>1. \A b \in Actors : \A u \in answers'[b] :
            u \in answers[b] \/ ReadableBy(u, b, FALSE)'
      BY <1>5, <1>6
    <2> QED
      BY <1>3, <1>4, <2>1, GrowingReads DEF host, IInv, TypeOK
  <1>8. CallsAreSound'
    BY <1>3, <1>4, GrowingCalls DEF host
  <1> QED
    BY <1>3, <1>4, <1>7, <1>8 DEF IInv, RowParts, host

\* The host's own mint keeps the invariant.
LEMMA MintThreadStep ==
  ASSUME IInv, NEW l \in Labels, NEW t \in Threads, MintThread(l, t)
  PROVE  IInv'
  <1> USE DEF MintThread
  <1> DEFINE row == [MintRow(l, FALSE, NoActor) EXCEPT !.audience = "group"]
  <1>1. row \in ThreadRow /\ row.audience # "unminted" /\ ~row.declined
    BY DEF MintRow, ThreadRow
  <1>2. toldRequest' = [toldRequest EXCEPT ![t] = {}]
    BY DEF IInv, TypeOK, UnmintedIsClean
  <1>3. /\ thread' \in [Threads -> ThreadRow]
        /\ Grows /\ RowParts'
    <2>1. thread' = [thread EXCEPT ![t] = row] /\ {} \in SUBSET Actors
      OBVIOUS
    <2>2. /\ authors' = authors /\ toldDecline' = toldDecline
          /\ leads' = leads /\ everLed' = everLed /\ ~Minted(t)
      BY DEF host
    <2> HIDE DEF row, MintThread
    <2> QED
      BY <1>1, <1>2, <2>1, <2>2, MintStep
  <1>4. TypeOK'
    BY <1>3 DEF IInv, TypeOK, host
  <1>5. StartNeverReveals' /\ PostersCouldRead'
    BY <1>3, <1>4, GrowingReads DEF host, IInv, TypeOK
  <1>6. CallsAreSound'
    <2>1. CASE \E a \in Actors : TRUE
      BY <1>3, <1>4, <2>1, GrowingCalls DEF host
    <2>2. CASE ~\E a \in Actors : TRUE
      BY <2>2 DEF CallsAreSound
    <2> QED
      BY <2>1, <2>2
  <1> QED
    BY <1>3, <1>4, <1>5, <1>6 DEF IInv, RowParts, host

\* Answering a thread that is reusable reveals nothing.
LEMMA RequestAnswerStep ==
  ASSUME IInv, NEW a \in Actors, NEW t \in Threads, Reusable(t, a),
         Answer(a, t), op' = op \/ Return(a), UNCHANGED <<db, host>>
  PROVE  IInv'
  <1> USE DEF db, host
  <1>1. TypeOK'
    BY IdleIsSound DEF IInv, TypeOK, Answer, Return, Goto
  <1>2. Grows /\ RowParts'
    BY DEF Grows, RowParts, IInv, UnmintedIsClean, UndecidedIsUntold, Minted,
       DeclinedStaysAside, ToldOfDeclineOnce, ToldOfRealRequests
  <1>3. \A b \in Actors : \A u \in answers'[b] :
          u \in answers[b] \/ ReadableBy(u, b, FALSE)'
    BY DEF Answer, IInv, TypeOK, Reusable, ReadableBy
  <1>4. StartNeverReveals' /\ PostersCouldRead'
    BY <1>1, <1>2, <1>3, GrowingReads DEF IInv, TypeOK
  <1>5. CallsAreSound'
    BY <1>1, <1>2, GrowingCalls
  <1> QED
    BY <1>1, <1>2, <1>4, <1>5 DEF IInv, RowParts

\* What ResolveThread finds is a thread.
LEMMA ResolveFinds ==
  ASSUME NEW l, ResolveThread(l) # NoThread PROVE ResolveThread(l) \in Threads
  BY DEF ResolveThread, AtOwnPath

\* The reads, the refusal and the rollback of a member's start.
LEMMA RequestReads ==
  ASSUME IInv, NEW a \in Actors,
         (\E l \in Labels : RequestResolve(a, l)) \/ RequestConflict(a)
  PROVE  IInv'
  <1>1. ASSUME NEW l \in Labels, RequestResolve(a, l) PROVE IInv'
    <2> DEFINE found == ResolveThread(l)
               taken == found # NoThread
               c == Starting("requestInsert", l, taken, LeadsToTell(a))
    <2>1. CASE taken /\ Reusable(found, a)
      BY <1>1, <2>1, ResolveFinds, RequestAnswerStep DEF RequestResolve
    <2>2. CASE ~(taken /\ Reusable(found, a))
      <3>1. c \in Call /\ Sound(a, c)
        BY DEF Call, Points, Starting, Idle, Sound, ThreadPoints, LeadsToTell,
           IInv, TypeOK
      <3> QED
        BY <1>1, <2>2, <3>1, ReadStep DEF RequestResolve
    <2> QED
      BY <2>1, <2>2
  <1>2. CASE RequestConflict(a)
    <2> DEFINE winner == ResolveThread(op[a].label)
    <2>1. winner \in Threads
      BY <1>2 DEF RequestConflict, PathTaken, ResolveThread, AtOwnPath
    <2>2. CASE Reusable(winner, a) /\ Answer(a, winner)
      BY <1>2, <2>1, <2>2, RequestAnswerStep DEF RequestConflict
    <2>3. CASE UNCHANGED answers
      BY <1>2, <2>3, ReadStep, IdleIsSound DEF RequestConflict, Return
    <2> QED
      BY <1>2, <2>2, <2>3 DEF RequestConflict
  <1> QED
    BY <1>1, <1>2

\* The row an open writes.
LEMMA OpenedRow ==
  ASSUME NEW r \in ThreadRow, NEW row,
         row = [r EXCEPT !.audience = "group", !.declined = FALSE]
  PROVE  /\ row \in ThreadRow /\ row.audience = "group" /\ ~row.declined
         /\ row.requestedBy = r.requestedBy /\ row.aside = r.aside
  BY DEF ThreadRow

\* The row a decline writes.
LEMMA DeclinedRow ==
  ASSUME NEW r \in ThreadRow, NEW row,
         row = [r EXCEPT !.declined = TRUE, !.aside = TRUE]
  PROVE  /\ row \in ThreadRow /\ row.audience = r.audience /\ row.declined
         /\ row.requestedBy = r.requestedBy /\ row.aside
  BY DEF ThreadRow

\* An open keeps the invariant: it clears the decline along with the audience.
LEMMA OpenWriteStep ==
  ASSUME IInv, NEW a \in Actors, OpenWrite(a)
  PROVE  IInv'
  <1> USE DEF OpenWrite, host
  <1> DEFINE t == op[a].thread
             row == [thread[t] EXCEPT !.audience = "group", !.declined = FALSE]
  <1>1. t \in Threads /\ Minted(t)
    BY DEF IInv, CallsAreSound, Sound, ThreadPoints
  <1>2. /\ row \in ThreadRow /\ row.audience = "group" /\ ~row.declined
        /\ row.requestedBy = thread[t].requestedBy
        /\ row.aside = thread[t].aside
    <2>1. thread[t] \in ThreadRow
      BY <1>1 DEF IInv, TypeOK
    <2> QED
      BY <2>1, OpenedRow
  <1>3. /\ thread' \in [Threads -> ThreadRow]
        /\ \A u \in Threads : thread'[u] = IF u = t THEN row ELSE thread[u]
    <2>1. thread' = [thread EXCEPT ![t] = row]
      OBVIOUS
    <2> HIDE DEF row, OpenWrite
    <2> QED
      BY <1>1, <1>2, <2>1 DEF IInv, TypeOK
  <1>4. TypeOK'
    BY <1>3, IdleIsSound DEF IInv, TypeOK, Return, Goto
  <1> HIDE DEF row
  <1>5. Grows /\ UnmintedIsClean' /\ UndecidedIsUntold'
    BY <1>1, <1>2, <1>3
       DEF Grows, IInv, UnmintedIsClean, UndecidedIsUntold, Minted
  <1>6. DeclinedStaysAside' /\ ToldOfDeclineOnce' /\ ToldOfRealRequests'
    <2>1. DeclinedStaysAside'
      BY <1>1, <1>2, <1>3 DEF IInv, DeclinedStaysAside
    <2>2. ToldOfDeclineOnce'
      BY <1>1, <1>2, <1>3 DEF IInv, ToldOfDeclineOnce
    <2>3. ToldOfRealRequests'
      BY <1>1, <1>2, <1>3 DEF IInv, ToldOfRealRequests
    <2> QED
      BY <2>1, <2>2, <2>3
  <1>7. StartNeverReveals' /\ PostersCouldRead'
    BY <1>4, <1>5, GrowingReads DEF IInv, TypeOK
  <1>8. CallsAreSound'
    BY <1>4, <1>5, GrowingCalls
  <1> QED
    BY <1>4, <1>5, <1>6, <1>7, <1>8 DEF IInv

\* A decline keeps the invariant: its update asks what the read had asked.
LEMMA DeclineCommitStep ==
  ASSUME IInv, NEW a \in Actors, DeclineCommit(a)
  PROVE  IInv'
  <1> USE DEF DeclineCommit, Decline, host
  <1> DEFINE t == op[a].thread
             row == [thread[t] EXCEPT !.declined = TRUE, !.aside = TRUE]
  <1>1. /\ t \in Threads /\ Minted(t) /\ thread[t].requestedBy # NoActor
        /\ thread[t].audience = "leads" /\ ~thread[t].declined
    BY DEF IInv, CallsAreSound, Sound, ThreadPoints
  <1>2. /\ row \in ThreadRow /\ row.audience = "leads" /\ row.declined
        /\ row.requestedBy = thread[t].requestedBy /\ row.aside
    <2>1. thread[t] \in ThreadRow
      BY <1>1 DEF IInv, TypeOK
    <2> QED
      BY <1>1, <2>1, DeclinedRow
  <1>3. /\ thread' \in [Threads -> ThreadRow]
        /\ \A u \in Threads : thread'[u] = IF u = t THEN row ELSE thread[u]
    <2>1. thread' = [thread EXCEPT ![t] = row]
      OBVIOUS
    <2> HIDE DEF row, DeclineCommit
    <2> QED
      BY <1>1, <1>2, <2>1 DEF IInv, TypeOK
  <1>4. /\ toldDecline' \in [Threads -> Nat]
        /\ \A u \in Threads : u # t => toldDecline'[u] = toldDecline[u]
        /\ toldDecline'[t] <= 1
    <2>1. toldDecline[t] = 0
      BY <1>1 DEF IInv, UndecidedIsUntold
    <2> QED
      BY <1>1, <2>1 DEF IInv, TypeOK
  <1>5. TypeOK'
    BY <1>3, <1>4, IdleIsSound DEF IInv, TypeOK, Return, Goto
  <1>6. authors' = authors /\ toldRequest' = toldRequest /\ answers' = answers
        /\ leads' = leads /\ everLed' = everLed
    OBVIOUS
  <1>7. Return(a)
    OBVIOUS
  <1> HIDE DEF row, DeclineCommit, Decline
  <1>8. Grows /\ UnmintedIsClean' /\ UndecidedIsUntold'
    BY <1>1, <1>2, <1>3, <1>4, <1>6
       DEF Grows, IInv, UnmintedIsClean, UndecidedIsUntold, Minted
  <1>9. DeclinedStaysAside' /\ ToldOfDeclineOnce' /\ ToldOfRealRequests'
    BY <1>1, <1>2, <1>3, <1>4, <1>6
       DEF IInv, DeclinedStaysAside, ToldOfDeclineOnce, ToldOfRealRequests
  <1>10. StartNeverReveals' /\ PostersCouldRead'
    BY <1>5, <1>6, <1>8, GrowingReads DEF IInv, TypeOK
  <1>11. CallsAreSound'
    BY <1>5, <1>6, <1>7, <1>8, GrowingCalls
  <1> QED
    BY <1>5, <1>6, <1>8, <1>9, <1>10, <1>11 DEF IInv

\* A post keeps the invariant: the fence let its author in.
LEMMA PostInsertStep ==
  ASSUME IInv, NEW a \in Actors, PostInsert(a)
  PROVE  IInv'
  <1> USE DEF PostInsert, host
  <1> DEFINE t == op[a].thread
  <1>1. t \in Threads /\ Minted(t) /\ ReadableBy(t, a, a \in everLed)
    BY DEF IInv, CallsAreSound, Sound, ThreadPoints
  <1>2. TypeOK'
    BY <1>1, IdleIsSound DEF IInv, TypeOK, Return, Goto
  <1>3. Grows /\ RowParts'
    BY <1>1 DEF Grows, RowParts, IInv, TypeOK, ThreadRow, UnmintedIsClean,
       UndecidedIsUntold, Minted, DeclinedStaysAside, ToldOfDeclineOnce,
       ToldOfRealRequests
  <1>4. \A u \in Threads : \A b \in authors'[u] :
          b \in authors[u] \/ ReadableBy(u, b, b \in everLed)'
    <2> SUFFICES ASSUME NEW u \in Threads, NEW b \in authors'[u],
                        b \notin authors[u]
                 PROVE  ReadableBy(u, b, b \in everLed)'
      OBVIOUS
    <2>1. u = t /\ b = a
      BY <1>1 DEF IInv, TypeOK
    <2>2. ReadableBy(u, b, b \in everLed)
      BY <1>1, <2>1
    <2> QED
      BY <2>2 DEF ReadableBy
  <1>5. StartNeverReveals' /\ PostersCouldRead'
    BY <1>2, <1>3, <1>4, GrowingReads DEF IInv, TypeOK
  <1>6. CallsAreSound'
    BY <1>2, <1>3, GrowingCalls
  <1> QED
    BY <1>2, <1>3, <1>5, <1>6 DEF IInv, RowParts

\* A change of leads keeps the invariant: who ever led is remembered.
LEMMA HandoverStep ==
  ASSUME IInv, Handover
  PROVE  IInv'
  <1> USE DEF Handover, db
  <1>1. TypeOK' /\ everLed \subseteq everLed' /\ (leads \subseteq everLed)'
    BY DEF IInv, TypeOK
  <1>2. Grows /\ RowParts'
    BY <1>1 DEF Grows, RowParts, IInv, UnmintedIsClean, UndecidedIsUntold,
       Minted, DeclinedStaysAside, ToldOfDeclineOnce, ToldOfRealRequests
  <1>3. StartNeverReveals' /\ PostersCouldRead'
    BY <1>1, <1>2, GrowingReads DEF IInv, TypeOK
  <1>4. CallsAreSound'
    <2>1. CASE \E a \in Actors : TRUE
      BY <1>1, <1>2, <2>1, GrowingCalls
    <2>2. CASE ~\E a \in Actors : TRUE
      BY <2>2 DEF CallsAreSound
    <2> QED
      BY <2>1, <2>2
  <1> QED
    BY <1>1, <1>2, <1>3, <1>4 DEF IInv, RowParts

\* A step that changes nothing keeps the invariant.
LEMMA StutterStep ==
  ASSUME IInv, UNCHANGED vars
  PROVE  IInv'
  BY DEF IInv, vars, TypeOK, UnmintedIsClean, UndecidedIsUntold, Minted,
     CallsAreSound, Sound, ReadableBy, DeclinedStaysAside, ToldOfDeclineOnce,
     ToldOfRealRequests, StartNeverReveals, PostersCouldRead

\* Every step keeps the invariant.
LEMMA NextIInv == IInv /\ [Next]_vars => IInv'
  <1> SUFFICES ASSUME IInv, [Next]_vars PROVE IInv'
    OBVIOUS
  <1>1. ASSUME NEW a \in Actors, Begin(a) PROVE IInv'
    BY <1>1, StartReads, RequestReads, OpenAndDeclineReads, PostReads DEF Begin
  <1>2. ASSUME NEW a \in Actors, Continue(a) PROVE IInv'
    BY <1>2, StartInsertStep, RequestCommitStep, StartReads, RequestReads,
       OpenAndDeclineReads, PostReads, OpenWriteStep, DeclineCommitStep,
       PostInsertStep DEF Continue
  <1> QED
    BY <1>1, <1>2, MintThreadStep, HandoverStep, StutterStep DEF Next

-----------------------------------------------------------------------------
\* The inductive invariant: what the runs check, and that every call in flight
\* relies only on what rows never take back.
THEOREM Invariance == Spec => []IInv
  BY InitIInv, NextIInv, PTL DEF Spec

\* The rows, the notices and the calls in flight keep their types.
THEOREM TypeCorrect == Spec => []TypeOK
  <1>1. IInv => TypeOK
    BY DEF IInv
  <1> QED
    BY <1>1, Invariance, PTL

\* However opens, declines and starts interleave, a declined thread stays with
\* the leads and leaves its label's own path free.
THEOREM DeclineSafety == Spec => []DeclinedStaysAside
  <1>1. IInv => DeclinedStaysAside
    BY DEF IInv
  <1> QED
    BY <1>1, Invariance, PTL

\* A requester hears of a decline once, whatever number of leads decline; a
\* request's notices exist only with its thread, and go to leads.
THEOREM NoticesTrue == Spec => []ToldTruly
  <1>1. IInv => ToldTruly
    BY DEF IInv, ToldTruly
  <1> QED
    BY <1>1, Invariance, PTL

\* A member's start answers no thread the member may not read.
THEOREM NeverReveals == Spec => []StartNeverReveals
  <1>1. IInv => StartNeverReveals
    BY DEF IInv
  <1> QED
    BY <1>1, Invariance, PTL

\* Nobody posts in a thread they could not read.
THEOREM PostingFenced == Spec => []PostersCouldRead
  <1>1. IInv => PostersCouldRead
    BY DEF IInv
  <1> QED
    BY <1>1, Invariance, PTL

-----------------------------------------------------------------------------
\* No step takes back a row, its requester or its audience.
LEMMA NextGrows == IInv /\ [Next]_vars => Grows
  <1> SUFFICES ASSUME IInv, [Next]_vars PROVE Grows
    OBVIOUS
  <1> USE DEF IInv, TypeOK
  <1>1. CASE thread' = thread
    BY <1>1 DEF Grows
  <1>2. ASSUME NEW t \in Threads, ~Minted(t), NEW row,
               thread' = [thread EXCEPT ![t] = row]
        PROVE  Grows
    BY <1>2 DEF Grows, Minted
  <1>3. ASSUME NEW a \in Actors, OpenWrite(a) PROVE Grows
    BY <1>3 DEF OpenWrite, Grows, ThreadRow
  <1>4. ASSUME NEW a \in Actors, DeclineCommit(a) PROVE Grows
    BY <1>4 DEF DeclineCommit, Decline, Grows, ThreadRow
  <1>5. ASSUME NEW a \in Actors, Begin(a) PROVE Grows
    BY <1>1, <1>5 DEF Begin, StartResolve, RequestResolve, OpenRead,
       DeclineFence, PostFence, db
  <1>6. ASSUME NEW a \in Actors, Continue(a) PROVE Grows
    <2>1. ASSUME NEW t \in Threads, StartInsert(a, t) PROVE Grows
      BY <1>2, <2>1 DEF StartInsert
    <2>2. ASSUME NEW t \in Threads, RequestCommit(a, t) PROVE Grows
      BY <1>2, <2>2 DEF RequestCommit
    <2> QED
      BY <1>1, <1>3, <1>4, <1>6, <2>1, <2>2 DEF Continue, StartConflict,
         StartRescue, RequestConflict, RequestRollback, DeclineRead,
         DeclineAgain, DeclineRollback, PostCheck, PostInsert, db
  <1>7. ASSUME NEW l \in Labels, NEW t \in Threads, MintThread(l, t)
        PROVE  Grows
    BY <1>2, <1>7 DEF MintThread
  <1>8. CASE Handover \/ UNCHANGED vars
    BY <1>1, <1>8 DEF Handover, db, vars
  <1> QED
    BY <1>5, <1>6, <1>7, <1>8 DEF Next

\* What the group was given is never taken back by a step of any call.
THEOREM GroupKeeps == Spec => NeverTakenBack
  <1>1. IInv /\ IInv' /\ [Next]_vars =>
          [\A t \in Threads : thread[t].audience = "group" =>
             thread'[t].audience = "group" /\ ~thread'[t].declined]_vars
    BY NextGrows DEF Grows, Minted, IInv, DeclinedStaysAside
  <1> QED
    BY <1>1, Invariance, PTL DEF Spec, NeverTakenBack

-----------------------------------------------------------------------------
(* Reading.                                                                *)

USE ReadersAssumption, MaxPostsAssumption, MaxTimeAssumption

ReadInv == ReadTypeOK /\ ArchiveAnswersFirst

-----------------------------------------------------------------------------
\* Ids and instants are numbers.
LEMMA NumbersTyped == Posts \subseteq Nat /\ Instants \subseteq Nat /\ 1 \in Instants
  BY DEF Posts, Instants

\* An empty thread, read by nobody.
LEMMA InitReadInv == ReadInit => ReadInv
  BY NumbersTyped DEF ReadInit, ReadInv, ReadTypeOK, ArchiveAnswersFirst, InTable, View, NoView

\* One post more in the table is all that landing does to it.
LEMMA LandedGrows ==
  ASSUME landed \in Seq(Post), NEW p \in Post, landed' = Append(landed, p)
  PROVE  landed' \in Seq(Post) /\ InTable' = InTable \cup {p}
  <1>1. /\ DOMAIN landed' = DOMAIN landed \cup {Len(landed) + 1}
        /\ landed'[Len(landed) + 1] = p
        /\ \A i \in DOMAIN landed : landed'[i] = landed[i]
    OBVIOUS
  <1> QED
    BY <1>1 DEF InTable

\* The newest of some posts is one of theirs, or none.
LEMMA NewestTyped ==
  ASSUME NEW P \in SUBSET Post
  PROVE  NewestAt(P) \in Instants \cup {NoInstant}
  <1> DEFINE newest == {p \in P : \A q \in P : q.at <= p.at}
  <1>1. CASE newest = {}
    BY <1>1 DEF NewestAt
  <1>2. CASE newest # {}
    <2>1. (CHOOSE p \in newest : TRUE) \in P
      BY <1>2
    <2>2. \A p \in P : p.at \in Instants
      BY DEF Post
    <2> QED
      BY <1>2, <2>1, <2>2 DEF NewestAt
  <1> QED
    BY <1>1, <1>2

-----------------------------------------------------------------------------
\* Posts land and nothing of a reader's changes.
LEMMA PostingKeepsInv ==
  ASSUME ReadInv,
         \/ Tick
         \/ \E a \in Authors, id \in Posts : Stamp(a, id)
         \/ \E p \in stamped : Land(p)
  PROVE  ReadInv'
  <1>1. CASE Tick
    <2>1. clock' \in Instants
      BY <1>1 DEF Tick, ReadInv, ReadTypeOK, Instants
    <2> QED
      BY <1>1, <2>1 DEF Tick, reading, listing, ReadInv, ReadTypeOK, ArchiveAnswersFirst, InTable
  <1>2. ASSUME NEW a \in Authors, NEW id \in Posts, Stamp(a, id) PROVE ReadInv'
    <2>1. [id |-> id, at |-> clock, author |-> a] \in Post
      BY DEF Post, ReadInv, ReadTypeOK
    <2> QED
      BY <1>2, <2>1 DEF Stamp, reading, listing, ReadInv, ReadTypeOK, ArchiveAnswersFirst, InTable
  <1>3. ASSUME NEW p \in stamped, Land(p) PROVE ReadInv'
    <2>1. landed' \in Seq(Post) /\ InTable' = InTable \cup {p}
      BY <1>3, LandedGrows DEF Land, ReadInv, ReadTypeOK
    <2> QED
      BY <1>3, <2>1 DEF Land, reading, listing, ReadInv, ReadTypeOK, ArchiveAnswersFirst
  <1> QED
    BY <1>1, <1>2, <1>3

\* Listing posts and marking: instants and posts in, instants and posts out.
LEMMA MarkingKeepsInv ==
  ASSUME ReadInv, NEW a \in Readers,
         \/ ListAll(a) \/ ListAfter(a) \/ MarkNow(a)
         \/ \E p \in shown[a] : MarkShown(a, p)
         \/ \E at \in marking[a] : MarkRead(a, at)
  PROVE  ReadInv'
  <1> USE DEF ReadInv, ReadTypeOK, ArchiveAnswersFirst, listing
  <1>1. InTable \subseteq Post
    OBVIOUS
  <1>2. CASE ListAll(a)
    BY <1>1, <1>2 DEF ListAll, InTable
  <1>3. CASE ListAfter(a)
    <2>1. Followed(a) \subseteq Post
      BY <1>1 DEF Followed, After
    <2> QED
      BY <1>3, <2>1 DEF ListAfter, InTable
  <1>4. CASE MarkNow(a)
    BY <1>4 DEF MarkNow, InTable
  <1>5. ASSUME NEW p \in shown[a], MarkShown(a, p) PROVE ReadInv'
    <2>1. p.at \in Instants
      BY DEF Post
    <2> QED
      BY <1>5, <2>1 DEF MarkShown, InTable
  <1>6. ASSUME NEW at \in marking[a], MarkRead(a, at) PROVE ReadInv'
    BY <1>6 DEF MarkRead, InTable
  <1> QED
    BY <1>2, <1>3, <1>4, <1>5, <1>6

\* The archive: an insert that finds the row leaves it, so every call past its
\* insert is to answer the same.
LEMMA ArchivingKeepsInv ==
  ASSUME ReadInv, NEW a \in Readers,
         \/ Unarchive(a)
         \/ \E at \in Instants : Archive(a, at) \/ ArchiveAnswer(a, at)
  PROVE  ReadInv'
  <1> USE DEF ReadInv, ReadTypeOK, ArchiveAnswersFirst, reading, InTable
  <1>1. CASE Unarchive(a)
    BY <1>1 DEF Unarchive
  <1>2. ASSUME NEW at \in Instants, Archive(a, at) PROVE ReadInv'
    <2>1. archived'[a] = (IF archived[a] = NoInstant THEN at ELSE archived[a])
      BY <1>2 DEF Archive
    <2>2. archived'[a] \in Instants
      BY <2>1
    <2>3. ReadTypeOK'
      BY <1>2, <2>2 DEF Archive
    <2>4. archiving[a] # {} => archived[a] # NoInstant
      BY NumbersTyped DEF NoInstant, Instants
    <2>5. ArchiveAnswersFirst'
      BY <1>2, <2>1, <2>4 DEF Archive
    <2> QED
      BY <2>3, <2>5
  <1>3. ASSUME NEW at \in Instants, ArchiveAnswer(a, at) PROVE ReadInv'
    BY <1>3 DEF ArchiveAnswer
  <1> QED
    BY <1>1, <1>2, <1>3

\* The list of threads reads only.
LEMMA ListingKeepsInv ==
  ASSUME ReadInv, NEW a \in Readers,
         \/ CountUnread(a) \/ CloseList(a)
         \/ \E archivedOnes \in BOOLEAN : ListThread(a, archivedOnes)
  PROVE  ReadInv'
  <1>1. InTable \subseteq Post /\ Unread(a) \subseteq Post
    BY DEF ReadInv, ReadTypeOK, Unread
  <1>2. NewestAt(Unread(a)) \in Instants \cup {NoInstant}
    BY <1>1, NewestTyped
  <1>3. Latest \in Instants \cup {NoInstant}
    BY <1>1, NewestTyped DEF Latest
  <1>4. view[a] \in View /\ NoView \in View
    BY DEF ReadInv, ReadTypeOK, View, NoView
  <1>5. PICK v \in View :
          /\ view' = [view EXCEPT ![a] = v]
          /\ UNCHANGED <<clock, stamped, landed, reading, archived, archiving>>
    <2>1. CASE CountUnread(a)
      <3>1. [NoView EXCEPT !.at = "counted", !.unread = NewestAt(Unread(a))] \in View
        BY <1>2 DEF View, NoView
      <3> QED
        BY <2>1, <3>1 DEF CountUnread
    <2>2. CASE CloseList(a)
      BY <1>4, <2>2 DEF CloseList
    <2>3. ASSUME NEW archivedOnes \in BOOLEAN, ListThread(a, archivedOnes)
          PROVE  \E v \in View :
                   /\ view' = [view EXCEPT ![a] = v]
                   /\ UNCHANGED <<clock, stamped, landed, reading, archived, archiving>>
      <3>1. [view[a] EXCEPT !.at = "listed", !.last = Latest] \in View
        BY <1>3, <1>4 DEF View
      <3> QED
        BY <1>4, <2>3, <3>1 DEF ListThread
    <2> QED
      BY <2>1, <2>2, <2>3
  <1> QED
    BY <1>5 DEF ReadInv, ReadTypeOK, ArchiveAnswersFirst, reading, InTable

\* Every step keeps the invariant.
LEMMA NextReadInv == ReadInv /\ [ReadNext]_readVars => ReadInv'
  <1> SUFFICES ASSUME ReadInv, [ReadNext]_readVars PROVE ReadInv'
    OBVIOUS
  <1>1. CASE ReadNext
    BY <1>1, PostingKeepsInv, MarkingKeepsInv, ArchivingKeepsInv, ListingKeepsInv DEF ReadNext
  <1>2. CASE UNCHANGED readVars
    BY <1>2 DEF readVars, reading, listing, ReadInv, ReadTypeOK, ArchiveAnswersFirst, InTable
  <1> QED
    BY <1>1, <1>2

\* The inductive invariant holds throughout.
THEOREM ReadInvariance == ReadSpec => []ReadInv
  BY InitReadInv, NextReadInv, PTL DEF ReadSpec

\* Read points, offered and stored, and posts' instants are numbers.
LEMMA PointsTyped ==
  ASSUME ReadInv
  PROVE  /\ \A a \in Readers : readAt[a] \in Nat /\ marking[a] \subseteq Nat
         /\ \A p \in InTable : p.at \in Nat
  <1>1. Instants \cup {NoInstant} \subseteq Nat
    BY NumbersTyped DEF NoInstant
  <1>2. /\ readAt \in [Readers -> Instants \cup {NoInstant}]
        /\ marking \in [Readers -> SUBSET Instants]
        /\ InTable \subseteq Post
    BY DEF ReadInv, ReadTypeOK
  <1>3. \A p \in Post : p.at \in Instants
    BY DEF Post
  <1> QED
    BY <1>1, <1>2, <1>3

\* No step takes a read point back.
LEMMA PointsAdvance ==
  ReadInv /\ [ReadNext]_readVars =>
    \A a \in Readers : readAt'[a] \in Nat /\ readAt'[a] >= readAt[a]
  <1> SUFFICES ASSUME ReadInv, [ReadNext]_readVars, NEW a \in Readers
               PROVE  readAt'[a] \in Nat /\ readAt'[a] >= readAt[a]
    OBVIOUS
  <1>1. \A b \in Readers : readAt[b] \in Nat /\ marking[b] \subseteq Nat
    BY PointsTyped
  <1>2. ASSUME NEW b \in Readers, NEW at \in marking[b], MarkRead(b, at)
        PROVE  readAt'[a] \in Nat /\ readAt'[a] >= readAt[a]
    <2>1. readAt'[a] = IF a = b /\ at > readAt[b] THEN at ELSE readAt[a]
      BY <1>2 DEF MarkRead, ReadInv, ReadTypeOK
    <2> QED
      BY <1>1, <2>1
  <1>3. CASE UNCHANGED readAt
    BY <1>1, <1>3
  <1> QED
    BY <1>2, <1>3 DEF ReadNext, readVars, reading, Tick, Stamp, Land, ListAll, ListAfter,
       MarkShown, MarkNow, Archive, ArchiveAnswer, Unarchive, CountUnread,
       ListThread, CloseList

\* However late, repeated or reordered the marks, what was read stays read.
THEOREM ReadStays == ReadSpec => ReadStaysRead
  <1>1. ReadInv /\ [ReadNext]_readVars
          => \A a \in Readers : Unread(a)' \subseteq Unread(a) \cup (InTable' \ InTable)
    <2> SUFFICES ASSUME ReadInv, [ReadNext]_readVars, NEW a \in Readers,
                        NEW p \in Unread(a)', p \in InTable
                 PROVE  p \in Unread(a)
      BY DEF Unread
    <2>1. p.author # a /\ p.at > readAt'[a]
      BY DEF Unread
    <2>2. p.at \in Nat /\ readAt[a] \in Nat
      BY PointsTyped
    <2>3. readAt'[a] \in Nat /\ readAt'[a] >= readAt[a]
      BY PointsAdvance
    <2> QED
      BY <2>1, <2>2, <2>3 DEF Unread
  <1> QED
    BY <1>1, ReadInvariance, PTL DEF ReadSpec, ReadStaysRead

\* Every variable keeps to its type.
THEOREM ReadTypeCorrect == ReadSpec => []ReadTypeOK
  BY ReadInvariance, PTL DEF ReadInv

\* An archive call that no unarchive crosses answers with the first archive.
THEOREM ArchivedOnce == ReadSpec => []ArchiveAnswersFirst
  BY ReadInvariance, PTL DEF ReadInv
-----------------------------------------------------------------------------
(* Following the thread.                                                   *)

\* One of these posts comes after all the others, if there are any.
HasNewest(posts) ==
  posts # {} => \E p \in posts : \A q \in posts : q = p \/ Before(q, p)

\* An id names one post.
OnePostPerId == \A p, q \in stamped : p.id = q.id => p = q

\* What a client holds is in the table, and what it lacks though it sorts
\* before one of its posts was overtaken by one of them.
HoldingsSound ==
  \A a \in Readers :
    /\ shown[a] \subseteq InTable
    /\ HasNewest(shown[a])
    /\ \A p \in InTable \ shown[a] : \A q \in shown[a] :
         Before(p, q) => \E r \in shown[a] : Overtaken(p, r)

\* Whoever marks by posts shown has no point beyond all of them.
MarksAreShown ==
  \A a \in Readers \ blind : \A t \in marking[a] \cup {readAt[a]} :
    t = NoInstant \/ \E q \in shown[a] : t <= q.at

\* What was counted as unread is in the table.
CountsSound ==
  \A a \in Readers : \/ view[a].unread = NoInstant
                     \/ \E p \in InTable : view[a].unread = p.at

FollowInv == /\ ReadInv
             /\ OnePostPerId /\ HasNewest(InTable)
             /\ HoldingsSound /\ MarksAreShown
             /\ CountsSound /\ ListingDated

\* The posts there are, by number and instant.
LEMMA PostsTyped ==
  ASSUME ReadTypeOK
  PROVE  \A p \in stamped : p \in Post /\ p.id \in Nat /\ p.at \in Nat
  BY NumbersTyped DEF ReadTypeOK, Post

\* created_at and id put all posts in one order.
LEMMA BeforeIsTotal ==
  ASSUME ReadTypeOK, OnePostPerId
  PROVE  /\ \A p, q \in stamped : p = q \/ Before(p, q) \/ Before(q, p)
         /\ \A p, q \in stamped : ~(Before(p, q) /\ Before(q, p))
         /\ \A p, q, r \in stamped : Before(p, q) /\ Before(q, r) => Before(p, r)
  BY PostsTyped DEF OnePostPerId, Before

\* With one post more there is still a newest one.
LEMMA NewestWith ==
  ASSUME ReadTypeOK, OnePostPerId, NEW P \in SUBSET stamped, HasNewest(P),
         NEW p \in stamped
  PROVE  HasNewest(P \cup {p})
  <1>1. CASE P = {}
    BY <1>1 DEF HasNewest
  <1>2. CASE P # {}
    <2>1. PICK m \in P : \A q \in P : q = m \/ Before(q, m)
      BY <1>2 DEF HasNewest
    <2>2. CASE Before(m, p)
      <3>1. \A q \in P \cup {p} : q = p \/ Before(q, p)
        BY <2>1, <2>2, BeforeIsTotal
      <3> QED
        BY <3>1 DEF HasNewest
    <2>3. CASE ~Before(m, p)
      <3>1. \A q \in P \cup {p} : q = m \/ Before(q, m)
        BY <2>1, <2>3, BeforeIsTotal
      <3> QED
        BY <3>1 DEF HasNewest
    <2> QED
      BY <2>2, <2>3
  <1> QED
    BY <1>1, <1>2

\* The post a client names as its newest is.
LEMMA NewestHeld ==
  ASSUME NEW a \in Readers, shown[a] # {}, HasNewest(shown[a])
  PROVE  /\ Newest(a) \in shown[a]
         /\ \A q \in shown[a] : q = Newest(a) \/ Before(q, Newest(a))
  BY DEF HasNewest, Newest

\* ListMessagesAfter lists what sorts after the post named.
LEMMA AfterIsBefore ==
  ASSUME NEW p
  PROVE  After(p) = {q \in InTable : Before(p, q)}
  BY DEF After, Before

\* A client that follows has a newest post again, and nothing of the table
\* that it still lacks sorts after the post it asked from.
LEMMA FollowedSound ==
  ASSUME FollowInv, NEW a \in Readers, shown[a] # {}
  PROVE  /\ shown[a] \subseteq Followed(a) /\ Followed(a) \subseteq InTable
         /\ HasNewest(Followed(a))
         /\ \A p \in InTable \ Followed(a) : Before(p, Newest(a))
  <1> DEFINE n == Newest(a)
  <1>1. /\ ReadTypeOK /\ OnePostPerId /\ InTable \subseteq stamped
        /\ shown[a] \subseteq InTable /\ HasNewest(shown[a]) /\ HasNewest(InTable)
    BY DEF FollowInv, ReadInv, ReadTypeOK, HoldingsSound
  <1>2. n \in shown[a] /\ \A q \in shown[a] : q = n \/ Before(q, n)
    BY <1>1, NewestHeld
  <1> HIDE DEF n
  <1>3. Followed(a) = shown[a] \cup {q \in InTable : Before(n, q)}
    BY AfterIsBefore DEF Followed, n
  <1>4. \A p \in InTable \ Followed(a) : Before(p, n)
    BY <1>1, <1>2, <1>3, BeforeIsTotal
  <1>5. HasNewest(Followed(a))
    <2>1. CASE \A q \in InTable : ~Before(n, q)
      <3>1. Followed(a) = shown[a]
        BY <1>3, <2>1
      <3> QED
        BY <1>1, <3>1
    <2>2. ASSUME NEW q \in InTable, Before(n, q)
          PROVE  HasNewest(Followed(a))
      <3>1. PICK m \in InTable : \A r \in InTable : r = m \/ Before(r, m)
        BY <1>1 DEF HasNewest
      <3>2. Before(n, m)
        BY <1>1, <1>2, <2>2, <3>1, BeforeIsTotal
      <3>3. m \in Followed(a) /\ \A r \in Followed(a) : r = m \/ Before(r, m)
        BY <1>1, <1>3, <3>1, <3>2
      <3> QED
        BY <3>3 DEF HasNewest
    <2> QED
      BY <2>1, <2>2
  <1> QED
    BY <1>1, <1>3, <1>4, <1>5 DEF n

\* What was overtaken stays so.
LEMMA OvertakenStays ==
  ASSUME ReadTypeOK, NEW p \in stamped, landed' = Append(landed, p)
  PROVE  /\ \A q, r : Overtaken(q, r) => Overtaken(q, r)'
         /\ \A q \in InTable : Before(p, q) => Overtaken(p, q)'
  <1>1. landed \in Seq(Post) /\ p \in Post
    BY DEF ReadTypeOK
  <1>2. /\ Len(landed) \in Nat /\ DOMAIN landed = 1 .. Len(landed)
        /\ DOMAIN landed' = 1 .. (Len(landed) + 1)
        /\ landed'[Len(landed) + 1] = p
        /\ \A i \in DOMAIN landed : landed'[i] = landed[i]
    BY <1>1
  <1>3. \A q, r : Overtaken(q, r) => Overtaken(q, r)'
    <2> SUFFICES ASSUME NEW q, NEW r, Overtaken(q, r) PROVE Overtaken(q, r)'
      OBVIOUS
    <2>1. PICK i, j \in DOMAIN landed :
            landed[i] = r /\ landed[j] = q /\ i < j /\ Before(q, r)
      BY DEF Overtaken
    <2>2. i \in DOMAIN landed' /\ j \in DOMAIN landed'
      BY <1>2
    <2> QED
      BY <1>2, <2>1, <2>2 DEF Overtaken, Before
  <1>4. ASSUME NEW q \in InTable, Before(p, q) PROVE Overtaken(p, q)'
    <2>1. PICK i \in DOMAIN landed : landed[i] = q
      BY DEF InTable
    <2>2. /\ i \in DOMAIN landed' /\ Len(landed) + 1 \in DOMAIN landed'
          /\ i < Len(landed) + 1
      BY <1>2
    <2> QED
      BY <1>2, <1>4, <2>1, <2>2 DEF Overtaken, Before
  <1> QED
    BY <1>3, <1>4

\* An empty thread nobody follows.
LEMMA InitFollowInv == ReadInit => FollowInv
  BY InitReadInv DEF ReadInit, FollowInv, OnePostPerId, HasNewest, HoldingsSound,
     MarksAreShown, CountsSound, ListingDated, InTable, NoView

\* The parts of the invariant speak of nothing but the table and the reader.
LEMMA TableKept ==
  ASSUME FollowInv, UNCHANGED landed
  PROVE  /\ InTable' = InTable /\ HasNewest(InTable)'
         /\ \A p, q : Overtaken(p, q)' <=> Overtaken(p, q)
  <1>1. InTable' = InTable
    BY DEF InTable
  <1>2. HasNewest(InTable)'
    BY <1>1 DEF FollowInv, HasNewest, Before
  <1>3. \A p, q : Overtaken(p, q)' <=> Overtaken(p, q)
    BY DEF Overtaken, Before
  <1> QED
    BY <1>1, <1>2, <1>3

\* A clock, an id or a new post disturbs no reader: what lands now sorts
\* behind what a client holds, or is overtaken by it.
LEMMA PostingKeepsFollow ==
  ASSUME FollowInv, ReadInv',
         \/ Tick
         \/ \E a \in Authors, id \in Posts : Stamp(a, id)
         \/ \E p \in stamped : Land(p)
  PROVE  FollowInv'
  <1> USE DEF reading, listing
  <1>1. CASE Tick
    BY <1>1, TableKept DEF Tick, FollowInv, OnePostPerId, HoldingsSound, HasNewest,
       MarksAreShown, CountsSound, ListingDated, Before
  <1>2. ASSUME NEW a \in Authors, NEW id \in Posts, Stamp(a, id) PROVE FollowInv'
    <2>1. OnePostPerId'
      BY <1>2 DEF Stamp, FollowInv, OnePostPerId
    <2> QED
      BY <1>2, <2>1, TableKept DEF Stamp, FollowInv, HoldingsSound, HasNewest,
         MarksAreShown, CountsSound, ListingDated, Before
  <1>3. ASSUME NEW p \in stamped, Land(p) PROVE FollowInv'
    <2>1. /\ ReadTypeOK /\ InTable \subseteq stamped /\ p \notin InTable /\ p \in Post
          /\ UNCHANGED <<stamped, readAt, marking, shown, blind, view>>
          /\ landed' = Append(landed, p)
      BY <1>3 DEF Land, FollowInv, ReadInv, ReadTypeOK
    <2>2. InTable' = InTable \cup {p}
      BY <2>1, LandedGrows DEF ReadTypeOK
    <2>3. HasNewest(InTable)'
      <3>1. HasNewest(InTable \cup {p})
        BY <2>1, NewestWith DEF FollowInv
      <3> QED
        BY <2>2, <3>1 DEF HasNewest, Before
    <2>4. HoldingsSound'
      <3> SUFFICES ASSUME NEW a \in Readers
                   PROVE  /\ shown[a] \subseteq InTable'
                          /\ HasNewest(shown[a])
                          /\ \A q \in InTable' \ shown[a] : \A r \in shown[a] :
                               Before(q, r) => \E s \in shown[a] : Overtaken(q, s)'
        BY <2>1 DEF HoldingsSound, HasNewest, Before
      <3>1. shown[a] \subseteq InTable /\ HasNewest(shown[a])
        BY DEF FollowInv, HoldingsSound
      <3>2. ASSUME NEW q \in InTable' \ shown[a], NEW r \in shown[a], Before(q, r)
            PROVE  \E s \in shown[a] : Overtaken(q, s)'
        <4>1. CASE q = p
          BY <2>1, <3>1, <3>2, <4>1, OvertakenStays
        <4>2. CASE q # p
          <5>1. PICK s \in shown[a] : Overtaken(q, s)
            BY <2>2, <3>2, <4>2 DEF FollowInv, HoldingsSound
          <5> QED
            BY <2>1, <5>1, OvertakenStays
        <4> QED
          BY <4>1, <4>2
      <3> QED
        BY <2>2, <3>1, <3>2
    <2>5. OnePostPerId' /\ MarksAreShown' /\ CountsSound' /\ ListingDated'
      BY <2>1, <2>2 DEF FollowInv, OnePostPerId, MarksAreShown, CountsSound, ListingDated
    <2> QED
      BY <2>3, <2>4, <2>5 DEF FollowInv
  <1> QED
    BY <1>1, <1>2, <1>3

\* Listing shows posts of the table, all before the newest that were not
\* overtaken; a mark names what was shown.
LEMMA MarkingKeepsFollow ==
  ASSUME FollowInv, ReadInv', NEW a \in Readers,
         \/ ListAll(a) \/ ListAfter(a) \/ MarkNow(a)
         \/ \E p \in shown[a] : MarkShown(a, p)
         \/ \E at \in marking[a] : MarkRead(a, at)
  PROVE  FollowInv'
  <1> USE DEF listing
  <1>1. ASSUME NEW held \in SUBSET InTable, shown[a] \subseteq held, HasNewest(held),
               \A p \in InTable \ held : \A q \in held :
                 Before(p, q) => \E r \in held : Overtaken(p, r),
               shown' = [shown EXCEPT ![a] = held],
               UNCHANGED <<clock, stamped, landed, readAt, marking, blind, listing>>
        PROVE  FollowInv'
    <2>1. shown'[a] = held /\ \A b \in Readers : b # a => shown'[b] = shown[b]
      BY <1>1 DEF FollowInv, ReadInv, ReadTypeOK
    <2>2. HoldingsSound'
      <3> SUFFICES ASSUME NEW b \in Readers
                   PROVE  /\ shown'[b] \subseteq InTable
                          /\ HasNewest(shown'[b])
                          /\ \A p \in InTable \ shown'[b] : \A q \in shown'[b] :
                               Before(p, q) => \E r \in shown'[b] : Overtaken(p, r)
        BY <1>1, TableKept DEF HoldingsSound, HasNewest, Before
      <3> QED
        BY <1>1, <2>1 DEF FollowInv, HoldingsSound
    <2>3. MarksAreShown'
      BY <1>1, <2>1 DEF FollowInv, MarksAreShown
    <2> QED
      BY <1>1, <2>2, <2>3, TableKept DEF FollowInv, OnePostPerId, CountsSound, ListingDated
  <1>2. CASE ListAll(a)
    <2>1. shown[a] \subseteq InTable /\ HasNewest(InTable)
      BY DEF FollowInv, HoldingsSound
    <2> QED
      BY <1>1, <1>2, <2>1 DEF ListAll
  <1>3. CASE ListAfter(a)
    <2>1. shown[a] # {}
      BY <1>3 DEF ListAfter
    <2>2. /\ shown[a] \subseteq Followed(a) /\ Followed(a) \subseteq InTable
          /\ HasNewest(Followed(a))
          /\ \A p \in InTable \ Followed(a) : Before(p, Newest(a))
      BY <2>1, FollowedSound
    <2>3. Newest(a) \in shown[a]
      BY <2>1, NewestHeld DEF FollowInv, HoldingsSound
    <2>4. \A p \in InTable \ Followed(a) : \E r \in Followed(a) : Overtaken(p, r)
      BY <2>2, <2>3 DEF FollowInv, HoldingsSound
    <2> QED
      BY <1>1, <1>3, <2>2, <2>4 DEF ListAfter
  <1>4. ASSUME UNCHANGED <<clock, stamped, landed, shown, listing>>, MarksAreShown'
        PROVE  FollowInv'
    BY <1>4, TableKept DEF FollowInv, OnePostPerId, HoldingsSound, HasNewest,
       CountsSound, ListingDated, Before
  <1>5. \A b \in Readers : readAt[b] \in Nat /\ marking[b] \subseteq Nat
    BY PointsTyped DEF FollowInv
  <1>6. CASE MarkNow(a)
    BY <1>4, <1>6 DEF MarkNow, FollowInv, ReadInv, ReadTypeOK, MarksAreShown
  <1>7. ASSUME NEW p \in shown[a], MarkShown(a, p) PROVE FollowInv'
    <2>1. p.at \in Nat
      BY PointsTyped DEF FollowInv, HoldingsSound
    <2>2. MarksAreShown'
      BY <1>7, <2>1 DEF MarkShown, FollowInv, ReadInv, ReadTypeOK, MarksAreShown
    <2> QED
      BY <1>4, <1>7, <2>2 DEF MarkShown
  <1>8. ASSUME NEW at \in marking[a], MarkRead(a, at) PROVE FollowInv'
    <2>1. /\ readAt'[a] \in {at, readAt[a]}
          /\ \A b \in Readers : b # a => readAt'[b] = readAt[b]
          /\ \A b \in Readers : marking'[b] \subseteq marking[b]
      BY <1>8 DEF MarkRead, FollowInv, ReadInv, ReadTypeOK
    <2>2. MarksAreShown'
      BY <1>8, <2>1 DEF MarkRead, FollowInv, MarksAreShown
    <2> QED
      BY <1>4, <1>8, <2>2 DEF MarkRead
  <1> QED
    BY <1>2, <1>3, <1>6, <1>7, <1>8

\* LatestPosts is no older than any post of the table.
LEMMA LatestIsLatest ==
  ASSUME FollowInv
  PROVE  Latest \in Nat /\ \A p \in InTable : p.at <= Latest
  <1> DEFINE newest == {p \in InTable : \A q \in InTable : q.at <= p.at}
  <1>1. \A p \in InTable : p.at \in Nat
    BY PointsTyped DEF FollowInv
  <1>2. CASE InTable = {}
    BY <1>2 DEF Latest, NewestAt, NoInstant
  <1>3. CASE InTable # {}
    <2>1. PICK m \in InTable : \A q \in InTable : q = m \/ Before(q, m)
      BY <1>3 DEF FollowInv, HasNewest
    <2>2. m \in newest
      BY <1>1, <2>1 DEF Before
    <2>3. (CHOOSE p \in newest : TRUE) \in newest
      BY <2>2
    <2>4. Latest = (CHOOSE p \in newest : TRUE).at
      BY <2>2 DEF Latest, NewestAt
    <2> QED
      BY <1>1, <2>3, <2>4
  <1> QED
    BY <1>2, <1>3

\* The newest of the posts counted is one of the table's.
LEMMA CountedIsHeld ==
  ASSUME NEW a \in Readers
  PROVE  \/ NewestAt(Unread(a)) = NoInstant
         \/ \E p \in InTable : NewestAt(Unread(a)) = p.at
  <1> DEFINE newest == {p \in Unread(a) : \A q \in Unread(a) : q.at <= p.at}
  <1>1. CASE newest = {}
    BY <1>1 DEF NewestAt
  <1>2. CASE newest # {}
    <2>1. (CHOOSE p \in newest : TRUE) \in InTable
      BY <1>2 DEF Unread
    <2> QED
      BY <1>2, <2>1 DEF NewestAt
  <1> QED
    BY <1>1, <1>2

\* The archive and the list of threads; what was counted is in the table
\* still when the thread is dated.
LEMMA ListingKeepsFollow ==
  ASSUME FollowInv, ReadInv', NEW a \in Readers,
         \/ Unarchive(a)
         \/ \E at \in Instants : Archive(a, at) \/ ArchiveAnswer(a, at)
         \/ CountUnread(a) \/ CloseList(a)
         \/ \E archivedOnes \in BOOLEAN : ListThread(a, archivedOnes)
  PROVE  FollowInv'
  <1>1. ASSUME UNCHANGED <<clock, stamped, landed, reading>>, CountsSound', ListingDated'
        PROVE  FollowInv'
    BY <1>1, TableKept DEF FollowInv, OnePostPerId, HoldingsSound, HasNewest,
       MarksAreShown, Before, reading
  <1>2. CASE \/ Unarchive(a)
             \/ \E at \in Instants : Archive(a, at) \/ ArchiveAnswer(a, at)
    BY <1>1, <1>2, TableKept DEF Unarchive, Archive, ArchiveAnswer, FollowInv,
       CountsSound, ListingDated
  <1>3. ASSUME NEW v \in View, view' = [view EXCEPT ![a] = v],
               v.unread = NoInstant \/ \E p \in InTable : v.unread = p.at,
               v.at = "listed" => v.unread <= v.last,
               UNCHANGED <<clock, stamped, landed, reading, archived, archiving>>
        PROVE  FollowInv'
    BY <1>1, <1>3, TableKept DEF FollowInv, ReadInv, ReadTypeOK, CountsSound, ListingDated
  <1>4. NoView \in View /\ NoView.unread = NoInstant /\ NoView.at = "idle"
    BY DEF NoView, View
  <1>5. CASE CountUnread(a)
    <2> DEFINE v == [NoView EXCEPT !.at = "counted", !.unread = NewestAt(Unread(a))]
    <2>1. NewestAt(Unread(a)) \in Instants \cup {NoInstant}
      BY NewestTyped DEF FollowInv, ReadInv, ReadTypeOK, Unread
    <2>2. v \in View /\ v.at = "counted" /\ v.unread = NewestAt(Unread(a))
      BY <2>1 DEF NoView, View
    <2>3. view' = [view EXCEPT ![a] = v]
      BY <1>5 DEF CountUnread
    <2> HIDE DEF v
    <2> QED
      BY <1>3, <1>5, <2>2, <2>3, CountedIsHeld DEF CountUnread
  <1>6. CASE CloseList(a)
    BY <1>3, <1>4, <1>6 DEF CloseList
  <1>7. ASSUME NEW archivedOnes \in BOOLEAN, ListThread(a, archivedOnes) PROVE FollowInv'
    <2> DEFINE v == [view[a] EXCEPT !.at = "listed", !.last = Latest]
    <2>1. Latest \in Instants \cup {NoInstant}
      BY NewestTyped DEF FollowInv, ReadInv, ReadTypeOK, Latest
    <2>2. view[a] \in View
      BY DEF FollowInv, ReadInv, ReadTypeOK
    <2>3. v \in View /\ v.unread = view[a].unread /\ v.last = Latest
      BY <2>1, <2>2 DEF View
    <2>4. v.unread = NoInstant \/ \E p \in InTable : v.unread = p.at
      BY <2>3 DEF FollowInv, CountsSound
    <2>5. v.unread <= v.last
      BY <2>3, <2>4, LatestIsLatest DEF NoInstant
    <2>6. view' = [view EXCEPT ![a] = v] \/ view' = [view EXCEPT ![a] = NoView]
      BY <1>7 DEF ListThread
    <2> HIDE DEF v
    <2> QED
      BY <1>3, <1>4, <1>7, <2>3, <2>4, <2>5, <2>6 DEF ListThread
  <1> QED
    BY <1>2, <1>5, <1>6, <1>7

\* Every step keeps what following relies on.
LEMMA NextFollowInv == FollowInv /\ [ReadNext]_readVars => FollowInv'
  <1> SUFFICES ASSUME FollowInv, [ReadNext]_readVars PROVE FollowInv'
    OBVIOUS
  <1>1. ReadInv'
    BY NextReadInv DEF FollowInv
  <1>2. CASE ReadNext
    BY <1>1, <1>2, PostingKeepsFollow, MarkingKeepsFollow, ListingKeepsFollow DEF ReadNext
  <1>3. CASE UNCHANGED readVars
    BY <1>1, <1>3, TableKept DEF readVars, reading, listing, FollowInv, OnePostPerId,
       HoldingsSound, HasNewest, MarksAreShown, CountsSound, ListingDated, Before
  <1> QED
    BY <1>2, <1>3

\* What a client holds, has been shown and is counted stays explained by the
\* table, in every step.
THEOREM FollowInvariance == ReadSpec => []FollowInv
  BY InitFollowInv, NextFollowInv, PTL DEF ReadSpec

\* A poll by the newest post loses nothing but what a post held overtook.
THEOREM PollMisses == ReadSpec => []PollMissesOnlyOvertaken
  <1>1. FollowInv => PollMissesOnlyOvertaken
    <2> SUFFICES ASSUME FollowInv, NEW a \in Readers, shown[a] # {},
                        NEW p \in InTable \ Followed(a)
                 PROVE  \E q \in Followed(a) : Overtaken(p, q)
      BY DEF PollMissesOnlyOvertaken
    <2>1. shown[a] \subseteq Followed(a) /\ Before(p, Newest(a))
      BY FollowedSound
    <2>2. Newest(a) \in shown[a]
      BY NewestHeld DEF FollowInv, HoldingsSound
    <2> QED
      BY <2>1, <2>2 DEF FollowInv, HoldingsSound
  <1> QED
    BY <1>1, FollowInvariance, PTL

\* To whoever marks by posts shown, what was not shown counts as unread.
THEOREM UnseenCounted == ReadSpec => []UnseenIsUnread
  <1>1. FollowInv => UnseenIsUnread
    <2> SUFFICES ASSUME FollowInv, NEW a \in Readers \ blind,
                        NEW p \in InTable \ shown[a],
                        p.author # a, p \notin Unread(a)
                 PROVE  \E q \in shown[a] : Overtaken(p, q) \/ p.at = q.at
      BY DEF UnseenIsUnread
    <2>1. readAt[a] \in Nat /\ \A q \in InTable : q.at \in Nat
      BY PointsTyped DEF FollowInv
    <2>2. p.at <= readAt[a]
      BY <2>1 DEF Unread
    <2>3. readAt[a] # NoInstant
      <3>1. p \in Post
        BY DEF FollowInv, ReadInv, ReadTypeOK
      <3> QED
        BY <2>1, <2>2, <3>1 DEF Post, Instants, NoInstant
    <2>4. PICK q \in shown[a] : readAt[a] <= q.at
      BY <2>3 DEF FollowInv, MarksAreShown
    <2>5. q \in InTable
      BY DEF FollowInv, HoldingsSound
    <2>6. p.at = q.at \/ Before(p, q)
      BY <2>1, <2>2, <2>4, <2>5 DEF Before
    <2> QED
      BY <2>6 DEF FollowInv, HoldingsSound
  <1> QED
    BY <1>1, FollowInvariance, PTL

\* A thread with unread posts bears a date no older than theirs.
THEOREM ThreadsDated == ReadSpec => []ListingDated
  BY FollowInvariance, PTL DEF FollowInv
=============================================================================
