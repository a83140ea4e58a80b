---------------------------- MODULE ChatThreads ----------------------------
(***************************************************************************)
(* The threads of one structure's room: minting under a topic, opening to  *)
(* the group, declining, and posting.                                      *)
(*                                                                         *)
(* Every actor runs one call at a time against a shared database; a call   *)
(* is cut into the statements it sends, so the calls of different actors   *)
(* interleave between statements.  A call that runs in a transaction takes *)
(* its effect in the step that commits it: its row locks and unique        *)
(* indexes make a competing writer wait for that commit.                   *)
(*                                                                         *)
(* A tag path is the label's own path, or that path put aside under the    *)
(* suffix of the thread's own id.  A suffixed path is nobody else's, so a  *)
(* path is the pair of the label and whether it was put aside.             *)
(***************************************************************************)
EXTENDS Naturals, FiniteSets

CONSTANTS
  Actors,       \* who belongs to the structure: the callers
  Labels,       \* the topics, each standing for one tag path
  Threads,      \* the thread ids that can be minted
  Muted,        \* the actors who muted the chat category
  NoActor,      \* the empty requested_by
  NoThread,     \* no row found
  NoLabel,      \* the label of an idle call
  MaxHandovers  \* bound: how often the host may change who leads

ASSUME NoActorAssumption == NoActor \notin Actors
ASSUME NoThreadAssumption == NoThread \notin Threads
ASSUME NoLabelAssumption == NoLabel \notin Labels
ASSUME MutedAssumption == Muted \subseteq Actors
ASSUME HandoversAssumption == MaxHandovers \in Nat

VARIABLES
  thread,       \* the chat_thread rows, by id
  authors,      \* thread -> who has a post in it
  toldRequest,  \* thread -> who got a thread_requested notification
  toldDecline,  \* thread -> how many thread_declined notifications went out
  leads,        \* whom the host's Leading confirms just now
  everLed,      \* whom it ever confirmed (history)
  handovers,    \* how often the host changed its mind
  answers,      \* actor -> the threads a start made as a member answered
  op            \* actor -> the call in flight

db == <<thread, authors, toldRequest, toldDecline>>
host == <<leads, everLed, handovers>>
vars == <<thread, authors, toldRequest, toldDecline, leads, everLed,
          handovers, answers, op>>

-----------------------------------------------------------------------------
(* Rows and the predicates of models.ChatThread.                           *)

ThreadRow == [audience: {"unminted", "leads", "group"},
              label: Labels \cup {NoLabel},
              aside: BOOLEAN,
              requestedBy: Actors \cup {NoActor},
              declined: BOOLEAN]

Unminted == [audience |-> "unminted", label |-> NoLabel, aside |-> FALSE,
             requestedBy |-> NoActor, declined |-> FALSE]

Minted(t) == thread[t].audience # "unminted"

Declinable(t) == /\ ~thread[t].declined
                 /\ thread[t].audience = "leads"
                 /\ thread[t].requestedBy # NoActor

ReadableBy(t, a, isLead) == \/ thread[t].audience = "group"
                            \/ /\ thread[t].audience = "leads"
                               /\ isLead \/ thread[t].requestedBy = a

\* The thread at a label's own path, the only path ResolveThread is asked for.
AtOwnPath(l) == {t \in Threads : /\ Minted(t)
                                 /\ thread[t].label = l
                                 /\ ~thread[t].aside}

ResolveThread(l) == IF AtOwnPath(l) = {} THEN NoThread
                    ELSE CHOOSE t \in AtOwnPath(l) : TRUE

LeadsToTell(a) == leads \ {a}

-----------------------------------------------------------------------------
(* The calls in flight.                                                    *)

Points == {"idle", "startInsert", "startRescue", "requestInsert", "openWrite",
           "declineRead", "declineWrite", "postCheck", "postInsert"}

Call == [at: Points, label: Labels \cup {NoLabel},
         thread: Threads \cup {NoThread}, aside: BOOLEAN, tell: SUBSET Actors]

Idle == [at |-> "idle", label |-> NoLabel, thread |-> NoThread,
         aside |-> FALSE, tell |-> {}]

Starting(point, l, aside, tell) ==
  [Idle EXCEPT !.at = point, !.label = l, !.aside = aside, !.tell = tell]

On(point, t) == [Idle EXCEPT !.at = point, !.thread = t]

\* Bound: an id remains for every start in flight and one more.
IdsLeft ==
  Cardinality({a \in Actors : op[a].at \in {"startInsert", "requestInsert"}})
    < Cardinality({t \in Threads : ~Minted(t)})

Goto(a, call) == op' = [op EXCEPT ![a] = call]
Return(a) == Goto(a, Idle)

-----------------------------------------------------------------------------
TypeOK ==
  /\ thread \in [Threads -> ThreadRow]
  /\ authors \in [Threads -> SUBSET Actors]
  /\ toldRequest \in [Threads -> SUBSET Actors]
  /\ toldDecline \in [Threads -> Nat]
  /\ leads \in SUBSET Actors
  /\ everLed \in SUBSET Actors
  /\ handovers \in Nat
  /\ answers \in [Actors -> SUBSET Threads]
  /\ op \in [Actors -> Call]

Init ==
  /\ thread = [t \in Threads |-> Unminted]
  /\ authors = [t \in Threads |-> {}]
  /\ toldRequest = [t \in Threads |-> {}]
  /\ toldDecline = [t \in Threads |-> 0]
  /\ leads \in SUBSET Actors
  /\ everLed = leads
  /\ handovers = 0
  /\ answers = [a \in Actors |-> {}]
  /\ op = [a \in Actors |-> Idle]

-----------------------------------------------------------------------------
(* StartChatThreadFor by a lead: StartThread, statement by statement.      *)

\* The fence, then the first ResolveThread.  A lead reuses whatever thread
\* holds the path unless it is declined.
StartResolve(a, l) ==
  /\ op[a].at = "idle"
  /\ a \in leads
  /\ LET found == ResolveThread(l)
         taken == found # NoThread
     IN  /\ taken => thread[found].declined
         /\ Goto(a, Starting("startInsert", l, taken, {}))
  /\ UNCHANGED <<db, host, answers>>

MintRow(l, aside, requester) ==
  [audience |-> "leads", label |-> l, aside |-> aside,
   requestedBy |-> requester, declined |-> FALSE]

\* The unique index on (structure_id, tag_path) refuses the insert.
PathTaken(call) == ~call.aside /\ AtOwnPath(call.label) # {}

StartInsert(a, t) ==
  /\ op[a].at = "startInsert"
  /\ ~Minted(t)
  /\ ~PathTaken(op[a])
  /\ thread' = [thread EXCEPT ![t] = MintRow(op[a].label, op[a].aside, NoActor)]
  /\ Return(a)
  /\ UNCHANGED <<authors, toldRequest, toldDecline, host, answers>>

StartConflict(a) ==
  /\ op[a].at = "startInsert"
  /\ PathTaken(op[a])
  /\ Goto(a, [op[a] EXCEPT !.at = "startRescue"])
  /\ UNCHANGED <<db, host, answers>>

\* The second ResolveThread: the call answers the winner's thread, or the
\* conflict if that one is gone from the path by now.  No row changes.
StartRescue(a) ==
  /\ op[a].at = "startRescue"
  /\ Return(a)
  /\ UNCHANGED <<db, host, answers>>

-----------------------------------------------------------------------------
(* StartChatThreadFor by a member: startRequested, one transaction.        *)

\* Mutant: whatever holds the path is answered, readable or not.
Reusable_Unread(t, a) == ~thread[t].declined

\* What mintUnlessReusable lets a member's start answer with.
Reusable(t, a) == ~thread[t].declined /\ ReadableBy(t, a, FALSE)

Answer(a, t) == answers' = [answers EXCEPT ![a] = @ \cup {t}]

\* leadsToTell, then the transaction's first ResolveThread.
RequestResolve(a, l) ==
  /\ op[a].at = "idle"
  /\ a \notin leads
  /\ LET found == ResolveThread(l)
         taken == found # NoThread
     IN  IF taken /\ Reusable(found, a)
         THEN Answer(a, found) /\ UNCHANGED op
         ELSE /\ Goto(a, Starting("requestInsert", l, taken, LeadsToTell(a)))
              /\ UNCHANGED answers
  /\ UNCHANGED <<db, host>>

\* The insert, raiseEach over the leads, and the commit.  A muted lead is
\* skipped.
RequestCommit(a, t) ==
  /\ op[a].at = "requestInsert"
  /\ ~Minted(t)
  /\ ~PathTaken(op[a])
  /\ thread' = [thread EXCEPT ![t] = MintRow(op[a].label, op[a].aside, a)]
  /\ toldRequest' = [toldRequest EXCEPT ![t] = op[a].tell \ Muted]
  /\ Answer(a, t)
  /\ Return(a)
  /\ UNCHANGED <<authors, toldDecline, host>>

\* The insert is refused.  Postgres has aborted the transaction, so the
\* second ResolveThread fails and the call with it; a store that guards the
\* insert with a savepoint would let that read answer the winner's thread.
RequestConflict(a) ==
  /\ op[a].at = "requestInsert"
  /\ PathTaken(op[a])
  /\ LET winner == ResolveThread(op[a].label)
     IN  \/ Reusable(winner, a) /\ Answer(a, winner)
         \/ UNCHANGED answers
  /\ Return(a)
  /\ UNCHANGED <<db, host>>

\* Some statement of the transaction fails: the thread and every
\* notification raised with it are rolled back together.
RequestRollback(a) ==
  /\ op[a].at = "requestInsert"
  /\ Return(a)
  /\ UNCHANGED <<db, host, answers>>

-----------------------------------------------------------------------------
(* MintThread: the host's own, already the group's.  Its statements are    *)
(* StartThread's; only the insert changes a row, and it succeeds when no   *)
(* thread holds the path, so the call is the step of that insert.          *)

MintThread(l, t) ==
  /\ IdsLeft
  /\ ~Minted(t)
  /\ AtOwnPath(l) = {}
  /\ thread' = [thread EXCEPT ![t] = [MintRow(l, FALSE, NoActor)
                                        EXCEPT !.audience = "group"]]
  /\ UNCHANGED <<authors, toldRequest, toldDecline, host, answers, op>>

-----------------------------------------------------------------------------
(* OpenChatThreadFor: the fence and the read, then an update that looks at  *)
(* neither the audience nor the decline.                                    *)

OpenRead(a, t) ==
  /\ op[a].at = "idle"
  /\ a \in leads
  /\ thread[t].audience = "leads"
  /\ Goto(a, On("openWrite", t))
  /\ UNCHANGED <<db, host, answers>>

OpenWrite(a) ==
  /\ op[a].at = "openWrite"
  /\ thread' = [thread EXCEPT
                   ![op[a].thread] = [@ EXCEPT !.audience = "group",
                                               !.declined = FALSE]]
  /\ Return(a)
  /\ UNCHANGED <<authors, toldRequest, toldDecline, host, answers>>

-----------------------------------------------------------------------------
(* DeclineChatThreadFor: the fence, then one transaction around            *)
(* DeclineThread and the notification.                                     *)

DeclineFence(a, t) ==
  /\ op[a].at = "idle"
  /\ a \in leads
  /\ Minted(t)
  /\ Goto(a, On("declineRead", t))
  /\ UNCHANGED <<db, host, answers>>

\* Mutant: the thread is not looked at again when the update is retried.
DeclineRead_Blind(a) ==
  /\ op[a].at = "declineRead"
  /\ Goto(a, [op[a] EXCEPT !.at = "declineWrite"])
  /\ UNCHANGED <<db, host, answers>>

\* A declined thread is answered as it is, one that cannot be declined is
\* refused; either way the call is over.
DeclineRead(a) ==
  /\ op[a].at = "declineRead"
  /\ Goto(a, IF Declinable(op[a].thread)
             THEN [op[a] EXCEPT !.at = "declineWrite"] ELSE Idle)
  /\ UNCHANGED <<db, host, answers>>

\* The decline of thread t by a, once its update has matched the row.
Decline(a, t, asidePath) ==
  LET asker == thread[t].requestedBy
  IN  /\ thread' = [thread EXCEPT ![t] = [@ EXCEPT !.declined = TRUE,
                                                   !.aside = asidePath]]
      /\ toldDecline' = [toldDecline EXCEPT
                           ![t] = IF asker \in Muted \cup {a} THEN @ ELSE @ + 1]
      /\ Return(a)
      /\ UNCHANGED <<authors, toldRequest, host, answers>>

\* Mutant: the decline leaves the tag path where it is.
DeclineCommit_KeepsPath(a) ==
  LET t == op[a].thread
  IN  /\ op[a].at = "declineWrite"
      /\ thread[t].audience = "leads"
      /\ ~thread[t].declined
      /\ Decline(a, t, thread[t].aside)

\* Mutant: the update does not ask whether the thread is still the leads'.
DeclineCommit_OpenedToo(a) ==
  LET t == op[a].thread
  IN  /\ op[a].at = "declineWrite"
      /\ ~thread[t].declined
      /\ Decline(a, t, TRUE)

\* The conditional update matched: the thread is declined, its path put
\* aside, and its requester told unless the requester is the caller.
DeclineCommit(a) ==
  LET t == op[a].thread
  IN  /\ op[a].at = "declineWrite"
      /\ thread[t].audience = "leads"
      /\ ~thread[t].declined
      /\ Decline(a, t, TRUE)

\* The update matched no row: DeclineThread calls itself and reads again.
DeclineAgain(a) ==
  LET t == op[a].thread
  IN  /\ op[a].at = "declineWrite"
      /\ thread[t].audience # "leads" \/ thread[t].declined
      /\ Goto(a, On("declineRead", t))
      /\ UNCHANGED <<db, host, answers>>

\* Mutant: the requester was told outside the transaction.
DeclineRollback_ToldAnyway(a) ==
  LET t == op[a].thread
  IN  /\ op[a].at = "declineWrite"
      /\ toldDecline' = [toldDecline EXCEPT ![t] =
                           @ + IF thread[t].requestedBy \in Muted \cup {a, NoActor}
                                 THEN 0 ELSE 1]
      /\ Return(a)
      /\ UNCHANGED <<thread, toldRequest, authors, host, answers>>

\* The Recipients hook or the raise fails: the decline is rolled back.
DeclineRollback(a) ==
  /\ op[a].at = "declineWrite"
  /\ Return(a)
  /\ UNCHANGED <<db, host, answers>>

-----------------------------------------------------------------------------
(* PostChatMessageFor: the fence reads the thread, the decline check reads  *)
(* it again, and the insert asks nothing.                                   *)

PostFence(a, t) ==
  /\ op[a].at = "idle"
  /\ ReadableBy(t, a, a \in leads)
  /\ Goto(a, On("postCheck", t))
  /\ UNCHANGED <<db, host, answers>>

PostCheck(a) ==
  /\ op[a].at = "postCheck"
  /\ Goto(a, IF thread[op[a].thread].declined THEN Idle
             ELSE [op[a] EXCEPT !.at = "postInsert"])
  /\ UNCHANGED <<db, host, answers>>

PostInsert(a) ==
  /\ op[a].at = "postInsert"
  /\ authors' = [authors EXCEPT ![op[a].thread] = @ \cup {a}]
  /\ Return(a)
  /\ UNCHANGED <<thread, toldRequest, toldDecline, host, answers>>

-----------------------------------------------------------------------------
(* The host's Leading changes its answer: a lead is named or stands down.   *)

Handover ==
  /\ handovers < MaxHandovers
  /\ handovers' = handovers + 1
  /\ \E named \in SUBSET Actors :
       /\ leads' = named
       /\ everLed' = everLed \cup named
  /\ UNCHANGED <<db, answers, op>>

-----------------------------------------------------------------------------
Begin(a) ==
  \/ IdsLeft /\ \E l \in Labels : StartResolve(a, l) \/ RequestResolve(a, l)
  \/ \E t \in Threads : OpenRead(a, t) \/ DeclineFence(a, t) \/ PostFence(a, t)

\* One statement of a call already begun, by the server that runs it.
Continue(a) ==
  \/ \E t \in Threads : StartInsert(a, t) \/ RequestCommit(a, t)
  \/ StartConflict(a) \/ StartRescue(a)
  \/ RequestConflict(a) \/ RequestRollback(a)
  \/ OpenWrite(a)
  \/ DeclineRead(a) \/ DeclineCommit(a) \/ DeclineAgain(a) \/ DeclineRollback(a)
  \/ PostCheck(a) \/ PostInsert(a)

Next ==
  \/ \E a \in Actors : Begin(a) \/ Continue(a)
  \/ \E l \in Labels, t \in Threads : MintThread(l, t)
  \/ Handover

Spec == Init /\ [][Next]_vars

\* A server runs the statements of a call one after another and never
\* stops between two of them; nobody is obliged to make a call.
FairSpec == Spec /\ \A a \in Actors : WF_vars(Continue(a))

-----------------------------------------------------------------------------
(* Safety.                                                                 *)

\* A declined thread is one that somebody asked for, still with the leads,
\* and its label's own path is free for the next start: no order of an open,
\* two declines and a start leaves a declined thread open to the group or
\* holding the path (the guards of DeclineThread's update, OpenThread's).
DeclinedStaysAside ==
  \A t \in Threads : thread[t].declined =>
    /\ thread[t].audience = "leads"
    /\ thread[t].requestedBy # NoActor
    /\ thread[t].aside

\* A requester is told of a decline at most once, however many leads decline
\* at the same time, and only of a decline that was committed.
ToldOfDeclineOnce ==
  \A t \in Threads :
    /\ toldDecline[t] <= 1
    /\ toldDecline[t] > 0 => thread[t].aside /\ thread[t].requestedBy # NoActor

\* The thread and its thread_requested notifications commit together: a
\* notification names a thread that exists, and never goes to its requester
\* or to somebody who did not lead (startRequested, leadsToTell).
ToldOfRealRequests ==
  \A t \in Threads : toldRequest[t] # {} =>
    /\ thread[t].requestedBy # NoActor
    /\ toldRequest[t] \subseteq everLed \ {thread[t].requestedBy}

\* The notices of requests and of declines tell the truth, once.
ToldTruly == ToldOfRealRequests /\ ToldOfDeclineOnce

\* Starting never reveals a thread: what a member's start answered is a thread
\* that member may read without leading, then and ever after.
StartNeverReveals ==
  \A a \in Actors : \A t \in answers[a] : ReadableBy(t, a, FALSE)

\* Who has a post in a thread could read it: as its requester, as a lead of
\* some time, or because it is the group's.
PostersCouldRead ==
  \A t \in Threads : \A a \in authors[t] : ReadableBy(t, a, a \in everLed)

-----------------------------------------------------------------------------
(* Action properties.                                                      *)

\* What the group was given stays the group's: no step, a decline that read
\* the thread before it was opened included, takes it back.
NeverTakenBack ==
  [][\A t \in Threads : thread[t].audience = "group" =>
       thread'[t].audience = "group" /\ ~thread'[t].declined]_vars

-----------------------------------------------------------------------------
(* Liveness.                                                               *)

\* Every call ends: in particular DeclineThread, which calls itself when its
\* update matches no row, does not go round for ever.
CallsReturn == \A a \in Actors : op[a].at # "idle" ~> op[a].at = "idle"
=============================================================================
