----------------------------- MODULE DMMessages -----------------------------
(***************************************************************************)
(* The messages of the direct-message thread whose roster is DMRoster:     *)
(* posting, the disappearing-message timer, listing and reacting.  Reading *)
(* and reacting are fenced by the roster in one statement and done in a    *)
(* later one, and the roster moves on in between.  A post asks nobody: it  *)
(* is the host's call, and who may make it is the host's to say.           *)
(*                                                                         *)
(* Messages are never changed or deleted; one past its deadline is left    *)
(* out of the listing.                                                     *)
(***************************************************************************)
EXTENDS DMRoster

CONSTANTS
  Readers,    \* bound: who reads and reacts
  Messages,   \* bound: the message ids that can be minted
  Emoji,      \* the reactions
  NoEmoji     \* no reaction

ASSUME ReadersAssumption == Readers \subseteq Actors
ASSUME NoEmojiAssumption == NoEmoji \notin Emoji

VARIABLES
  posted,     \* the messages in the table
  expired,    \* those past their deadline
  reaction,   \* message -> actor -> the dm_reaction row's emoji, or NoEmoji
  task,       \* reader -> the call on messages in flight
  shown,      \* reader -> the messages and reactions the reader was shown
  entitled    \* reader -> the messages that were there while the reader was
              \* active, or came in during a call begun active (history)

messageVars == <<posted, expired, reaction, task, shown, entitled>>
dmVars == <<vars, messageVars>>

-----------------------------------------------------------------------------
Task == [at: {"idle", "list", "listReactions"}] \cup
        [at: {"set", "clear"}, on: Messages]

NoTask == [at |-> "idle"]

Busy(a) == task[a].at # "idle"

DMTypeOK ==
  /\ TypeOK
  /\ expired \subseteq posted /\ posted \subseteq Messages
  /\ reaction \in [Messages -> [Readers -> Emoji \cup {NoEmoji}]]
  /\ task \in [Readers -> Task]
  /\ shown \in [Readers -> SUBSET Messages]
  /\ entitled \in [Readers -> SUBSET Messages]

DMInit ==
  /\ Init
  /\ posted = {} /\ expired = {}
  /\ reaction = [m \in Messages |-> [a \in Readers |-> NoEmoji]]
  /\ task = [a \in Readers |-> NoTask]
  /\ shown = [a \in Readers |-> {}]
  /\ entitled = [a \in Readers |-> {}]

\* What came in, or was found on joining, while active or in a call.
NoteEntitled ==
  entitled' = [a \in Readers |->
                 IF roster'[a].state = "active" THEN posted'
                 ELSE IF Busy(a) THEN entitled[a] \cup (posted' \ posted)
                 ELSE entitled[a]]

-----------------------------------------------------------------------------
(* The host.                                                               *)

Post(m) ==
  /\ m \notin posted
  /\ posted' = posted \cup {m}
  /\ UNCHANGED <<vars, expired, reaction, task, shown>>
  /\ NoteEntitled

\* The clock passes created_at plus the thread's message_ttl_seconds.
Expire(m) ==
  /\ m \in posted \ expired
  /\ expired' = expired \cup {m}
  /\ UNCHANGED <<vars, posted, reaction, task, shown, entitled>>

-----------------------------------------------------------------------------
(* The readers.                                                            *)

\* Mutant: any row on the roster will do, as for reading the roster itself.
ActiveOnRoster_AnyRow(a) == OnRoster(a)

\* activeOnRoster: invited, left and kicked are not enough.
ActiveOnRoster(a) == roster[a].state = "active"

Begin(a, call) ==
  /\ ~Busy(a)
  /\ ActiveOnRoster(a)
  /\ task' = [task EXCEPT ![a] = call]
  /\ UNCHANGED <<vars, posted, expired, reaction, shown, entitled>>

\* The fence of ListDMMessagesFor and ListDMReactionsFor.
ListFence(a) == Begin(a, [at |-> "list"]) \/ Begin(a, [at |-> "listReactions"])

\* The fence of SetDMReactionFor and ClearDMReactionFor: the message is
\* looked up for its thread first, expired or not.
ReactionFence(a, m) ==
  /\ m \in posted
  /\ Begin(a, [at |-> "set", on |-> m]) \/ Begin(a, [at |-> "clear", on |-> m])

Done(a) == task' = [task EXCEPT ![a] = NoTask]

\* ListMessages: what is within its deadline by the clock read afterwards.
ListMessages(a) ==
  /\ task[a].at = "list"
  /\ shown' = [shown EXCEPT ![a] = @ \cup (posted \ expired)]
  /\ Done(a)
  /\ UNCHANGED <<vars, posted, expired, reaction, entitled>>

\* ListReactions: the thread's, on expired messages too.
ListReactions(a) ==
  /\ task[a].at = "listReactions"
  /\ shown' = [shown EXCEPT ![a] = @ \cup
                 {m \in posted : \E b \in Readers : reaction[m][b] # NoEmoji}]
  /\ Done(a)
  /\ UNCHANGED <<vars, posted, expired, reaction, entitled>>

\* The upsert on message_id and actor_id.
SetReaction(a, e) ==
  /\ task[a].at = "set"
  /\ reaction' = [reaction EXCEPT ![task[a].on][a] = e]
  /\ Done(a)
  /\ UNCHANGED <<vars, posted, expired, shown, entitled>>

\* The caller's own row goes, if there is one.
ClearReaction(a) ==
  /\ task[a].at = "clear"
  /\ reaction' = [reaction EXCEPT ![task[a].on][a] = NoEmoji]
  /\ Done(a)
  /\ UNCHANGED <<vars, posted, expired, shown, entitled>>

\* SetDMReactionFor refuses the emoji after its fence, or a statement fails.
Refuse(a) ==
  /\ Busy(a)
  /\ Done(a)
  /\ UNCHANGED <<vars, posted, expired, reaction, shown, entitled>>

-----------------------------------------------------------------------------
RosterStep ==
  /\ Next
  /\ UNCHANGED <<posted, expired, reaction, task, shown>>
  /\ NoteEntitled

ReaderStep(a) == \/ ListFence(a)
                 \/ \E m \in Messages : ReactionFence(a, m)
                 \/ ListMessages(a)
                 \/ ListReactions(a)
                 \/ \E e \in Emoji : SetReaction(a, e)
                 \/ ClearReaction(a)
                 \/ Refuse(a)

DMNext == \/ RosterStep
          \/ \E m \in Messages : Post(m) \/ Expire(m)
          \/ \E a \in Readers : ReaderStep(a)

DMSpec == DMInit /\ [][DMNext]_dmVars

-----------------------------------------------------------------------------
(* Whoever was shown a message or reacted to it was active at some time    *)
(* when it was there, or had begun that very call when active: being       *)
(* invited, gone or kicked gives nothing that came in meanwhile.           *)
ReadersWereActive ==
  \A a \in Readers : \A m \in Messages :
    m \in shown[a] \/ reaction[m][a] # NoEmoji => m \in entitled[a]
=============================================================================
