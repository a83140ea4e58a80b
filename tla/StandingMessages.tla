-------------------------- MODULE StandingMessages --------------------------
(***************************************************************************)
(* Standing messages: set up and stopped by the room's leads, and sent by  *)
(* the hosts' own ticks.  Several hosts call SendDueStandingMessages on    *)
(* one database, each with its own clock; a tick lists the running         *)
(* messages once and then works from that list, message by message, so     *)
(* what it acts on may be stale.  The claim and the post of one message    *)
(* are one transaction whose UPDATE holds the row: a single step.          *)
(*                                                                         *)
(* Instants are natural numbers; 0 stands for a last_sent_at that is null. *)
(* The occurrences of a schedule are given: they are what recur finds      *)
(* between starts_at and ends_at.                                          *)
(***************************************************************************)
EXTENDS Naturals, Sequences

CONSTANTS
  Messages,      \* the standing messages that can be set up
  Occurrences,   \* message -> the instants its schedule names
  Threads,       \* the threads a standing message can be aimed at
  ThreadOf,      \* message -> its thread, or NoThread for the whole room
  Leads,         \* whom the host's Leading confirms
  Hosts,         \* the processes whose timer ticks
  NoThread,
  NoActor,       \* the empty stopped_by
  MaxTime,       \* bound: the last instant a clock reaches
  MaxSetbacks    \* bound: how many posts fail or hosts crash

Unsent == 0

ASSUME OccurrencesAssumption == Occurrences \in [Messages -> SUBSET (Nat \ {Unsent})]
ASSUME NoThreadAssumption == NoThread \notin Threads
ASSUME ThreadOfAssumption == ThreadOf \in [Messages -> Threads \cup {NoThread}]
ASSUME NoActorAssumption == NoActor \notin Leads
ASSUME MaxTimeAssumption == MaxTime \in Nat
ASSUME MaxSetbacksAssumption == MaxSetbacks \in Nat

VARIABLES
  row,        \* the standing_message rows
  sent,       \* message -> the occurrences posted to its group, in order
  declined,   \* the threads the leads have declined
  stopping,   \* lead -> the message whose stop passed the fence
  stops,      \* message -> how many stops answered success (history)
  clock,      \* host -> its own clock
  tick,       \* host -> the SendDueStandingMessages call in flight
  setbacks    \* how many posts failed or hosts crashed

vars == <<row, sent, declined, stopping, stops, clock, tick, setbacks>>

-----------------------------------------------------------------------------
Row == [created: BOOLEAN, lastSentAt: Nat, stoppedBy: Leads \cup {NoActor}]

NotSetUp == [created |-> FALSE, lastSentAt |-> Unsent, stoppedBy |-> NoActor]

Running(m) == row[m].created /\ row[m].stoppedBy = NoActor

\* One call: the argument now, the running messages still to try, and the
\* last_sent_at each was listed with.
Tick == [busy: BOOLEAN, now: Nat, todo: SUBSET Messages,
         seen: [Messages -> Nat]]

NoTick == [busy |-> FALSE, now |-> 0, todo |-> {},
           seen |-> [m \in Messages |-> Unsent]]

TypeOK ==
  /\ row \in [Messages -> Row]
  /\ \A m \in Messages : row[m].lastSentAt \in Occurrences[m] \cup {Unsent}
  /\ sent \in [Messages -> Seq(Nat)]
  /\ declined \subseteq Threads
  /\ stopping \in [Leads -> SUBSET Messages]
  /\ stops \in [Messages -> Nat]
  /\ clock \in [Hosts -> Nat]
  /\ tick \in [Hosts -> Tick]
  /\ setbacks \in Nat

Init ==
  /\ row = [m \in Messages |-> NotSetUp]
  /\ sent = [m \in Messages |-> <<>>]
  /\ declined = {}
  /\ stopping = [a \in Leads |-> {}]
  /\ stops = [m \in Messages |-> 0]
  /\ clock = [h \in Hosts |-> 0]
  /\ tick = [h \in Hosts |-> NoTick]
  /\ setbacks = 0

-----------------------------------------------------------------------------
(* The leads' calls.                                                       *)

\* CreateStandingMessageFor: asLead, the thread's fence (a lead reads every
\* thread of the room, a declined one too), the insert.
CreateStanding(m) ==
  /\ Leads # {}
  /\ ~row[m].created
  /\ row' = [row EXCEPT ![m].created = TRUE]
  /\ UNCHANGED <<sent, declined, stopping, stops, clock, tick, setbacks>>

\* StopStandingMessageFor up to the store: asLead and the fenced read.
StopFence(a, m) ==
  /\ stopping[a] = {}
  /\ row[m].created
  /\ stopping' = [stopping EXCEPT ![a] = {m}]
  /\ UNCHANGED <<row, sent, declined, stops, clock, tick, setbacks>>

\* StopStanding: the update takes only a row not stopped yet, and a caller
\* whose update took no row is answered ErrStandingStopped.
StopStanding(a, m) ==
  /\ m \in stopping[a]
  /\ stopping' = [stopping EXCEPT ![a] = {}]
  /\ IF row[m].stoppedBy = NoActor
     THEN /\ row' = [row EXCEPT ![m].stoppedBy = a]
          /\ stops' = [stops EXCEPT ![m] = @ + 1]
     ELSE UNCHANGED <<row, stops>>
  /\ UNCHANGED <<sent, declined, clock, tick, setbacks>>

\* A lead declines a thread the room's standing messages may be aimed at.
DeclineThread(t) ==
  /\ Leads # {}
  /\ t \notin declined
  /\ declined' = declined \cup {t}
  /\ UNCHANGED <<row, sent, stopping, stops, clock, tick, setbacks>>

-----------------------------------------------------------------------------
(* One tick of one host.                                                   *)

Advance(h) ==
  /\ clock[h] < MaxTime
  /\ clock' = [clock EXCEPT ![h] = @ + 1]
  /\ UNCHANGED <<row, sent, declined, stopping, stops, tick, setbacks>>

\* The query for what is running, and the host's now.
ListRunning(h) ==
  /\ ~tick[h].busy
  /\ tick' = [tick EXCEPT ![h] =
                [busy |-> TRUE, now |-> clock[h],
                 todo |-> {m \in Messages : Running(m)},
                 seen |-> [m \in Messages |-> IF Running(m)
                                              THEN row[m].lastSentAt
                                              ELSE Unsent]]]
  /\ UNCHANGED <<row, sent, declined, stopping, stops, clock, setbacks>>

\* What falls after the listed last_sent_at and by now, now included.
Due(h, m) == {o \in Occurrences[m] : /\ tick[h].seen[m] < o
                                     /\ o <= tick[h].now}

\* Mutant: the earliest occurrence due goes out, a backlog one by one.
Chosen_First(h, m) ==
  CHOOSE o \in Due(h, m) : \A p \in Due(h, m) : o <= p

\* The latest of what is due.
Chosen(h, m) == CHOOSE o \in Due(h, m) : \A p \in Due(h, m) : p <= o

\* Mutant: the claim does not compare last_sent_at.
Claims_AnyRow(h, m) == row[m].stoppedBy = NoActor

\* claimOccurrence's WHERE: the compare-and-swap matches the row.
Claims(h, m) == /\ row[m].stoppedBy = NoActor
                /\ row[m].lastSentAt = tick[h].seen[m]

\* m is dealt with, the tick goes on to the next.
Tried(h, m) == tick' = [tick EXCEPT ![h].todo = @ \ {m}]

SkipNotDue(h, m) ==
  /\ m \in tick[h].todo
  /\ Due(h, m) = {}
  /\ Tried(h, m)
  /\ UNCHANGED <<row, sent, declined, stopping, stops, clock, setbacks>>

\* The transaction: the claim, and the post if it matched.
SendDue(h, m) ==
  /\ m \in tick[h].todo
  /\ Due(h, m) # {}
  /\ Claims(h, m)
  /\ row' = [row EXCEPT ![m].lastSentAt = Chosen(h, m)]
  /\ sent' = [sent EXCEPT ![m] = Append(@, Chosen(h, m))]
  /\ Tried(h, m)
  /\ UNCHANGED <<declined, stopping, stops, clock, setbacks>>

LoseClaim(h, m) ==
  /\ m \in tick[h].todo
  /\ Due(h, m) # {}
  /\ ~Claims(h, m)
  /\ Tried(h, m)
  /\ UNCHANGED <<row, sent, declined, stopping, stops, clock, setbacks>>

\* Mutant: the claim committed on its own before the post.
FailPost_KeepsClaim(h, m) ==
  /\ m \in tick[h].todo
  /\ Due(h, m) # {}
  /\ setbacks < MaxSetbacks
  /\ setbacks' = setbacks + 1
  /\ row' = IF Claims(h, m) THEN [row EXCEPT ![m].lastSentAt = Chosen(h, m)]
            ELSE row
  /\ Tried(h, m)
  /\ UNCHANGED <<sent, declined, stopping, stops, clock>>

\* The claim or the post fails: the transaction rolls back, the failure is
\* kept for the joined error and the tick goes on.
FailPost(h, m) ==
  /\ m \in tick[h].todo
  /\ Due(h, m) # {}
  /\ setbacks < MaxSetbacks
  /\ setbacks' = setbacks + 1
  /\ Tried(h, m)
  /\ UNCHANGED <<row, sent, declined, stopping, stops, clock>>

Return(h) ==
  /\ tick[h].busy
  /\ tick[h].todo = {}
  /\ tick' = [tick EXCEPT ![h] = NoTick]
  /\ UNCHANGED <<row, sent, declined, stopping, stops, clock, setbacks>>

\* The host dies; what its open transaction did is rolled back.
Crash(h) ==
  /\ tick[h].busy
  /\ setbacks < MaxSetbacks
  /\ setbacks' = setbacks + 1
  /\ tick' = [tick EXCEPT ![h] = NoTick]
  /\ UNCHANGED <<row, sent, declined, stopping, stops, clock>>

-----------------------------------------------------------------------------
LeadStep == \/ \E m \in Messages : CreateStanding(m)
            \/ \E a \in Leads, m \in Messages : StopFence(a, m)
            \/ \E a \in Leads, m \in Messages : StopStanding(a, m)
            \/ \E t \in Threads : DeclineThread(t)

HostStep(h) == \/ ListRunning(h)
               \/ \E m \in Messages : SkipNotDue(h, m)
               \/ \E m \in Messages : SendDue(h, m)
               \/ \E m \in Messages : LoseClaim(h, m)
               \/ Return(h)

Setback(h) == \/ \E m \in Messages : FailPost(h, m)
              \/ Crash(h)

Next == \/ LeadStep
        \/ \E h \in Hosts : Advance(h) \/ HostStep(h) \/ Setback(h)

Spec == Init /\ [][Next]_vars

\* Time passes on every host, and a host's timer keeps calling and its calls
\* keep running.  Nothing is asked of the leads, of failures or of crashes.
FairSpec == /\ Spec
            /\ \A h \in Hosts : WF_vars(Advance(h)) /\ WF_vars(HostStep(h))

-----------------------------------------------------------------------------
(* No occurrence is sent twice and none after a later one, however many    *)
(* hosts tick on stale lists and skewed clocks: the compare-and-swap of    *)
(* claimOccurrence.                                                        *)
SentInOrder == \A m \in Messages : \A i, j \in DOMAIN sent[m] :
                 i < j => sent[m][i] < sent[m][j]

(* What last_sent_at records was posted, and nothing posted is missing     *)
(* from it: the claim and the post commit together or not at all.          *)
LastSentWasPosted ==
  \A m \in Messages : row[m].lastSentAt = IF sent[m] = <<>> THEN Unsent
                                          ELSE sent[m][Len(sent[m])]

(* A message is stopped by one caller only: every other stop, however late *)
(* it passed the fence, is answered ErrStandingStopped.                    *)
StoppedOnce == \A m \in Messages :
                 stops[m] = IF row[m].stoppedBy = NoActor THEN 0 ELSE 1

(* After the stop commits nothing more is posted, not even by a tick that  *)
(* had listed the message as running, and the stop is never undone.        *)
StopIsFinal ==
  [][\A m \in Messages : row[m].stoppedBy # NoActor
       => sent'[m] = sent[m] /\ row'[m].stoppedBy = row[m].stoppedBy]_vars

(* What goes out is never something a later occurrence has already made    *)
(* stale by the sender's now: a host that was down sends no backlog.       *)
SendsTheLatest ==
  [][\A h \in Hosts, m \in Messages :
       /\ tick'[h] # tick[h]
       /\ sent'[m] # sent[m]
       => \A o \in Occurrences[m] :
            o <= tick[h].now => o <= sent'[m][Len(sent'[m])]]_vars

(* An occurrence whose time has come is sent, or a later one in its place, *)
(* or the message is stopped: no failed post and no crash loses it.        *)
NothingMissed ==
  \A m \in Messages : \A o \in Occurrences[m] :
    (Running(m) /\ \E h \in Hosts : o <= clock[h])
      ~> (\/ ~Running(m)
          \/ \E i \in DOMAIN sent[m] : o <= sent[m][i])

(* The group hears each occurrence as OccurrenceLog promises.              *)
Phase == [m \in Messages |-> IF ~row[m].created THEN "absent"
                             ELSE IF row[m].stoppedBy = NoActor THEN "running"
                             ELSE "stopped"]

Log == INSTANCE OccurrenceLog WITH phase <- Phase

ImplementsLog == Log!LogSpec
=============================================================================
