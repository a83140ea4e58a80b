----------------------- MODULE StandingMessagesProofs -----------------------
(***************************************************************************)
(* What holds of StandingMessages for every set of messages, schedules and *)
(* hosts, and that it implements OccurrenceLog.  The core is the agreement *)
(* of last_sent_at with the last post: a compare-and-swap that matches the *)
(* row then also vouches for everything sent so far.                       *)
(***************************************************************************)
EXTENDS StandingMessages, WellFoundedInduction, TLAPS

USE OccurrencesAssumption, NoActorAssumption, NoThreadAssumption,
    ThreadOfAssumption, MaxTimeAssumption, MaxSetbacksAssumption
    DEF Unsent

\* A message nobody set up has neither posts nor a stop.
NotSetUpIsClean ==
  \A m \in Messages : ~row[m].created => row[m] = NotSetUp /\ sent[m] = <<>>

\* What a tick still has to try, and what a lead is about to stop, exists.
CallsKnowRows ==
  /\ \A h \in Hosts : \A m \in tick[h].todo : row[m].created
  /\ \A a \in Leads : \A m \in stopping[a] : row[m].created

IInv ==
  /\ TypeOK
  /\ SentInOrder
  /\ LastSentWasPosted
  /\ StoppedOnce
  /\ NotSetUpIsClean
  /\ CallsKnowRows

-----------------------------------------------------------------------------
(* The latest of what is due exists: what is due lies between 0 and now.   *)

\* A set of instants up to a bound that is not empty has a latest one.
LEMMA LatestExists ==
  ASSUME NEW S \in SUBSET Nat, S # {}, NEW n \in Nat, \A o \in S : o <= n
  PROVE  \E o \in S : \A p \in S : p <= o
  <1> DEFINE T == {n - o : o \in S}
             R == OpToRel(<, Nat)
  <1>1. T \subseteq Nat /\ T # {}
    <2>1. \A o \in S : n - o \in Nat
      OBVIOUS
    <2>2. PICK o \in S : TRUE
      OBVIOUS
    <2>3. n - o \in T
      BY <2>2
    <2> QED
      BY <2>1, <2>3
  <1>2. PICK x \in T : \A y \in T : <<y, x>> \notin R
    <2> HIDE DEF T, R
    <2>1. IsWellFoundedOn(R, Nat)
      BY NatLessThanWellFounded DEF R
    <2> QED
      BY <1>1, <2>1, WFMin
  <1>3. \A y \in T : ~(y < x)
    BY <1>1, <1>2 DEF OpToRel
  <1>4. PICK o \in S : x = n - o
    OBVIOUS
  <1>5. ASSUME NEW p \in S PROVE p <= o
    <2>1. n - p \in T
      OBVIOUS
    <2>2. ~(n - p < n - o)
      BY <1>3, <1>4, <2>1
    <2> HIDE DEF T, R
    <2> QED
      BY <2>2
  <1> QED
    BY <1>5

\* The occurrence a tick picks is due, and no other one due is later.
LEMMA ChosenIsLatest ==
  ASSUME TypeOK, NEW h \in Hosts, NEW m \in Messages, Due(h, m) # {}
  PROVE  /\ Chosen(h, m) \in Occurrences[m]
         /\ Chosen(h, m) \in Nat
         /\ tick[h].seen[m] < Chosen(h, m)
         /\ \A o \in Occurrences[m] : o <= tick[h].now => o <= Chosen(h, m)
  <1>1. tick[h].now \in Nat /\ tick[h].seen[m] \in Nat
    BY DEF TypeOK, Tick
  <1>2. Due(h, m) \subseteq Nat /\ \A o \in Due(h, m) : o <= tick[h].now
    BY DEF Due
  <1>3. \E o \in Due(h, m) : \A p \in Due(h, m) : p <= o
    BY <1>1, <1>2, LatestExists
  <1>4. /\ Chosen(h, m) \in Due(h, m)
        /\ \A p \in Due(h, m) : p <= Chosen(h, m)
    BY <1>3 DEF Chosen
  <1>5. Chosen(h, m) \in Occurrences[m] /\ Chosen(h, m) \in Nat
        /\ tick[h].seen[m] < Chosen(h, m)
    BY <1>2, <1>4 DEF Due
  <1>6. ASSUME NEW o \in Occurrences[m], o <= tick[h].now
        PROVE  o <= Chosen(h, m)
    <2>1. o \in Nat
      OBVIOUS
    <2>2. CASE o <= tick[h].seen[m]
      BY <1>1, <1>5, <2>1, <2>2
    <2>3. CASE tick[h].seen[m] < o
      <3>1. o \in Due(h, m)
        BY <1>6, <2>3 DEF Due
      <3> QED
        BY <1>4, <3>1
    <2> QED
      BY <1>1, <2>1, <2>2, <2>3
  <1> QED
    BY <1>5, <1>6

-----------------------------------------------------------------------------
\* Before anything is set up the invariant holds.
LEMMA InitIInv == Init => IInv
  <1> SUFFICES ASSUME Init PROVE IInv
    OBVIOUS
  <1>1. TypeOK
    BY DEF Init, TypeOK, Row, NotSetUp, Tick, NoTick
  <1> QED
    BY <1>1 DEF Init, IInv, SentInOrder, LastSentWasPosted, StoppedOnce,
       NotSetUpIsClean, CallsKnowRows, NotSetUp, NoTick

\* A tick that is done with a message is a tick with less to do.
LEMMA TickWithout ==
  ASSUME NEW r \in Tick, NEW m
  PROVE  LET c == [r EXCEPT !.todo = @ \ {m}] IN
         c \in Tick /\ c.todo \subseteq r.todo
  BY DEF Tick

\* A step of a tick that writes no row.
LEMMA TickStep ==
  ASSUME IInv, NEW h \in Hosts, NEW c \in Tick,
         \A m \in c.todo : row[m].created,
         tick' = [tick EXCEPT ![h] = c],
         setbacks' \in Nat,
         UNCHANGED <<row, sent, declined, stopping, stops, clock>>
  PROVE  IInv'
  <1> USE DEF IInv
  <1>1. TypeOK'
    BY DEF TypeOK
  <1>2. CallsKnowRows'
    BY DEF CallsKnowRows, TypeOK
  <1> QED
    BY <1>1, <1>2 DEF SentInOrder, LastSentWasPosted, StoppedOnce,
       NotSetUpIsClean

\* The steps of a tick that end without a post.
LEMMA QuietTickSteps ==
  ASSUME IInv, NEW h \in Hosts,
         \/ ListRunning(h) \/ Return(h) \/ Crash(h)
         \/ \E m \in Messages : \/ SkipNotDue(h, m)
                                \/ LoseClaim(h, m)
                                \/ FailPost(h, m)
  PROVE  IInv'
  <1> USE DEF IInv
  <1>1. CASE ListRunning(h)
    <2> DEFINE c == [busy |-> TRUE, now |-> clock[h],
                     todo |-> {m \in Messages : Running(m)},
                     seen |-> [m \in Messages |-> IF Running(m)
                                                  THEN row[m].lastSentAt
                                                  ELSE Unsent]]
    <2>1. c \in Tick
      BY DEF TypeOK, Tick, Row
    <2>2. \A m \in c.todo : row[m].created
      BY DEF Running
    <2>3. setbacks' \in Nat
      BY <1>1 DEF ListRunning, TypeOK
    <2> QED
      BY <1>1, <2>1, <2>2, <2>3, TickStep DEF ListRunning
  <1>2. CASE Return(h) \/ Crash(h)
    <2>1. NoTick \in Tick /\ NoTick.todo = {}
      BY DEF Tick, NoTick
    <2>2. setbacks' \in Nat
      BY <1>2 DEF Return, Crash, TypeOK
    <2> QED
      BY <1>2, <2>1, <2>2, TickStep DEF Return, Crash
  <1>3. ASSUME NEW m \in Messages,
               SkipNotDue(h, m) \/ LoseClaim(h, m) \/ FailPost(h, m)
        PROVE  IInv'
    <2> DEFINE c == [tick[h] EXCEPT !.todo = @ \ {m}]
    <2>1. c \in Tick /\ \A k \in c.todo : row[k].created
      <3>1. tick[h] \in Tick
        BY DEF TypeOK
      <3>2. c \in Tick /\ c.todo \subseteq tick[h].todo
        BY <3>1, TickWithout
      <3> QED
        BY <3>2 DEF CallsKnowRows
    <2>2. setbacks' \in Nat
      BY <1>3 DEF SkipNotDue, LoseClaim, FailPost, TypeOK
    <2>3. tick' = [tick EXCEPT ![h] = c]
      BY <1>3 DEF SkipNotDue, LoseClaim, FailPost, Tried
    <2> QED
      BY <1>3, <2>1, <2>2, <2>3, TickStep DEF SkipNotDue, LoseClaim, FailPost
  <1> QED
    BY <1>1, <1>2, <1>3

-----------------------------------------------------------------------------
(* The post.                                                               *)

\* A row's last_sent_at bounds every occurrence sent.
LEMMA LastIsLatest ==
  ASSUME IInv, NEW m \in Messages
  PROVE  \A i \in DOMAIN sent[m] : sent[m][i] <= row[m].lastSentAt
  <1> SUFFICES ASSUME NEW i \in DOMAIN sent[m]
               PROVE  sent[m][i] <= row[m].lastSentAt
    OBVIOUS
  <1> USE DEF IInv
  <1>1. sent[m] \in Seq(Nat)
    BY DEF TypeOK
  <1>2. Len(sent[m]) \in DOMAIN sent[m] /\ sent[m] # <<>>
    BY <1>1
  <1>3. row[m].lastSentAt = sent[m][Len(sent[m])]
    BY <1>2 DEF LastSentWasPosted
  <1>4. CASE i = Len(sent[m])
    BY <1>1, <1>3, <1>4
  <1>5. CASE i # Len(sent[m])
    <2>1. i < Len(sent[m])
      BY <1>1, <1>5
    <2>2. sent[m][i] < sent[m][Len(sent[m])]
      BY <1>2, <2>1 DEF SentInOrder
    <2> QED
      BY <1>1, <1>2, <1>3, <2>2
  <1> QED
    BY <1>4, <1>5

\* What a claim lets out is later than everything sent before it.
LEMMA PostIsNew ==
  ASSUME IInv, NEW h \in Hosts, NEW m \in Messages, SendDue(h, m)
  PROVE  /\ Chosen(h, m) \in Occurrences[m]
         /\ Chosen(h, m) \in Nat
         /\ \A i \in DOMAIN sent[m] : sent[m][i] < Chosen(h, m)
  <1>1. /\ Chosen(h, m) \in Occurrences[m] /\ Chosen(h, m) \in Nat
        /\ row[m].lastSentAt < Chosen(h, m)
    BY ChosenIsLatest DEF IInv, SendDue, Claims
  <1>2. \A i \in DOMAIN sent[m] : sent[m][i] <= row[m].lastSentAt
    BY LastIsLatest
  <1>3. sent[m] \in Seq(Nat) /\ row[m].lastSentAt \in Nat
    BY DEF IInv, TypeOK, Row
  <1>4. ASSUME NEW i \in DOMAIN sent[m] PROVE sent[m][i] < Chosen(h, m)
    <2>1. sent[m][i] \in Nat /\ sent[m][i] <= row[m].lastSentAt
      BY <1>2, <1>3
    <2> QED
      BY <1>1, <1>3, <2>1
  <1> QED
    BY <1>1, <1>4

\* The claim and the post together keep the invariant.
LEMMA SendDueStep ==
  ASSUME IInv, NEW h \in Hosts, NEW m \in Messages, SendDue(h, m)
  PROVE  IInv'
  <1> USE DEF IInv
  <1> DEFINE o == Chosen(h, m)
  <1>1. /\ o \in Occurrences[m] /\ o \in Nat
        /\ \A i \in DOMAIN sent[m] : sent[m][i] < o
    BY PostIsNew
  <1>2. /\ row' = [row EXCEPT ![m].lastSentAt = o]
        /\ sent' = [sent EXCEPT ![m] = Append(@, o)]
        /\ tick' = [tick EXCEPT ![h].todo = @ \ {m}]
        /\ UNCHANGED <<declined, stopping, stops, clock, setbacks>>
        /\ m \in tick[h].todo
    BY DEF SendDue, Tried
  <1> HIDE DEF o
  <1>3. sent[m] \in Seq(Nat)
    BY DEF TypeOK
  <1>4. /\ Append(sent[m], o) \in Seq(Nat)
        /\ Len(Append(sent[m], o)) = Len(sent[m]) + 1
        /\ Append(sent[m], o)[Len(sent[m]) + 1] = o
        /\ \A i \in 1 .. Len(sent[m]) : Append(sent[m], o)[i] = sent[m][i]
    BY <1>1, <1>3
  <1>5. \A k \in Messages :
          /\ sent'[k] = IF k = m THEN Append(sent[m], o) ELSE sent[k]
          /\ row'[k].lastSentAt = IF k = m THEN o ELSE row[k].lastSentAt
          /\ row'[k].created = row[k].created
          /\ row'[k].stoppedBy = row[k].stoppedBy
          /\ row'[k] \in Row
    <2>1. \A k \in Messages : sent'[k] = IF k = m THEN Append(sent[m], o)
                                        ELSE sent[k]
      BY <1>2 DEF TypeOK
    <2>2. \A k \in Messages :
            row'[k] = IF k = m THEN [row[m] EXCEPT !.lastSentAt = o] ELSE row[k]
      BY <1>2 DEF TypeOK
    <2>3. \A k \in Messages : row[k] \in Row
      BY DEF TypeOK
    <2> QED
      BY <1>1, <2>1, <2>2, <2>3 DEF Row
  <1>6. TypeOK'
    <2>1. row' \in [Messages -> Row] /\ sent' \in [Messages -> Seq(Nat)]
      BY <1>2, <1>4, <1>5 DEF TypeOK
    <2>2. tick' \in [Hosts -> Tick]
      <3> DEFINE c == [tick[h] EXCEPT !.todo = @ \ {m}]
      <3>1. tick \in [Hosts -> Tick]
        BY DEF TypeOK
      <3>2. c \in Tick
        BY <3>1, TickWithout
      <3>3. tick' = [tick EXCEPT ![h] = c]
        BY <1>2
      <3> HIDE DEF c
      <3> QED
        BY <3>1, <3>2, <3>3
    <2> QED
      BY <1>1, <1>2, <1>5, <2>1, <2>2 DEF TypeOK
  <1>7. SentInOrder'
    <2> SUFFICES ASSUME NEW k \in Messages,
                        NEW i \in DOMAIN sent'[k], NEW j \in DOMAIN sent'[k],
                        i < j
                 PROVE  sent'[k][i] < sent'[k][j]
      BY DEF SentInOrder
    <2>1. CASE k # m
      BY <1>5, <2>1 DEF SentInOrder
    <2>2. CASE k = m
      <3>1. sent'[k] = Append(sent[m], o)
        BY <1>5, <2>2
      <3>2. i \in 1 .. Len(sent[m]) + 1 /\ j \in 1 .. Len(sent[m]) + 1
        BY <1>3, <1>4, <3>1
      <3>3. /\ i \in 1 .. Len(sent[m])
            /\ j \in 1 .. Len(sent[m]) \/ j = Len(sent[m]) + 1
        BY <1>3, <3>2
      <3>4. CASE j = Len(sent[m]) + 1
        BY <1>1, <1>3, <1>4, <3>1, <3>3, <3>4
      <3>5. CASE j \in 1 .. Len(sent[m])
        <4>1. sent[m][i] < sent[m][j]
          BY <1>3, <3>3, <3>5 DEF SentInOrder
        <4> QED
          BY <1>4, <3>1, <3>3, <3>5, <4>1
      <3> QED
        BY <3>3, <3>4, <3>5
    <2> QED
      BY <2>1, <2>2
  <1>8. LastSentWasPosted'
    <2> SUFFICES ASSUME NEW k \in Messages
                 PROVE  row'[k].lastSentAt =
                          IF sent'[k] = <<>> THEN Unsent
                          ELSE sent'[k][Len(sent'[k])]
      BY DEF LastSentWasPosted
    <2>1. CASE k # m
      BY <1>5, <2>1 DEF LastSentWasPosted
    <2>2. CASE k = m
      <3>1. Append(sent[m], o) # <<>>
        BY <1>3, <1>4
      <3> QED
        BY <1>4, <1>5, <2>2, <3>1
    <2> QED
      BY <2>1, <2>2
  <1>9. row[m].created
    BY <1>2 DEF CallsKnowRows
  <1>10. StoppedOnce' /\ CallsKnowRows'
    <2>1. StoppedOnce'
      BY <1>2, <1>5 DEF StoppedOnce
    <2>2. \A g \in Hosts : tick'[g].todo \subseteq tick[g].todo
      BY <1>2 DEF TypeOK, Tick
    <2>3. \A g \in Hosts : tick[g].todo \subseteq Messages
      BY DEF TypeOK, Tick
    <2>4. \A a \in Leads : stopping[a] \subseteq Messages
      BY DEF TypeOK
    <2> QED
      BY <1>2, <1>5, <2>1, <2>2, <2>3, <2>4 DEF CallsKnowRows
  <1>11. NotSetUpIsClean'
    <2> SUFFICES ASSUME NEW k \in Messages, ~row'[k].created
                 PROVE  row'[k] = NotSetUp /\ sent'[k] = <<>>
      BY DEF NotSetUpIsClean
    <2>1. k # m /\ ~row[k].created
      BY <1>5, <1>9
    <2>2. row'[k] = row[k]
      BY <1>2, <2>1 DEF TypeOK
    <2> QED
      BY <1>5, <2>1, <2>2 DEF NotSetUpIsClean
  <1> QED
    BY <1>6, <1>7, <1>8, <1>10, <1>11
-----------------------------------------------------------------------------
(* The leads' calls.                                                       *)

\* The fields of a row that a write leaves alone.
LEMMA RowWrites ==
  ASSUME NEW r \in Row, NEW a \in Leads
  PROVE  /\ [r EXCEPT !.created = TRUE] \in Row
         /\ [r EXCEPT !.created = TRUE].created = TRUE
         /\ [r EXCEPT !.created = TRUE].lastSentAt = r.lastSentAt
         /\ [r EXCEPT !.created = TRUE].stoppedBy = r.stoppedBy
         /\ [r EXCEPT !.stoppedBy = a] \in Row
         /\ [r EXCEPT !.stoppedBy = a].stoppedBy = a
         /\ [r EXCEPT !.stoppedBy = a].lastSentAt = r.lastSentAt
         /\ [r EXCEPT !.stoppedBy = a].created = r.created
  BY DEF Row

\* Setting a message up keeps the invariant.
LEMMA CreateStep ==
  ASSUME IInv, NEW m \in Messages, CreateStanding(m)
  PROVE  IInv'
  <1> USE DEF IInv
  <1>1. \A k \in Messages :
          row'[k] = IF k = m THEN [row[m] EXCEPT !.created = TRUE] ELSE row[k]
    BY DEF CreateStanding, TypeOK
  <1>2. \A k \in Messages :
          /\ row'[k] \in Row
          /\ row'[k].lastSentAt = row[k].lastSentAt
          /\ row'[k].stoppedBy = row[k].stoppedBy
          /\ row'[k].created <=> (row[k].created \/ k = m)
    <2> SUFFICES ASSUME NEW k \in Messages
                 PROVE  /\ row'[k] \in Row
                        /\ row'[k].lastSentAt = row[k].lastSentAt
                        /\ row'[k].stoppedBy = row[k].stoppedBy
                        /\ row'[k].created <=> (row[k].created \/ k = m)
      OBVIOUS
    <2>1. row[m] \in Row /\ row[k] \in Row /\ Leads # {}
      BY DEF TypeOK, CreateStanding
    <2>2. CASE k = m
      <3> DEFINE w == [row[m] EXCEPT !.created = TRUE]
      <3>1. /\ w \in Row /\ w.created = TRUE
            /\ w.lastSentAt = row[m].lastSentAt /\ w.stoppedBy = row[m].stoppedBy
        BY <2>1, RowWrites
      <3>2. row'[k] = w
        BY <1>1, <2>2
      <3> HIDE DEF w
      <3> QED
        BY <2>2, <3>1, <3>2
    <2>3. CASE k # m
      BY <1>1, <2>1, <2>3
    <2> QED
      BY <2>2, <2>3
  <1>3. TypeOK'
    BY <1>2 DEF CreateStanding, TypeOK
  <1>4. CallsKnowRows'
    <2>1. \A h \in Hosts : tick[h].todo \subseteq Messages
      BY DEF TypeOK, Tick
    <2>2. \A a \in Leads : stopping[a] \subseteq Messages
      BY DEF TypeOK
    <2> QED
      BY <1>2, <2>1, <2>2 DEF CreateStanding, CallsKnowRows
  <1> QED
    BY <1>1, <1>2, <1>3, <1>4 DEF CreateStanding, SentInOrder,
       LastSentWasPosted, StoppedOnce, NotSetUpIsClean

\* A stop keeps the invariant: only the update that took the row counts.
LEMMA StopStep ==
  ASSUME IInv, NEW a \in Leads, NEW m \in Messages, StopStanding(a, m)
  PROVE  IInv'
  <1> USE DEF IInv
  <1>1. row[m].created
    BY DEF StopStanding, CallsKnowRows
  <1>2. \A k \in Messages :
          row'[k] = IF k = m /\ row[m].stoppedBy = NoActor
                    THEN [row[m] EXCEPT !.stoppedBy = a] ELSE row[k]
    BY DEF StopStanding, TypeOK
  <1>3. \A k \in Messages :
          /\ row'[k] \in Row
          /\ row'[k].lastSentAt = row[k].lastSentAt
          /\ row'[k].created = row[k].created
          /\ row'[k].stoppedBy = IF k = m /\ row[m].stoppedBy = NoActor
                                 THEN a ELSE row[k].stoppedBy
    <2> TAKE k \in Messages
    <2>1. row[m] \in Row /\ row[k] \in Row
      BY DEF TypeOK
    <2>2. CASE k = m /\ row[m].stoppedBy = NoActor
      <3> DEFINE w == [row[m] EXCEPT !.stoppedBy = a]
      <3>1. /\ w \in Row /\ w.stoppedBy = a
            /\ w.lastSentAt = row[m].lastSentAt /\ w.created = row[m].created
        BY <2>1, RowWrites
      <3>2. row'[k] = w
        BY <1>2, <2>2
      <3> HIDE DEF w
      <3> QED
        BY <2>2, <3>1, <3>2
    <2>3. CASE ~(k = m /\ row[m].stoppedBy = NoActor)
      BY <1>2, <2>1, <2>3
    <2> QED
      BY <2>2, <2>3
  <1>4. \A k \in Messages :
          stops'[k] = IF k = m /\ row[m].stoppedBy = NoActor
                      THEN stops[m] + 1 ELSE stops[k]
    BY DEF StopStanding, TypeOK
  <1>5. /\ stopping' \in [Leads -> SUBSET Messages]
        /\ \A b \in Leads : stopping'[b] \subseteq stopping[b]
    BY DEF StopStanding, TypeOK
  <1>6. TypeOK'
    <2>1. row' \in [Messages -> Row]
      BY <1>3 DEF StopStanding, TypeOK
    <2>2. stops' \in [Messages -> Nat]
      <3>1. stops' = [stops EXCEPT ![m] = stops[m] + 1] \/ stops' = stops
        BY DEF StopStanding
      <3>2. stops \in [Messages -> Nat] /\ stops[m] + 1 \in Nat
        BY DEF TypeOK
      <3> QED
        BY <3>1, <3>2
    <2> QED
      BY <1>3, <1>5, <2>1, <2>2 DEF StopStanding, TypeOK
  <1>7. CallsKnowRows'
    <2>1. \A h \in Hosts : tick[h].todo \subseteq Messages
      BY DEF TypeOK, Tick
    <2>2. \A b \in Leads : stopping[b] \subseteq Messages
      BY DEF TypeOK
    <2> QED
      BY <1>3, <1>5, <2>1, <2>2 DEF StopStanding, CallsKnowRows
  <1>8. StoppedOnce'
    BY <1>3, <1>4 DEF StoppedOnce
  <1>9. NotSetUpIsClean'
    BY <1>1, <1>2, <1>3 DEF StopStanding, NotSetUpIsClean
  <1> QED
    BY <1>3, <1>6, <1>7, <1>8, <1>9 DEF StopStanding, SentInOrder,
       LastSentWasPosted

\* A stop that passed the fence knows a row.
LEMMA FenceStep ==
  ASSUME IInv, NEW a \in Leads, NEW m \in Messages, StopFence(a, m)
  PROVE  IInv'
  <1> USE DEF IInv
  <1>1. TypeOK'
    BY DEF StopFence, TypeOK
  <1>2. CallsKnowRows'
    BY DEF StopFence, CallsKnowRows, TypeOK
  <1> QED
    BY <1>1, <1>2 DEF StopFence, SentInOrder, LastSentWasPosted, StoppedOnce,
       NotSetUpIsClean

\* Nothing the invariant speaks of changes but a clock or the declined.
LEMMA OutsideStep ==
  ASSUME IInv,
         \/ \E t \in Threads : DeclineThread(t)
         \/ \E h \in Hosts : Advance(h)
         \/ UNCHANGED vars
  PROVE  IInv'
  <1> USE DEF IInv
  <1>1. UNCHANGED <<row, sent, stopping, stops, tick, setbacks>>
    BY DEF DeclineThread, Advance, vars
  <1>2. declined' \subseteq Threads /\ clock' \in [Hosts -> Nat]
    <2>1. ASSUME NEW t \in Threads, DeclineThread(t) PROVE <1>2
      BY <2>1 DEF DeclineThread, TypeOK
    <2>2. ASSUME NEW h \in Hosts, Advance(h) PROVE <1>2
      BY <2>2 DEF Advance, TypeOK
    <2>3. CASE UNCHANGED vars
      BY <2>3 DEF vars, TypeOK
    <2> QED
      BY <2>1, <2>2, <2>3
  <1>3. TypeOK'
    BY <1>1, <1>2 DEF TypeOK
  <1> QED
    BY <1>1, <1>3 DEF SentInOrder, LastSentWasPosted, StoppedOnce,
       NotSetUpIsClean, CallsKnowRows

\* Every step keeps the invariant.
LEMMA NextIInv == IInv /\ [Next]_vars => IInv'
  <1> SUFFICES ASSUME IInv, [Next]_vars PROVE IInv'
    OBVIOUS
  <1>1. CASE LeadStep
    BY <1>1, CreateStep, FenceStep, StopStep, OutsideStep DEF LeadStep
  <1>2. ASSUME NEW h \in Hosts, HostStep(h) \/ Setback(h) PROVE IInv'
    BY <1>2, QuietTickSteps, SendDueStep DEF HostStep, Setback
  <1> QED
    BY <1>1, <1>2, OutsideStep DEF Next

-----------------------------------------------------------------------------
\* The inductive invariant: what last_sent_at says was posted, and nothing
\* that was posted is later.
THEOREM Invariance == Spec => []IInv
  BY InitIInv, NextIInv, PTL DEF Spec

\* The rows, the posts and the ticks keep their types; last_sent_at always
\* names an occurrence of the message's own schedule.
THEOREM TypeCorrect == Spec => []TypeOK
  <1>1. IInv => TypeOK
    BY DEF IInv
  <1> QED
    BY <1>1, Invariance, PTL

\* However many hosts tick on stale lists, each occurrence is sent at most
\* once and in order: what claimOccurrence's compare-and-swap is for.
THEOREM ExactlyOnce == Spec => []SentInOrder
  <1>1. IInv => SentInOrder
    BY DEF IInv
  <1> QED
    BY <1>1, Invariance, PTL

\* The claim and the post never come apart.
THEOREM ClaimIsPost == Spec => []LastSentWasPosted
  <1>1. IInv => LastSentWasPosted
    BY DEF IInv
  <1> QED
    BY <1>1, Invariance, PTL

\* Of any number of concurrent stops exactly one is answered success.
THEOREM OneStop == Spec => []StoppedOnce
  <1>1. IInv => StoppedOnce
    BY DEF IInv
  <1> QED
    BY <1>1, Invariance, PTL

\* No post follows the stop and no stop is undone, whatever the ticks hold.
LEMMA NextStops ==
  ASSUME IInv, [Next]_vars, NEW m \in Messages, row[m].stoppedBy # NoActor
  PROVE  sent'[m] = sent[m] /\ row'[m].stoppedBy = row[m].stoppedBy
  <1> USE DEF IInv
  <1>1. CASE UNCHANGED <<row, sent>>
    BY <1>1
  <1>2. ASSUME NEW k \in Messages, CreateStanding(k)
        PROVE  sent'[m] = sent[m] /\ row'[m].stoppedBy = row[m].stoppedBy
    BY <1>2 DEF CreateStanding, TypeOK, Row
  <1>3. ASSUME NEW a \in Leads, NEW k \in Messages, StopStanding(a, k)
        PROVE  sent'[m] = sent[m] /\ row'[m].stoppedBy = row[m].stoppedBy
    BY <1>3 DEF StopStanding, TypeOK, Row
  <1>4. ASSUME NEW h \in Hosts, NEW k \in Messages, SendDue(h, k)
        PROVE  sent'[m] = sent[m] /\ row'[m].stoppedBy = row[m].stoppedBy
    <2>1. k # m
      BY <1>4 DEF SendDue, Claims
    <2> QED
      BY <1>4, <2>1 DEF SendDue, TypeOK
  <1> QED
    BY <1>1, <1>2, <1>3, <1>4 DEF Next, LeadStep, HostStep, Setback, StopFence,
       DeclineThread, Advance, ListRunning, SkipNotDue, LoseClaim, FailPost,
       Return, Crash, vars

\* A stopped message sends nothing more, and stays stopped.
THEOREM Silence == Spec => StopIsFinal
  <1>1. IInv /\ [Next]_vars =>
          [\A m \in Messages : row[m].stoppedBy # NoActor =>
             sent'[m] = sent[m] /\ row'[m].stoppedBy = row[m].stoppedBy]_vars
    BY NextStops
  <1> QED
    BY <1>1, Invariance, PTL DEF Spec, StopIsFinal

\* What a tick posts is the latest its now allows, whatever it had listed.
LEMMA NextSendsLatest ==
  ASSUME IInv, [Next]_vars, NEW h \in Hosts, NEW m \in Messages,
         tick'[h] # tick[h], sent'[m] # sent[m], NEW o \in Occurrences[m], o <= tick[h].now
  PROVE  o <= sent'[m][Len(sent'[m])]
  <1> USE DEF IInv
  <1>1. PICK g \in Hosts, k \in Messages : SendDue(g, k)
    BY DEF Next, LeadStep, HostStep, Setback, CreateStanding, StopStanding, StopFence,
       DeclineThread, Advance, ListRunning, SkipNotDue, LoseClaim, FailPost,
       Return, Crash, vars
  <1>2. k = m /\ g = h
    BY <1>1 DEF SendDue, Tried, TypeOK
  <1>3. Due(h, m) # {} /\ sent' = [sent EXCEPT ![m] = Append(@, Chosen(h, m))]
    BY <1>1, <1>2 DEF SendDue
  <1>4. Chosen(h, m) \in Nat /\ o <= Chosen(h, m)
    BY <1>3, ChosenIsLatest
  <1> DEFINE q == Chosen(h, m)
  <1> HIDE DEF q
  <1>5. sent[m] \in Seq(Nat) /\ sent'[m] = Append(sent[m], q) /\ q \in Nat /\ o <= q
    BY <1>3, <1>4 DEF TypeOK, q
  <1>6. Append(sent[m], q)[Len(Append(sent[m], q))] = q
    BY <1>5
  <1> QED
    BY <1>5, <1>6

(* A host that comes back sends no backlog: of what is due by the now of   *)
(* its call the latest goes out, for any schedule and any number of hosts  *)
(* with clocks of their own.                                               *)
THEOREM LatestGoesOut == Spec => SendsTheLatest
  <1>1. IInv /\ [Next]_vars =>
          [\A h \in Hosts, m \in Messages :
             /\ tick'[h] # tick[h]
             /\ sent'[m] # sent[m]
             => \A o \in Occurrences[m] :
                  o <= tick[h].now => o <= sent'[m][Len(sent'[m])]]_vars
    BY NextSendsLatest
  <1> QED
    BY <1>1, Invariance, PTL DEF Spec, SendsTheLatest

-----------------------------------------------------------------------------
(* The detailed specification implements OccurrenceLog.                    *)

\* Every step is a step of the abstract log or leaves it alone.
LEMMA LogSteps ==
  ASSUME IInv, [Next]_vars
  PROVE  [Log!LogNext]_(Log!logVars)
  <1> USE DEF IInv
  <1> SUFFICES Log!LogNext \/ UNCHANGED <<sent, Phase>>
    BY DEF Log!logVars
  <1>1. CASE UNCHANGED <<row, sent>>
    BY <1>1 DEF Phase
  <1>2. ASSUME NEW m \in Messages, CreateStanding(m)
        PROVE  Log!Create(m)
    <2>1. row[m] = NotSetUp /\ row \in [Messages -> Row]
      BY <1>2 DEF CreateStanding, NotSetUpIsClean, TypeOK
    <2>2. /\ row' = [row EXCEPT ![m].created = TRUE]
          /\ sent' = sent
      BY <1>2 DEF CreateStanding
    <2>3. Phase[m] = "absent"
      BY <2>1 DEF Phase, NotSetUp
    <2>4. row'[m].created /\ row'[m].stoppedBy = NoActor
      BY <2>1, <2>2 DEF NotSetUp, Row
    <2>5. \A k \in Messages : k # m => row'[k] = row[k]
      BY <2>1, <2>2
    <2>6. Phase' = [Phase EXCEPT ![m] = "running"]
      BY <2>4, <2>5 DEF Phase
    <2> QED
      BY <2>2, <2>3, <2>6 DEF Log!Create
  <1>3. ASSUME NEW a \in Leads, NEW m \in Messages, StopStanding(a, m)
        PROVE  Log!Stop(m) \/ UNCHANGED <<row, sent>>
    <2>1. CASE row[m].stoppedBy # NoActor
      BY <1>3, <2>1 DEF StopStanding
    <2>2. CASE row[m].stoppedBy = NoActor
      <3>1. row[m].created /\ row[m] \in Row /\ row \in [Messages -> Row]
        BY <1>3 DEF StopStanding, CallsKnowRows, TypeOK
      <3>2. /\ row' = [row EXCEPT ![m].stoppedBy = a]
            /\ sent' = sent
        BY <1>3, <2>2 DEF StopStanding
      <3>3. row'[m].created /\ row'[m].stoppedBy = a /\ a # NoActor
        BY <3>1, <3>2 DEF Row
      <3>4. \A k \in Messages : k # m => row'[k] = row[k]
        BY <3>1, <3>2
      <3>5. Phase[m] = "running"
        BY <2>2, <3>1 DEF Phase
      <3>6. Phase' = [Phase EXCEPT ![m] = "stopped"]
        BY <3>3, <3>4 DEF Phase
      <3> QED
        BY <3>2, <3>5, <3>6 DEF Log!Stop
    <2> QED
      BY <2>1, <2>2
  <1>4. ASSUME NEW h \in Hosts, NEW m \in Messages, SendDue(h, m)
        PROVE  \E o \in Occurrences[m] : Log!Send(m, o)
    <2> DEFINE o == Chosen(h, m)
    <2>1. o \in Occurrences[m] /\ \A i \in DOMAIN sent[m] : sent[m][i] < o
      BY <1>4, PostIsNew
    <2>2. /\ row' = [row EXCEPT ![m].lastSentAt = o]
          /\ sent' = [sent EXCEPT ![m] = Append(@, o)]
          /\ row[m].stoppedBy = NoActor
      BY <1>4 DEF SendDue, Claims
    <2> HIDE DEF o
    <2>3. row[m].created /\ row \in [Messages -> Row]
      BY <1>4 DEF SendDue, CallsKnowRows, TypeOK
    <2>4. Phase[m] = "running"
      BY <2>2, <2>3 DEF Phase
    <2>5. \A k \in Messages : /\ row'[k].created = row[k].created
                             /\ row'[k].stoppedBy = row[k].stoppedBy
      BY <2>2, <2>3 DEF Row
    <2>6. Phase' = Phase
      BY <2>5 DEF Phase
    <2>7. Log!Send(m, o)
      BY <2>1, <2>2, <2>4, <2>6 DEF Log!Send
    <2> QED
      BY <2>1, <2>7
  <1> QED
    BY <1>1, <1>2, <1>3, <1>4 DEF Log!LogNext, Next, LeadStep, HostStep,
       Setback, StopFence, DeclineThread, Advance, ListRunning, SkipNotDue,
       LoseClaim, FailPost, Return, Crash, vars

\* Whatever hosts, leads, failures and crashes do, the group hears what
\* OccurrenceLog promises: in order, at most once, nothing after the stop.
THEOREM Refinement == Spec => ImplementsLog
  <1>1. Init => Log!LogInit
    BY DEF Init, Log!LogInit, Phase, NotSetUp
  <1>2. IInv /\ [Next]_vars => [Log!LogNext]_(Log!logVars)
    BY LogSteps
  <1> QED
    BY <1>1, <1>2, Invariance, PTL DEF Spec, ImplementsLog, Log!LogSpec
=============================================================================
