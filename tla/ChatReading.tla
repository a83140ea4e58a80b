---------------------------- MODULE ChatReading ----------------------------
(***************************************************************************)
(* Posting into one thread and following it: the listing, the listing of   *)
(* what came after a known post, the reader's last-read point, the thread  *)
(* in the list of the room's threads, and its archiving by the reader.     *)
(*                                                                         *)
(* Post takes the clock's instant first and inserts the row in a later     *)
(* statement, so posts may land in another order than the one they are     *)
(* stamped in.  A mark reads its instant first as well and writes it in an *)
(* upsert; one reader's marks, sent from several devices or sent again,    *)
(* may arrive in any order.                                                *)
(*                                                                         *)
(* The list of threads is put together from a statement each for the       *)
(* unread counts, the last posts and the archive: posts land in between.   *)
(*                                                                         *)
(* Markers, counts and archives are per thread and per reader: one thread  *)
(* stands for all.  Instants are positive naturals; 0 is no instant.       *)
(***************************************************************************)
EXTENDS Naturals, Sequences

CONSTANTS
  Authors,     \* who may post in the thread
  Readers,     \* who of them reads it; readers share no row
  MaxPosts,    \* bound: the post ids that can be minted, 1 .. MaxPosts
  MaxTime      \* bound: the last instant the clock shows

ASSUME ReadersAssumption == Readers \subseteq Authors
ASSUME MaxPostsAssumption == MaxPosts \in Nat
ASSUME MaxTimeAssumption == MaxTime \in Nat \ {0}

Posts == 1 .. MaxPosts
Instants == 1 .. MaxTime
NoInstant == 0

VARIABLES
  clock,     \* the server's clock
  stamped,   \* the posts with an id and a created_at, landed or not
  landed,    \* the posts in the table, in the order they were committed
  readAt,    \* reader -> read_at of the marker row, or NoInstant
  marking,   \* reader -> the read points on their way to the upsert
  shown,     \* reader -> the posts the reader's client holds
  blind,     \* who ever marked at the server's clock, naming no post (history)
  archived,  \* reader -> archived_at of the archive row, or NoInstant
  archiving, \* reader -> the archived_at that Archive calls found or left in
             \*   the row and are about to read back
  view       \* reader -> the list of threads on its way: the thread's entry

reading == <<readAt, marking, shown, blind>>
listing == <<archived, archiving, view>>
readVars == <<clock, stamped, landed, reading, listing>>

-----------------------------------------------------------------------------
Post == [id: Posts, at: Instants, author: Authors]

InTable == {landed[i] : i \in DOMAIN landed}

\* ORDER BY created_at, id.
Before(p, q) == \/ p.at < q.at
                \/ p.at = q.at /\ p.id < q.id

\* The newest post a client holds, the one it names as `after`.
Newest(a) == CHOOSE p \in shown[a] : \A q \in shown[a] : q = p \/ Before(q, p)

\* UnreadCounts: somebody else's posts after the read point.
Unread(a) == {p \in InTable : p.author # a /\ p.at > readAt[a]}

\* The created_at no other of these posts exceeds, or NoInstant of no post.
NewestAt(posts) ==
  LET newest == {p \in posts : \A q \in posts : q.at <= p.at}
  IN IF newest = {} THEN NoInstant ELSE (CHOOSE p \in newest : TRUE).at

\* LatestPosts.
Latest == NewestAt(InTable)

View == [at: {"idle", "counted", "listed"},
         unread: Instants \cup {NoInstant},   \* the newest of the posts counted
         last: Instants \cup {NoInstant}]     \* last_message_at

NoView == [at |-> "idle", unread |-> NoInstant, last |-> NoInstant]

ReadTypeOK ==
  /\ clock \in Instants
  /\ stamped \subseteq Post
  /\ landed \in Seq(Post)
  /\ InTable \subseteq stamped
  /\ readAt \in [Readers -> Instants \cup {NoInstant}]
  /\ marking \in [Readers -> SUBSET Instants]
  /\ shown \in [Readers -> SUBSET Post]
  /\ blind \subseteq Readers
  /\ archived \in [Readers -> Instants \cup {NoInstant}]
  /\ archiving \in [Readers -> SUBSET Instants]
  /\ view \in [Readers -> View]

ReadInit ==
  /\ clock = 1
  /\ stamped = {}
  /\ landed = <<>>
  /\ readAt = [a \in Readers |-> NoInstant]
  /\ marking = [a \in Readers |-> {}]
  /\ shown = [a \in Readers |-> {}]
  /\ blind = {}
  /\ archived = [a \in Readers |-> NoInstant]
  /\ archiving = [a \in Readers |-> {}]
  /\ view = [a \in Readers |-> NoView]

-----------------------------------------------------------------------------
Tick ==
  /\ clock < MaxTime
  /\ clock' = clock + 1
  /\ UNCHANGED <<stamped, landed, reading, listing>>

\* The first half of Post: created_at and a random id, no two alike.
Stamp(a, id) ==
  /\ \A p \in stamped : p.id # id
  /\ stamped' = stamped \cup {[id |-> id, at |-> clock, author |-> a]}
  /\ UNCHANGED <<clock, landed, reading, listing>>

\* The second half: the insert.  A post whose insert fails never lands.
Land(p) ==
  /\ p \in stamped \ InTable
  /\ landed' = Append(landed, p)
  /\ UNCHANGED <<clock, stamped, reading, listing>>

\* ListChatMessagesFor without `after`: the whole thread.
ListAll(a) ==
  /\ shown' = [shown EXCEPT ![a] = InTable]
  /\ UNCHANGED <<clock, stamped, landed, readAt, marking, blind, listing>>

\* Mutant: the comparison is on the time alone.
After_TimeOnly(p) == {q \in InTable : q.at > p.at}

\* ListMessagesAfter: what sorts after p in the full listing's order.
After(p) == {q \in InTable : q.at > p.at \/ (q.at = p.at /\ q.id > p.id)}

\* What a client holds once it asked for the posts after its newest.
Followed(a) == shown[a] \cup After(Newest(a))

\* ListChatMessagesFor with `after`, the newest post the client holds.
ListAfter(a) ==
  /\ shown[a] # {}
  /\ shown' = [shown EXCEPT ![a] = Followed(a)]
  /\ UNCHANGED <<clock, stamped, landed, readAt, marking, blind, listing>>

\* Mutant: the point is the server's clock though a post is named.
MarkShown_AtClock(a, p) ==
  /\ p \in shown[a]
  /\ marking' = [marking EXCEPT ![a] = @ \cup {clock}]
  /\ UNCHANGED <<clock, stamped, landed, readAt, shown, blind, listing>>

\* MarkChatThreadReadFor naming a post the client showed: its created_at.
MarkShown(a, p) ==
  /\ p \in shown[a]
  /\ marking' = [marking EXCEPT ![a] = @ \cup {p.at}]
  /\ UNCHANGED <<clock, stamped, landed, readAt, shown, blind, listing>>

\* MarkChatThreadReadFor naming none: the server's clock.
MarkNow(a) ==
  /\ marking' = [marking EXCEPT ![a] = @ \cup {clock}]
  /\ blind' = blind \cup {a}
  /\ UNCHANGED <<clock, stamped, landed, readAt, shown, listing>>

\* Mutant: the upsert overwrites the point.
MarkRead_Overwrites(a, at) ==
  /\ at \in marking[a]
  /\ readAt' = [readAt EXCEPT ![a] = at]
  /\ marking' = [marking EXCEPT ![a] = @ \ {at}]
  /\ UNCHANGED <<clock, stamped, landed, shown, blind, listing>>

\* MarkRead's upsert keeps the later of the stored and the offered point.
MarkRead(a, at) ==
  /\ at \in marking[a]
  /\ readAt' = [readAt EXCEPT ![a] = IF at > @ THEN at ELSE @]
  /\ marking' = [marking EXCEPT ![a] = @ \ {at}]
  /\ UNCHANGED <<clock, stamped, landed, shown, blind, listing>>

-----------------------------------------------------------------------------
\* Mutant: archiving again is archiving anew.
Archive_Anew(a, at) ==
  /\ archived' = [archived EXCEPT ![a] = at]
  /\ archiving' = [archiving EXCEPT ![a] = @ \cup {archived'[a]}]
  /\ UNCHANGED <<clock, stamped, landed, reading, view>>

\* Archive's insert, of an archived_at the call took from the clock at some
\* moment before: it does nothing where the row is there.
Archive(a, at) ==
  /\ at <= clock
  /\ archived' = [archived EXCEPT ![a] = IF @ = NoInstant THEN at ELSE @]
  /\ archiving' = [archiving EXCEPT ![a] = @ \cup {archived'[a]}]
  /\ UNCHANGED <<clock, stamped, landed, reading, view>>

\* Archive's second statement reads the row for the answer.
ArchiveAnswer(a, at) ==
  /\ at \in archiving[a]
  /\ archiving' = [archiving EXCEPT ![a] = @ \ {at}]
  /\ UNCHANGED <<clock, stamped, landed, reading, archived, view>>

\* Unarchive.  The calls about to read back are crossed: they will answer that
\* there is no such thread, or with a row that came later, and change nothing.
Unarchive(a) ==
  /\ archived' = [archived EXCEPT ![a] = NoInstant]
  /\ archiving' = [archiving EXCEPT ![a] = {}]
  /\ UNCHANGED <<clock, stamped, landed, reading, view>>

\* ArchivedThreads, of the one thread.
InArchive(a) == archived[a] # NoInstant

\* threadViews up to UnreadCounts.
CountUnread(a) ==
  /\ view[a].at = "idle"
  /\ view' = [view EXCEPT ![a] = [NoView EXCEPT !.at = "counted",
                                                !.unread = NewestAt(Unread(a))]]
  /\ UNCHANGED <<clock, stamped, landed, reading, archived, archiving>>

\* Mutant: the thread is dated by the post that came last.
ListThread_LastLanded(a, archivedOnes) ==
  /\ view[a].at = "counted"
  /\ view' = [view EXCEPT ![a] =
       IF InArchive(a) = archivedOnes
       THEN [@ EXCEPT !.at = "listed",
                      !.last = IF landed = <<>> THEN NoInstant
                               ELSE landed[Len(landed)].at]
       ELSE NoView]
  /\ UNCHANGED <<clock, stamped, landed, reading, archived, archiving>>

\* The rest of it, LatestPosts and ArchivedThreads: the thread's entry, or
\* none where the other of the two lists is asked for.
ListThread(a, archivedOnes) ==
  /\ view[a].at = "counted"
  /\ view' = [view EXCEPT ![a] =
       IF InArchive(a) = archivedOnes
       THEN [@ EXCEPT !.at = "listed", !.last = Latest]
       ELSE NoView]
  /\ UNCHANGED <<clock, stamped, landed, reading, archived, archiving>>

\* The reader has the list.
CloseList(a) ==
  /\ view[a].at = "listed"
  /\ view' = [view EXCEPT ![a] = NoView]
  /\ UNCHANGED <<clock, stamped, landed, reading, archived, archiving>>

-----------------------------------------------------------------------------
ReadNext ==
  \/ Tick
  \/ \E a \in Authors, id \in Posts : Stamp(a, id)
  \/ \E p \in stamped : Land(p)
  \/ \E a \in Readers :
       \/ ListAll(a)
       \/ ListAfter(a)
       \/ \E p \in shown[a] : MarkShown(a, p)
       \/ MarkNow(a)
       \/ \E at \in marking[a] : MarkRead(a, at)
       \/ \E at \in Instants : Archive(a, at) \/ ArchiveAnswer(a, at)
       \/ Unarchive(a)
       \/ CountUnread(a)
       \/ \E archivedOnes \in BOOLEAN : ListThread(a, archivedOnes)
       \/ CloseList(a)

ReadSpec == ReadInit /\ [][ReadNext]_readVars

-----------------------------------------------------------------------------
\* p was overtaken by q: stamped no later, committed later.
Overtaken(p, q) ==
  \E i, j \in DOMAIN landed :
    landed[i] = q /\ landed[j] = p /\ i < j /\ Before(p, q)

(* What was read stays read: however late, repeated or reordered the marks *)
(* of a reader arrive, a post becomes unread only by landing.              *)
ReadStaysRead ==
  [][\A a \in Readers :
       Unread(a)' \subseteq Unread(a) \cup (InTable' \ InTable)]_readVars

(* A client that lists only what came after its newest post loses nothing  *)
(* but posts that were overtaken by a post it holds: while posts land in   *)
(* the order they are stamped, the pair created_at, id misses none.        *)
PollMissesOnlyOvertaken ==
  \A a \in Readers : shown[a] # {} =>
    \A p \in InTable \ Followed(a) : \E q \in Followed(a) : Overtaken(p, q)

(* For a reader who marks only by posts they were shown, a post not shown  *)
(* is unread unless a post they were shown had overtaken it, or bears the  *)
(* same instant.                                                           *)
UnseenIsUnread ==
  \A a \in Readers \ blind : \A p \in InTable \ shown[a] :
    \/ p.author = a
    \/ p \in Unread(a)
    \/ \E q \in shown[a] : Overtaken(p, q) \/ p.at = q.at

(* A thread listed with unread posts bears a last message no older than    *)
(* any of them, though the two come of different statements and posts      *)
(* land between them, not always in order.                                 *)
ListingDated ==
  \A a \in Readers : view[a].at = "listed" => view[a].unread <= view[a].last

(* Archiving is archiving once: an archive call that no unarchive crosses  *)
(* answers with the archive it found or left, whichever calls of the same  *)
(* reader's other devices come between its two statements.                 *)
ArchiveAnswersFirst ==
  \A a \in Readers : archiving[a] \subseteq {archived[a]}
=============================================================================
