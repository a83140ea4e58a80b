------------------------------ MODULE Addresses ------------------------------
(***************************************************************************)
(* The addresses an actor can be reached at: publishing and retiring them, *)
(* the owner's settings, resolving one, and the directory somebody walks   *)
(* page by page while owners change what is in it and the clock moves.     *)
(*                                                                         *)
(* UpdateSettings is two statements, the guarded update and the read-back; *)
(* the other calls are one statement each.  The rows of the test runs lie  *)
(* together in a test copy of the table, apart from the live one.          *)
(*                                                                         *)
(* The directory joins the host's table of actors, the one live table for  *)
(* the test runs too, and leaves out who has no row there; the host adds   *)
(* and deletes rows as it will.  A public address is the text an owner     *)
(* sent: nothing holds it to the hash, or two owners to different ones.    *)
(* Rows that ORDER BY does not tell apart come in any order, another one   *)
(* each time.                                                              *)
(*                                                                         *)
(* Time is counted in minutes of days of DayLength minutes, from the       *)
(* midnight before a Saturday, in the one zone of all schedules.  The      *)
(* directory is browsed: the search term is left out, as are salts, the    *)
(* message timer and blocks.                                               *)
(***************************************************************************)
EXTENDS Integers, FiniteSets

CONSTANTS
  Actors,      \* who owns addresses
  Indexes,     \* which of an owner's addresses one is
  Hashes,      \* the keyed hashes
  Texts,       \* the public addresses, numbers in their order
  Offers,      \* owner, index and hash of what may be sent to Publish
  Sheets,      \* the settings that may be sent, malformed ones among them
  NoRun,       \* the live manager's run
  Runs,        \* the test runs
  Calls,       \* the UpdateSettings calls that may be in flight at once
  Walkers,     \* who may browse the directory, and is left out of it
  Limit,       \* the listings on one page
  DayLength,   \* minutes in a day
  Never,       \* no time at all
  NoActor,     \* nobody: the hash has no row, nobody is excluded
  MaxTime,     \* bound: the last minute
  MaxRows      \* bound: how many addresses are published

Times == 0 .. MaxTime
Modes == {"closed", "silent"}
Shut == [from |-> 0, to |-> 0]           \* a day with no window
Hours == [mode: Modes, days: [0 .. 6 -> [from: Nat, to: Nat]]]
NoHours == [mode |-> ""]
NoText == 0                              \* not public

Settings == [expires: Times \cup {Never}, expiryMode: Modes \cup {""},
             public: Texts \cup {NoText}, listed: Times \cup {Never},
             disabled: BOOLEAN, disabledMode: Modes \cup {""},
             hours: Hours \cup {NoHours}]

Row == [owner: Actors, index: Indexes, retired: Times \cup {Never},
        set: Settings]
NoRow == [owner |-> NoActor]

ASSUME OffersAssumption == Offers \subseteq Actors \X Indexes \X Hashes
ASSUME SheetsAssumption == Sheets \subseteq Settings
ASSUME TextsAssumption == Texts \subseteq Nat \ {NoText}
ASSUME NoRunAssumption == NoRun \notin Runs
ASSUME NoActorAssumption == NoActor \notin Actors
ASSUME WalkersAssumption == Walkers \subseteq Actors \cup {NoActor}
ASSUME NeverAssumption == Never \notin Nat
ASSUME BoundsAssumption == {MaxTime, MaxRows} \subseteq Nat
ASSUME LimitAssumption == {Limit, DayLength} \subseteq Nat \ {0}

Scopes == Runs \cup {NoRun}
Keys == Scopes \X Hashes

VARIABLES
  row,       \* run and hash -> the address row, or NoRow
  now,       \* the clock
  settling,  \* call -> the row its update settled and it is to read back
  walk,      \* somebody's walk through the directory
  members    \* who has a row in the host's table of actors

vars == <<row, now, settling, walk, members>>

-----------------------------------------------------------------------------
(* What an address says of itself: models/address.go and its neighbours.   *)

Weekday(t) == (6 + t \div DayLength) % 7          \* Sunday is 0

DayIndex(d) == IF d = 0 THEN 6 ELSE d - 1         \* Monday is 0

OpenAt(h, t) ==
  LET w == h.days[DayIndex(Weekday(t))]
  IN  w # Shut /\ t % DayLength >= w.from /\ t % DayLength < w.to

ValidHours(h) ==
  /\ \A d \in 0 .. 6 : h.days[d] # Shut =>
       h.days[d].from < DayLength /\ h.days[d].from < h.days[d].to /\ h.days[d].to <= DayLength
  /\ \E d \in 0 .. 6 : h.days[d] # Shut

Validate(s) ==
  /\ (s.expires = Never) = (s.expiryMode = "")
  /\ s.listed # Never => s.public # NoText
  /\ s.disabled = (s.disabledMode # "")
  /\ s.hours # NoHours => ValidHours(s.hours)

Retired(a) == a.retired # Never
Expired(a, t) == a.set.expires # Never /\ t >= a.set.expires
Live(a, t) == ~Retired(a) /\ ~Expired(a, t)
WithinHours(a, t) == a.set.hours = NoHours \/ OpenAt(a.set.hours, t)
Open(a, t) == Live(a, t) /\ ~a.set.disabled /\ WithinHours(a, t)
InDirectory(a, t) == a.set.listed # Never /\ Live(a, t)

Silenced(a, t) ==
  \/ Expired(a, t) /\ a.set.expiryMode = "silent"
  \/ a.set.disabled /\ a.set.disabledMode = "silent"
  \/ a.set.hours # NoHours /\ ~OpenAt(a.set.hours, t) /\ a.set.hours.mode = "silent"

-----------------------------------------------------------------------------
(* What the statements say of it: the two stores.                          *)

\* The live table, or the test copy with the rows of every run.
TableFor(r) == {k \in Keys : (k[1] = NoRun) = (r = NoRun) /\ row[k] # NoRow}

\* Mutant: the statement written by hand reads the rows of every run.
RunClause_None(r, k) == TRUE

RunClause(r, k) == r # NoRun => k[1] = r

\* store.Query, in the scope of a run.
Query(r) == {k \in TableFor(r) : k[1] = r}

\* expires_at IS NULL OR expires_at > ?
Unexpired(s) == s.expires = Never \/ s.expires > now

ResolveRows(r, h) ==
  {k \in Query(r) : k[2] = h /\ row[k].retired = Never /\ Unexpired(row[k].set)}

ListedRow(a) == /\ a.set.listed # Never /\ a.set.public # NoText
                /\ a.retired = Never /\ Unexpired(a.set)

ListListed(r, x) == {k \in Query(r) : ListedRow(row[k]) /\ row[k].owner # x}

\* Search's statement carries the scope itself, and joins the actors.
SearchRows(r, x) == {k \in TableFor(r) : /\ row[k].owner \in members
                                         /\ ListedRow(row[k])
                                         /\ row[k].owner # x
                                         /\ RunClause(r, k)}

\* addressAvailableNow.
Available(a, t) == /\ ~a.set.disabled
                   /\ a.set.hours = NoHours \/ OpenAt(a.set.hours, t)

\* What ORDER BY looks at.
SortKey(k) == [listed |-> row[k].set.listed, public |-> row[k].set.public]

\* The listings of a run with what they are sorted by.
Listings(r, x) == [k \in SearchRows(r, x) |-> SortKey(k)]

\* listed_at DESC, public_address.
Before(a, b) ==
  \/ a.listed > b.listed
  \/ a.listed = b.listed /\ a.public < b.public

\* The orders some listings may come in: those that tie come in any.
Orders(key) ==
  LET S == DOMAIN key IN
  {R \in SUBSET (S \X S) :
     /\ \A j, k \in S : Before(key[j], key[k]) => <<j, k>> \in R
     /\ \A j, k \in S : j # k => (<<j, k>> \in R) = (<<k, j>> \notin R)
     /\ \A j \in S : <<j, j>> \notin R
     /\ \A i, j, k \in S : <<i, j>> \in R /\ <<j, k>> \in R => <<i, k>> \in R}

Ahead(key, R, k) == {j \in DOMAIN key : <<j, k>> \in R}

\* Mutant: the offset counts from one.
Page_FromOne(key, R, offset) ==
  {k \in DOMAIN key :
     Cardinality(Ahead(key, R, k)) \in (offset - 1) .. (offset + Limit - 2)}

\* LIMIT ? OFFSET ?
Page(key, R, offset) ==
  {k \in DOMAIN key :
     Cardinality(Ahead(key, R, k)) \in offset .. (offset + Limit - 1)}

-----------------------------------------------------------------------------
Walk == [at: {"idle", "next"}, run: Scopes, exclude: Actors \cup {NoActor},
         first: SUBSET Keys]

Resting == [at |-> "idle", run |-> NoRun, exclude |-> NoActor, first |-> {},
            key |-> <<>>, order |-> {}]

\* The walk, but for the listings at its first page and the order they came
\* in (history).
FirstOf(w) == [at |-> w.at, run |-> w.run, exclude |-> w.exclude,
               first |-> w.first]

Published == {k \in Keys : row[k] # NoRow}

None == <<>>              \* no row

TypeOK ==
  /\ row \in [Keys -> Row \cup {NoRow}]
  /\ now \in Times
  /\ settling \in [Calls -> Published \cup {None}]
  /\ FirstOf(walk) \in Walk
  /\ members \subseteq Actors

Init ==
  /\ row = [k \in Keys |-> NoRow]
  /\ now = 0
  /\ settling = [c \in Calls |-> None]
  /\ walk = Resting
  /\ members \in SUBSET Actors

\* The rows a statement on an owner's address matches, retired or not.
Owned(r, a, i) == {k \in Query(r) : row[k].owner = a /\ row[k].index = i}

\* Those of them with retired_at IS NULL.
Unretired(r, a, i) == {k \in Owned(r, a, i) : ~Retired(row[k])}

-----------------------------------------------------------------------------
\* Publish: the hash is the primary key, owner and index are unique too.
Publish(r, a, i, h, s) ==
  /\ Cardinality(Published) < MaxRows
  /\ Validate(s)
  /\ row[<<r, h>>] = NoRow
  /\ Owned(r, a, i) = {}
  /\ row' = [row EXCEPT ![<<r, h>>] =
               [owner |-> a, index |-> i, retired |-> Never, set |-> s]]
  /\ UNCHANGED <<now, settling, walk, members>>

\* Mutant: retiring again moves the stamp.
Retire_Again(r, a, i) ==
  /\ \E k \in Owned(r, a, i) : row' = [row EXCEPT ![k].retired = now]
  /\ UNCHANGED <<now, settling, walk, members>>

Retire(r, a, i) ==
  /\ \E k \in Unretired(r, a, i) : row' = [row EXCEPT ![k].retired = now]
  /\ UNCHANGED <<now, settling, walk, members>>

\* Mutant: what is empty on the sheet is left as it was, as an update from
\* the struct leaves it.
Settled_Merged(old, s) ==
  [s EXCEPT !.expires = IF @ = Never THEN old.expires ELSE @,
            !.expiryMode = IF @ = "" THEN old.expiryMode ELSE @,
            !.public = IF @ = NoText THEN old.public ELSE @,
            !.listed = IF @ = Never THEN old.listed ELSE @,
            !.disabled = @ \/ old.disabled,
            !.disabledMode = IF @ = "" THEN old.disabledMode ELSE @,
            !.hours = IF @ = NoHours THEN old.hours ELSE @]

\* Every column of the sheet is written, the absent ones too.
Settled(old, s) == s

\* UpdateSettings: the sheet is held to Validate, then the guarded update.
UpdateSettings(c, r, a, i, s) ==
  /\ settling[c] = None
  /\ Validate(s)
  /\ \E k \in Unretired(r, a, i) :
       /\ row' = [row EXCEPT ![k].set = Settled(@, s)]
       /\ settling' = [settling EXCEPT ![c] = k]
  /\ UNCHANGED <<now, walk, members>>

\* The row is read back by owner and index alone.
ReadBack(k) == Owned(k[1], row[k].owner, row[k].index)

\* What is read back is the answer.
Answer(c) ==
  /\ settling[c] # None
  /\ settling' = [settling EXCEPT ![c] = None]
  /\ UNCHANGED <<row, now, walk, members>>

\* Somebody browses: the first page, and the next one in a later call.
FirstPage(r, x) ==
  /\ walk.at = "idle"
  /\ \E R \in Orders(Listings(r, x)) :
       walk' = [at |-> "next", run |-> r, exclude |-> x,
                first |-> Page(Listings(r, x), R, 0),
                key |-> Listings(r, x), order |-> R]
  /\ UNCHANGED <<row, now, settling, members>>

NextPage ==
  /\ walk.at = "next"
  /\ walk' = Resting
  /\ UNCHANGED <<row, now, settling, members>>

\* The host enrols an actor, or deletes the actor's row.
HostChange(a) ==
  /\ members' = IF a \in members THEN members \ {a} ELSE members \cup {a}
  /\ UNCHANGED <<row, now, settling, walk>>

Tick ==
  /\ now < MaxTime
  /\ now' = now + 1
  /\ UNCHANGED <<row, settling, walk, members>>

Next ==
  \/ \E r \in Scopes :
       \/ \E o \in Offers, s \in Sheets : Publish(r, o[1], o[2], o[3], s)
       \/ \E a \in Actors, i \in Indexes : Retire(r, a, i)
       \/ \E c \in Calls, a \in Actors, i \in Indexes, s \in Sheets :
            UpdateSettings(c, r, a, i, s)
       \/ \E x \in Walkers : FirstPage(r, x)
  \/ \E c \in Calls : Answer(c)
  \/ \E a \in Actors : HostChange(a)
  \/ NextPage \/ Tick

Spec == Init /\ [][Next]_vars

-----------------------------------------------------------------------------
(* The statements of the stores and the predicates of the model say the    *)
(* same of every address at every minute, in the scope of every run:       *)
(* what resolves is what is live; either listing is what is in the         *)
(* directory but for whom it excludes, Search's but for whom the host has  *)
(* no row of; it is shown as available when it is open, and a conversation *)
(* is silenced by nothing that leaves the address open.                    *)
StatementsAgree ==
  \A r \in Scopes :
    /\ \A h \in Hashes : LET a == row[<<r, h>>] IN
         a # NoRow => /\ (ResolveRows(r, h) # {}) = Live(a, now)
                      /\ Silenced(a, now) => ~Open(a, now)
    /\ \A x \in Actors \cup {NoActor} :
         LET there == {k \in Published : /\ k[1] = r /\ InDirectory(row[k], now)
                                         /\ row[k].owner # x} IN
         /\ ListListed(r, x) = there
         /\ SearchRows(r, x) = {k \in there : row[k].owner \in members}
         /\ \A k \in there : Available(row[k], now) = Open(row[k], now)

(* Settings are one sheet, whole and well formed, whichever of two writes  *)
(* came last; and a write that took is answered with its row, be it        *)
(* settled again or retired meanwhile, and never with "not found".         *)
OneSheet ==
  /\ \A k \in Published : row[k].set \in Sheets /\ Validate(row[k].set)
  /\ \A c \in Calls : settling[c] # None => ReadBack(settling[c]) = {settling[c]}

\* The listing entered, left or is sorted otherwise since the first page.
Moved(k) ==
  LET this == Listings(walk.run, walk.exclude) IN
  ~(k \in DOMAIN walk.key \cap DOMAIN this /\ walk.key[k] = this[k])

(* The next page, whenever it is read and whatever order ties come in,     *)
(* shows again a listing that did not move only if another has come before *)
(* it that did, or ties with it; and passes one over only if another that  *)
(* was before it has moved, or ties with it.                               *)
PagesTile ==
  walk.at = "next" =>
    LET this == Listings(walk.run, walk.exclude)
        crosses(j, k) == Moved(j) \/ this[j] = this[k]
    IN  \A R \in Orders(this) : \A k \in DOMAIN this :
          LET second == Page(this, R, Limit) IN
          ~Moved(k) =>
            /\ k \in walk.first \cap second =>
                 \E j \in Ahead(this, R, k) \ Ahead(walk.key, walk.order, k) :
                   crosses(j, k)
            /\ /\ k \notin walk.first \cup second
               /\ Cardinality(Ahead(this, R, k)) < 2 * Limit
               => \E j \in Ahead(walk.key, walk.order, k) \ Ahead(this, R, k) :
                    crosses(j, k)

(* A retired address is retired for good: no sheet in flight, no second    *)
(* retirement and no other owner's publishing touches its row again.       *)
RetiredForGood ==
  [][\A k \in Keys : row[k] # NoRow /\ Retired(row[k]) => row'[k] = row[k]]_vars
=============================================================================
