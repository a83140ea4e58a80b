----------------------------- MODULE Provisioning -----------------------------
(***************************************************************************)
(* Provision, which every server runs when it starts: the tables of an     *)
(* older release are adopted under their declared names, what is missing   *)
(* is created, and the caps of the notifications are indexed.  It is a     *)
(* long row of statements in no transaction, so that a server may die, or  *)
(* be refused, between any two of them, and servers may start together.    *)
(*                                                                         *)
(* Of a table the model keeps its rows, which of its renamed columns go by *)
(* the old and which by the declared name, and whether it still has the    *)
(* older release's indexes.  A value under an old name beside a declared   *)
(* column reads back empty.  The statements are the database's; what       *)
(* spec.Migrate does is taken from how it is used here.                    *)
(***************************************************************************)
EXTENDS Naturals, FiniteSets

CONSTANTS
  Servers,      \* the servers that may start
  ObjectCount,  \* how many objects are declared
  Columns,      \* the renamed columns, of any object
  NoColumn,     \* no column in hand
  ColumnsOf,    \* object -> the renamed columns it declares
  Rows,         \* the rows an older release may have left
  Caps,         \* how many partial unique indexes the notifications have
  MaxFailures,  \* bound: how many statements fail or servers die
  MaxStarts     \* bound: how many times a server is started

Objects == 1 .. ObjectCount            \* in the order they are declared

ASSUME CountAssumption == ObjectCount \in Nat \ {0}
ASSUME ColumnsAssumption == ColumnsOf \in [Objects -> SUBSET Columns]
ASSUME NoColumnAssumption == NoColumn \notin Columns
ASSUME CapsAssumption == Caps \in Nat
ASSUME BoundsAssumption == {MaxFailures, MaxStarts} \subseteq Nat

VARIABLES
  legacy,     \* object -> the table under its old name, or NoTable
  declared,   \* object -> the table under its declared name, or NoTable
  caps,       \* the caps that are indexed
  proc,       \* server -> where it is in Provision
  starts,     \* how many times a server was started
  failures,   \* how many failures are still to come
  had         \* object -> the rows there were at first (history)

tables == <<legacy, declared, caps>>
vars == <<tables, proc, starts, failures, had>>

-----------------------------------------------------------------------------
Table == [rows: SUBSET Rows, old: SUBSET Columns, new: SUBSET Columns,
          stale: BOOLEAN]              \* the older release's indexes
NoTable == [rows |-> {}]

Proc == [at: {"down", "legacy", "beside", "count", "rename", "dropIndexes",
              "declared", "held", "already", "renameColumn", "migrate",
              "cap", "serving"},
         object: Objects,
         todo: SUBSET Columns,         \* the columns still to look at
         column: Columns \cup {NoColumn},  \* the one in hand
         cap: 0 .. Caps]               \* the caps that were indexed

Down == [at |-> "down", object |-> 1, todo |-> {}, column |-> NoColumn,
         cap |-> 0]

TypeOK ==
  /\ legacy \in [Objects -> Table \cup {NoTable}]
  /\ declared \in [Objects -> Table \cup {NoTable}]
  /\ caps \subseteq 1 .. Caps
  /\ proc \in [Servers -> Proc]
  /\ starts \in 0 .. MaxStarts
  /\ failures \in 0 .. MaxFailures
  /\ had \in [Objects -> SUBSET Rows]

\* An object as an older release left it, and as it is declared.
Old(o, r) == [rows |-> r, old |-> ColumnsOf[o], new |-> {}, stale |-> TRUE]
New(o, r) == [rows |-> r, old |-> {}, new |-> ColumnsOf[o], stale |-> FALSE]

\* Nothing yet, the older release's table, the declared one, or both.
Init ==
  /\ had \in [Objects -> SUBSET Rows]
  /\ \E l \in [Objects -> SUBSET Rows], kind \in [Objects -> {"none", "old", "new", "both"}] :
       /\ \A o \in Objects : /\ l[o] \subseteq had[o]
                             /\ kind[o] = "none" => had[o] = {}
                             /\ kind[o] = "old" => l[o] = had[o]
                             /\ kind[o] \in {"none", "new"} => l[o] = {}
       /\ legacy = [o \in Objects |-> IF kind[o] \in {"old", "both"}
                                      THEN Old(o, l[o]) ELSE NoTable]
       /\ declared = [o \in Objects |-> IF kind[o] \in {"new", "both"}
                                        THEN New(o, had[o] \ l[o]) ELSE NoTable]
  /\ caps = {}
  /\ proc = [p \in Servers |-> Down]
  /\ starts = 0
  /\ failures \in 0 .. MaxFailures

-----------------------------------------------------------------------------
At(p, point) == proc[p].at = point
Obj(p) == proc[p].object
Goto(p, call) == proc' = [proc EXCEPT ![p] = call]
To(p, point) == Goto(p, [proc[p] EXCEPT !.at = point])

\* Provision returns an error, and the server does not come up.
Refuse(p) == Goto(p, Down)

Reads == UNCHANGED <<tables, starts, failures, had>>
Alters == UNCHANGED <<legacy, caps, starts, failures, had>>

\* On to the next object of a pass, or to the step after the pass.
NextObject(p, again, after) ==
  Goto(p, IF Obj(p) + 1 \in Objects
          THEN [Down EXCEPT !.at = again, !.object = Obj(p) + 1]
          ELSE [Down EXCEPT !.at = after])

Start(p) ==
  /\ At(p, "down")
  /\ starts < MaxStarts
  /\ starts' = starts + 1
  /\ To(p, "legacy")
  /\ UNCHANGED <<tables, failures, had>>

-----------------------------------------------------------------------------
(* adoptLegacy, for one object after the other.                            *)

HasLegacy(p) ==
  /\ At(p, "legacy")
  /\ To(p, IF legacy[Obj(p)] = NoTable THEN "declared" ELSE "beside")
  /\ Reads

\* Mutant: the declared table is not looked for.
HasBeside_Unasked(p) ==
  /\ At(p, "beside")
  /\ To(p, "rename")
  /\ Reads

\* The declared table may be there beside the old one.
HasBeside(p) ==
  /\ At(p, "beside")
  /\ To(p, IF declared[Obj(p)] = NoTable THEN "rename" ELSE "count")
  /\ Reads

\* Mutant: an old table beside the declared one is passed over.
CountStranded_None(p) ==
  /\ At(p, "count")
  /\ To(p, "declared")
  /\ Reads

\* RowCount of the old table, which another server may have taken.
CountStranded(p) ==
  /\ At(p, "count")
  /\ LET o == Obj(p) IN
     IF legacy[o] = NoTable \/ legacy[o].rows # {}
     THEN Refuse(p) ELSE To(p, "declared")
  /\ Reads

\* alter table ... rename to, refused when another server was first.
RenameTable(p) ==
  /\ At(p, "rename")
  /\ LET o == Obj(p) IN
     IF legacy[o] # NoTable /\ declared[o] = NoTable
     THEN /\ declared' = [declared EXCEPT ![o] = legacy[o]]
          /\ legacy' = [legacy EXCEPT ![o] = NoTable]
          /\ To(p, "dropIndexes")
     ELSE Refuse(p) /\ UNCHANGED <<legacy, declared>>
  /\ UNCHANGED <<caps, starts, failures, had>>

DropIndexes(p) ==
  /\ At(p, "dropIndexes")
  /\ declared' = [declared EXCEPT ![Obj(p)].stale = FALSE]
  /\ To(p, "declared")
  /\ Alters

\* renameColumns, of a table that is there.
LookAt(p, todo) ==
  IF todo = {} THEN NextObject(p, "legacy", "migrate")
  ELSE Goto(p, [proc[p] EXCEPT !.at = "held", !.todo = todo,
                                  !.column = NoColumn])

HasDeclared(p) ==
  /\ At(p, "declared")
  /\ LookAt(p, IF declared[Obj(p)] = NoTable THEN {} ELSE ColumnsOf[Obj(p)])
  /\ Reads

Take(p, c) == Goto(p, [proc[p] EXCEPT !.at = "already", !.column = c])

\* The renamed columns are a Go map: they come in any order.
HasOld(p) ==
  /\ At(p, "held")
  /\ \E c \in proc[p].todo :
       IF c \in declared[Obj(p)].old THEN Take(p, c)
       ELSE LookAt(p, proc[p].todo \ {c})
  /\ Reads

HasNew(p) ==
  /\ At(p, "already")
  /\ LET c == proc[p].column IN
     IF c \in declared[Obj(p)].new
     THEN LookAt(p, proc[p].todo \ {c})
     ELSE To(p, "renameColumn")
  /\ Reads

RenameColumn(p) ==
  /\ At(p, "renameColumn")
  /\ LET t == declared[Obj(p)]
         c == proc[p].column IN
     IF c \in t.old \ t.new
     THEN /\ declared' = [declared EXCEPT ![Obj(p)] =
                            [t EXCEPT !.old = @ \ {c}, !.new = @ \cup {c}]]
          /\ LookAt(p, proc[p].todo \ {c})
     ELSE Refuse(p) /\ UNCHANGED declared
  /\ Alters

-----------------------------------------------------------------------------
\* spec.Migrate: a missing table is created, missing columns are added.
Migrate(p) ==
  /\ At(p, "migrate")
  /\ LET o == Obj(p) IN
     declared' = [declared EXCEPT ![o] =
                    IF @ = NoTable THEN New(o, {})
                    ELSE [@ EXCEPT !.new = ColumnsOf[o]]]
  /\ NextObject(p, "migrate", IF Caps = 0 THEN "serving" ELSE "cap")
  /\ Alters

\* syncNotificationCaps: create unique index if not exists.
SyncNotificationCap(p) ==
  /\ At(p, "cap")
  /\ LET n == proc[p].cap + 1 IN
     /\ caps' = caps \cup {n}
     /\ Goto(p, [proc[p] EXCEPT !.cap = n,
                                !.at = IF n = Caps THEN "serving" ELSE "cap"])
  /\ UNCHANGED <<legacy, declared, starts, failures, had>>

-----------------------------------------------------------------------------
\* A statement fails, or the server dies, wherever it is.
Fail(p) ==
  /\ ~At(p, "down")
  /\ failures > 0
  /\ failures' = failures - 1
  /\ Refuse(p)
  /\ UNCHANGED <<tables, starts, had>>

AdoptLegacy(p) ==
  \/ HasLegacy(p) \/ HasBeside(p) \/ CountStranded(p)
  \/ RenameTable(p) \/ DropIndexes(p)
  \/ HasDeclared(p) \/ HasOld(p) \/ HasNew(p) \/ RenameColumn(p)

Provision(p) == AdoptLegacy(p) \/ Migrate(p) \/ SyncNotificationCap(p)

Next == \E p \in Servers : Start(p) \/ Provision(p) \/ Fail(p)

Spec == Init /\ [][Next]_vars

\* A server that lives runs the statements of Provision one after another;
\* nothing says that one which was refused or died is started again.
FairSpec == Spec /\ \A p \in Servers : WF_vars(Provision(p))

-----------------------------------------------------------------------------
(* A server that serves finds every row of the older release where it      *)
(* reads, each value under the name it reads it by, and the caps in force, *)
(* whatever died or was refused before it, and whoever starts beside it.   *)
ServedIsWhole ==
  (\E p \in Servers : At(p, "serving")) =>
    /\ \A o \in Objects :
         /\ declared[o] # NoTable
         /\ had[o] \subseteq declared[o].rows
         /\ declared[o].old = {}
         /\ declared[o].new = ColumnsOf[o]
    /\ caps = 1 .. Caps

\* Rows under the old name beside a declared table: Provision refuses.
Stranded == \E o \in Objects : legacy[o] # NoTable /\ declared[o] # NoTable
                               /\ legacy[o].rows # {}

(* Once nothing fails any more, a server that starts is enough for one to  *)
(* serve: no half-done provisioning stops the next, and two servers that   *)
(* start together do not refuse one another.                               *)
SomebodyServes ==
  (failures = 0 /\ \E p \in Servers : At(p, "legacy") /\ Obj(p) = 1)
    ~> (Stranded \/ \E p \in Servers : At(p, "serving"))
=============================================================================
