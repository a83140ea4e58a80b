------------------------- MODULE ProvisioningProofs -------------------------
(***************************************************************************)
(* What holds of Provision for any number of objects, renamed columns,     *)
(* caps and servers, and however often they die or are refused.            *)
(*                                                                         *)
(* ProvInv says what a server has seen to by the point it is at: an object *)
(* behind it is settled, the columns of the object at hand it has yet to   *)
(* look at hold all that go by old names, and so on.  It stays so because  *)
(* no statement of any server takes anything back (Kept): an older table   *)
(* does not come again, a declared one does not go, and a column does not  *)
(* get its old name back.  Placed and Settled are stated of tables given   *)
(* to them, since the same has to be said of those after a statement.      *)
(***************************************************************************)
EXTENDS Provisioning, TLAPS

Adopting == {"legacy", "beside", "count", "rename", "dropIndexes", "declared",
             "held", "already", "renameColumn"}

\* An object whose rows are all where they are read from, or which was never
\* there; and one that reads them by the declared names as well.
Placed(lg, dc, o) == lg[o].rows = {} /\ (dc[o] = NoTable => lg[o] = NoTable)
Settled(lg, dc, o) == Placed(lg, dc, o) /\ (dc[o] # NoTable => dc[o].old = {})

\* What a server at x has seen to, of the tables lg and dc and the caps cp.
SeenTo(x, lg, dc, cp) ==
  /\ x.at \in Adopting => \A o \in Objects : o < x.object => Settled(lg, dc, o)
  /\ x.at \in {"count", "dropIndexes", "held", "already", "renameColumn"} => dc[x.object] # NoTable
  /\ x.at = "dropIndexes" => lg[x.object] = NoTable
  /\ x.at \in {"declared", "held", "already", "renameColumn"} => Placed(lg, dc, x.object)
  /\ x.at \in {"held", "already", "renameColumn"} => dc[x.object].old \subseteq x.todo
  /\ x.at \in {"already", "renameColumn"} => x.column \in x.todo
  /\ x.at \in {"migrate", "cap", "serving"} => \A o \in Objects : Settled(lg, dc, o)
  /\ x.at = "migrate" => \A o \in Objects : o < x.object => dc[o] # NoTable
  /\ x.at \in {"cap", "serving"} => 1 .. x.cap \subseteq cp /\ \A o \in Objects : dc[o] # NoTable
  /\ x.at = "down" => x.object = 1
  /\ x.at = "cap" => x.cap < Caps
  /\ x.at = "serving" => x.cap = Caps

ServersSound == \A p \in Servers, x \in Proc : proc[p] = x => SeenTo(x, legacy, declared, caps)

\* A table has each renamed column by one name, and no row was lost.
TablesSound(lg, dc) ==
  \A o \in Objects :
    /\ lg[o] # NoTable => lg[o].old = ColumnsOf[o] /\ lg[o].new = {}
    /\ dc[o] # NoTable => dc[o].old \cap dc[o].new = {} /\ dc[o].old \cup dc[o].new = ColumnsOf[o]
    /\ had[o] \subseteq lg[o].rows \cup dc[o].rows

ProvInv == TypeOK /\ ServersSound /\ TablesSound(legacy, declared)

LEMMA TableIsNotNoTable == \A t \in Table : t # NoTable
  <1> SUFFICES ASSUME NEW t \in Table, t = NoTable PROVE FALSE
    OBVIOUS
  <1>1. DOMAIN t = {"rows", "old", "new", "stale"}
    BY DEF Table
  <1>2. DOMAIN t = {"rows"}
    BY DEF NoTable
  <1> QED
    BY <1>1, <1>2

LEMMA FreshTables ==
  ASSUME NEW o \in Objects, NEW r \in SUBSET Rows
  PROVE  /\ Old(o, r) \in Table /\ New(o, r) \in Table
         /\ Old(o, r) # NoTable /\ New(o, r) # NoTable
         /\ Old(o, r).rows = r /\ Old(o, r).old = ColumnsOf[o] /\ Old(o, r).new = {}
         /\ New(o, r).rows = r /\ New(o, r).old = {} /\ New(o, r).new = ColumnsOf[o]
  <1>1. Old(o, r) \in Table /\ New(o, r) \in Table
    BY ColumnsAssumption DEF Old, New, Table
  <1> QED
    BY <1>1, TableIsNotNoTable DEF Old, New

LEMMA DownServer ==
  /\ Down \in Proc /\ Down.at = "down" /\ Down.object = 1
  /\ \A lg, dc, cp : SeenTo(Down, lg, dc, cp)
  <1>1. Down \in Proc /\ Down.at = "down" /\ Down.object = 1
    BY CountAssumption, CapsAssumption DEF Down, Proc, Objects
  <1> QED
    BY <1>1 DEF SeenTo, Adopting

LEMMA InitProvInv == Init => ProvInv
  <1> SUFFICES ASSUME Init PROVE ProvInv
    OBVIOUS
  <1>1. PICK l \in [Objects -> SUBSET Rows], kind \in [Objects -> {"none", "old", "new", "both"}] :
          /\ \A o \in Objects : /\ l[o] \subseteq had[o]
                                /\ kind[o] = "none" => had[o] = {}
                                /\ kind[o] = "old" => l[o] = had[o]
                                /\ kind[o] \in {"none", "new"} => l[o] = {}
          /\ legacy = [o \in Objects |-> IF kind[o] \in {"old", "both"}
                                         THEN Old(o, l[o]) ELSE NoTable]
          /\ declared = [o \in Objects |-> IF kind[o] \in {"new", "both"}
                                           THEN New(o, had[o] \ l[o]) ELSE NoTable]
    BY DEF Init
  <1>2. \A o \in Objects : had[o] \in SUBSET Rows /\ l[o] \in SUBSET Rows /\ had[o] \ l[o] \in SUBSET Rows
    BY DEF Init
  <1>3. TypeOK
    <2>1. legacy \in [Objects -> Table \cup {NoTable}]
      BY <1>1, <1>2, FreshTables
    <2>2. declared \in [Objects -> Table \cup {NoTable}]
      BY <1>1, <1>2, FreshTables
    <2> QED
      BY <2>1, <2>2, DownServer, BoundsAssumption DEF Init, TypeOK
  <1>4. ServersSound
    BY DownServer DEF Init, ServersSound
  <1>5. TablesSound(legacy, declared)
    <2> SUFFICES ASSUME NEW o \in Objects
        PROVE /\ legacy[o] # NoTable => legacy[o].old = ColumnsOf[o] /\ legacy[o].new = {}
              /\ declared[o] # NoTable => declared[o].old \cap declared[o].new = {}
                                          /\ declared[o].old \cup declared[o].new = ColumnsOf[o]
              /\ had[o] \subseteq legacy[o].rows \cup declared[o].rows
      BY DEF TablesSound
    <2> DEFINE A == Old(o, l[o])
               B == New(o, had[o] \ l[o])
    <2>1. /\ legacy[o] = IF kind[o] \in {"old", "both"} THEN A ELSE NoTable
          /\ declared[o] = IF kind[o] \in {"new", "both"} THEN B ELSE NoTable
          /\ kind[o] \in {"none", "old", "new", "both"}
      BY <1>1
    <2>2. /\ A.rows = l[o] /\ A.old = ColumnsOf[o] /\ A.new = {}
          /\ B.rows = had[o] \ l[o] /\ B.old = {} /\ B.new = ColumnsOf[o]
          /\ NoTable.rows = {}
      BY <1>2, FreshTables DEF NoTable
    <2> HIDE DEF A, B
    <2> QED
      BY <1>1, <2>1, <2>2
  <1> QED
    BY <1>3, <1>4, <1>5 DEF ProvInv

-----------------------------------------------------------------------------
(* What one server has seen to, no other undoes.                           *)

\* A statement takes nothing back: it brings no older table into being, and
\* takes no declared one away nor any column back to its old name.
Kept(lg, dc, cp) ==
  /\ \A o \in Objects :
       /\ legacy[o] = NoTable => lg[o] = NoTable
       /\ declared[o] # NoTable => dc[o] # NoTable /\ dc[o].old \subseteq declared[o].old
       /\ Placed(legacy, declared, o) => Placed(lg, dc, o)
       /\ Settled(legacy, declared, o) => Settled(lg, dc, o)
  /\ caps \subseteq cp

LEMMA SeenToStays ==
  ASSUME NEW x \in Proc, NEW lg, NEW dc, NEW cp, Kept(lg, dc, cp),
         SeenTo(x, legacy, declared, caps)
  PROVE  SeenTo(x, lg, dc, cp)
  <1>1. x.object \in Objects
    BY DEF Proc
  <1> QED
    BY <1>1 DEF SeenTo, Kept, Adopting

LEMMA ServerMoves ==
  ASSUME ProvInv, Kept(legacy', declared', caps'), NEW p \in Servers, NEW y \in Proc,
         Goto(p, y), SeenTo(y, legacy', declared', caps')
  PROVE  proc' \in [Servers -> Proc] /\ ServersSound'
  <1>1. proc' \in [Servers -> Proc] /\ proc'[p] = y
        /\ \A q \in Servers \ {p} : proc'[q] = proc[q]
    BY DEF Goto, ProvInv, TypeOK
  <1>2. ASSUME NEW q \in Servers, NEW x \in Proc, proc'[q] = x
        PROVE  SeenTo(x, legacy', declared', caps')
    <2>1. CASE q = p
      BY <1>1, <1>2, <2>1
    <2>2. CASE q # p
      <3>1. SeenTo(x, legacy, declared, caps)
        BY <1>1, <1>2, <2>2 DEF ProvInv, ServersSound
      <3> QED
        BY <3>1, SeenToStays
    <2> QED
      BY <2>1, <2>2
  <1> QED
    BY <1>1, <1>2 DEF ServersSound

\* A statement that only reads.
LEMMA OnlyReads ==
  ASSUME ProvInv, UNCHANGED <<tables, had>>, NEW p \in Servers,
         \E y \in Proc : Goto(p, y) /\ SeenTo(y, legacy, declared, caps)
  PROVE  /\ proc' \in [Servers -> Proc] /\ ServersSound' /\ TablesSound(legacy, declared)'
         /\ legacy' = legacy /\ declared' = declared /\ caps' = caps /\ had' = had
  <1>1. legacy' = legacy /\ declared' = declared /\ caps' = caps /\ had' = had
    BY DEF tables
  <1>2. Kept(legacy', declared', caps')
    BY <1>1 DEF Kept
  <1>3. TablesSound(legacy, declared)'
    BY <1>1 DEF ProvInv, TablesSound
  <1> QED
    BY <1>1, <1>2, <1>3, ServerMoves

\* On to the next object of the adoption, once this one is settled.
LEMMA NextAdopted ==
  ASSUME NEW p \in Servers, proc[p] \in Proc, NEW lg, NEW dc, NEW cp,
         \A o \in Objects : o <= Obj(p) => Settled(lg, dc, o),
         NextObject(p, "legacy", "migrate")
  PROVE  \E y \in Proc : Goto(p, y) /\ SeenTo(y, lg, dc, cp)
  <1>1. Obj(p) \in Objects /\ Obj(p) \in Nat /\ \A o \in Objects : o \in Nat
    BY CountAssumption DEF Proc, Obj, Objects
  <1>2. CASE Obj(p) + 1 \in Objects
    <2> DEFINE y == [Down EXCEPT !.at = "legacy", !.object = Obj(p) + 1]
    <2>1. y \in Proc /\ y.at = "legacy" /\ y.object = Obj(p) + 1 /\ Goto(p, y)
      BY <1>2, DownServer DEF NextObject, Proc, Down
    <2> HIDE DEF y
    <2>2. \A o \in Objects : o < y.object => Settled(lg, dc, o)
      <3>1. \A o \in Objects : o < Obj(p) + 1 => o <= Obj(p)
        BY <1>1
      <3> QED
        BY <2>1, <3>1
    <2> QED
      BY <2>1, <2>2 DEF SeenTo, Adopting
  <1>3. CASE Obj(p) + 1 \notin Objects
    <2> DEFINE y == [Down EXCEPT !.at = "migrate"]
    <2>1. y \in Proc /\ y.at = "migrate" /\ y.object = 1 /\ Goto(p, y)
      BY <1>3, DownServer DEF NextObject, Proc, Down
    <2> HIDE DEF y
    <2>2. \A o \in Objects : Settled(lg, dc, o)
      BY <1>1, <1>3, CountAssumption DEF Objects
    <2>3. \A o \in Objects : ~(o < 1)
      BY CountAssumption DEF Objects
    <2> QED
      BY <2>1, <2>2, <2>3 DEF SeenTo, Adopting
  <1> QED
    BY <1>2, <1>3

\* On to the next column, with only todo still under old names.
LEMMA LookAtSeenTo ==
  ASSUME NEW p \in Servers, proc[p] \in Proc, NEW lg, NEW dc, NEW cp, NEW todo \in SUBSET Columns,
         \A o \in Objects : o < Obj(p) => Settled(lg, dc, o),
         Placed(lg, dc, Obj(p)),
         dc[Obj(p)] # NoTable => dc[Obj(p)].old \subseteq todo,
         todo # {} => dc[Obj(p)] # NoTable,
         LookAt(p, todo)
  PROVE  \E y \in Proc : Goto(p, y) /\ SeenTo(y, lg, dc, cp)
  <1>1. Obj(p) \in Objects /\ Obj(p) \in Nat /\ \A o \in Objects : o \in Nat
    BY CountAssumption DEF Proc, Obj, Objects
  <1>2. CASE todo = {}
    <2>1. NextObject(p, "legacy", "migrate")
      BY <1>2 DEF LookAt
    <2>2. Settled(lg, dc, Obj(p))
      BY <1>2 DEF Settled
    <2>3. \A o \in Objects : o <= Obj(p) => o < Obj(p) \/ o = Obj(p)
      BY <1>1
    <2> QED
      BY <2>1, <2>2, <2>3, NextAdopted
  <1>3. CASE todo # {}
    <2> DEFINE y == [proc[p] EXCEPT !.at = "held", !.todo = todo, !.column = NoColumn]
    <2>1. y \in Proc /\ y.at = "held" /\ y.object = Obj(p) /\ y.todo = todo
      BY DEF Proc, Obj
    <2>2. Goto(p, y)
      BY <1>3 DEF LookAt
    <2> HIDE DEF y
    <2> QED
      BY <1>3, <2>1, <2>2 DEF SeenTo, Adopting
  <1> QED
    BY <1>2, <1>3

-----------------------------------------------------------------------------
(* Each statement.                                                         *)

LEMMA InServer ==
  ASSUME ProvInv, NEW p \in Servers
  PROVE  /\ proc[p] \in Proc /\ SeenTo(proc[p], legacy, declared, caps)
         /\ Obj(p) \in Objects
         /\ legacy[Obj(p)] \in Table \cup {NoTable}
         /\ declared[Obj(p)] \in Table \cup {NoTable}
  <1>1. proc[p] \in Proc
    BY DEF ProvInv, TypeOK
  <1>2. Obj(p) \in Objects
    BY <1>1 DEF Proc, Obj
  <1> QED
    BY <1>1, <1>2 DEF ProvInv, ServersSound, TypeOK

\* A server that goes on from one point to another with the same in hand.
LEMMA ToPoint ==
  ASSUME NEW p \in Servers, proc[p] \in Proc,
         NEW point \in {"legacy", "beside", "count", "rename", "dropIndexes", "declared",
                        "renameColumn"},
         To(p, point)
  PROVE  \E y \in Proc : /\ Goto(p, y) /\ y.at = point /\ y.object = Obj(p)
                         /\ y.todo = proc[p].todo /\ y.column = proc[p].column
  <1> DEFINE y == [proc[p] EXCEPT !.at = point]
  <1>1. /\ y \in Proc /\ y.at = point /\ y.object = Obj(p)
        /\ y.todo = proc[p].todo /\ y.column = proc[p].column
    BY DEF Proc, Obj
  <1>2. Goto(p, y)
    BY DEF To
  <1> HIDE DEF y
  <1> QED
    BY <1>1, <1>2

LEMMA RefuseSeenTo ==
  ASSUME NEW p \in Servers, Refuse(p), NEW lg, NEW dc, NEW cp
  PROVE  \E y \in Proc : Goto(p, y) /\ SeenTo(y, lg, dc, cp)
  BY DownServer DEF Refuse

LEMMA ReadKeeps ==
  ASSUME ProvInv, NEW p \in Servers, Reads,
         \E y \in Proc : Goto(p, y) /\ SeenTo(y, legacy, declared, caps)
  PROVE  ProvInv'
  <1>1. UNCHANGED <<tables, had>> /\ starts' = starts /\ failures' = failures
    BY DEF Reads
  <1>2. /\ proc' \in [Servers -> Proc] /\ ServersSound' /\ TablesSound(legacy, declared)'
        /\ legacy' = legacy /\ declared' = declared /\ caps' = caps /\ had' = had
    BY <1>1, OnlyReads
  <1>3. TypeOK'
    BY <1>1, <1>2 DEF ProvInv, TypeOK
  <1> QED
    BY <1>2, <1>3 DEF ProvInv

LEMMA StartAndFailKeep ==
  ASSUME ProvInv, NEW p \in Servers, Start(p) \/ Fail(p)
  PROVE  ProvInv'
  <1>1. UNCHANGED <<tables, had>> /\ starts' \in 0 .. MaxStarts /\ failures' \in 0 .. MaxFailures
    BY BoundsAssumption DEF Start, Fail, ProvInv, TypeOK
  <1>2. \E y \in Proc : Goto(p, y) /\ SeenTo(y, legacy, declared, caps)
    <2>1. CASE Start(p)
      <3>1. Obj(p) = 1 /\ proc[p] \in Proc /\ To(p, "legacy")
        BY <2>1, InServer DEF Start, At, SeenTo, Obj
      <3>2. \E y \in Proc : Goto(p, y) /\ y.at = "legacy" /\ y.object = 1
        BY <3>1, ToPoint
      <3>3. \A o \in Objects : ~(o < 1)
        BY CountAssumption DEF Objects
      <3> QED
        BY <3>2, <3>3 DEF SeenTo, Adopting
    <2>2. CASE Fail(p)
      BY <2>2, RefuseSeenTo DEF Fail
    <2> QED
      BY <2>1, <2>2
  <1>3. /\ proc' \in [Servers -> Proc] /\ ServersSound' /\ TablesSound(legacy, declared)'
        /\ legacy' = legacy /\ declared' = declared /\ caps' = caps /\ had' = had
    BY <1>1, <1>2, OnlyReads
  <1>4. TypeOK'
    BY <1>1, <1>3 DEF ProvInv, TypeOK
  <1> QED
    BY <1>3, <1>4 DEF ProvInv

LEMMA LookupsKeep ==
  ASSUME ProvInv, NEW p \in Servers,
         HasLegacy(p) \/ HasBeside(p) \/ CountStranded(p) \/ HasDeclared(p) \/ HasOld(p) \/ HasNew(p)
  PROVE  ProvInv'
  <1> DEFINE o == Obj(p)
             lg == legacy
             dc == declared
  <1>1. /\ proc[p] \in Proc /\ SeenTo(proc[p], lg, dc, caps) /\ o \in Objects
        /\ o = proc[p].object
    BY InServer DEF Obj
  <1>2. proc[p].at \in Adopting => \A q \in Objects : q < o => Settled(lg, dc, q)
    BY <1>1 DEF SeenTo
  <1>3. Reads
    BY DEF HasLegacy, HasBeside, CountStranded, HasDeclared, HasOld, HasNew
  <1>4. \E y \in Proc : Goto(p, y) /\ SeenTo(y, legacy, declared, caps)
    <2>1. CASE HasLegacy(p)
      <3>1. proc[p].at \in Adopting
        BY <2>1 DEF HasLegacy, At, Adopting
      <3>2. CASE legacy[o] = NoTable
        <4>1. PICK y \in Proc : Goto(p, y) /\ y.at = "declared" /\ y.object = o
          BY <1>1, <2>1, <3>2, ToPoint DEF HasLegacy
        <4>2. Placed(lg, dc, o)
          BY <3>2 DEF Placed, NoTable
        <4> QED
          BY <1>1, <1>2, <3>1, <4>1, <4>2 DEF SeenTo, Adopting
      <3>3. CASE legacy[o] # NoTable
        <4>1. PICK y \in Proc : Goto(p, y) /\ y.at = "beside" /\ y.object = o
          BY <1>1, <2>1, <3>3, ToPoint DEF HasLegacy
        <4> QED
          BY <1>1, <1>2, <3>1, <4>1 DEF SeenTo, Adopting
      <3> QED
        BY <3>2, <3>3
    <2>2. CASE HasBeside(p)
      <3>1. proc[p].at \in Adopting
        BY <2>2 DEF HasBeside, At, Adopting
      <3>2. PICK y \in Proc : /\ Goto(p, y) /\ y.object = o
                              /\ y.at = IF declared[o] = NoTable THEN "rename" ELSE "count"
        BY <1>1, <2>2, ToPoint DEF HasBeside
      <3> QED
        BY <1>1, <1>2, <3>1, <3>2 DEF SeenTo, Adopting
    <2>3. CASE CountStranded(p)
      <3>1. proc[p].at = "count" /\ declared[o] # NoTable
        BY <1>1, <2>3 DEF CountStranded, At, SeenTo
      <3>2. CASE legacy[o] = NoTable \/ legacy[o].rows # {}
        BY <2>3, <3>2, RefuseSeenTo DEF CountStranded
      <3>3. CASE ~(legacy[o] = NoTable \/ legacy[o].rows # {})
        <4>1. PICK y \in Proc : Goto(p, y) /\ y.at = "declared" /\ y.object = o
          BY <1>1, <2>3, <3>3, ToPoint DEF CountStranded
        <4>2. Placed(lg, dc, o)
          BY <3>1, <3>3 DEF Placed
        <4> QED
          BY <1>1, <1>2, <3>1, <4>1, <4>2 DEF SeenTo, Adopting
      <3> QED
        BY <3>2, <3>3
    <2>4. CASE HasDeclared(p)
      <3>1. proc[p].at = "declared" /\ Placed(lg, dc, o)
        BY <1>1, <2>4 DEF HasDeclared, At, SeenTo
      <3>2. PICK todo \in SUBSET Columns :
              todo = IF declared[o] = NoTable THEN {} ELSE ColumnsOf[o]
        BY <1>1, ColumnsAssumption
      <3>3. LookAt(p, todo)
        BY <2>4, <3>2 DEF HasDeclared
      <3>4. declared[o] # NoTable => declared[o].old \subseteq todo
        BY <1>1, <3>2 DEF ProvInv, TablesSound
      <3>5. todo # {} => declared[o] # NoTable
        BY <3>2
      <3> QED
        BY <1>1, <1>2, <3>1, <3>3, <3>4, <3>5, LookAtSeenTo DEF Adopting
    <2>5. CASE HasOld(p)
      <3>1. /\ proc[p].at = "held" /\ Placed(lg, dc, o) /\ dc[o] # NoTable
            /\ dc[o].old \subseteq proc[p].todo
        BY <1>1, <2>5 DEF HasOld, At, SeenTo
      <3>2. PICK c \in proc[p].todo :
              IF c \in declared[o].old THEN Take(p, c) ELSE LookAt(p, proc[p].todo \ {c})
        BY <2>5 DEF HasOld
      <3>3. proc[p].todo \subseteq Columns
        BY <1>1 DEF Proc
      <3>4. CASE c \in declared[o].old
        <4> DEFINE y == [proc[p] EXCEPT !.at = "already", !.column = c]
        <4>1. y \in Proc /\ y.at = "already" /\ y.object = o /\ y.todo = proc[p].todo /\ y.column = c
          BY <1>1, <3>2, <3>3 DEF Proc
        <4>2. Goto(p, y)
          BY <3>2, <3>4 DEF Take
        <4> HIDE DEF y
        <4> QED
          BY <1>1, <1>2, <3>1, <3>2, <4>1, <4>2 DEF SeenTo, Adopting
      <3>5. CASE c \notin declared[o].old
        <4>1. LookAt(p, proc[p].todo \ {c}) /\ proc[p].todo \ {c} \in SUBSET Columns
              /\ dc[o].old \subseteq proc[p].todo \ {c}
          BY <3>1, <3>2, <3>3, <3>5
        <4> QED
          BY <1>1, <1>2, <3>1, <4>1, LookAtSeenTo DEF Adopting
      <3> QED
        BY <3>4, <3>5
    <2>6. CASE HasNew(p)
      <3> DEFINE c == proc[p].column
      <3>1. /\ proc[p].at = "already" /\ Placed(lg, dc, o) /\ dc[o] # NoTable
            /\ dc[o].old \subseteq proc[p].todo /\ c \in proc[p].todo
        BY <1>1, <2>6 DEF HasNew, At, SeenTo
      <3>2. proc[p].todo \subseteq Columns
        BY <1>1 DEF Proc
      <3>3. CASE c \in dc[o].new
        <4>1. LookAt(p, proc[p].todo \ {c})
          BY <2>6, <3>3 DEF HasNew
        <4>2. c \notin dc[o].old
          BY <1>1, <3>1, <3>3 DEF ProvInv, TablesSound
        <4>3. proc[p].todo \ {c} \in SUBSET Columns /\ dc[o].old \subseteq proc[p].todo \ {c}
          BY <3>1, <3>2, <4>2
        <4> QED
          BY <1>1, <1>2, <3>1, <4>1, <4>3, LookAtSeenTo DEF Adopting
      <3>4. CASE c \notin dc[o].new
        <4>1. PICK y \in Proc : /\ Goto(p, y) /\ y.at = "renameColumn" /\ y.object = o
                                /\ y.todo = proc[p].todo /\ y.column = c
          BY <1>1, <2>6, <3>4, ToPoint DEF HasNew
        <4> QED
          BY <1>1, <1>2, <3>1, <4>1 DEF SeenTo, Adopting
      <3> QED
        BY <3>3, <3>4
    <2> QED
      BY <2>1, <2>2, <2>3, <2>4, <2>5, <2>6
  <1> QED
    BY <1>3, <1>4, ReadKeeps

\* A statement that alters the tables or the indexes.
LEMMA AlterKeeps ==
  ASSUME ProvInv, NEW p \in Servers,
         legacy' \in [Objects -> Table \cup {NoTable}],
         declared' \in [Objects -> Table \cup {NoTable}],
         caps' \subseteq 1 .. Caps, UNCHANGED <<starts, failures, had>>,
         Kept(legacy', declared', caps'), TablesSound(legacy', declared'),
         \E y \in Proc : Goto(p, y) /\ SeenTo(y, legacy', declared', caps')
  PROVE  ProvInv'
  <1>1. proc' \in [Servers -> Proc] /\ ServersSound'
    BY ServerMoves
  <1>2. TablesSound(legacy, declared)'
    BY DEF TablesSound
  <1>3. TypeOK'
    BY <1>1 DEF ProvInv, TypeOK
  <1> QED
    BY <1>1, <1>2, <1>3 DEF ProvInv

\* The declared table of one object is altered, or created.
LEMMA DeclaredKept ==
  ASSUME ProvInv, NEW o \in Objects, NEW t \in Table, UNCHANGED <<legacy, caps>>,
         declared' = [declared EXCEPT ![o] = t],
         declared[o] # NoTable => t.old \subseteq declared[o].old,
         t.old \cap t.new = {}, t.old \cup t.new = ColumnsOf[o],
         declared[o].rows \subseteq t.rows,
         declared[o] = NoTable => t.old = {} \/ ~Placed(legacy, declared, o)
  PROVE  /\ declared' \in [Objects -> Table \cup {NoTable}]
         /\ declared'[o] = t /\ t # NoTable
         /\ \A q \in Objects \ {o} : declared'[q] = declared[q]
         /\ Kept(legacy', declared', caps') /\ TablesSound(legacy', declared')
  <1>1. /\ declared' \in [Objects -> Table \cup {NoTable}]
        /\ declared'[o] = t /\ t # NoTable
        /\ \A q \in Objects \ {o} : declared'[q] = declared[q]
    BY TableIsNotNoTable DEF ProvInv, TypeOK
  <1>2. TablesSound(legacy', declared')
    BY <1>1 DEF ProvInv, TablesSound
  <1>3. Kept(legacy', declared', caps')
    <2>1. ASSUME NEW q \in Objects
          PROVE  /\ legacy[q] = NoTable => legacy'[q] = NoTable
                 /\ declared[q] # NoTable => declared'[q] # NoTable
                                             /\ declared'[q].old \subseteq declared[q].old
                 /\ Placed(legacy, declared, q) => Placed(legacy', declared', q)
                 /\ Settled(legacy, declared, q) => Settled(legacy', declared', q)
      <3>1. CASE q = o
        BY <1>1, <3>1 DEF Placed, Settled
      <3>2. CASE q # o
        BY <1>1, <3>2 DEF Placed, Settled
      <3> QED
        BY <3>1, <3>2
    <2> QED
      BY <2>1 DEF Kept
  <1> QED
    BY <1>1, <1>2, <1>3

LEMMA RenameTableKeeps ==
  ASSUME ProvInv, NEW p \in Servers, RenameTable(p)
  PROVE  ProvInv'
  <1> DEFINE o == Obj(p)
  <1>1. /\ proc[p] \in Proc /\ SeenTo(proc[p], legacy, declared, caps) /\ o \in Objects
        /\ legacy[o] \in Table \cup {NoTable}
    BY InServer
  <1>2. proc[p].at = "rename" /\ UNCHANGED <<caps, starts, failures, had>>
    BY DEF RenameTable, At
  <1>3. CASE legacy[o] # NoTable /\ declared[o] = NoTable
    <2>1. /\ declared' = [declared EXCEPT ![o] = legacy[o]]
          /\ legacy' = [legacy EXCEPT ![o] = NoTable]
          /\ To(p, "dropIndexes")
      BY <1>3 DEF RenameTable
    <2>2. /\ legacy' \in [Objects -> Table \cup {NoTable}]
          /\ declared' \in [Objects -> Table \cup {NoTable}]
          /\ legacy'[o] = NoTable /\ declared'[o] = legacy[o]
          /\ \A q \in Objects \ {o} : legacy'[q] = legacy[q] /\ declared'[q] = declared[q]
      BY <1>1, <2>1 DEF ProvInv, TypeOK
    <2>3. NoTable.rows = {}
      BY DEF NoTable
    <2>4. TablesSound(legacy', declared')
      <3>1. ASSUME NEW q \in Objects
            PROVE  /\ legacy'[q] # NoTable => legacy'[q].old = ColumnsOf[q] /\ legacy'[q].new = {}
                   /\ declared'[q] # NoTable =>
                        /\ declared'[q].old \cap declared'[q].new = {}
                        /\ declared'[q].old \cup declared'[q].new = ColumnsOf[q]
                   /\ had[q] \subseteq legacy'[q].rows \cup declared'[q].rows
        <4>1. CASE q = o
          BY <1>3, <2>2, <2>3, <4>1 DEF ProvInv, TablesSound
        <4>2. CASE q # o
          BY <2>2, <4>2 DEF ProvInv, TablesSound
        <4> QED
          BY <4>1, <4>2
      <3> QED
        BY <3>1 DEF TablesSound
    <2>5. Kept(legacy', declared', caps')
      <3>1. ~Placed(legacy, declared, o)
        BY <1>3 DEF Placed
      <3> QED
        BY <1>2, <1>3, <2>2, <3>1 DEF Kept, Settled, Placed
    <2>6. PICK y \in Proc : Goto(p, y) /\ y.at = "dropIndexes" /\ y.object = o
      BY <1>1, <2>1, ToPoint
    <2>7. SeenTo(y, legacy', declared', caps')
      <3>1. \A q \in Objects : q < o => Settled(legacy, declared, q)
        BY <1>1, <1>2 DEF SeenTo, Adopting, Obj
      <3>2. \A q \in Objects : q < o => Settled(legacy', declared', q)
        BY <2>5, <3>1 DEF Kept
      <3> QED
        BY <1>3, <2>2, <2>6, <3>2 DEF SeenTo, Adopting
    <2>8. caps' \subseteq 1 .. Caps
      BY <1>2 DEF ProvInv, TypeOK
    <2> QED
      BY <1>2, <2>2, <2>4, <2>5, <2>6, <2>7, <2>8, AlterKeeps
  <1>4. CASE ~(legacy[o] # NoTable /\ declared[o] = NoTable)
    <2>1. Refuse(p) /\ Reads
      BY <1>2, <1>4 DEF RenameTable, Reads, tables
    <2> QED
      BY <2>1, RefuseSeenTo, ReadKeeps
  <1> QED
    BY <1>3, <1>4

LEMMA DropIndexesKeeps ==
  ASSUME ProvInv, NEW p \in Servers, DropIndexes(p)
  PROVE  ProvInv'
  <1> DEFINE o == Obj(p)
  <1>1. proc[p].at = "dropIndexes" /\ UNCHANGED <<legacy, caps, starts, failures, had>>
        /\ declared' = [declared EXCEPT ![o].stale = FALSE] /\ To(p, "declared")
    BY DEF DropIndexes, At, Alters
  <1>2. /\ proc[p] \in Proc /\ o \in Objects /\ declared[o] \in Table
        /\ legacy[o] = NoTable /\ declared[o] # NoTable
        /\ \A q \in Objects : q < o => Settled(legacy, declared, q)
    BY <1>1, InServer DEF SeenTo, Adopting, Obj
  <1>3. PICK t \in Table : t = [declared[o] EXCEPT !.stale = FALSE]
    BY <1>2 DEF Table
  <1>4. t.rows = declared[o].rows /\ t.old = declared[o].old /\ t.new = declared[o].new
    BY <1>2, <1>3 DEF Table
  <1>5. declared' = [declared EXCEPT ![o] = t]
    BY <1>1, <1>3
  <1>6. /\ declared' \in [Objects -> Table \cup {NoTable}] /\ declared'[o] = t /\ t # NoTable
        /\ Kept(legacy', declared', caps') /\ TablesSound(legacy', declared')
    <2>1. t.old \cap t.new = {} /\ t.old \cup t.new = ColumnsOf[o]
      BY <1>2, <1>4 DEF ProvInv, TablesSound
    <2> QED
      BY <1>1, <1>2, <1>4, <1>5, <2>1, DeclaredKept
  <1>7. PICK y \in Proc : Goto(p, y) /\ y.at = "declared" /\ y.object = o
    BY <1>1, <1>2, ToPoint
  <1>8. SeenTo(y, legacy', declared', caps')
    <2>1. Placed(legacy', declared', o)
      BY <1>1, <1>2, <1>6 DEF Placed, NoTable
    <2>2. \A q \in Objects : q < o => Settled(legacy', declared', q)
      BY <1>2, <1>6 DEF Kept
    <2> QED
      BY <1>7, <2>1, <2>2 DEF SeenTo, Adopting
  <1>9. legacy' \in [Objects -> Table \cup {NoTable}] /\ caps' \subseteq 1 .. Caps
    BY <1>1 DEF ProvInv, TypeOK
  <1> QED
    BY <1>1, <1>6, <1>7, <1>8, <1>9, AlterKeeps

LEMMA RenameColumnKeeps ==
  ASSUME ProvInv, NEW p \in Servers, RenameColumn(p)
  PROVE  ProvInv'
  <1> DEFINE o == Obj(p)
             c == proc[p].column
  <1>1. proc[p].at = "renameColumn" /\ UNCHANGED <<legacy, caps, starts, failures, had>>
    BY DEF RenameColumn, At, Alters
  <1>2. /\ proc[p] \in Proc /\ o \in Objects /\ declared[o] \in Table
        /\ Placed(legacy, declared, o) /\ declared[o] # NoTable
        /\ declared[o].old \subseteq proc[p].todo /\ c \in proc[p].todo
        /\ \A q \in Objects : q < o => Settled(legacy, declared, q)
    BY <1>1, InServer DEF SeenTo, Adopting, Obj
  <1>3. CASE c \in declared[o].old \ declared[o].new
    <2>1. /\ declared' = [declared EXCEPT ![o] =
                            [declared[o] EXCEPT !.old = @ \ {c}, !.new = @ \cup {c}]]
          /\ LookAt(p, proc[p].todo \ {c})
      BY <1>3 DEF RenameColumn
    <2>2. proc[p].todo \subseteq Columns /\ c \in Columns
      BY <1>2 DEF Proc
    <2>3. PICK t \in Table : t = [declared[o] EXCEPT !.old = @ \ {c}, !.new = @ \cup {c}]
      BY <1>2, <2>2 DEF Table
    <2>4. t.rows = declared[o].rows /\ t.old = declared[o].old \ {c}
          /\ t.new = declared[o].new \cup {c}
      BY <1>2, <2>3 DEF Table
    <2>5. /\ declared' \in [Objects -> Table \cup {NoTable}] /\ declared'[o] = t /\ t # NoTable
          /\ Kept(legacy', declared', caps') /\ TablesSound(legacy', declared')
      <3>1. t.old \cap t.new = {} /\ t.old \cup t.new = ColumnsOf[o]
        BY <1>2, <1>3, <2>4 DEF ProvInv, TablesSound
      <3> QED
        BY <1>1, <1>2, <2>1, <2>3, <2>4, <3>1, DeclaredKept
    <2>6. \E y \in Proc : Goto(p, y) /\ SeenTo(y, legacy', declared', caps')
      <3>1. /\ \A q \in Objects : q < o => Settled(legacy', declared', q)
            /\ Placed(legacy', declared', o)
        BY <1>2, <2>5 DEF Kept
      <3>2. proc[p].todo \ {c} \in SUBSET Columns /\ declared'[o].old \subseteq proc[p].todo \ {c}
        BY <1>2, <2>2, <2>4, <2>5
      <3> QED
        BY <1>2, <2>1, <2>5, <3>1, <3>2, LookAtSeenTo
    <2>7. legacy' \in [Objects -> Table \cup {NoTable}] /\ caps' \subseteq 1 .. Caps
      BY <1>1 DEF ProvInv, TypeOK
    <2> QED
      BY <1>1, <2>5, <2>6, <2>7, AlterKeeps
  <1>4. CASE c \notin declared[o].old \ declared[o].new
    <2>1. Refuse(p) /\ Reads
      BY <1>1, <1>4 DEF RenameColumn, Reads, tables
    <2> QED
      BY <2>1, RefuseSeenTo, ReadKeeps
  <1> QED
    BY <1>3, <1>4

LEMMA MigrateKeeps ==
  ASSUME ProvInv, NEW p \in Servers, Migrate(p)
  PROVE  ProvInv'
  <1> DEFINE o == Obj(p)
  <1>1. /\ proc[p].at = "migrate" /\ UNCHANGED <<legacy, caps, starts, failures, had>>
        /\ declared' = [declared EXCEPT ![o] = IF declared[o] = NoTable THEN New(o, {})
                                               ELSE [declared[o] EXCEPT !.new = ColumnsOf[o]]]
        /\ NextObject(p, "migrate", IF Caps = 0 THEN "serving" ELSE "cap")
    BY DEF Migrate, At, Alters
  <1>2. /\ proc[p] \in Proc /\ o \in Objects /\ declared[o] \in Table \cup {NoTable}
        /\ \A q \in Objects : Settled(legacy, declared, q)
        /\ \A q \in Objects : q < o => declared[q] # NoTable
    BY <1>1, InServer DEF SeenTo, Obj
  <1>3. PICK t \in Table : /\ declared' = [declared EXCEPT ![o] = t]
                           /\ t.old = {} /\ t.new = ColumnsOf[o]
                           /\ declared[o].rows \subseteq t.rows
    <2>1. CASE declared[o] = NoTable
      <3>1. New(o, {}) \in Table /\ New(o, {}).old = {} /\ New(o, {}).new = ColumnsOf[o]
        BY <1>2, FreshTables
      <3>2. declared[o].rows = {}
        BY <2>1 DEF NoTable
      <3> QED
        BY <1>1, <2>1, <3>1, <3>2
    <2>2. CASE declared[o] # NoTable
      <3> DEFINE u == [declared[o] EXCEPT !.new = ColumnsOf[o]]
      <3>1. declared[o] \in Table /\ declared[o].old = {}
        BY <1>2, <2>2 DEF Settled
      <3>2. u \in Table /\ u.old = {} /\ u.new = ColumnsOf[o] /\ u.rows = declared[o].rows
        BY <1>2, <3>1, ColumnsAssumption DEF Table
      <3>3. declared' = [declared EXCEPT ![o] = u]
        BY <1>1, <2>2
      <3> HIDE DEF u
      <3> QED
        BY <3>2, <3>3
    <2> QED
      BY <2>1, <2>2
  <1>4. /\ declared' \in [Objects -> Table \cup {NoTable}] /\ declared'[o] # NoTable
        /\ Kept(legacy', declared', caps') /\ TablesSound(legacy', declared')
    <2>1. /\ t.old \cap t.new = {} /\ t.old \cup t.new = ColumnsOf[o]
          /\ t.old \subseteq declared[o].old \/ declared[o] = NoTable
          /\ UNCHANGED <<legacy, caps>>
      BY <1>1, <1>3
    <2> QED
      BY <1>2, <1>3, <2>1, DeclaredKept
  <1>5. /\ \A q \in Objects : Settled(legacy', declared', q)
        /\ \A q \in Objects : q <= o => declared'[q] # NoTable
    <2>1. \A q \in Objects : q <= o => q < o \/ q = o
      BY <1>2, CountAssumption DEF Objects
    <2> QED
      BY <1>2, <1>4, <2>1 DEF Kept
  <1>6. \E y \in Proc : Goto(p, y) /\ SeenTo(y, legacy', declared', caps')
    <2>1. CASE o + 1 \in Objects
      <3> DEFINE y == [Down EXCEPT !.at = "migrate", !.object = o + 1]
      <3>1. y \in Proc /\ y.at = "migrate" /\ y.object = o + 1 /\ Goto(p, y)
        BY <1>1, <2>1, DownServer DEF NextObject, Proc, Down
      <3> HIDE DEF y
      <3>2. \A q \in Objects : q < y.object => declared'[q] # NoTable
        <4>1. \A q \in Objects : q < o + 1 => q <= o
          BY <1>2, CountAssumption DEF Objects
        <4> QED
          BY <1>5, <3>1, <4>1
      <3> QED
        BY <1>5, <3>1, <3>2 DEF SeenTo, Adopting
    <2>2. CASE o + 1 \notin Objects
      <3>1. PICK after \in {"serving", "cap"} : after = IF Caps = 0 THEN "serving" ELSE "cap"
        OBVIOUS
      <3> DEFINE y == [Down EXCEPT !.at = after]
      <3>2. y \in Proc /\ y.at = after /\ y.cap = 0 /\ Goto(p, y)
        BY <1>1, <2>2, <3>1, DownServer DEF NextObject, Proc, Down
      <3> HIDE DEF y
      <3>3. \A q \in Objects : declared'[q] # NoTable
        <4>1. \A q \in Objects : q <= o
          BY <1>2, <2>2, CountAssumption DEF Objects
        <4> QED
          BY <1>5, <4>1
      <3>4. 1 .. y.cap \subseteq caps' /\ (y.at = "cap" => y.cap < Caps)
            /\ (y.at = "serving" => y.cap = Caps)
        BY <3>1, <3>2, CapsAssumption
      <3> QED
        BY <1>5, <3>1, <3>2, <3>3, <3>4 DEF SeenTo, Adopting
    <2> QED
      BY <2>1, <2>2
  <1>7. legacy' \in [Objects -> Table \cup {NoTable}] /\ caps' \subseteq 1 .. Caps
    BY <1>1 DEF ProvInv, TypeOK
  <1> QED
    BY <1>1, <1>4, <1>6, <1>7, AlterKeeps

LEMMA SyncKeeps ==
  ASSUME ProvInv, NEW p \in Servers, SyncNotificationCap(p)
  PROVE  ProvInv'
  <1> DEFINE n == proc[p].cap + 1
  <1>1. /\ proc[p].at = "cap" /\ UNCHANGED <<legacy, declared, starts, failures, had>>
        /\ caps' = caps \cup {n}
        /\ Goto(p, [proc[p] EXCEPT !.cap = n, !.at = IF n = Caps THEN "serving" ELSE "cap"])
    BY DEF SyncNotificationCap, At
  <1>2. /\ proc[p] \in Proc /\ proc[p].cap \in Nat /\ proc[p].cap < Caps
        /\ 1 .. proc[p].cap \subseteq caps
        /\ \A o \in Objects : Settled(legacy, declared, o) /\ declared[o] # NoTable
    BY <1>1, InServer, CapsAssumption DEF SeenTo, Proc
  <1>3. n \in 0 .. Caps /\ n \in 1 .. Caps
    BY <1>2, CapsAssumption
  <1>4. caps' \subseteq 1 .. Caps
    BY <1>1, <1>3 DEF ProvInv, TypeOK
  <1>5. Kept(legacy', declared', caps')
    BY <1>1 DEF Kept
  <1>6. \E y \in Proc : Goto(p, y) /\ SeenTo(y, legacy', declared', caps')
    <2>1. PICK point \in {"serving", "cap"} : point = IF n = Caps THEN "serving" ELSE "cap"
      OBVIOUS
    <2> DEFINE y == [proc[p] EXCEPT !.cap = n, !.at = point]
    <2>2. y \in Proc /\ y.at = point /\ y.cap = n /\ Goto(p, y)
      BY <1>1, <1>2, <1>3, <2>1 DEF Proc
    <2> HIDE DEF y
    <2>3. 1 .. n \subseteq caps'
      BY <1>1, <1>2
    <2>4. (y.at = "cap" => y.cap < Caps) /\ (y.at = "serving" => y.cap = Caps)
      BY <1>3, <2>1, <2>2, CapsAssumption
    <2> HIDE DEF n
    <2> QED
      BY <1>1, <1>2, <2>1, <2>2, <2>3, <2>4 DEF SeenTo, Adopting
  <1>7. legacy' \in [Objects -> Table \cup {NoTable}] /\ TablesSound(legacy', declared')
        /\ declared' \in [Objects -> Table \cup {NoTable}]
    BY <1>1 DEF ProvInv, TypeOK
  <1> QED
    BY <1>1, <1>4, <1>5, <1>6, <1>7, AlterKeeps

-----------------------------------------------------------------------------
LEMMA NextProvInv == ProvInv /\ [Next]_vars => ProvInv'
  <1> SUFFICES ASSUME ProvInv, [Next]_vars PROVE ProvInv'
    OBVIOUS
  <1>1. ASSUME NEW p \in Servers, Start(p) \/ Provision(p) \/ Fail(p) PROVE ProvInv'
    BY <1>1, StartAndFailKeep, LookupsKeep, RenameTableKeeps, DropIndexesKeeps,
       RenameColumnKeeps, MigrateKeeps, SyncKeeps DEF Provision, AdoptLegacy
  <1>2. CASE UNCHANGED vars
    BY <1>2 DEF vars, tables, ProvInv, TypeOK, ServersSound, TablesSound
  <1> QED
    BY <1>1, <1>2 DEF Next

\* What every step of any number of servers keeps, whoever dies in between.
THEOREM ProvisionInvariance == Spec => []ProvInv
  BY InitProvInv, NextProvInv, PTL DEF Spec

(* Provision leaves nothing behind: a server that serves, after whatever   *)
(* starts, refusals and deaths of itself and of others, finds every row of *)
(* the older release in the declared table, all of it under the declared   *)
(* names, and every cap indexed.                                           *)
THEOREM ServedWhole == Spec => []ServedIsWhole
  <1>1. ProvInv => ServedIsWhole
    <2> SUFFICES ASSUME ProvInv, NEW p \in Servers, At(p, "serving")
                 PROVE  /\ \A o \in Objects : /\ declared[o] # NoTable
                                              /\ had[o] \subseteq declared[o].rows
                                              /\ declared[o].old = {}
                                              /\ declared[o].new = ColumnsOf[o]
                        /\ caps = 1 .. Caps
      BY DEF ServedIsWhole
    <2>1. /\ \A o \in Objects : Settled(legacy, declared, o) /\ declared[o] # NoTable
          /\ 1 .. Caps \subseteq caps
      BY InServer DEF At, SeenTo
    <2>2. caps \subseteq 1 .. Caps /\ TablesSound(legacy, declared)
      BY DEF ProvInv, TypeOK
    <2> QED
      BY <2>1, <2>2 DEF Settled, Placed, TablesSound
  <1> QED
    BY <1>1, ProvisionInvariance, PTL
=============================================================================
