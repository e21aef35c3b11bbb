----------------------------- MODULE ClosureTables ----------------------------
(***************************************************************************)
(* Where libffi takes the code of closures from on arm64, where no page is *)
(* both writable and executable (closures.c with FFI_EXEC_TRAMPOLINE_TABLE)*)
(* A table is a page of trampolines, and knows which of them are free.     *)
(* The tables are in a doubly linked list, of which only the first is ever *)
(* looked at for a free trampoline.                                        *)
(*                                                                         *)
(* ffi_closure_alloc and ffi_closure_free hold one mutex from their first  *)
(* access to their last, so each is one step of whoever calls it; here     *)
(* they are functions of the tables.                                       *)
(***************************************************************************)
EXTENDS Naturals, Sequences, SequencesExt

CONSTANTS
  TrampolineCount,  \* FFI_TRAMPOLINE_COUNT, 1024 on arm64
  MaxTables         \* bound: tables that vm_allocate has room for, freed ones included

ASSUME TablesAssumption == TrampolineCount \in Nat \ {0} /\ MaxTables \in Nat

NULL == 0
Table == 1 .. MaxTables

\* The trampoline of a closure: its table and the entry in it.
NoPlace == <<NULL, 0>>
Place == Table \X (1 .. TrampolineCount)

\* Memory that is no table, any more or yet.
NoTable(state) == [state |-> state, free |-> <<>>, count |-> 0, prev |-> NULL, next |-> NULL]

NoTables == [head |-> NULL, table |-> [t \in Table |-> NoTable("none")]]

\* A write through a pointer to a table.  Bump leaves pointers behind that come to
\* point to freed tables: what is written there is lost on the table, here.
Put(ts, t, field, to) ==
  IF t # NULL /\ ts.table[t].state = "live" THEN [ts EXCEPT !.table[t][field] = to] ELSE ts

Live(ts) == {t \in Table : ts.table[t].state = "live"}

Unused(ts) == {t \in Table : ts.table[t].state = "none"}

TableAlloc(ts) ==
  LET t == CHOOSE t \in Unused(ts) : \A u \in Unused(ts) : t <= u
      new == [state |-> "live", free |-> [i \in 1 .. TrampolineCount |-> i],
              count |-> TrampolineCount, prev |-> NULL, next |-> ts.head]
  IN [Put(ts, ts.head, "prev", t) EXCEPT !.table[t] = new, !.head = t]

\* The table leaves the list, by way of its neighbours.
TableFree(ts, t) ==
  LET before == Put(ts, ts.table[t].prev, "next", ts.table[t].next)
      after == Put(before, before.table[t].next, "prev", before.table[t].prev)
  IN [after EXCEPT !.table[t] = NoTable("freed")]

Full(ts) == ts.head = NULL \/ ts.table[ts.head].free = <<>>

\* There may be no memory for the closure, or, when one is needed, for a table.
MayAlloc(ts) == Full(ts) => Unused(ts) # {}

WithRoom(ts) == IF Full(ts) THEN TableAlloc(ts) ELSE ts

Allocated(ts) == LET s == WithRoom(ts) IN <<s.head, Head(s.table[s.head].free)>>

AllocIn(ts) ==
  LET s == WithRoom(ts)
  IN [s EXCEPT !.table[s.head].free = Tail(@), !.table[s.head].count = @ - 1]

\* Bumped to the top of the list; its neighbours are not told.
Bump(ts, t) ==
  LET own == [ts EXCEPT !.table[t].prev = NULL, !.table[t].next = ts.head]
  IN [Put(own, ts.head, "prev", t) EXCEPT !.head = t]

\* Bug: the table is taken for unused while one of its trampolines is not.
FreeInEarly(ts, place) ==
  LET t == place[1]
      s == [ts EXCEPT !.table[t].free = <<place[2]>> \o @, !.table[t].count = @ + 1]
  IN IF s.table[t].count + 1 >= TrampolineCount /\ s.head # t THEN TableFree(s, t)
     ELSE IF s.head # t THEN Bump(s, t)
     ELSE s

FreeIn(ts, place) ==
  LET t == place[1]
      s == [ts EXCEPT !.table[t].free = <<place[2]>> \o @, !.table[t].count = @ + 1]
  IN IF s.table[t].count = TrampolineCount /\ s.head # t THEN TableFree(s, t)
     ELSE IF s.head # t THEN Bump(s, t)
     ELSE s

-------------------------------------------------------------------------------

\* Those in use, one per holder, are trampolines of tables that exist, no two the
\* same, and the others of these tables are free, each once.
EachOnce(ts, used) ==
  /\ IsInjective(used)
  /\ \A h \in DOMAIN used : used[h][1] \in Live(ts)
  /\ \A t \in Live(ts) :
       LET free == ts.table[t].free IN
       /\ ts.table[t].count = Len(free)
       /\ IsInjective(free)
       /\ ToSet(free) = {e \in 1 .. TrampolineCount : <<t, e>> \notin ToSet(used)}
===============================================================================
