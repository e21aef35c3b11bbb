-------------------------- MODULE HookClosures_proofs -------------------------
(***************************************************************************)
(* Proofs about the trampolines of hooks and of blocks: for any hierarchy, *)
(* any number of closures, of trampolines in a table and of tables.        *)
(***************************************************************************)
EXTENDS HookClosures, ObjcMethod_proofs, FiniteSetTheorems

Entry == 1 .. TrampolineCount

TableRecord ==
  [state : {"none", "live", "freed"}, free : Seq(Entry), count : Nat,
   prev : Table \cup {NULL}, next : Table \cup {NULL}]

Tables == [head : Table \cup {NULL}, table : [Table -> TableRecord]]

\* A table's free list: what is not in use, each entry once, and as long as it says.
ListsFree(ts, t, U) ==
  LET free == ts.table[t].free IN
  /\ ts.table[t].count = Len(free)
  /\ IsInjective(free)
  /\ ToSet(free) = {e \in Entry : <<t, e>> \notin U}

\* Tables of which the places U are in use.
Sound(ts, U) ==
  /\ ts \in Tables
  /\ ts.head # NULL => ts.head \in Live(ts)
  /\ \A p \in U : p \in Place /\ p[1] \in Live(ts)
  /\ \A t \in Live(ts) : ListsFree(ts, t, U)

\* What the lists do not depend on: two tables that differ in links only.
SameLists(ts, us) ==
  /\ us \in Tables
  /\ \A t \in Table :
       /\ us.table[t].state = ts.table[t].state
       /\ us.table[t].free = ts.table[t].free
       /\ us.table[t].count = ts.table[t].count

-------------------------------------------------------------------------------
(* The lists of one table.                                                   *)

\* Taking the first of a list that holds each entry once.
LEMMA TakeFirst ==
  ASSUME NEW s \in Seq(Entry), s # <<>>, IsInjective(s)
  PROVE  /\ Head(s) \in ToSet(s) /\ Head(s) \in Entry
         /\ Tail(s) \in Seq(Entry) /\ Len(Tail(s)) = Len(s) - 1
         /\ IsInjective(Tail(s))
         /\ ToSet(Tail(s)) = ToSet(s) \ {Head(s)}
  <1>1. /\ Head(s) = s[1] /\ 1 \in DOMAIN s /\ Head(s) \in Entry
        /\ Tail(s) \in Seq(Entry) /\ Len(Tail(s)) = Len(s) - 1
    OBVIOUS
  <1>2. /\ \A i \in DOMAIN Tail(s) : i \in Nat /\ i # 0 /\ i + 1 \in DOMAIN s /\ Tail(s)[i] = s[i + 1]
        /\ \A i \in DOMAIN s : i \in Nat /\ (i # 1 => i - 1 \in DOMAIN Tail(s) /\ Tail(s)[i - 1] = s[i])
    OBVIOUS
  <1>3. IsInjective(Tail(s))
    <2> SUFFICES ASSUME NEW i \in DOMAIN Tail(s), NEW j \in DOMAIN Tail(s), Tail(s)[i] = Tail(s)[j]
                 PROVE  i = j
      BY DEF IsInjective
    <2>1. i + 1 = j + 1
      BY <1>2 DEF IsInjective
    <2> QED BY <1>2, <2>1
  <1>4. ToSet(Tail(s)) \subseteq ToSet(s) \ {Head(s)}
    <2> SUFFICES ASSUME NEW i \in DOMAIN Tail(s) PROVE Tail(s)[i] \in ToSet(s) /\ Tail(s)[i] # s[1]
      BY <1>1 DEF ToSet
    <2>1. i + 1 # 1
      BY <1>2
    <2> QED BY <1>1, <1>2, <2>1 DEF ToSet, IsInjective
  <1>5. ToSet(s) \ {Head(s)} \subseteq ToSet(Tail(s))
    <2> SUFFICES ASSUME NEW i \in DOMAIN s, s[i] # s[1] PROVE s[i] \in ToSet(Tail(s))
      BY <1>1 DEF ToSet
    <2> QED BY <1>2 DEF ToSet
  <1>6. Head(s) \in ToSet(s)
    BY <1>1 DEF ToSet
  <1> QED BY <1>1, <1>3, <1>4, <1>5, <1>6

\* Putting an entry first that the list does not hold.
LEMMA PutFirst ==
  ASSUME NEW s \in Seq(Entry), IsInjective(s), NEW e \in Entry, e \notin ToSet(s)
  PROVE  /\ <<e>> \o s \in Seq(Entry) /\ Len(<<e>> \o s) = Len(s) + 1
         /\ IsInjective(<<e>> \o s)
         /\ ToSet(<<e>> \o s) = ToSet(s) \cup {e}
  <1> DEFINE r == <<e>> \o s
  <1>1. r \in Seq(Entry) /\ Len(r) = Len(s) + 1
    OBVIOUS
  <1>2. /\ 1 \in DOMAIN r /\ r[1] = e
        /\ \A i \in DOMAIN r : i \in Nat /\ (i # 1 => i - 1 \in DOMAIN s /\ r[i] = s[i - 1])
        /\ \A i \in DOMAIN s : i \in Nat /\ i + 1 \in DOMAIN r /\ r[i + 1] = s[i]
    OBVIOUS
  <1> HIDE DEF r
  <1>3. \A i \in DOMAIN s : s[i] # e
    BY DEF ToSet
  <1>4. IsInjective(r)
    <2> SUFFICES ASSUME NEW i \in DOMAIN r, NEW j \in DOMAIN r, r[i] = r[j] PROVE i = j
      BY DEF IsInjective
    <2>1. CASE i = 1 \/ j = 1
      BY <2>1, <1>2, <1>3
    <2>2. CASE i # 1 /\ j # 1
      <3>1. i - 1 = j - 1
        BY <2>2, <1>2 DEF IsInjective
      <3> QED BY <3>1, <1>2
    <2> QED BY <2>1, <2>2
  <1>5. ToSet(r) = ToSet(s) \cup {e}
    <2>1. \A i \in DOMAIN r : r[i] \in ToSet(s) \cup {e}
      BY <1>2 DEF ToSet
    <2>2. \A i \in DOMAIN s : s[i] \in ToSet(r)
      BY <1>2 DEF ToSet
    <2>3. e \in ToSet(r)
      BY <1>2 DEF ToSet
    <2> QED BY <2>1, <2>2, <2>3 DEF ToSet
  <1> QED BY <1>1, <1>4, <1>5 DEF r

\* A list as long as the table has entries, each once, holds them all.
LEMMA FullList ==
  ASSUME NEW s \in Seq(Entry), IsInjective(s), Len(s) = TrampolineCount
  PROVE  ToSet(s) = Entry
  <1>1. TrampolineCount \in Nat
    BY TablesAssumption
  <1>2. DOMAIN s = Entry /\ s \in [Entry -> Entry]
    BY <1>1 DEF Entry
  <1>3. s \in Injection(Entry, Entry)
    BY <1>2 DEF Injection
  <1>4. IsFiniteSet(Entry)
    BY <1>1, FS_Interval DEF Entry
  <1>5. s \in Surjection(Entry, Entry)
    BY <1>3, <1>4, FS_Injection
  <1> QED BY <1>2, <1>5 DEF Surjection, ToSet

-------------------------------------------------------------------------------
(* The tables.                                                               *)

\* A write through a pointer changes links only, wherever the pointer leads.
LEMMA PutLinks ==
  ASSUME NEW ts \in Tables, NEW t \in Table \cup {NULL}, NEW field \in {"prev", "next"},
         NEW to \in Table \cup {NULL}
  PROVE  SameLists(ts, Put(ts, t, field, to)) /\ Put(ts, t, field, to).head = ts.head
  <1>1. CASE t # NULL /\ ts.table[t].state = "live"
    <2> DEFINE us == [ts EXCEPT !.table[t][field] = to]
    <2>1. t \in Table /\ ts.table \in [Table -> TableRecord] /\ ts.head \in Table \cup {NULL}
      BY <1>1 DEF Tables
    <2>2. us.head = ts.head /\ us.table = [ts.table EXCEPT ![t][field] = to]
      BY DEF Tables
    <2>3. us = [head |-> us.head, table |-> us.table]
      BY DEF Tables
    <2>4. us.table[t] = [ts.table[t] EXCEPT ![field] = to]
      BY <2>1, <2>2
    <2>5. /\ us.table[t] \in TableRecord
          /\ us.table[t].state = ts.table[t].state
          /\ us.table[t].free = ts.table[t].free
          /\ us.table[t].count = ts.table[t].count
      <3>0. ts.table[t] \in TableRecord
        BY <2>1
      <3>1. CASE field = "prev"
        BY <3>0, <3>1, <2>4 DEF TableRecord
      <3>2. CASE field = "next"
        BY <3>0, <3>2, <2>4 DEF TableRecord
      <3> QED BY <3>1, <3>2
    <2>6. \A u \in Table : u # t => us.table[u] = ts.table[u]
      BY <2>1, <2>2
    <2>7. us.table \in [Table -> TableRecord]
      BY <2>1, <2>2, <2>5, <2>6
    <2>8. us \in Tables
      BY <2>1, <2>2, <2>3, <2>7 DEF Tables
    <2>9. Put(ts, t, field, to) = us
      BY <1>1 DEF Put
    <2> HIDE DEF us
    <2> QED BY <2>2, <2>5, <2>6, <2>8, <2>9 DEF SameLists
  <1>2. CASE ~ (t # NULL /\ ts.table[t].state = "live")
    BY <1>2 DEF Put, SameLists
  <1> QED BY <1>1, <1>2

\* The assignments to fields of a table, with their names.
WithTable(ts, t, new) == [ts EXCEPT !.table[t] = new]

WithList(ts, t, free, count) == [ts EXCEPT !.table[t].free = free, !.table[t].count = count]

WithLinks(ts, t, prev, next) == [ts EXCEPT !.table[t].prev = prev, !.table[t].next = next]

WithHead(ts, h) == [ts EXCEPT !.head = h]

LEMMA SetTable ==
  ASSUME NEW ts \in Tables, NEW t \in Table, NEW new \in TableRecord
  PROVE  /\ WithTable(ts, t, new) \in Tables
         /\ WithTable(ts, t, new).head = ts.head
         /\ WithTable(ts, t, new).table[t] = new
         /\ \A u \in Table : u # t => WithTable(ts, t, new).table[u] = ts.table[u]
  <1> DEFINE us == WithTable(ts, t, new)
  <1>1. us \in Tables /\ us.head = ts.head /\ us.table = [ts.table EXCEPT ![t] = new]
    BY DEF Tables, WithTable
  <1> HIDE DEF us
  <1>2. us.table[t] = new /\ \A u \in Table : u # t => us.table[u] = ts.table[u]
    BY <1>1 DEF Tables
  <1> QED BY <1>1, <1>2 DEF us

LEMMA SetList ==
  ASSUME NEW ts \in Tables, NEW t \in Table, NEW free \in Seq(Entry), NEW count \in Nat
  PROVE  /\ WithList(ts, t, free, count) \in Tables
         /\ WithList(ts, t, free, count).head = ts.head
         /\ WithList(ts, t, free, count).table[t].state = ts.table[t].state
         /\ WithList(ts, t, free, count).table[t].free = free
         /\ WithList(ts, t, free, count).table[t].count = count
         /\ \A u \in Table : u # t => WithList(ts, t, free, count).table[u] = ts.table[u]
  <1> DEFINE new == [ts.table[t] EXCEPT !.free = free, !.count = count]
  <1>1. WithList(ts, t, free, count) = WithTable(ts, t, new)
    BY DEF WithList, WithTable
  <1>2. ts.table[t] \in TableRecord
    BY DEF Tables
  <1>3. /\ new \in TableRecord /\ new.state = ts.table[t].state
        /\ new.free = free /\ new.count = count
    BY <1>2 DEF TableRecord
  <1> HIDE DEF new
  <1> QED BY <1>1, <1>3, SetTable

LEMMA SetLinks ==
  ASSUME NEW ts \in Tables, NEW t \in Table, NEW prev \in Table \cup {NULL},
         NEW next \in Table \cup {NULL}
  PROVE  /\ SameLists(ts, WithLinks(ts, t, prev, next))
         /\ WithLinks(ts, t, prev, next).head = ts.head
  <1> DEFINE new == [ts.table[t] EXCEPT !.prev = prev, !.next = next]
             us == WithLinks(ts, t, prev, next)
  <1>1. us = WithTable(ts, t, new)
    BY DEF WithLinks, WithTable
  <1>2. ts.table[t] \in TableRecord
    BY DEF Tables
  <1>3. /\ new \in TableRecord /\ new.state = ts.table[t].state
        /\ new.free = ts.table[t].free /\ new.count = ts.table[t].count
    BY <1>2 DEF TableRecord
  <1> HIDE DEF new, us
  <1>4. /\ us \in Tables /\ us.head = ts.head /\ us.table[t] = new
        /\ \A u \in Table : u # t => us.table[u] = ts.table[u]
    BY <1>1, <1>3, SetTable
  <1> QED BY <1>3, <1>4 DEF SameLists, us

LEMMA SetHead ==
  ASSUME NEW ts \in Tables, NEW h \in Table \cup {NULL}
  PROVE  /\ WithHead(ts, h) \in Tables
         /\ WithHead(ts, h).head = h
         /\ WithHead(ts, h).table = ts.table
  BY DEF Tables, WithHead

\* What is sound stays so when links change, as long as the list has a head.
LEMMA SoundLinks ==
  ASSUME NEW ts, NEW U, Sound(ts, U), NEW us, SameLists(ts, us),
         us.head # NULL => us.head \in Live(ts)
  PROVE  Sound(us, U)
  <1>1. Live(us) = Live(ts)
    BY DEF Live, SameLists
  <1>2. \A t \in Live(us) : ListsFree(us, t, U)
    <2> SUFFICES ASSUME NEW t \in Live(us) PROVE ListsFree(us, t, U)
      OBVIOUS
    <2>1. t \in Table /\ ListsFree(ts, t, U)
      BY <1>1 DEF Live, Sound
    <2> QED BY <2>1 DEF ListsFree, SameLists
  <1>3. us \in Tables
    BY DEF SameLists
  <1>4. \A p \in U : p \in Place /\ p[1] \in Live(us)
    BY <1>1 DEF Sound
  <1> QED BY <1>1, <1>2, <1>3, <1>4 DEF Sound

\* Of some memory there is a first.
LEMMA FirstUnused ==
  ASSUME NEW S, S \subseteq Nat, S # {}
  PROVE  \E m \in S : \A n \in S : m <= n
  <1> DEFINE R == OpToRel(<, Nat)
  <1>1. IsWellFoundedOn(R, Nat)
    BY NatLessThanWellFounded
  <1>2. \E m \in S : \A n \in S : <<n, m>> \notin R
    <2> HIDE DEF R
    <2> QED BY <1>1, WFMin
  <1>3. \A m, n \in Nat : <<n, m>> \notin R => ~ (n < m)
    BY DEF OpToRel
  <1> HIDE DEF R
  <1> PICK m \in S : \A n \in S : <<n, m>> \notin R
    BY <1>2
  <1>4. \A n \in S : ~ (n < m)
    BY <1>3
  <1>5. m \in Nat /\ \A n \in S : n \in Nat
    OBVIOUS
  <1> QED BY <1>4, <1>5

\* What is sound stays so, with one table's list replaced by what it should be.
LEMMA SoundTable ==
  ASSUME NEW ts, NEW U, NEW V, NEW t \in Table, Sound(ts, U),
         NEW us \in Tables, us.head # NULL => us.head \in Live(us),
         Live(us) \subseteq Live(ts) \cup {t},
         \A u \in Table \ {t} : us.table[u] = ts.table[u],
         \A u \in Live(us) \ {t} : \A e \in Entry : <<u, e>> \in V <=> <<u, e>> \in U,
         t \in Live(us) => ListsFree(us, t, V),
         \A p \in V : p \in Place /\ p[1] \in Live(us)
  PROVE  Sound(us, V)
  <1>1. ASSUME NEW u \in Live(us), u # t PROVE ListsFree(us, u, V)
    <2>1. u \in Table /\ u \in Live(ts)
      BY <1>1 DEF Live
    <2>2. ListsFree(ts, u, U) /\ us.table[u] = ts.table[u]
      BY <1>1, <2>1 DEF Sound
    <2>3. {e \in Entry : <<u, e>> \notin V} = {e \in Entry : <<u, e>> \notin U}
      BY <1>1
    <2> QED BY <2>2, <2>3 DEF ListsFree
  <1>2. \A u \in Live(us) : ListsFree(us, u, V)
    BY <1>1
  <1> QED BY <1>2 DEF Sound

\* A table that is new has every entry free, and none was in use.
LEMMA SoundTableAlloc ==
  ASSUME NEW ts, NEW U, Sound(ts, U), Unused(ts) # {}
  PROVE  /\ Sound(TableAlloc(ts), U)
         /\ TableAlloc(ts).head \in Live(TableAlloc(ts))
         /\ TableAlloc(ts).table[TableAlloc(ts).head].free # <<>>
  <1> DEFINE t == CHOOSE t \in Unused(ts) : \A u \in Unused(ts) : t <= u
             all == [i \in 1 .. TrampolineCount |-> i]
             new == [state |-> "live", free |-> all, count |-> TrampolineCount,
                     prev |-> NULL, next |-> ts.head]
             ps == Put(ts, ts.head, "prev", t)
             us == [ps EXCEPT !.table[t] = new, !.head = t]
  <1>1. TableAlloc(ts) = us
    BY DEF TableAlloc
  <1>2. ts \in Tables /\ ts.head \in Table \cup {NULL}
    BY DEF Sound, Tables
  <1>3. t \in Unused(ts) /\ t \in Table /\ ts.table[t].state = "none" /\ t # NULL
    <2>1. Unused(ts) \subseteq Nat
      BY DEF Unused, Table
    <2>2. \E m \in Unused(ts) : \A u \in Unused(ts) : m <= u
      BY <2>1, FirstUnused
    <2>3. t \in Unused(ts)
      BY <2>2
    <2> HIDE DEF t
    <2> QED BY <2>3 DEF Unused, Table, NULL
  <1> HIDE DEF t
  <1>4. SameLists(ts, ps) /\ ps.head = ts.head
    BY <1>2, <1>3, PutLinks
  <1> HIDE DEF ps
  <1>5. Sound(ps, U)
    BY <1>4, SoundLinks DEF Sound
  <1>6. /\ TrampolineCount \in Nat \ {0}
        /\ all \in Seq(Entry) /\ Len(all) = TrampolineCount /\ all # <<>>
        /\ IsInjective(all) /\ ToSet(all) = Entry
    BY TablesAssumption DEF Entry, IsInjective, ToSet
  <1> HIDE DEF all
  <1>7. new \in TableRecord /\ new.state = "live" /\ new.free = all /\ new.count = TrampolineCount
    BY <1>2, <1>6 DEF TableRecord
  <1> HIDE DEF new
  <1>8. us = WithHead(WithTable(ps, t, new), t)
    BY DEF WithHead, WithTable
  <1> HIDE DEF us
  <1>9. /\ us \in Tables /\ us.table[t] = new /\ us.head = t
        /\ \A u \in Table : u # t => us.table[u] = ps.table[u]
    <2> DEFINE rs == WithTable(ps, t, new)
    <2>1. ps \in Tables /\ t \in Table /\ new \in TableRecord
      BY <1>3, <1>4, <1>7 DEF SameLists
    <2>2. /\ rs \in Tables /\ rs.table[t] = new
          /\ \A u \in Table : u # t => rs.table[u] = ps.table[u]
      BY <2>1, SetTable
    <2>3. WithHead(rs, t) \in Tables /\ WithHead(rs, t).head = t /\ WithHead(rs, t).table = rs.table
      BY <2>1, <2>2, SetHead
    <2> QED BY <1>8, <2>2, <2>3
  <1>10. t \in Live(us) /\ Live(us) \subseteq Live(ps) \cup {t} /\ Live(ps) \subseteq Live(us)
    BY <1>3, <1>7, <1>9 DEF Live
  <1>11. t \notin Live(ps)
    BY <1>3, <1>4 DEF Live, SameLists
  <1>12. \A e \in Entry : <<t, e>> \notin U
    BY <1>5, <1>11 DEF Sound
  <1>13. ListsFree(us, t, U)
    BY <1>6, <1>7, <1>9, <1>12 DEF ListsFree
  <1>14. \A p \in U : p \in Place /\ p[1] \in Live(us)
    BY <1>5, <1>10 DEF Sound
  <1>15. Sound(us, U)
    BY <1>3, <1>5, <1>9, <1>10, <1>13, <1>14, SoundTable
  <1> QED BY <1>1, <1>6, <1>7, <1>9, <1>10, <1>15

\* Where a closure is taken from: the first table, which has room then.
LEMMA SoundWithRoom ==
  ASSUME NEW ts, NEW U, Sound(ts, U), MayAlloc(ts)
  PROVE  /\ Sound(WithRoom(ts), U)
         /\ WithRoom(ts).head \in Live(WithRoom(ts))
         /\ WithRoom(ts).table[WithRoom(ts).head].free # <<>>
  <1>1. CASE Full(ts)
    BY <1>1, SoundTableAlloc DEF MayAlloc, WithRoom
  <1>2. CASE ~Full(ts)
    BY <1>2 DEF Full, WithRoom, Sound
  <1> QED BY <1>1, <1>2

\* What is allocated was nobody's, and the rest stays free.
LEMMA SoundAlloc ==
  ASSUME NEW ts, NEW U, Sound(ts, U), MayAlloc(ts)
  PROVE  /\ Allocated(ts) \in Place /\ Allocated(ts) \notin U
         /\ Sound(AllocIn(ts), U \cup {Allocated(ts)})
  <1> DEFINE s == WithRoom(ts)
             t == s.head
             free == s.table[t].free
             e == Head(free)
             us == [s EXCEPT !.table[t].free = Tail(@), !.table[t].count = @ - 1]
             V == U \cup {<<t, e>>}
  <1>1. Sound(s, U) /\ t \in Live(s) /\ free # <<>>
    BY SoundWithRoom
  <1>2. Allocated(ts) = <<t, e>> /\ AllocIn(ts) = us
    BY DEF Allocated, AllocIn
  <1> HIDE DEF s
  <1>3. t \in Table /\ s \in Tables /\ s.table[t] \in TableRecord /\ ListsFree(s, t, U)
    BY <1>1 DEF Sound, Tables, Live
  <1>4. /\ free \in Seq(Entry) /\ IsInjective(free) /\ s.table[t].count = Len(free)
        /\ ToSet(free) = {d \in Entry : <<t, d>> \notin U}
    BY <1>3 DEF ListsFree, TableRecord
  <1>5. /\ e \in ToSet(free) /\ e \in Entry
        /\ Tail(free) \in Seq(Entry) /\ Len(Tail(free)) = Len(free) - 1
        /\ IsInjective(Tail(free)) /\ ToSet(Tail(free)) = ToSet(free) \ {e}
    BY <1>1, <1>4, TakeFirst
  <1>6. <<t, e>> \in Place /\ <<t, e>> \notin U
    BY <1>3, <1>4, <1>5 DEF Place, Entry
  <1>7. s.table[t].count - 1 = Len(Tail(free)) /\ Len(Tail(free)) \in Nat
    BY <1>4, <1>5
  <1>8. us = WithList(s, t, Tail(free), Len(Tail(free)))
    BY <1>7 DEF WithList
  <1>9. s.head = t
    OBVIOUS
  <1> HIDE DEF us, t, free, e
  <1>10. /\ us \in Tables /\ us.head = t /\ us.table[t].state = s.table[t].state
         /\ us.table[t].free = Tail(free) /\ us.table[t].count = Len(Tail(free))
         /\ \A u \in Table : u # t => us.table[u] = s.table[u]
    <2> DEFINE rest == Tail(free)
               count == Len(rest)
    <2>1. s \in Tables /\ t \in Table /\ rest \in Seq(Entry) /\ count \in Nat
      BY <1>3, <1>5, <1>7
    <2> HIDE DEF rest, count
    <2>2. /\ WithList(s, t, rest, count) \in Tables
          /\ WithList(s, t, rest, count).head = s.head
          /\ WithList(s, t, rest, count).table[t].state = s.table[t].state
          /\ WithList(s, t, rest, count).table[t].free = rest
          /\ WithList(s, t, rest, count).table[t].count = count
          /\ \A u \in Table : u # t => WithList(s, t, rest, count).table[u] = s.table[u]
      BY <2>1, SetList
    <2>3. us = WithList(s, t, rest, count)
      BY <1>8 DEF rest, count
    <2> QED BY <1>9, <2>2, <2>3 DEF rest, count
  <1>11. Live(us) = Live(s)
    BY <1>10 DEF Live
  <1>12. ToSet(us.table[t].free) = {d \in Entry : <<t, d>> \notin V}
    BY <1>4, <1>5, <1>10
  <1>13. ListsFree(us, t, V)
    BY <1>5, <1>10, <1>12 DEF ListsFree
  <1>14. \A p \in V : p \in Place /\ p[1] \in Live(us)
    BY <1>1, <1>6, <1>11 DEF Sound
  <1>15. \A u \in Live(us) \ {t} : \A d \in Entry : <<u, d>> \in V <=> <<u, d>> \in U
    OBVIOUS
  <1> HIDE DEF V
  <1>16. Sound(us, V)
    BY <1>1, <1>3, <1>10, <1>11, <1>13, <1>14, <1>15, SoundTable
  <1> QED BY <1>2, <1>6, <1>16 DEF V, t, free, e

\* A table of which nothing is in use goes, and is not the first.
LEMMA SoundTableFree ==
  ASSUME NEW ts, NEW V, Sound(ts, V), NEW t \in Live(ts), ts.head # t,
         ts.table[t].count = TrampolineCount
  PROVE  Sound(TableFree(ts, t), V)
  <1> DEFINE before == Put(ts, ts.table[t].prev, "next", ts.table[t].next)
             after == Put(before, before.table[t].next, "prev", before.table[t].prev)
             us == [after EXCEPT !.table[t] = NoTable("freed")]
  <1>1. TableFree(ts, t) = us
    BY DEF TableFree
  <1>2. ts \in Tables /\ t \in Table
    BY DEF Sound, Live
  <1>3. \A x \in Tables : /\ x.table[t].prev \in Table \cup {NULL}
                          /\ x.table[t].next \in Table \cup {NULL}
    <2> SUFFICES ASSUME NEW x \in Tables
                 PROVE  /\ x.table[t].prev \in Table \cup {NULL}
                        /\ x.table[t].next \in Table \cup {NULL}
      OBVIOUS
    <2>1. x.table[t] \in TableRecord
      BY <1>2 DEF Tables
    <2> QED BY <2>1 DEF TableRecord
  <1>4. SameLists(ts, before) /\ before.head = ts.head
    BY <1>2, <1>3, PutLinks
  <1>5. SameLists(before, after) /\ after.head = before.head
    <2>1. before \in Tables
      BY <1>4 DEF SameLists
    <2> HIDE DEF before
    <2> QED BY <2>1, <1>2, <1>3, PutLinks
  <1> HIDE DEF before, after
  <1>6. Sound(after, V)
    <2>1. SameLists(ts, after)
      BY <1>4, <1>5 DEF SameLists
    <2> QED BY <2>1, <1>4, <1>5, SoundLinks DEF Sound
  <1>7. us = WithTable(after, t, NoTable("freed"))
    BY DEF WithTable
  <1> HIDE DEF us
  <1>8. NoTable("freed") \in TableRecord /\ NoTable("freed").state = "freed"
    BY DEF NoTable, TableRecord
  <1>9. after \in Tables
    BY <1>5 DEF SameLists
  <1>10. /\ us \in Tables /\ us.head = after.head /\ us.table[t] = NoTable("freed")
         /\ \A u \in Table : u # t => us.table[u] = after.table[u]
    BY <1>2, <1>7, <1>8, <1>9, SetTable
  <1>11. Live(us) = Live(after) \ {t}
    BY <1>2, <1>8, <1>10 DEF Live
  <1>12. us.head # NULL => us.head \in Live(us)
    BY <1>4, <1>5, <1>6, <1>10, <1>11 DEF Sound
  <1>13. \A e \in Entry : <<t, e>> \notin V
    <2>1. ListsFree(ts, t, V) /\ ts.table[t] \in TableRecord
      BY <1>2 DEF Sound, Tables
    <2>2. ts.table[t].free \in Seq(Entry)
      BY <2>1 DEF TableRecord
    <2>3. ToSet(ts.table[t].free) = Entry
      BY <2>1, <2>2, FullList DEF ListsFree
    <2> QED BY <2>1, <2>3 DEF ListsFree
  <1>14. \A p \in V : p \in Place /\ p[1] \in Live(us)
    <2> SUFFICES ASSUME NEW p \in V PROVE p \in Place /\ p[1] \in Live(us)
      OBVIOUS
    <2>1. p \in Place /\ p[1] \in Live(after)
      BY <1>6 DEF Sound
    <2>2. p = <<p[1], p[2]>> /\ p[2] \in Entry
      BY <2>1 DEF Place, Entry
    <2> QED BY <1>11, <1>13, <2>1, <2>2
  <1>15. Sound(us, V)
    <2>1. Live(us) \subseteq Live(after) \cup {t} /\ t \notin Live(us)
      BY <1>11
    <2>2. \A u \in Live(us) \ {t} : \A e \in Entry : <<u, e>> \in V <=> <<u, e>> \in V
      OBVIOUS
    <2>3. /\ t \in Table /\ Sound(after, V) /\ us \in Tables
          /\ us.head # NULL => us.head \in Live(us)
          /\ \A u \in Table \ {t} : us.table[u] = after.table[u]
      BY <1>2, <1>6, <1>10, <1>12
    <2> QED BY <1>14, <2>1, <2>2, <2>3, SoundTable
  <1> QED BY <1>1, <1>15

\* A table comes to the top.
LEMMA SoundBump ==
  ASSUME NEW ts, NEW V, Sound(ts, V), NEW t \in Live(ts)
  PROVE  Sound(Bump(ts, t), V)
  <1> DEFINE own == WithLinks(ts, t, NULL, ts.head)
             ps == Put(own, ts.head, "prev", t)
             us == WithHead(ps, t)
  <1>1. Bump(ts, t) = us
    BY DEF Bump, WithLinks, WithHead
  <1>2. ts \in Tables /\ t \in Table /\ ts.head \in Table \cup {NULL}
    BY DEF Sound, Live, Tables
  <1>3. SameLists(ts, own)
    BY <1>2, SetLinks
  <1>4. own \in Tables
    BY <1>3 DEF SameLists
  <1> HIDE DEF own
  <1>5. SameLists(own, ps)
    BY <1>2, <1>4, PutLinks
  <1>6. ps \in Tables
    BY <1>5 DEF SameLists
  <1> HIDE DEF ps
  <1>7. us \in Tables /\ us.head = t /\ us.table = ps.table
    BY <1>2, <1>6, SetHead
  <1> HIDE DEF us
  <1>8. SameLists(ts, us)
    BY <1>3, <1>5, <1>7 DEF SameLists
  <1> QED BY <1>1, <1>7, <1>8, SoundLinks

\* What is given back is free, and the rest stays in use.
LEMMA SoundFree ==
  ASSUME NEW ts, NEW U, Sound(ts, U), NEW p \in U
  PROVE  Sound(FreeIn(ts, p), U \ {p})
  <1> DEFINE t == p[1]
             e == p[2]
             free == ts.table[t].free
             s == [ts EXCEPT !.table[t].free = <<e>> \o @, !.table[t].count = @ + 1]
             V == U \ {p}
  <1>1. /\ FreeIn(ts, p) = IF s.table[t].count = TrampolineCount /\ s.head # t THEN TableFree(s, t)
                           ELSE IF s.head # t THEN Bump(s, t) ELSE s
    BY DEF FreeIn
  <1>2. /\ p \in Place /\ t \in Live(ts) /\ t \in Table /\ e \in Entry /\ p = <<t, e>>
        /\ ts \in Tables /\ ts.table[t] \in TableRecord /\ ListsFree(ts, t, U)
    BY DEF Sound, Place, Live, Tables, Entry
  <1>3. /\ free \in Seq(Entry) /\ IsInjective(free) /\ ts.table[t].count = Len(free)
        /\ ToSet(free) = {d \in Entry : <<t, d>> \notin U} /\ e \notin ToSet(free)
    BY <1>2 DEF ListsFree, TableRecord
  <1> DEFINE more == <<e>> \o free
             count == Len(free) + 1
  <1>4. /\ more \in Seq(Entry) /\ Len(more) = count /\ count \in Nat
        /\ IsInjective(more) /\ ToSet(more) = ToSet(free) \cup {e}
    BY <1>2, <1>3, PutFirst
  <1>5. s = WithList(ts, t, more, count)
    BY <1>3 DEF WithList
  <1> HIDE DEF t, e, free, s, more, count
  <1>6. /\ s \in Tables /\ s.head = ts.head /\ s.table[t].state = ts.table[t].state
        /\ s.table[t].free = more /\ s.table[t].count = count
        /\ \A u \in Table : u # t => s.table[u] = ts.table[u]
    BY <1>2, <1>4, <1>5, SetList
  <1>7. Live(s) = Live(ts)
    BY <1>6 DEF Live
  <1>8. ToSet(more) = {d \in Entry : <<t, d>> \notin V}
    BY <1>2, <1>3, <1>4
  <1>9. ListsFree(s, t, V)
    BY <1>4, <1>6, <1>8 DEF ListsFree
  <1>10. /\ \A q \in V : q \in Place /\ q[1] \in Live(s)
         /\ s.head # NULL => s.head \in Live(s)
    BY <1>6, <1>7 DEF Sound
  <1>11. \A u \in Live(s) \ {t} : \A d \in Entry : <<u, d>> \in V <=> <<u, d>> \in U
    BY <1>2
  <1> HIDE DEF V
  <1>12. Sound(s, V)
    BY <1>2, <1>6, <1>7, <1>9, <1>10, <1>11, SoundTable
  <1>13. t \in Live(s)
    BY <1>2, <1>7
  <1>14. Sound(FreeIn(ts, p), V)
    <2>1. CASE s.table[t].count = TrampolineCount /\ s.head # t
      BY <1>1, <1>12, <1>13, <2>1, SoundTableFree
    <2>2. CASE ~ (s.table[t].count = TrampolineCount /\ s.head # t)
      BY <1>1, <1>12, <1>13, <2>2, SoundBump
    <2> QED BY <2>1, <2>2
  <1> QED BY <1>14 DEF V

-------------------------------------------------------------------------------
(* Those that hold the trampolines.                                          *)

\* One more holder, of a trampoline that nobody held.
LEMMA OneMore ==
  ASSUME NEW f, NEW g, NEW d, IsInjective(f), d \notin DOMAIN f, DOMAIN g = DOMAIN f \cup {d},
         \A x \in DOMAIN f : g[x] = f[x], g[d] \notin ToSet(f)
  PROVE  IsInjective(g) /\ ToSet(g) = ToSet(f) \cup {g[d]}
  <1>1. \A x \in DOMAIN f : f[x] # g[d]
    BY DEF ToSet
  <1>2. IsInjective(g)
    <2> SUFFICES ASSUME NEW x \in DOMAIN g, NEW y \in DOMAIN g, g[x] = g[y] PROVE x = y
      BY DEF IsInjective
    <2>1. CASE x = d \/ y = d
      BY <2>1, <1>1
    <2>2. CASE x # d /\ y # d
      BY <2>2 DEF IsInjective
    <2> QED BY <2>1, <2>2
  <1> QED BY <1>2 DEF ToSet

\* Why no trampoline is shared or lost: whoever holds one is known, and between
\* them they hold what the tables' free lists do not.
HoldersOK ==
  /\ trampoline \in [Closure -> Place \cup {NoPlace}]
  /\ blocks \in Seq(Place)
  /\ IsInjective(InUse)
  /\ Sound(tables, ToSet(InUse))

\* libffi has tables on arm64 only.
ArmHoldersOK == arch = "arm64" => HoldersOK

ClosuresInv == TypeOK /\ ClosuresOwned /\ ArmHoldersOK

\* Hooks and blocks are what a careful patch does with the registry, and more.
LEMMA ClosuresAreCareful == [ClosuresNext]_closureVars => [CarefulNext]_methodVars
  BY DEF ClosuresNext, Hooked, CreateBlock, BeginReset, DestroyHook, HooksCleared, ClearBlock,
         EndReset, CarefulNext, AddHook, ClearSteps, closureVars, methodVars

\* The program is built once.
LEMMA ArchStays == [ClosuresNext]_closureVars => arch' = arch
  BY DEF ClosuresNext, Hooked, CreateBlock, BeginReset, DestroyHook, HooksCleared, ClearBlock,
         EndReset, Alloc, Free, closureVars, codeVars

\* On arm64 a closure is an entry of a table.
LEMMA ArmAlloc ==
  ASSUME arch = "arm64", NEW a \in Allocs
  PROVE  MayAlloc(tables) /\ a.place = Allocated(tables) /\ a.tables = AllocIn(tables)
  BY DEF Allocs

LEMMA HoldersInit == ClosuresInit => HoldersOK
  <1> SUFFICES ASSUME ClosuresInit PROVE HoldersOK
    OBVIOUS
  <1>1. hooks = <<>> /\ blocks = <<>> /\ tables = NoTables /\ trampoline = [k \in Closure |-> NoPlace]
    BY DEF ClosuresInit, MethodInit
  <1>2. Holder = {}
    BY <1>1 DEF Holder
  <1>3. DOMAIN InUse = {}
    BY <1>2 DEF InUse
  <1>4. IsInjective(InUse) /\ ToSet(InUse) = {}
    BY <1>3 DEF IsInjective, ToSet
  <1>5. NoTables \in Tables /\ NoTables.head = NULL /\ Live(NoTables) = {}
    <2>1. NoTable("none") \in TableRecord /\ NoTable("none").state = "none"
      BY DEF NoTable, TableRecord
    <2>2. NoTables.table = [t \in Table |-> NoTable("none")]
      BY DEF NoTables
    <2> HIDE DEF NoTable
    <2>3. \A t \in Table : NoTables.table[t].state # "live"
      BY <2>1, <2>2
    <2> QED BY <2>1, <2>3 DEF NoTables, Tables, Live
  <1>6. Sound(NoTables, {})
    BY <1>5 DEF Sound
  <1>7. blocks \in Seq(Place)
    BY <1>1
  <1> QED BY <1>1, <1>4, <1>6, <1>7 DEF HoldersOK

\* Nobody takes or gives back anything.
LEMMA HoldersStay ==
  ASSUME HoldersOK, UNCHANGED <<hooks, tables, trampoline, blocks>>
  PROVE  HoldersOK'
  <1>1. InUse' = InUse
    BY DEF InUse, Holder
  <1> QED BY <1>1 DEF HoldersOK

\* What is taken and given back in one go is free again.
LEMMA SoundAllocFree ==
  ASSUME NEW ts, NEW U, Sound(ts, U), MayAlloc(ts)
  PROVE  Sound(FreeIn(AllocIn(ts), Allocated(ts)), U)
  <1> DEFINE p == Allocated(ts)
  <1>1. p \notin U /\ Sound(AllocIn(ts), U \cup {p})
    BY SoundAlloc
  <1>2. Sound(FreeIn(AllocIn(ts), p), (U \cup {p}) \ {p})
    BY <1>1, SoundFree
  <1>3. (U \cup {p}) \ {p} = U
    BY <1>1
  <1> QED BY <1>2, <1>3

\* A hook that failed joins the list and holds nothing.
LEMMA HoldersFailed ==
  ASSUME TypeOK, HoldersOK, NEW h \in Hook, h.closure = NoClosure, hooks' = Append(hooks, h),
         UNCHANGED <<trampoline, blocks>>,
         tables' = tables \/ (MayAlloc(tables) /\ tables' = FreeIn(AllocIn(tables), Allocated(tables)))
  PROVE  HoldersOK'
  <1> DEFINE n == Len(hooks) + 1
  <1>1. /\ DOMAIN hooks' = DOMAIN hooks \cup {n}
        /\ \A i \in DOMAIN hooks : i # n /\ hooks'[i] = hooks[i]
        /\ hooks'[n] = h
    BY AppendHook DEF TypeOK
  <1>2. Holder' = Holder
    BY <1>1 DEF Holder
  <1>3. \A x \in Holder : x[1] = "hook" => x[2] \in DOMAIN hooks
    BY DEF Holder
  <1>4. InUse' = InUse
    BY <1>1, <1>2, <1>3 DEF InUse
  <1>5. Sound(tables', ToSet(InUse))
    BY SoundAllocFree DEF HoldersOK
  <1> QED BY <1>4, <1>5 DEF HoldersOK

\* A new hook holds what was nobody's.
LEMMA HoldersInstalled ==
  ASSUME TypeOK, ClosuresOwned, HoldersOK, NEW k \in Closure, closure[k] = "unused",
         closure' = [closure EXCEPT ![k] = "live"],
         NEW h \in Hook, h.closure = k, hooks' = Append(hooks, h),
         MayAlloc(tables), tables' = AllocIn(tables), blocks' = blocks,
         trampoline' = [l \in Closure |-> IF Taken(l) THEN Allocated(tables) ELSE trampoline[l]]
  PROVE  HoldersOK'
  <1> DEFINE n == Len(hooks) + 1
             d == <<"hook", n>>
             p == Allocated(tables)
  <1>1. /\ hooks \in Seq(Hook) /\ hooks' = Append(hooks, h)
        /\ DOMAIN hooks' = DOMAIN hooks \cup {n}
        /\ \A i \in DOMAIN hooks : i # n /\ hooks'[i] = hooks[i]
        /\ hooks'[n] = h
    BY AppendHook DEF TypeOK
  <1>2. k # NoClosure
    BY ValuesAssumption
  <1>3. Holder' = Holder \cup {d} /\ d \notin Holder
    BY <1>1, <1>2 DEF Holder
  <1>4. p \in Place /\ p \notin ToSet(InUse) /\ Sound(AllocIn(tables), ToSet(InUse) \cup {p})
    BY SoundAlloc DEF HoldersOK
  <1> HIDE DEF p
  <1>5. \A l \in Closure : Taken(l) <=> l = k
    BY DEF Taken, TypeOK
  <1>6. trampoline' = [l \in Closure |-> IF l = k THEN p ELSE trampoline[l]]
    BY <1>5 DEF p
  <1>7. \A x \in Holder : InUse'[x] = InUse[x]
    <2> SUFFICES ASSUME NEW x \in Holder PROVE InUse'[x] = InUse[x]
      OBVIOUS
    <2>1. CASE x[1] = "hook"
      <3>1. x[2] \in DOMAIN hooks /\ hooks[x[2]].closure # NoClosure
        BY <2>1 DEF Holder
      <3>2. hooks[x[2]].closure \in Closure /\ closure[hooks[x[2]].closure] = "live"
        BY <1>1, <3>1, HookFields DEF ClosuresOwned
      <3>3. hooks'[x[2]] = hooks[x[2]] /\ hooks[x[2]].closure # k
        BY <1>1, <3>1, <3>2
      <3>4. trampoline'[hooks'[x[2]].closure] = trampoline[hooks[x[2]].closure]
        BY <1>6, <3>2, <3>3
      <3> QED BY <1>3, <2>1, <3>4 DEF InUse
    <2>2. CASE x[1] # "hook"
      BY <1>3, <2>2 DEF InUse
    <2> QED BY <2>1, <2>2
  <1>8. InUse'[d] = p
    <2>1. d \in Holder' /\ d[1] = "hook" /\ d[2] = n
      BY <1>3
    <2>2. hooks'[n].closure = k /\ trampoline'[k] = p
      BY <1>1, <1>6
    <2> HIDE DEF d
    <2> QED BY <2>1, <2>2 DEF InUse
  <1>9. DOMAIN InUse = Holder /\ DOMAIN InUse' = Holder \cup {d}
    BY <1>3 DEF InUse
  <1> HIDE DEF d, n
  <1>10. IsInjective(InUse') /\ ToSet(InUse') = ToSet(InUse) \cup {p}
    <2> DEFINE f == InUse
               g == InUse'
    <2>1. /\ IsInjective(f) /\ d \notin DOMAIN f /\ DOMAIN g = DOMAIN f \cup {d}
          /\ \A x \in DOMAIN f : g[x] = f[x]
          /\ g[d] = p /\ p \notin ToSet(f)
      BY <1>3, <1>4, <1>7, <1>8, <1>9 DEF HoldersOK
    <2> HIDE DEF f, g
    <2>2. IsInjective(g) /\ ToSet(g) = ToSet(f) \cup {g[d]}
      BY <2>1, OneMore
    <2> QED BY <2>1, <2>2 DEF f, g
  <1>11. trampoline' \in [Closure -> Place \cup {NoPlace}]
    BY <1>4, <1>6 DEF HoldersOK
  <1> QED BY <1>4, <1>10, <1>11 DEF HoldersOK

\* A new block holds what was nobody's.
LEMMA HoldersBlock ==
  ASSUME HoldersOK, MayAlloc(tables), tables' = AllocIn(tables),
         blocks' = Append(blocks, Allocated(tables)), UNCHANGED <<hooks, trampoline>>
  PROVE  HoldersOK'
  <1> DEFINE n == Len(blocks) + 1
             d == <<"block", n>>
             p == Allocated(tables)
  <1>1. p \in Place /\ p \notin ToSet(InUse) /\ Sound(AllocIn(tables), ToSet(InUse) \cup {p})
    BY SoundAlloc DEF HoldersOK
  <1>2. /\ blocks' \in Seq(Place)
        /\ DOMAIN blocks' = DOMAIN blocks \cup {n}
        /\ \A i \in DOMAIN blocks : i # n /\ blocks'[i] = blocks[i]
        /\ blocks'[n] = p
    <2>1. blocks \in Seq(Place)
      BY DEF HoldersOK
    <2> QED BY <1>1, <2>1
  <1> HIDE DEF p
  <1>3. Holder' = Holder \cup {d} /\ d \notin Holder
    BY <1>2 DEF Holder
  <1>4. \A x \in Holder : x[1] # "hook" => x[2] \in DOMAIN blocks
    BY DEF Holder
  <1>5. \A x \in Holder : InUse'[x] = InUse[x]
    BY <1>2, <1>3, <1>4 DEF InUse
  <1>6. InUse'[d] = p
    <2>1. d \in Holder' /\ d[1] # "hook" /\ d[2] = n
      BY <1>3
    <2> HIDE DEF d
    <2> QED BY <1>2, <2>1 DEF InUse
  <1>7. DOMAIN InUse = Holder /\ DOMAIN InUse' = Holder \cup {d}
    BY <1>3 DEF InUse
  <1> HIDE DEF d, n
  <1>8. IsInjective(InUse') /\ ToSet(InUse') = ToSet(InUse) \cup {p}
    <2> DEFINE f == InUse
               g == InUse'
    <2>1. /\ IsInjective(f) /\ d \notin DOMAIN f /\ DOMAIN g = DOMAIN f \cup {d}
          /\ \A x \in DOMAIN f : g[x] = f[x]
          /\ g[d] = p /\ p \notin ToSet(f)
      BY <1>1, <1>3, <1>5, <1>6, <1>7 DEF HoldersOK
    <2> HIDE DEF f, g
    <2>2. IsInjective(g) /\ ToSet(g) = ToSet(f) \cup {g[d]}
      BY <2>1, OneMore
    <2> QED BY <2>1, <2>2 DEF f, g
  <1> QED BY <1>1, <1>2, <1>8 DEF HoldersOK, p

\* The holders D leave, and what they held; the others may have other numbers now.
LEMMA HoldersLeave ==
  ASSUME HoldersOK, NEW D \in SUBSET Holder, NEW old \in [Holder' -> Holder],
         \A x \in Holder' : old[x] \notin D /\ InUse'[x] = InUse[old[x]],
         \A x, y \in Holder' : old[x] = old[y] => x = y,
         \A y \in Holder : y \notin D => \E x \in Holder' : old[x] = y
  PROVE  IsInjective(InUse') /\ ToSet(InUse') = ToSet(InUse) \ {InUse[d] : d \in D}
  <1> DEFINE f == InUse
             g == InUse'
  <1>1. /\ DOMAIN f = Holder /\ DOMAIN g = Holder'
        /\ \A x, y \in Holder : f[x] = f[y] => x = y
        /\ \A x \in Holder' : g[x] = f[old[x]]
    BY DEF InUse, HoldersOK, IsInjective
  <1> HIDE DEF f, g
  <1>2. IsInjective(g)
    <2> SUFFICES ASSUME NEW x \in DOMAIN g, NEW y \in DOMAIN g, g[x] = g[y] PROVE x = y
      BY DEF IsInjective
    <2>1. old[x] = old[y]
      BY <1>1
    <2> QED BY <1>1, <2>1
  <1>3. \A x \in Holder' : g[x] \in ToSet(f) /\ g[x] \notin {f[d] : d \in D}
    BY <1>1 DEF ToSet
  <1>4. \A x \in Holder : f[x] \notin {f[d] : d \in D} => f[x] \in ToSet(g)
    <2> SUFFICES ASSUME NEW x \in Holder, f[x] \notin {f[d] : d \in D} PROVE f[x] \in ToSet(g)
      OBVIOUS
    <2> PICK y \in Holder' : old[y] = x
      OBVIOUS
    <2> QED BY <1>1 DEF ToSet
  <1>5. ToSet(g) = ToSet(f) \ {f[d] : d \in D}
    BY <1>1, <1>3, <1>4 DEF ToSet
  <1> QED BY <1>2, <1>5 DEF f, g

\* The oldest hook goes, with what it holds, if it holds something.
LEMMA HoldersDestroy ==
  ASSUME TypeOK, ClosuresOwned, HoldersOK, arch = "arm64", DestroyHook
  PROVE  HoldersOK'
  <1> DEFINE k == hooks[1].closure
             D == {<<"hook", 1>>} \cap Holder
             old == [x \in Holder' |-> IF x[1] = "hook" THEN <<"hook", x[2] + 1>> ELSE x]
  <1>1. /\ hooks \in Seq(Hook) /\ hooks # <<>> /\ hooks' = Tail(hooks) /\ blocks' = blocks
        /\ IF k = NoClosure THEN UNCHANGED <<tables, trampoline>>
           ELSE /\ tables' = FreeIn(tables, trampoline[k])
                /\ trampoline' = [trampoline EXCEPT ![k] = NoPlace]
    <2>1. hooks \in Seq(Hook) /\ hooks # <<>>
      BY DEF DestroyHook, DestroyFront, TypeOK
    <2>2. Head(hooks) = hooks[1]
      BY <2>1, TailHook
    <2> QED BY <2>1, <2>2 DEF DestroyHook, DestroyFront, Free, codeVars
  <1>2. /\ 1 \in DOMAIN hooks
        /\ \A i \in DOMAIN hooks' : i \in Nat /\ i + 1 \in DOMAIN hooks /\ i + 1 # 1 /\ hooks'[i] = hooks[i + 1]
        /\ \A i \in DOMAIN hooks : i \in Nat /\ (i # 1 => i - 1 \in DOMAIN hooks' /\ hooks'[i - 1] = hooks[i])
    <2>1. hooks' \in Seq(Hook)
      BY <1>1, TailHook
    <2>2. \A i \in DOMAIN hooks' : i \in Nat
      BY <2>1
    <2>3. \A i \in DOMAIN hooks : i \in Nat
      BY <1>1
    <2> QED BY <1>1, <2>2, <2>3, TailHook
  <1>3. \A i \in DOMAIN hooks : hooks[i].closure \in Closure \cup {NoClosure}
    BY <1>1, HookFields
  <1>4. k \in Closure \cup {NoClosure}
    BY <1>2, <1>3
  <1>5. \A x \in Holder' :
          \/ /\ x[1] = "hook" /\ x = <<"hook", x[2]>> /\ x[2] \in DOMAIN hooks'
             /\ hooks'[x[2]].closure # NoClosure
          \/ x[1] # "hook" /\ x[1] = "block" /\ x = <<"block", x[2]>> /\ x[2] \in DOMAIN blocks
    BY <1>1 DEF Holder
  <1>6. ASSUME NEW x \in Holder', x[1] = "hook"
        PROVE  /\ <<"hook", x[2] + 1>> \in Holder /\ <<"hook", x[2] + 1>> \notin D
               /\ trampoline'[hooks'[x[2]].closure] = trampoline[hooks[x[2] + 1].closure]
               /\ InUse'[x] = InUse[<<"hook", x[2] + 1>>]
    <2> DEFINE i == x[2]
    <2>1. /\ i \in DOMAIN hooks' /\ i \in Nat /\ i + 1 \in DOMAIN hooks /\ i + 1 # 1
          /\ hooks'[i] = hooks[i + 1] /\ hooks'[i].closure # NoClosure
      BY <1>2, <1>5, <1>6
    <2>2. hooks[i + 1].closure # k /\ hooks[i + 1].closure \in Closure
      BY <1>2, <1>3, <2>1 DEF ClosuresOwned
    <2>3. trampoline'[hooks'[i].closure] = trampoline[hooks[i + 1].closure]
      BY <1>1, <1>4, <2>1, <2>2 DEF HoldersOK
    <2>4. <<"hook", i + 1>> \in Holder /\ <<"hook", i + 1>> \notin D
      BY <2>1 DEF Holder
    <2>5. InUse'[x] = trampoline'[hooks'[i].closure]
      BY <1>6 DEF InUse
    <2>6. InUse[<<"hook", i + 1>>] = trampoline[hooks[i + 1].closure]
      BY <2>4 DEF InUse
    <2> QED BY <2>3, <2>4, <2>5, <2>6
  <1>7. ASSUME NEW x \in Holder', x[1] # "hook"
        PROVE  x \in Holder /\ x \notin D /\ InUse'[x] = InUse[x]
    <2>1. x \in Holder /\ x \notin D
      BY <1>5, <1>7 DEF Holder
    <2> QED BY <1>1, <1>7, <2>1 DEF InUse
  <1>8. old \in [Holder' -> Holder]
    BY <1>6, <1>7
  <1>9. \A x \in Holder' : old[x] \notin D /\ InUse'[x] = InUse[old[x]]
    BY <1>6, <1>7
  <1>10. \A x, y \in Holder' : old[x] = old[y] => x = y
    <2> SUFFICES ASSUME NEW x \in Holder', NEW y \in Holder', old[x] = old[y] PROVE x = y
      OBVIOUS
    <2>1. CASE x[1] = "hook" /\ y[1] = "hook"
      <3>1. x[2] + 1 = y[2] + 1 /\ x[2] \in Nat /\ y[2] \in Nat
        BY <1>2, <1>5, <2>1
      <3>2. x[2] = y[2]
        BY <3>1
      <3> QED BY <1>5, <2>1, <3>2
    <2>2. CASE x[1] # "hook" /\ y[1] # "hook"
      BY <2>2
    <2>3. CASE x[1] = "hook" /\ y[1] # "hook"
      BY <2>3
    <2>4. CASE x[1] # "hook" /\ y[1] = "hook"
      BY <2>4
    <2> QED BY <2>1, <2>2, <2>3, <2>4
  <1>11. \A y \in Holder : y \notin D => \E x \in Holder' : old[x] = y
    <2> SUFFICES ASSUME NEW y \in Holder, y \notin D PROVE \E x \in Holder' : old[x] = y
      OBVIOUS
    <2>1. CASE y[1] = "hook"
      <3> DEFINE x == <<"hook", y[2] - 1>>
      <3>1. y = <<"hook", y[2]>> /\ y[2] \in DOMAIN hooks /\ hooks[y[2]].closure # NoClosure
        BY <2>1 DEF Holder
      <3>2. y[2] # 1
        BY <3>1
      <3>3. y[2] \in Nat /\ y[2] - 1 \in DOMAIN hooks' /\ hooks'[y[2] - 1] = hooks[y[2]]
        BY <1>2, <3>1, <3>2
      <3>4. x \in Holder'
        BY <3>1, <3>3 DEF Holder
      <3>5. old[x] = <<"hook", y[2]>>
        BY <3>3, <3>4
      <3> QED BY <3>1, <3>4, <3>5
    <2>2. CASE y[1] # "hook"
      <3>1. y \in Holder'
        BY <1>1, <2>2 DEF Holder
      <3> QED BY <2>2, <3>1
    <2> QED BY <2>1, <2>2
  <1> HIDE DEF old
  <1>12. IsInjective(InUse') /\ ToSet(InUse') = ToSet(InUse) \ {InUse[d] : d \in D}
    <2>1. D \in SUBSET Holder
      OBVIOUS
    <2> HIDE DEF D
    <2> QED BY <1>8, <1>9, <1>10, <1>11, <2>1, HoldersLeave
  <1>13. trampoline' \in [Closure -> Place \cup {NoPlace}]
    BY <1>1, <1>4 DEF HoldersOK
  <1>14. Sound(tables', ToSet(InUse'))
    <2>1. CASE k = NoClosure
      <3>1. D = {}
        BY <2>1 DEF Holder
      <3>2. ToSet(InUse') = ToSet(InUse)
        BY <1>12, <3>1
      <3> QED BY <1>1, <2>1, <3>2 DEF HoldersOK
    <2>2. CASE k # NoClosure
      <3>1. D = {<<"hook", 1>>}
        BY <1>2, <2>2 DEF Holder
      <3>2. <<"hook", 1>> \in Holder /\ InUse[<<"hook", 1>>] = trampoline[k]
        BY <1>2, <2>2 DEF Holder, InUse
      <3>3. trampoline[k] \in ToSet(InUse)
        BY <3>2 DEF ToSet, InUse
      <3>4. ToSet(InUse') = ToSet(InUse) \ {trampoline[k]}
        BY <1>12, <3>1, <3>2
      <3> QED BY <1>1, <2>2, <3>3, <3>4, SoundFree DEF HoldersOK
    <2> QED BY <2>1, <2>2
  <1> QED BY <1>1, <1>12, <1>13, <1>14 DEF HoldersOK

\* The oldest block goes, with what it holds.
LEMMA HoldersClear ==
  ASSUME HoldersOK, blocks # <<>>, tables' = FreeIn(tables, Head(blocks)),
         blocks' = Tail(blocks), UNCHANGED <<hooks, trampoline>>
  PROVE  HoldersOK'
  <1> DEFINE D == {<<"block", 1>>}
             old == [x \in Holder' |-> IF x[1] = "block" THEN <<"block", x[2] + 1>> ELSE x]
  <1>1. /\ blocks \in Seq(Place) /\ blocks' \in Seq(Place) /\ Head(blocks) = blocks[1]
        /\ 1 \in DOMAIN blocks
        /\ \A i \in DOMAIN blocks' : i \in Nat /\ i + 1 \in DOMAIN blocks /\ i + 1 # 1 /\ blocks'[i] = blocks[i + 1]
        /\ \A i \in DOMAIN blocks : i \in Nat /\ (i # 1 => i - 1 \in DOMAIN blocks' /\ blocks'[i - 1] = blocks[i])
    <2>1. blocks \in Seq(Place)
      BY DEF HoldersOK
    <2> QED BY <2>1
  <1>2. \A x \in Holder' :
          \/ x[1] = "block" /\ x = <<"block", x[2]>> /\ x[2] \in DOMAIN blocks'
          \/ /\ x[1] # "block" /\ x[1] = "hook" /\ x = <<"hook", x[2]>> /\ x[2] \in DOMAIN hooks
             /\ hooks[x[2]].closure # NoClosure
    BY DEF Holder
  <1>3. ASSUME NEW x \in Holder', x[1] = "block"
        PROVE  /\ <<"block", x[2] + 1>> \in Holder /\ <<"block", x[2] + 1>> \notin D
               /\ InUse'[x] = InUse[<<"block", x[2] + 1>>]
    <2> DEFINE i == x[2]
    <2>1. i \in DOMAIN blocks' /\ i \in Nat /\ i + 1 \in DOMAIN blocks /\ i + 1 # 1 /\ blocks'[i] = blocks[i + 1]
      BY <1>1, <1>2, <1>3
    <2>2. <<"block", i + 1>> \in Holder /\ <<"block", i + 1>> \notin D
      BY <2>1 DEF Holder
    <2>3. InUse'[x] = blocks'[i]
      BY <1>3 DEF InUse
    <2>4. InUse[<<"block", i + 1>>] = blocks[i + 1]
      BY <2>2 DEF InUse
    <2> QED BY <2>1, <2>2, <2>3, <2>4
  <1>4. ASSUME NEW x \in Holder', x[1] # "block"
        PROVE  x \in Holder /\ x \notin D /\ InUse'[x] = InUse[x]
    <2>1. x \in Holder /\ x \notin D
      BY <1>2, <1>4 DEF Holder
    <2> QED BY <1>2, <1>4, <2>1 DEF InUse
  <1>5. old \in [Holder' -> Holder]
    BY <1>3, <1>4
  <1>6. \A x \in Holder' : old[x] \notin D /\ InUse'[x] = InUse[old[x]]
    BY <1>3, <1>4
  <1>7. \A x, y \in Holder' : old[x] = old[y] => x = y
    <2> SUFFICES ASSUME NEW x \in Holder', NEW y \in Holder', old[x] = old[y] PROVE x = y
      OBVIOUS
    <2>1. CASE x[1] = "block" /\ y[1] = "block"
      <3>1. x[2] + 1 = y[2] + 1 /\ x[2] \in Nat /\ y[2] \in Nat
        BY <1>1, <1>2, <2>1
      <3>2. x[2] = y[2]
        BY <3>1
      <3> QED BY <1>2, <2>1, <3>2
    <2>2. CASE x[1] # "block" /\ y[1] # "block"
      BY <2>2
    <2>3. CASE x[1] = "block" /\ y[1] # "block"
      BY <2>3
    <2>4. CASE x[1] # "block" /\ y[1] = "block"
      BY <2>4
    <2> QED BY <2>1, <2>2, <2>3, <2>4
  <1>8. \A y \in Holder : y \notin D => \E x \in Holder' : old[x] = y
    <2> SUFFICES ASSUME NEW y \in Holder, y \notin D PROVE \E x \in Holder' : old[x] = y
      OBVIOUS
    <2>1. CASE y[1] = "block"
      <3> DEFINE x == <<"block", y[2] - 1>>
      <3>1. y = <<"block", y[2]>> /\ y[2] \in DOMAIN blocks /\ y[2] # 1
        BY <2>1 DEF Holder
      <3>2. y[2] \in Nat /\ y[2] - 1 \in DOMAIN blocks'
        BY <1>1, <3>1
      <3>3. x \in Holder'
        BY <3>2 DEF Holder
      <3>4. old[x] = <<"block", y[2]>>
        BY <3>2, <3>3
      <3> QED BY <3>1, <3>3, <3>4
    <2>2. CASE y[1] # "block"
      <3>1. y \in Holder'
        BY <2>2 DEF Holder
      <3> QED BY <2>2, <3>1
    <2> QED BY <2>1, <2>2
  <1> HIDE DEF old
  <1>9. <<"block", 1>> \in Holder /\ InUse[<<"block", 1>>] = blocks[1]
    BY <1>1 DEF Holder, InUse
  <1>10. IsInjective(InUse') /\ ToSet(InUse') = ToSet(InUse) \ {InUse[d] : d \in D}
    <2>1. D \in SUBSET Holder
      BY <1>9
    <2> HIDE DEF D
    <2> QED BY <1>5, <1>6, <1>7, <1>8, <2>1, HoldersLeave
  <1>11. ToSet(InUse') = ToSet(InUse) \ {blocks[1]}
    BY <1>9, <1>10
  <1>12. blocks[1] \in ToSet(InUse)
    BY <1>9 DEF ToSet, InUse
  <1> QED BY <1>1, <1>10, <1>11, <1>12, SoundFree DEF HoldersOK

LEMMA HoldersHooked ==
  ASSUME TypeOK, ClosuresOwned, HoldersOK, arch = "arm64", NEW m \in Target, Hooked(m)
  PROVE  HoldersOK'
  <1>1. Lookup(imp, m) \in Imp \cup {NoImp}
    BY LookupType DEF TypeOK
  <1>2. /\ [target |-> m, original |-> NoImp, closure |-> NoClosure] \in Hook
        /\ [target |-> m, original |-> Lookup(imp, m), closure |-> NoClosure] \in Hook
        /\ \A k \in Closure : [target |-> m, original |-> Lookup(imp, m), closure |-> k] \in Hook
    BY <1>1 DEF Hook
  <1>3. CASE HookInstalled(m) /\ MayAlloc(tables)
             /\ tables' = AllocIn(tables)
             /\ trampoline' = [k \in Closure |-> IF Taken(k) THEN Allocated(tables) ELSE trampoline[k]]
    <2> PICK k \in Closure :
            /\ closure[k] = "unused"
            /\ closure' = [closure EXCEPT ![k] = "live"]
            /\ Register([target |-> m, original |-> Lookup(imp, m), closure |-> k], FALSE)
      BY <1>3 DEF HookInstalled
    <2> DEFINE h == [target |-> m, original |-> Lookup(imp, m), closure |-> k]
    <2>1. h \in Hook /\ h.closure = k /\ hooks' = Append(hooks, h) /\ blocks' = blocks
      BY <1>2 DEF Register, Hooked
    <2> HIDE DEF h
    <2> QED BY <1>3, <2>1, HoldersInstalled
  <1>4. CASE /\ HookTargetMissing(m) \/ HookAllocFailed(m) \/ HookPrepareFailed(m)
             /\ trampoline' = trampoline
             /\ tables' = tables \/ (MayAlloc(tables) /\ tables' = FreeIn(AllocIn(tables), Allocated(tables)))
    <2> PICK h \in Hook : h.closure = NoClosure /\ hooks' = Append(hooks, h)
      BY <1>2, <1>4 DEF HookTargetMissing, HookAllocFailed, HookPrepareFailed, Register
    <2>1. blocks' = blocks
      BY DEF Hooked
    <2> QED BY <1>4, <2>1, HoldersFailed
  <1>5. CASE HookInstalled(m) /\ \E a \in Allocs :
               /\ Alloc(a)
               /\ trampoline' = [k \in Closure |-> IF Taken(k) THEN a.place ELSE trampoline[k]]
    <2> PICK a \in Allocs :
            /\ Alloc(a)
            /\ trampoline' = [k \in Closure |-> IF Taken(k) THEN a.place ELSE trampoline[k]]
      BY <1>5
    <2>1. MayAlloc(tables) /\ a.place = Allocated(tables) /\ tables' = AllocIn(tables)
      BY ArmAlloc DEF Alloc
    <2> QED BY <1>3, <1>5, <2>1
  <1>6. CASE HookPrepareFailed(m) /\ trampoline' = trampoline
             /\ \E a \in Allocs : Free(a.tables, a.heap, a.place)
    <2> PICK a \in Allocs : Free(a.tables, a.heap, a.place)
      BY <1>6
    <2>1. MayAlloc(tables) /\ tables' = FreeIn(AllocIn(tables), Allocated(tables))
      BY ArmAlloc DEF Free
    <2> QED BY <1>4, <1>6, <2>1
  <1>7. CASE (HookTargetMissing(m) \/ HookAllocFailed(m)) /\ UNCHANGED <<codeVars, trampoline>>
    BY <1>4, <1>7 DEF codeVars
  <1> QED BY <1>5, <1>6, <1>7 DEF Hooked

LEMMA HoldersStep ==
  ASSUME TypeOK, ClosuresOwned, HoldersOK, arch = "arm64", [ClosuresNext]_closureVars
  PROVE  HoldersOK'
  <1>1. ASSUME NEW m \in Target, Hooked(m) PROVE HoldersOK'
    BY <1>1, HoldersHooked
  <1>2. CASE CreateBlock
    <2> PICK a \in Allocs :
            \/ Alloc(a) /\ blocks' = Append(blocks, a.place)
            \/ Free(a.tables, a.heap, a.place) /\ UNCHANGED blocks
      BY <1>2 DEF CreateBlock
    <2>1. /\ UNCHANGED <<hooks, trampoline>>
          /\ MayAlloc(tables) /\ a.place = Allocated(tables) /\ a.tables = AllocIn(tables)
      BY <1>2, ArmAlloc DEF CreateBlock, methodVars
    <2>2. CASE tables' = AllocIn(tables) /\ blocks' = Append(blocks, Allocated(tables))
      BY <2>1, <2>2, HoldersBlock
    <2>3. CASE tables' = FreeIn(AllocIn(tables), Allocated(tables)) /\ blocks' = blocks
      <3>1. Sound(tables', ToSet(InUse))
        BY <2>1, <2>3, SoundAllocFree DEF HoldersOK
      <3>2. InUse' = InUse
        BY <2>1, <2>3 DEF InUse, Holder
      <3> QED BY <2>1, <2>3, <3>1, <3>2 DEF HoldersOK
    <2> QED BY <2>1, <2>2, <2>3 DEF Alloc, Free
  <1>3. CASE DestroyHook
    BY <1>3, HoldersDestroy
  <1>4. CASE ClearBlock
    <2>1. UNCHANGED <<hooks, trampoline>> /\ tables' = FreeIn(tables, Head(blocks))
      BY <1>4 DEF ClearBlock, methodVars, Free
    <2> QED BY <1>4, <2>1, HoldersClear DEF ClearBlock
  <1>5. CASE \/ BeginReset \/ HooksCleared \/ EndReset \/ UNCHANGED closureVars
             \/ ClearHookErrors /\ UNCHANGED <<codeVars, trampoline, blocks, resetting>>
    <2>1. UNCHANGED <<hooks, tables, trampoline, blocks>>
      BY <1>5 DEF BeginReset, BeginClear, HooksCleared, EndClear, EndReset, ClearHookErrors,
                    closureVars, codeVars, methodVars
    <2> QED BY <2>1, HoldersStay
  <1> QED BY <1>1, <1>2, <1>3, <1>4, <1>5 DEF ClosuresNext

\* The hooks and the blocks of a patch are hooks of a careful patch: all that is
\* proved of the registry is true of it (ObjcMethod, CreateWasmBlock, resetLocked).
THEOREM ClosuresImplementCareful == ClosuresSpec => CarefulSpec
  <1>1. ClosuresInit => MethodInit
    BY DEF ClosuresInit
  <1> QED BY <1>1, ClosuresAreCareful, PTL DEF ClosuresSpec, CarefulSpec

\* The invariant of hooks, blocks and tables together (ffi_closure_alloc and
\* ffi_closure_free, as their callers use them).
THEOREM ClosuresInvariant == ClosuresSpec => []ClosuresInv
  <1>1. ClosuresInit => ClosuresInv
    BY TypeInit, OwnedInit, HoldersInit DEF ClosuresInit, ClosuresInv, ArmHoldersOK
  <1>2. ClosuresInv /\ [ClosuresNext]_closureVars => ClosuresInv'
    BY ClosuresAreCareful, CarefulIsMethod, TypeStep, OwnedStep, HoldersStep, ArchStays
       DEF ClosuresInv, ArmHoldersOK
  <1> QED BY <1>1, <1>2, PTL DEF ClosuresSpec

\* However many hooks and blocks a patch makes, in whatever order they go, and
\* whichever tables come and go with them: no two share a trampoline, none has
\* one in a page that was given back, and no trampoline is lost (closures.c).
THEOREM NoTrampolineShared == ClosuresSpec => []TrampolinesOwnedOnce
  <1>1. ClosuresInv => TrampolinesOwnedOnce
    <2> SUFFICES ASSUME ClosuresInv, arch = "arm64" PROVE EachOnce(tables, InUse)
      BY DEF TrampolinesOwnedOnce
    <2>1. IsInjective(InUse) /\ Sound(tables, ToSet(InUse))
      BY DEF ClosuresInv, ArmHoldersOK, HoldersOK
    <2>2. \A h \in DOMAIN InUse : InUse[h][1] \in Live(tables)
      BY <2>1 DEF Sound, ToSet
    <2>3. \A t \in Live(tables) : ListsFree(tables, t, ToSet(InUse))
      BY <2>1 DEF Sound
    <2> QED BY <2>1, <2>2, <2>3 DEF EachOnce, ListsFree, Entry
  <1> QED BY <1>1, ClosuresInvariant, PTL
===============================================================================
