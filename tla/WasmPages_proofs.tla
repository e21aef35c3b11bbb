--------------------------- MODULE WasmPages_proofs ----------------------------
(***************************************************************************)
(* Proofs about who has the interpreter's pages of code, and that nothing  *)
(* is written behind the end of one: for any patches that leave none       *)
(* uncompiled behind and lose no page, any number of lines in a page.      *)
(***************************************************************************)
EXTENDS WasmRuntime_proofs, FiniteSetTheorems

-------------------------------------------------------------------------------
(* Lists that have each of their elements once                               *)

Distinct(s) == \A i, j \in DOMAIN s : s[i] = s[j] => i = j

\* t is s without its element k.
Less(s, t, k) ==
  /\ k \in Range(s) /\ Distinct(t) /\ Range(t) = Range(s) \ {k} /\ Len(t) = Len(s) - 1

\* t is s and k.
More(s, t, k) == Distinct(t) /\ Range(t) = Range(s) \cup {k} /\ Len(t) = Len(s) + 1

LEMMA RemovedLess ==
  ASSUME NEW S, NEW s \in Seq(S), Distinct(s), NEW i \in 1 .. Len(s)
  PROVE  Less(s, RemoveAt(s, i), s[i])
<1> DEFINE n == Len(s)
           t == RemoveAt(s, i)
<1>1. n \in Nat /\ DOMAIN s = 1 .. n OBVIOUS
<1>2. /\ t \in Seq(S) /\ Len(t) = n - 1
      /\ \A l \in 1 .. n - 1 : t[l] = IF l < i THEN s[l] ELSE s[l + 1]
  BY WithoutOne
<1> HIDE DEF t
<1>3. DOMAIN t = 1 .. n - 1 BY <1>2
<1> HIDE DEF n
<1>4. \A l \in 1 .. n - 1 : \E j \in 1 .. n : j # i /\ t[l] = s[j] /\ j = IF l < i THEN l ELSE l + 1
  <2> SUFFICES ASSUME NEW l \in 1 .. n - 1
               PROVE  \E j \in 1 .. n : j # i /\ t[l] = s[j] /\ j = IF l < i THEN l ELSE l + 1
    OBVIOUS
  <2>1. CASE l < i
    <3>1. l \in 1 .. n /\ l # i /\ t[l] = s[l] BY <1>1, <1>2, <2>1
    <3> QED BY <2>1, <3>1
  <2>2. CASE ~(l < i)
    <3>1. l + 1 \in 1 .. n /\ l + 1 # i /\ t[l] = s[l + 1] BY <1>1, <1>2, <2>2 DEF n
    <3> QED BY <2>2, <3>1
  <2> QED BY <2>1, <2>2
<1>5. \A j \in 1 .. n : j # i => \E l \in 1 .. n - 1 : t[l] = s[j]
  <2> SUFFICES ASSUME NEW j \in 1 .. n, j # i PROVE \E l \in 1 .. n - 1 : t[l] = s[j] OBVIOUS
  <2>1. CASE j < i
    <3>1. j \in 1 .. n - 1 BY <1>1, <2>1 DEF n
    <3>2. t[j] = s[j] BY <1>2, <2>1, <3>1
    <3> QED BY <3>1, <3>2
  <2>2. CASE ~(j < i)
    <3> DEFINE l == j - 1
    <3>1. l \in 1 .. n - 1 /\ ~(l < i) /\ l + 1 = j BY <1>1, <2>2 DEF n
    <3> HIDE DEF l
    <3>2. t[l] = s[j] BY <1>2, <3>1
    <3> QED BY <3>1, <3>2
  <2> QED BY <2>1, <2>2
<1>6. Distinct(t)
  <2> SUFFICES ASSUME NEW a \in 1 .. n - 1, NEW b \in 1 .. n - 1, t[a] = t[b] PROVE a = b
    BY <1>3 DEF Distinct
  <2>1. PICK j \in 1 .. n : t[a] = s[j] /\ j = IF a < i THEN a ELSE a + 1 BY <1>4
  <2>2. PICK k \in 1 .. n : t[b] = s[k] /\ k = IF b < i THEN b ELSE b + 1 BY <1>4
  <2>3. j = k BY <1>1, <2>1, <2>2 DEF Distinct
  <2>4. a \in Int /\ b \in Int /\ i \in Int OBVIOUS
  <2> QED BY <2>1, <2>2, <2>3, <2>4
<1>7. Range(t) = Range(s) \ {s[i]}
  <2>1. i \in 1 .. n BY DEF n
  <2>2. \A j \in 1 .. n : j # i => s[j] # s[i] BY <1>1, <2>1 DEF Distinct
  <2>3. Range(t) \subseteq Range(s) \ {s[i]} BY <1>1, <1>3, <1>4, <2>2 DEF Range
  <2>4. Range(s) \ {s[i]} \subseteq Range(t) BY <1>1, <1>3, <1>5 DEF Range
  <2> QED BY <2>3, <2>4
<1>8. s[i] \in Range(s) BY <1>1 DEF Range, n
<1> QED BY <1>2, <1>6, <1>7, <1>8 DEF Less, n, t

LEMMA PushedMore ==
  ASSUME NEW S, NEW s \in Seq(S), Distinct(s), NEW k \in S, k \notin Range(s)
  PROVE  More(s, <<k>> \o s, k)
<1> DEFINE n == Len(s)
           t == <<k>> \o s
<1>1. n \in Nat /\ DOMAIN s = 1 .. n OBVIOUS
<1>2. t \in Seq(S) /\ Len(t) = n + 1 /\ t[1] = k /\ \A l \in 1 .. n : t[l + 1] = s[l] BY Pushed
<1> HIDE DEF t
<1>3. DOMAIN t = 1 .. n + 1 BY <1>2
<1>4. \A l \in 1 .. n + 1 : l = 1 \/ (l - 1 \in 1 .. n /\ t[l] = s[l - 1])
  <2> HIDE DEF n
  <2> SUFFICES ASSUME NEW l \in 1 .. n + 1, l # 1 PROVE l - 1 \in 1 .. n /\ t[l] = s[l - 1] OBVIOUS
  <2> DEFINE j == l - 1
  <2>1. j \in 1 .. n /\ l = j + 1 BY <1>1
  <2> HIDE DEF j
  <2>2. t[l] = s[j] BY <1>2, <2>1
  <2> QED BY <2>1, <2>2 DEF j
<1>5. \A l \in 1 .. n : s[l] # k BY <1>1 DEF Range
<1> HIDE DEF n
<1>6. Distinct(t)
  <2> SUFFICES ASSUME NEW a \in 1 .. n + 1, NEW b \in 1 .. n + 1, t[a] = t[b] PROVE a = b
    BY <1>3 DEF Distinct
  <2>1. CASE a = 1 \/ b = 1 BY <1>2, <1>4, <1>5, <2>1
  <2>2. CASE a # 1 /\ b # 1
    <3>1. a - 1 \in 1 .. n /\ b - 1 \in 1 .. n /\ s[a - 1] = s[b - 1] BY <1>4, <2>2
    <3>2. a - 1 = b - 1 BY <1>1, <3>1 DEF Distinct
    <3> QED BY <3>2
  <2> QED BY <2>1, <2>2
<1>7. Range(t) = Range(s) \cup {k}
  <2>1. Range(t) \subseteq Range(s) \cup {k}
    <3> SUFFICES ASSUME NEW l \in 1 .. n + 1 PROVE t[l] \in Range(s) \cup {k} BY <1>3 DEF Range
    <3>1. CASE l = 1 BY <1>2, <3>1
    <3>2. CASE l # 1 BY <1>1, <1>4, <3>2 DEF Range
    <3> QED BY <3>1, <3>2
  <2>2. \A l \in 1 .. n : l + 1 \in 1 .. n + 1 BY <1>1
  <2>3. 1 \in 1 .. n + 1 BY <1>1
  <2>4. Range(s) \cup {k} \subseteq Range(t) BY <1>1, <1>2, <1>3, <2>2, <2>3 DEF Range
  <2> QED BY <2>1, <2>4
<1> QED BY <1>2, <1>6, <1>7 DEF More, n, t

LEMMA DistinctConcat ==
  ASSUME NEW s, IsSequence(s), Distinct(s), NEW t, IsSequence(t), Distinct(t),
         Range(s) \cap Range(t) = {}
  PROVE  IsSequence(s \o t) /\ Distinct(s \o t) /\ Range(s \o t) = Range(s) \cup Range(t)
<1> DEFINE m == Len(s)
           n == Len(t)
           u == s \o t
<1>1. m \in Nat /\ DOMAIN s = 1 .. m /\ n \in Nat /\ DOMAIN t = 1 .. n BY SequenceDomain
<1>2. /\ IsSequence(u) /\ DOMAIN u = 1 .. m + n
      /\ \A l \in 1 .. m : u[l] = s[l]
      /\ \A l \in 1 .. n : u[m + l] = t[l]
  BY ConcatSequence
<1> HIDE DEF m, n, u
<1>3. \A l \in 1 .. m + n : l \in 1 .. m \/ (l - m \in 1 .. n /\ u[l] = t[l - m])
  <2> SUFFICES ASSUME NEW l \in 1 .. m + n, l \notin 1 .. m PROVE l - m \in 1 .. n /\ u[l] = t[l - m]
    OBVIOUS
  <2> DEFINE j == l - m
  <2>1. j \in 1 .. n /\ l = m + j BY <1>1
  <2> HIDE DEF j
  <2>2. u[l] = t[j] BY <1>2, <2>1
  <2> QED BY <2>1, <2>2 DEF j
<1>4. \A i \in 1 .. m, j \in 1 .. n : s[i] # t[j] BY <1>1 DEF Range
<1>5. Distinct(u)
  <2> SUFFICES ASSUME NEW a \in 1 .. m + n, NEW b \in 1 .. m + n, u[a] = u[b] PROVE a = b
    BY <1>2 DEF Distinct
  <2>1. CASE a \in 1 .. m /\ b \in 1 .. m BY <1>1, <1>2, <2>1 DEF Distinct
  <2>2. CASE a \in 1 .. m /\ b \notin 1 .. m BY <1>2, <1>3, <1>4, <2>2
  <2>3. CASE a \notin 1 .. m /\ b \in 1 .. m BY <1>2, <1>3, <1>4, <2>3
  <2>4. CASE a \notin 1 .. m /\ b \notin 1 .. m
    <3>1. a - m = b - m BY <1>1, <1>3, <2>4 DEF Distinct
    <3> QED BY <1>1, <3>1
  <2> QED BY <2>1, <2>2, <2>3, <2>4
<1>6. Range(u) = Range(s) \cup Range(t)
  <2>1. Range(u) \subseteq Range(s) \cup Range(t) BY <1>1, <1>2, <1>3 DEF Range
  <2>2. \A l \in 1 .. m : l \in 1 .. m + n BY <1>1
  <2>3. \A l \in 1 .. n : m + l \in 1 .. m + n BY <1>1
  <2>4. Range(s) \cup Range(t) \subseteq Range(u) BY <1>1, <1>2, <2>2, <2>3 DEF Range
  <2> QED BY <2>1, <2>4
<1> QED BY <1>2, <1>5, <1>6 DEF u

-------------------------------------------------------------------------------
(* The pages and who has them                                                *)

\* Each page is in one list, once, or one of H, which somebody writes.
Owned(c, H) ==
  /\ Distinct(c.open) /\ Distinct(c.full) /\ Distinct(c.released)
  /\ Range(c.open) \cap Range(c.full) = {}
  /\ Range(c.open) \cap Range(c.released) = {}
  /\ Range(c.full) \cap Range(c.released) = {}
  /\ H \cap (Range(c.open) \cup Range(c.full) \cup Range(c.released)) = {}
  /\ DOMAIN c.pages = Range(c.open) \cup Range(c.full) \cup Range(c.released) \cup H

\* Nothing is written behind the end of a page.
Fits(c) == \A k \in DOMAIN c.pages : FreeLines(c, k) >= 0

Counted(c) ==
  /\ c.active \in Int /\ c.count \in Int
  /\ Len(c.open) + Len(c.full) + c.active = c.count

Neat(c, H) == Stored(c) /\ Owned(c, H) /\ Fits(c) /\ Counted(c)

\* There is as much room on the pages of H.
SameRoom(c, d, H) == \A k \in H : FreeLines(d, k) = FreeLines(c, k)

\* The same pages, the same lists.
SameStore(c, d) ==
  /\ Stored(d) /\ d.pages = c.pages /\ d.open = c.open /\ d.full = c.full
  /\ d.released = c.released /\ d.active = c.active /\ d.count = c.count

LEMMA FreeLinesType ==
  ASSUME NEW c, Stored(c), NEW k \in DOMAIN c.pages
  PROVE  FreeLines(c, k) \in Int
<1>1. c.pages[k].lines \in Nat /\ IsSequence(c.pages[k].words) BY DEF Stored, IsPage
<1>2. Len(c.pages[k].words) \in Nat BY <1>1, SequenceDomain
<1> QED BY <1>1, <1>2 DEF FreeLines

LEMMA ListLengths ==
  ASSUME NEW c, Stored(c)
  PROVE  Len(c.open) \in Nat /\ Len(c.full) \in Nat /\ Len(c.released) \in Nat
BY DEF Stored

LEMMA SameStoreNeat ==
  ASSUME NEW c, NEW H, Neat(c, H), NEW d, SameStore(c, d)
  PROVE  Neat(d, H) /\ SameRoom(c, d, DOMAIN c.pages)
<1>1. Stored(d) BY DEF SameStore
<1>2. Owned(d, H) BY DEF SameStore, Neat, Owned
<1>3. \A k \in DOMAIN c.pages : FreeLines(d, k) = FreeLines(c, k) BY DEF SameStore, FreeLines
<1>4. Fits(d) BY <1>3 DEF SameStore, Neat, Fits
<1>5. Counted(d) BY DEF SameStore, Neat, Counted
<1> QED BY <1>1, <1>2, <1>3, <1>4, <1>5 DEF Neat, SameRoom

\* What is taken out of a list, or made anew, was nobody's.
LEMMA TakenOwned ==
  ASSUME NEW c, Stored(c), NEW H, Owned(c, H), NEW n \in Nat, NEW d, Taken(c, d, n)
  PROVE  d.page \notin H /\ Owned(d, H \cup {d.page})
<1> DEFINE O == Range(c.open)
           F == Range(c.full)
           R == Range(c.released)
<1>1. DOMAIN c.pages = O \cup F \cup R \cup H BY DEF Owned
<1>2. d.full = c.full BY DEF Taken
<1>3. CASE \E i \in 1 .. Len(c.open) :
             /\ d.page = c.open[i] /\ d.pages = c.pages /\ d.open = RemoveAt(c.open, i)
             /\ d.released = c.released
  <2>1. PICK i \in 1 .. Len(c.open) :
          /\ d.page = c.open[i] /\ d.pages = c.pages /\ d.open = RemoveAt(c.open, i)
          /\ d.released = c.released
    BY <1>3
  <2>2. Less(c.open, d.open, d.page) BY <2>1, RemovedLess DEF Stored, Owned
  <2>3. d.page \in O /\ Distinct(d.open) /\ Range(d.open) = O \ {d.page} BY <2>2 DEF Less
  <2>4. Range(d.full) = F /\ Range(d.released) = R /\ DOMAIN d.pages = DOMAIN c.pages BY <1>2, <2>1
  <2>5. Distinct(d.full) /\ Distinct(d.released) BY <1>2, <2>1 DEF Owned
  <2>6. O \cap F = {} /\ O \cap R = {} /\ F \cap R = {} /\ H \cap (O \cup F \cup R) = {} BY DEF Owned
  <2> HIDE DEF O, F, R
  <2>7. d.page \notin H /\ d.page \notin F /\ d.page \notin R BY <2>3, <2>6
  <2> QED BY <1>1, <2>3, <2>4, <2>5, <2>6, <2>7 DEF Owned
<1>4. CASE \E i \in 1 .. Len(c.released) :
             /\ d.page = c.released[i] /\ d.pages = c.pages /\ d.open = c.open
             /\ d.released = RemoveAt(c.released, i)
  <2>1. PICK i \in 1 .. Len(c.released) :
          /\ d.page = c.released[i] /\ d.pages = c.pages /\ d.open = c.open
          /\ d.released = RemoveAt(c.released, i)
    BY <1>4
  <2>2. Less(c.released, d.released, d.page) BY <2>1, RemovedLess DEF Stored, Owned
  <2>3. d.page \in R /\ Distinct(d.released) /\ Range(d.released) = R \ {d.page} BY <2>2 DEF Less
  <2>4. Range(d.full) = F /\ Range(d.open) = O /\ DOMAIN d.pages = DOMAIN c.pages BY <1>2, <2>1
  <2>5. Distinct(d.full) /\ Distinct(d.open) BY <1>2, <2>1 DEF Owned
  <2>6. O \cap F = {} /\ O \cap R = {} /\ F \cap R = {} /\ H \cap (O \cup F \cup R) = {} BY DEF Owned
  <2> HIDE DEF O, F, R
  <2>7. d.page \notin H /\ d.page \notin F /\ d.page \notin O BY <2>3, <2>6
  <2> QED BY <1>1, <2>3, <2>4, <2>5, <2>6, <2>7 DEF Owned
<1>5. CASE /\ d.page = Len(c.pages) + 1 /\ d.pages = Append(c.pages, NewPage(n))
           /\ d.open = c.open /\ d.released = c.released
  <2>1. IsSequence(c.pages) BY DEF Stored
  <2>2. DOMAIN d.pages = 1 .. Len(c.pages) + 1 BY <1>5, <2>1, AppendSequence
  <2>3. Len(c.pages) \in Nat /\ DOMAIN c.pages = 1 .. Len(c.pages) BY <2>1, SequenceDomain
  <2>4. d.page \notin DOMAIN c.pages /\ DOMAIN d.pages = DOMAIN c.pages \cup {d.page}
    BY <1>5, <2>2, <2>3
  <2>5. /\ Range(d.open) = O /\ Range(d.full) = F /\ Range(d.released) = R
        /\ Distinct(d.open) /\ Distinct(d.full) /\ Distinct(d.released)
    BY <1>2, <1>5 DEF Owned
  <2>6. O \cap F = {} /\ O \cap R = {} /\ F \cap R = {} /\ H \cap (O \cup F \cup R) = {} BY DEF Owned
  <2> HIDE DEF O, F, R
  <2> QED BY <1>1, <2>4, <2>5, <2>6 DEF Owned
<1> QED BY <1>3, <1>4, <1>5 DEF Taken

LEMMA Recounted ==
  ASSUME NEW d, NEW o \in Nat, NEW f \in Nat, NEW a \in Int, NEW n \in Int, o + f + a = n,
         \/ Len(d.open) = o - 1 /\ Len(d.full) = f /\ d.active = a + 1 /\ d.count = n
         \/ Len(d.open) = o /\ Len(d.full) = f /\ d.active = a + 1 /\ d.count = n + 1
         \/ Len(d.open) = o /\ Len(d.full) = f + 1 /\ d.active = a - 1 /\ d.count = n
         \/ Len(d.open) = o + 1 /\ Len(d.full) = f /\ d.active = a - 1 /\ d.count = n
  PROVE  Counted(d)
<1> DEFINE x == Len(d.open)
           y == Len(d.full)
           z == d.active
           w == d.count
<1>1. \/ x = o - 1 /\ y = f /\ z = a + 1 /\ w = n
      \/ x = o /\ y = f /\ z = a + 1 /\ w = n + 1
      \/ x = o /\ y = f + 1 /\ z = a - 1 /\ w = n
      \/ x = o + 1 /\ y = f /\ z = a - 1 /\ w = n
  OBVIOUS
<1> SUFFICES z \in Int /\ w \in Int /\ x + y + z = w BY DEF Counted
<1> HIDE DEF x, y, z, w
<1> QED BY <1>1

LEMMA TakenCounted ==
  ASSUME NEW c, Stored(c), Counted(c), NEW n \in Nat, NEW d, Taken(c, d, n)
  PROVE  Counted(d)
<1>1. /\ Len(c.open) \in Nat /\ Len(c.full) \in Nat /\ c.active \in Int /\ c.count \in Int
      /\ Len(c.open) + Len(c.full) + c.active = c.count
  BY ListLengths DEF Counted
<1>2. d.active = c.active + 1 /\ Len(d.full) = Len(c.full) BY DEF Taken
<1>3. \/ Len(d.open) = Len(c.open) - 1 /\ d.count = c.count
      \/ Len(d.open) = Len(c.open) /\ d.count = c.count + 1
  <2>1. ASSUME NEW i \in 1 .. Len(c.open), d.open = RemoveAt(c.open, i)
        PROVE  Len(d.open) = Len(c.open) - 1
    BY <2>1, WithoutOne DEF Stored
  <2> QED BY <2>1 DEF Taken
<1>4. CASE Len(d.open) = Len(c.open) - 1 /\ d.count = c.count BY <1>1, <1>2, <1>4, Recounted
<1>5. CASE Len(d.open) = Len(c.open) /\ d.count = c.count + 1 BY <1>1, <1>2, <1>5, Recounted
<1> QED BY <1>3, <1>4, <1>5

LEMMA TakenNeat ==
  ASSUME NEW c, NEW H, Neat(c, H), NEW n \in Nat, NEW d, Taken(c, d, n)
  PROVE  /\ Neat(d, H \cup {d.page}) /\ d.page \notin H /\ FreeLines(d, d.page) >= n
         /\ H \subseteq DOMAIN c.pages /\ SameRoom(c, d, H)
<1>1. Stored(c) /\ Owned(c, H) /\ Fits(c) /\ Counted(c) BY DEF Neat
<1>2. d.page \notin H /\ Owned(d, H \cup {d.page}) BY <1>1, TakenOwned
<1>3. Counted(d) BY <1>1, TakenCounted
<1>4. /\ d.page \in DOMAIN d.pages
      /\ \A k \in DOMAIN c.pages : d.pages[k] = c.pages[k]
      /\ \A k \in DOMAIN d.pages \ DOMAIN c.pages : k = d.page
      /\ FreeLines(d, d.page) >= n
  BY <1>1, TakenPages
<1>5. \A k \in DOMAIN c.pages : FreeLines(d, k) = FreeLines(c, k) BY <1>4 DEF FreeLines
<1>6. \A k \in H : k \in DOMAIN c.pages BY <1>1 DEF Owned
<1>7. Stored(d) BY DEF Taken
<1>8. FreeLines(d, d.page) \in Int BY <1>4, <1>7, FreeLinesType
<1>9. FreeLines(d, d.page) >= 0 BY <1>4, <1>8
<1>10. Fits(d) BY <1>1, <1>4, <1>5, <1>9 DEF Fits
<1>11. H \subseteq DOMAIN c.pages /\ SameRoom(c, d, H) BY <1>5, <1>6 DEF SameRoom
<1> QED BY <1>2, <1>3, <1>4, <1>7, <1>10, <1>11 DEF Neat

LEMMA GivenBackNeat ==
  ASSUME NEW c, NEW H, Neat(c, H), NEW k \in H, NEW d, GivenBack(c, d, k)
  PROVE  Neat(d, H \ {k}) /\ SameRoom(c, d, DOMAIN c.pages)
<1> DEFINE O == Range(c.open)
           F == Range(c.full)
           R == Range(c.released)
<1>1. Stored(c) /\ Owned(c, H) /\ Fits(c) /\ Counted(c) /\ Stored(d) BY DEF Neat, GivenBack
<1>2. d.pages = c.pages BY DEF GivenBack
<1>3. \A j \in DOMAIN c.pages : FreeLines(d, j) = FreeLines(c, j) BY <1>2 DEF FreeLines
<1>4. Fits(d) BY <1>1, <1>2, <1>3 DEF Fits
<1>5. /\ O \cap F = {} /\ O \cap R = {} /\ F \cap R = {} /\ H \cap (O \cup F \cup R) = {}
      /\ DOMAIN c.pages = O \cup F \cup R \cup H
      /\ Distinct(c.open) /\ Distinct(c.full) /\ Distinct(c.released)
  BY <1>1 DEF Owned
<1>6. k \in DOMAIN c.pages /\ k \notin O /\ k \notin F /\ k \notin R
  <2> HIDE DEF O, F, R
  <2> QED BY <1>5
<1>7. /\ Len(c.open) \in Nat /\ Len(c.full) \in Nat /\ c.active \in Int /\ c.count \in Int
      /\ Len(c.open) + Len(c.full) + c.active = c.count
  BY <1>1, ListLengths DEF Counted
<1>8. d.active = c.active - 1 /\ d.count = c.count /\ d.released = c.released BY DEF GivenBack
<1>9. CASE d.full = <<k>> \o c.full /\ d.open = c.open
  <2>1. More(c.full, d.full, k) BY <1>1, <1>5, <1>6, <1>9, PushedMore DEF Stored
  <2>2. Distinct(d.full) /\ Range(d.full) = F \cup {k} /\ Len(d.full) = Len(c.full) + 1
    BY <2>1 DEF More
  <2>3. Counted(d) BY <1>7, <1>8, <1>9, <2>2, Recounted
  <2>4. Range(d.open) = O /\ Range(d.released) = R /\ Distinct(d.open) /\ Distinct(d.released)
    BY <1>5, <1>8, <1>9
  <2> HIDE DEF O, F, R
  <2>5. Owned(d, H \ {k}) BY <1>2, <1>5, <1>6, <2>2, <2>4 DEF Owned
  <2> QED BY <1>1, <1>3, <1>4, <2>3, <2>5 DEF Neat, SameRoom
<1>10. CASE d.open = <<k>> \o c.open /\ d.full = c.full
  <2>1. More(c.open, d.open, k) BY <1>1, <1>5, <1>6, <1>10, PushedMore DEF Stored
  <2>2. Distinct(d.open) /\ Range(d.open) = O \cup {k} /\ Len(d.open) = Len(c.open) + 1
    BY <2>1 DEF More
  <2>3. Counted(d) BY <1>7, <1>8, <1>10, <2>2, Recounted
  <2>4. Range(d.full) = F /\ Range(d.released) = R /\ Distinct(d.full) /\ Distinct(d.released)
    BY <1>5, <1>8, <1>10
  <2> HIDE DEF O, F, R
  <2>5. Owned(d, H \ {k}) BY <1>2, <1>5, <1>6, <2>2, <2>4 DEF Owned
  <2> QED BY <1>1, <1>3, <1>4, <2>3, <2>5 DEF Neat, SameRoom
<1> QED BY <1>9, <1>10 DEF GivenBack

LEMMA EmittedNeat ==
  ASSUME NEW c, NEW H, Neat(c, H), NEW k \in H, NEW words, IsSequence(words),
         Len(words) <= FreeLines(c, k)
  PROVE  LET d == Emitted(c, k, words)
         IN /\ Neat(d, H) /\ d.page = c.page /\ SameWork(c, d)
            /\ FreeLines(d, k) = FreeLines(c, k) - Len(words)
            /\ SameRoom(c, d, DOMAIN c.pages \ {k})
<1> DEFINE d == Emitted(c, k, words)
           s == c.pages[k].words
<1> SUFFICES /\ Neat(d, H) /\ d.page = c.page /\ SameWork(c, d)
             /\ FreeLines(d, k) = FreeLines(c, k) - Len(words)
             /\ SameRoom(c, d, DOMAIN c.pages \ {k})
  OBVIOUS
<1>1. Stored(c) /\ Owned(c, H) /\ Fits(c) /\ Counted(c) BY DEF Neat
<1>2. k \in DOMAIN c.pages BY <1>1 DEF Owned
<1>3. /\ Stored(d) /\ SameWork(c, d)
      /\ d.page = c.page /\ d.open = c.open /\ d.full = c.full /\ d.released = c.released
      /\ d.count = c.count /\ d.active = c.active
      /\ DOMAIN d.pages = DOMAIN c.pages
      /\ \A j \in DOMAIN c.pages \ {k} : d.pages[j] = c.pages[j]
      /\ d.pages[k].lines = c.pages[k].lines
      /\ d.pages[k].words = s \o words
  BY <1>1, <1>2, EmittedCode
<1> HIDE DEF d
<1>4. IsSequence(s) /\ c.pages[k].lines \in Nat BY <1>1, <1>2 DEF Stored, IsPage
<1> HIDE DEF s
<1>5. Len(s) \in Nat /\ Len(words) \in Nat BY <1>4, SequenceDomain
<1>6. Len(s \o words) = Len(s) + Len(words) BY <1>4, ConcatSequence
<1>7. FreeLines(d, k) = FreeLines(c, k) - Len(words) BY <1>3, <1>4, <1>5, <1>6 DEF FreeLines, s
<1>8. \A j \in DOMAIN c.pages \ {k} : FreeLines(d, j) = FreeLines(c, j) BY <1>3 DEF FreeLines
<1>9. FreeLines(c, k) \in Int BY <1>1, <1>2, FreeLinesType
<1>10. FreeLines(d, k) >= 0 BY <1>5, <1>7, <1>9
<1>11. Fits(d) BY <1>1, <1>3, <1>8, <1>10 DEF Fits
<1>12. Owned(d, H) BY <1>1, <1>3 DEF Owned
<1>13. Counted(d) BY <1>1, <1>3 DEF Counted
<1> QED BY <1>3, <1>7, <1>8, <1>11, <1>12, <1>13 DEF Neat, SameRoom

-------------------------------------------------------------------------------
(* Writing                                                                   *)

\* A page is being written that has room for n words, while others wait, each with room for
\* the jump behind what it has.
Writing(c, H, n) ==
  /\ Neat(c, H \cup {c.page}) /\ c.page \notin H
  /\ \A k \in H : FreeLines(c, k) >= 2
  /\ FreeLines(c, c.page) >= n

\* Of the work only labels and heads of loops are new.
SameTask(c, d) == d.of = c.of /\ d.saved = c.saved /\ d.failed = c.failed

LEMMA SameWorkTask ==
  ASSUME NEW c, NEW d, SameWork(c, d)
  PROVE  SameTask(c, d)
BY DEF SameWork, SameTask

LEMMA SameTaskTwice ==
  ASSUME NEW c, NEW d, SameTask(c, d), NEW e, SameTask(d, e)
  PROVE  SameTask(c, e)
BY DEF SameTask

LEMMA WritingStored ==
  ASSUME NEW c, NEW H, NEW n, Writing(c, H, n)
  PROVE  /\ Stored(c) /\ c.page \in DOMAIN c.pages /\ H \subseteq DOMAIN c.pages
         /\ FreeLines(c, c.page) \in Int /\ \A k \in H : FreeLines(c, k) \in Int
<1>1. Stored(c) /\ Owned(c, H \cup {c.page}) BY DEF Writing, Neat
<1>2. c.page \in DOMAIN c.pages /\ H \subseteq DOMAIN c.pages BY <1>1 DEF Owned
<1> QED BY <1>1, <1>2, FreeLinesType

LEMMA LessRoom ==
  ASSUME NEW c, NEW H, NEW n \in Int, Writing(c, H, n), NEW m \in Int, m <= n
  PROVE  Writing(c, H, m)
<1>1. FreeLines(c, c.page) \in Int /\ FreeLines(c, c.page) >= n BY WritingStored DEF Writing
<1>2. FreeLines(c, c.page) >= m BY <1>1
<1> QED BY <1>2 DEF Writing

LEMMA SameStoreWriting ==
  ASSUME NEW c, NEW H, NEW n, Writing(c, H, n), NEW d, SameStore(c, d), d.page = c.page
  PROVE  Writing(d, H, n)
<1>1. H \subseteq DOMAIN c.pages /\ c.page \in DOMAIN c.pages BY WritingStored
<1>2. Neat(d, H \cup {c.page}) /\ SameRoom(c, d, DOMAIN c.pages) BY SameStoreNeat DEF Writing
<1>3. \A k \in DOMAIN c.pages : FreeLines(d, k) = FreeLines(c, k) BY <1>2 DEF SameRoom
<1> QED BY <1>1, <1>2, <1>3 DEF Writing

LEMMA WordsWriting ==
  ASSUME NEW c, NEW H, NEW n \in Int, Writing(c, H, n), NEW words, IsSequence(words), Len(words) <= n
  PROVE  LET d == EmitWords(c, words)
         IN /\ Writing(d, H, n - Len(words)) /\ d.page = c.page
            /\ SameTask(c, d) /\ SameRoom(c, d, H)
<1> DEFINE d == Emitted(c, c.page, words)
<1>1. EmitWords(c, words) = d BY DEF EmitWords, Emitted
<1> HIDE DEF d
<1>2. /\ FreeLines(c, c.page) \in Int /\ FreeLines(c, c.page) >= n
      /\ H \subseteq DOMAIN c.pages /\ Neat(c, H \cup {c.page}) /\ c.page \notin H
      /\ \A k \in H : FreeLines(c, k) >= 2
  BY WritingStored DEF Writing
<1>3. Len(words) \in Nat BY SequenceDomain
<1>4. Len(words) <= FreeLines(c, c.page) BY <1>2, <1>3
<1>5. /\ Neat(d, H \cup {c.page}) /\ d.page = c.page /\ SameWork(c, d)
      /\ FreeLines(d, c.page) = FreeLines(c, c.page) - Len(words)
      /\ SameRoom(c, d, DOMAIN c.pages \ {c.page})
  <2> DEFINE J == H \cup {c.page}
  <2>1. Neat(c, J) /\ c.page \in J BY <1>2
  <2> HIDE DEF J
  <2>2. /\ Neat(d, J) /\ d.page = c.page /\ SameWork(c, d)
        /\ FreeLines(d, c.page) = FreeLines(c, c.page) - Len(words)
        /\ SameRoom(c, d, DOMAIN c.pages \ {c.page})
    BY <1>4, <2>1, EmittedNeat DEF d
  <2> QED BY <2>2 DEF J
<1>6. \A k \in H : FreeLines(d, k) = FreeLines(c, k) BY <1>2, <1>5 DEF SameRoom
<1>7. FreeLines(d, d.page) >= n - Len(words) BY <1>2, <1>3, <1>5
<1>8. Writing(d, H, n - Len(words)) BY <1>2, <1>5, <1>6, <1>7 DEF Writing
<1>9. SameRoom(c, d, H) BY <1>6 DEF SameRoom
<1> QED BY <1>1, <1>5, <1>8, <1>9, SameWorkTask

\* A page is acquired, the one that was written waits.
LEMMA AcquiredWriting ==
  ASSUME NEW c, NEW H, Writing(c, H, 2), NEW n \in Nat
  PROVE  LET d == AcquireCodePage(c, n)
         IN Writing(d, H \cup {c.page}, n) /\ SameWork(c, d) /\ SameRoom(c, d, H \cup {c.page})
<1> DEFINE d == AcquireCodePage(c, n)
           G == H \cup {c.page}
<1>1. Neat(c, G) /\ \A k \in G : FreeLines(c, k) >= 2 BY DEF Writing
<1>2. Taken(c, d, n) BY <1>1, AcquiredPage DEF Neat
<1> HIDE DEF d, G
<1>3. /\ Neat(d, G \cup {d.page}) /\ d.page \notin G /\ FreeLines(d, d.page) >= n
      /\ SameRoom(c, d, G)
  BY <1>1, <1>2, TakenNeat
<1>4. Writing(d, G, n) BY <1>1, <1>3 DEF Writing, SameRoom
<1>5. SameWork(c, d) BY <1>2 DEF Taken
<1> QED BY <1>3, <1>4, <1>5 DEF d, G

\* The page that is left is given back, and has not been overrun.
LEMMA BridgedWriting ==
  ASSUME NEW c, NEW H, Writing(c, H, 2), NEW n \in Nat
  PROVE  LET d == EmitBridge(AcquireCodePage(c, n), c.page)
         IN Writing(d, H, n) /\ SameTask(c, d) /\ SameRoom(c, d, H)
<1> DEFINE a == AcquireCodePage(c, n)
           words == <<Operation("Branch", a.of, 0, 1), Operand(PC(a))>>
           e == Emitted(a, c.page, words)
           d == EmitBridge(a, c.page)
           G == H \cup {c.page}
           J == G \cup {a.page}
<1>1. Writing(a, G, n) /\ SameWork(c, a) /\ SameRoom(c, a, G) BY AcquiredWriting
<1>2. IsSequence(words) /\ Len(words) = 2 BY TupleSequences
<1>3. d = ReleaseCodePage(e, c.page) BY Zenon DEF EmitBridge, Emitted
<1> HIDE DEF a, words, e, d
<1>4. /\ Neat(a, J) /\ a.page \notin G /\ FreeLines(a, a.page) >= n
      /\ \A k \in G : FreeLines(a, k) >= 2
  BY <1>1 DEF Writing
<1>5. c.page \in G /\ c.page \notin H /\ c.page \in J BY DEF Writing
<1>6. G \subseteq DOMAIN a.pages /\ a.page \in DOMAIN a.pages /\ FreeLines(a, c.page) \in Int
  BY <1>1, <1>5, WritingStored
<1>7. Len(words) <= FreeLines(a, c.page) BY <1>2, <1>4, <1>5, <1>6
<1>8. \A k \in H \cup {a.page} : k # c.page /\ k \in DOMAIN a.pages /\ k \in J
  BY <1>4, <1>5, <1>6
<1>9. J \ {c.page} = H \cup {a.page} /\ a.page \notin H BY <1>4, <1>5
<1> HIDE DEF J
<1>10. /\ Neat(e, J) /\ e.page = a.page /\ SameWork(a, e)
       /\ SameRoom(a, e, DOMAIN a.pages \ {c.page})
  BY <1>2, <1>4, <1>5, <1>7, EmittedNeat DEF e
<1>11. Stored(e) /\ J \subseteq DOMAIN e.pages BY <1>10 DEF Neat, Owned
<1>12. c.page \in DOMAIN e.pages BY <1>5, <1>11
<1>13. GivenBack(e, d, c.page) BY <1>3, <1>11, <1>12, ReleasedPage
<1>14. Neat(d, J \ {c.page}) /\ SameRoom(e, d, DOMAIN e.pages)
  BY <1>5, <1>10, <1>13, GivenBackNeat
<1>15. d.page = a.page /\ SameWork(e, d) BY <1>10, <1>13 DEF GivenBack
<1>16. \A k \in H \cup {a.page} : FreeLines(d, k) = FreeLines(a, k)
  <2> SUFFICES ASSUME NEW k \in H \cup {a.page} PROVE FreeLines(d, k) = FreeLines(a, k) OBVIOUS
  <2>1. FreeLines(e, k) = FreeLines(a, k) BY <1>8, <1>10 DEF SameRoom
  <2>2. FreeLines(d, k) = FreeLines(e, k) BY <1>8, <1>11, <1>14 DEF SameRoom
  <2> QED BY <2>1, <2>2
<1>17. \A k \in H : FreeLines(d, k) = FreeLines(c, k) /\ FreeLines(d, k) >= 2
  BY <1>1, <1>4, <1>16 DEF SameRoom
<1>18. Writing(d, H, n) BY <1>4, <1>9, <1>14, <1>15, <1>16, <1>17 DEF Writing
<1>19. SameWork(c, d) BY <1>1, <1>10, <1>15 DEF SameWork
<1>20. SameRoom(c, d, H) BY <1>17 DEF SameRoom
<1> QED BY <1>18, <1>19, <1>20, SameWorkTask DEF d, a

LEMMA EnsuredWriting ==
  ASSUME NEW c, NEW H, Writing(c, H, 2), NEW n \in Nat
  PROVE  LET d == EnsureCodePageNumLines(c, n)
         IN /\ Writing(d, H, n + 2) /\ SameTask(c, d) /\ SameRoom(c, d, H)
            /\ FreeLines(c, c.page) >= n + 2 => d = c
<1> DEFINE d == EnsureCodePageNumLines(c, n)
<1>1. CASE FreeLines(c, c.page) >= n + 2
  <2>1. d = c BY <1>1 DEF EnsureCodePageNumLines
  <2>2. Writing(c, H, n + 2) BY <1>1 DEF Writing
  <2>3. SameTask(c, c) /\ SameRoom(c, c, H) BY DEF SameTask, SameRoom
  <2> QED BY <2>1, <2>2, <2>3
<1>2. CASE ~(FreeLines(c, c.page) >= n + 2)
  <2>1. d = EmitBridge(AcquireCodePage(c, n + 2), c.page) BY <1>2 DEF EnsureCodePageNumLines
  <2>2. n + 2 \in Nat OBVIOUS
  <2> QED BY <1>2, <2>1, <2>2, BridgedWriting
<1> QED BY <1>1, <1>2

LEMMA SameRoomTwice ==
  ASSUME NEW c, NEW d, NEW H, SameRoom(c, d, H), NEW e, SameRoom(d, e, H)
  PROVE  SameRoom(c, e, H)
BY DEF SameRoom

\* An operation and its operands, four at most, leave the room for a jump, and one word more.
LEMMA OpWriting ==
  ASSUME NEW c, NEW H, Writing(c, H, 2), NEW at, NEW op, NEW operands, IsSequence(operands),
         Len(operands) <= 4
  PROVE  LET d == EmitOp(c, at, op, operands)
         IN Writing(d, H, 2) /\ SameTask(c, d) /\ SameRoom(c, d, H)
<1> DEFINE e == EnsureCodePageNumLines(c, Threshold)
           w == Operation(op, c.of, at, Len(operands))
           words == <<w>> \o operands
           d == EmitOp(c, at, op, operands)
<1>1. Writing(e, H, 8) /\ SameTask(c, e) /\ SameRoom(c, e, H) BY EnsuredWriting DEF Threshold
<1>2. d = EmitWords(e, words) BY DEF EmitOp
<1> HIDE DEF e, d, w
<1>3. IsSequence(<<w>>) /\ Len(<<w>>) = 1 /\ Len(operands) \in Nat BY TupleSequences, SequenceDomain
<1>4. IsSequence(words) /\ Len(words) = 1 + Len(operands) BY <1>3, ConcatSequence
<1> HIDE DEF words
<1>5. Len(words) \in Nat /\ Len(words) <= 8 /\ 8 - Len(words) >= 2 BY <1>3, <1>4
<1>6. Writing(d, H, 8 - Len(words)) /\ SameTask(e, d) /\ SameRoom(e, d, H)
  BY <1>1, <1>2, <1>4, <1>5, WordsWriting
<1>7. Writing(d, H, 2) BY <1>5, <1>6, LessRoom
<1> QED BY <1>1, <1>6, <1>7, SameTaskTwice, SameRoomTwice DEF d

\* What is noted of the work is in no page.
LEMMA NotedWriting ==
  ASSUME NEW c, NEW H, NEW n, Writing(c, H, n), NEW i
  PROVE  /\ Writing(Reserve(c, 1, i), H, n) /\ SameTask(c, Reserve(c, 1, i))
         /\ Reserve(c, 1, i).page = c.page
         /\ Writing(Headed(c, i), H, n) /\ SameTask(c, Headed(c, i))
         /\ Writing([c EXCEPT !.failed = TRUE], H, n)
<1>1. Stored(c) /\ DOMAIN c = Fields BY WritingStored DEF Stored
<1>2. ASSUME NEW d, DOMAIN d = Fields, d.pages = c.pages, d.open = c.open, d.full = c.full,
             d.released = c.released, d.active = c.active, d.count = c.count, d.page = c.page
      PROVE  Writing(d, H, n)
  <2>1. Stored(d) BY <1>1, <1>2 DEF Stored
  <2>2. SameStore(c, d) BY <1>2, <2>1 DEF SameStore
  <2> QED BY <1>2, <2>2, SameStoreWriting
<1>3. Writing(Reserve(c, 1, i), H, n) /\ SameTask(c, Reserve(c, 1, i)) /\ Reserve(c, 1, i).page = c.page
  <2> DEFINE d == Reserve(c, 1, i)
  <2>1. /\ DOMAIN d = Fields /\ d.pages = c.pages /\ d.open = c.open /\ d.full = c.full
        /\ d.released = c.released /\ d.active = c.active /\ d.count = c.count /\ d.page = c.page
        /\ SameTask(c, d)
    BY <1>1 DEF Fields, Reserve, SameTask
  <2> HIDE DEF d
  <2>2. Writing(d, H, n) BY <1>2, <2>1
  <2> QED BY <2>1, <2>2 DEF d
<1>4. Writing(Headed(c, i), H, n) /\ SameTask(c, Headed(c, i))
  <2> DEFINE d == Headed(c, i)
  <2>1. /\ DOMAIN d = Fields /\ d.pages = c.pages /\ d.open = c.open /\ d.full = c.full
        /\ d.released = c.released /\ d.active = c.active /\ d.count = c.count /\ d.page = c.page
        /\ SameTask(c, d)
    BY <1>1 DEF Fields, Headed, SameTask
  <2> HIDE DEF d
  <2>2. Writing(d, H, n) BY <1>2, <2>1
  <2> QED BY <2>1, <2>2 DEF d
<1>5. Writing([c EXCEPT !.failed = TRUE], H, n)
  <2> DEFINE d == [c EXCEPT !.failed = TRUE]
  <2>1. /\ DOMAIN d = Fields /\ d.pages = c.pages /\ d.open = c.open /\ d.full = c.full
        /\ d.released = c.released /\ d.active = c.active /\ d.count = c.count /\ d.page = c.page
    BY <1>1 DEF Fields
  <2> HIDE DEF d
  <2>2. Writing(d, H, n) BY <1>2, <2>1
  <2> QED BY <2>2 DEF d
<1> QED BY <1>3, <1>4, <1>5

LEMMA PatchedWriting ==
  ASSUME NEW c, NEW H, NEW n, Writing(c, H, n), NEW i
  PROVE  LET d == PatchBranches(c, i)
         IN /\ Writing(d, H, n) /\ SameTask(c, d) /\ d.page = c.page
<1> DEFINE d == PatchBranches(c, i)
           J == H \cup {c.page}
<1>1. /\ Neat(c, J) /\ Stored(c) /\ c.page \in DOMAIN c.pages /\ H \subseteq DOMAIN c.pages
      /\ c.page \notin H /\ FreeLines(c, c.page) >= n /\ \A k \in H : FreeLines(c, k) >= 2
  BY WritingStored DEF Writing
<1>2. Readdressed(c, d, i) BY <1>1, PatchedCode
<1> HIDE DEF d
<1>3. /\ Stored(d) /\ DOMAIN d.pages = DOMAIN c.pages /\ d.page = c.page
      /\ d.open = c.open /\ d.full = c.full /\ d.released = c.released
      /\ d.count = c.count /\ d.active = c.active /\ SameTask(c, d)
      /\ \A k \in DOMAIN c.pages :
           d.pages[k].lines = c.pages[k].lines /\ Len(d.pages[k].words) = Len(c.pages[k].words)
  BY <1>2 DEF Readdressed, SameTask
<1> HIDE DEF J
<1>4. \A k \in DOMAIN c.pages : FreeLines(d, k) = FreeLines(c, k) BY <1>3 DEF FreeLines
<1>5. Fits(d) BY <1>1, <1>3, <1>4 DEF Fits, Neat
<1>6. Owned(d, J) BY <1>1, <1>3 DEF Owned, Neat
<1>7. Counted(d) BY <1>1, <1>3 DEF Counted, Neat
<1>8. Neat(d, J) BY <1>3, <1>5, <1>6, <1>7 DEF Neat
<1>9. Writing(d, H, n) BY <1>1, <1>3, <1>4, <1>8 DEF Writing, J
<1> QED BY <1>3, <1>9 DEF d

\* Another page is written, one of those that waited.
LEMMA TurnedWriting ==
  ASSUME NEW c, NEW H, Writing(c, H, 2), NEW k \in H, NEW n, FreeLines(c, k) >= n
  PROVE  LET d == [c EXCEPT !.page = k]
         IN /\ Writing(d, (H \ {k}) \cup {c.page}, n) /\ SameTask(c, d) /\ d.page = k
            /\ SameRoom(c, d, DOMAIN c.pages)
<1> DEFINE d == [c EXCEPT !.page = k]
           G == (H \ {k}) \cup {c.page}
           J == H \cup {c.page}
<1>1. Stored(c) /\ DOMAIN c = Fields BY WritingStored DEF Stored
<1>2. /\ DOMAIN d = Fields /\ d.pages = c.pages /\ d.open = c.open /\ d.full = c.full
      /\ d.released = c.released /\ d.active = c.active /\ d.count = c.count /\ d.page = k
      /\ SameTask(c, d)
  BY <1>1 DEF Fields, SameTask
<1> HIDE DEF d
<1>3. Stored(d) BY <1>1, <1>2 DEF Stored
<1>4. SameStore(c, d) BY <1>2, <1>3 DEF SameStore
<1>5. Neat(c, J) /\ c.page \notin H /\ \A j \in J : FreeLines(c, j) >= 2 BY DEF Writing
<1>6. G \cup {k} = J /\ k \notin G /\ k \in J /\ G \subseteq J BY <1>5
<1> HIDE DEF G, J
<1>7. Neat(d, J) /\ SameRoom(c, d, DOMAIN c.pages) BY <1>4, <1>5, SameStoreNeat
<1>8. J \subseteq DOMAIN c.pages BY <1>5 DEF Neat, Owned
<1>9. \A j \in J : FreeLines(d, j) = FreeLines(c, j) BY <1>7, <1>8 DEF SameRoom
<1>10. Writing(d, G, n) BY <1>2, <1>5, <1>6, <1>7, <1>9 DEF Writing
<1> QED BY <1>2, <1>7, <1>10 DEF d, G

\* The page that was written is given back, and one that waited is written again.
LEMMA ReturnedWriting ==
  ASSUME NEW c, NEW H, Writing(c, H, 2), NEW k \in H, NEW n, FreeLines(c, k) >= n
  PROVE  LET d == [ReleaseCodePage(c, c.page) EXCEPT !.page = k]
         IN Writing(d, H \ {k}, n) /\ SameTask(c, d) /\ d.page = k
<1> DEFINE r == ReleaseCodePage(c, c.page)
           d == [r EXCEPT !.page = k]
           J == H \cup {c.page}
<1>1. /\ Neat(c, J) /\ c.page \notin H /\ c.page \in J /\ Stored(c) /\ c.page \in DOMAIN c.pages
      /\ H \subseteq DOMAIN c.pages /\ \A j \in H : FreeLines(c, j) >= 2
  BY WritingStored DEF Writing
<1>2. GivenBack(c, r, c.page) BY <1>1, ReleasedPage
<1>3. J \ {c.page} = H BY <1>1
<1> HIDE DEF r, J
<1>4. Neat(r, H) /\ SameRoom(c, r, DOMAIN c.pages) BY <1>1, <1>2, <1>3, GivenBackNeat
<1>5. DOMAIN r = Fields /\ Stored(r) BY <1>4 DEF Neat, Stored
<1>6. /\ DOMAIN d = Fields /\ d.pages = r.pages /\ d.open = r.open /\ d.full = r.full
      /\ d.released = r.released /\ d.active = r.active /\ d.count = r.count /\ d.page = k
      /\ SameTask(r, d)
  BY <1>5 DEF Fields, SameTask
<1> HIDE DEF d
<1>7. Stored(d) BY <1>5, <1>6 DEF Stored
<1>8. SameStore(r, d) BY <1>6, <1>7 DEF SameStore
<1>9. Neat(d, H) /\ SameRoom(r, d, DOMAIN r.pages) BY <1>4, <1>8, SameStoreNeat
<1>10. H \subseteq DOMAIN r.pages BY <1>4 DEF Neat, Owned
<1>11. \A j \in H : FreeLines(d, j) = FreeLines(c, j) BY <1>1, <1>4, <1>9, <1>10 DEF SameRoom
<1>12. (H \ {k}) \cup {k} = H OBVIOUS
<1>13. Writing(d, H \ {k}, n) BY <1>1, <1>6, <1>9, <1>11, <1>12 DEF Writing
<1>14. SameTask(c, d) BY <1>2, <1>6 DEF GivenBack, SameWork, SameTask
<1> QED BY <1>6, <1>13, <1>14 DEF d, r

\* d is c and what an instruction made of it.
Wrote(c, d, H) == Writing(d, H, 2) /\ SameTask(c, d) /\ SameRoom(c, d, H)

LEMMA PlainWriting ==
  ASSUME NEW c, NEW H, Writing(c, H, 2), NEW at, NEW op
  PROVE  /\ Wrote(c, EmitOp(c, at, op, <<>>), H)
         /\ \A w : Wrote(c, EmitOp(c, at, op, <<w>>), H)
         /\ \A w, z : Wrote(c, EmitOp(c, at, op, <<w, z>>), H)
         /\ \A n \in 0 .. 4 : Wrote(c, EmitOp(c, at, op, Slots(n)), H)
<1>1. ASSUME NEW s, IsSequence(s), Len(s) <= 4 PROVE Wrote(c, EmitOp(c, at, op, s), H)
  BY <1>1, OpWriting DEF Wrote
<1>2. Wrote(c, EmitOp(c, at, op, <<>>), H)
  <2>1. IsSequence(<<>>) /\ Len(<<>>) <= 4 BY TupleSequences
  <2> QED BY <1>1, <2>1
<1>3. ASSUME NEW w PROVE Wrote(c, EmitOp(c, at, op, <<w>>), H)
  <2>1. IsSequence(<<w>>) /\ Len(<<w>>) <= 4 BY TupleSequences
  <2> QED BY <1>1, <2>1
<1>4. ASSUME NEW w, NEW z PROVE Wrote(c, EmitOp(c, at, op, <<w, z>>), H)
  <2>1. IsSequence(<<w, z>>) /\ Len(<<w, z>>) <= 4 BY TupleSequences
  <2> QED BY <1>1, <2>1
<1>5. ASSUME NEW n \in 0 .. 4 PROVE Wrote(c, EmitOp(c, at, op, Slots(n)), H)
  <2>1. n \in Nat /\ n <= 4 OBVIOUS
  <2>2. IsSequence(Slots(n)) /\ Len(Slots(n)) = n BY <2>1, WordDomains
  <2> QED BY <1>1, <2>1, <2>2
<1> QED BY <1>2, <1>3, <1>4, <1>5

\* d is c and an else: the page of the first arm waits for the end.
Parted(c, d, H, end) ==
  /\ Writing(d, H \cup {c.page}, 2) /\ d.of = c.of /\ d.failed = c.failed
  /\ d.saved = Append(c.saved, [page |-> c.page, end |-> end])

LEMMA ElseWriting ==
  ASSUME NEW c, NEW H, Writing(c, H, 2), NEW i, NEW body
  PROVE  Parted(c, CompileElseBlock(c, i, body), H, body[i].to)
<1> DEFINE first == PatchBranches(c, body[i].to)
           a == AcquireCodePage(first, Threshold)
           p == PatchBranches(a, i)
           r == [page |-> c.page, end |-> body[i].to]
           d == CompileElseBlock(c, i, body)
           G == H \cup {c.page}
<1>1. Writing(first, H, 2) /\ SameTask(c, first) /\ first.page = c.page BY PatchedWriting
<1> HIDE DEF first
<1>2. Writing(a, G, 6) /\ SameTask(first, a)
  <2>1. 6 \in Nat OBVIOUS
  <2>2. Writing(a, H \cup {first.page}, 6) /\ SameWork(first, a)
    BY <1>1, <2>1, AcquiredWriting DEF Threshold
  <2> QED BY <1>1, <2>2, SameWorkTask
<1> HIDE DEF a, G
<1>3. Writing(a, G, 2) BY <1>2, LessRoom
<1>4. Writing(p, G, 2) /\ SameTask(a, p) BY <1>3, PatchedWriting
<1>5. d = [p EXCEPT !.saved = Append(p.saved, r)] BY Zenon DEF CompileElseBlock, a, first
<1> HIDE DEF p, d, r
<1>6. Stored(p) /\ DOMAIN p = Fields BY <1>4, WritingStored DEF Stored
<1>7. /\ DOMAIN d = Fields /\ d.pages = p.pages /\ d.open = p.open /\ d.full = p.full
      /\ d.released = p.released /\ d.active = p.active /\ d.count = p.count /\ d.page = p.page
      /\ d.of = p.of /\ d.failed = p.failed /\ d.saved = Append(p.saved, r)
  BY <1>5, <1>6 DEF Fields
<1>8. SameStore(p, d) BY <1>6, <1>7 DEF Stored, SameStore
<1>9. Writing(d, G, 2) BY <1>4, <1>7, <1>8, SameStoreWriting
<1>10. p.of = c.of /\ p.failed = c.failed /\ p.saved = c.saved BY <1>1, <1>2, <1>4 DEF SameTask
<1> QED BY <1>7, <1>9, <1>10 DEF d, G, r, Parted

\* d is c behind the end of an arm: what waits on the page `back` goes on.
Rejoined(c, d, H, back) ==
  /\ Writing(d, H \ {back}, 2) /\ d.of = c.of /\ d.failed = c.failed
  /\ d.saved = Front(c.saved)

LEMMA LeftWriting ==
  ASSUME NEW c, NEW H, Writing(c, H, 2), NEW i, NEW back \in H
  PROVE  Rejoined(c, LeaveElse(c, i, back), H, back)
<1> DEFINE x == PC([c EXCEPT !.page = back])
           e == EmitOp(c, i, "Branch", <<Operand(x)>>)
           r == [ReleaseCodePage(e, e.page) EXCEPT !.page = back]
           d == LeaveElse(c, i, back)
<1>1. Wrote(c, e, H)
  <2> HIDE DEF x
  <2> QED BY PlainWriting
<1>2. d = [r EXCEPT !.saved = Front(r.saved)] BY Zenon DEF LeaveElse
<1> HIDE DEF e, d
<1>3. Writing(e, H, 2) /\ SameTask(c, e) BY <1>1 DEF Wrote
<1>4. FreeLines(e, back) >= 2 BY <1>3 DEF Writing
<1>5. Writing(r, H \ {back}, 2) /\ SameTask(e, r) BY <1>3, <1>4, ReturnedWriting
<1> HIDE DEF r
<1>6. Stored(r) /\ DOMAIN r = Fields BY <1>5, WritingStored DEF Stored
<1>7. /\ DOMAIN d = Fields /\ d.pages = r.pages /\ d.open = r.open /\ d.full = r.full
      /\ d.released = r.released /\ d.active = r.active /\ d.count = r.count /\ d.page = r.page
      /\ d.of = r.of /\ d.failed = r.failed /\ d.saved = Front(r.saved)
  BY <1>2, <1>6 DEF Fields
<1>8. SameStore(r, d) BY <1>6, <1>7 DEF Stored, SameStore
<1>9. Writing(d, H \ {back}, 2) BY <1>5, <1>7, <1>8, SameStoreWriting
<1>10. r.of = c.of /\ r.failed = c.failed /\ r.saved = c.saved BY <1>3, <1>5 DEF SameTask
<1> QED BY <1>7, <1>9, <1>10 DEF d, Rejoined

\* An entry of a table takes one word on the page the table is on.
LEMMA EntryWriting ==
  ASSUME NEW c, NEW H, NEW n \in Nat, n >= 3, Writing(c, H, n), NEW at, NEW to
  PROVE  LET d == TableEntry(c, at, to)
         IN Writing(d, H, n - 1) /\ SameTask(c, d)
<1>1. CASE to \notin DOMAIN c.heads
  <2> DEFINE words == Slots(1)
             d == EmitWords(c, words)
  <2>1. IsSequence(words) /\ Len(words) = 1
    <3>1. 1 \in Nat OBVIOUS
    <3> QED BY <3>1, WordDomains
  <2> HIDE DEF words
  <2>2. Len(words) <= n /\ n \in Int /\ n - Len(words) = n - 1 BY <2>1
  <2>3. Writing(d, H, n - 1) /\ SameTask(c, d) BY <2>1, <2>2, WordsWriting
  <2>4. TableEntry(c, at, to) = Reserve(d, 1, to) BY <1>1 DEF TableEntry, words
  <2> HIDE DEF d
  <2>5. Writing(Reserve(d, 1, to), H, n - 1) /\ SameTask(d, Reserve(d, 1, to))
    BY <2>3, NotedWriting
  <2> QED BY <2>3, <2>4, <2>5, SameTaskTwice
<1>2. CASE to \in DOMAIN c.heads
  <2> DEFINE a == AcquireCodePage(c, Threshold)
             x == [a EXCEPT !.page = c.page]
             w == EmitWords(x, <<Operand(PC(a))>>)
             y == [w EXCEPT !.page = a.page]
             e == EmitOp(y, at, "ContinueLoop", <<Operand(c.heads[to])>>)
             d == [ReleaseCodePage(e, e.page) EXCEPT !.page = c.page]
             G == H \cup {c.page}
             J == H \cup {a.page}
  <2>1. TableEntry(c, at, to) = d BY <1>2 DEF TableEntry
  <2>2. Writing(c, H, 2) /\ c.page \notin H /\ FreeLines(c, c.page) >= n
    <3>1. n \in Int /\ 2 <= n OBVIOUS
    <3>2. Writing(c, H, 2) BY <3>1, LessRoom
    <3>3. c.page \notin H /\ FreeLines(c, c.page) >= n BY DEF Writing
    <3> QED BY <3>2, <3>3
  <2>3. Writing(a, G, 6) /\ SameTask(c, a) /\ SameRoom(c, a, G)
    <3>1. 6 \in Nat OBVIOUS
    <3> QED BY <2>2, <3>1, AcquiredWriting, SameWorkTask DEF Threshold
  <2> HIDE DEF a
  <2>4. Writing(a, G, 2) BY <2>3, LessRoom
  <2>5. c.page \in G /\ FreeLines(a, c.page) >= n BY <2>2, <2>3 DEF SameRoom
  <2>6. a.page \notin G /\ J = (G \ {c.page}) \cup {a.page} BY <2>2, <2>3 DEF Writing
  <2> HIDE DEF G, J
  <2>7. Writing(x, J, n) /\ SameTask(a, x) /\ x.page = c.page BY <2>4, <2>5, <2>6, TurnedWriting
  <2> HIDE DEF x
  <2>8. Writing(w, J, n - 1) /\ SameTask(x, w) /\ w.page = c.page
    <3> DEFINE words == <<Operand(PC(a))>>
    <3>1. IsSequence(words) /\ Len(words) = 1 BY TupleSequences
    <3> HIDE DEF words
    <3>2. Len(words) <= n /\ n \in Int /\ n - Len(words) = n - 1 BY <3>1
    <3> QED BY <2>7, <3>1, <3>2, WordsWriting DEF words
  <2> HIDE DEF w
  <2>9. n - 1 \in Int /\ n - 1 >= 2 OBVIOUS
  <2>10. Writing(w, J, 2) BY <2>8, <2>9, LessRoom
  <2>11. a.page \in J /\ c.page # a.page /\ c.page \notin J BY <2>5, <2>6, <2>8 DEF J, Writing
  <2>12. FreeLines(w, a.page) >= 2 BY <2>10, <2>11 DEF Writing
  <2>13. (J \ {a.page}) \cup {c.page} = G BY <2>6, <2>11 DEF J, G
  <2>14. Writing(y, G, 2) /\ SameTask(w, y) /\ SameRoom(w, y, DOMAIN w.pages)
    BY <2>8, <2>10, <2>11, <2>12, <2>13, TurnedWriting
  <2>15. FreeLines(y, c.page) >= n - 1
    <3>1. c.page \in DOMAIN w.pages /\ FreeLines(w, c.page) >= n - 1
      BY <2>8, WritingStored DEF Writing
    <3> QED BY <2>14, <3>1 DEF SameRoom
  <2> HIDE DEF y
  <2>16. Wrote(y, e, G) BY <2>14, PlainWriting
  <2> HIDE DEF e
  <2>17. FreeLines(e, c.page) >= n - 1 /\ Writing(e, G, 2) /\ SameTask(y, e)
    BY <2>5, <2>15, <2>16 DEF Wrote, SameRoom
  <2>18. Writing(d, G \ {c.page}, n - 1) /\ SameTask(e, d) BY <2>5, <2>17, ReturnedWriting
  <2> HIDE DEF d
  <2>19. G \ {c.page} = H BY <2>2 DEF G
  <2>20. SameTask(c, d) BY <2>3, <2>7, <2>8, <2>14, <2>17, <2>18 DEF SameTask
  <2> QED BY <2>1, <2>18, <2>19, <2>20
<1> QED BY <1>1, <1>2

LEMMA HeadWriting ==
  ASSUME NEW c, NEW H, NEW n \in Nat, Writing(c, H, n + 5), NEW i
  PROVE  Writing(TableHead(c, i, n), H, n + 2) /\ SameTask(c, TableHead(c, i, n))
<1> DEFINE e == EnsureCodePageNumLines(c, Threshold)
           head == Operation("BranchTable", c.of, i, n + 2)
           words == <<head>> \o Slots(2)
           d == TableHead(c, i, n)
<1>1. d = EmitWords(e, words) BY DEF TableHead
<1>2. IsSequence(words) /\ Len(words) = 3
  <2> HIDE DEF head
  <2>1. 2 \in Nat OBVIOUS
  <2>2. IsSequence(Slots(2)) /\ Len(Slots(2)) = 2 BY <2>1, WordDomains
  <2>3. IsSequence(<<head>>) /\ Len(<<head>>) = 1 BY TupleSequences
  <2> DEFINE x == <<head>>
             y == Slots(2)
  <2> HIDE DEF x, y
  <2>4. IsSequence(x \o y) /\ Len(x \o y) = Len(x) + Len(y) BY <2>2, <2>3, ConcatSequence DEF x, y
  <2>5. Len(x) = 1 /\ Len(y) = 2 BY <2>2, <2>3 DEF x, y
  <2>6. IsSequence(x \o y) /\ Len(x \o y) = 3 BY <2>4, <2>5
  <2> QED BY <2>6 DEF x, y
<1> HIDE DEF d, words
<1>3. Writing(c, H, 2)
  <2>1. n + 5 \in Int /\ 2 <= n + 5 OBVIOUS
  <2> QED BY <2>1, LessRoom
<1>4. /\ Writing(e, H, 8) /\ SameTask(c, e)
      /\ FreeLines(c, c.page) >= 8 => e = c
  BY <1>3, EnsuredWriting DEF Threshold
<1> HIDE DEF e
<1>5. Writing(e, H, n + 5)
  <2>1. CASE FreeLines(c, c.page) >= 8 BY <1>4, <2>1
  <2>2. CASE ~(FreeLines(c, c.page) >= 8)
    <3>1. FreeLines(c, c.page) \in Int /\ FreeLines(c, c.page) >= n + 5 BY WritingStored DEF Writing
    <3>2. n + 5 \in Int /\ n + 5 <= 8 BY <2>2, <3>1
    <3> QED BY <1>4, <3>2, LessRoom
  <2> QED BY <2>1, <2>2
<1> DEFINE m == n + 5
<1>6. m \in Int /\ Len(words) <= m /\ m - Len(words) = n + 2 BY <1>2
<1>7. Writing(d, H, n + 2) /\ SameTask(e, d)
  <2>1. Writing(e, H, m) BY <1>5
  <2> HIDE DEF m
  <2>2. Writing(EmitWords(e, words), H, m - Len(words)) /\ SameTask(e, EmitWords(e, words))
    BY <1>2, <1>6, <2>1, WordsWriting
  <2> QED BY <1>1, <1>6, <2>2
<1> QED BY <1>4, <1>7, SameTaskTwice DEF d

LEMMA TableWriting ==
  ASSUME NEW c, NEW H, Writing(c, H, 2), NEW i, NEW to, IsList(to)
  PROVE  Writing(CompileBranchTable(c, i, to), H, 2) /\ SameTask(c, CompileBranchTable(c, i, to))
<1> DEFINE n == Len(to)
           r == EnsureCodePageNumLines(c, n + 3)
           e == TableHead(r, i, n)
           g == CHOOSE g : TableIter(e, i, to, n, g)
           d == CompileBranchTable(c, i, to)
<1>1. n \in Nat /\ DOMAIN to = 1 .. n BY DEF IsList
<1>2. Writing(e, H, n + 2) /\ SameTask(c, e)
  <2>1. n + 3 \in Nat /\ n + 3 + 2 = n + 5 BY <1>1
  <2> HIDE DEF n
  <2>2. Writing(r, H, n + 3 + 2) /\ SameTask(c, r) BY <2>1, EnsuredWriting
  <2>3. Writing(r, H, n + 5) BY <2>1, <2>2
  <2> HIDE DEF r
  <2>4. Writing(e, H, n + 2) /\ SameTask(r, e) BY <1>1, <2>3, HeadWriting
  <2> QED BY <2>2, <2>4, SameTaskTwice
<1>3. d = g[1 .. n]
  <2>1. d = FoldLeft(LAMBDA a, t : TableEntry(a, i, t), e, to)
    BY DEF CompileBranchTable
  <2> HIDE DEF e, d
  <2>2. FoldLeft(LAMBDA a, t : TableEntry(a, i, t), e, to)
        = (CHOOSE f : f = [S \in SUBSET DOMAIN to |->
             IF S = {} THEN e ELSE TableEntry(f[S \ {Max(S)}], i, to[Max(S)])])[DOMAIN to]
    BY Zenon DEF FoldLeft, MapThenFoldSet
  <2> HIDE DEF n
  <2> QED BY <1>1, <2>1, <2>2, Zenon DEF TableIter
<1>4. TableIter(e, i, to, n, g) BY <1>1, TableIterExists
<1> HIDE DEF e, g, n, d
<1> DEFINE done(m) == Writing(g[1 .. m], H, n + 2 - m) /\ SameTask(c, g[1 .. m])
           T == {m \in Nat : m <= n => done(m)}
<1>5. 0 \in T
  <2>1. 1 .. 0 = {} /\ {} \in SUBSET (1 .. n) OBVIOUS
  <2>2. g[{}] = e BY <1>4, <2>1 DEF TableIter
  <2>3. n + 2 - 0 = n + 2 BY <1>1
  <2>4. done(0) BY <1>2, <2>1, <2>2, <2>3
  <2> QED BY <2>4
<1>6. ASSUME NEW m \in Nat, m \in T PROVE m + 1 \in T
  <2> SUFFICES ASSUME m + 1 <= n PROVE done(m + 1) OBVIOUS
  <2>1. done(m) BY <1>1, <1>6
  <2>2. 1 .. m + 1 \in SUBSET (1 .. n) BY <1>1
  <2> DEFINE b == g[1 .. m]
  <2>3. g[1 .. m + 1] = TableEntry(b, i, to[m + 1])
    <3> DEFINE S == 1 .. m + 1
    <3>1. S # {} /\ Max(S) = m + 1 /\ S \ {m + 1} = 1 .. m BY WithoutLargest
    <3> HIDE DEF S
    <3>2. S \in SUBSET (1 .. n) BY <2>2 DEF S
    <3>3. g[S] = TableEntry(g[S \ {Max(S)}], i, to[Max(S)]) BY <1>4, <3>1, <3>2 DEF TableIter
    <3>4. g[S] = TableEntry(g[1 .. m], i, to[m + 1]) BY <3>1, <3>3
    <3> QED BY <3>4 DEF S, b
  <2> DEFINE q == n + 2 - m
             x == to[m + 1]
  <2>4. q \in Nat /\ q >= 3 /\ q - 1 = n + 2 - (m + 1) BY <1>1
  <2>5. Writing(b, H, q) /\ SameTask(c, b) BY <2>1
  <2> HIDE DEF q, x, b
  <2>6. Writing(TableEntry(b, i, x), H, q - 1) /\ SameTask(b, TableEntry(b, i, x))
    BY <2>4, <2>5, EntryWriting
  <2>7. SameTask(c, TableEntry(b, i, x)) BY <2>5, <2>6, SameTaskTwice
  <2> QED BY <2>3, <2>4, <2>6, <2>7 DEF x
<1>7. Nat \subseteq T
  <2> HIDE DEF T
  <2> QED BY <1>5, <1>6, Induction
<1>8. n \in T BY <1>1, <1>7
<1>9. n + 2 - n = 2 BY <1>1
<1>10. Writing(d, H, 2) /\ SameTask(c, d) BY <1>1, <1>3, <1>8, <1>9
<1> QED BY <1>10 DEF d

-------------------------------------------------------------------------------
(* A body: the arms behind an else, and the pages of the arms before them    *)

Held(c) == {c.saved[k].page : k \in DOMAIN c.saved}

\* r was saved at one of the first i instructions, an else whose end is not reached.
IsSaved(body, i, r) ==
  /\ r.end \in Int /\ i < r.end /\ r.end <= Len(body) /\ body[r.end].op = "end"
  /\ \E j \in 1 .. i : body[j].op = "else" /\ body[j].to = r.end

\* What was saved later is of an arm inside, and is another page.
Nested(s, body, i) ==
  /\ IsSequence(s)
  /\ \A k \in DOMAIN s : IsSaved(body, i, s[k])
  /\ \A k, l \in DOMAIN s : k < l => s[l].end < s[k].end /\ s[l].page # s[k].page

\* The first i instructions have been compiled, or one of them could not be.
Compiling(c, body, i) ==
  Writing(c, Held(c), 2) /\ Nested(c.saved, body, i) /\ (c.failed => c.saved = <<>>)

\* A body of patch p.  An import that is not linked is not called behind an else.
Ready(p, body, compiled) ==
  /\ IsList(body) /\ \A i \in DOMAIN body : IsInstruction(p, body, i)
  /\ \A i, j \in DOMAIN body :
       body[i].op = "else" /\ j \in i .. body[i].to /\ body[j].op = "call"
         => body[j].func \notin p.imports \ Range(Exports)
  /\ DOMAIN compiled = DOMAIN p.code \cup p.imports
  /\ \A g \in p.imports \cap Range(Exports) : compiled[g] # NotCompiled

LEMMA CallWriting ==
  ASSUME NEW c, NEW H, Writing(c, H, 2), NEW i, NEW g, NEW compiled
  PROVE  LET d == CompileCall(c, i, g, compiled)
         IN /\ Writing(d, H, 2) /\ d.of = c.of /\ d.saved = c.saved
            /\ d.failed # c.failed =>
                 ~(g \in DOMAIN compiled /\ (compiled[g] # NotCompiled \/ g \notin modules[c.of[1]].patch.imports))
<1> DEFINE d == CompileCall(c, i, g, compiled)
           linked == g \in DOMAIN compiled /\ compiled[g] # NotCompiled
           own == g \in DOMAIN compiled /\ g \notin modules[c.of[1]].patch.imports
<1>1. CASE linked
  <2> DEFINE w == Operand(compiled[g])
             z == Operand(<<0, 0>>)
             e == EmitOp(c, i, "Call", <<w, z>>)
  <2>1. d = e BY <1>1 DEF CompileCall
  <2> HIDE DEF w, z, d
  <2>2. Wrote(c, e, H) BY PlainWriting
  <2> HIDE DEF e
  <2>3. Writing(d, H, 2) /\ d.of = c.of /\ d.saved = c.saved /\ d.failed = c.failed
    BY <2>1, <2>2 DEF Wrote, SameTask
  <2> QED BY <2>3 DEF d
<1>2. CASE ~linked /\ own
  <2> DEFINE w == [func |-> g]
             z == Operand(<<0, 0>>)
             e == EmitOp(c, i, "Compile", <<w, z>>)
  <2>1. d = e BY <1>2 DEF CompileCall
  <2> HIDE DEF w, z, d
  <2>2. Wrote(c, e, H) BY PlainWriting
  <2> HIDE DEF e
  <2>3. Writing(d, H, 2) /\ d.of = c.of /\ d.saved = c.saved /\ d.failed = c.failed
    BY <2>1, <2>2 DEF Wrote, SameTask
  <2> QED BY <2>3 DEF d
<1>3. CASE ~linked /\ ~own
  <2> DEFINE e == [c EXCEPT !.failed = TRUE]
  <2>1. d = e BY <1>3 DEF CompileCall
  <2>2. Writing(e, H, 2) BY NotedWriting
  <2>3. DOMAIN c = Fields BY WritingStored DEF Stored
  <2>4. e.of = c.of /\ e.saved = c.saved BY <2>3 DEF Fields
  <2> HIDE DEF d, e
  <2>5. Writing(d, H, 2) /\ d.of = c.of /\ d.saved = c.saved BY <2>1, <2>2, <2>4
  <2>6. ~(g \in DOMAIN compiled /\ (compiled[g] # NotCompiled \/ g \notin modules[c.of[1]].patch.imports))
    BY <1>3
  <2> QED BY <2>5, <2>6 DEF d
<1> QED BY <1>1, <1>2, <1>3

LEMMA PassedNested ==
  ASSUME NEW s, NEW body, NEW i \in Nat \ {0}, Nested(s, body, i - 1),
         \A k \in DOMAIN s : s[k].end # i
  PROVE  Nested(s, body, i)
<1> SUFFICES ASSUME NEW k \in DOMAIN s PROVE IsSaved(body, i, s[k]) BY DEF Nested
<1>1. IsSaved(body, i - 1, s[k]) /\ s[k].end # i BY DEF Nested
<1> DEFINE r == s[k]
<1> HIDE DEF r
<1>2. /\ r.end \in Int /\ i - 1 < r.end /\ r.end # i /\ r.end <= Len(body) /\ body[r.end].op = "end"
  BY <1>1 DEF IsSaved, r
<1>3. PICK j \in 1 .. i - 1 : body[j].op = "else" /\ body[j].to = r.end BY <1>1 DEF IsSaved, r
<1>4. i < r.end BY <1>2
<1>5. j \in 1 .. i OBVIOUS
<1> QED BY <1>2, <1>3, <1>4, <1>5 DEF IsSaved, r

LEMMA EmptyNested ==
  ASSUME NEW body, NEW i
  PROVE  Nested(<<>>, body, i)
BY TupleSequences DEF Nested

\* An instruction that is no end and no else.
LEMMA PassedCompiling ==
  ASSUME NEW c, NEW body, NEW i \in Nat \ {0}, Compiling(c, body, i - 1), body[i].op # "end",
         NEW d, Writing(d, Held(c), 2), d.saved = c.saved, d.failed => d.saved = <<>>
  PROVE  Compiling(d, body, i)
<1>1. Nested(c.saved, body, i - 1) BY DEF Compiling
<1>2. \A k \in DOMAIN c.saved : c.saved[k].end # i BY <1>1 DEF Nested, IsSaved
<1>3. Nested(d.saved, body, i) BY <1>1, <1>2, PassedNested
<1>4. Held(d) = Held(c) BY DEF Held
<1> QED BY <1>3, <1>4 DEF Compiling

\* When an import that is not linked is called, no page waits.
LEMMA FailedCompiling ==
  ASSUME NEW p, NEW body, NEW compiled, Ready(p, body, compiled),
         NEW c, NEW i \in 1 .. Len(body), Compiling(c, body, i - 1), body[i].op = "call",
         body[i].func \in p.imports, compiled[body[i].func] = NotCompiled
  PROVE  c.saved = <<>>
<1>1. body[i].func \in p.imports \ Range(Exports) BY DEF Ready
<1>2. IsSequence(c.saved) BY DEF Compiling, Nested
<1> SUFFICES ASSUME c.saved # <<>> PROVE FALSE OBVIOUS
<1>3. PICK k : k \in DOMAIN c.saved
  <2>1. Len(c.saved) # 0 BY <1>2 DEF IsSequence
  <2>2. 1 \in DOMAIN c.saved BY <1>2, <2>1, SequenceDomain
  <2> QED BY <2>2
<1>4. IsSaved(body, i - 1, c.saved[k]) BY <1>3 DEF Compiling, Nested
<1> DEFINE r == c.saved[k]
<1> HIDE DEF r
<1>5. r.end \in Int /\ i - 1 < r.end BY <1>4 DEF IsSaved, r
<1>6. PICK j \in 1 .. i - 1 : body[j].op = "else" /\ body[j].to = r.end BY <1>4 DEF IsSaved, r
<1>7. Len(body) \in Nat /\ DOMAIN body = 1 .. Len(body) BY DEF Ready, IsList
<1>8. j \in DOMAIN body /\ i \in DOMAIN body /\ i \in j .. body[j].to BY <1>5, <1>6, <1>7
<1> QED BY <1>1, <1>6, <1>8 DEF Ready

LEMMA ElseCompiling ==
  ASSUME NEW p, NEW body, NEW compiled, Ready(p, body, compiled),
         NEW c, NEW i \in 1 .. Len(body), Compiling(c, body, i - 1), ~c.failed, body[i].op = "else"
  PROVE  Compiling(CompileElseBlock(c, i, body), body, i) /\ CompileElseBlock(c, i, body).of = c.of
<1> DEFINE s == c.saved
           H == Held(c)
           r == [page |-> c.page, end |-> body[i].to]
           d == CompileElseBlock(c, i, body)
           n == Len(s)
<1>1. Writing(c, H, 2) /\ Nested(s, body, i - 1) BY DEF Compiling
<1>2. c.page \notin H BY <1>1 DEF Writing
<1>3. /\ Writing(d, H \cup {c.page}, 2) /\ d.of = c.of /\ d.failed = c.failed
      /\ d.saved = Append(s, r)
  <2>1. Parted(c, d, H, body[i].to)
    <3> HIDE DEF H
    <3> QED BY <1>1, ElseWriting
  <2> HIDE DEF d, H
  <2> QED BY <2>1 DEF Parted
<1> HIDE DEF d
<1>4. r.page = c.page /\ r.end = body[i].to OBVIOUS
<1> HIDE DEF r
<1>5. IsSequence(s) BY <1>1 DEF Nested
<1>6. n \in Nat /\ DOMAIN s = 1 .. n BY <1>5, SequenceDomain
<1>7. /\ IsSequence(d.saved) /\ DOMAIN d.saved = 1 .. n + 1
      /\ \A k \in 1 .. n : d.saved[k] = s[k]
      /\ d.saved[n + 1] = r
  BY <1>3, <1>5, AppendSequence
<1>8. Len(body) \in Nat /\ DOMAIN body = 1 .. Len(body) BY DEF Ready, IsList
<1>9. \A j \in DOMAIN body : body[j].op = "else" =>
        /\ body[j].to \in j + 1 .. Len(body) /\ body[body[j].to].op = "end"
        /\ \A k \in j + 1 .. body[j].to : body[k].op = "else" => body[k].to < body[j].to
  BY DEF Ready, IsInstruction
<1>10. \A k \in 1 .. n : s[k].end # i /\ r.end < s[k].end
  <2> SUFFICES ASSUME NEW k \in 1 .. n PROVE s[k].end # i /\ r.end < s[k].end OBVIOUS
  <2> DEFINE to == s[k].end
  <2>1. IsSaved(body, i - 1, s[k]) BY <1>1, <1>6 DEF Nested
  <2>2. /\ to \in Int /\ i - 1 < to /\ to <= Len(body) /\ body[to].op = "end"
        /\ \E j \in 1 .. i - 1 : body[j].op = "else" /\ body[j].to = to
    BY <2>1 DEF IsSaved
  <2> HIDE DEF to, s, n
  <2>3. to # i BY <2>2
  <2>4. PICK j \in 1 .. i - 1 : body[j].op = "else" /\ body[j].to = to BY <2>2
  <2>5. j \in DOMAIN body /\ i \in j + 1 .. body[j].to BY <1>8, <2>2, <2>3, <2>4
  <2>6. body[i].to < to BY <1>9, <2>4, <2>5
  <2> QED BY <1>4, <2>3, <2>6 DEF to
<1>11. Nested(s, body, i) BY <1>1, <1>6, <1>10, PassedNested
<1>12. IsSaved(body, i, r)
  <2>1. i \in DOMAIN body BY <1>8
  <2>2. body[i].to \in i + 1 .. Len(body) /\ body[body[i].to].op = "end" BY <1>9, <2>1
  <2>3. r.end \in Int /\ i < r.end /\ r.end <= Len(body) BY <1>4, <1>8, <2>2
  <2>4. i \in 1 .. i OBVIOUS
  <2> QED BY <1>4, <2>2, <2>3, <2>4 DEF IsSaved
<1>13. \A k \in 1 .. n : s[k].page \in H /\ s[k].page # c.page BY <1>2, <1>6 DEF Held
<1> HIDE DEF s, n
<1>14. Nested(d.saved, body, i)
  <2>1. ASSUME NEW k \in DOMAIN d.saved PROVE IsSaved(body, i, d.saved[k])
    <3>1. k \in 1 .. n \/ k = n + 1 BY <1>6, <1>7
    <3> QED BY <1>6, <1>7, <1>11, <1>12, <3>1 DEF Nested
  <2>2. ASSUME NEW k \in DOMAIN d.saved, NEW l \in DOMAIN d.saved, k < l
        PROVE  d.saved[l].end < d.saved[k].end /\ d.saved[l].page # d.saved[k].page
    <3>1. k \in 1 .. n /\ (l \in 1 .. n \/ l = n + 1) BY <1>6, <1>7, <2>2
    <3>2. CASE l \in 1 .. n
      <4>1. s[l].end < s[k].end /\ s[l].page # s[k].page BY <1>6, <1>11, <2>2, <3>1, <3>2 DEF Nested
      <4> QED BY <1>7, <3>1, <3>2, <4>1
    <3>3. CASE l = n + 1 BY <1>4, <1>7, <1>10, <1>13, <3>1, <3>3
    <3> QED BY <3>1, <3>2, <3>3
  <2> QED BY <1>7, <2>1, <2>2 DEF Nested
<1>15. Held(d) = H \cup {c.page}
  <2>1. H = {s[k].page : k \in 1 .. n} BY <1>6 DEF Held, s
  <2>2. \A k \in 1 .. n + 1 : k \in 1 .. n \/ k = n + 1 BY <1>6
  <2>3. n + 1 \in 1 .. n + 1 /\ \A k \in 1 .. n : k \in 1 .. n + 1 BY <1>6
  <2>4. Held(d) = {d.saved[k].page : k \in 1 .. n + 1} BY <1>7 DEF Held
  <2> HIDE DEF H
  <2>5. Held(d) \subseteq H \cup {c.page} BY <1>4, <1>7, <2>1, <2>2, <2>4
  <2>6. H \cup {c.page} \subseteq Held(d) BY <1>4, <1>7, <2>1, <2>3, <2>4
  <2> QED BY <2>5, <2>6
<1>16. Writing(d, Held(d), 2) BY <1>3, <1>15
<1>17. Compiling(d, body, i) BY <1>3, <1>14, <1>16 DEF Compiling
<1> QED BY <1>3, <1>17 DEF d

LEMMA EndCompiling ==
  ASSUME NEW p, NEW body, NEW compiled, Ready(p, body, compiled),
         NEW c, NEW i \in 1 .. Len(body), Compiling(c, body, i - 1), ~c.failed, body[i].op = "end"
  PROVE  Compiling(BlockEnd(c, i), body, i) /\ BlockEnd(c, i).of = c.of
<1> DEFINE s == c.saved
           H == Held(c)
           q == PatchBranches(c, i)
           d == BlockEnd(c, i)
           n == Len(s)
<1>1. Writing(c, H, 2) /\ Nested(s, body, i - 1) BY DEF Compiling
<1>2. Writing(q, H, 2) /\ q.of = c.of /\ q.saved = s /\ q.failed = c.failed
  <2> HIDE DEF H
  <2> QED BY <1>1, PatchedWriting DEF SameTask
<1> HIDE DEF q
<1>3. IsSequence(s) BY <1>1 DEF Nested
<1>4. n \in Nat /\ DOMAIN s = 1 .. n BY <1>3, SequenceDomain
<1>5. i \in Nat \ {0} /\ i \in Int OBVIOUS
<1>6. \A k \in DOMAIN s : s[k].end \in Int /\ i - 1 < s[k].end BY <1>1 DEF Nested, IsSaved
<1>7. CASE s = <<>> \/ Last(s).end # i
  <2>1. d = q BY <1>7, Zenon DEF BlockEnd, q
  <2> HIDE DEF d
  <2>2. \A k \in DOMAIN s : s[k].end # i
    <3> SUFFICES ASSUME NEW k \in DOMAIN s PROVE s[k].end # i OBVIOUS
    <3>1. s # <<>> BY <1>3, TupleSequences
    <3>2. n \in DOMAIN s /\ s[n].end # i BY <1>3, <1>7, <3>1, LastAndFront
    <3>3. CASE k = n BY <3>2, <3>3
    <3>4. CASE k # n
      <4>1. k < n BY <1>4, <3>4
      <4>2. s[n].end < s[k].end BY <1>1, <3>2, <4>1 DEF Nested
      <4>3. i - 1 < s[n].end /\ s[n].end \in Int /\ s[k].end \in Int BY <1>6, <3>2
      <4> QED BY <1>5, <4>2, <4>3
    <3> QED BY <3>3, <3>4
  <2>3. Nested(s, body, i) BY <1>1, <1>5, <2>2, PassedNested
  <2>4. Held(d) = H BY <1>2, <2>1 DEF Held
  <2>5. Compiling(d, body, i) BY <1>2, <2>1, <2>3, <2>4 DEF Compiling
  <2> QED BY <1>2, <2>1, <2>5 DEF d
<1>8. CASE s # <<>> /\ Last(s).end = i
  <2> DEFINE back == Last(s).page
             t == Front(s)
  <2>1. /\ n \in DOMAIN s /\ Last(s) = s[n]
        /\ IsSequence(t) /\ DOMAIN t = 1 .. n - 1 /\ \A l \in DOMAIN t : l \in DOMAIN s /\ t[l] = s[l]
    BY <1>3, <1>8, LastAndFront
  <2>2. d = LeaveElse(q, i, back) BY <1>8, Zenon DEF BlockEnd, q
  <2>3. back \in H /\ back = s[n].page /\ s[n].end = i BY <1>8, <2>1 DEF Held
  <2> HIDE DEF d, H, back
  <2>4. Writing(d, H \ {back}, 2) /\ d.of = q.of /\ d.failed = q.failed /\ d.saved = Front(q.saved)
    <3> HIDE DEF s, n, t
    <3>1. Writing(q, H, 2) BY <1>2
    <3>2. Rejoined(q, d, H, back) BY <2>2, <2>3, <3>1, LeftWriting
    <3> QED BY <3>2 DEF Rejoined
  <2>5. d.saved = t BY <1>2, <2>4
  <2> HIDE DEF t
  <2>6. \A k \in 1 .. n - 1 : k \in 1 .. n /\ k < n BY <1>4
  <2>7. \A k \in 1 .. n - 1 : s[n].end < s[k].end /\ s[n].page # s[k].page
    <3> HIDE DEF s, n
    <3> QED BY <1>1, <1>4, <2>1, <2>6 DEF Nested
  <2> HIDE DEF s, n
  <2>8. Nested(t, body, i - 1)
    <3>1. \A k \in DOMAIN t : IsSaved(body, i - 1, t[k]) BY <1>1, <2>1 DEF Nested
    <3>2. ASSUME NEW k \in DOMAIN t, NEW l \in DOMAIN t, k < l
          PROVE  t[l].end < t[k].end /\ t[l].page # t[k].page
      <4>1. s[l].end < s[k].end /\ s[l].page # s[k].page BY <1>1, <2>1, <3>2 DEF Nested
      <4> QED BY <2>1, <4>1
    <3> QED BY <2>1, <3>1, <3>2 DEF Nested
  <2>9. \A k \in DOMAIN t : t[k].end # i
    <3> SUFFICES ASSUME NEW k \in DOMAIN t PROVE t[k].end # i OBVIOUS
    <3>1. i < s[k].end /\ s[k].end \in Int BY <1>6, <2>1, <2>3, <2>7
    <3> QED BY <1>5, <2>1, <3>1
  <2>10. Nested(t, body, i) BY <1>5, <2>8, <2>9, PassedNested
  <2>11. Held(d) = H \ {back}
    <3>1. H = {s[k].page : k \in 1 .. n} BY <1>4 DEF Held, H, s
    <3>2. Held(d) = {t[k].page : k \in 1 .. n - 1} BY <2>1, <2>5 DEF Held
    <3>3. \A k \in 1 .. n - 1 : t[k] = s[k] BY <2>1
    <3>4. \A k \in 1 .. n : k = n \/ k \in 1 .. n - 1 BY <1>4
    <3>5. Held(d) \subseteq H \ {back} BY <2>3, <2>6, <2>7, <3>1, <3>2, <3>3
    <3>6. H \ {back} \subseteq Held(d) BY <2>3, <3>1, <3>2, <3>3, <3>4
    <3> QED BY <3>5, <3>6
  <2>12. Writing(d, Held(d), 2) /\ ~d.failed /\ d.of = c.of BY <1>2, <2>4, <2>11
  <2>13. Compiling(d, body, i) BY <2>5, <2>10, <2>12 DEF Compiling
  <2> QED BY <2>12, <2>13 DEF d
<1> QED BY <1>7, <1>8

LEMMA InstructionCompiling ==
  ASSUME NEW p, NEW body, NEW compiled, Ready(p, body, compiled),
         NEW c, NEW i \in 1 .. Len(body), Compiling(c, body, i - 1),
         modules[c.of[1]].patch = p
  PROVE  LET d == CompileInstruction(c, i, body, compiled)
         IN Compiling(d, body, i) /\ d.of = c.of
<1> DEFINE ins == body[i]
           d == CompileInstruction(c, i, body, compiled)
           H == Held(c)
<1> SUFFICES Compiling(d, body, i) /\ d.of = c.of OBVIOUS
<1>1. Writing(c, H, 2) /\ (c.failed => c.saved = <<>>) BY DEF Compiling
<1>2. i \in DOMAIN body /\ i \in Nat \ {0} BY DEF Ready, IsList
<1>3. IsInstruction(p, body, i) BY <1>2 DEF Ready
<1>4. ASSUME NEW e, Wrote(c, e, H), ins.op # "end" PROVE Compiling(e, body, i) /\ e.of = c.of
  <2>1. Writing(e, H, 2) /\ e.of = c.of /\ e.saved = c.saved /\ e.failed = c.failed
    BY <1>4 DEF Wrote, SameTask
  <2>2. e.failed => e.saved = <<>> BY <1>1, <2>1
  <2> HIDE DEF ins
  <2> QED BY <1>2, <1>4, <2>1, <2>2, PassedCompiling DEF ins
<1>5. CASE c.failed
  <2>1. d = c BY <1>5 DEF CompileInstruction
  <2>2. c.saved = <<>> BY <1>1, <1>5
  <2>3. Compiling(c, body, i) BY <1>1, <2>2, EmptyNested DEF Compiling
  <2> QED BY <2>1, <2>3
<1>6. CASE ~c.failed /\ ins.op = "op"
  <2>1. d = EmitOp(c, i, "Op", Slots(ins.words)) /\ ins.words \in 0 .. 4
    BY <1>3, <1>6 DEF CompileInstruction, IsInstruction
  <2>2. Wrote(c, d, H)
    <3> HIDE DEF d, H
    <3> QED BY <1>1, <2>1, PlainWriting
  <2> HIDE DEF d
  <2> QED BY <1>4, <1>6, <2>2
<1>7. CASE ~c.failed /\ ins.op \in {"grow", "trap"}
  <2>1. d = EmitOp(c, i, "MemGrow", <<>>) \/ d = EmitOp(c, i, "Unreachable", <<>>)
    BY <1>7 DEF CompileInstruction
  <2>2. Wrote(c, d, H)
    <3> HIDE DEF d, H
    <3> QED BY <1>1, <2>1, PlainWriting
  <2> HIDE DEF d
  <2> QED BY <1>4, <1>7, <2>2
<1>8. CASE ~c.failed /\ ins.op = "callIndirect"
  <2>1. d = EmitOp(c, i, "CallIndirect", Slots(4)) BY <1>8 DEF CompileInstruction
  <2>2. Wrote(c, d, H)
    <3> HIDE DEF d, H
    <3>1. 4 \in 0 .. 4 OBVIOUS
    <3> QED BY <1>1, <2>1, <3>1, PlainWriting
  <2> HIDE DEF d
  <2> QED BY <1>4, <1>8, <2>2
<1>9. CASE ~c.failed /\ ins.op = "block"
  <2>1. d = c BY <1>9 DEF CompileInstruction
  <2>2. Wrote(c, c, H) BY <1>1 DEF Wrote, SameTask, SameRoom
  <2> HIDE DEF d
  <2> QED BY <1>4, <1>9, <2>1, <2>2
<1>10. CASE ~c.failed /\ ins.op = "continueIf"
  <2> DEFINE w == Operand(c.heads[ins.to])
  <2>1. d = EmitOp(c, i, "ContinueLoopIf", <<w>>) BY <1>10 DEF CompileInstruction
  <2>2. Wrote(c, d, H)
    <3> HIDE DEF d, H, w
    <3> QED BY <1>1, <2>1, PlainWriting
  <2> HIDE DEF d
  <2> QED BY <1>4, <1>10, <2>2
<1>11. CASE ~c.failed /\ ins.op = "loop"
  <2> DEFINE e == EmitOp(c, i, "Loop", <<>>)
  <2>1. d = Headed(e, i) BY <1>11 DEF CompileInstruction
  <2> HIDE DEF d, H
  <2>2. Writing(e, H, 2) /\ SameTask(c, e) BY <1>1, PlainWriting DEF Wrote
  <2> HIDE DEF e
  <2>3. Writing(d, H, 2) /\ SameTask(e, d) BY <2>1, <2>2, NotedWriting
  <2>4. d.of = c.of /\ d.saved = c.saved /\ d.failed = c.failed BY <2>2, <2>3 DEF SameTask
  <2>5. d.failed => d.saved = <<>> BY <1>1, <2>4
  <2> QED BY <1>2, <1>11, <2>3, <2>4, <2>5, PassedCompiling DEF H
<1>12. CASE ~c.failed /\ ins.op \in {"branchIf", "if"}
  <2> DEFINE e == EmitOp(c, i, "BranchIf", Slots(2))
             to == ins.to
  <2>1. d = Reserve(e, 1, to) BY <1>12 DEF CompileInstruction
  <2> HIDE DEF d, H, to
  <2>2. Writing(e, H, 2) /\ SameTask(c, e)
    <3>1. 2 \in 0 .. 4 OBVIOUS
    <3> QED BY <1>1, <3>1, PlainWriting DEF Wrote
  <2> HIDE DEF e
  <2>3. Writing(d, H, 2) /\ SameTask(e, d) BY <2>1, <2>2, NotedWriting
  <2>4. d.of = c.of /\ d.saved = c.saved /\ d.failed = c.failed BY <2>2, <2>3 DEF SameTask
  <2>5. d.failed => d.saved = <<>> BY <1>1, <2>4
  <2>6. ins.op # "end" BY <1>12
  <2> QED BY <1>2, <2>3, <2>4, <2>5, <2>6, PassedCompiling DEF H
<1>13. CASE ~c.failed /\ ins.op = "table"
  <2> DEFINE to == ins.to
  <2>1. d = CompileBranchTable(c, i, to) /\ IsList(to)
    BY <1>3, <1>13 DEF CompileInstruction, IsInstruction
  <2> HIDE DEF d, H, to
  <2>2. Writing(d, H, 2) /\ SameTask(c, d) BY <1>1, <2>1, TableWriting
  <2>3. d.of = c.of /\ d.saved = c.saved /\ d.failed = c.failed BY <2>2 DEF SameTask
  <2>4. d.failed => d.saved = <<>> BY <1>1, <2>3
  <2> QED BY <1>2, <1>13, <2>2, <2>3, <2>4, PassedCompiling DEF H
<1>14. CASE ~c.failed /\ ins.op = "call"
  <2> DEFINE g == ins.func
  <2>1. d = CompileCall(c, i, g, compiled) BY <1>14 DEF CompileInstruction
  <2>2. g \in DOMAIN p.code \cup p.imports BY <1>3, <1>14 DEF IsInstruction
  <2>3. g \in DOMAIN compiled BY <2>2 DEF Ready
  <2> HIDE DEF d, H, g
  <2>4. /\ Writing(d, H, 2) /\ d.of = c.of /\ d.saved = c.saved
        /\ d.failed # c.failed =>
             ~(g \in DOMAIN compiled /\ (compiled[g] # NotCompiled \/ g \notin modules[c.of[1]].patch.imports))
    BY <1>1, <2>1, CallWriting
  <2>5. d.failed => d.saved = <<>>
    <3> SUFFICES ASSUME d.failed, d.failed # c.failed PROVE d.saved = <<>> BY <1>1, <2>4
    <3>1. g \in p.imports /\ compiled[g] = NotCompiled BY <2>3, <2>4
    <3>2. c.saved = <<>> BY <1>14, <3>1, FailedCompiling DEF g
    <3> QED BY <2>4, <3>2
  <2> QED BY <1>2, <1>14, <2>4, <2>5, PassedCompiling DEF H
<1>15. CASE ~c.failed /\ ins.op = "else"
  <2>1. d = CompileElseBlock(c, i, body) BY <1>15 DEF CompileInstruction
  <2> QED BY <1>15, <2>1, ElseCompiling
<1>16. CASE ~c.failed /\ ins.op = "end"
  <2>1. d = BlockEnd(c, i) BY <1>16 DEF CompileInstruction
  <2> QED BY <1>16, <2>1, EndCompiling
<1>17. ins.op \in {"op", "grow", "trap", "call", "callIndirect", "loop", "block", "branchIf",
                   "if", "continueIf", "table", "else", "end"}
  BY <1>3 DEF IsInstruction
<1> HIDE DEF d, ins
<1> QED BY <1>5, <1>6, <1>7, <1>8, <1>9, <1>10, <1>11, <1>12, <1>13, <1>14, <1>15, <1>16, <1>17

\* Whatever was behind an else has ended at the end of the body.
LEMMA BodyCompiling ==
  ASSUME NEW p, NEW body, NEW compiled, Ready(p, body, compiled),
         NEW c, Compiling(c, body, 0), modules[c.of[1]].patch = p
  PROVE  Writing(CompileBlockStatements(c, body, compiled), {}, 2)
<1> DEFINE n == Len(body)
           index == [i \in DOMAIN body |-> i]
           g == CHOOSE g : BodyIter(c, index, body, compiled, n, g)
           d == CompileBlockStatements(c, body, compiled)
<1> SUFFICES Writing(d, {}, 2) OBVIOUS
<1>1. n \in Nat /\ DOMAIN body = 1 .. n BY DEF Ready, IsList
<1>2. DOMAIN index = 1 .. n /\ \A i \in 1 .. n : index[i] = i BY <1>1
<1>3. d = g[1 .. n]
  <2>1. d = FoldLeft(LAMBDA a, i : CompileInstruction(a, i, body, compiled), c, index)
    BY DEF CompileBlockStatements, FoldLeftDomain
  <2> HIDE DEF index, d
  <2>2. FoldLeft(LAMBDA a, i : CompileInstruction(a, i, body, compiled), c, index)
        = (CHOOSE f : f = [S \in SUBSET DOMAIN index |->
             IF S = {} THEN c
             ELSE CompileInstruction(f[S \ {Max(S)}], index[Max(S)], body, compiled)])[DOMAIN index]
    BY Zenon DEF FoldLeft, MapThenFoldSet
  <2> HIDE DEF n
  <2> QED BY <1>2, <2>1, <2>2, Zenon DEF BodyIter
<1>4. BodyIter(c, index, body, compiled, n, g) BY <1>1, BodyIterExists
<1> HIDE DEF index, g, n, d
<1> DEFINE done(m) == Compiling(g[1 .. m], body, m) /\ g[1 .. m].of = c.of
           T == {m \in Nat : m <= n => done(m)}
<1>5. 0 \in T
  <2>1. 1 .. 0 = {} /\ {} \in SUBSET (1 .. n) OBVIOUS
  <2>2. g[{}] = c BY <1>4, <2>1 DEF BodyIter
  <2> QED BY <2>1, <2>2
<1>6. ASSUME NEW m \in Nat, m \in T PROVE m + 1 \in T
  <2> SUFFICES ASSUME m + 1 <= n PROVE done(m + 1) OBVIOUS
  <2>1. done(m) BY <1>1, <1>6
  <2>2. 1 .. m + 1 \in SUBSET (1 .. n) /\ m + 1 \in 1 .. n BY <1>1
  <2> DEFINE b == g[1 .. m]
             i == m + 1
  <2>3. g[1 .. m + 1] = CompileInstruction(b, i, body, compiled)
    <3> DEFINE S == 1 .. m + 1
    <3>1. S # {} /\ Max(S) = m + 1 /\ S \ {m + 1} = 1 .. m BY WithoutLargest
    <3> HIDE DEF S
    <3>2. S \in SUBSET (1 .. n) BY <2>2 DEF S
    <3>3. g[S] = CompileInstruction(g[S \ {Max(S)}], index[Max(S)], body, compiled)
      BY <1>4, <3>1, <3>2 DEF BodyIter
    <3>4. g[S] = CompileInstruction(g[1 .. m], m + 1, body, compiled) BY <1>2, <2>2, <3>1, <3>3
    <3> QED BY <3>4 DEF S
  <2>4. i \in 1 .. Len(body) /\ i - 1 = m BY <2>2 DEF n
  <2>5. Compiling(b, body, m) /\ b.of = c.of BY <2>1
  <2> HIDE DEF i, b
  <2>6. Compiling(b, body, i - 1) /\ modules[b.of[1]].patch = p BY <2>4, <2>5
  <2>7. /\ Compiling(CompileInstruction(b, i, body, compiled), body, i)
        /\ CompileInstruction(b, i, body, compiled).of = b.of
    BY <2>4, <2>6, InstructionCompiling
  <2> QED BY <2>3, <2>5, <2>7 DEF i
<1>7. Nat \subseteq T
  <2> HIDE DEF T
  <2> QED BY <1>5, <1>6, Induction
<1>8. n \in T BY <1>1, <1>7
<1>9. Compiling(d, body, n) BY <1>1, <1>3, <1>8
<1>10. DOMAIN d.saved = {}
  <2> SUFFICES ASSUME NEW k \in DOMAIN d.saved PROVE FALSE OBVIOUS
  <2>1. IsSaved(body, n, d.saved[k]) BY <1>9 DEF Compiling, Nested
  <2> QED BY <1>1, <2>1 DEF IsSaved, n
<1>11. Held(d) = {} BY <1>10 DEF Held
<1> QED BY <1>9, <1>11 DEF Compiling

LEMMA ClosedNeat ==
  ASSUME NEW c, Writing(c, {}, 2)
  PROVE  Neat(Closed(c), {})
<1> DEFINE r == ReleaseCodePage(c, c.page)
           k == c.page
           d == Cleared(r)
<1>1. Stored(c) /\ k \in DOMAIN c.pages BY WritingStored
<1>2. Neat(c, {k})
  <2>1. {} \cup {k} = {k} OBVIOUS
  <2> QED BY <2>1 DEF Writing
<1>3. GivenBack(c, r, k) BY <1>1, ReleasedPage
<1>4. Closed(c) = d BY DEF Closed
<1> HIDE DEF r, k
<1>5. {k} \ {k} = {} OBVIOUS
<1>6. Neat(r, {}) BY <1>2, <1>3, <1>5, GivenBackNeat
<1>7. SameStore(r, d) BY <1>6, ClearedCode DEF Neat, SameStore
<1> QED BY <1>4, <1>6, <1>7, SameStoreNeat

LEMMA CompiledOnNeat ==
  ASSUME NEW p, NEW body, NEW compiled, Ready(p, body, compiled),
         NEW c, Writing(c, {}, 2), c.saved = <<>>, c.failed = FALSE, modules[c.of[1]].patch = p
  PROVE  Neat(CompileOn(c, body, compiled).code, {})
<1> DEFINE e == EmitOp(c, 0, "Entry", Slots(1))
           d == CompileBlockStatements(e, body, compiled)
           at == Len(body) + 1
           r == CompileOn(c, body, compiled)
<1> SUFFICES Neat(r.code, {}) OBVIOUS
<1>1. Wrote(c, e, {})
  <2>1. 1 \in 0 .. 4 OBVIOUS
  <2> QED BY <2>1, PlainWriting
<1>2. r = Ended(d, at, PC(c)) BY DEF CompileOn
<1> HIDE DEF e, at, r
<1>3. Writing(e, {}, 2) /\ e.of = c.of /\ e.saved = <<>> /\ e.failed = FALSE
  BY <1>1 DEF Wrote, SameTask
<1>4. Held(e) = {} BY <1>3, TupleSequences DEF Held
<1>5. Compiling(e, body, 0) BY <1>3, <1>4, EmptyNested DEF Compiling
<1>6. Writing(d, {}, 2) BY <1>3, <1>5, BodyCompiling
<1> HIDE DEF d
<1>7. CASE d.failed
  <2>1. r.code = Closed(d) BY <1>2, <1>7 DEF Ended
  <2> QED BY <1>6, <2>1, ClosedNeat
<1>8. CASE ~d.failed
  <2> DEFINE z == EmitOp(d, at, "Return", <<>>)
  <2>1. r.code = Closed(z) BY <1>2, <1>8 DEF Ended
  <2>2. Writing(z, {}, 2) BY <1>6, PlainWriting DEF Wrote
  <2> HIDE DEF z
  <2> QED BY <2>1, <2>2, ClosedNeat
<1> QED BY <1>7, <1>8

-------------------------------------------------------------------------------
(* The steps                                                                 *)

\* No page is lost; an import that can be is linked; a function that has not been compiled
\* is of the module whose bytes are in the buffer.
PagesInv ==
  /\ Neat(code, {})
  /\ \A m \in DOMAIN modules :
       /\ ~LosesPage(modules[m].patch)
       /\ \A g \in modules[m].patch.imports \cap Range(Exports) : modules[m].compiled[g] # NotCompiled
       /\ \A f \in DOMAIN modules[m].patch.code :
            modules[m].compiled[f] = NotCompiled => buffer = m

LEMMA FunctionNeat ==
  ASSUME CodeInv, PagesInv, NEW m \in DOMAIN modules, NEW f \in DOMAIN modules[m].patch.code
  PROVE  Neat(CompileFunction(m, f, modules[m].patch.code[f]).code, {})
<1> DEFINE p == modules[m].patch
           body == p.code[f]
           c0 == Cleared(code)
           c1 == [c0 EXCEPT !.of = <<m, f>>]
           c2 == AcquireCodePage(c1, Threshold)
           compiled == modules[m].compiled
           d == CompileOn(c2, body, compiled).code
<1>1. CompileFunction(m, f, body).code = d BY DEF CompileFunction
<1>2. Ready(p, body, compiled)
  <2>1. p \in Payload /\ DOMAIN compiled = DOMAIN p.code \cup p.imports
    BY DEF CodeInv, ModulesInv, IsModule
  <2>2. IsList(body) /\ \A i \in DOMAIN body : IsInstruction(p, body, i)
    <3> HIDE DEF p, body
    <3> QED BY <2>1, PayloadAssumption DEF IsPayload, p, body
  <2>3. ~LosesPage(p) /\ \A g \in p.imports \cap Range(Exports) : compiled[g] # NotCompiled
    BY DEF PagesInv
  <2>4. \A i, j \in DOMAIN body :
          body[i].op = "else" /\ j \in i .. body[i].to /\ body[j].op = "call"
            => body[j].func \notin p.imports \ Range(Exports)
    BY <2>3 DEF LosesPage
  <2> HIDE DEF p, body, compiled
  <2> QED BY <2>1, <2>2, <2>3, <2>4 DEF Ready
<1> HIDE DEF d, body, compiled
<1>3. Neat(code, {}) /\ Stored(code) BY DEF PagesInv, Neat
<1>4. Stored(c0) /\ SameStore(code, c0) /\ c0.saved = <<>> /\ c0.failed = FALSE
  BY <1>3, ClearedCode DEF SameStore
<1> HIDE DEF c0
<1>5. Neat(c0, {}) BY <1>3, <1>4, SameStoreNeat
<1>6. /\ DOMAIN c1 = Fields /\ c1.pages = c0.pages /\ c1.open = c0.open /\ c1.full = c0.full
      /\ c1.released = c0.released /\ c1.count = c0.count /\ c1.active = c0.active
      /\ c1.saved = <<>> /\ c1.failed = FALSE /\ c1.of = <<m, f>>
  BY <1>4 DEF Stored, Fields
<1> HIDE DEF c1
<1>7. Stored(c1) BY <1>4, <1>6 DEF Stored
<1>8. SameStore(c0, c1) BY <1>6, <1>7 DEF SameStore
<1>9. Neat(c1, {}) BY <1>5, <1>8, SameStoreNeat
<1>10. 6 \in Nat OBVIOUS
<1>11. Taken(c1, c2, 6) BY <1>7, <1>10, AcquiredPage DEF Threshold
<1> HIDE DEF c2
<1>12. Neat(c2, {} \cup {c2.page}) /\ FreeLines(c2, c2.page) >= 6
  BY <1>9, <1>10, <1>11, TakenNeat
<1>13. Writing(c2, {}, 6) BY <1>12 DEF Writing
<1>14. Writing(c2, {}, 2) BY <1>13, LessRoom
<1>15. c2.saved = <<>> /\ c2.failed = FALSE /\ c2.of = <<m, f>> BY <1>6, <1>11 DEF Taken, SameWork
<1>16. modules[c2.of[1]].patch = p BY <1>15
<1> HIDE DEF p
<1>17. Neat(d, {}) BY <1>2, <1>14, <1>15, <1>16, CompiledOnNeat DEF d
<1> QED BY <1>1, <1>17 DEF body, p

LEMMA AddressNeat ==
  ASSUME CodeInv, PagesInv, NEW m \in DOMAIN modules, NEW f \in DOMAIN modules[m].patch.code,
         NEW r \in Addresses(m, f)
  PROVE  Neat(r.code, {}) /\ (modules[m].compiled[f] # NotCompiled => r.pc # NotCompiled)
<1>1. CASE modules[m].compiled[f] # NotCompiled
  <2>1. r.code = code /\ r.pc = modules[m].compiled[f] BY <1>1 DEF Addresses
  <2> QED BY <1>1, <2>1 DEF PagesInv
<1>2. CASE modules[m].compiled[f] = NotCompiled
  <2>1. buffer = m BY <1>2 DEF PagesInv
  <2>2. r = CompileFunction(m, f, modules[m].patch.code[f]) BY <1>2, <2>1 DEF Addresses, Texts
  <2> QED BY <1>2, <2>2, FunctionNeat
<1> QED BY <1>1, <1>2

\* The pages of the runtime stay with it, and what the temporary one took goes to the environment.
LEMMA EvaluatedNeat ==
  ASSUME NEW c, Neat(c, {})
  PROVE  Neat(EvaluateExpression(c), {})
<1> DEFINE c1 == [c EXCEPT !.open = <<>>]
           a == AcquireCodePage(c1, Threshold)
           d == EvaluateExpression(c)
           O == Range(c.open)
           F == Range(c.full)
           R == Range(c.released)
<1>1. Stored(c) /\ Owned(c, {}) /\ Fits(c) /\ Counted(c) BY DEF Neat
<1>2. /\ DOMAIN c1 = Fields /\ c1.pages = c.pages /\ c1.open = <<>> /\ c1.full = c.full
      /\ c1.released = c.released
  BY <1>1 DEF Stored, Fields
<1> HIDE DEF c1
<1>3. Stored(c1) BY <1>1, <1>2 DEF Stored
<1>4. /\ Distinct(c.open) /\ Distinct(c.full) /\ Distinct(c.released)
      /\ O \cap F = {} /\ O \cap R = {} /\ F \cap R = {} /\ DOMAIN c.pages = O \cup F \cup R
  BY <1>1 DEF Owned
<1>5. Owned(c1, O)
  <2>1. Range(<<>>) = {} /\ Distinct(<<>>) BY TupleSequences DEF Range, Distinct
  <2>2. Range(c1.full) = F /\ Range(c1.released) = R /\ Range(c1.open) = {} BY <1>2, <2>1
  <2> HIDE DEF O, F, R
  <2> QED BY <1>2, <1>4, <2>1, <2>2 DEF Owned
<1>6. 6 \in Nat OBVIOUS
<1>7. Taken(c1, a, 6) BY <1>3, <1>6, AcquiredPage DEF Threshold
<1>8. d = [a EXCEPT !.page = 0, !.open = c.open, !.count = c.count, !.active = c.active,
                    !.released = <<a.page>> \o a.released]
  BY DEF EvaluateExpression, c1
<1> HIDE DEF a
<1>9. a.page \notin O /\ Owned(a, O \cup {a.page})
  <2> HIDE DEF O
  <2> QED BY <1>3, <1>5, <1>6, <1>7, TakenOwned
<1>10. Stored(a) /\ a.full = c.full /\ a.open = <<>>
  <2>1. Len(c1.open) = 0 BY <1>2
  <2> QED BY <1>2, <1>7, <2>1 DEF Taken
<1>11. /\ a.page \in DOMAIN a.pages /\ FreeLines(a, a.page) >= 6
       /\ DOMAIN c.pages \subseteq DOMAIN a.pages
       /\ \A k \in DOMAIN c.pages : a.pages[k] = c.pages[k]
       /\ \A k \in DOMAIN a.pages \ DOMAIN c.pages : k = a.page
  BY <1>2, <1>3, <1>6, <1>7, TakenPages
<1> DEFINE Q == Range(a.released)
<1>12. /\ Distinct(a.released) /\ F \cap Q = {} /\ (O \cup {a.page}) \cap (F \cup Q) = {}
       /\ DOMAIN a.pages = F \cup Q \cup O \cup {a.page}
  <2>1. Range(<<>>) = {} BY TupleSequences DEF Range
  <2>2. Range(a.full) = F /\ Range(a.open) = {} BY <1>10, <2>1
  <2> HIDE DEF O, F
  <2> QED BY <1>9, <1>10, <2>2 DEF Owned
<1>13. /\ More(a.released, <<a.page>> \o a.released, a.page)
       /\ <<a.page>> \o a.released \in Seq(DOMAIN a.pages)
  <2>1. a.released \in Seq(DOMAIN a.pages) BY <1>10 DEF Stored
  <2>2. a.page \notin Range(a.released) BY <1>12
  <2> QED BY <1>11, <1>12, <2>1, <2>2, PushedMore, Pushed
<1> HIDE DEF d
<1>14. /\ DOMAIN d = Fields /\ d.pages = a.pages /\ d.open = c.open /\ d.full = c.full
       /\ d.released = <<a.page>> \o a.released /\ d.count = c.count /\ d.active = c.active
  BY <1>8, <1>10 DEF Stored, Fields
<1>15. c.open \in Seq(DOMAIN a.pages) /\ c.full \in Seq(DOMAIN a.pages)
  <2>1. c.open \in Seq(DOMAIN c.pages) BY <1>1 DEF Stored
  <2>2. c.full \in Seq(DOMAIN a.pages) BY <1>10 DEF Stored
  <2> QED BY <1>11, <2>1, <2>2
<1>16. Stored(d) BY <1>10, <1>13, <1>14, <1>15 DEF Stored
<1>17. Distinct(d.released) /\ Range(d.released) = Q \cup {a.page} BY <1>13, <1>14 DEF More
<1>18. Range(d.open) = O /\ Range(d.full) = F BY <1>14
<1> HIDE DEF O, F, R, Q
<1>19. Owned(d, {}) BY <1>4, <1>9, <1>12, <1>14, <1>17, <1>18 DEF Owned
<1>20. Fits(d)
  <2> SUFFICES ASSUME NEW k \in DOMAIN a.pages PROVE FreeLines(d, k) >= 0 BY <1>14 DEF Fits
  <2>1. FreeLines(d, k) = FreeLines(a, k) BY <1>14 DEF FreeLines
  <2>2. CASE k \in DOMAIN c.pages
    <3>1. FreeLines(a, k) = FreeLines(c, k) BY <1>11, <2>2 DEF FreeLines
    <3> QED BY <1>1, <2>1, <2>2, <3>1 DEF Fits
  <2>3. CASE k \notin DOMAIN c.pages
    <3>1. k = a.page BY <1>11, <2>3
    <3>2. FreeLines(a, k) \in Int BY <1>10, FreeLinesType
    <3> QED BY <1>11, <2>1, <3>1, <3>2
  <2> QED BY <2>2, <2>3
<1>21. Counted(d) BY <1>1, <1>14 DEF Counted
<1> QED BY <1>16, <1>19, <1>20, <1>21 DEF Neat, d

LEMMA LinkedNeat ==
  ASSUME NEW c, Neat(c, {}), NEW m, NEW x
  PROVE  Neat(LinkRawFunction(c, m, x), {})
<1> DEFINE a == AcquireCodePage(c, 2)
           head == Operation("Raw", <<m, x>>, 0, 1)
           words == <<head>> \o Slots(1)
           e == EmitWords(a, words)
           r == ReleaseCodePage(e, e.page)
           d == LinkRawFunction(c, m, x)
<1>1. d = [r EXCEPT !.page = 0] BY DEF LinkRawFunction
<1>2. 2 \in Nat /\ 2 \in Int /\ Stored(c) BY DEF Neat
<1>3. Taken(c, a, 2) BY <1>2, AcquiredPage
<1> HIDE DEF a
<1>4. Neat(a, {} \cup {a.page}) /\ FreeLines(a, a.page) >= 2 BY <1>2, <1>3, TakenNeat
<1>5. Writing(a, {}, 2) BY <1>4 DEF Writing
<1>6. IsSequence(words) /\ Len(words) = 2
  <2> DEFINE s == <<head>>
             t == Slots(1)
  <2> HIDE DEF head
  <2>1. IsSequence(s) /\ Len(s) = 1 BY TupleSequences
  <2>2. IsSequence(t) /\ Len(t) = 1
    <3>1. 1 \in Nat OBVIOUS
    <3> QED BY <3>1, WordDomains
  <2> HIDE DEF s, t
  <2>3. IsSequence(s \o t) /\ Len(s \o t) = Len(s) + Len(t)
    <3> HIDE DEF words
    <3> QED BY <2>1, <2>2, ConcatSequence
  <2>4. IsSequence(s \o t) /\ Len(s \o t) = 2
    <3> HIDE DEF words
    <3> QED BY <2>1, <2>2, <2>3
  <2> QED BY <2>4 DEF s, t
<1> HIDE DEF words
<1>7. Len(words) <= 2 /\ 2 - Len(words) = 0 BY <1>6
<1>8. Writing(e, {}, 0)
  <2>1. Writing(e, {}, 2 - Len(words)) BY <1>2, <1>5, <1>6, <1>7, WordsWriting
  <2> QED BY <1>7, <2>1
<1> HIDE DEF e
<1> DEFINE k == e.page
<1>9. Stored(e) /\ k \in DOMAIN e.pages BY <1>8, WritingStored
<1>10. Neat(e, {k})
  <2>1. {} \cup {k} = {k} OBVIOUS
  <2> QED BY <1>8, <2>1 DEF Writing
<1>11. GivenBack(e, r, k) BY <1>9, ReleasedPage
<1> HIDE DEF k, r, d
<1>12. {k} \ {k} = {} OBVIOUS
<1>13. Neat(r, {}) BY <1>10, <1>11, <1>12, GivenBackNeat
<1>14. DOMAIN r = Fields /\ Stored(r) BY <1>13 DEF Neat, Stored
<1>15. /\ DOMAIN d = Fields /\ d.pages = r.pages /\ d.open = r.open /\ d.full = r.full
       /\ d.released = r.released /\ d.active = r.active /\ d.count = r.count
  BY <1>1, <1>14 DEF Fields
<1>16. Stored(d) BY <1>14, <1>15 DEF Stored
<1>17. SameStore(r, d) BY <1>15, <1>16 DEF SameStore
<1>18. Neat(d, {}) BY <1>13, <1>17, SameStoreNeat
<1> QED BY <1>18 DEF d

LEMMA LinksNeat ==
  ASSUME NEW c, Neat(c, {}), NEW m, NEW p
  PROVE  /\ Neat(Links(c, m, p).code, {})
         /\ \A g \in p.imports \cap Range(Exports) : Links(c, m, p).compiled[g] # NotCompiled
<1> DEFINE n == Len(Exports)
           g == CHOOSE g : LinkIter(c, m, p, n, g)
<1>1. n \in Nat BY ExportsAssumption DEF IsList
<1>2. Links(c, m, p).code = g[n] BY Zenon DEF Links, LinkIter
<1>3. ASSUME NEW f \in p.imports \cap Range(Exports) PROVE Links(c, m, p).compiled[f] # NotCompiled
  <2>1. f \in DOMAIN p.code \cup p.imports OBVIOUS
  <2>2. \E k, l : Links(c, m, p).compiled[f] = <<k, l>> BY <1>3, <2>1 DEF Links, PC
  <2> QED BY <2>2 DEF NotCompiled
<1>4. LinkIter(c, m, p, n, g) BY <1>1, LinkIterExists
<1> HIDE DEF n, g
<1> DEFINE T == {k \in Nat : k <= n => Neat(g[k], {})}
<1>5. 0 \in T
  <2>1. g[0] = c BY <1>1, <1>4 DEF LinkIter
  <2> QED BY <2>1
<1>6. ASSUME NEW k \in Nat, k \in T PROVE k + 1 \in T
  <2> SUFFICES ASSUME k + 1 <= n PROVE Neat(g[k + 1], {}) OBVIOUS
  <2>1. Neat(g[k], {}) BY <1>1, <1>6
  <2>2. k + 1 \in 0 .. n /\ k + 1 # 0 /\ k + 1 - 1 = k BY <1>1
  <2>3. g[k + 1] = LinkRawFunction(g[k], m, Exports[k + 1]) \/ g[k + 1] = g[k]
    <3> DEFINE j == k + 1
    <3>1. j \in 0 .. n /\ j # 0 /\ j - 1 = k BY <2>2
    <3> HIDE DEF j
    <3>2. g[j] = IF j = 0 THEN c
                 ELSE IF Exports[j] \in p.imports THEN LinkRawFunction(g[j - 1], m, Exports[j])
                 ELSE g[j - 1]
      BY <1>4, <3>1 DEF LinkIter
    <3>3. g[j] = LinkRawFunction(g[k], m, Exports[j]) \/ g[j] = g[k] BY <3>1, <3>2
    <3> QED BY <3>3 DEF j
  <2>4. Neat(LinkRawFunction(g[k], m, Exports[k + 1]), {}) BY <2>1, LinkedNeat
  <2> QED BY <2>1, <2>3, <2>4
<1>7. Nat \subseteq T
  <2> HIDE DEF T
  <2> QED BY <1>5, <1>6, Induction
<1>8. n \in T BY <1>1, <1>7
<1>9. Neat(g[n], {}) BY <1>1, <1>8
<1> QED BY <1>2, <1>3, <1>9

LEMMA PagesInvInit == Init => PagesInv
<1> SUFFICES ASSUME Init PROVE PagesInv OBVIOUS
<1>1. /\ modules = <<>> /\ code.pages = <<>> /\ code.open = <<>> /\ code.full = <<>>
      /\ code.released = <<>> /\ code.active = 0 /\ code.count = 0
  BY DEF Init
<1>2. DOMAIN <<>> = {} /\ Len(<<>>) = 0 /\ Distinct(<<>>) /\ Range(<<>>) = {}
  BY TupleSequences DEF Distinct, Range
<1>3. Stored(code) BY CodeInvInit DEF CodeInv
<1>4. Owned(code, {}) BY <1>1, <1>2 DEF Owned
<1>5. Fits(code) BY <1>1, <1>2 DEF Fits
<1>6. Counted(code) BY <1>1, <1>2 DEF Counted
<1> QED BY <1>1, <1>2, <1>3, <1>4, <1>5, <1>6 DEF PagesInv, Neat

LEMMA PagesLoad ==
  ASSUME {"stale", "lost"} \subseteq Avoid, CodeInv, PagesInv, NEW p \in Payload, LoadPatch(p)
  PROVE  PagesInv'
<1> DEFINE c == IF p.fails = "parse" \/ ~p.inits THEN code ELSE EvaluateExpression(code)
           n == Len(modules) + 1
           l == Links(c, n, p)
           m == [patch |-> p, compiled |-> l.compiled]
<1>1. Neat(c, {}) BY EvaluatedNeat DEF PagesInv
<1>2. IF p.fails = "never" THEN code' = l.code /\ modules' = Append(modules, m)
      ELSE code' = c /\ UNCHANGED modules
  BY DEF LoadPatch
<1>3. /\ ~LosesPage(p)
      /\ \A k \in DOMAIN modules : \A f \in DOMAIN modules[k].patch.code :
           modules[k].compiled[f] # NotCompiled
      /\ buffer' = IF p.fails = "never" THEN n ELSE 0
  BY DEF LoadPatch
<1> HIDE DEF c
<1>4. CASE p.fails # "never"
  <2>1. code' = c /\ modules' = modules BY <1>2, <1>4
  <2> QED BY <1>1, <1>3, <2>1 DEF PagesInv
<1>5. CASE p.fails = "never"
  <2>1. code' = l.code /\ modules' = Append(modules, m) /\ buffer' = n BY <1>2, <1>3, <1>5
  <2>2. IsSequence(modules) BY DEF CodeInv, ModulesInv
  <2>3. Len(modules) \in Nat /\ DOMAIN modules = 1 .. Len(modules) BY <2>2, SequenceDomain
  <2>4. Neat(l.code, {}) /\ \A g \in p.imports \cap Range(Exports) : l.compiled[g] # NotCompiled
    <3> HIDE DEF n
    <3> QED BY <1>1, LinksNeat
  <2>5. m.patch = p /\ m.compiled = l.compiled OBVIOUS
  <2> HIDE DEF l, m
  <2>6. /\ DOMAIN modules' = 1 .. n
        /\ \A k \in DOMAIN modules : modules'[k] = modules[k]
        /\ modules'[n] = m
    BY <2>1, <2>2, <2>3, AppendSequence
  <2>7. ASSUME NEW k \in DOMAIN modules'
        PROVE  /\ ~LosesPage(modules'[k].patch)
               /\ \A g \in modules'[k].patch.imports \cap Range(Exports) : modules'[k].compiled[g] # NotCompiled
               /\ \A f \in DOMAIN modules'[k].patch.code :
                    modules'[k].compiled[f] = NotCompiled => buffer' = k
    <3>1. k \in DOMAIN modules \/ k = n BY <2>3, <2>6
    <3>2. CASE k \in DOMAIN modules BY <1>3, <2>6, <3>2 DEF PagesInv
    <3>3. CASE k = n BY <1>3, <2>1, <2>4, <2>5, <2>6, <3>3
    <3> QED BY <3>1, <3>2, <3>3
  <2> QED BY <2>1, <2>4, <2>7 DEF PagesInv
<1> QED BY <1>4, <1>5

LEMMA PagesCompiled ==
  ASSUME CodeInv, PagesInv, NEW m \in DOMAIN modules, NEW f \in DOMAIN modules[m].patch.code,
         NEW pc, modules[m].compiled[f] # NotCompiled => pc # NotCompiled,
         Compiles(m, f, pc), Neat(code', {}), buffer' = buffer
  PROVE  PagesInv'
<1> DEFINE t == modules[m].compiled
           u == [t EXCEPT ![f] = pc]
           d == [modules[m] EXCEPT !.compiled = u]
<1>1. IsModule(modules[m]) BY DEF CodeInv, ModulesInv
<1>2. modules' = [modules EXCEPT ![m] = d] BY DEF Compiles
<1>3. d.patch = modules[m].patch /\ d.compiled = u BY <1>1 DEF IsModule
<1>4. f \in DOMAIN t /\ f \notin modules[m].patch.imports
  <2>1. modules[m].patch \in Payload /\ DOMAIN t = DOMAIN modules[m].patch.code \cup modules[m].patch.imports
    BY <1>1 DEF IsModule
  <2>2. DOMAIN modules[m].patch.code \cap modules[m].patch.imports = {}
    BY <2>1, PayloadAssumption DEF IsPayload
  <2> QED BY <2>1, <2>2
<1>5. u[f] = pc /\ \A g : g # f /\ g \in DOMAIN t => u[g] = t[g] BY <1>4
<1>6. DOMAIN t = DOMAIN modules[m].patch.code \cup modules[m].patch.imports BY <1>1 DEF IsModule
<1>7. /\ ~LosesPage(modules[m].patch)
      /\ \A g \in modules[m].patch.imports \cap Range(Exports) : t[g] # NotCompiled
      /\ \A g \in DOMAIN modules[m].patch.code : t[g] = NotCompiled => buffer = m
  BY DEF PagesInv
<1> HIDE DEF t, u, d
<1>8. /\ DOMAIN modules' = DOMAIN modules /\ modules'[m] = d
      /\ \A k \in DOMAIN modules \ {m} : modules'[k] = modules[k]
  BY <1>2
<1>9. ASSUME NEW k \in DOMAIN modules'
      PROVE  /\ ~LosesPage(modules'[k].patch)
             /\ \A g \in modules'[k].patch.imports \cap Range(Exports) : modules'[k].compiled[g] # NotCompiled
             /\ \A g \in DOMAIN modules'[k].patch.code :
                  modules'[k].compiled[g] = NotCompiled => buffer' = k
  <2>1. CASE k = m
    <3>1. modules'[k].patch = modules[m].patch /\ modules'[k].compiled = u BY <1>3, <1>8, <2>1
    <3>2. \A g \in modules[m].patch.imports \cap Range(Exports) : u[g] # NotCompiled
      BY <1>4, <1>5, <1>6, <1>7
    <3>3. \A g \in DOMAIN modules[m].patch.code : u[g] = NotCompiled => buffer' = m
      BY <1>5, <1>6, <1>7 DEF t
    <3> QED BY <1>7, <2>1, <3>1, <3>2, <3>3
  <2>2. CASE k # m
    <3>1. k \in DOMAIN modules /\ modules'[k] = modules[k] BY <1>8, <2>2
    <3> QED BY <3>1 DEF PagesInv
  <2> QED BY <2>1, <2>2
<1> QED BY <1>9 DEF PagesInv

\* Another word in the place of one takes no more room.
LEMMA RewrittenNeat ==
  ASSUME NEW c, Neat(c, {}), NEW d, NEW names, NEW k, NEW l, Rewritten(c, d, names, k, l)
  PROVE  Neat(d, {})
<1>1. /\ Stored(d) /\ d.open = c.open /\ d.full = c.full /\ d.released = c.released
      /\ d.count = c.count /\ d.active = c.active /\ DOMAIN d.pages = DOMAIN c.pages
      /\ \A j \in DOMAIN c.pages \ {k} : d.pages[j] = c.pages[j]
      /\ d.pages[k].lines = c.pages[k].lines /\ Len(d.pages[k].words) = Len(c.pages[k].words)
  BY DEF Rewritten
<1>2. \A j \in DOMAIN c.pages : FreeLines(d, j) = FreeLines(c, j) BY <1>1 DEF FreeLines
<1>3. Owned(d, {}) BY <1>1 DEF Owned, Neat
<1>4. Fits(d) BY <1>1, <1>2 DEF Fits, Neat
<1>5. Counted(d) BY <1>1 DEF Counted, Neat
<1> QED BY <1>1, <1>3, <1>4, <1>5 DEF Neat

LEMMA PagesAddressed ==
  ASSUME CodeInv, PagesInv, NEW m \in DOMAIN modules, NEW f \in DOMAIN modules[m].patch.code,
         NEW r \in Addresses(m, f), code' = r.code, Compiles(m, f, r.pc), buffer' = buffer
  PROVE  PagesInv'
<1>1. Neat(r.code, {}) /\ (modules[m].compiled[f] # NotCompiled => r.pc # NotCompiled)
  BY AddressNeat
<1> DEFINE pc == r.pc
<1>2. /\ modules[m].compiled[f] # NotCompiled => pc # NotCompiled
      /\ Compiles(m, f, pc) /\ Neat(code', {})
  BY <1>1
<1> HIDE DEF pc
<1> QED BY <1>2, PagesCompiled

LEMMA PagesCall ==
  ASSUME CodeInv, PagesInv, NEW f, CallFunction(f)
  PROVE  PagesInv'
<1> DEFINE m == FindFunction(f)
<1>1. /\ m # 0 /\ buffer' = buffer
      /\ \E r \in Addresses(m, f) : code' = r.code /\ Compiles(m, f, r.pc)
  BY DEF CallFunction, Compiles
<1>2. m \in DOMAIN modules /\ f \in DOMAIN modules[m].patch.code BY <1>1, FoundFunction
<1> HIDE DEF m
<1> QED BY <1>1, <1>2, PagesAddressed

LEMMA PagesIndirect ==
  ASSUME CodeInv, PagesInv, CallIndirect
  PROVE  PagesInv'
<1> DEFINE m == Word(Top.pc).of[1]
<1>1. m \in DOMAIN modules BY RunningWord DEF CallIndirect
<1>2. /\ buffer' = buffer
      /\ \/ UNCHANGED <<code, modules>>
         \/ \E f \in modules[m].patch.table : \E r \in Addresses(m, f) :
              code' = r.code /\ Compiles(m, f, r.pc)
  BY DEF CallIndirect, Compiles
<1> HIDE DEF m
<1>3. modules[m].patch.table \subseteq DOMAIN modules[m].patch.code
  BY <1>1, PayloadAssumption DEF CodeInv, ModulesInv, IsModule, IsPayload
<1>4. CASE UNCHANGED <<code, modules>> BY <1>2, <1>4 DEF PagesInv
<1> QED BY <1>1, <1>2, <1>3, <1>4, PagesAddressed

LEMMA PagesCompile ==
  ASSUME CodeInv, PagesInv, Compile
  PROVE  PagesInv'
<1> DEFINE names == NamesOf(modules)
<1>1. PICK m, f, r, k, l, d : SiteCompiled(m, f, r, k, l, d) BY SiteCompiles
<1> DEFINE pc == r.pc
<1>2. /\ m \in DOMAIN modules /\ f \in DOMAIN modules[m].patch.code /\ Compiles(m, f, pc)
      /\ r \in Addresses(m, f) /\ Rewritten(r.code, d, names, k, l)
      /\ code' = d \/ Rewritten(d, code', names, k, l + 1)
  BY <1>1 DEF SiteCompiled
<1>3. buffer' = buffer BY DEF Compile
<1>4. Neat(r.code, {}) /\ (modules[m].compiled[f] # NotCompiled => pc # NotCompiled)
  BY <1>2, AddressNeat
<1> DEFINE c == r.code
<1> HIDE DEF names, c, pc
<1>5. Neat(d, {})
  <2>1. Neat(c, {}) /\ Rewritten(c, d, names, k, l) BY <1>2, <1>4 DEF c
  <2> QED BY <2>1, RewrittenNeat
<1>6. Neat(code', {})
  <2>1. CASE code' = d BY <1>5, <2>1
  <2>2. CASE Rewritten(d, code', names, k, l + 1) BY <1>5, <2>2, RewrittenNeat
  <2> QED BY <1>2, <2>1, <2>2
<1> QED BY <1>2, <1>3, <1>4, <1>6, PagesCompiled

LEMMA PagesReset ==
  ASSUME CodeInv, Reset
  PROVE  PagesInv'
<1> DEFINE c == Cleared(code)
           d == [c EXCEPT !.pages = <<>>, !.open = <<>>, !.full = <<>>, !.released = <<>>,
                          !.count = 0, !.active = 0]
<1>1. code' = d /\ modules' = <<>> BY DEF Reset
<1>2. DOMAIN c = Fields BY ClearedCode DEF CodeInv, Stored
<1> HIDE DEF c
<1>3. /\ d.pages = <<>> /\ d.open = <<>> /\ d.full = <<>> /\ d.released = <<>>
      /\ d.count = 0 /\ d.active = 0
  BY <1>2 DEF Fields
<1> HIDE DEF d
<1>4. Stored(d) BY <1>1, CodeReset DEF CodeInv
<1>5. DOMAIN <<>> = {} /\ Len(<<>>) = 0 /\ Distinct(<<>>) /\ Range(<<>>) = {}
  BY TupleSequences DEF Distinct, Range
<1>6. Owned(d, {}) BY <1>3, <1>5 DEF Owned
<1>7. Fits(d) BY <1>3, <1>5 DEF Fits
<1>8. Counted(d) BY <1>3, <1>5 DEF Counted
<1>9. Neat(d, {}) BY <1>4, <1>6, <1>7, <1>8 DEF Neat
<1> QED BY <1>1, <1>5, <1>9 DEF PagesInv

LEMMA PagesStep ==
  ASSUME {"stale", "lost"} \subseteq Avoid, CodeInv, PagesInv, [Next]_vars
  PROVE  PagesInv'
<1>1. CASE \E p \in Payload : LoadPatch(p) BY <1>1, PagesLoad
<1>2. CASE \E f \in Names : CallFunction(f) BY <1>2, PagesCall
<1>3. CASE Compile BY <1>3, PagesCompile
<1>4. CASE CallIndirect BY <1>4, PagesIndirect
<1>5. CASE Reset BY <1>5, PagesReset
<1>6. CASE \/ Entry \/ Op \/ MemGrow \/ Unreachable \/ Branch \/ BranchIf \/ BranchTable
           \/ Loop \/ ContinueLoop \/ ContinueLoopIf \/ Call \/ Return \/ UNCHANGED vars
  <2>1. UNCHANGED <<code, modules, buffer>>
    BY <1>6 DEF Entry, Op, MemGrow, Unreachable, Branch, BranchIf, BranchTable, Loop, ContinueLoop,
                ContinueLoopIf, Call, Return, Goto, Continue, vars
  <2> QED BY <2>1 DEF PagesInv
<1> QED BY <1>1, <1>2, <1>3, <1>4, <1>5, <1>6 DEF Next, Bridge, Run

LEMMA NeatOwnedOnce ==
  ASSUME Neat(code, {})
  PROVE  PagesOwnedOnce
<1> DEFINE o == code.open
           f == code.full
           r == code.released
           s == o \o f
           t == s \o r
<1>1. Stored(code) /\ Owned(code, {}) /\ Fits(code) /\ Counted(code) BY DEF Neat
<1>2. IsSequence(o) /\ IsSequence(f) /\ IsSequence(r) BY <1>1 DEF Stored, IsSequence
<1>3. /\ Distinct(o) /\ Distinct(f) /\ Distinct(r) /\ Range(o) \cap Range(f) = {}
      /\ Range(o) \cap Range(r) = {} /\ Range(f) \cap Range(r) = {}
      /\ DOMAIN code.pages = Range(o) \cup Range(f) \cup Range(r)
  BY <1>1 DEF Owned
<1>4. code.open \o code.full \o code.released = t OBVIOUS
<1> HIDE DEF o, f, r
<1>5. IsSequence(s) /\ Distinct(s) /\ Range(s) = Range(o) \cup Range(f)
  BY <1>2, <1>3, DistinctConcat
<1> HIDE DEF s
<1>6. Range(s) \cap Range(r) = {} BY <1>3, <1>5
<1>7. Distinct(t) /\ Range(t) = Range(s) \cup Range(r) BY <1>2, <1>3, <1>5, <1>6, DistinctConcat
<1> HIDE DEF t
<1>8. ASSUME NEW k \in DOMAIN code.pages
      PROVE  Cardinality({i \in DOMAIN t : t[i] = k}) = 1
  <2>1. k \in Range(t) BY <1>3, <1>5, <1>7
  <2>2. PICK j \in DOMAIN t : t[j] = k BY <2>1 DEF Range
  <2>3. \A i \in DOMAIN t : t[i] = k => i = j BY <1>7, <2>2 DEF Distinct
  <2>4. {i \in DOMAIN t : t[i] = k} = {j} BY <2>2, <2>3
  <2> QED BY <2>4, FS_Singleton
<1> QED BY <1>1, <1>4, <1>8 DEF PagesOwnedOnce, Fits, Counted

\* A page of code is in one of the lists of the runtime and its environment, once, no matter
\* how compilations bridge, part and fail (AcquireCodePageWithCapacity and ReleaseCodePage,
\* m3_env.c), the runtime's count is that of its pages, and no operation is written behind the
\* end of one (EnsureCodePageNumLines, m3_emit.c): provided that no patch is loaded over
\* functions that are not compiled yet, and none calls an import behind an else that the
\* bridge does not link.
THEOREM PagesOwned ==
  ASSUME {"stale", "lost"} \subseteq Avoid
  PROVE  Spec => []PagesOwnedOnce
<1>1. Init => CodeInv /\ PagesInv BY CodeInvInit, PagesInvInit
<1>2. CodeInv /\ PagesInv /\ [Next]_vars => (CodeInv /\ PagesInv)' BY CodeStep, CodeReset, PagesStep
<1>3. PagesInv => PagesOwnedOnce BY NeatOwnedOnce DEF PagesInv
<1> QED BY <1>1, <1>2, <1>3, PTL DEF Spec
===============================================================================
