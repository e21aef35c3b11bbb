-------------------------- MODULE WasmRuntime_proofs ---------------------------
(***************************************************************************)
(* Proofs about the interpreter's pages of code and the functions that run *)
(* on them: for any patches, any number of lines in a page, any depth of   *)
(* calls.                                                                  *)
(***************************************************************************)
EXTENDS WasmRuntime, WellFoundedInduction, TLAPS

-------------------------------------------------------------------------------
(* Induction, with a set in the place of a predicate                         *)

LEMMA LeastOf ==
  ASSUME NEW T \in SUBSET Nat, T # {}
  PROVE  \E n \in T : \A m \in T : ~(m < n)
<1> DEFINE R == {ss \in Nat \X Nat : ss[1] < ss[2]}
<1>1. IsWellFoundedOn(R, Nat) BY NatLessThanWellFounded DEF OpToRel
<1>2. \E n \in T : \A m \in T : ~(<<m, n>> \in R)
  <2> HIDE DEF R
  <2> QED BY <1>1, WFMin
<1>3. \A m, n \in Nat : m < n => <<m, n>> \in R OBVIOUS
<1> QED BY <1>2, <1>3

LEMMA Induction ==
  ASSUME NEW T, 0 \in T, \A n \in Nat : n \in T => n + 1 \in T
  PROVE  Nat \subseteq T
<1> SUFFICES ASSUME ~(Nat \subseteq T) PROVE FALSE OBVIOUS
<1> DEFINE B == {n \in Nat : n \notin T}
<1>1. PICK n \in B : \A m \in B : ~(m < n)
  <2>1. B \in SUBSET Nat /\ B # {} OBVIOUS
  <2> QED BY <2>1, LeastOf
<1>2. n # 0 OBVIOUS
<1>3. n - 1 \in Nat /\ n - 1 \notin B BY <1>1, <1>2
<1> QED BY <1>3

-------------------------------------------------------------------------------
(* Sequences, whatever is in them                                            *)

IsSequence(s) == \E S : s \in Seq(S)

LEMMA SequenceOfLength ==
  ASSUME NEW n \in Nat, NEW S, NEW f \in [1 .. n -> S]
  PROVE  f \in Seq(S) /\ Len(f) = n
<1>1. f \in Seq(S) OBVIOUS
<1>2. 1 .. Len(f) = 1 .. n BY <1>1
<1>3. Len(f) \in Nat BY <1>1
<1>4. ~(Len(f) < n) /\ ~(n < Len(f))
  <2>1. ~(Len(f) < n) BY <1>2, <1>3, n \in 1 .. n \/ n = 0
  <2>2. ~(n < Len(f)) BY <1>2, <1>3, Len(f) \in 1 .. Len(f) \/ Len(f) = 0
  <2> QED BY <2>1, <2>2
<1> QED BY <1>1, <1>3, <1>4

LEMMA SequenceDomain ==
  ASSUME NEW s, IsSequence(s)
  PROVE  Len(s) \in Nat /\ DOMAIN s = 1 .. Len(s)
BY DEF IsSequence

LEMMA ConcatSequence ==
  ASSUME NEW s, IsSequence(s), NEW t, IsSequence(t)
  PROVE  /\ IsSequence(s \o t)
         /\ Len(s \o t) = Len(s) + Len(t)
         /\ DOMAIN (s \o t) = 1 .. Len(s) + Len(t)
         /\ \A l \in 1 .. Len(s) : (s \o t)[l] = s[l]
         /\ \A l \in 1 .. Len(t) : (s \o t)[Len(s) + l] = t[l]
<1>1. PICK S : s \in Seq(S) BY DEF IsSequence
<1>2. PICK T : t \in Seq(T) BY DEF IsSequence
<1>3. s \in Seq(S \cup T) /\ t \in Seq(S \cup T) BY <1>1, <1>2
<1>4. s \o t \in Seq(S \cup T) BY <1>3
<1>5. IsSequence(s \o t) BY <1>4 DEF IsSequence
<1> QED BY <1>3, <1>5

\* u is s and, behind it, t.
Joined(s, t, u) ==
  /\ IsSequence(u) /\ Len(u) = Len(s) + Len(t) /\ DOMAIN u = 1 .. Len(s) + Len(t)
  /\ \A l \in 1 .. Len(s) : u[l] = s[l]
  /\ \A l \in 1 .. Len(t) : u[Len(s) + l] = t[l]

LEMMA JoinedSequence ==
  ASSUME NEW s, IsSequence(s), NEW t, IsSequence(t)
  PROVE  Joined(s, t, s \o t)
BY ConcatSequence DEF Joined

LEMMA ExceptSequence ==
  ASSUME NEW s, IsSequence(s), NEW k, NEW x
  PROVE  /\ IsSequence([s EXCEPT ![k] = x])
         /\ Len([s EXCEPT ![k] = x]) = Len(s)
         /\ DOMAIN [s EXCEPT ![k] = x] = DOMAIN s
<1>1. PICK S : s \in Seq(S) BY DEF IsSequence
<1>2. s \in [1 .. Len(s) -> S] BY <1>1
<1>3. [s EXCEPT ![k] = x] \in [1 .. Len(s) -> S \cup {x}] BY <1>2
<1>4. [s EXCEPT ![k] = x] \in Seq(S \cup {x}) BY <1>1, <1>3, SequenceOfLength
<1>5. Len([s EXCEPT ![k] = x]) = Len(s) BY <1>1, <1>3, SequenceOfLength
<1> QED BY <1>4, <1>5 DEF IsSequence

LEMMA AppendSequence ==
  ASSUME NEW s, IsSequence(s), NEW x
  PROVE  /\ IsSequence(Append(s, x))
         /\ Len(Append(s, x)) = Len(s) + 1
         /\ DOMAIN Append(s, x) = 1 .. Len(s) + 1
         /\ \A l \in 1 .. Len(s) : Append(s, x)[l] = s[l]
         /\ Append(s, x)[Len(s) + 1] = x
<1>1. PICK S : s \in Seq(S) BY DEF IsSequence
<1>2. s \in Seq(S \cup {x}) BY <1>1
<1>3. Append(s, x) \in Seq(S \cup {x}) BY <1>2
<1> QED BY <1>2, <1>3 DEF IsSequence

LEMMA TupleSequences ==
  /\ IsSequence(<<>>) /\ Len(<<>>) = 0
  /\ \A a : IsSequence(<<a>>) /\ Len(<<a>>) = 1 /\ <<a>>[1] = a
  /\ \A a, b : IsSequence(<<a, b>>) /\ Len(<<a, b>>) = 2 /\ <<a, b>>[1] = a /\ <<a, b>>[2] = b
<1>1. <<>> \in Seq({}) OBVIOUS
<1>2. ASSUME NEW a PROVE <<a>> \in Seq({a}) OBVIOUS
<1>3. ASSUME NEW a, NEW b PROVE <<a, b>> \in Seq({a, b}) OBVIOUS
<1> QED BY <1>1, <1>2, <1>3 DEF IsSequence

LEMMA FunctionSequence ==
  ASSUME NEW n \in Nat, NEW f, f = [l \in 1 .. n |-> f[l]]
  PROVE  IsSequence(f) /\ Len(f) = n
<1> DEFINE S == {f[l] : l \in 1 .. n}
<1>1. f \in [1 .. n -> S] OBVIOUS
<1> QED BY <1>1, SequenceOfLength DEF IsSequence

LEMMA SubSequence ==
  ASSUME NEW S, NEW s \in Seq(S), NEW m \in 1 .. Len(s) + 1, NEW n \in 0 .. Len(s)
  PROVE  /\ SubSeq(s, m, n) \in Seq(S)
         /\ Len(SubSeq(s, m, n)) = IF m <= n THEN n - m + 1 ELSE 0
         /\ \A l \in 1 .. Len(SubSeq(s, m, n)) : SubSeq(s, m, n)[l] = s[m + l - 1]
<1>1. SubSeq(s, m, n) \in Seq(S)
  <2>1. \A l \in m .. n : s[l] \in S OBVIOUS
  <2> QED BY <2>1
<1>2. Len(SubSeq(s, m, n)) = IF m <= n THEN n - m + 1 ELSE 0 OBVIOUS
<1>3. \A l \in 1 .. Len(SubSeq(s, m, n)) : SubSeq(s, m, n)[l] = s[m + l - 1] BY <1>2
<1> QED BY <1>1, <1>2, <1>3

-------------------------------------------------------------------------------
(* The first and the last of a sequence with a property                      *)

LEMMA SmallestIsMin ==
  ASSUME NEW I \in SUBSET Nat, I # {}
  PROVE  Min(I) \in I /\ \A i \in I : Min(I) <= i
<1>1. PICK n \in I : \A m \in I : ~(m < n) BY LeastOf
<1>2. \A m \in I : n =< m BY <1>1
<1> QED BY <1>2 DEF Min

LEMMA LargestIsMax ==
  ASSUME NEW n \in Nat, NEW I \in SUBSET (0 .. n), I # {}
  PROVE  Max(I) \in I /\ \A i \in I : i <= Max(I)
<1> DEFINE B == {n - i : i \in I}
<1>1. B \in SUBSET Nat /\ B # {}
  <2>1. \A i \in I : i \in 0 .. n /\ n - i \in Nat OBVIOUS
  <2>2. PICK i \in I : TRUE OBVIOUS
  <2>3. n - i \in B OBVIOUS
  <2> QED BY <2>1, <2>3
<1>2. PICK b \in B : \A m \in B : ~(m < b)
  <2> HIDE DEF B
  <2> QED BY <1>1, LeastOf
<1>3. PICK i \in I : b = n - i BY <1>2
<1>4. \A j \in I : i >= j
  <2> SUFFICES ASSUME NEW j \in I PROVE i >= j OBVIOUS
  <2>1. n - j \in B OBVIOUS
  <2>2. ~(n - j < n - i) BY <1>2, <1>3, <2>1
  <2> QED BY <2>2
<1> QED BY <1>4 DEF Max

-------------------------------------------------------------------------------
(* The code, whatever version of it                                          *)

Fields == {"pages", "open", "full", "released", "count", "active", "page", "of", "heads",
           "patches", "saved", "failed"}

IsPage(p) == DOMAIN p = {"lines", "words"} /\ p.lines \in Nat /\ IsSequence(p.words)

\* Pages, and lists of them.
Stored(c) ==
  /\ DOMAIN c = Fields
  /\ IsSequence(c.pages)
  /\ \A k \in DOMAIN c.pages : IsPage(c.pages[k])
  /\ c.open \in Seq(DOMAIN c.pages)
  /\ c.full \in Seq(DOMAIN c.pages)
  /\ c.released \in Seq(DOMAIN c.pages)

\* An operation is of a module there is, and behind one that compiles a function is which.
\* names[m] is the set of the functions of module m that have code.
Named(words, names, l) ==
  "op" \in DOMAIN words[l] =>
    /\ "func" \notin DOMAIN words[l] /\ words[l].of[1] \in DOMAIN names
    /\ words[l].op = "Compile" =>
         /\ l + 1 \in DOMAIN words /\ "func" \in DOMAIN words[l + 1]
         /\ words[l + 1].func \in names[words[l].of[1]]

WellNamed(words, names) == \A l \in DOMAIN words : Named(words, names, l)

AllNamed(c, names) == \A k \in DOMAIN c.pages : WellNamed(c.pages[k].words, names)

\* The words of b are words of c, where they were.
Kept(b, c) ==
  \A k \in DOMAIN b.pages :
    /\ k \in DOMAIN c.pages
    /\ \A l \in DOMAIN b.pages[k].words :
         l \in DOMAIN c.pages[k].words /\ c.pages[k].words[l] = b.pages[k].words[l]

\* The code d is well written and has the words of b.
Written(b, d, names) == Stored(d) /\ AllNamed(d, names) /\ Kept(b, d)

\* A word that is to become an address is an operand that was written since b.
Fresh(b, c, p) ==
  /\ p[1] \in DOMAIN c.pages /\ p[2] \in DOMAIN c.pages[p[1]].words
  /\ DOMAIN c.pages[p[1]].words[p[2]] = {"to"}
  /\ ~(p[1] \in DOMAIN b.pages /\ p[2] \in DOMAIN b.pages[p[1]].words)

\* Code is being written since it was b.
Working(b, c, names) ==
  /\ Stored(c) /\ AllNamed(c, names) /\ Kept(b, c)
  /\ c.of = b.of
  /\ \A p \in c.patches : Fresh(b, c, p)
  /\ IsSequence(c.saved) /\ \A i \in DOMAIN c.saved : c.saved[i].page \in DOMAIN c.pages

\* It is that of a function of a module of `names`.
Building(b, c, names) ==
  Working(b, c, names) /\ c.page \in DOMAIN c.pages /\ b.of[1] \in DOMAIN names

Emitted(c, k, words) == [c EXCEPT !.pages[k].words = @ \o words]

\* Apart from the pages and the lists of them.
SameWork(c, d) ==
  /\ d.of = c.of /\ d.heads = c.heads /\ d.patches = c.patches
  /\ d.saved = c.saved /\ d.failed = c.failed

\* The same work, on the same pages and perhaps more.
Resumed(c, d) == SameWork(c, d) /\ DOMAIN c.pages \subseteq DOMAIN d.pages

LEMMA EmittedCode ==
  ASSUME NEW c, Stored(c), NEW k \in DOMAIN c.pages, NEW words, IsSequence(words)
  PROVE  LET d == Emitted(c, k, words)
         IN /\ Stored(d) /\ SameWork(c, d)
            /\ d.page = c.page /\ d.open = c.open /\ d.full = c.full /\ d.released = c.released
            /\ d.count = c.count /\ d.active = c.active
            /\ DOMAIN d.pages = DOMAIN c.pages
            /\ \A j \in DOMAIN c.pages \ {k} : d.pages[j] = c.pages[j]
            /\ d.pages[k].lines = c.pages[k].lines
            /\ d.pages[k].words = c.pages[k].words \o words
<1> DEFINE d == Emitted(c, k, words)
           p == [c.pages[k] EXCEPT !.words = c.pages[k].words \o words]
<1>1. d = [c EXCEPT !.pages = [c.pages EXCEPT ![k] = p]] BY Zenon DEF Emitted
<1>2. DOMAIN c = Fields /\ IsPage(c.pages[k]) BY DEF Stored
<1>3. d.pages = [c.pages EXCEPT ![k] = p] /\ DOMAIN d = Fields BY <1>1, <1>2 DEF Fields
<1>4. /\ d.page = c.page /\ d.open = c.open /\ d.full = c.full /\ d.released = c.released
      /\ d.count = c.count /\ d.active = c.active /\ SameWork(c, d)
  BY <1>1, <1>2 DEF Fields, SameWork
<1>5. IsSequence(c.pages[k].words \o words) BY <1>2, ConcatSequence DEF IsPage
<1>6. IsPage(p) /\ p.lines = c.pages[k].lines /\ p.words = c.pages[k].words \o words
  BY <1>2, <1>5 DEF IsPage
<1>7. IsSequence(d.pages) /\ DOMAIN d.pages = DOMAIN c.pages
  <2> HIDE DEF d, p
  <2>1. IsSequence(c.pages) BY DEF Stored
  <2> DEFINE e == [c.pages EXCEPT ![k] = p]
  <2>2. IsSequence(e) /\ DOMAIN e = DOMAIN c.pages BY ONLY <2>1, ExceptSequence
  <2>3. d.pages = e BY <1>3
  <2> QED BY <2>2, <2>3
<1>8. d.pages[k] = p /\ \A j \in DOMAIN c.pages \ {k} : d.pages[j] = c.pages[j]
  <2> HIDE DEF d, p
  <2> QED BY <1>3
<1>9. Stored(d)
  <2> HIDE DEF d, p
  <2>1. \A j \in DOMAIN d.pages : IsPage(d.pages[j]) BY <1>6, <1>7, <1>8 DEF Stored
  <2> QED BY <2>1, <1>3, <1>4, <1>7 DEF Stored
<1> HIDE DEF d, p
<1>10. Emitted(c, k, words) = d BY DEF d
<1> QED BY <1>4, <1>6, <1>7, <1>8, <1>9, <1>10

LEMMA ConcatNamed ==
  ASSUME NEW s, IsSequence(s), NEW t, IsSequence(t), NEW names, WellNamed(s, names), WellNamed(t, names)
  PROVE  WellNamed(s \o t, names)
<1> SUFFICES ASSUME NEW l \in DOMAIN (s \o t) PROVE Named(s \o t, names, l) BY DEF WellNamed
<1>1. /\ Len(s) \in Nat /\ DOMAIN s = 1 .. Len(s)
      /\ Len(t) \in Nat /\ DOMAIN t = 1 .. Len(t) BY SequenceDomain
<1>2. DOMAIN (s \o t) = 1 .. Len(s) + Len(t) BY ConcatSequence
<1>3. CASE l <= Len(s)
  <2>1. l \in DOMAIN s /\ (s \o t)[l] = s[l] BY <1>1, <1>2, <1>3, ConcatSequence
  <2>2. Named(s, names, l) BY <2>1 DEF WellNamed
  <2>3. l + 1 \in DOMAIN s => l + 1 \in DOMAIN (s \o t) /\ (s \o t)[l + 1] = s[l + 1]
    BY <1>1, <1>2, ConcatSequence
  <2> QED BY <2>1, <2>2, <2>3 DEF Named
<1>4. CASE ~(l <= Len(s))
  <2> DEFINE i == l - Len(s)
  <2>1. i \in DOMAIN t /\ l = Len(s) + i BY <1>1, <1>2, <1>4
  <2>2. (s \o t)[l] = t[i] BY <1>1, <2>1, ConcatSequence
  <2>3. Named(t, names, i) BY <2>1 DEF WellNamed
  <2>4. i + 1 \in DOMAIN t => l + 1 \in DOMAIN (s \o t) /\ (s \o t)[l + 1] = t[i + 1]
    <3> SUFFICES ASSUME i + 1 \in DOMAIN t
                 PROVE  l + 1 \in DOMAIN (s \o t) /\ (s \o t)[l + 1] = t[i + 1] OBVIOUS
    <3>1. i + 1 \in 1 .. Len(t) /\ l + 1 = Len(s) + (i + 1) /\ l + 1 \in 1 .. Len(s) + Len(t)
      BY <1>1, <1>2, <2>1
    <3> HIDE DEF i
    <3> QED BY <1>2, <3>1, ConcatSequence
  <2> HIDE DEF i
  <2> QED BY <2>2, <2>3, <2>4 DEF Named
<1> QED BY <1>3, <1>4

\* What is written behind the words there are was not there before.
LEMMA EmittedWritten ==
  ASSUME NEW c, NEW names, Stored(c), AllNamed(c, names), NEW k \in DOMAIN c.pages,
         NEW words, IsSequence(words), WellNamed(words, names)
  PROVE  Written(c, Emitted(c, k, words), names)
<1> DEFINE d == Emitted(c, k, words)
<1>2. /\ Stored(d) /\ DOMAIN d.pages = DOMAIN c.pages
      /\ \A j \in DOMAIN c.pages \ {k} : d.pages[j] = c.pages[j]
      /\ d.pages[k].words = c.pages[k].words \o words
  BY EmittedCode
<1> HIDE DEF d
<1>3. \A j \in DOMAIN c.pages : IsSequence(c.pages[j].words) BY DEF Stored, IsPage
<1>4. AllNamed(d, names)
  <2>1. WellNamed(d.pages[k].words, names) BY <1>2, <1>3, ConcatNamed DEF AllNamed
  <2> QED BY <1>2, <2>1 DEF AllNamed
<1>5. Kept(c, d)
  <2> DEFINE s == c.pages[k].words
  <2>1. IsSequence(s) /\ d.pages[k].words = s \o words BY <1>2, <1>3
  <2> HIDE DEF s
  <2>2. Len(s) \in Nat /\ DOMAIN s = 1 .. Len(s) /\ Len(words) \in Nat BY <2>1, SequenceDomain
  <2>3. \A l \in DOMAIN s : l \in DOMAIN (s \o words) /\ (s \o words)[l] = s[l]
    BY <2>1, <2>2, ConcatSequence
  <2> QED BY <1>2, <2>1, <2>3 DEF Kept, s
<1> QED BY <1>2, <1>4, <1>5 DEF Written, d

LEMMA EmittedWorking ==
  ASSUME NEW b, NEW c, NEW names, Working(b, c, names), NEW k \in DOMAIN c.pages,
         NEW words, IsSequence(words), WellNamed(words, names)
  PROVE  Working(b, Emitted(c, k, words), names)
<1> DEFINE d == Emitted(c, k, words)
<1>1. Stored(c) BY DEF Working
<1>2. SameWork(c, d) /\ DOMAIN d.pages = DOMAIN c.pages BY <1>1, EmittedCode
<1>3. Written(c, d, names) BY EmittedWritten DEF Working
<1> HIDE DEF d
<1>4. Kept(c, d) /\ Stored(d) /\ AllNamed(d, names) BY <1>3 DEF Written
<1>5. Kept(b, d) BY <1>4 DEF Kept, Working
<1>6. \A p \in d.patches : Fresh(b, d, p) BY <1>2, <1>4 DEF SameWork, Working, Fresh, Kept
<1> QED BY <1>2, <1>4, <1>5, <1>6 DEF Working, SameWork, d

LEMMA EmittedWords ==
  ASSUME NEW c, Stored(c), NEW k \in DOMAIN c.pages, NEW words, IsSequence(words)
  PROVE  Joined(c.pages[k].words, words, Emitted(c, k, words).pages[k].words)
<1>1. Emitted(c, k, words).pages[k].words = c.pages[k].words \o words BY EmittedCode
<1>2. IsSequence(c.pages[k].words) BY DEF Stored, IsPage
<1> QED BY <1>1, <1>2, JoinedSequence

-------------------------------------------------------------------------------
(* Taking pages and giving them back                                         *)

LEMMA NewPageFits ==
  ASSUME NEW n \in Nat
  PROVE  IsPage(NewPage(n)) /\ NewPage(n).words = <<>> /\ NewPage(n).lines >= n
<1> DEFINE q == (n + Lines - 1) \div Lines
<1>1. Lines \in Nat /\ Lines > 0 BY LinesAssumption
<1>2. q \in Nat /\ Lines * q >= n /\ Lines * q \in Nat
  <2>1. n + Lines - 1 \in Nat BY <1>1
  <2>2. q \in Int /\ Lines * q <= n + Lines - 1 /\ n + Lines - 1 < Lines * q + Lines BY <1>1, <2>1
  <2> QED BY <1>1, <2>1, <2>2
<1>3. IsSequence(<<>>) BY TupleSequences
<1> QED BY <1>2, <1>3 DEF NewPage, IsPage

LEMMA WithoutOne ==
  ASSUME NEW S, NEW s \in Seq(S), NEW i \in 1 .. Len(s)
  PROVE  /\ RemoveAt(s, i) \in Seq(S) /\ Len(RemoveAt(s, i)) = Len(s) - 1
         /\ \A l \in 1 .. Len(s) - 1 :
              RemoveAt(s, i)[l] = IF l < i THEN s[l] ELSE s[l + 1]
<1> DEFINE a == SubSeq(s, 1, i - 1)
           z == SubSeq(s, i + 1, Len(s))
<1>1. /\ a \in Seq(S) /\ Len(a) = i - 1
      /\ \A l \in 1 .. Len(a) : a[l] = s[l]
  <2>1. 1 \in 1 .. Len(s) + 1 /\ i - 1 \in 0 .. Len(s) OBVIOUS
  <2>2. i - 1 - 1 + 1 = i - 1 OBVIOUS
  <2>3. \A l \in 1 .. i - 1 : 1 + l - 1 = l OBVIOUS
  <2> QED BY <2>1, <2>2, <2>3, SubSequence
<1>2. /\ z \in Seq(S) /\ Len(z) = Len(s) - i
      /\ \A l \in 1 .. Len(z) : z[l] = s[i + l]
  <2>1. i + 1 \in 1 .. Len(s) + 1 /\ Len(s) \in 0 .. Len(s) OBVIOUS
  <2>2. \A l \in 1 .. Len(s) - i : (i + 1) + l - 1 = i + l OBVIOUS
  <2> QED BY <2>1, <2>2, SubSequence
<1> HIDE DEF a, z
<1>3. a \o z \in Seq(S) /\ Len(a \o z) = Len(s) - 1
  <2>1. a \o z \in Seq(S) BY <1>1, <1>2
  <2>2. IsSequence(a) /\ IsSequence(z) BY <1>1, <1>2 DEF IsSequence
  <2>3. Len(a \o z) = Len(a) + Len(z) BY <2>2, ConcatSequence
  <2> QED BY <1>1, <1>2, <2>1, <2>3
<1>4. \A l \in 1 .. Len(s) - 1 : (a \o z)[l] = IF l < i THEN s[l] ELSE s[l + 1]
  <2> SUFFICES ASSUME NEW l \in 1 .. Len(s) - 1
               PROVE  (a \o z)[l] = IF l < i THEN s[l] ELSE s[l + 1] OBVIOUS
  <2>1. (a \o z)[l] = IF l <= Len(a) THEN a[l] ELSE z[l - Len(a)] BY <1>1, <1>2
  <2>2. CASE l < i BY <1>1, <2>1, <2>2
  <2>3. CASE ~(l < i)
    <3>1. l - Len(a) \in 1 .. Len(z) /\ i + (l - Len(a)) = l + 1 BY <1>1, <1>2, <2>3
    <3> QED BY <1>1, <1>2, <2>1, <2>3, <3>1
  <2> QED BY <2>2, <2>3
<1>5. RemoveAt(s, i) = a \o z BY DEF RemoveAt, a, z
<1> QED BY <1>3, <1>4, <1>5

LEMMA FirstHasCapacity ==
  ASSUME NEW c, NEW list, IsSequence(list), NEW n, FirstOfCapacity(c, list, n) # 0
  PROVE  /\ FirstOfCapacity(c, list, n) \in 1 .. Len(list)
         /\ FreeLines(c, list[FirstOfCapacity(c, list, n)]) >= n
<1> DEFINE I == {i \in 1 .. Len(list) : FreeLines(c, list[i]) >= n}
<1>1. FirstOfCapacity(c, list, n) = IF I # {} THEN Min(I) ELSE 0
  BY DEF FirstOfCapacity, SelectInSeq
<1>2. Len(list) \in Nat BY SequenceDomain
<1>3. I \in SUBSET Nat BY <1>2
<1>4. I # {} /\ FirstOfCapacity(c, list, n) = Min(I) BY <1>1
<1>5. Min(I) \in I
  <2> HIDE DEF I
  <2> QED BY <1>3, <1>4, SmallestIsMin
<1> QED BY <1>4, <1>5

\* d is c with a page taken that has room for n words.
Taken(c, d, n) ==
  /\ Stored(d) /\ SameWork(c, d)
  /\ d.active = c.active + 1 /\ d.full = c.full
  /\ \/ \E i \in 1 .. Len(c.open) :
          /\ d.page = c.open[i] /\ FreeLines(c, d.page) >= n
          /\ d.pages = c.pages /\ d.open = RemoveAt(c.open, i) /\ d.released = c.released
          /\ d.count = c.count
     \/ \E i \in 1 .. Len(c.released) :
          /\ d.page = c.released[i] /\ FreeLines(c, d.page) >= n
          /\ d.pages = c.pages /\ d.open = c.open /\ d.released = RemoveAt(c.released, i)
          /\ d.count = c.count + 1
     \/ /\ d.page = Len(c.pages) + 1 /\ d.pages = Append(c.pages, NewPage(n))
        /\ d.open = c.open /\ d.released = c.released /\ d.count = c.count + 1

LEMMA AcquiredPage ==
  ASSUME NEW c, Stored(c), NEW n \in Nat
  PROVE  Taken(c, AcquireCodePage(c, n), n)
<1> DEFINE a == [c EXCEPT !.active = @ + 1]
           i == FirstOfCapacity(c, c.open, n)
           j == FirstOfCapacity(c, c.released, n)
           d == AcquireCodePage(c, n)
<1> SUFFICES Taken(c, d, n) OBVIOUS
<1>1. d = TakePage(a, n, i, j) BY DEF AcquireCodePage
<1>2. /\ DOMAIN a = Fields /\ a.active = c.active + 1
      /\ a.pages = c.pages /\ a.open = c.open /\ a.full = c.full /\ a.released = c.released
      /\ a.count = c.count /\ a.page = c.page /\ SameWork(c, a)
  BY DEF Stored, Fields, SameWork
<1>3. /\ IsSequence(c.open) /\ IsSequence(c.released) /\ IsSequence(c.pages)
      /\ \A k \in DOMAIN c.pages : IsPage(c.pages[k])
  BY DEF Stored, IsSequence
<1>4. /\ i # 0 => i \in 1 .. Len(c.open) /\ FreeLines(c, c.open[i]) >= n
      /\ j # 0 => j \in 1 .. Len(c.released) /\ FreeLines(c, c.released[j]) >= n
  BY <1>3, FirstHasCapacity
<1> HIDE DEF a, i, j, d
<1>5. CASE i # 0
  <2>1. i \in 1 .. Len(c.open) /\ i > 0 BY <1>4, <1>5
  <2>2. d = [a EXCEPT !.page = a.open[i], !.open = RemoveAt(a.open, i)] BY <1>1, <2>1 DEF TakePage
  <2>3. /\ DOMAIN d = Fields /\ d.page = c.open[i] /\ d.open = RemoveAt(c.open, i)
        /\ d.pages = c.pages /\ d.released = c.released /\ d.full = c.full /\ d.count = c.count
        /\ d.active = c.active + 1 /\ SameWork(c, d)
    BY <1>2, <2>2 DEF Fields, SameWork
  <2>4. RemoveAt(c.open, i) \in Seq(DOMAIN c.pages) BY <2>1, WithoutOne DEF Stored
  <2>5. Stored(d) BY <2>3, <2>4 DEF Stored
  <2> QED BY <1>4, <1>5, <2>3, <2>5 DEF Taken
<1>6. CASE i = 0 /\ j # 0
  <2>1. j \in 1 .. Len(c.released) /\ j > 0 BY <1>4, <1>6
  <2>2. d = [a EXCEPT !.page = a.released[j], !.released = RemoveAt(a.released, j), !.count = a.count + 1]
    BY <1>1, <1>6, <2>1 DEF TakePage
  <2>3. /\ DOMAIN d = Fields /\ d.page = c.released[j] /\ d.open = c.open
        /\ d.pages = c.pages /\ d.released = RemoveAt(c.released, j) /\ d.full = c.full
        /\ d.count = c.count + 1 /\ d.active = c.active + 1 /\ SameWork(c, d)
    BY <1>2, <2>2 DEF Fields, SameWork
  <2>4. RemoveAt(c.released, j) \in Seq(DOMAIN c.pages) BY <2>1, WithoutOne DEF Stored
  <2>5. Stored(d) BY <2>3, <2>4 DEF Stored
  <2> QED BY <1>4, <1>6, <2>3, <2>5 DEF Taken
<1>7. CASE i = 0 /\ j = 0
  <2>1. d = [a EXCEPT !.page = Len(a.pages) + 1, !.count = a.count + 1,
                      !.pages = Append(a.pages, NewPage(n))]
    BY <1>1, <1>7 DEF TakePage
  <2>2. /\ DOMAIN d = Fields /\ d.page = Len(c.pages) + 1 /\ d.open = c.open
        /\ d.pages = Append(c.pages, NewPage(n)) /\ d.released = c.released /\ d.full = c.full
        /\ d.count = c.count + 1 /\ d.active = c.active + 1 /\ SameWork(c, d)
    BY <1>2, <2>1 DEF Fields, SameWork
  <2>3. /\ IsSequence(d.pages) /\ DOMAIN d.pages = 1 .. Len(c.pages) + 1
        /\ \A k \in 1 .. Len(c.pages) : d.pages[k] = c.pages[k]
        /\ d.pages[Len(c.pages) + 1] = NewPage(n)
    BY <1>3, <2>2, AppendSequence
  <2>4. Len(c.pages) \in Nat /\ DOMAIN c.pages = 1 .. Len(c.pages) BY <1>3, SequenceDomain
  <2>5. DOMAIN c.pages \subseteq DOMAIN d.pages BY <2>3, <2>4
  <2>6. \A k \in DOMAIN d.pages : IsPage(d.pages[k])
    <3> SUFFICES ASSUME NEW k \in DOMAIN d.pages PROVE IsPage(d.pages[k]) OBVIOUS
    <3>1. k \in 1 .. Len(c.pages) \/ k = Len(c.pages) + 1 BY <2>3, <2>4
    <3> QED BY <1>3, <2>3, <2>4, <3>1, NewPageFits
  <2>7. Stored(d)
    <3>1. \A s \in Seq(DOMAIN c.pages) : s \in Seq(DOMAIN d.pages) BY <2>5
    <3> QED BY <2>2, <2>3, <2>6, <3>1 DEF Stored
  <2> QED BY <2>2, <2>7 DEF Taken
<1>8. i # 0 \/ (i = 0 /\ j # 0) \/ (i = 0 /\ j = 0) OBVIOUS
<1> QED BY <1>5, <1>6, <1>7, <1>8

LEMMA TakenPages ==
  ASSUME NEW c, Stored(c), NEW n \in Nat, NEW d, Taken(c, d, n)
  PROVE  /\ d.page \in DOMAIN d.pages
         /\ DOMAIN c.pages \subseteq DOMAIN d.pages
         /\ \A k \in DOMAIN c.pages : d.pages[k] = c.pages[k]
         /\ \A k \in DOMAIN d.pages \ DOMAIN c.pages : k = d.page /\ d.pages[k].words = <<>>
         /\ FreeLines(d, d.page) >= n
<1>1. IsSequence(c.pages) BY DEF Stored
<1>2. Len(c.pages) \in Nat /\ DOMAIN c.pages = 1 .. Len(c.pages) BY <1>1, SequenceDomain
<1>3. CASE d.pages = c.pages
  <2>1. d.page \in DOMAIN c.pages /\ FreeLines(c, d.page) >= n
    <3>1. ASSUME NEW i \in 1 .. Len(c.open), d.page = c.open[i], FreeLines(c, d.page) >= n
          PROVE  d.page \in DOMAIN c.pages /\ FreeLines(c, d.page) >= n
      BY <3>1 DEF Stored
    <3>2. ASSUME NEW i \in 1 .. Len(c.released), d.page = c.released[i], FreeLines(c, d.page) >= n
          PROVE  d.page \in DOMAIN c.pages /\ FreeLines(c, d.page) >= n
      BY <3>2 DEF Stored
    <3>3. d.pages # Append(c.pages, NewPage(n)) BY <1>1, <1>2, <1>3, AppendSequence
    <3> QED BY <3>1, <3>2, <3>3 DEF Taken
  <2> QED BY <1>3, <2>1 DEF FreeLines
<1>4. CASE d.page = Len(c.pages) + 1 /\ d.pages = Append(c.pages, NewPage(n))
  <2>1. /\ DOMAIN d.pages = 1 .. Len(c.pages) + 1
        /\ \A k \in 1 .. Len(c.pages) : d.pages[k] = c.pages[k]
        /\ d.pages[Len(c.pages) + 1] = NewPage(n)
    BY <1>1, <1>4, AppendSequence
  <2>2. d.pages[d.page].words = <<>> /\ d.pages[d.page].lines >= n /\ d.pages[d.page].lines \in Nat
    BY <1>4, <2>1, NewPageFits DEF IsPage
  <2>3. FreeLines(d, d.page) >= n BY <2>2, TupleSequences DEF FreeLines
  <2> QED BY <1>2, <1>4, <2>1, <2>2, <2>3
<1> QED BY <1>3, <1>4 DEF Taken

LEMMA TakenWritten ==
  ASSUME NEW c, NEW names, Stored(c), AllNamed(c, names), NEW n \in Nat, NEW d, Taken(c, d, n)
  PROVE  Written(c, d, names)
<1>1. /\ DOMAIN c.pages \subseteq DOMAIN d.pages
      /\ \A k \in DOMAIN c.pages : d.pages[k] = c.pages[k]
      /\ \A k \in DOMAIN d.pages \ DOMAIN c.pages : d.pages[k].words = <<>>
  BY TakenPages
<1>2. WellNamed(<<>>, names) BY DEF WellNamed
<1>3. AllNamed(d, names)
  <2> SUFFICES ASSUME NEW k \in DOMAIN d.pages PROVE WellNamed(d.pages[k].words, names)
    BY DEF AllNamed
  <2> QED BY <1>1, <1>2 DEF AllNamed
<1>4. Kept(c, d) BY <1>1 DEF Kept
<1> QED BY <1>3, <1>4 DEF Taken, Written

LEMMA TakenWorking ==
  ASSUME NEW b, NEW c, NEW names, Working(b, c, names), NEW n \in Nat, NEW d, Taken(c, d, n)
  PROVE  Working(b, d, names) /\ d.page \in DOMAIN d.pages /\ Kept(c, d)
<1>1. Stored(c) /\ SameWork(c, d) BY DEF Working, Taken
<1>2. Written(c, d, names) BY TakenWritten DEF Working
<1>3. d.page \in DOMAIN d.pages BY <1>1, TakenPages
<1>4. Kept(c, d) /\ Stored(d) /\ AllNamed(d, names) BY <1>2 DEF Written
<1>5. Kept(b, d) BY <1>4 DEF Kept, Working
<1>6. \A p \in d.patches : Fresh(b, d, p) BY <1>1, <1>4 DEF SameWork, Working, Fresh, Kept
<1>7. \A j \in DOMAIN d.saved : d.saved[j].page \in DOMAIN d.pages
  BY <1>1, <1>4 DEF SameWork, Working, Kept
<1> QED BY <1>1, <1>3, <1>4, <1>5, <1>6, <1>7 DEF Working, SameWork

LEMMA SamePagesWorking ==
  ASSUME NEW b, NEW c, NEW names, Working(b, c, names), NEW d, Stored(d), SameWork(c, d),
         d.pages = c.pages
  PROVE  Working(b, d, names)
BY DEF Working, SameWork, AllNamed, Kept, Fresh

LEMMA Pushed ==
  ASSUME NEW S, NEW s \in Seq(S), NEW k \in S
  PROVE  /\ <<k>> \o s \in Seq(S) /\ Len(<<k>> \o s) = Len(s) + 1
         /\ (<<k>> \o s)[1] = k
         /\ \A l \in 1 .. Len(s) : (<<k>> \o s)[l + 1] = s[l]
<1>1. <<k>> \in Seq(S) /\ IsSequence(<<k>>) /\ Len(<<k>>) = 1 /\ <<k>>[1] = k BY TupleSequences
<1>2. <<k>> \o s \in Seq(S) BY <1>1
<1>3. IsSequence(s) BY DEF IsSequence
<1>4. /\ Len(<<k>> \o s) = 1 + Len(s)
      /\ \A l \in 1 .. Len(<<k>>) : (<<k>> \o s)[l] = <<k>>[l]
      /\ \A l \in 1 .. Len(s) : (<<k>> \o s)[Len(<<k>>) + l] = s[l]
  BY <1>1, <1>3, ConcatSequence
<1>5. Len(s) \in Nat BY <1>3, SequenceDomain
<1>6. \A l \in 1 .. Len(s) : l + 1 = Len(<<k>>) + l BY <1>1, <1>5
<1>7. (<<k>> \o s)[1] = k BY <1>1, <1>4
<1>8. Len(<<k>> \o s) = Len(s) + 1 BY <1>4, <1>5
<1> QED BY <1>2, <1>4, <1>6, <1>7, <1>8

\* d is c with the page k given back.
GivenBack(c, d, k) ==
  /\ Stored(d) /\ SameWork(c, d)
  /\ d.pages = c.pages /\ d.page = c.page /\ d.active = c.active - 1 /\ d.count = c.count
  /\ d.released = c.released
  /\ \/ d.full = <<k>> \o c.full /\ d.open = c.open
     \/ d.open = <<k>> \o c.open /\ d.full = c.full

LEMMA ReleasedPage ==
  ASSUME NEW c, Stored(c), NEW k \in DOMAIN c.pages
  PROVE  GivenBack(c, ReleaseCodePage(c, k), k)
<1> DEFINE d == ReleaseCodePage(c, k)
<1> SUFFICES GivenBack(c, d, k) OBVIOUS
<1>1. <<k>> \o c.full \in Seq(DOMAIN c.pages) /\ <<k>> \o c.open \in Seq(DOMAIN c.pages)
  BY Pushed DEF Stored
<1>2. CASE FreeLines(c, k) < Threshold
  <2>1. d = [c EXCEPT !.active = c.active - 1, !.full = <<k>> \o c.full] BY <1>2 DEF ReleaseCodePage
  <2> HIDE DEF d
  <2>2. /\ DOMAIN d = Fields /\ d.pages = c.pages /\ d.page = c.page /\ d.active = c.active - 1
        /\ d.count = c.count /\ d.released = c.released /\ d.full = <<k>> \o c.full
        /\ d.open = c.open /\ SameWork(c, d)
    BY <2>1 DEF Stored, Fields, SameWork
  <2>3. Stored(d) BY <1>1, <2>2 DEF Stored
  <2> QED BY <2>2, <2>3 DEF GivenBack
<1>3. CASE ~(FreeLines(c, k) < Threshold)
  <2>1. d = [c EXCEPT !.active = c.active - 1, !.open = <<k>> \o c.open] BY <1>3 DEF ReleaseCodePage
  <2> HIDE DEF d
  <2>2. /\ DOMAIN d = Fields /\ d.pages = c.pages /\ d.page = c.page /\ d.active = c.active - 1
        /\ d.count = c.count /\ d.released = c.released /\ d.open = <<k>> \o c.open
        /\ d.full = c.full /\ SameWork(c, d)
    BY <2>1 DEF Stored, Fields, SameWork
  <2>3. Stored(d) BY <1>1, <2>2 DEF Stored
  <2> QED BY <2>2, <2>3 DEF GivenBack
<1> QED BY <1>2, <1>3

-------------------------------------------------------------------------------
(* Writing code                                                              *)

LEMMA WordDomains ==
  /\ \A a : DOMAIN Operand(a) = {"to"} /\ Operand(a).to = a /\ "op" \notin DOMAIN Operand(a)
  /\ \A op, of, at, size : /\ DOMAIN Operation(op, of, at, size) = {"op", "of", "at", "size"}
                           /\ Operation(op, of, at, size).op = op
                           /\ Operation(op, of, at, size).of = of
                           /\ Operation(op, of, at, size).size = size
  /\ \A n \in Nat : /\ IsSequence(Slots(n)) /\ Len(Slots(n)) = n
                    /\ \A l \in 1 .. n : Slots(n)[l] = Operand(<<0, 0>>)
<1>1. \A a : DOMAIN Operand(a) = {"to"} /\ Operand(a).to = a /\ "op" \notin DOMAIN Operand(a)
  BY DEF Operand
<1>2. \A op, of, at, size : /\ DOMAIN Operation(op, of, at, size) = {"op", "of", "at", "size"}
                            /\ Operation(op, of, at, size).op = op
                            /\ Operation(op, of, at, size).of = of
                            /\ Operation(op, of, at, size).size = size
  BY DEF Operation
<1>3. ASSUME NEW n \in Nat
      PROVE  /\ IsSequence(Slots(n)) /\ Len(Slots(n)) = n
             /\ \A l \in 1 .. n : Slots(n)[l] = Operand(<<0, 0>>)
  <2>1. Slots(n) = [l \in 1 .. n |-> Slots(n)[l]] BY DEF Slots
  <2>2. \A l \in 1 .. n : Slots(n)[l] = Operand(<<0, 0>>) BY DEF Slots
  <2> QED BY <2>1, <2>2, FunctionSequence
<1> QED BY <1>1, <1>2, <1>3

\* The operands of an operation of c.of.
Operands(c, op, operands, names) ==
  /\ IsSequence(operands) /\ \A l \in DOMAIN operands : "op" \notin DOMAIN operands[l]
  /\ op = "Compile" => /\ 1 \in DOMAIN operands /\ "func" \in DOMAIN operands[1]
                       /\ operands[1].func \in names[c.of[1]]

OperationWords(c, op, at, size, operands) == <<Operation(op, c.of, at, size)>> \o operands

LEMMA OperationNamed ==
  ASSUME NEW c, NEW names, c.of[1] \in DOMAIN names, NEW at, NEW size, NEW op, NEW operands,
         Operands(c, op, operands, names)
  PROVE  /\ IsSequence(OperationWords(c, op, at, size, operands))
         /\ WellNamed(OperationWords(c, op, at, size, operands), names)
         /\ Len(OperationWords(c, op, at, size, operands)) = Len(operands) + 1
         /\ \A l \in 1 .. Len(operands) :
              OperationWords(c, op, at, size, operands)[l + 1] = operands[l]
<1> DEFINE w == Operation(op, c.of, at, size)
           words == OperationWords(c, op, at, size, operands)
<1>0. words = <<w>> \o operands BY DEF OperationWords
<1> HIDE DEF words
<1>1. IsSequence(<<w>>) /\ Len(<<w>>) = 1 /\ <<w>>[1] = w BY TupleSequences
<1>2. IsSequence(operands) /\ Len(operands) \in Nat /\ DOMAIN operands = 1 .. Len(operands)
  BY SequenceDomain DEF Operands
<1>3. /\ IsSequence(words) /\ Len(words) = 1 + Len(operands) /\ DOMAIN words = 1 .. 1 + Len(operands)
      /\ words[1] = w /\ \A l \in 1 .. Len(operands) : words[1 + l] = operands[l]
  <2> HIDE DEF w
  <2>1. Joined(<<w>>, operands, words) BY <1>0, <1>1, <1>2, JoinedSequence
  <2>2. Len(<<w>>) = 1 /\ 1 \in 1 .. 1 BY <1>1
  <2> DEFINE s == <<w>>
  <2>3. s[1] = w BY <1>1
  <2> HIDE DEF s
  <2>4. Joined(s, operands, words) /\ Len(s) = 1 BY <2>1, <2>2 DEF s
  <2> QED BY <2>3, <2>4 DEF Joined
<1>4. ASSUME NEW l \in DOMAIN words PROVE Named(words, names, l)
  <2>1. CASE l = 1
    <3>1. words[l].of = c.of /\ words[l].op = op /\ "func" \notin DOMAIN words[l]
      BY <1>3, <2>1, WordDomains
    <3>2. op = "Compile" => l + 1 \in DOMAIN words /\ words[l + 1] = operands[1]
      BY <1>2, <1>3, <2>1 DEF Operands
    <3> QED BY <3>1, <3>2 DEF Named, Operands
  <2>2. CASE l # 1
    <3>1. l - 1 \in 1 .. Len(operands) /\ l = 1 + (l - 1) BY <1>2, <1>3, <2>2
    <3>2. words[l] = operands[l - 1] BY <1>3, <3>1
    <3> QED BY <1>2, <3>1, <3>2 DEF Named, Operands
  <2> QED BY <2>1, <2>2
<1>5. \A l \in 1 .. Len(operands) : l + 1 = 1 + l BY <1>2
<1> QED BY <1>2, <1>3, <1>4, <1>5 DEF WellNamed, words

LEMMA EmittedBuilding ==
  ASSUME NEW b, NEW c, NEW names, Building(b, c, names), NEW words, IsSequence(words),
         WellNamed(words, names)
  PROVE  /\ Building(b, EmitWords(c, words), names)
         /\ Resumed(c, EmitWords(c, words)) /\ EmitWords(c, words).page = c.page
<1>1. EmitWords(c, words) = Emitted(c, c.page, words) BY DEF EmitWords, Emitted
<1>2. Stored(c) /\ c.page \in DOMAIN c.pages BY DEF Building, Working
<1> QED BY <1>1, <1>2, EmittedWorking, EmittedCode DEF Building, Resumed

LEMMA BridgedBuilding ==
  ASSUME NEW b, NEW c, NEW names, Building(b, c, names), NEW n \in Nat
  PROVE  LET d == EmitBridge(AcquireCodePage(c, n), c.page)
         IN Building(b, d, names) /\ Resumed(c, d)
<1> DEFINE a == AcquireCodePage(c, n)
           words == <<Operation("Branch", a.of, 0, 1), Operand(PC(a))>>
           e == Emitted(a, c.page, words)
           d == EmitBridge(a, c.page)
<1>1. Taken(c, a, n) BY AcquiredPage DEF Building, Working
<1>2. Building(b, a, names) BY <1>1, TakenWorking DEF Building
<1>3. Stored(c) /\ c.page \in DOMAIN c.pages BY DEF Building, Working
<1>4. c.page \in DOMAIN a.pages /\ a.page \in DOMAIN a.pages BY <1>1, <1>3, TakenPages
<1> HIDE DEF a
<1>5. IsSequence(words) /\ WellNamed(words, names)
  <2>1. IsSequence(words) /\ Len(words) = 2 BY TupleSequences
  <2>2. DOMAIN words = 1 .. 2 BY <2>1, SequenceDomain
  <2>3. /\ words[1].of = a.of /\ words[1].op = "Branch"
        /\ "func" \notin DOMAIN words[1] /\ "op" \notin DOMAIN words[2]
    BY WordDomains
  <2>4. a.of[1] \in DOMAIN names BY <1>2 DEF Building, Working
  <2> HIDE DEF words
  <2>5. Named(words, names, 1) /\ Named(words, names, 2) BY <2>3, <2>4 DEF Named
  <2> QED BY <2>1, <2>2, <2>5 DEF WellNamed
<1> HIDE DEF words
<1>6. Working(b, e, names) BY <1>2, <1>4, <1>5, EmittedWorking DEF Building
<1>7. /\ Stored(a) BY <1>2 DEF Building, Working
<1>8. /\ Stored(e) /\ SameWork(a, e) /\ e.page = a.page /\ DOMAIN e.pages = DOMAIN a.pages
  BY <1>4, <1>5, <1>7, EmittedCode
<1>9. d = ReleaseCodePage(e, c.page) BY Zenon DEF EmitBridge, Emitted, words
<1> HIDE DEF e
<1>10. GivenBack(e, d, c.page) BY <1>4, <1>8, <1>9, ReleasedPage
<1> HIDE DEF d
<1>11. Working(b, d, names) BY <1>6, <1>10, SamePagesWorking DEF GivenBack
<1>12. d.page \in DOMAIN d.pages BY <1>4, <1>8, <1>10 DEF GivenBack
<1>13. SameWork(c, d) BY <1>1, <1>8, <1>10 DEF GivenBack, Taken, SameWork
<1>14. DOMAIN c.pages \subseteq DOMAIN d.pages BY <1>1, <1>3, <1>8, <1>10, TakenPages DEF GivenBack
<1> QED BY <1>11, <1>12, <1>13, <1>14 DEF Building, Resumed, d, a

LEMMA EnsuredBuilding ==
  ASSUME NEW b, NEW c, NEW names, Building(b, c, names), NEW n \in Nat
  PROVE  /\ Building(b, EnsureCodePageNumLines(c, n), names)
         /\ Resumed(c, EnsureCodePageNumLines(c, n))
<1>1. CASE FreeLines(c, c.page) >= n + 2 BY <1>1 DEF EnsureCodePageNumLines, Resumed, SameWork
<1>2. CASE ~(FreeLines(c, c.page) >= n + 2)
  <2>1. EnsureCodePageNumLines(c, n) = EmitBridge(AcquireCodePage(c, n + 2), c.page)
    BY <1>2 DEF EnsureCodePageNumLines
  <2> QED BY <2>1, BridgedBuilding
<1> QED BY <1>1, <1>2

\* The last word that was written may become an address.
LastIsOperand(b, c) ==
  LET l == Len(c.pages[c.page].words)
  IN l \in DOMAIN c.pages[c.page].words /\ Fresh(b, c, <<c.page, l, 0>>)

LEMMA EmittedLast ==
  ASSUME NEW b, NEW c, NEW names, Building(b, c, names), NEW words, IsSequence(words),
         words # <<>>, WellNamed(words, names), DOMAIN words[Len(words)] = {"to"}
  PROVE  LastIsOperand(b, EmitWords(c, words))
<1> DEFINE d == EmitWords(c, words)
           n == Len(c.pages[c.page].words)
<1>1. d = Emitted(c, c.page, words) BY DEF EmitWords, Emitted
<1>2. Stored(c) /\ c.page \in DOMAIN c.pages BY DEF Building, Working
<1>3. IsSequence(c.pages[c.page].words) BY <1>2 DEF Stored, IsPage
<1>4. n \in Nat /\ DOMAIN c.pages[c.page].words = 1 .. n BY <1>3, SequenceDomain
<1>5. Len(words) \in Nat /\ Len(words) # 0
  <2>1. PICK S : words \in Seq(S) BY DEF IsSequence
  <2> QED BY <2>1
<1> HIDE DEF d
<1>6. d.page = c.page /\ DOMAIN d.pages = DOMAIN c.pages BY <1>1, <1>2, EmittedCode
<1>7. /\ Len(d.pages[c.page].words) = n + Len(words)
      /\ DOMAIN d.pages[c.page].words = 1 .. n + Len(words)
      /\ d.pages[c.page].words[n + Len(words)] = words[Len(words)]
  <2>1. Len(words) \in 1 .. Len(words) BY <1>5
  <2>2. Joined(c.pages[c.page].words, words, d.pages[c.page].words) BY <1>1, <1>2, EmittedWords
  <2>3. Joined(c.pages[c.page].words, words, d.pages[c.page].words)
        => /\ Len(d.pages[c.page].words) = n + Len(words)
           /\ DOMAIN d.pages[c.page].words = 1 .. n + Len(words)
           /\ \A l \in 1 .. Len(words) : d.pages[c.page].words[n + l] = words[l]
    BY DEF Joined
  <2> HIDE DEF n
  <2> QED BY <2>1, <2>2, <2>3
<1>8. n + Len(words) \notin DOMAIN c.pages[c.page].words /\ n + Len(words) \in 1 .. n + Len(words)
  BY <1>4, <1>5
<1>9. c.page \in DOMAIN b.pages => n + Len(words) \notin DOMAIN b.pages[c.page].words
  BY <1>8 DEF Building, Working, Kept
<1> HIDE DEF n
<1> QED BY <1>2, <1>6, <1>7, <1>8, <1>9 DEF LastIsOperand, Fresh, d

LEMMA EmittedOp ==
  ASSUME NEW b, NEW c, NEW names, Building(b, c, names), NEW at, NEW op, NEW operands,
         Operands(c, op, operands, names)
  PROVE  LET d == EmitOp(c, at, op, operands)
         IN /\ Building(b, d, names) /\ Resumed(c, d)
            /\ operands # <<>> /\ DOMAIN operands[Len(operands)] = {"to"} => LastIsOperand(b, d)
<1> DEFINE e == EnsureCodePageNumLines(c, Threshold)
           words == OperationWords(e, op, at, Len(operands), operands)
<1>1. Building(b, e, names) /\ Resumed(c, e) BY EnsuredBuilding DEF Threshold
<1>2. EmitOp(c, at, op, operands) = EmitWords(e, words) BY <1>1 DEF EmitOp, OperationWords, Resumed, SameWork
<1>3. e.of[1] \in DOMAIN names BY <1>1 DEF Building, Working
<1> HIDE DEF e
<1>10. Operands(e, op, operands, names) BY <1>1 DEF Operands, Resumed, SameWork
<1>4. /\ IsSequence(words) /\ WellNamed(words, names) /\ Len(words) = Len(operands) + 1
      /\ \A l \in 1 .. Len(operands) : words[l + 1] = operands[l]
  BY <1>3, <1>10, OperationNamed
<1>5. Len(operands) \in Nat /\ (operands # <<>> => Len(operands) # 0)
  <2>1. PICK S : operands \in Seq(S) BY DEF Operands, IsSequence
  <2> QED BY <2>1
<1> HIDE DEF words
<1>6. Building(b, EmitWords(e, words), names) /\ Resumed(e, EmitWords(e, words))
  BY <1>1, <1>4, EmittedBuilding
<1>7. Resumed(c, EmitWords(e, words)) BY <1>1, <1>6 DEF Resumed, SameWork
<1>8. ASSUME operands # <<>>, DOMAIN operands[Len(operands)] = {"to"}
      PROVE  LastIsOperand(b, EmitWords(e, words))
  <2>1. Len(operands) \in 1 .. Len(operands) BY <1>5, <1>8
  <2>2. words[Len(words)] = operands[Len(operands)] BY <1>4, <2>1
  <2>3. words # <<>> BY <1>4, <1>5, TupleSequences
  <2> QED BY <1>1, <1>4, <1>8, <2>2, <2>3, EmittedLast
<1> QED BY <1>2, <1>6, <1>7, <1>8

LEMMA ReservedBuilding ==
  ASSUME NEW b, NEW c, NEW names, Building(b, c, names), LastIsOperand(b, c), NEW i
  PROVE  Building(b, Reserve(c, 1, i), names)
<1> DEFINE l == Len(c.pages[c.page].words)
           p == <<c.page, l, i>>
           d == Reserve(c, 1, i)
<1>1. Stored(c) /\ c.page \in DOMAIN c.pages BY DEF Building, Working
<1>2. l \in Nat BY <1>1, SequenceDomain DEF Stored, IsPage
<1>3. d = [c EXCEPT !.patches = c.patches \cup {p}]
  <2>1. l + 1 - 1 = l BY <1>2
  <2> HIDE DEF l
  <2> QED BY <2>1 DEF Reserve, l
<1>4. Fresh(b, c, p) BY DEF LastIsOperand, Fresh
<1> HIDE DEF l, p, d
<1>5. /\ DOMAIN d = Fields /\ d.pages = c.pages /\ d.open = c.open /\ d.full = c.full
      /\ d.released = c.released /\ d.page = c.page /\ d.of = c.of /\ d.saved = c.saved
      /\ d.patches = c.patches \cup {p}
  BY <1>1, <1>3 DEF Stored, Fields
<1>6. Stored(d) BY <1>1, <1>5 DEF Stored
<1>7. \A q \in d.patches : Fresh(b, d, q) BY <1>4, <1>5 DEF Fresh, Building, Working
<1>8. AllNamed(d, names) /\ Kept(b, d) BY <1>5 DEF AllNamed, Kept, Building, Working
<1> QED BY <1>5, <1>6, <1>7, <1>8 DEF Building, Working, d

\* The words that are to become the address behind instruction i do, the others stay.
PatchedWord(c, i, k, l) == IF <<k, l, i>> \in c.patches THEN Operand(PC(c)) ELSE c.pages[k].words[l]

\* d is c with such words, in the same places.
Readdressed(c, d, i) ==
  /\ Stored(d) /\ d.open = c.open /\ d.full = c.full /\ d.released = c.released
  /\ d.count = c.count /\ d.active = c.active
  /\ d.page = c.page /\ d.of = c.of /\ d.saved = c.saved /\ d.failed = c.failed
  /\ d.patches \subseteq c.patches
  /\ DOMAIN d.pages = DOMAIN c.pages
  /\ \A k \in DOMAIN c.pages :
       /\ d.pages[k].lines = c.pages[k].lines /\ Len(d.pages[k].words) = Len(c.pages[k].words)
       /\ d.pages[k].words = [l \in DOMAIN c.pages[k].words |-> PatchedWord(c, i, k, l)]

LEMMA PatchedCode ==
  ASSUME NEW c, Stored(c), NEW i
  PROVE  Readdressed(c, PatchBranches(c, i), i)
<1> DEFINE page(k) == [lines |-> c.pages[k].lines,
                       words |-> [l \in DOMAIN c.pages[k].words |-> PatchedWord(c, i, k, l)]]
           pages == [k \in DOMAIN c.pages |-> page(k)]
           d == PatchBranches(c, i)
<1>1. d = [c EXCEPT !.patches = {p \in c.patches : p[3] # i}, !.pages = pages]
  BY Zenon DEF PatchBranches, Patched, PatchedWord
<1>3. /\ DOMAIN d = Fields /\ d.pages = pages /\ d.open = c.open /\ d.full = c.full
      /\ d.released = c.released /\ d.page = c.page /\ d.of = c.of /\ d.saved = c.saved
      /\ d.patches \subseteq c.patches /\ d.count = c.count /\ d.active = c.active
      /\ d.failed = c.failed
  <2> HIDE DEF d, pages
  <2> QED BY <1>1 DEF Stored, Fields
<1> HIDE DEF d
<1>4. DOMAIN d.pages = DOMAIN c.pages /\ \A k \in DOMAIN c.pages : d.pages[k] = page(k) BY <1>3
<1>5. ASSUME NEW k \in DOMAIN c.pages
      PROVE  /\ DOMAIN d.pages[k] = {"lines", "words"} /\ d.pages[k].lines = c.pages[k].lines
             /\ d.pages[k].words = [l \in DOMAIN c.pages[k].words |-> PatchedWord(c, i, k, l)]
  <2>1. d.pages[k] = page(k) BY <1>4
  <2> HIDE DEF pages
  <2> DEFINE f == [l \in DOMAIN c.pages[k].words |-> PatchedWord(c, i, k, l)]
  <2>2. d.pages[k] = [lines |-> c.pages[k].lines, words |-> f] BY <2>1
  <2> HIDE DEF f
  <2>3. DOMAIN d.pages[k] = {"lines", "words"} /\ d.pages[k].lines = c.pages[k].lines /\ d.pages[k].words = f
    BY <2>2
  <2> QED BY <2>3 DEF f
<1> HIDE DEF page, pages
<1>6. \A k \in DOMAIN c.pages : IsPage(d.pages[k]) /\ Len(d.pages[k].words) = Len(c.pages[k].words)
  <2> SUFFICES ASSUME NEW k \in DOMAIN c.pages
               PROVE  IsPage(d.pages[k]) /\ Len(d.pages[k].words) = Len(c.pages[k].words) OBVIOUS
  <2> DEFINE n == Len(c.pages[k].words)
             f == d.pages[k].words
  <2>1. IsPage(c.pages[k]) BY DEF Stored
  <2>2. n \in Nat /\ DOMAIN c.pages[k].words = 1 .. n BY <2>1, SequenceDomain DEF IsPage
  <2>3. f = [l \in 1 .. n |-> PatchedWord(c, i, k, l)] BY <1>5, <2>2
  <2> HIDE DEF f, n
  <2>4. f = [l \in 1 .. n |-> f[l]] BY <2>3
  <2>5. IsSequence(f) /\ Len(f) = n BY <2>2, <2>4, FunctionSequence
  <2> QED BY <1>5, <2>1, <2>5 DEF IsPage, f, n
<1>7. IsSequence(d.pages)
  <2> DEFINE n == Len(c.pages)
             f == d.pages
  <2>1. n \in Nat /\ DOMAIN c.pages = 1 .. n BY SequenceDomain DEF Stored
  <2>2. f = [k \in 1 .. n |-> page(k)] BY <1>3, <2>1 DEF pages
  <2> HIDE DEF f, n
  <2>3. f = [k \in 1 .. n |-> f[k]] BY <2>2
  <2> QED BY <2>1, <2>3, FunctionSequence DEF f
<1>8. Stored(d) BY <1>3, <1>4, <1>6, <1>7 DEF Stored
<1> QED BY <1>3, <1>4, <1>5, <1>6, <1>8 DEF Readdressed, d

\* A word that becomes an address was an operand that was written since b.
LEMMA PatchedBuilding ==
  ASSUME NEW b, NEW c, NEW names, Building(b, c, names), NEW i
  PROVE  /\ Building(b, PatchBranches(c, i), names)
         /\ DOMAIN PatchBranches(c, i).pages = DOMAIN c.pages
         /\ PatchBranches(c, i).page = c.page /\ PatchBranches(c, i).saved = c.saved
<1> DEFINE word(k, l) == PatchedWord(c, i, k, l)
           d == PatchBranches(c, i)
<1>1. Readdressed(c, d, i) BY PatchedCode DEF Building, Working
<1> HIDE DEF d
<1>3. /\ d.page = c.page /\ d.of = c.of /\ d.saved = c.saved /\ d.patches \subseteq c.patches
  BY <1>1 DEF Readdressed
<1>4. DOMAIN d.pages = DOMAIN c.pages BY <1>1 DEF Readdressed
<1>5. ASSUME NEW k \in DOMAIN c.pages
      PROVE  d.pages[k].words = [l \in DOMAIN c.pages[k].words |-> word(k, l)]
  BY <1>1 DEF Readdressed
<1>8. Stored(d) BY <1>1 DEF Readdressed
<1> HIDE DEF word
<1>9. \A k \in DOMAIN c.pages : \A l \in DOMAIN c.pages[k].words :
         /\ l \in DOMAIN d.pages[k].words
         /\ \/ d.pages[k].words[l] = c.pages[k].words[l]
            \/ <<k, l, i>> \in c.patches /\ d.pages[k].words[l] = Operand(PC(c))
  BY <1>5 DEF word, PatchedWord
<1>10. \A k \in DOMAIN c.pages : \A l \in DOMAIN c.pages[k].words :
         <<k, l, i>> \in c.patches =>
           /\ DOMAIN c.pages[k].words[l] = {"to"}
           /\ ~(k \in DOMAIN b.pages /\ l \in DOMAIN b.pages[k].words)
  BY DEF Building, Working, Fresh
<1>11. Kept(b, d)
  BY <1>4, <1>9, <1>10 DEF Building, Working, Kept
<1>12. \A p \in d.patches : Fresh(b, d, p)
  <2> SUFFICES ASSUME NEW p \in d.patches PROVE Fresh(b, d, p) OBVIOUS
  <2>1. Fresh(b, c, p) BY <1>3 DEF Building, Working
  <2> DEFINE k == p[1]
             l == p[2]
  <2>2. k \in DOMAIN c.pages /\ l \in DOMAIN c.pages[k].words
        /\ DOMAIN c.pages[k].words[l] = {"to"}
        /\ ~(k \in DOMAIN b.pages /\ l \in DOMAIN b.pages[k].words)
    BY <2>1 DEF Fresh
  <2> SUFFICES /\ k \in DOMAIN d.pages /\ l \in DOMAIN d.pages[k].words
               /\ DOMAIN d.pages[k].words[l] = {"to"}
    BY <2>2 DEF Fresh
  <2> HIDE DEF k, l
  <2>3. DOMAIN Operand(PC(c)) = {"to"} BY WordDomains
  <2> QED BY <1>4, <1>9, <2>2, <2>3
<1>13. AllNamed(d, names)
  <2> SUFFICES ASSUME NEW k \in DOMAIN c.pages, NEW l \in DOMAIN c.pages[k].words
               PROVE  Named(d.pages[k].words, names, l)
    BY <1>4, <1>5 DEF AllNamed, WellNamed
  <2> DEFINE s == c.pages[k].words
             f == d.pages[k].words
  <2>1. Named(s, names, l) BY DEF Building, Working, AllNamed, WellNamed
  <2>2. f[l] = s[l] \/ "op" \notin DOMAIN f[l] BY <1>9, WordDomains
  <2>3. \A j \in DOMAIN s : j \in DOMAIN f /\ ("func" \in DOMAIN s[j] => f[j] = s[j])
    <3> SUFFICES ASSUME NEW j \in DOMAIN s
                 PROVE  j \in DOMAIN f /\ ("func" \in DOMAIN s[j] => f[j] = s[j]) OBVIOUS
    <3>1. j \in DOMAIN f /\ (f[j] = s[j] \/ <<k, j, i>> \in c.patches) BY <1>9
    <3>2. <<k, j, i>> \in c.patches => DOMAIN s[j] = {"to"} BY <1>10
    <3> HIDE DEF s, f
    <3> QED BY <3>1, <3>2
  <2> HIDE DEF s, f
  <2>4. Named(f, names, l) BY <2>1, <2>2, <2>3 DEF Named
  <2> QED BY <2>4 DEF f
<1>14. \A j \in DOMAIN d.saved : d.saved[j].page \in DOMAIN d.pages
  BY <1>3, <1>4 DEF Building, Working
<1> QED BY <1>3, <1>4, <1>8, <1>11, <1>12, <1>13, <1>14 DEF Building, Working, d

\* The page that is written now, and what is given back, are other ones.
LEMMA TurnedBuilding ==
  ASSUME NEW b, NEW c, NEW names, Working(b, c, names), b.of[1] \in DOMAIN names,
         NEW k \in DOMAIN c.pages
  PROVE  Building(b, [c EXCEPT !.page = k], names) /\ Resumed(c, [c EXCEPT !.page = k])
<1> DEFINE d == [c EXCEPT !.page = k]
<1>1. Stored(c) BY DEF Working
<1>2. /\ DOMAIN d = Fields /\ d.pages = c.pages /\ d.open = c.open /\ d.full = c.full
      /\ d.released = c.released /\ d.page = k /\ SameWork(c, d)
  BY <1>1 DEF Stored, Fields, SameWork
<1> HIDE DEF d
<1>3. Stored(d) BY <1>1, <1>2 DEF Stored
<1>4. Working(b, d, names) BY <1>2, <1>3, SamePagesWorking
<1> QED BY <1>2, <1>4 DEF Building, Resumed, d

LEMMA ReleasedBuilding ==
  ASSUME NEW b, NEW c, NEW names, Building(b, c, names)
  PROVE  /\ Building(b, ReleaseCodePage(c, c.page), names)
         /\ Resumed(c, ReleaseCodePage(c, c.page))
<1> DEFINE d == ReleaseCodePage(c, c.page)
<1>1. GivenBack(c, d, c.page) BY ReleasedPage DEF Building, Working
<1> HIDE DEF d
<1>2. Working(b, d, names) BY <1>1, SamePagesWorking DEF GivenBack, Building
<1> QED BY <1>1, <1>2 DEF GivenBack, Building, Resumed, d

LEMMA AcquiredBuilding ==
  ASSUME NEW b, NEW c, NEW names, Working(b, c, names), b.of[1] \in DOMAIN names, NEW n \in Nat
  PROVE  /\ Building(b, AcquireCodePage(c, n), names)
         /\ Resumed(c, AcquireCodePage(c, n))
<1> DEFINE d == AcquireCodePage(c, n)
<1>1. Stored(c) BY DEF Working
<1>2. Taken(c, d, n) BY <1>1, AcquiredPage
<1> HIDE DEF d
<1>3. Building(b, d, names) BY <1>2, TakenWorking DEF Building
<1>4. DOMAIN c.pages \subseteq DOMAIN d.pages BY <1>1, <1>2, TakenPages
<1> QED BY <1>2, <1>3, <1>4 DEF Taken, Resumed, d

LEMMA LastAndFront ==
  ASSUME NEW s, IsSequence(s), s # <<>>
  PROVE  /\ Len(s) \in DOMAIN s /\ Last(s) = s[Len(s)]
         /\ IsSequence(Front(s)) /\ Len(Front(s)) = Len(s) - 1 /\ DOMAIN Front(s) = 1 .. Len(s) - 1
         /\ \A l \in DOMAIN Front(s) : l \in DOMAIN s /\ Front(s)[l] = s[l]
<1>1. PICK S : s \in Seq(S) BY DEF IsSequence
<1> DEFINE n == Len(s) - 1
           f == SubSeq(s, 1, n)
<1>2. Len(s) \in Nat /\ Len(s) # 0 /\ DOMAIN s = 1 .. Len(s) BY <1>1
<1>3. n \in 0 .. Len(s) /\ 1 \in 1 .. Len(s) + 1 BY <1>2
<1>4. f \in Seq(S) /\ Len(f) = n /\ \A l \in 1 .. Len(f) : f[l] = s[l]
  <2>1. n - 1 + 1 = n /\ (1 <= n \/ n = 0) BY <1>2
  <2>2. \A l \in 1 .. n : 1 + l - 1 = l BY <1>2
  <2> HIDE DEF n
  <2>3. /\ f \in Seq(S) /\ Len(f) = (IF 1 <= n THEN n - 1 + 1 ELSE 0)
        /\ \A l \in 1 .. Len(f) : f[l] = s[1 + l - 1]
    BY <1>1, <1>3, SubSequence
  <2> HIDE DEF f
  <2>4. Len(f) = n BY <2>1, <2>3
  <2> QED BY <2>2, <2>3, <2>4
<1>5. DOMAIN f = 1 .. n BY <1>4
<1>6. \A l \in 1 .. n : l \in DOMAIN s BY <1>2
<1>7. Front(s) = f BY DEF Front
<1>8. Len(s) \in DOMAIN s /\ Last(s) = s[Len(s)] BY <1>2 DEF Last
<1> HIDE DEF f
<1>9. IsSequence(f) BY <1>4 DEF IsSequence
<1> QED BY <1>4, <1>5, <1>6, <1>7, <1>8, <1>9

LEMMA ElseBuilding ==
  ASSUME NEW b, NEW c, NEW names, Building(b, c, names), NEW i, NEW body
  PROVE  Building(b, CompileElseBlock(c, i, body), names)
<1> DEFINE first == PatchBranches(c, body[i].to)
           a == AcquireCodePage(first, Threshold)
           p == PatchBranches(a, i)
           r == [page |-> c.page, end |-> body[i].to]
           d == CompileElseBlock(c, i, body)
<1>1. Building(b, first, names) /\ c.page \in DOMAIN first.pages
  BY PatchedBuilding DEF Building
<1> HIDE DEF first
<1>2. Building(b, a, names) /\ Resumed(first, a)
  BY <1>1, AcquiredBuilding DEF Building, Threshold
<1> HIDE DEF a
<1>3. Building(b, p, names) /\ DOMAIN p.pages = DOMAIN a.pages BY <1>2, PatchedBuilding
<1>4. d = [p EXCEPT !.saved = Append(p.saved, r)] BY Zenon DEF CompileElseBlock, a, first
<1> HIDE DEF p, d
<1>5. r.page \in DOMAIN p.pages BY <1>1, <1>2, <1>3 DEF Resumed
<1> HIDE DEF r
<1>6. Stored(p) /\ IsSequence(p.saved) BY <1>3 DEF Building, Working
<1>7. /\ DOMAIN d = Fields /\ d.pages = p.pages /\ d.open = p.open /\ d.full = p.full
      /\ d.released = p.released /\ d.page = p.page /\ d.of = p.of /\ d.patches = p.patches
      /\ d.saved = Append(p.saved, r)
  BY <1>4, <1>6 DEF Stored, Fields
<1>8. Stored(d) BY <1>6, <1>7 DEF Stored
<1>9. IsSequence(d.saved) /\ \A j \in DOMAIN d.saved : d.saved[j].page \in DOMAIN d.pages
  <2> DEFINE s == p.saved
             u == d.saved
  <2>1. IsSequence(s) /\ u = Append(s, r) BY <1>6, <1>7
  <2>2. \A j \in DOMAIN s : s[j].page \in DOMAIN p.pages BY <1>3 DEF Building, Working
  <2> HIDE DEF s, u
  <2>3. Len(s) \in Nat /\ DOMAIN s = 1 .. Len(s) BY <2>1, SequenceDomain
  <2>4. /\ IsSequence(u) /\ DOMAIN u = 1 .. Len(s) + 1
        /\ \A j \in 1 .. Len(s) : u[j] = s[j]
        /\ u[Len(s) + 1] = r
    BY <2>1, AppendSequence
  <2>5. \A j \in DOMAIN u : u[j].page \in DOMAIN p.pages BY <1>5, <2>2, <2>3, <2>4
  <2> QED BY <1>7, <2>4, <2>5 DEF u
<1>10. AllNamed(d, names) /\ Kept(b, d) /\ \A q \in d.patches : Fresh(b, d, q)
  BY <1>3, <1>7 DEF Building, Working, AllNamed, Kept, Fresh
<1> QED BY <1>3, <1>7, <1>8, <1>9, <1>10 DEF Building, Working, d

LEMMA PlainOperands ==
  ASSUME NEW c, NEW names, NEW op, op # "Compile"
  PROVE  /\ Operands(c, op, <<>>, names)
         /\ \A x : Operands(c, op, <<Operand(x)>>, names)
         /\ \A n \in Nat : Operands(c, op, Slots(n), names)
<1>1. Operands(c, op, <<>>, names) BY TupleSequences DEF Operands
<1>2. ASSUME NEW x PROVE Operands(c, op, <<Operand(x)>>, names)
  <2> DEFINE w == Operand(x)
  <2>1. "op" \notin DOMAIN w BY WordDomains
  <2> HIDE DEF w
  <2>2. IsSequence(<<w>>) /\ DOMAIN <<w>> = {1} /\ <<w>>[1] = w BY TupleSequences
  <2>3. Operands(c, op, <<w>>, names) BY <2>1, <2>2 DEF Operands
  <2> QED BY <2>3 DEF w
<1>3. ASSUME NEW n \in Nat PROVE Operands(c, op, Slots(n), names)
  <2>1. IsSequence(Slots(n)) /\ Len(Slots(n)) = n /\ \A l \in 1 .. n : "op" \notin DOMAIN Slots(n)[l]
    BY WordDomains
  <2> QED BY <2>1, SequenceDomain DEF Operands
<1> QED BY <1>1, <1>2, <1>3

LEMMA EmittedSlots ==
  ASSUME NEW b, NEW c, NEW names, Building(b, c, names), NEW at, NEW op, op # "Compile",
         NEW n \in Nat
  PROVE  /\ Building(b, EmitOp(c, at, op, Slots(n)), names)
         /\ Resumed(c, EmitOp(c, at, op, Slots(n)))
         /\ n > 0 => LastIsOperand(b, EmitOp(c, at, op, Slots(n)))
<1> DEFINE s == Slots(n)
<1>1. IsSequence(s) /\ Len(s) = n /\ \A l \in 1 .. n : s[l] = Operand(<<0, 0>>) BY WordDomains
<1>2. Operands(c, op, s, names) BY PlainOperands
<1>3. n > 0 => DOMAIN s[Len(s)] = {"to"} BY <1>1, WordDomains
<1> HIDE DEF s
<1>4. n > 0 => s # <<>> BY <1>1, TupleSequences
<1>5. /\ Building(b, EmitOp(c, at, op, s), names) /\ Resumed(c, EmitOp(c, at, op, s))
      /\ n > 0 => LastIsOperand(b, EmitOp(c, at, op, s))
  BY <1>2, <1>3, <1>4, EmittedOp
<1> QED BY <1>5 DEF s

LEMMA EmittedOne ==
  ASSUME NEW b, NEW c, NEW names, Building(b, c, names), NEW at, NEW op, op # "Compile", NEW x
  PROVE  /\ Building(b, EmitOp(c, at, op, <<Operand(x)>>), names)
         /\ Resumed(c, EmitOp(c, at, op, <<Operand(x)>>))
<1>1. Operands(c, op, <<Operand(x)>>, names) BY PlainOperands
<1> QED BY <1>1, EmittedOp

LEMMA EmittedNone ==
  ASSUME NEW b, NEW c, NEW names, Building(b, c, names), NEW at, NEW op, op # "Compile"
  PROVE  /\ Building(b, EmitOp(c, at, op, <<>>), names)
         /\ Resumed(c, EmitOp(c, at, op, <<>>))
<1>1. Operands(c, op, <<>>, names) BY PlainOperands
<1> QED BY <1>1, EmittedOp

LEMMA LeaveElseBuilding ==
  ASSUME NEW b, NEW c, NEW names, Building(b, c, names), c.saved # <<>>, NEW i
  PROVE  Building(b, LeaveElse(c, i, Last(c.saved).page), names)
<1> DEFINE back == Last(c.saved).page
           x == PC([c EXCEPT !.page = back])
           e == EmitOp(c, i, "Branch", <<Operand(x)>>)
           r == ReleaseCodePage(e, e.page)
           d == LeaveElse(c, i, back)
<1>1. Building(b, e, names) /\ Resumed(c, e) BY EmittedOne
<1>2. Building(b, r, names) /\ Resumed(e, r) BY <1>1, ReleasedBuilding
<1>3. d = [r EXCEPT !.page = back, !.saved = Front(r.saved)] BY Zenon DEF LeaveElse
<1>4. IsSequence(c.saved) /\ back \in DOMAIN c.pages
  BY LastAndFront DEF Building, Working
<1> HIDE DEF e, r, d, back
<1>5. r.saved = c.saved /\ back \in DOMAIN r.pages BY <1>1, <1>2, <1>4 DEF Resumed, SameWork
<1>6. Stored(r) BY <1>2 DEF Building, Working
<1>7. /\ DOMAIN d = Fields /\ d.pages = r.pages /\ d.open = r.open /\ d.full = r.full
      /\ d.released = r.released /\ d.page = back /\ d.of = r.of /\ d.patches = r.patches
      /\ d.saved = Front(c.saved)
  BY <1>3, <1>5, <1>6 DEF Stored, Fields
<1>8. Stored(d) BY <1>6, <1>7 DEF Stored
<1>9. IsSequence(d.saved) /\ \A j \in DOMAIN d.saved : d.saved[j].page \in DOMAIN d.pages
  <2> DEFINE s == c.saved
             u == d.saved
  <2>1. \A j \in DOMAIN s : s[j].page \in DOMAIN r.pages BY <1>2, <1>5 DEF Building, Working
  <2>2. IsSequence(u) /\ \A j \in DOMAIN u : j \in DOMAIN s /\ u[j] = s[j]
    BY <1>4, <1>7, LastAndFront
  <2> HIDE DEF s, u
  <2>3. \A j \in DOMAIN u : u[j].page \in DOMAIN r.pages BY <2>1, <2>2
  <2> QED BY <1>7, <2>2, <2>3 DEF u
<1>10. AllNamed(d, names) /\ Kept(b, d) /\ \A q \in d.patches : Fresh(b, d, q)
  BY <1>2, <1>7 DEF Building, Working, AllNamed, Kept, Fresh
<1> QED BY <1>2, <1>5, <1>7, <1>8, <1>9, <1>10 DEF Building, Working, d, back

LEMMA EndBuilding ==
  ASSUME NEW b, NEW c, NEW names, Building(b, c, names), NEW i
  PROVE  Building(b, BlockEnd(c, i), names)
<1> DEFINE p == PatchBranches(c, i)
<1>1. Building(b, p, names) /\ p.saved = c.saved BY PatchedBuilding
<1>2. CASE c.saved # <<>> /\ Last(c.saved).end = i
  <2>1. BlockEnd(c, i) = LeaveElse(p, i, Last(p.saved).page) BY <1>1, <1>2 DEF BlockEnd
  <2> HIDE DEF p
  <2> QED BY <1>1, <1>2, <2>1, LeaveElseBuilding
<1>3. CASE ~(c.saved # <<>> /\ Last(c.saved).end = i) BY <1>1, <1>3 DEF BlockEnd
<1> QED BY <1>2, <1>3

LEMMA PlainWords ==
  ASSUME NEW names
  PROVE  /\ \A x : IsSequence(<<Operand(x)>>) /\ WellNamed(<<Operand(x)>>, names)
         /\ \A n \in Nat : IsSequence(Slots(n)) /\ WellNamed(Slots(n), names)
<1>1. ASSUME NEW s, IsSequence(s), \A l \in DOMAIN s : "op" \notin DOMAIN s[l]
      PROVE  WellNamed(s, names)
  BY <1>1 DEF WellNamed, Named
<1>2. ASSUME NEW x PROVE IsSequence(<<Operand(x)>>) /\ WellNamed(<<Operand(x)>>, names)
  <2> DEFINE c == [of |-> 0]
  <2>1. Operands(c, "Op", <<Operand(x)>>, names) BY PlainOperands
  <2> QED BY <1>1, <2>1 DEF Operands
<1>3. ASSUME NEW n \in Nat PROVE IsSequence(Slots(n)) /\ WellNamed(Slots(n), names)
  <2> DEFINE c == [of |-> 0]
  <2>1. Operands(c, "Op", Slots(n), names) BY PlainOperands
  <2> QED BY <1>1, <2>1 DEF Operands
<1> QED BY <1>2, <1>3

LEMMA TableEntryBuilding ==
  ASSUME NEW b, NEW c, NEW names, Building(b, c, names), NEW at, NEW to
  PROVE  Building(b, TableEntry(c, at, to), names)
<1>1. CASE to \notin DOMAIN c.heads
  <2> DEFINE words == Slots(1)
             d == EmitWords(c, words)
  <2>1. IsSequence(words) /\ WellNamed(words, names) BY PlainWords
  <2>2. Len(words) = 1 /\ words[1] = Operand(<<0, 0>>)
    <3>1. ASSUME NEW n \in Nat
          PROVE  Len(Slots(n)) = n /\ \A l \in 1 .. n : Slots(n)[l] = Operand(<<0, 0>>)
      BY WordDomains
    <3>2. 1 \in Nat /\ 1 \in 1 .. 1 OBVIOUS
    <3> QED BY <3>1, <3>2
  <2>3. TableEntry(c, at, to) = Reserve(d, 1, to) BY <1>1 DEF TableEntry
  <2> HIDE DEF words
  <2>4. words # <<>> /\ DOMAIN words[Len(words)] = {"to"} BY <2>2, TupleSequences, WordDomains
  <2>5. Building(b, d, names) BY <2>1, EmittedBuilding
  <2>6. LastIsOperand(b, d) BY <2>1, <2>4, EmittedLast
  <2> HIDE DEF d
  <2> QED BY <2>3, <2>5, <2>6, ReservedBuilding
<1>2. CASE to \in DOMAIN c.heads
  <2> DEFINE a == AcquireCodePage(c, Threshold)
             x == [a EXCEPT !.page = c.page]
             w == EmitWords(x, <<Operand(PC(a))>>)
             y == [w EXCEPT !.page = a.page]
             e == EmitOp(y, at, "ContinueLoop", <<Operand(c.heads[to])>>)
             r == ReleaseCodePage(e, e.page)
  <2>1. TableEntry(c, at, to) = [r EXCEPT !.page = c.page] BY <1>2 DEF TableEntry
  <2>2. Building(b, a, names) /\ Resumed(c, a) BY AcquiredBuilding DEF Building, Threshold
  <2> HIDE DEF a
  <2>3. Building(b, x, names) /\ Resumed(a, x) BY <2>2, TurnedBuilding DEF Building, Resumed
  <2> HIDE DEF x
  <2>4. Building(b, w, names) /\ Resumed(x, w) BY <2>3, PlainWords, EmittedBuilding
  <2> HIDE DEF w
  <2>5. a.page \in DOMAIN w.pages BY <2>2, <2>3, <2>4 DEF Building, Resumed
  <2>6. Building(b, y, names) /\ Resumed(w, y) BY <2>4, <2>5, TurnedBuilding DEF Building
  <2> HIDE DEF y
  <2>7. Building(b, e, names) /\ Resumed(y, e) BY <2>6, EmittedOne
  <2> HIDE DEF e
  <2>8. Building(b, r, names) /\ Resumed(e, r) BY <2>7, ReleasedBuilding
  <2> HIDE DEF r
  <2>9. c.page \in DOMAIN r.pages BY <2>2, <2>3, <2>4, <2>6, <2>7, <2>8 DEF Building, Resumed
  <2> QED BY <2>1, <2>8, <2>9, TurnedBuilding DEF Building
<1> QED BY <1>1, <1>2

LEMMA TableHeadBuilding ==
  ASSUME NEW b, NEW c, NEW names, Building(b, c, names), NEW i, NEW n
  PROVE  Building(b, TableHead(c, i, n), names)
<1> DEFINE e == EnsureCodePageNumLines(c, Threshold)
           words == OperationWords(e, "BranchTable", i, n + 2, Slots(2))
<1>1. Building(b, e, names) /\ Resumed(c, e) BY EnsuredBuilding DEF Threshold
<1>2. TableHead(c, i, n) = EmitWords(e, words)
  BY <1>1 DEF TableHead, OperationWords, Resumed, SameWork
<1>3. Operands(e, "BranchTable", Slots(2), names) BY PlainOperands
<1> HIDE DEF e
<1>4. IsSequence(words) /\ WellNamed(words, names)
  BY <1>1, <1>3, OperationNamed DEF Building, Working
<1> HIDE DEF words
<1> QED BY <1>1, <1>2, <1>4, EmittedBuilding

-------------------------------------------------------------------------------
(* Folds over a list, from its first element to its last                     *)

LEMMA WithoutLargest ==
  ASSUME NEW n \in Nat
  PROVE  /\ Max(1 .. n + 1) = n + 1 /\ (1 .. n + 1) \ {n + 1} = 1 .. n /\ 1 .. n + 1 # {}
         /\ \A S \in SUBSET (1 .. n + 1) : S # {} => S \ {Max(S)} \in SUBSET (1 .. n)
<1>1. \A S \in SUBSET (1 .. n + 1) : S # {} => Max(S) \in S /\ \A i \in S : i <= Max(S)
  <2> SUFFICES ASSUME NEW S \in SUBSET (1 .. n + 1), S # {}
               PROVE  Max(S) \in S /\ \A i \in S : i <= Max(S) OBVIOUS
  <2>1. S \in SUBSET (0 .. n + 1) /\ n + 1 \in Nat OBVIOUS
  <2> QED BY <2>1, LargestIsMax
<1>2. n + 1 \in 1 .. n + 1 /\ (1 .. n + 1) \ {n + 1} = 1 .. n OBVIOUS
<1>3. Max(1 .. n + 1) = n + 1
  <2>1. Max(1 .. n + 1) \in 1 .. n + 1 /\ n + 1 <= Max(1 .. n + 1) BY <1>1, <1>2
  <2> QED BY <2>1
<1>4. ASSUME NEW S \in SUBSET (1 .. n + 1), S # {}
      PROVE  S \ {Max(S)} \in SUBSET (1 .. n)
  <2>1. Max(S) \in S /\ \A i \in S : i <= Max(S) BY <1>1, <1>4
  <2> SUFFICES ASSUME NEW i \in S, i # Max(S) PROVE i \in 1 .. n OBVIOUS
  <2>2. i \in 1 .. n + 1 /\ Max(S) \in 1 .. n + 1 /\ i <= Max(S) BY <2>1
  <2> QED BY <2>2
<1> QED BY <1>2, <1>3, <1>4

\* What MapThenFoldSet computes over the subsets of 1 .. n.
TableIter(c, at, to, n, g) ==
  g = [S \in SUBSET (1 .. n) |->
        IF S = {} THEN c ELSE TableEntry(g[S \ {Max(S)}], at, to[Max(S)])]

LEMMA TableIterExists ==
  ASSUME NEW c, NEW at, NEW to
  PROVE  \A n \in Nat : \E g : TableIter(c, at, to, n, g)
<1> DEFINE T == {n \in Nat : \E g : TableIter(c, at, to, n, g)}
<1>1. 0 \in T
  <2> DEFINE g == [S \in SUBSET (1 .. 0) |-> c]
  <2>1. \A S \in SUBSET (1 .. 0) : S = {} OBVIOUS
  <2>2. TableIter(c, at, to, 0, g) BY <2>1 DEF TableIter
  <2> QED BY <2>2
<1>2. ASSUME NEW n \in Nat, n \in T PROVE n + 1 \in T
  <2>1. PICK g : TableIter(c, at, to, n, g) BY <1>2
  <2> DEFINE step(S) == IF S = {} THEN c ELSE TableEntry(g[S \ {Max(S)}], at, to[Max(S)])
             h == [S \in SUBSET (1 .. n + 1) |-> step(S)]
  <2>2. \A S \in SUBSET (1 .. n) : S \in SUBSET (1 .. n + 1) /\ h[S] = g[S]
    <3>1. \A S \in SUBSET (1 .. n) : S \in SUBSET (1 .. n + 1) OBVIOUS
    <3>2. \A S \in SUBSET (1 .. n) : g[S] = step(S) BY <2>1 DEF TableIter
    <3>3. \A S \in SUBSET (1 .. n + 1) : h[S] = step(S) OBVIOUS
    <3> HIDE DEF step, h
    <3> QED BY <3>1, <3>2, <3>3
  <2>3. \A S \in SUBSET (1 .. n + 1) : S # {} => h[S \ {Max(S)}] = g[S \ {Max(S)}]
    <3> HIDE DEF step, h
    <3> QED BY <2>2, WithoutLargest
  <2>4. \A S \in SUBSET (1 .. n + 1) :
          step(S) = IF S = {} THEN c ELSE TableEntry(h[S \ {Max(S)}], at, to[Max(S)])
    <3> HIDE DEF h
    <3> QED BY <2>3
  <2>5. h = [S \in SUBSET (1 .. n + 1) |->
              IF S = {} THEN c ELSE TableEntry(h[S \ {Max(S)}], at, to[Max(S)])]
    <3> DEFINE next(S) == IF S = {} THEN c ELSE TableEntry(h[S \ {Max(S)}], at, to[Max(S)])
    <3>1. \A S \in SUBSET (1 .. n + 1) : step(S) = next(S) BY <2>4
    <3>2. h = [S \in SUBSET (1 .. n + 1) |-> step(S)] OBVIOUS
    <3> HIDE DEF step, next, h
    <3>3. h = [S \in SUBSET (1 .. n + 1) |-> next(S)] BY <3>1, <3>2
    <3> QED BY <3>3 DEF next
  <2> HIDE DEF h
  <2>6. TableIter(c, at, to, n + 1, h) BY <2>5 DEF TableIter
  <2> QED BY <2>6
<1>3. Nat \subseteq T
  <2> HIDE DEF T
  <2> QED BY <1>1, <1>2, Induction
<1> QED BY <1>3

LEMMA TableBuilding ==
  ASSUME NEW b, NEW c, NEW names, Building(b, c, names), NEW i, NEW to, IsList(to)
  PROVE  Building(b, CompileBranchTable(c, i, to), names)
<1> DEFINE n == Len(to)
           e == TableHead(EnsureCodePageNumLines(c, n + 3), i, n)
           g == CHOOSE g : TableIter(e, i, to, n, g)
<1>1. n \in Nat /\ DOMAIN to = 1 .. n BY DEF IsList
<1>2. Building(b, e, names)
  <2>1. n + 3 \in Nat BY <1>1
  <2> HIDE DEF n
  <2>2. Building(b, EnsureCodePageNumLines(c, n + 3), names) BY <2>1, EnsuredBuilding
  <2> QED BY <2>2, TableHeadBuilding
<1>3. CompileBranchTable(c, i, to) = g[1 .. n]
  <2>1. CompileBranchTable(c, i, to) = FoldLeft(LAMBDA a, t : TableEntry(a, i, t), e, to)
    BY DEF CompileBranchTable
  <2> HIDE DEF e
  <2>2. FoldLeft(LAMBDA a, t : TableEntry(a, i, t), e, to)
        = (CHOOSE f : f = [S \in SUBSET DOMAIN to |->
             IF S = {} THEN e ELSE TableEntry(f[S \ {Max(S)}], i, to[Max(S)])])[DOMAIN to]
    BY Zenon DEF FoldLeft, MapThenFoldSet
  <2> HIDE DEF n
  <2> QED BY <1>1, <2>1, <2>2, Zenon DEF TableIter
<1>4. TableIter(e, i, to, n, g) BY <1>1, TableIterExists
<1> HIDE DEF e, g, n
<1> DEFINE T == {m \in Nat : m <= n => Building(b, g[1 .. m], names)}
<1>5. 0 \in T
  <2>1. 1 .. 0 = {} /\ {} \in SUBSET (1 .. n) OBVIOUS
  <2>2. g[{}] = e BY <1>4, <2>1 DEF TableIter
  <2> QED BY <1>2, <2>1, <2>2
<1>6. ASSUME NEW m \in Nat, m \in T PROVE m + 1 \in T
  <2> SUFFICES ASSUME m + 1 <= n PROVE Building(b, g[1 .. m + 1], names) OBVIOUS
  <2>1. Building(b, g[1 .. m], names) BY <1>1, <1>6
  <2>2. 1 .. m + 1 \in SUBSET (1 .. n) BY <1>1
  <2>3. g[1 .. m + 1] = TableEntry(g[1 .. m], i, to[m + 1])
    <3> DEFINE S == 1 .. m + 1
    <3>1. S # {} /\ Max(S) = m + 1 /\ S \ {m + 1} = 1 .. m BY WithoutLargest
    <3> HIDE DEF S
    <3>2. S \in SUBSET (1 .. n) BY <2>2 DEF S
    <3>3. g[S] = TableEntry(g[S \ {Max(S)}], i, to[Max(S)]) BY <1>4, <3>1, <3>2 DEF TableIter
    <3>4. g[S] = TableEntry(g[1 .. m], i, to[m + 1]) BY <3>1, <3>3
    <3> QED BY <3>4 DEF S
  <2> QED BY <2>1, <2>3, TableEntryBuilding
<1>7. Nat \subseteq T
  <2> HIDE DEF T
  <2> QED BY <1>5, <1>6, Induction
<1>8. n \in T BY <1>1, <1>7
<1> QED BY <1>1, <1>3, <1>8

-------------------------------------------------------------------------------
(* Compiling                                                                 *)

LEMMA FailedBuilding ==
  ASSUME NEW b, NEW c, NEW names, Building(b, c, names)
  PROVE  Building(b, [c EXCEPT !.failed = TRUE], names)
<1> DEFINE d == [c EXCEPT !.failed = TRUE]
<1>1. Stored(c) BY DEF Building, Working
<1>2. /\ DOMAIN d = Fields /\ d.pages = c.pages /\ d.open = c.open /\ d.full = c.full
      /\ d.released = c.released /\ d.page = c.page /\ d.of = c.of /\ d.patches = c.patches
      /\ d.saved = c.saved
  BY <1>1 DEF Stored, Fields
<1> HIDE DEF d
<1>3. Stored(d) BY <1>1, <1>2 DEF Stored
<1>4. AllNamed(d, names) /\ Kept(b, d) /\ \A q \in d.patches : Fresh(b, d, q)
  BY <1>2 DEF Building, Working, AllNamed, Kept, Fresh
<1> QED BY <1>2, <1>3, <1>4 DEF Building, Working, d

LEMMA HeadedBuilding ==
  ASSUME NEW b, NEW c, NEW names, Building(b, c, names), NEW i
  PROVE  Building(b, Headed(c, i), names)
<1> DEFINE d == Headed(c, i)
<1>1. Stored(c) BY DEF Building, Working
<1>2. /\ DOMAIN d = Fields /\ d.pages = c.pages /\ d.open = c.open /\ d.full = c.full
      /\ d.released = c.released /\ d.page = c.page /\ d.of = c.of /\ d.patches = c.patches
      /\ d.saved = c.saved
  BY <1>1 DEF Stored, Fields, Headed
<1> HIDE DEF d
<1>3. Stored(d) BY <1>1, <1>2 DEF Stored
<1>4. AllNamed(d, names) /\ Kept(b, d) /\ \A q \in d.patches : Fresh(b, d, q)
  BY <1>2 DEF Building, Working, AllNamed, Kept, Fresh
<1> QED BY <1>2, <1>3, <1>4 DEF Building, Working, d

\* The functions that a module of the runtime has compiled are its own and its imports.
Callable(c, names, compiled) ==
  DOMAIN compiled = names[c.of[1]] \cup modules[c.of[1]].patch.imports

LEMMA CallBuilding ==
  ASSUME NEW b, NEW c, NEW names, Building(b, c, names), NEW i, NEW g, NEW compiled,
         Callable(c, names, compiled)
  PROVE  Building(b, CompileCall(c, i, g, compiled), names)
<1>1. CASE g \in DOMAIN compiled /\ compiled[g] # NotCompiled
  <2> DEFINE w == Operand(compiled[g])
             z == Operand(<<0, 0>>)
  <2>1. CompileCall(c, i, g, compiled) = EmitOp(c, i, "Call", <<w, z>>) BY <1>1 DEF CompileCall
  <2>2. "op" \notin DOMAIN w /\ "op" \notin DOMAIN z BY WordDomains
  <2> HIDE DEF w, z
  <2>3. IsSequence(<<w, z>>) /\ DOMAIN <<w, z>> = {1, 2} /\ <<w, z>>[1] = w /\ <<w, z>>[2] = z
    BY TupleSequences
  <2>4. Operands(c, "Call", <<w, z>>, names) BY <2>2, <2>3 DEF Operands
  <2> QED BY <2>1, <2>4, EmittedOp
<1>2. CASE /\ ~(g \in DOMAIN compiled /\ compiled[g] # NotCompiled)
           /\ g \in DOMAIN compiled /\ g \notin modules[c.of[1]].patch.imports
  <2> DEFINE w == [func |-> g]
             z == Operand(<<0, 0>>)
  <2>1. CompileCall(c, i, g, compiled) = EmitOp(c, i, "Compile", <<w, z>>) BY <1>2 DEF CompileCall
  <2>2. /\ "op" \notin DOMAIN w /\ "op" \notin DOMAIN z /\ "func" \in DOMAIN w
        /\ w.func \in names[c.of[1]]
    BY <1>2, WordDomains DEF Callable
  <2> HIDE DEF w, z
  <2>3. IsSequence(<<w, z>>) /\ DOMAIN <<w, z>> = {1, 2} /\ <<w, z>>[1] = w /\ <<w, z>>[2] = z
    BY TupleSequences
  <2>4. Operands(c, "Compile", <<w, z>>, names) BY <2>2, <2>3 DEF Operands
  <2> QED BY <2>1, <2>4, EmittedOp
<1>3. CASE /\ ~(g \in DOMAIN compiled /\ compiled[g] # NotCompiled)
           /\ ~(g \in DOMAIN compiled /\ g \notin modules[c.of[1]].patch.imports)
  BY <1>3, FailedBuilding DEF CompileCall
<1> QED BY <1>1, <1>2, <1>3

Kinds == {"op", "grow", "trap", "call", "callIndirect", "loop", "block", "branchIf",
          "if", "continueIf", "table", "else", "end"}

\* What the compiler takes for granted of an instruction.
Compilable(ins) ==
  ins.op \in Kinds /\ (ins.op = "op" => ins.words \in Nat) /\ (ins.op = "table" => IsList(ins.to))

LEMMA InstructionBuilding ==
  ASSUME NEW b, NEW c, NEW names, Building(b, c, names), NEW i, NEW body, Compilable(body[i]),
         NEW compiled, Callable(c, names, compiled)
  PROVE  Building(b, CompileInstruction(c, i, body, compiled), names)
<1> DEFINE ins == body[i]
           d == CompileInstruction(c, i, body, compiled)
<1>1. CASE c.failed BY <1>1 DEF CompileInstruction
<1>2. CASE ~c.failed /\ ins.op = "op"
  <2>1. d = EmitOp(c, i, "Op", Slots(ins.words)) /\ ins.words \in Nat
    BY <1>2 DEF CompileInstruction, Compilable
  <2> QED BY <2>1, EmittedSlots
<1>3. CASE ~c.failed /\ ins.op = "grow"
  <2>1. d = EmitOp(c, i, "MemGrow", <<>>) BY <1>3 DEF CompileInstruction
  <2> QED BY <2>1, EmittedNone
<1>4. CASE ~c.failed /\ ins.op = "trap"
  <2>1. d = EmitOp(c, i, "Unreachable", <<>>) BY <1>4 DEF CompileInstruction
  <2> QED BY <2>1, EmittedNone
<1>5. CASE ~c.failed /\ ins.op = "call"
  <2>1. d = CompileCall(c, i, ins.func, compiled) BY <1>5 DEF CompileInstruction
  <2> QED BY <2>1, CallBuilding
<1>6. CASE ~c.failed /\ ins.op = "callIndirect"
  <2>1. d = EmitOp(c, i, "CallIndirect", Slots(4)) BY <1>6 DEF CompileInstruction
  <2> QED BY <2>1, EmittedSlots
<1>7. CASE ~c.failed /\ ins.op = "loop"
  <2>1. d = Headed(EmitOp(c, i, "Loop", <<>>), i) BY <1>7 DEF CompileInstruction
  <2> QED BY <2>1, EmittedNone, HeadedBuilding
<1>8. CASE ~c.failed /\ ins.op = "block" BY <1>8 DEF CompileInstruction
<1>9. CASE ~c.failed /\ ins.op \in {"branchIf", "if"}
  <2>1. d = Reserve(EmitOp(c, i, "BranchIf", Slots(2)), 1, ins.to) BY <1>9 DEF CompileInstruction
  <2>2. /\ Building(b, EmitOp(c, i, "BranchIf", Slots(2)), names)
        /\ LastIsOperand(b, EmitOp(c, i, "BranchIf", Slots(2)))
    BY EmittedSlots
  <2> QED BY <2>1, <2>2, ReservedBuilding
<1>10. CASE ~c.failed /\ ins.op = "continueIf"
  <2>1. d = EmitOp(c, i, "ContinueLoopIf", <<Operand(c.heads[ins.to])>>)
    BY <1>10 DEF CompileInstruction
  <2> QED BY <2>1, EmittedOne
<1>11. CASE ~c.failed /\ ins.op = "table"
  <2>1. d = CompileBranchTable(c, i, ins.to) /\ IsList(ins.to)
    BY <1>11 DEF CompileInstruction, Compilable
  <2> QED BY <2>1, TableBuilding
<1>12. CASE ~c.failed /\ ins.op = "else"
  <2>1. d = CompileElseBlock(c, i, body) BY <1>12 DEF CompileInstruction
  <2> QED BY <2>1, ElseBuilding
<1>13. CASE ~c.failed /\ ins.op = "end"
  <2>1. d = BlockEnd(c, i) BY <1>13 DEF CompileInstruction
  <2> QED BY <2>1, EndBuilding
<1> HIDE DEF d
<1>14. ins.op \in Kinds BY DEF Compilable
<1> QED BY <1>1, <1>2, <1>3, <1>4, <1>5, <1>6, <1>7, <1>8, <1>9, <1>10, <1>11, <1>12, <1>13, <1>14
        DEF Kinds, d

\* The same for the instructions of a body; `index` says which they are.
BodyIter(c, index, body, compiled, n, g) ==
  g = [S \in SUBSET (1 .. n) |->
        IF S = {} THEN c
                       ELSE CompileInstruction(g[S \ {Max(S)}], index[Max(S)], body, compiled)]

LEMMA BodyIterExists ==
  ASSUME NEW c, NEW index, NEW body, NEW compiled
  PROVE  \A n \in Nat : \E g : BodyIter(c, index, body, compiled, n, g)
<1> DEFINE T == {n \in Nat : \E g : BodyIter(c, index, body, compiled, n, g)}
<1>1. 0 \in T
  <2> DEFINE g == [S \in SUBSET (1 .. 0) |-> c]
  <2>1. \A S \in SUBSET (1 .. 0) : S = {} OBVIOUS
  <2>2. BodyIter(c, index, body, compiled, 0, g) BY <2>1 DEF BodyIter
  <2> QED BY <2>2
<1>2. ASSUME NEW n \in Nat, n \in T PROVE n + 1 \in T
  <2>1. PICK g : BodyIter(c, index, body, compiled, n, g) BY <1>2
  <2> DEFINE step(S) == IF S = {} THEN c
                       ELSE CompileInstruction(g[S \ {Max(S)}], index[Max(S)], body, compiled)
             h == [S \in SUBSET (1 .. n + 1) |-> step(S)]
  <2>2. \A S \in SUBSET (1 .. n) : S \in SUBSET (1 .. n + 1) /\ h[S] = g[S]
    <3>1. \A S \in SUBSET (1 .. n) : S \in SUBSET (1 .. n + 1) OBVIOUS
    <3>2. \A S \in SUBSET (1 .. n) : g[S] = step(S) BY <2>1 DEF BodyIter
    <3>3. \A S \in SUBSET (1 .. n + 1) : h[S] = step(S) OBVIOUS
    <3> HIDE DEF step, h
    <3> QED BY <3>1, <3>2, <3>3
  <2>3. \A S \in SUBSET (1 .. n + 1) : S # {} => h[S \ {Max(S)}] = g[S \ {Max(S)}]
    <3> HIDE DEF step, h
    <3> QED BY <2>2, WithoutLargest
  <2>4. \A S \in SUBSET (1 .. n + 1) :
          step(S) = IF S = {} THEN c ELSE CompileInstruction(h[S \ {Max(S)}], index[Max(S)], body, compiled)
    <3> HIDE DEF h
    <3> QED BY <2>3
  <2>5. h = [S \in SUBSET (1 .. n + 1) |->
              IF S = {} THEN c ELSE CompileInstruction(h[S \ {Max(S)}], index[Max(S)], body, compiled)]
    <3> DEFINE next(S) == IF S = {} THEN c
                       ELSE CompileInstruction(h[S \ {Max(S)}], index[Max(S)], body, compiled)
    <3>1. \A S \in SUBSET (1 .. n + 1) : step(S) = next(S) BY <2>4
    <3>2. h = [S \in SUBSET (1 .. n + 1) |-> step(S)] OBVIOUS
    <3> HIDE DEF step, next, h
    <3>3. h = [S \in SUBSET (1 .. n + 1) |-> next(S)] BY <3>1, <3>2
    <3> QED BY <3>3 DEF next
  <2> HIDE DEF h
  <2>6. BodyIter(c, index, body, compiled, n + 1, h) BY <2>5 DEF BodyIter
  <2> QED BY <2>6
<1>3. Nat \subseteq T
  <2> HIDE DEF T
  <2> QED BY <1>1, <1>2, Induction
<1> QED BY <1>3

LEMMA BodyBuilding ==
  ASSUME NEW b, NEW c, NEW names, Building(b, c, names), NEW body, IsList(body),
         \A i \in DOMAIN body : Compilable(body[i]),
         NEW compiled, Callable(c, names, compiled)
  PROVE  Building(b, CompileBlockStatements(c, body, compiled), names)
<1> DEFINE n == Len(body)
           index == [i \in DOMAIN body |-> i]
           g == CHOOSE g : BodyIter(c, index, body, compiled, n, g)
           d == CompileBlockStatements(c, body, compiled)
<1> SUFFICES Building(b, d, names) OBVIOUS
<1>1. n \in Nat /\ DOMAIN body = 1 .. n BY DEF IsList
<1>2. DOMAIN index = 1 .. n /\ \A i \in 1 .. n : index[i] = i BY <1>1
<1>3. d = g[1 .. n]
  <2>1. d = FoldLeft(LAMBDA a, i : CompileInstruction(a, i, body, compiled), c, index)
    BY DEF CompileBlockStatements, FoldLeftDomain
  <2> HIDE DEF index, d
  <2>2. FoldLeft(LAMBDA a, i : CompileInstruction(a, i, body, compiled), c, index)
        = (CHOOSE f : f = [S \in SUBSET DOMAIN index |->
             IF S = {} THEN c
             ELSE CompileInstruction(f[S \ {Max(S)}], index[Max(S)], body, compiled)])[DOMAIN index]
    BY Zenon DEF FoldLeft, MapThenFoldSet
  <2> HIDE DEF n
  <2> QED BY <1>2, <2>1, <2>2, Zenon DEF BodyIter
<1>4. BodyIter(c, index, body, compiled, n, g) BY <1>1, BodyIterExists
<1> HIDE DEF index, g, n, d
<1> DEFINE T == {m \in Nat : m <= n => Building(b, g[1 .. m], names)}
<1>5. 0 \in T
  <2>1. 1 .. 0 = {} /\ {} \in SUBSET (1 .. n) OBVIOUS
  <2>2. g[{}] = c BY <1>4, <2>1 DEF BodyIter
  <2> QED BY <2>1, <2>2
<1>6. ASSUME NEW m \in Nat, m \in T PROVE m + 1 \in T
  <2> SUFFICES ASSUME m + 1 <= n PROVE Building(b, g[1 .. m + 1], names) OBVIOUS
  <2>1. Building(b, g[1 .. m], names) BY <1>1, <1>6
  <2>2. 1 .. m + 1 \in SUBSET (1 .. n) /\ m + 1 \in 1 .. n BY <1>1
  <2>3. g[1 .. m + 1] = CompileInstruction(g[1 .. m], m + 1, body, compiled)
    <3> DEFINE S == 1 .. m + 1
    <3>1. S # {} /\ Max(S) = m + 1 /\ S \ {m + 1} = 1 .. m BY WithoutLargest
    <3> HIDE DEF S
    <3>2. S \in SUBSET (1 .. n) BY <2>2 DEF S
    <3>3. g[S] = CompileInstruction(g[S \ {Max(S)}], index[Max(S)], body, compiled)
      BY <1>4, <3>1, <3>2 DEF BodyIter
    <3>4. g[S] = CompileInstruction(g[1 .. m], m + 1, body, compiled) BY <1>2, <2>2, <3>1, <3>3
    <3> QED BY <3>4 DEF S
  <2>4. Callable(g[1 .. m], names, compiled) BY <2>1 DEF Callable, Building, Working
  <2>5. Compilable(body[m + 1]) BY <1>1, <2>2
  <2> QED BY <2>1, <2>3, <2>4, <2>5, InstructionBuilding
<1>7. Nat \subseteq T
  <2> HIDE DEF T
  <2> QED BY <1>5, <1>6, Induction
<1>8. n \in T BY <1>1, <1>7
<1> QED BY <1>1, <1>3, <1>8

LEMMA ClearedCode ==
  ASSUME NEW c, Stored(c)
  PROVE  /\ Stored(Cleared(c)) /\ Cleared(c).pages = c.pages /\ Cleared(c).open = c.open
         /\ Cleared(c).full = c.full /\ Cleared(c).released = c.released
         /\ Cleared(c).count = c.count /\ Cleared(c).active = c.active
         /\ Cleared(c).patches = {} /\ Cleared(c).saved = <<>> /\ Cleared(c).page = 0
         /\ Cleared(c).failed = FALSE
<1> DEFINE d == Cleared(c)
<1>1. /\ DOMAIN d = Fields /\ d.pages = c.pages /\ d.open = c.open /\ d.full = c.full
      /\ d.released = c.released /\ d.count = c.count /\ d.active = c.active
      /\ d.patches = {} /\ d.saved = <<>> /\ d.page = 0 /\ d.failed = FALSE
  BY DEF Stored, Fields, Cleared
<1> HIDE DEF d
<1>2. Stored(d) BY <1>1 DEF Stored
<1> QED BY <1>1, <1>2 DEF d

LEMMA ClosedWritten ==
  ASSUME NEW b, NEW c, NEW names, Building(b, c, names)
  PROVE  Written(b, Closed(c), names)
<1> DEFINE r == ReleaseCodePage(c, c.page)
           d == Cleared(r)
<1>1. Building(b, r, names) BY ReleasedBuilding
<1>2. Stored(r) BY <1>1 DEF Building, Working
<1> HIDE DEF r
<1>3. Stored(d) /\ d.pages = r.pages BY <1>2, ClearedCode
<1>4. Closed(c) = d BY DEF Closed, r
<1> HIDE DEF d
<1> QED BY <1>1, <1>3, <1>4 DEF Building, Working, AllNamed, Kept, Written

LEMMA CompileOnWritten ==
  ASSUME NEW b, NEW c, NEW names, Building(b, c, names), NEW body, IsList(body),
         \A i \in DOMAIN body : Compilable(body[i]),
         NEW compiled, Callable(c, names, compiled)
  PROVE  Written(b, CompileOn(c, body, compiled).code, names)
<1> DEFINE e == EmitOp(c, 0, "Entry", Slots(1))
           d == CompileBlockStatements(e, body, compiled)
           at == Len(body) + 1
           r == CompileOn(c, body, compiled)
<1> SUFFICES Written(b, r.code, names) OBVIOUS
<1>1. Building(b, e, names) BY EmittedSlots
<1>2. Callable(e, names, compiled) BY <1>1 DEF Callable, Building, Working
<1>3. Building(b, d, names)
  <2> HIDE DEF e
  <2> QED BY <1>1, <1>2, BodyBuilding
<1>4. r = Ended(d, at, PC(c)) BY DEF CompileOn
<1> HIDE DEF e, d, at, r
<1>5. CASE d.failed
  <2>1. r.code = Closed(d) BY <1>4, <1>5 DEF Ended
  <2> QED BY <1>3, <2>1, ClosedWritten
<1>6. CASE ~d.failed
  <2>1. r.code = Closed(EmitOp(d, at, "Return", <<>>)) BY <1>4, <1>6 DEF Ended
  <2>2. Building(b, EmitOp(d, at, "Return", <<>>), names) BY <1>3, EmittedNone
  <2> QED BY <2>1, <2>2, ClosedWritten
<1> QED BY <1>5, <1>6

-------------------------------------------------------------------------------
(* The patches, and what the steps of the machine do to the code             *)

\* The functions of each module that have code.
NamesOf(ms) == [m \in DOMAIN ms |-> DOMAIN ms[m].patch.code]

IsModule(m) ==
  /\ DOMAIN m = {"patch", "compiled"} /\ m.patch \in Payload
  /\ DOMAIN m.compiled = DOMAIN m.patch.code \cup m.patch.imports

ModulesInv == IsSequence(modules) /\ \A m \in DOMAIN modules : IsModule(modules[m])

CodeInv == ModulesInv /\ Stored(code) /\ AllNamed(code, NamesOf(modules))

LEMMA PayloadCompilable ==
  ASSUME NEW p \in Payload, NEW f \in DOMAIN p.code
  PROVE  IsList(p.code[f]) /\ \A i \in DOMAIN p.code[f] : Compilable(p.code[f][i])
<1>1. IsList(p.code[f]) /\ \A i \in DOMAIN p.code[f] : IsInstruction(p, p.code[f], i)
  BY PayloadAssumption DEF IsPayload
<1> SUFFICES ASSUME NEW i \in DOMAIN p.code[f] PROVE Compilable(p.code[f][i]) BY <1>1
<1> DEFINE body == p.code[f]
<1>2. IsInstruction(p, body, i) BY <1>1
<1> HIDE DEF body
<1>3. body[i].op \in Kinds /\ (body[i].op = "table" => IsList(body[i].to))
  BY <1>2 DEF IsInstruction, Kinds
<1>4. body[i].op = "op" => body[i].words \in Nat BY <1>2 DEF IsInstruction
<1>5. Compilable(body[i]) BY <1>3, <1>4 DEF Compilable
<1> QED BY <1>5 DEF body

LEMMA KeptItself == ASSUME NEW c PROVE Kept(c, c)
BY DEF Kept

LEMMA FunctionWritten ==
  ASSUME CodeInv, NEW m \in DOMAIN modules, NEW f, NEW body, IsList(body),
         \A i \in DOMAIN body : Compilable(body[i])
  PROVE  Written(code, CompileFunction(m, f, body).code, NamesOf(modules))
<1> DEFINE names == NamesOf(modules)
           c0 == Cleared(code)
           c1 == [c0 EXCEPT !.of = <<m, f>>]
           c2 == AcquireCodePage(c1, Threshold)
           compiled == modules[m].compiled
           d == CompileOn(c2, body, compiled).code
<1>1. CompileFunction(m, f, body).code = d BY DEF CompileFunction
<1>2. /\ Stored(c0) /\ c0.pages = code.pages /\ c0.patches = {} /\ c0.saved = <<>>
  BY ClearedCode DEF CodeInv
<1> HIDE DEF c0
<1>3. /\ DOMAIN c1 = Fields /\ c1.pages = code.pages /\ c1.open = c0.open /\ c1.full = c0.full
      /\ c1.released = c0.released /\ c1.patches = {} /\ c1.saved = <<>> /\ c1.of = <<m, f>>
  BY <1>2 DEF Stored, Fields
<1> HIDE DEF c1
<1>4. Stored(c1) BY <1>2, <1>3 DEF Stored
<1>5. IsSequence(<<>>) /\ DOMAIN <<>> = {} BY TupleSequences
<1>6. Working(c1, c1, names)
  <2>1. AllNamed(c1, names) BY <1>3 DEF AllNamed, CodeInv
  <2>2. Kept(c1, c1) BY KeptItself
  <2> QED BY <1>3, <1>4, <1>5, <2>1, <2>2 DEF Working
<1>7. c1.of[1] = m /\ m \in DOMAIN names BY <1>3 DEF NamesOf
<1>8. Building(c1, c2, names)
  <2> HIDE DEF names
  <2> QED BY <1>6, <1>7, AcquiredBuilding DEF Threshold
<1>9. Callable(c2, names, compiled)
  <2>1. c2.of[1] = m BY <1>7, <1>8 DEF Building, Working
  <2>2. DOMAIN compiled = names[m] \cup modules[m].patch.imports
    BY DEF CodeInv, ModulesInv, IsModule, NamesOf
  <2> HIDE DEF c2, compiled, names
  <2> QED BY <2>1, <2>2 DEF Callable
<1> HIDE DEF c2, compiled, names
<1>10. Written(c1, d, names) BY <1>8, <1>9, CompileOnWritten
<1> HIDE DEF d
<1>11. Written(code, d, names) BY <1>3, <1>10 DEF Written, Kept
<1> QED BY <1>1, <1>11 DEF names

LEMMA AddressWritten ==
  ASSUME CodeInv, NEW m \in DOMAIN modules, NEW f \in DOMAIN modules[m].patch.code,
         NEW r \in Addresses(m, f)
  PROVE  Written(code, r.code, NamesOf(modules))
<1>1. CASE modules[m].compiled[f] # NotCompiled
  <2>1. r.code = code BY <1>1 DEF Addresses
  <2> QED BY <2>1, KeptItself DEF Written, CodeInv
<1>2. CASE ~(modules[m].compiled[f] # NotCompiled)
  <2>1. PICK body \in Texts(m, f) : r = CompileFunction(m, f, body) BY <1>2 DEF Addresses
  <2>2. \E p \in Payload : \E g \in DOMAIN p.code : body = p.code[g]
    <3>1. CASE buffer = m
      <4>1. body = modules[m].patch.code[f] BY <2>1, <3>1 DEF Texts
      <4>2. modules[m].patch \in Payload BY DEF CodeInv, ModulesInv, IsModule
      <4> QED BY <4>1, <4>2
    <3>2. CASE buffer # m
      <4>1. body \in UNION {{p.code[g] : g \in DOMAIN p.code} : p \in Payload}
        BY <2>1, <3>2 DEF Texts
      <4> QED BY <4>1
    <3> QED BY <3>1, <3>2
  <2>3. IsList(body) /\ \A i \in DOMAIN body : Compilable(body[i]) BY <2>2, PayloadCompilable
  <2> QED BY <2>1, <2>3, FunctionWritten
<1> QED BY <1>1, <1>2

\* The function f of module m has an address, or it could not be compiled.
Compiles(m, f, pc) == modules' = [modules EXCEPT ![m].compiled[f] = pc]

LEMMA CompiledModules ==
  ASSUME ModulesInv, NEW m \in DOMAIN modules, NEW f \in DOMAIN modules[m].patch.code, NEW pc,
         Compiles(m, f, pc)
  PROVE  ModulesInv' /\ NamesOf(modules)' = NamesOf(modules)
<1> DEFINE d == [modules[m] EXCEPT !.compiled = [modules[m].compiled EXCEPT ![f] = pc]]
<1>1. IsModule(modules[m]) /\ IsSequence(modules) BY DEF ModulesInv
<1>2. modules' = [modules EXCEPT ![m] = d] BY DEF Compiles
<1>3. DOMAIN d = {"patch", "compiled"} /\ d.patch = modules[m].patch
      /\ DOMAIN d.compiled = DOMAIN modules[m].compiled
  BY <1>1 DEF IsModule
<1> HIDE DEF d
<1>4. IsModule(d) BY <1>1, <1>3 DEF IsModule
<1> DEFINE e == [modules EXCEPT ![m] = d]
<1>5. IsSequence(e) /\ DOMAIN e = DOMAIN modules BY <1>1, ExceptSequence
<1>6. e[m] = d /\ \A k \in DOMAIN modules \ {m} : e[k] = modules[k] OBVIOUS
<1> HIDE DEF e
<1>7. modules' = e BY <1>2 DEF e
<1>8. ModulesInv' BY <1>4, <1>5, <1>6, <1>7 DEF ModulesInv, IsModule
<1>9. \A k \in DOMAIN modules : e[k].patch = modules[k].patch BY <1>3, <1>6
<1>10. NamesOf(modules)' = NamesOf(modules) BY <1>5, <1>7, <1>9 DEF NamesOf
<1> QED BY <1>8, <1>10

-------------------------------------------------------------------------------
(* Loading                                                                   *)

LEMMA EvaluatedWritten ==
  ASSUME NEW c, NEW names, Stored(c), AllNamed(c, names)
  PROVE  Written(c, EvaluateExpression(c), names)
<1> DEFINE c1 == [c EXCEPT !.open = <<>>]
           a == AcquireCodePage(c1, Threshold)
           d == EvaluateExpression(c)
<1>1. d = [a EXCEPT !.page = 0, !.open = c.open, !.count = c.count, !.active = c.active,
                    !.released = <<a.page>> \o a.released]
  BY DEF EvaluateExpression
<1>2. /\ DOMAIN c1 = Fields /\ c1.pages = c.pages /\ c1.open = <<>> /\ c1.full = c.full
      /\ c1.released = c.released
  BY DEF Stored, Fields
<1> HIDE DEF c1
<1>3. Stored(c1) BY <1>2 DEF Stored
<1>4. AllNamed(c1, names) BY <1>2 DEF AllNamed
<1>5. Taken(c1, a, Threshold) BY <1>3, AcquiredPage DEF Threshold
<1> HIDE DEF a
<1>6. Written(c1, a, names) BY <1>3, <1>4, <1>5, TakenWritten DEF Threshold
<1>7. a.page \in DOMAIN a.pages BY <1>3, <1>5, TakenPages DEF Threshold
<1>8. Stored(a) /\ AllNamed(a, names) /\ Kept(c, a) BY <1>2, <1>6 DEF Written, Kept
<1> HIDE DEF d
<1>9. /\ DOMAIN d = Fields /\ d.pages = a.pages /\ d.open = c.open /\ d.full = a.full
      /\ d.released = <<a.page>> \o a.released
  BY <1>1, <1>8 DEF Stored, Fields
<1>10. <<a.page>> \o a.released \in Seq(DOMAIN a.pages) BY <1>7, <1>8, Pushed DEF Stored
<1>11. c.open \in Seq(DOMAIN a.pages)
  <2>1. DOMAIN c.pages \subseteq DOMAIN a.pages BY <1>8 DEF Kept
  <2>2. c.open \in Seq(DOMAIN c.pages) BY DEF Stored
  <2> QED BY <2>1, <2>2
<1>12. Stored(d) BY <1>8, <1>9, <1>10, <1>11 DEF Stored
<1>13. AllNamed(d, names) /\ Kept(c, d) BY <1>8, <1>9 DEF AllNamed, Kept
<1> QED BY <1>12, <1>13 DEF Written, d

LEMMA LinkedWritten ==
  ASSUME NEW c, NEW names, Stored(c), AllNamed(c, names), NEW m \in DOMAIN names, NEW x
  PROVE  Written(c, LinkRawFunction(c, m, x), names)
<1> DEFINE a == AcquireCodePage(c, 2)
           words == OperationWords([of |-> <<m, x>>], "Raw", 0, 1, Slots(1))
           e == EmitWords(a, words)
           r == ReleaseCodePage(e, e.page)
           d == LinkRawFunction(c, m, x)
<1>1. d = [r EXCEPT !.page = 0] BY DEF LinkRawFunction, OperationWords
<1>2. Taken(c, a, 2) BY AcquiredPage
<1> HIDE DEF a
<1>3. Written(c, a, names) BY <1>2, TakenWritten
<1>4. a.page \in DOMAIN a.pages BY <1>2, TakenPages
<1>5. IsSequence(words) /\ WellNamed(words, names)
  <2> DEFINE o == [of |-> <<m, x>>]
  <2>1. o.of[1] \in DOMAIN names OBVIOUS
  <2>2. Operands(o, "Raw", Slots(1), names) BY PlainOperands
  <2> HIDE DEF o
  <2>3. /\ IsSequence(OperationWords(o, "Raw", 0, 1, Slots(1)))
        /\ WellNamed(OperationWords(o, "Raw", 0, 1, Slots(1)), names)
    BY <2>1, <2>2, OperationNamed
  <2> QED BY <2>3 DEF o
<1> HIDE DEF words
<1>6. e = Emitted(a, a.page, words) BY DEF EmitWords, Emitted
<1>7. Stored(a) /\ AllNamed(a, names) BY <1>3 DEF Written
<1>8. Written(a, e, names) /\ e.page = a.page /\ DOMAIN e.pages = DOMAIN a.pages
  BY <1>4, <1>5, <1>6, <1>7, EmittedWritten, EmittedCode
<1> HIDE DEF e
<1>9. GivenBack(e, r, e.page) BY <1>4, <1>8, ReleasedPage DEF Written
<1> HIDE DEF r, d
<1>10. Stored(r) /\ r.pages = e.pages BY <1>9 DEF GivenBack
<1>11. /\ DOMAIN d = Fields /\ d.pages = r.pages /\ d.open = r.open /\ d.full = r.full
       /\ d.released = r.released
  BY <1>1, <1>10 DEF Stored, Fields
<1>12. Stored(d) BY <1>10, <1>11 DEF Stored
<1>13. AllNamed(d, names) BY <1>8, <1>10, <1>11 DEF Written, AllNamed
<1>14. Kept(c, e) BY <1>3, <1>8 DEF Written, Kept
<1>15. Kept(c, d) BY <1>10, <1>11, <1>14 DEF Kept
<1> QED BY <1>12, <1>13, <1>15 DEF Written, d

\* The code when the first k of the bridge's exports have been linked.
LinkIter(c, m, p, n, g) ==
  g = [k \in 0 .. n |->
        IF k = 0 THEN c
        ELSE IF Exports[k] \in p.imports THEN LinkRawFunction(g[k - 1], m, Exports[k])
        ELSE g[k - 1]]

LEMMA LinkIterExists ==
  ASSUME NEW c, NEW m, NEW p
  PROVE  \A n \in Nat : \E g : LinkIter(c, m, p, n, g)
<1> DEFINE T == {n \in Nat : \E g : LinkIter(c, m, p, n, g)}
           of(g, k) == IF k = 0 THEN c
                       ELSE IF Exports[k] \in p.imports THEN LinkRawFunction(g[k - 1], m, Exports[k])
                       ELSE g[k - 1]
<1>1. 0 \in T
  <2> DEFINE g == [k \in 0 .. 0 |-> c]
  <2>1. \A k \in 0 .. 0 : k = 0 OBVIOUS
  <2>2. LinkIter(c, m, p, 0, g) BY <2>1 DEF LinkIter
  <2> QED BY <2>2
<1>2. ASSUME NEW n \in Nat, n \in T PROVE n + 1 \in T
  <2>1. PICK g : LinkIter(c, m, p, n, g) BY <1>2
  <2> DEFINE h == [k \in 0 .. n + 1 |-> of(g, k)]
  <2>2. g = [k \in 0 .. n |-> of(g, k)] BY <2>1 DEF LinkIter
  <2> HIDE DEF of
  <2>3. \A k \in 0 .. n : h[k] = g[k]
    <3> SUFFICES ASSUME NEW k \in 0 .. n PROVE h[k] = g[k] OBVIOUS
    <3>1. k \in 0 .. n + 1 OBVIOUS
    <3>2. g[k] = of(g, k) BY <2>2
    <3> QED BY <3>1, <3>2
  <2>4. \A k \in 0 .. n + 1 : k # 0 => h[k - 1] = g[k - 1]
    <3> HIDE DEF h
    <3>1. \A k \in 0 .. n + 1 : k # 0 => k - 1 \in 0 .. n OBVIOUS
    <3> QED BY <2>3, <3>1
  <2>5. h = [k \in 0 .. n + 1 |-> of(g, k)] OBVIOUS
  <2> HIDE DEF h
  <2>6. \A k \in 0 .. n + 1 : of(g, k) = of(h, k) BY <2>4 DEF of
  <2>7. h = [k \in 0 .. n + 1 |-> of(h, k)] BY <2>5, <2>6
  <2>8. LinkIter(c, m, p, n + 1, h) BY <2>7 DEF LinkIter, of
  <2> QED BY <2>8
<1>3. Nat \subseteq T
  <2> HIDE DEF T
  <2> QED BY <1>1, <1>2, Induction
<1> QED BY <1>3

LEMMA LinksWritten ==
  ASSUME NEW c, NEW names, Stored(c), AllNamed(c, names), NEW m \in DOMAIN names, NEW p
  PROVE  /\ Written(c, Links(c, m, p).code, names)
         /\ DOMAIN Links(c, m, p).compiled = DOMAIN p.code \cup p.imports
<1> DEFINE n == Len(Exports)
           g == CHOOSE g : LinkIter(c, m, p, n, g)
<1>1. n \in Nat BY ExportsAssumption DEF IsList
<1>2. Links(c, m, p).code = g[n] BY Zenon DEF Links, LinkIter
<1>3. DOMAIN Links(c, m, p).compiled = DOMAIN p.code \cup p.imports BY DEF Links
<1>4. LinkIter(c, m, p, n, g) BY <1>1, LinkIterExists
<1> HIDE DEF n, g
<1> DEFINE T == {k \in Nat : k <= n => Written(c, g[k], names)}
<1>5. 0 \in T
  <2>1. g[0] = c BY <1>1, <1>4 DEF LinkIter
  <2> QED BY <2>1, KeptItself DEF Written
<1>6. ASSUME NEW k \in Nat, k \in T PROVE k + 1 \in T
  <2> SUFFICES ASSUME k + 1 <= n PROVE Written(c, g[k + 1], names) OBVIOUS
  <2>1. Written(c, g[k], names) BY <1>1, <1>6
  <2>2. k + 1 \in 0 .. n /\ k + 1 # 0 /\ k + 1 - 1 = k BY <1>1
  <2>3. g[k + 1] = LinkRawFunction(g[k], m, Exports[k + 1]) \/ g[k + 1] = g[k]
    <3> DEFINE j == k + 1
    <3>1. j \in 0 .. n /\ j # 0 /\ j - 1 = k BY <2>2
    <3> HIDE DEF j
    <3>2. g[j] = IF j = 0 THEN c
                 ELSE IF Exports[j] \in p.imports THEN LinkRawFunction(g[j - 1], m, Exports[j])
                 ELSE g[j - 1]
      BY <1>4, <3>1 DEF LinkIter
    <3>3. g[j] = LinkRawFunction(g[k], m, Exports[j]) \/ g[j] = g[k] BY <3>1, <3>2
    <3> QED BY <3>3 DEF j
  <2>4. Written(g[k], LinkRawFunction(g[k], m, Exports[k + 1]), names)
    BY <2>1, LinkedWritten DEF Written
  <2>5. Written(c, LinkRawFunction(g[k], m, Exports[k + 1]), names)
    BY <2>1, <2>4 DEF Written, Kept
  <2> QED BY <2>1, <2>3, <2>5
<1>7. Nat \subseteq T
  <2> HIDE DEF T
  <2> QED BY <1>5, <1>6, Induction
<1>8. n \in T BY <1>1, <1>7
<1> QED BY <1>1, <1>2, <1>3, <1>8

-------------------------------------------------------------------------------
(* The steps                                                                 *)

\* What CodeStays says of two versions of the code.
Stays(c, d) ==
  \A k \in DOMAIN c.pages : \A l \in DOMAIN c.pages[k].words :
    \/ /\ k \in DOMAIN d.pages /\ l \in DOMAIN d.pages[k].words
       /\ d.pages[k].words[l] = c.pages[k].words[l]
    \/ "func" \in DOMAIN c.pages[k].words[l]
    \/ "op" \in DOMAIN c.pages[k].words[l] /\ c.pages[k].words[l].op = "Compile"

LEMMA KeptStays ==
  ASSUME NEW c, NEW d, Kept(c, d)
  PROVE  Stays(c, d)
BY DEF Kept, Stays

LEMMA WrittenStays ==
  ASSUME NEW c, NEW d, NEW names, Written(c, d, names)
  PROVE  Stays(c, d)
BY KeptStays DEF Written

LEMMA CodeInvInit == Init => CodeInv
<1> SUFFICES ASSUME Init PROVE CodeInv OBVIOUS
<1>1. modules = <<>> /\ code.pages = <<>> /\ DOMAIN code = Fields
      /\ code.open = <<>> /\ code.full = <<>> /\ code.released = <<>>
  BY DEF Init, Fields
<1>2. IsSequence(<<>>) /\ DOMAIN <<>> = {} BY TupleSequences
<1>3. <<>> \in Seq(DOMAIN code.pages) OBVIOUS
<1>4. ModulesInv BY <1>1, <1>2 DEF ModulesInv
<1>5. Stored(code) BY <1>1, <1>2, <1>3 DEF Stored
<1>6. AllNamed(code, NamesOf(modules)) BY <1>1, <1>2 DEF AllNamed
<1> QED BY <1>4, <1>5, <1>6 DEF CodeInv

LEMMA MoreNames ==
  ASSUME NEW c, NEW names, NEW more, AllNamed(c, names),
         DOMAIN names \subseteq DOMAIN more, \A m \in DOMAIN names : more[m] = names[m]
  PROVE  AllNamed(c, more)
BY DEF AllNamed, WellNamed, Named

LEMMA CodeLoad ==
  ASSUME CodeInv, NEW p \in Payload, LoadPatch(p)
  PROVE  CodeInv' /\ Stays(code, code')
<1> DEFINE names == NamesOf(modules)
           c == IF p.fails = "parse" \/ ~p.inits THEN code ELSE EvaluateExpression(code)
           n == Len(modules) + 1
           l == Links(c, n, p)
           m == [patch |-> p, compiled |-> l.compiled]
<1>1. Written(code, c, names)
  <2>1. Written(code, code, names) BY KeptItself DEF CodeInv, Written
  <2>2. Written(code, EvaluateExpression(code), names) BY EvaluatedWritten DEF CodeInv
  <2> QED BY <2>1, <2>2
<1>2. IF p.fails = "never" THEN code' = l.code /\ modules' = Append(modules, m)
      ELSE code' = c /\ UNCHANGED modules
  BY DEF LoadPatch
<1> HIDE DEF c
<1>3. CASE p.fails # "never"
  <2>1. code' = c /\ modules' = modules BY <1>2, <1>3
  <2>2. CodeInv' BY <1>1, <2>1 DEF CodeInv, ModulesInv, Written, NamesOf
  <2> QED BY <1>1, <2>1, <2>2, WrittenStays
<1>4. CASE p.fails = "never"
  <2>1. code' = l.code /\ modules' = Append(modules, m) BY <1>2, <1>4
  <2>2. IsSequence(modules) /\ \A k \in DOMAIN modules : IsModule(modules[k])
    BY DEF CodeInv, ModulesInv
  <2>3. Len(modules) \in Nat /\ DOMAIN modules = 1 .. Len(modules) BY <2>2, SequenceDomain
  <2> HIDE DEF l, m
  <2>4. /\ IsSequence(modules') /\ DOMAIN modules' = 1 .. n
        /\ \A k \in DOMAIN modules : k \in 1 .. n /\ modules'[k] = modules[k]
        /\ modules'[n] = m
    BY <2>1, <2>2, <2>3, AppendSequence
  <2> DEFINE more == NamesOf(modules')
  <2>5. DOMAIN more = 1 .. n /\ \A k \in 1 .. n : more[k] = DOMAIN modules'[k].patch.code
    BY <2>4 DEF NamesOf
  <2>6. DOMAIN names = DOMAIN modules /\ \A k \in DOMAIN modules : names[k] = DOMAIN modules[k].patch.code
    BY DEF NamesOf
  <2> HIDE DEF more, names
  <2>7. DOMAIN names \subseteq DOMAIN more /\ \A k \in DOMAIN names : more[k] = names[k]
    BY <2>4, <2>5, <2>6
  <2>8. Stored(c) /\ AllNamed(c, more) BY <1>1, <2>7, MoreNames DEF Written
  <2>9. n \in DOMAIN more BY <2>3, <2>5
  <2>10. Written(c, l.code, more) /\ DOMAIN l.compiled = DOMAIN p.code \cup p.imports
    <3> HIDE DEF n
    <3> QED BY <2>8, <2>9, LinksWritten DEF l
  <2>11. IsModule(m) BY <2>10 DEF IsModule, m
  <2>12. ModulesInv'
    <3> SUFFICES ASSUME NEW k \in DOMAIN modules' PROVE IsModule(modules'[k])
      BY <2>4 DEF ModulesInv, IsModule
    <3>1. k \in DOMAIN modules \/ k = n BY <2>3, <2>4
    <3> QED BY <2>2, <2>4, <2>11, <3>1
  <2>13. CodeInv' BY <2>1, <2>10, <2>12 DEF CodeInv, Written, more, NamesOf
  <2>14. Kept(code, l.code) BY <1>1, <2>10 DEF Written, Kept
  <2> QED BY <2>1, <2>13, <2>14, KeptStays
<1> QED BY <1>3, <1>4

LEMMA FoundFunction ==
  ASSUME CodeInv, NEW f, FindFunction(f) # 0
  PROVE  FindFunction(f) \in DOMAIN modules /\ f \in DOMAIN modules[FindFunction(f)].patch.code
<1> DEFINE I == {k \in 1 .. Len(modules) : f \in DOMAIN modules[k].patch.code}
<1>1. FindFunction(f) = IF I # {} THEN Max(I) ELSE 0 BY DEF FindFunction, SelectLastInSeq
<1>2. Len(modules) \in Nat /\ DOMAIN modules = 1 .. Len(modules)
  BY SequenceDomain DEF CodeInv, ModulesInv
<1>3. I # {} /\ FindFunction(f) = Max(I) BY <1>1
<1>4. I \in SUBSET (0 .. Len(modules)) BY <1>2
<1>5. Max(I) \in I
  <2> HIDE DEF I
  <2> QED BY <1>2, <1>3, <1>4, LargestIsMax
<1> QED BY <1>2, <1>3, <1>5

LEMMA CodeAddressed ==
  ASSUME CodeInv, NEW m \in DOMAIN modules, NEW f \in DOMAIN modules[m].patch.code,
         NEW r \in Addresses(m, f), code' = r.code, Compiles(m, f, r.pc)
  PROVE  CodeInv' /\ Stays(code, code')
<1>1. Written(code, r.code, NamesOf(modules)) BY AddressWritten
<1>3. ModulesInv' /\ NamesOf(modules)' = NamesOf(modules) BY CompiledModules DEF CodeInv
<1>4. CodeInv'
  BY <1>1, <1>3 DEF CodeInv, Written
<1> QED BY <1>1, <1>4, WrittenStays

LEMMA CodeCall ==
  ASSUME CodeInv, NEW f, CallFunction(f)
  PROVE  CodeInv' /\ Stays(code, code')
<1> DEFINE m == FindFunction(f)
<1>1. m # 0 /\ \E r \in Addresses(m, f) :
        code' = r.code /\ Compiles(m, f, r.pc)
  BY DEF CallFunction, Compiles
<1>2. m \in DOMAIN modules /\ f \in DOMAIN modules[m].patch.code BY <1>1, FoundFunction
<1> HIDE DEF m
<1> QED BY <1>1, <1>2, CodeAddressed

\* The word at the counter of the function that runs is an operation of a module there is.
LEMMA RunningWord ==
  ASSUME CodeInv, NEW op, op # "Data", Running({op})
  PROVE  /\ HasOperation(Top.pc) /\ Word(Top.pc) = code.pages[Top.pc[1]].words[Top.pc[2]]
         /\ Word(Top.pc).op = op /\ Word(Top.pc).of[1] \in DOMAIN modules
         /\ Named(code.pages[Top.pc[1]].words, NamesOf(modules), Top.pc[2])
<1> DEFINE pc == Top.pc
<1>1. Word(pc).op = op BY DEF Running
<1> HIDE DEF pc
<1>2. HasOperation(pc) BY <1>1 DEF Word, Operation
<1>3. Word(pc) = code.pages[pc[1]].words[pc[2]] BY <1>2 DEF Word
<1>4. /\ pc[1] \in DOMAIN code.pages /\ pc[2] \in DOMAIN code.pages[pc[1]].words
      /\ "op" \in DOMAIN code.pages[pc[1]].words[pc[2]]
  BY <1>2 DEF HasOperation
<1>5. Named(code.pages[pc[1]].words, NamesOf(modules), pc[2])
  BY <1>4 DEF CodeInv, AllNamed, WellNamed
<1>6. DOMAIN NamesOf(modules) = DOMAIN modules BY DEF NamesOf
<1>7. Word(pc).of[1] \in DOMAIN modules BY <1>3, <1>4, <1>5, <1>6 DEF Named
<1> QED BY <1>1, <1>2, <1>3, <1>5, <1>7 DEF pc

LEMMA CodeIndirect ==
  ASSUME CodeInv, CallIndirect
  PROVE  CodeInv' /\ Stays(code, code')
<1> DEFINE m == Word(Top.pc).of[1]
<1>1. m \in DOMAIN modules BY RunningWord DEF CallIndirect
<1>2. \/ UNCHANGED <<code, modules>>
      \/ \E f \in modules[m].patch.table : \E r \in Addresses(m, f) :
           code' = r.code /\ Compiles(m, f, r.pc)
  BY DEF CallIndirect, Compiles
<1> HIDE DEF m
<1>3. modules[m].patch.table \subseteq DOMAIN modules[m].patch.code
  BY <1>1, PayloadAssumption DEF CodeInv, ModulesInv, IsModule, IsPayload
<1>4. CASE UNCHANGED <<code, modules>>
  <2>1. CodeInv' BY <1>4 DEF CodeInv, ModulesInv, NamesOf
  <2> QED BY <1>4, <2>1, KeptItself, KeptStays
<1> QED BY <1>1, <1>2, <1>3, <1>4, CodeAddressed

CalledAt(c, k, l) == [c EXCEPT !.pages[k].words[l].op = "Call"]
AddressedAt(c, k, l, pc) == [c EXCEPT !.pages[k].words[l] = Operand(pc)]

\* d is c with another word at l of page k.
Rewritten(c, d, names, k, l) ==
  /\ Stored(d) /\ AllNamed(d, names)
  /\ d.open = c.open /\ d.full = c.full /\ d.released = c.released
  /\ d.count = c.count /\ d.active = c.active
  /\ DOMAIN d.pages = DOMAIN c.pages
  /\ \A j \in DOMAIN c.pages \ {k} : d.pages[j] = c.pages[j]
  /\ d.pages[k].lines = c.pages[k].lines /\ Len(d.pages[k].words) = Len(c.pages[k].words)
  /\ DOMAIN d.pages[k].words = DOMAIN c.pages[k].words
  /\ \A i \in DOMAIN c.pages[k].words \ {l} : d.pages[k].words[i] = c.pages[k].words[i]

\* An operation that compiled a function calls it from now on.
LEMMA SiteRewritten ==
  ASSUME NEW c, NEW names, Stored(c), AllNamed(c, names), NEW k \in DOMAIN c.pages,
         NEW l \in DOMAIN c.pages[k].words, "op" \in DOMAIN c.pages[k].words[l],
         c.pages[k].words[l].op = "Compile"
  PROVE  /\ Rewritten(c, CalledAt(c, k, l), names, k, l)
         /\ CalledAt(c, k, l).pages[k].words[l].op = "Call"
<1> DEFINE s == c.pages[k].words
           w == [s[l] EXCEPT !.op = "Call"]
           t == [s EXCEPT ![l] = w]
           p == [c.pages[k] EXCEPT !.words = t]
           pages == [c.pages EXCEPT ![k] = p]
           d == CalledAt(c, k, l)
<1>1. d = [c EXCEPT !.pages = pages] BY DEF CalledAt
<1>2. IsPage(c.pages[k]) /\ IsSequence(s) /\ IsSequence(c.pages) BY DEF Stored, IsPage
<1>3. DOMAIN w = DOMAIN s[l] /\ w.op = "Call" /\ w.of = s[l].of
  <2> DEFINE v == s[l]
  <2>1. "op" \in DOMAIN v OBVIOUS
  <2> HIDE DEF v
  <2>2. [v EXCEPT !.op = "Call"].op = "Call" /\ [v EXCEPT !.op = "Call"].of = v.of
        /\ DOMAIN [v EXCEPT !.op = "Call"] = DOMAIN v
    BY <2>1
  <2> QED BY <2>2 DEF v
<1> HIDE DEF w
<1>4. /\ IsSequence(t) /\ DOMAIN t = DOMAIN s /\ Len(t) = Len(s) /\ t[l] = w
      /\ \A i \in DOMAIN s \ {l} : t[i] = s[i]
  <2>1. IsSequence(t) /\ DOMAIN t = DOMAIN s /\ Len(t) = Len(s) BY <1>2, ExceptSequence
  <2>2. t[l] = w /\ \A i \in DOMAIN s \ {l} : t[i] = s[i] OBVIOUS
  <2> QED BY <2>1, <2>2
<1> HIDE DEF t
<1>5. IsPage(p) /\ p.words = t /\ p.lines = c.pages[k].lines BY <1>2, <1>4 DEF IsPage
<1> HIDE DEF p
<1>6. /\ IsSequence(pages) /\ DOMAIN pages = DOMAIN c.pages /\ pages[k] = p
      /\ \A j \in DOMAIN c.pages \ {k} : pages[j] = c.pages[j]
  <2>1. IsSequence(pages) /\ DOMAIN pages = DOMAIN c.pages BY <1>2, ExceptSequence
  <2>2. pages[k] = p /\ \A j \in DOMAIN c.pages \ {k} : pages[j] = c.pages[j] OBVIOUS
  <2> QED BY <2>1, <2>2
<1> HIDE DEF pages, d
<1>7. /\ DOMAIN d = Fields /\ d.pages = pages /\ d.open = c.open /\ d.full = c.full
      /\ d.released = c.released /\ d.count = c.count /\ d.active = c.active
  BY <1>1 DEF Stored, Fields
<1>8. Stored(d)
  <2>1. \A j \in DOMAIN d.pages : IsPage(d.pages[j]) BY <1>5, <1>6, <1>7 DEF Stored
  <2> QED BY <2>1, <1>6, <1>7 DEF Stored
<1>9. WellNamed(t, names)
  <2> SUFFICES ASSUME NEW i \in DOMAIN s PROVE Named(t, names, i) BY <1>4 DEF WellNamed
  <2>1. Named(s, names, i) BY DEF AllNamed, WellNamed
  <2> HIDE DEF s
  <2>2. CASE i = l
    <3>1. t[i] = w /\ DOMAIN w = DOMAIN s[i] /\ w.of = s[i].of /\ w.op = "Call" BY <1>3, <1>4, <2>2
    <3> QED BY <2>1, <3>1 DEF Named
  <2>3. CASE i # l
    <3>1. t[i] = s[i] BY <1>4, <2>3
    <3>2. \A j \in DOMAIN s : j \in DOMAIN t /\ ("func" \in DOMAIN s[j] => t[j] = s[j])
      <4>1. "func" \notin DOMAIN s[l]
        <5>1. Named(s, names, l) /\ "op" \in DOMAIN s[l] BY DEF AllNamed, WellNamed, s
        <5> QED BY <5>1 DEF Named
      <4> QED BY <1>4, <4>1
    <3> QED BY <2>1, <3>1, <3>2 DEF Named
  <2> QED BY <2>2, <2>3
<1>10. AllNamed(d, names) BY <1>5, <1>6, <1>7, <1>9 DEF AllNamed
<1> QED BY <1>3, <1>4, <1>5, <1>6, <1>7, <1>8, <1>10 DEF d, s, Rewritten

\* The operand behind it becomes the address of the function.
LEMMA OperandRewritten ==
  ASSUME NEW c, NEW names, Stored(c), AllNamed(c, names), NEW k \in DOMAIN c.pages,
         NEW l \in DOMAIN c.pages[k].words, "op" \notin DOMAIN c.pages[k].words[l],
         l - 1 \in DOMAIN c.pages[k].words, c.pages[k].words[l - 1].op # "Compile", NEW pc
  PROVE  Rewritten(c, AddressedAt(c, k, l, pc), names, k, l)
<1> DEFINE s == c.pages[k].words
           w == Operand(pc)
           t == [s EXCEPT ![l] = w]
           p == [c.pages[k] EXCEPT !.words = t]
           pages == [c.pages EXCEPT ![k] = p]
           d == AddressedAt(c, k, l, pc)
<1>1. d = [c EXCEPT !.pages = pages] BY DEF AddressedAt
<1>2. IsPage(c.pages[k]) /\ IsSequence(s) /\ IsSequence(c.pages) BY DEF Stored, IsPage
<1>3. "op" \notin DOMAIN w BY WordDomains
<1> HIDE DEF w
<1>4. /\ IsSequence(t) /\ DOMAIN t = DOMAIN s /\ Len(t) = Len(s) /\ t[l] = w
      /\ \A i \in DOMAIN s \ {l} : t[i] = s[i]
  <2>1. IsSequence(t) /\ DOMAIN t = DOMAIN s /\ Len(t) = Len(s) BY <1>2, ExceptSequence
  <2>2. t[l] = w /\ \A i \in DOMAIN s \ {l} : t[i] = s[i] OBVIOUS
  <2> QED BY <2>1, <2>2
<1> HIDE DEF t
<1>5. IsPage(p) /\ p.words = t /\ p.lines = c.pages[k].lines BY <1>2, <1>4 DEF IsPage
<1> HIDE DEF p
<1>6. /\ IsSequence(pages) /\ DOMAIN pages = DOMAIN c.pages /\ pages[k] = p
      /\ \A j \in DOMAIN c.pages \ {k} : pages[j] = c.pages[j]
  <2>1. IsSequence(pages) /\ DOMAIN pages = DOMAIN c.pages BY <1>2, ExceptSequence
  <2>2. pages[k] = p /\ \A j \in DOMAIN c.pages \ {k} : pages[j] = c.pages[j] OBVIOUS
  <2> QED BY <2>1, <2>2
<1> HIDE DEF pages, d
<1>7. /\ DOMAIN d = Fields /\ d.pages = pages /\ d.open = c.open /\ d.full = c.full
      /\ d.released = c.released /\ d.count = c.count /\ d.active = c.active
  BY <1>1 DEF Stored, Fields
<1>8. Stored(d)
  <2>1. \A j \in DOMAIN d.pages : IsPage(d.pages[j]) BY <1>5, <1>6, <1>7 DEF Stored
  <2> QED BY <2>1, <1>6, <1>7 DEF Stored
<1>9. WellNamed(t, names)
  <2> SUFFICES ASSUME NEW i \in DOMAIN s PROVE Named(t, names, i) BY <1>4 DEF WellNamed
  <2>1. Named(s, names, i) BY DEF AllNamed, WellNamed
  <2>2. Len(s) \in Nat /\ DOMAIN s = 1 .. Len(s) BY <1>2, SequenceDomain
  <2>3. CASE i = l BY <1>3, <1>4, <2>3 DEF Named
  <2>4. CASE i # l
    <3>1. t[i] = s[i] BY <1>4, <2>4
    <3>2. s[i].op = "Compile" => i + 1 # l BY <2>2
    <3> HIDE DEF s
    <3>3. \A j \in DOMAIN s : j \in DOMAIN t /\ (j # l => t[j] = s[j]) BY <1>4
    <3> QED BY <2>1, <3>1, <3>2, <3>3 DEF Named
  <2> QED BY <2>3, <2>4
<1>10. AllNamed(d, names) BY <1>5, <1>6, <1>7, <1>9 DEF AllNamed
<1> QED BY <1>4, <1>5, <1>6, <1>7, <1>8, <1>10 DEF d, s, Rewritten

\* What the operation at l of page k, that compiles a function f of module m, does to the
\* code: d is the code that r leaves, where it is a call.
SiteCompiled(m, f, r, k, l, d) ==
  /\ k \in DOMAIN code.pages /\ l \in DOMAIN code.pages[k].words /\ l + 1 \in DOMAIN code.pages[k].words
  /\ l + 1 # l
  /\ "op" \in DOMAIN code.pages[k].words[l] /\ code.pages[k].words[l].op = "Compile"
  /\ "func" \in DOMAIN code.pages[k].words[l + 1]
  /\ m \in DOMAIN modules /\ f \in DOMAIN modules[m].patch.code
  /\ r \in Addresses(m, f) /\ Compiles(m, f, r.pc)
  /\ Written(code, r.code, NamesOf(modules))
  /\ Rewritten(r.code, d, NamesOf(modules), k, l)
  /\ code' = d \/ Rewritten(d, code', NamesOf(modules), k, l + 1)

LEMMA SiteCompiles ==
  ASSUME CodeInv, Compile
  PROVE  \E m, f, r, k, l, d : SiteCompiled(m, f, r, k, l, d)
<1> DEFINE site == Top.pc
           k == site[1]
           l == site[2]
           m == Word(site).of[1]
           f == Nth(site, 1).func
           names == NamesOf(modules)
<1>1. /\ k \in DOMAIN code.pages /\ l \in DOMAIN code.pages[k].words
      /\ "op" \in DOMAIN code.pages[k].words[l] /\ code.pages[k].words[l].op = "Compile"
      /\ Word(site) = code.pages[k].words[l] /\ m \in DOMAIN modules
      /\ Named(code.pages[k].words, names, l)
  BY RunningWord DEF Compile, HasOperation
<1>2. /\ l + 1 \in DOMAIN code.pages[k].words /\ "func" \in DOMAIN code.pages[k].words[l + 1]
      /\ code.pages[k].words[l + 1].func \in names[m]
  BY <1>1 DEF Named
<1>3. f = code.pages[k].words[l + 1].func BY DEF Nth
<1>4. names[m] = DOMAIN modules[m].patch.code BY <1>1 DEF NamesOf
<1>5. f \in DOMAIN modules[m].patch.code BY <1>2, <1>3, <1>4
<1>6. PICK r \in Addresses(m, f) :
        LET rewritten == [r.code EXCEPT !.pages[k].words[l].op = "Call"]
        IN /\ Compiles(m, f, r.pc)
           /\ \/ code' = rewritten
              \/ code' = [rewritten EXCEPT !.pages[k].words[l + 1] = Operand(r.pc)]
  BY DEF Compile, Compiles
<1> DEFINE c == r.code
           d == CalledAt(c, k, l)
           e == AddressedAt(d, k, l + 1, r.pc)
<1>7. code' = d \/ code' = e BY <1>6 DEF CalledAt, AddressedAt
<1>8. Written(code, c, names)
  <2> HIDE DEF m, f
  <2> QED BY <1>1, <1>5, AddressWritten
<1> HIDE DEF m, f, names, c
<1>10. /\ k \in DOMAIN c.pages /\ l \in DOMAIN c.pages[k].words
       /\ c.pages[k].words[l] = code.pages[k].words[l]
       /\ l + 1 \in DOMAIN c.pages[k].words
       /\ c.pages[k].words[l + 1] = code.pages[k].words[l + 1]
  BY <1>1, <1>2, <1>8 DEF Written, Kept
<1>11. Len(c.pages[k].words) \in Nat /\ DOMAIN c.pages[k].words = 1 .. Len(c.pages[k].words)
  BY <1>8, <1>10, SequenceDomain DEF Written, Stored, IsPage
<1>12. l \in Int /\ l + 1 # l /\ l + 1 - 1 = l BY <1>10, <1>11
<1> HIDE DEF k, l, d
<1>13. Rewritten(c, d, names, k, l) /\ d.pages[k].words[l].op = "Call"
  <2>1. "op" \in DOMAIN c.pages[k].words[l] /\ c.pages[k].words[l].op = "Compile" BY <1>1, <1>10
  <2> QED BY <1>8, <1>10, <2>1, SiteRewritten DEF Written, d
<1>14. Rewritten(d, e, names, k, l + 1)
  <2>1. "op" \notin DOMAIN c.pages[k].words[l + 1]
    <3>1. Named(c.pages[k].words, names, l + 1) BY <1>8, <1>10 DEF Written, AllNamed, WellNamed
    <3> QED BY <1>2, <1>10, <3>1 DEF Named
  <2>2. d.pages[k].words[l + 1] = c.pages[k].words[l + 1] BY <1>10, <1>12, <1>13 DEF Rewritten
  <2> DEFINE i == l + 1
  <2>3. i \in DOMAIN d.pages[k].words /\ "op" \notin DOMAIN d.pages[k].words[i]
        /\ i - 1 \in DOMAIN d.pages[k].words /\ d.pages[k].words[i - 1].op # "Compile"
    BY <1>10, <1>12, <1>13, <2>1, <2>2 DEF Rewritten
  <2>4. k \in DOMAIN d.pages BY <1>10, <1>13 DEF Rewritten
  <2> DEFINE pc == r.pc
  <2> HIDE DEF i, pc
  <2>5. Stored(d) /\ AllNamed(d, names) BY <1>13 DEF Rewritten
  <2>6. Rewritten(d, AddressedAt(d, k, i, pc), names, k, i) BY <2>3, <2>4, <2>5, OperandRewritten
  <2> QED BY <2>6 DEF i, pc
<1> HIDE DEF e
<1>15. code' = d \/ Rewritten(d, code', names, k, l + 1)
  <2>1. ASSUME NEW x, x = e PROVE Rewritten(d, x, names, k, l + 1) BY <1>14, <2>1
  <2> QED BY <1>7, <2>1
<1>16. Compiles(m, f, r.pc) BY <1>6 DEF m, f
<1>17. SiteCompiled(m, f, r, k, l, d)
  BY <1>1, <1>2, <1>5, <1>6, <1>8, <1>12, <1>13, <1>15, <1>16 DEF SiteCompiled, c, names
<1> QED BY <1>17

LEMMA CodeCompile ==
  ASSUME CodeInv, Compile
  PROVE  CodeInv' /\ Stays(code, code')
<1> DEFINE names == NamesOf(modules)
<1>1. PICK m, f, r, k, l, d : SiteCompiled(m, f, r, k, l, d) BY SiteCompiles
<1>2. /\ m \in DOMAIN modules /\ f \in DOMAIN modules[m].patch.code /\ Compiles(m, f, r.pc)
      /\ l + 1 # l
      /\ Written(code, r.code, names) /\ Rewritten(r.code, d, names, k, l)
      /\ code' = d \/ Rewritten(d, code', names, k, l + 1)
  BY <1>1 DEF SiteCompiled
<1>9. ModulesInv' /\ NamesOf(modules)' = names BY <1>2, CompiledModules DEF CodeInv
<1> DEFINE c == r.code
<1> HIDE DEF names, c
<1>12. /\ Written(code, c, names) /\ Rewritten(c, d, names, k, l)
       /\ code' = d \/ Rewritten(d, code', names, k, l + 1)
  BY <1>2 DEF c
<1>15. CodeInv' BY <1>9, <1>12 DEF CodeInv, Rewritten
<1>16. ASSUME NEW j \in DOMAIN code.pages, NEW i \in DOMAIN code.pages[j].words,
              ~(j = k /\ i = l), ~(j = k /\ i = l + 1)
       PROVE  /\ j \in DOMAIN code'.pages /\ i \in DOMAIN code'.pages[j].words
              /\ code'.pages[j].words[i] = code.pages[j].words[i]
  <2>1. /\ j \in DOMAIN c.pages /\ i \in DOMAIN c.pages[j].words
        /\ c.pages[j].words[i] = code.pages[j].words[i]
    BY <1>12 DEF Written, Kept
  <2>2. /\ j \in DOMAIN d.pages /\ i \in DOMAIN d.pages[j].words
        /\ d.pages[j].words[i] = code.pages[j].words[i]
    BY <1>12, <1>16, <2>1 DEF Rewritten
  <2>3. CASE code' = d BY <2>2, <2>3
  <2>4. CASE Rewritten(d, code', names, k, l + 1) BY <1>16, <2>2, <2>4 DEF Rewritten
  <2> QED BY <1>12, <2>3, <2>4
<1>17. Stays(code, code')
  <2> SUFFICES ASSUME NEW j \in DOMAIN code.pages, NEW i \in DOMAIN code.pages[j].words
               PROVE  \/ /\ j \in DOMAIN code'.pages /\ i \in DOMAIN code'.pages[j].words
                         /\ code'.pages[j].words[i] = code.pages[j].words[i]
                      \/ "func" \in DOMAIN code.pages[j].words[i]
                      \/ /\ "op" \in DOMAIN code.pages[j].words[i]
                         /\ code.pages[j].words[i].op = "Compile"
    BY DEF Stays
  <2> QED BY <1>1, <1>16 DEF SiteCompiled
<1> QED BY <1>15, <1>17

\* Every other step leaves the code and the patches alone.
LEMMA CodeOthers ==
  ASSUME CodeInv, UNCHANGED <<code, modules>>
  PROVE  CodeInv' /\ Stays(code, code')
<1>1. CodeInv' BY DEF CodeInv, ModulesInv, NamesOf
<1> QED BY <1>1, KeptItself, KeptStays

LEMMA CodeStep ==
  ASSUME CodeInv, [Next]_vars, ~Reset
  PROVE  CodeInv' /\ Stays(code, code')
<1>1. CASE \E p \in Payload : LoadPatch(p) BY <1>1, CodeLoad
<1>2. CASE \E f \in Names : CallFunction(f) BY <1>2, CodeCall
<1>3. CASE Compile BY <1>3, CodeCompile
<1>4. CASE CallIndirect BY <1>4, CodeIndirect
<1>5. CASE \/ Entry \/ Op \/ MemGrow \/ Unreachable \/ Branch \/ BranchIf \/ BranchTable
           \/ Loop \/ ContinueLoop \/ ContinueLoopIf \/ Call \/ Return \/ UNCHANGED vars
  <2>1. UNCHANGED <<code, modules>>
    BY <1>5 DEF Entry, Op, MemGrow, Unreachable, Branch, BranchIf, BranchTable, Loop, ContinueLoop,
                ContinueLoopIf, Call, Return, Goto, Continue, vars
  <2> QED BY <2>1, CodeOthers
<1> QED BY <1>1, <1>2, <1>3, <1>4, <1>5 DEF Next, Bridge, Run

LEMMA CodeReset ==
  ASSUME CodeInv, Reset
  PROVE  CodeInv' /\ modules' = <<>>
<1> DEFINE c == Cleared(code)
           d == [c EXCEPT !.pages = <<>>, !.open = <<>>, !.full = <<>>, !.released = <<>>,
                          !.count = 0, !.active = 0]
<1>1. code' = d /\ modules' = <<>> BY DEF Reset
<1>2. DOMAIN c = Fields BY ClearedCode DEF CodeInv, Stored
<1> HIDE DEF c
<1>3. /\ DOMAIN d = Fields /\ d.pages = <<>> /\ d.open = <<>> /\ d.full = <<>> /\ d.released = <<>>
  BY <1>2 DEF Fields
<1> HIDE DEF d
<1>4. IsSequence(<<>>) /\ DOMAIN <<>> = {} BY TupleSequences
<1>5. <<>> \in Seq(DOMAIN d.pages) OBVIOUS
<1>6. Stored(d) BY <1>3, <1>4, <1>5 DEF Stored
<1>7. AllNamed(d, NamesOf(<<>>)) BY <1>3, <1>4 DEF AllNamed
<1>8. ModulesInv' BY <1>1, <1>4 DEF ModulesInv
<1>9. CodeInv' BY <1>1, <1>6, <1>7, <1>8 DEF CodeInv
<1> QED BY <1>1, <1>9

\* In every state the pages and their lists are well formed, and the words that compile a
\* function name one that has code: m3_compile.c and m3_exec.c rewrite nothing else.
THEOREM CodeInvariant == Spec => []CodeInv
<1>1. Init => CodeInv BY CodeInvInit
<1>2. CodeInv /\ [Next]_vars => CodeInv' BY CodeStep, CodeReset
<1> QED BY <1>1, <1>2, PTL DEF Spec

\* Code that was written stays, whatever is loaded, compiled or run meanwhile, apart from the
\* call that finds its function (op_Compile, m3_exec.c:173).
THEOREM WrittenCodeStays == Spec => CodeStays
<1> DEFINE A == modules' # <<>> =>
             \A k \in DOMAIN code.pages : \A l \in DOMAIN code.pages[k].words :
               \/ l \in DOMAIN code'.pages[k].words /\ code'.pages[k].words[l] = code.pages[k].words[l]
               \/ "func" \in DOMAIN code.pages[k].words[l]
               \/ "op" \in DOMAIN code.pages[k].words[l] /\ code.pages[k].words[l].op = "Compile"
<1>1. CodeInv /\ [Next]_vars => A BY CodeStep, CodeReset DEF Stays
<1>2. CodeInv /\ [Next]_vars => [A]_vars BY <1>1
<1>3. CodeStays <=> [][A]_vars BY Zenon DEF CodeStays
<1> HIDE DEF A
<1> QED BY <1>2, <1>3, CodeInvariant, PTL DEF Spec

-------------------------------------------------------------------------------
(* The functions that run                                                    *)

IsFrame(fr) == DOMAIN fr = {"pc", "loops", "host", "moved"}

RawAt(pc) == Word(pc).op = "Raw"

\* Whoever waits for the bridge is at a word that calls it; the others know where memory is.
FramesInv ==
  /\ IsSequence(frames) /\ \A i \in DOMAIN frames : IsFrame(frames[i])
  /\ frames # <<>> => frames[1].host
  /\ \A i \in DOMAIN frames : i + 1 \in DOMAIN frames /\ frames[i + 1].host => RawAt(frames[i].pc)
  /\ frames # <<>> /\ ~RawAt(Top.pc) => ~Top.moved

\* What is left of the functions that ran.
Restacked ==
  /\ IsSequence(frames') /\ \A i \in DOMAIN frames' : IsFrame(frames'[i])
  /\ frames' # <<>> => frames'[1].host
  /\ \A i \in DOMAIN frames' : i + 1 \in DOMAIN frames' /\ frames'[i + 1].host =>
       i \in DOMAIN frames /\ RawAt(frames[i].pc) /\ frames'[i].pc = frames[i].pc
  /\ frames' # <<>> =>
       \/ ~frames'[Len(frames')].moved
       \/ /\ Len(frames') \in DOMAIN frames /\ RawAt(frames[Len(frames')].pc)
          /\ frames'[Len(frames')].pc = frames[Len(frames')].pc

LEMMA RawStays ==
  ASSUME CodeInv, Stays(code, code'), NEW pc, RawAt(pc)
  PROVE  RawAt(pc)'
<1> DEFINE k == pc[1]
           l == pc[2]
           w == code.pages[k].words[l]
<1>1. HasOperation(pc) BY DEF RawAt, Word, Operation
<1>2. k \in DOMAIN code.pages /\ l \in DOMAIN code.pages[k].words /\ "op" \in DOMAIN w
  BY <1>1 DEF HasOperation
<1>3. w.op = "Raw" BY <1>1 DEF RawAt, Word
<1>4. "func" \notin DOMAIN w
  <2>1. Named(code.pages[k].words, NamesOf(modules), l) BY <1>2 DEF CodeInv, AllNamed, WellNamed
  <2> QED BY <1>2, <2>1 DEF Named
<1>5. k \in DOMAIN code'.pages /\ l \in DOMAIN code'.pages[k].words /\ code'.pages[k].words[l] = w
  <2> HIDE DEF k, l
  <2> QED BY <1>2, <1>3, <1>4 DEF Stays
<1>6. HasOperation(pc)' BY <1>2, <1>5 DEF HasOperation
<1>7. Word(pc)' = code'.pages[k].words[l] BY <1>6 DEF Word
<1> QED BY <1>3, <1>5, <1>7 DEF RawAt

LEMMA FramesRestacked ==
  ASSUME CodeInv, Stays(code, code'), Restacked
  PROVE  FramesInv'
<1>1. ASSUME NEW i \in DOMAIN frames', i + 1 \in DOMAIN frames', frames'[i + 1].host
      PROVE  RawAt(frames[i].pc)'
  <2>1. i \in DOMAIN frames /\ RawAt(frames[i].pc) /\ frames'[i].pc = frames[i].pc
    BY <1>1 DEF Restacked
  <2> DEFINE pc == frames[i].pc
  <2> HIDE DEF pc
  <2>2. ASSUME NEW x, x = frames[i].pc PROVE RawAt(x)'
    BY <2>1, <2>2, RawStays
  <2>3. ASSUME NEW x, x = frames'[i].pc PROVE RawAt(x)' BY <2>1, <2>2, <2>3
  <2> QED BY <2>3 DEF RawAt, Word, HasOperation
<1>2. ASSUME frames' # <<>>, ~RawAt(Top.pc)' PROVE ~Top'.moved
  <2> DEFINE n == Len(frames')
  <2>1. Top' = frames'[n] BY DEF Top, Last
  <2>2. CASE ~frames'[n].moved BY <2>1, <2>2
  <2>3. CASE RawAt(frames[n].pc) /\ frames'[n].pc = frames[n].pc
    <3>1. ASSUME NEW x, x = frames[n].pc PROVE RawAt(x)' BY <2>3, <3>1, RawStays
    <3>2. ASSUME NEW x, x = Top'.pc PROVE RawAt(x)' BY <2>1, <2>3, <3>1, <3>2
    <3>3. RawAt(Top.pc)' BY <3>2 DEF RawAt, Word, HasOperation
    <3> QED BY <1>2, <3>3
  <2> QED BY <1>2, <2>2, <2>3 DEF Restacked
<1> QED BY <1>1, <1>2 DEF Restacked, FramesInv

LEMMA FramesLength ==
  ASSUME FramesInv
  PROVE  /\ Len(frames) \in Nat /\ DOMAIN frames = 1 .. Len(frames)
         /\ frames # <<>> => Len(frames) # 0 /\ Top = frames[Len(frames)] /\ Len(frames) \in DOMAIN frames
<1>1. Len(frames) \in Nat /\ DOMAIN frames = 1 .. Len(frames) BY SequenceDomain DEF FramesInv
<1>2. frames # <<>> => Len(frames) # 0
  <2>1. PICK S : frames \in Seq(S) BY DEF FramesInv, IsSequence
  <2> QED BY <2>1
<1>3. Top = frames[Len(frames)] BY DEF Top, Last
<1> QED BY <1>1, <1>2, <1>3

\* The same functions run, each where it was, and the innermost knows where memory is.
LEMMA SameStack ==
  ASSUME FramesInv, frames # <<>>, IsSequence(frames'), Len(frames') = Len(frames),
         \A i \in DOMAIN frames : IsFrame(frames'[i]) /\ frames'[i].host = frames[i].host,
         \A i \in 1 .. Len(frames) - 1 : frames'[i].pc = frames[i].pc,
         ~frames'[Len(frames)].moved
  PROVE  Restacked
<1>1. Len(frames) \in Nat /\ DOMAIN frames = 1 .. Len(frames) /\ Len(frames) # 0 BY FramesLength
<1>2. DOMAIN frames' = 1 .. Len(frames) BY SequenceDomain
<1>3. frames'[1].host BY <1>1 DEF FramesInv
<1>4. ASSUME NEW i \in DOMAIN frames', i + 1 \in DOMAIN frames', frames'[i + 1].host
      PROVE  i \in DOMAIN frames /\ RawAt(frames[i].pc) /\ frames'[i].pc = frames[i].pc
  <2>1. i \in DOMAIN frames /\ i + 1 \in DOMAIN frames /\ i \in 1 .. Len(frames) - 1
    BY <1>1, <1>2, <1>4
  <2>2. frames[i + 1].host BY <1>4, <2>1
  <2> QED BY <2>1, <2>2 DEF FramesInv
<1> QED BY <1>1, <1>2, <1>3, <1>4 DEF Restacked

\* Another function begins, which the bridge calls only where it is waited for.
LEMMA OneMore ==
  ASSUME FramesInv, IsSequence(frames'), Len(frames') = Len(frames) + 1,
         \A i \in DOMAIN frames : IsFrame(frames'[i]) /\ frames'[i].host = frames[i].host,
         \A i \in 1 .. Len(frames) - 1 : frames'[i].pc = frames[i].pc,
         IsFrame(frames'[Len(frames) + 1]), ~frames'[Len(frames) + 1].moved,
         frames = <<>> => frames'[Len(frames) + 1].host,
         frames # <<>> /\ frames'[Len(frames) + 1].host =>
           RawAt(Top.pc) /\ frames'[Len(frames)].pc = Top.pc
  PROVE  Restacked
<1>1. Len(frames) \in Nat /\ DOMAIN frames = 1 .. Len(frames) BY FramesLength
<1>2. DOMAIN frames' = 1 .. Len(frames) + 1 BY SequenceDomain
<1>3. frames'[1].host
  <2>1. CASE frames = <<>> BY <2>1, TupleSequences
  <2>2. CASE frames # <<>> BY <1>1, <2>2, FramesLength DEF FramesInv
  <2> QED BY <2>1, <2>2
<1>4. ASSUME NEW i \in DOMAIN frames', i + 1 \in DOMAIN frames', frames'[i + 1].host
      PROVE  i \in DOMAIN frames /\ RawAt(frames[i].pc) /\ frames'[i].pc = frames[i].pc
  <2>1. i \in DOMAIN frames BY <1>1, <1>2, <1>4
  <2>2. CASE i = Len(frames)
    <3>1. frames # <<>> BY <1>1, <2>1, TupleSequences
    <3>2. Top = frames[Len(frames)] BY <3>1, FramesLength
    <3> QED BY <1>4, <2>1, <2>2, <3>1, <3>2
  <2>3. CASE i # Len(frames)
    <3>1. i + 1 \in DOMAIN frames /\ i \in 1 .. Len(frames) - 1 BY <1>1, <2>1, <2>3
    <3>2. frames[i + 1].host BY <1>4, <3>1
    <3> QED BY <2>1, <3>1, <3>2 DEF FramesInv
  <2> QED BY <2>2, <2>3
<1>5. \A i \in DOMAIN frames' : IsFrame(frames'[i])
  <2> SUFFICES ASSUME NEW i \in DOMAIN frames' PROVE IsFrame(frames'[i]) OBVIOUS
  <2>1. i \in DOMAIN frames \/ i = Len(frames) + 1 BY <1>1, <1>2
  <2> QED BY <2>1
<1> QED BY <1>3, <1>4, <1>5 DEF Restacked

\* The innermost functions are gone, up to and with one that the bridge called.
LEMMA BackToBridge ==
  ASSUME FramesInv, NEW n \in Nat, n < Len(frames), frames[n + 1].host,
         frames' = SubSeq(frames, 1, n)
  PROVE  Restacked
<1>1. Len(frames) \in Nat /\ DOMAIN frames = 1 .. Len(frames) BY FramesLength
<1>2. PICK S : frames \in Seq(S) BY DEF FramesInv, IsSequence
<1>3. /\ frames' \in Seq(S) /\ Len(frames') = n
      /\ \A l \in 1 .. n : frames'[l] = frames[l]
  <2>1. 1 \in 1 .. Len(frames) + 1 /\ n \in 0 .. Len(frames) BY <1>1
  <2>2. (1 <= n \/ n = 0) /\ n - 1 + 1 = n OBVIOUS
  <2>3. \A l \in 1 .. n : 1 + l - 1 = l OBVIOUS
  <2>4. /\ frames' \in Seq(S) /\ Len(frames') = (IF 1 <= n THEN n - 1 + 1 ELSE 0)
        /\ \A l \in 1 .. Len(frames') : frames'[l] = frames[1 + l - 1]
    BY <1>2, <2>1, SubSequence
  <2>5. Len(frames') = n BY <2>2, <2>4
  <2> QED BY <2>3, <2>4, <2>5
<1>4. IsSequence(frames') /\ DOMAIN frames' = 1 .. n
  <2> DEFINE f == frames'
  <2>1. f \in Seq(S) /\ Len(f) = n BY <1>3
  <2> HIDE DEF f
  <2>2. IsSequence(f) BY <2>1 DEF IsSequence
  <2>3. DOMAIN f = 1 .. n BY <2>1, <2>2, SequenceDomain
  <2> QED BY <2>2, <2>3 DEF f
<1>5. \A l \in 1 .. n : l \in DOMAIN frames BY <1>1
<1>6. \A i \in DOMAIN frames' : IsFrame(frames'[i]) BY <1>3, <1>4, <1>5 DEF FramesInv
<1>7. n # 0 => frames'[1].host
  <2>1. n # 0 => 1 \in 1 .. n /\ frames # <<>> BY <1>1, TupleSequences
  <2> QED BY <1>3, <2>1 DEF FramesInv
<1>8. ASSUME NEW i \in DOMAIN frames', i + 1 \in DOMAIN frames', frames'[i + 1].host
      PROVE  i \in DOMAIN frames /\ RawAt(frames[i].pc) /\ frames'[i].pc = frames[i].pc
  <2>1. i \in 1 .. n /\ i + 1 \in 1 .. n /\ frames[i + 1].host BY <1>3, <1>4, <1>8
  <2> QED BY <1>3, <1>5, <2>1 DEF FramesInv
<1>9. n # 0 => n \in DOMAIN frames /\ RawAt(frames[n].pc) /\ frames'[n].pc = frames[n].pc
  <2>1. n # 0 => n \in 1 .. n /\ n + 1 \in DOMAIN frames BY <1>1
  <2> QED BY <1>3, <1>5, <2>1 DEF FramesInv
<1>10. frames' # <<>> => n # 0 BY <1>3
<1> QED BY <1>3, <1>4, <1>6, <1>7, <1>8, <1>9, <1>10 DEF Restacked

\* The functions that run go on as they were, and the innermost, which knows where memory
\* is, as x.
LEMMA TopReplaced ==
  ASSUME FramesInv, frames # <<>>, NEW x, IsFrame(x), x.host = Top.host, ~x.moved,
         frames' = [frames EXCEPT ![Len(frames)] = x]
  PROVE  Restacked
<1> DEFINE f == [frames EXCEPT ![Len(frames)] = x]
<1>1. /\ Len(frames) \in Nat /\ DOMAIN frames = 1 .. Len(frames)
      /\ Top = frames[Len(frames)] /\ Len(frames) \in DOMAIN frames
  BY FramesLength
<1>2. IsSequence(f) /\ Len(f) = Len(frames) /\ DOMAIN f = DOMAIN frames
  BY ExceptSequence DEF FramesInv
<1>3. f[Len(frames)] = x /\ \A i \in DOMAIN frames \ {Len(frames)} : f[i] = frames[i] BY <1>1
<1> HIDE DEF f
<1>4. frames' = f BY DEF f
<1>5. \A i \in DOMAIN frames : IsFrame(f[i]) /\ f[i].host = frames[i].host
  <2> SUFFICES ASSUME NEW i \in DOMAIN frames PROVE IsFrame(f[i]) /\ f[i].host = frames[i].host OBVIOUS
  <2>1. CASE i = Len(frames) BY <1>1, <1>3, <2>1
  <2>2. CASE i # Len(frames) BY <1>3, <2>2 DEF FramesInv
  <2> QED BY <2>1, <2>2
<1>6. \A i \in 1 .. Len(frames) - 1 : f[i] = frames[i] BY <1>1, <1>3
<1>7. ~f[Len(frames)].moved BY <1>3
<1> QED BY <1>2, <1>4, <1>5, <1>6, <1>7, SameStack

\* What is not a call of the bridge is run by a function that knows where memory is.
LEMMA RunningUnmoved ==
  ASSUME FramesInv, NEW ops, "Raw" \notin ops, Running(ops)
  PROVE  /\ frames # <<>> /\ ~Top.moved /\ IsFrame(Top)
         /\ Len(frames) \in DOMAIN frames /\ Top = frames[Len(frames)]
BY FramesLength DEF Running, RawAt, FramesInv

LEMMA FramesGoto ==
  ASSUME FramesInv, NEW ops, "Raw" \notin ops, Running(ops), NEW pc, Goto(pc)
  PROVE  Restacked
<1> DEFINE x == [frames[Len(frames)] EXCEPT !.pc = pc]
<1>1. frames' = [frames EXCEPT ![Len(frames)] = x] BY DEF Goto
<1>2. frames # <<>> /\ ~Top.moved /\ IsFrame(Top) /\ Top = frames[Len(frames)] BY RunningUnmoved
<1>3. IsFrame(x) /\ x.host = Top.host /\ ~x.moved BY <1>2 DEF IsFrame
<1> HIDE DEF x
<1> QED BY <1>1, <1>2, <1>3, TopReplaced

\* A trap ends the functions up to the innermost that the bridge called.
LEMMA FramesTrap ==
  ASSUME FramesInv, frames # <<>>, Trap
  PROVE  Restacked
<1> DEFINE I == {k \in 1 .. Len(frames) : frames[k].host}
           n == Max(I) - 1
<1>1. Len(frames) \in Nat /\ 1 \in 1 .. Len(frames) BY FramesLength
<1>2. I # {} BY <1>1 DEF FramesInv
<1>3. frames' = SubSeq(frames, 1, n) BY <1>2 DEF Trap, Trapped, SelectLastInSeq
<1>4. I \in SUBSET (0 .. Len(frames)) BY <1>1
<1>5. Max(I) \in I
  <2> HIDE DEF I
  <2> QED BY <1>1, <1>2, <1>4, LargestIsMax
<1>6. n \in Nat /\ n < Len(frames) /\ frames[n + 1].host
  <2>1. Max(I) \in 1 .. Len(frames) /\ frames[Max(I)].host BY <1>5
  <2> HIDE DEF I
  <2>2. n \in Nat /\ n < Len(frames) /\ n + 1 = Max(I) BY <1>1, <2>1
  <2> HIDE DEF n
  <2> QED BY <2>1, <2>2
<1> HIDE DEF n
<1> QED BY <1>3, <1>6, BackToBridge

\* A function is called by one that knows where memory is, and knows it then.
LEMMA FramesCalled ==
  ASSUME FramesInv, NEW ops, "Raw" \notin ops, Running(ops), NEW pc, frames' = Called(pc)
  PROVE  Restacked
<1> DEFINE x == [frames[Len(frames)] EXCEPT !.pc = Behind(Top.pc)]
           f == [frames EXCEPT ![Len(frames)] = x]
           y == Frame(pc, FALSE, Top.moved)
           g == Append(f, y)
<1>1. frames' = g BY DEF Called
<1>2. /\ frames # <<>> /\ ~Top.moved /\ IsFrame(Top) /\ Top = frames[Len(frames)]
      /\ Len(frames) \in DOMAIN frames
  BY RunningUnmoved
<1>3. IsFrame(x) /\ x.host = Top.host BY <1>2 DEF IsFrame
<1>4. IsFrame(y) /\ ~y.host /\ ~y.moved BY <1>2 DEF IsFrame, Frame
<1>5. IsSequence(f) /\ Len(f) = Len(frames) /\ DOMAIN f = DOMAIN frames
  BY ExceptSequence DEF FramesInv
<1> HIDE DEF x
<1>6. f[Len(frames)] = x /\ \A i \in DOMAIN frames \ {Len(frames)} : f[i] = frames[i] BY <1>2
<1>7. Len(frames) \in Nat /\ DOMAIN frames = 1 .. Len(frames) BY FramesLength
<1> HIDE DEF f, y
<1>8. /\ IsSequence(g) /\ Len(g) = Len(frames) + 1 /\ g[Len(frames) + 1] = y
      /\ \A i \in DOMAIN frames : g[i] = f[i]
  BY <1>5, <1>7, AppendSequence
<1> HIDE DEF g
<1>9. \A i \in DOMAIN frames : IsFrame(g[i]) /\ g[i].host = frames[i].host
  <2> SUFFICES ASSUME NEW i \in DOMAIN frames PROVE IsFrame(g[i]) /\ g[i].host = frames[i].host OBVIOUS
  <2>1. CASE i = Len(frames) BY <1>2, <1>3, <1>6, <1>8, <2>1
  <2>2. CASE i # Len(frames) BY <1>6, <1>8, <2>2 DEF FramesInv
  <2> QED BY <2>1, <2>2
<1>10. \A i \in 1 .. Len(frames) - 1 : g[i] = frames[i] BY <1>6, <1>7, <1>8
<1>11. IsFrame(g[Len(frames) + 1]) /\ ~g[Len(frames) + 1].moved /\ ~g[Len(frames) + 1].host
  BY <1>4, <1>8
<1> QED BY <1>1, <1>2, <1>8, <1>9, <1>10, <1>11, OneMore

\* A function that returns to the bridge leaves what the bridge left; one that returns to a
\* function leaves it knowing where memory is.
LEMMA FramesReturn ==
  ASSUME FramesInv, Return
  PROVE  Restacked
<1> DEFINE n == Len(frames) - 1
           s == Front(frames)
<1>1. /\ frames # <<>> /\ Len(frames) \in Nat /\ Len(frames) # 0
      /\ DOMAIN frames = 1 .. Len(frames) /\ Top = frames[Len(frames)]
  BY FramesLength DEF Return, Running
<1>2. IsSequence(s) /\ DOMAIN s = 1 .. n /\ \A i \in 1 .. n : i \in DOMAIN frames /\ s[i] = frames[i]
  BY <1>1, LastAndFront DEF FramesInv
<1>3. CASE Top.host
  <2>1. frames' = SubSeq(frames, 1, n) BY <1>3 DEF Return, Front
  <2>2. n \in Nat /\ n < Len(frames) /\ n + 1 = Len(frames) BY <1>1
  <2> HIDE DEF n
  <2>3. frames[n + 1].host BY <1>1, <1>3, <2>2
  <2> QED BY <2>1, <2>2, <2>3, BackToBridge
<1>4. CASE ~Top.host
  <2> DEFINE y == [s[n] EXCEPT !.moved = FALSE]
             g == [s EXCEPT ![n] = y]
  <2>1. frames' = g BY <1>4 DEF Return
  <2>2. Len(frames) # 1 BY <1>1, <1>4 DEF FramesInv
  <2>3. n \in 1 .. n /\ n \in DOMAIN frames BY <1>1, <2>2
  <2>4. IsFrame(s[n]) BY <1>2, <2>3 DEF FramesInv
  <2>5. IsFrame(y) /\ y.host = s[n].host /\ y.pc = s[n].pc /\ ~y.moved BY <2>4 DEF IsFrame
  <2> HIDE DEF n, y, s
  <2>6. IsSequence(g) /\ DOMAIN g = 1 .. n /\ Len(g) = n
    <3>1. IsSequence(g) /\ DOMAIN g = 1 .. n /\ Len(g) = Len(s) BY <1>2, ExceptSequence
    <3>2. Len(s) \in Nat /\ 1 .. Len(s) = 1 .. n BY <1>2, SequenceDomain
    <3>3. n \in Nat BY <2>3
    <3>4. Len(s) = n BY <2>3, <3>2, <3>3
    <3> QED BY <3>1, <3>4
  <2>7. g[n] = y /\ \A i \in 1 .. n : i # n => g[i] = s[i] BY <1>2, <2>3
  <2> HIDE DEF g
  <2>8. \A i \in 1 .. n : /\ IsFrame(g[i]) /\ g[i].host = frames[i].host /\ g[i].pc = frames[i].pc
    <3> SUFFICES ASSUME NEW i \in 1 .. n
                 PROVE  IsFrame(g[i]) /\ g[i].host = frames[i].host /\ g[i].pc = frames[i].pc OBVIOUS
    <3>1. CASE i = n BY <1>2, <2>5, <2>7, <3>1
    <3>2. CASE i # n BY <1>2, <2>7, <3>2 DEF FramesInv
    <3> QED BY <3>1, <3>2
  <2>9. g[1].host
    <3>1. 1 \in 1 .. n BY <2>3
    <3> QED BY <1>1, <2>8, <3>1 DEF FramesInv
  <2>10. ASSUME NEW i \in DOMAIN g, i + 1 \in DOMAIN g, g[i + 1].host
         PROVE  i \in DOMAIN frames /\ RawAt(frames[i].pc) /\ g[i].pc = frames[i].pc
    <3>1. i \in DOMAIN frames /\ i + 1 \in DOMAIN frames /\ frames[i + 1].host
      BY <1>2, <2>6, <2>8, <2>10
    <3> QED BY <2>6, <2>8, <3>1 DEF FramesInv
  <2> QED BY <2>1, <2>5, <2>6, <2>7, <2>8, <2>9, <2>10 DEF Restacked
<1> QED BY <1>3, <1>4

\* The bridge loads patches while nothing runs, or out of a function that it will return to.
LEMMA FramesLoad ==
  ASSUME FramesInv, NEW p, LoadPatch(p)
  PROVE  Restacked
<1> DEFINE g == [k \in DOMAIN frames |-> [frames[k] EXCEPT !.moved = TRUE]]
<1>1. frames' = frames \/ frames' = g BY DEF LoadPatch, Moved, Map
<1>2. frames # <<>> => RawAt(Top.pc) BY DEF LoadPatch, Waiting, Running, RawAt
<1>3. Len(frames) \in Nat /\ DOMAIN frames = 1 .. Len(frames) BY FramesLength
<1>4. IsSequence(g) /\ Len(g) = Len(frames) /\ DOMAIN g = DOMAIN frames
  <2>1. DOMAIN g = 1 .. Len(frames) BY <1>3
  <2>2. g = [l \in 1 .. Len(frames) |-> g[l]] BY <1>3
  <2> HIDE DEF g
  <2> QED BY <1>3, <2>1, <2>2, FunctionSequence
<1>5. \A i \in DOMAIN frames : IsFrame(g[i]) /\ g[i].host = frames[i].host /\ g[i].pc = frames[i].pc
  BY DEF FramesInv, IsFrame
<1> HIDE DEF g
<1>6. /\ IsSequence(frames') /\ Len(frames') = Len(frames) /\ DOMAIN frames' = DOMAIN frames
      /\ \A i \in DOMAIN frames : /\ IsFrame(frames'[i]) /\ frames'[i].host = frames[i].host
                                  /\ frames'[i].pc = frames[i].pc
  BY <1>1, <1>4, <1>5 DEF FramesInv
<1>7. frames' # <<>> => frames # <<>>
  <2>1. CASE frames' = <<>> BY <2>1
  <2>2. CASE frames' # <<>>
    <3>1. Len(frames') # 0
      <4>1. PICK S : frames' \in Seq(S) BY <1>6 DEF IsSequence
      <4> QED BY <2>2, <4>1
    <3> QED BY <1>6, <3>1, TupleSequences
  <2> QED BY <2>1, <2>2
<1>8. frames' # <<>> =>
        /\ Len(frames') \in DOMAIN frames /\ RawAt(frames[Len(frames')].pc)
        /\ frames'[Len(frames')].pc = frames[Len(frames')].pc
  BY <1>2, <1>6, <1>7, FramesLength
<1>9. frames' # <<>> => frames'[1].host
  <2>1. frames' # <<>> => 1 \in DOMAIN frames /\ frames[1].host BY <1>3, <1>7, FramesLength DEF FramesInv
  <2> QED BY <1>6, <2>1
<1>10. ASSUME NEW i \in DOMAIN frames', i + 1 \in DOMAIN frames', frames'[i + 1].host
       PROVE  i \in DOMAIN frames /\ RawAt(frames[i].pc) /\ frames'[i].pc = frames[i].pc
  BY <1>6, <1>10 DEF FramesInv
<1> QED BY <1>6, <1>8, <1>9, <1>10 DEF Restacked

\* Whatever ends with the same functions in the same places.
LEMMA FramesSame ==
  ASSUME FramesInv, frames' = frames
  PROVE  Restacked
<1>1. frames # <<>> => Len(frames) \in DOMAIN frames /\ Top = frames[Len(frames)] BY FramesLength
<1>2. frames # <<>> => ~Top.moved \/ RawAt(Top.pc) BY DEF FramesInv
<1> QED BY <1>1, <1>2 DEF FramesInv, Restacked

\* The bridge calls a function when none runs, or out of one that called it.
LEMMA FramesBridge ==
  ASSUME FramesInv, NEW f, CallFunction(f)
  PROVE  Restacked
<1>1. frames # <<>> => RawAt(Top.pc) BY DEF CallFunction, Waiting, Running, RawAt
<1>2. frames' = frames \/ \E pc : frames' = Append(frames, Frame(pc, TRUE, FALSE))
  BY DEF CallFunction
<1>3. CASE frames' = frames BY <1>3, FramesSame
<1>4. ASSUME NEW pc, frames' = Append(frames, Frame(pc, TRUE, FALSE)) PROVE Restacked
  <2> DEFINE y == Frame(pc, TRUE, FALSE)
             g == Append(frames, y)
  <2>1. IsFrame(y) /\ y.host /\ ~y.moved BY DEF Frame, IsFrame
  <2> HIDE DEF y
  <2>2. Len(frames) \in Nat /\ DOMAIN frames = 1 .. Len(frames) BY FramesLength
  <2>3. /\ IsSequence(g) /\ Len(g) = Len(frames) + 1 /\ g[Len(frames) + 1] = y
        /\ \A i \in DOMAIN frames : g[i] = frames[i]
    BY <2>2, AppendSequence DEF FramesInv
  <2> HIDE DEF g
  <2>4. frames' = g BY <1>4 DEF g, y
  <2>5. \A i \in DOMAIN frames : IsFrame(g[i]) /\ g[i].host = frames[i].host BY <2>3 DEF FramesInv
  <2>6. \A i \in 1 .. Len(frames) - 1 : g[i] = frames[i] BY <2>2, <2>3
  <2>7. frames # <<>> => RawAt(Top.pc) /\ g[Len(frames)].pc = Top.pc BY <1>1, <2>3, FramesLength
  <2> QED BY <2>1, <2>3, <2>4, <2>5, <2>6, <2>7, OneMore
<1> QED BY <1>2, <1>3, <1>4

\* The loops inside the one that is continued return to it, which looks where memory is.
LEMMA FramesContinue ==
  ASSUME FramesInv, NEW ops, "Raw" \notin ops, Running(ops), NEW head, Continue(head)
  PROVE  Restacked
<1>1. /\ frames # <<>> /\ ~Top.moved /\ IsFrame(Top) /\ Top = frames[Len(frames)]
      /\ Len(frames) \in DOMAIN frames
  BY RunningUnmoved
<1>2. CASE Trap BY <1>1, <1>2, FramesTrap
<1>3. ASSUME NEW k, frames' = [frames EXCEPT ![Len(frames)].pc = head, ![Len(frames)].moved = FALSE,
                                             ![Len(frames)].loops = SubSeq(@, 1, k)]
      PROVE Restacked
  <2> DEFINE n == Len(frames)
             x == [frames[n] EXCEPT !.pc = head, !.moved = FALSE, !.loops = SubSeq(@, 1, k)]
  <2>1. frames' = [frames EXCEPT ![n] = x] BY <1>1, <1>3
  <2>2. IsFrame(x) /\ x.host = Top.host /\ ~x.moved BY <1>1 DEF IsFrame
  <2> HIDE DEF x
  <2> QED BY <1>1, <2>1, <2>2, TopReplaced
<1> QED BY <1>2, <1>3 DEF Continue

LEMMA FramesLoop ==
  ASSUME FramesInv, Loop
  PROVE  Restacked
<1>1. /\ frames # <<>> /\ ~Top.moved /\ IsFrame(Top) /\ Top = frames[Len(frames)]
      /\ Len(frames) \in DOMAIN frames
  BY RunningUnmoved DEF Loop
<1> DEFINE n == Len(frames)
           x == [frames[n] EXCEPT !.pc = Behind(Top.pc), !.loops = Append(@, Behind(Top.pc))]
<1>2. frames' = [frames EXCEPT ![n] = x] BY <1>1 DEF Loop
<1>3. IsFrame(x) /\ x.host = Top.host /\ ~x.moved BY <1>1 DEF IsFrame
<1> HIDE DEF x
<1> QED BY <1>1, <1>2, <1>3, TopReplaced

\* Memory moves under all of them, and the one that grew it has the new address.
LEMMA FramesGrow ==
  ASSUME FramesInv, MemGrow
  PROVE  Restacked
<1>1. /\ frames # <<>> /\ ~Top.moved /\ IsFrame(Top) /\ Top = frames[Len(frames)]
      /\ Len(frames) \in DOMAIN frames
  BY RunningUnmoved DEF MemGrow
<1> DEFINE x == [Top EXCEPT !.pc = Behind(Top.pc), !.moved = FALSE]
           g == [k \in DOMAIN frames |-> [frames[k] EXCEPT !.moved = TRUE]]
           h == [g EXCEPT ![Len(frames)] = x]
<1>2. frames' = h BY DEF MemGrow, Moved, Map
<1>3. IsFrame(x) /\ x.host = Top.host /\ ~x.moved BY <1>1 DEF IsFrame
<1>4. Len(frames) \in Nat /\ DOMAIN frames = 1 .. Len(frames) BY FramesLength
<1>5. IsSequence(g) /\ Len(g) = Len(frames) /\ DOMAIN g = DOMAIN frames
  <2>1. DOMAIN g = 1 .. Len(frames) BY <1>4
  <2>2. g = [l \in 1 .. Len(frames) |-> g[l]] BY <1>4
  <2> HIDE DEF g
  <2> QED BY <1>4, <2>1, <2>2, FunctionSequence
<1>6. \A i \in DOMAIN frames : IsFrame(g[i]) /\ g[i].host = frames[i].host /\ g[i].pc = frames[i].pc
  BY DEF FramesInv, IsFrame
<1> HIDE DEF g, x
<1>7. IsSequence(h) /\ Len(h) = Len(frames) /\ DOMAIN h = DOMAIN frames BY <1>5, ExceptSequence
<1>8. h[Len(frames)] = x /\ \A i \in DOMAIN frames \ {Len(frames)} : h[i] = g[i] BY <1>1, <1>5
<1> HIDE DEF h
<1>9. \A i \in DOMAIN frames : IsFrame(h[i]) /\ h[i].host = frames[i].host
  <2> SUFFICES ASSUME NEW i \in DOMAIN frames PROVE IsFrame(h[i]) /\ h[i].host = frames[i].host OBVIOUS
  <2>1. CASE i = Len(frames) BY <1>1, <1>3, <1>8, <2>1
  <2>2. CASE i # Len(frames) BY <1>6, <1>8, <2>2
  <2> QED BY <2>1, <2>2
<1>10. \A i \in 1 .. Len(frames) - 1 : h[i].pc = frames[i].pc BY <1>4, <1>6, <1>8
<1> QED BY <1>1, <1>2, <1>3, <1>7, <1>8, <1>9, <1>10, SameStack

LEMMA FramesStep ==
  ASSUME FramesInv, [Next]_vars, ~Reset
  PROVE  Restacked
<1>1. CASE \E p \in Payload : LoadPatch(p) BY <1>1, FramesLoad
<1>2. CASE \E f \in Names : CallFunction(f) BY <1>2, FramesBridge
<1>3. CASE Entry \/ Unreachable \/ Op \/ Branch \/ BranchIf \/ BranchTable
  <2>1. CASE Trap /\ frames # <<>> BY <2>1, FramesTrap
  <2>2. CASE \E pc : Goto(pc)
    <3>1. Running({"Entry", "Unreachable", "Op", "Branch", "BranchIf", "BranchTable"})
      BY <1>3 DEF Entry, Unreachable, Op, Branch, BranchIf, BranchTable, Running
    <3> QED BY <2>2, <3>1, FramesGoto
  <2> QED BY <1>3, <2>1, <2>2 DEF Entry, Unreachable, Op, Branch, BranchIf, BranchTable, Running
<1>4. CASE Loop BY <1>4, FramesLoop
<1>5. CASE MemGrow BY <1>5, FramesGrow
<1>6. CASE ContinueLoop BY <1>6, FramesContinue DEF ContinueLoop
<1>7. CASE ContinueLoopIf BY <1>7, FramesGoto, FramesContinue DEF ContinueLoopIf
<1>8. CASE Call BY <1>8, FramesCalled DEF Call
<1>9. CASE Compile
  <2>1. Running({"Compile"}) /\ (Trap \/ \E pc : frames' = Called(pc)) BY <1>9 DEF Compile
  <2> QED BY <2>1, FramesTrap, FramesCalled DEF Running
<1>10. CASE CallIndirect
  <2>1. Running({"CallIndirect"}) /\ (Trap \/ \E pc : frames' = Called(pc)) BY <1>10 DEF CallIndirect
  <2> QED BY <2>1, FramesTrap, FramesCalled DEF Running
<1>11. CASE Return BY <1>11, FramesReturn
<1>12. CASE UNCHANGED vars BY <1>12, FramesSame DEF vars
<1> QED BY <1>1, <1>2, <1>3, <1>4, <1>5, <1>6, <1>7, <1>8, <1>9, <1>10, <1>11, <1>12
        DEF Next, Bridge, Run

\* Whoever waits for the bridge is at a word that calls it, which nothing rewrites, and the
\* innermost function, unless it waits, knows where memory is.
THEOREM FramesInvariant == Spec => []FramesInv
<1>1. Init => FramesInv
  <2> SUFFICES ASSUME Init PROVE FramesInv OBVIOUS
  <2>1. frames = <<>> BY DEF Init
  <2>2. IsSequence(<<>>) /\ DOMAIN <<>> = {} BY TupleSequences
  <2> QED BY <2>1, <2>2 DEF FramesInv
<1>2. CodeInv /\ FramesInv /\ [Next]_vars => FramesInv'
  <2> SUFFICES ASSUME CodeInv, FramesInv, [Next]_vars PROVE FramesInv' OBVIOUS
  <2>1. CASE Reset
    <3>1. frames' = <<>> BY <2>1 DEF Reset
    <3>2. IsSequence(<<>>) /\ DOMAIN <<>> = {} BY TupleSequences
    <3> QED BY <3>1, <3>2 DEF FramesInv
  <2>2. CASE ~Reset BY <2>2, CodeStep, FramesStep, FramesRestacked
  <2> QED BY <2>1, <2>2
<1> QED BY <1>1, <1>2, CodeInvariant, PTL DEF Spec

\* A function goes on after a call, an indirect call or a loop with the address memory has
\* now (m3_exec.c:66, 102, 161 and 262), whatever grew it and however deep.
THEOREM MemoryKnown == Spec => []MemoryIsCurrent
<1>1. FramesInv => MemoryIsCurrent BY DEF FramesInv, MemoryIsCurrent, Running, RawAt
<1> QED BY <1>1, FramesInvariant, PTL
===============================================================================
