------------------------------ MODULE ClosureHeap ------------------------------
(***************************************************************************)
(* Where libffi takes closures from on x86_64: a private copy of Doug      *)
(* Lea's allocator (closures.c with FFI_MMAP_EXEC_WRIT, dlmalloc.c), whose *)
(* memory comes from mmap a page at a time.  Where the system refuses      *)
(* pages that are both writable and executable, each is mapped twice from  *)
(* a temporary file, and the code of a closure is at a fixed offset from   *)
(* its data; segments with different offsets are kept apart.               *)
(*                                                                         *)
(* Addresses are counted in words.  A chunk has its header in front of it, *)
(* as in malloc_chunk: its size, whether it and the chunk before it are in *)
(* use, and the size of the latter if it is not.  A header that is merged  *)
(* into a larger chunk is forgotten here.  dlmalloc and dlfree hold one    *)
(* mutex; they are functions of the heap, dlmalloc with several outcomes.  *)
(***************************************************************************)
EXTENDS Integers, Sequences, SequencesExt, TLC

CONSTANTS
  PageSize,       \* malloc_getpagesize, 512 words
  MinLarge,       \* MIN_LARGE_SIZE, 32 words
  TrimThreshold,  \* DEFAULT_TRIM_THRESHOLD, 2 MB
  MaxPages,       \* bound: pages of the address space, a file's pages counted twice
  MaxFile         \* bound: pages of the temporary file, which never shrinks

MinChunk == 4     \* MIN_CHUNK_SIZE
RecordSize == 5   \* pad_request(sizeof(struct malloc_segment))
TopFoot == RecordSize + MinChunk
ClosureSize == 8  \* pad_request(sizeof(ffi_closure)), all that is ever asked for

\* A closure's chunk is small, what is left of an unused segment is large, and a top
\* that is trimmed loses a page, so that trimming is never given up.
ASSUME HeapAssumption ==
  /\ {PageSize, MinLarge, TrimThreshold, MaxPages, MaxFile} \subseteq Nat
  /\ ClosureSize + 1 < MinLarge
  /\ MinLarge <= PageSize - TopFoot
  /\ TrimThreshold >= PageSize + TopFoot

\* A header; prev is prev_foot, 0 while the chunk before is in use.
Chunk(size, pinuse, cinuse) == [size |-> size, pinuse |-> pinuse, cinuse |-> cinuse, prev |-> 0]

Fence == Chunk(1, TRUE, TRUE)

\* malloc_state; bins are the small and the tree bins, by size and address, segs
\* the segments with the current one first, each with the address of its record.
\* hardened, pages and execsize are the system's: what a page of memory shows.
NoHeap(hardened) ==
  [chunk |-> <<>>, bins |-> {}, dv |-> 0, dvsize |-> 0, top |-> 0, topsize |-> 0,
   segs |-> <<>>,
   hardened |-> hardened, pages |-> [i \in 1 .. MaxPages |-> <<"none", 0>>], execsize |-> 0]

-------------------------------------------------------------------------------
(* Headers.  c is the field chunk of a heap.                                 *)

Without(c, S) == Restrict(c, DOMAIN c \ S)

\* set_size_and_pinuse_of_free_chunk, and set_free_with_pinuse.
SetFree(c, p, size) ==
  (p :> Chunk(size, TRUE, FALSE)) @@ [c EXCEPT ![p + size].prev = size]

SetFreeWithPinuse(c, p, size) == SetFree([c EXCEPT ![p + size].pinuse = FALSE], p, size)

\* set_size_and_pinuse_of_inuse_chunk, and set_inuse_and_pinuse.
SetInuse(c, p, size) == (p :> Chunk(size, TRUE, TRUE)) @@ c

SetInuseWithPinuse(c, p, size) ==
  SetInuse([c EXCEPT ![p + size].pinuse = TRUE, ![p + size].prev = 0], p, size)

InsertChunk(h, p, size) == [h EXCEPT !.bins = @ \cup {<<size, p>>}]

UnlinkChunk(h, p, size) == [h EXCEPT !.bins = @ \ {<<size, p>>}]

ReplaceDv(h, p, size) ==
  LET binned == IF h.dvsize # 0 THEN InsertChunk(h, h.dv, h.dvsize) ELSE h
  IN [binned EXCEPT !.dv = p, !.dvsize = size]

\* The top chunk, and the trailing one that is the space for a segment's record.
InitTop(h, p, size) ==
  [h EXCEPT !.top = p, !.topsize = size,
            !.chunk = (p :> Chunk(size, TRUE, FALSE))
                        @@ (p + size :> Chunk(TopFoot, FALSE, FALSE)) @@ @]

Trailer(h) == h.top + h.topsize

-------------------------------------------------------------------------------
(* Memory from the system.                                                   *)

PagesOf(base, size) == base \div PageSize .. (base + size - 1) \div PageSize

Room(h, n) ==
  {i \in 1 .. MaxPages - n + 1 : \A j \in i .. i + n - 1 : h.pages[j][1] = "none"}

\* dlmmap, where it may map memory for writing and for execution.
MapAnonymous(h, n) ==
  {[heap |-> [h EXCEPT !.pages = [j \in i .. i + n - 1 |-> <<"anon", j>>] @@ @],
    base |-> i * PageSize, size |-> n * PageSize, offset |-> 0] : i \in Room(h, n)}

\* Places for a page's data and, apart from it, for its code.
Apart(h, n) ==
  {w \in Room(h, n) \X Room(h, n) : w[1] + n <= w[2] \/ w[2] + n <= w[1]}

\* The n next pages of the file, at page i.
FilePages(h, i, n) == [j \in i .. i + n - 1 |-> <<"file", h.execsize + j - i>>]

\* dlmmap_locked: mapped for writing at w[1] and for execution at w[2].
MapFile(h, n) ==
  {[heap |-> [h EXCEPT !.pages = FilePages(h, w[1], n) @@ FilePages(h, w[2], n) @@ @,
                       !.execsize = @ + n],
    base |-> w[1] * PageSize, size |-> n * PageSize, offset |-> (w[2] - w[1]) * PageSize] :
      w \in {v \in Apart(h, n) : h.execsize + n <= MaxFile}}

Mmap(h, n) == IF h.hardened THEN MapFile(h, n) ELSE MapAnonymous(h, n)

\* dlmunmap: with the data goes the code, where it is apart.
Munmap(h, seg, base, size) ==
  [h EXCEPT !.pages = [i \in PagesOf(base, size) \cup PagesOf(base + seg.offset, size)
                         |-> <<"none", 0>>] @@ @]

SegmentHolding(h, a) ==
  SelectInSeq(h.segs, LAMBDA s : s.base <= a /\ a < s.base + s.size)

\* segment_holding for an address that a segment holds.
Holding(h, a) == h.segs[SegmentHolding(h, a)]

-------------------------------------------------------------------------------
(* dlmalloc(sizeof(ffi_closure)).  Its outcomes: the heap and the chunk p.   *)

Outcome(h, p) == [heap |-> h, p |-> p]

\* The least of the binned chunks that are large enough; of several of one size
\* the bins' order decides, which is left open.
BestFits(h) ==
  LET fits == {b \in h.bins : b[1] >= ClosureSize}
  IN {b \in fits : \A c \in fits : b[1] <= c[1]}

\* One that leaves no remainder that could be a chunk, from a small bin.
Remainderless(b) == b[1] < MinLarge /\ b[1] <= ClosureSize + 1

\* The remainder becomes the designated victim (also tmalloc_small).
TakeBinned(h, b) ==
  LET p == b[2]
      rest == b[1] - ClosureSize
      r == p + ClosureSize
      u == UnlinkChunk(h, p, b[1])
  IN IF rest < MinChunk
     THEN Outcome([u EXCEPT !.chunk = SetInuseWithPinuse(@, p, b[1])], p)
     ELSE Outcome(ReplaceDv([u EXCEPT !.chunk = SetInuse(SetFree(@, r, rest), p, ClosureSize)], r, rest), p)

TakeDv(h) ==
  LET p == h.dv
      rest == h.dvsize - ClosureSize
      r == p + ClosureSize
  IN IF rest >= MinChunk
     THEN Outcome([h EXCEPT !.dv = r, !.dvsize = rest,
                            !.chunk = SetInuse(SetFree(@, r, rest), p, ClosureSize)], p)
     ELSE Outcome([h EXCEPT !.dv = 0, !.dvsize = 0,
                            !.chunk = SetInuseWithPinuse(@, p, h.dvsize)], p)

TakeTop(h) ==
  LET p == h.top
      r == p + ClosureSize
      rest == h.topsize - ClosureSize
  IN Outcome([h EXCEPT !.top = r, !.topsize = rest,
                       !.chunk = SetInuse((r :> Chunk(rest, TRUE, FALSE)) @@ @, p, ClosureSize)], p)

\* Bug: segments are merged whatever the offsets of their code.
SameOffsetAlways(seg, m) == TRUE

\* check_segment_merge
SameOffset(seg, m) == seg.offset = m.offset

\* The new memory m follows the current segment, which ends in the top chunk.
AppendSegment(m) ==
  LET h == m.heap
      longer == [h EXCEPT !.segs[1].size = @ + m.size, !.chunk = Without(@, {Trailer(h)})]
  IN TakeTop(InitTop(longer, h.top, h.topsize + m.size))

\* prepend_alloc: m lies before segment i; what is left of it joins what is first there.
PrependAlloc(m, i) ==
  LET h == [m.heap EXCEPT !.segs[i].base = m.base, !.segs[i].size = @ + m.size]
      p == m.base
      first == p + m.size
      q == p + ClosureSize
      qsize == m.size - ClosureSize
      c == h.chunk
      used == [h EXCEPT !.chunk = SetInuse(@, p, ClosureSize)]
      nsize == c[first].size
      joined == qsize + nsize
  IN Outcome(
       IF first = h.top
       THEN [used EXCEPT !.top = q, !.topsize = joined,
               !.chunk = (q :> Chunk(joined, TRUE, FALSE)) @@ Without(@, {first})]
       ELSE IF first = h.dv
       THEN [used EXCEPT !.dv = q, !.dvsize = joined,
               !.chunk = SetFree(Without(@, {first}), q, joined)]
       ELSE IF ~c[first].cinuse
       THEN InsertChunk([UnlinkChunk(used, first, nsize) EXCEPT
               !.chunk = SetFreeWithPinuse(Without(@, {first}), q, joined)], q, joined)
       ELSE InsertChunk([used EXCEPT !.chunk = SetFreeWithPinuse(@, q, qsize)], q, qsize), p)

\* add_segment: the old segment's record takes its end, with fenceposts after it,
\* and what is left of the old top is binned.
AddSegment(m) ==
  LET h == m.heap
      old == h.segs[1]
      end == old.base + old.size
      asp == end - TopFoot
      csp == IF asp < h.top + MinChunk THEN h.top ELSE asp
      rest == csp - h.top
      fenced == [f \in csp + RecordSize .. end - 2 |-> Fence]
                  @@ SetInuse(Without(h.chunk, {Trailer(h)}), csp, RecordSize)
      binned == IF csp = h.top THEN [h EXCEPT !.chunk = fenced]
                ELSE InsertChunk([h EXCEPT !.chunk = SetFreeWithPinuse(fenced, h.top, rest)], h.top, rest)
      new == [base |-> m.base, size |-> m.size, offset |-> m.offset, record |-> 0]
  IN TakeTop(InitTop([binned EXCEPT !.segs = <<new, [old EXCEPT !.record = csp]>> \o Tail(@)],
                     m.base, m.size - TopFoot))

\* The first memory there is.
FirstSegment(m) ==
  LET new == [base |-> m.base, size |-> m.size, offset |-> m.offset, record |-> 0]
  IN TakeTop(InitTop([m.heap EXCEPT !.segs = <<new>>], m.base, m.size - TopFoot))

\* sys_alloc, once mmap has given m.
Grown(m) ==
  LET h == m.heap
      below == SelectInSeq(h.segs, LAMBDA s : s.base + s.size = m.base)
      above == SelectInSeq(h.segs, LAMBDA s : s.base = m.base + m.size)
      appends == below # 0 /\ SameOffset(h.segs[below], m) /\ SegmentHolding(h, h.top) = below
      prepends == above # 0 /\ SameOffset(h.segs[above], m)
  IN IF h.top = 0 THEN FirstSegment(m)
     ELSE IF appends THEN AppendSegment(m)
     ELSE IF prepends THEN PrependAlloc(m, above)
     ELSE AddSegment(m)

SysAlloc(h) == {Grown(m) : m \in Mmap(h, (ClosureSize + TopFoot) \div PageSize + 1)}

Dlmalloc(h) ==
  LET best == BestFits(h)
      binned == {b \in best : Remainderless(b) \/ ClosureSize > h.dvsize}
  IN IF binned # {} THEN {TakeBinned(h, b) : b \in binned}
     ELSE IF ClosureSize <= h.dvsize THEN {TakeDv(h)}
     ELSE IF ClosureSize < h.topsize THEN {TakeTop(h)}
     ELSE SysAlloc(h)

\* ffi_closure_alloc: the chunk, and where its code is.
ClosureAlloc(h) ==
  {[heap |-> o.heap, place |-> <<o.p, o.p + Holding(o.heap, o.p).offset>>] : o \in Dlmalloc(h)}

-------------------------------------------------------------------------------
(* dlfree, of the chunk p of a closure.                                      *)

\* A segment, not the current one, that holds nothing but one free chunk.
HoldsNothing(h, seg) ==
  LET p == seg.base IN
  ~h.chunk[p].cinuse /\ p + h.chunk[p].size >= seg.base + seg.size - TopFoot

\* release_unused_segments: one segment.
ReleaseSegment(h, seg) ==
  LET p == seg.base
      out == IF p = h.dv THEN [h EXCEPT !.dv = 0, !.dvsize = 0]
             ELSE UnlinkChunk(h, p, h.chunk[p].size)
      gone == [out EXCEPT !.chunk = Without(@, seg.base .. seg.base + seg.size - 1),
                          !.segs = SelectSeq(@, LAMBDA s : s # seg)]
  IN Munmap(gone, seg, seg.base, seg.size)

ReleaseUnusedSegments(h) ==
  FoldLeft(ReleaseSegment, h, SelectSeq(Tail(h.segs), LAMBDA s : HoldsNothing(h, s)))

\* What sys_trim can cut off the top, in whole pages, one of them left.
Extra(h) == ((h.topsize - TopFoot + PageSize - 1) \div PageSize - 1) * PageSize

\* A segment that holds another's record is not cut (has_segment_link).
HasSegmentLink(h, seg) ==
  \E i \in DOMAIN h.segs :
    h.segs[i].record # 0 /\ seg.base <= h.segs[i].record /\ h.segs[i].record < seg.base + seg.size

TrimTop(h) ==
  LET i == SegmentHolding(h, h.top)
      seg == h.segs[i]
      less == seg.size - Extra(h)
      cut == [h EXCEPT !.segs[i].size = less, !.chunk = Without(@, {Trailer(h)})]
  IN IF h.topsize <= TopFoot \/ Extra(h) = 0 \/ HasSegmentLink(h, seg) THEN h
     ELSE InitTop(Munmap(cut, seg, seg.base + less, Extra(h)), h.top, h.topsize - Extra(h))

SysTrim(h) == ReleaseUnusedSegments(TrimTop(h))

\* The free chunk p, which ends where the top begins.
JoinTop(h, p, size) ==
  LET joined == [h EXCEPT !.top = p, !.topsize = @ + size,
                   !.chunk = (p :> Chunk(h.topsize + size, TRUE, FALSE)) @@ Without(@, {h.top}),
                   !.dv = IF p = @ THEN 0 ELSE @, !.dvsize = IF p = h.dv THEN 0 ELSE @]
  IN IF joined.topsize > TrimThreshold THEN SysTrim(joined) ELSE joined

\* Bug: a free chunk after it stays in its bin.
JoinNextBinned(h, p, size) ==
  LET next == p + size
      joined == size + h.chunk[next].size
      free == [h EXCEPT !.chunk = SetFree(Without(@, {next}), p, joined)]
  IN IF p = h.dv THEN [free EXCEPT !.dvsize = joined] ELSE InsertChunk(free, p, joined)

\* The chunk after it is free, too.
JoinNext(h, p, size) ==
  LET next == p + size
      nsize == h.chunk[next].size
      joined == size + nsize
      free == [UnlinkChunk(h, next, nsize) EXCEPT !.chunk = SetFree(Without(@, {next}), p, joined)]
  IN IF p = h.dv THEN [free EXCEPT !.dvsize = joined] ELSE InsertChunk(free, p, joined)

JoinDv(h, p, size) ==
  LET joined == h.dvsize + size
  IN [h EXCEPT !.dv = p, !.dvsize = joined, !.chunk = SetFree(Without(@, {h.dv}), p, joined)]

\* The chunk p, joined to the one before it already.
FreeForward(h, p, size) ==
  LET next == p + size IN
  IF next = h.top THEN JoinTop(h, p, size)
  ELSE IF h.chunk[next].cinuse
  THEN LET free == [h EXCEPT !.chunk = SetFreeWithPinuse(@, p, size)]
       IN IF p = h.dv THEN [free EXCEPT !.dvsize = size] ELSE InsertChunk(free, p, size)
  ELSE IF next = h.dv THEN JoinDv(h, p, size)
  ELSE JoinNext(h, p, size)

Dlfree(h, p) ==
  LET size == h.chunk[p].size
      prevsize == h.chunk[p].prev
      q == p - prevsize
      merged == [h EXCEPT !.chunk = Without(@, {p})]
  IN IF h.chunk[p].pinuse THEN FreeForward(h, p, size)
     ELSE FreeForward(IF q = h.dv THEN merged ELSE UnlinkChunk(merged, q, prevsize), q, size + prevsize)

\* ffi_closure_free
ClosureFree(h, place) == Dlfree(h, place[1])

-------------------------------------------------------------------------------
(* What dlmalloc's own checks ask of a heap (do_check_malloc_state).         *)

SegmentEnd(h, seg) == IF seg = h.segs[1] THEN seg.base + seg.size - TopFoot ELSE seg.base + seg.size - 2

\* The headers of a segment follow each other from its base to its trailing chunk or
\* last fencepost; each says of the one before what that says of itself, and of two
\* neighbours one is in use.
SegmentWhole(h, seg) ==
  LET c == h.chunk
      heads == {a \in DOMAIN c : seg.base <= a /\ a < seg.base + seg.size}
  IN /\ seg.base \in heads /\ c[seg.base].pinuse
     /\ SegmentEnd(h, seg) \in heads
     /\ \A a \in heads \ {SegmentEnd(h, seg)} :
          LET next == a + c[a].size IN
          /\ next \in heads
          /\ \A b \in heads : ~(a < b /\ b < next)
          /\ c[next].pinuse = c[a].cinuse
          /\ ~c[a].cinuse /\ a # h.top => c[next].cinuse /\ c[next].prev = c[a].size

\* Every free chunk is binned under its size, or is the designated victim or the top.
FreeAccounted(h) ==
  LET free == {a \in DOMAIN h.chunk : ~h.chunk[a].cinuse}
      victim == IF h.dv = 0 THEN {} ELSE {<<h.dvsize, h.dv>>}
      uppermost == {<<h.topsize, h.top>>, <<TopFoot, Trailer(h)>>}
  IN /\ {<<h.chunk[a].size, a>> : a \in free} = h.bins \cup victim \cup uppermost
     /\ h.bins \cap (victim \cup uppermost) = {} /\ h.dv # h.top
     /\ (h.dv = 0) = (h.dvsize = 0)

\* Segments do not overlap, are mapped, and hold every chunk.
SegmentsApart(h) ==
  /\ \A i, j \in DOMAIN h.segs : i # j =>
        PagesOf(h.segs[i].base, h.segs[i].size) \cap PagesOf(h.segs[j].base, h.segs[j].size) = {}
  /\ \A a \in DOMAIN h.chunk : SegmentHolding(h, a) # 0
  /\ \A i \in DOMAIN h.segs : \A j \in PagesOf(h.segs[i].base, h.segs[i].size) : h.pages[j][1] # "none"

HeapWhole(h) ==
  h.top # 0 =>
    /\ SegmentsApart(h)
    /\ \A i \in DOMAIN h.segs : SegmentWhole(h, h.segs[i])
    /\ FreeAccounted(h)

Records(h) == {h.segs[i].record : i \in DOMAIN h.segs}

\* The chunks in use are the fenceposts, the segments' records and one for each
\* holder of a closure; what is written to a closure is what its code reads.
ChunksHeld(h, used) ==
  /\ \A i, j \in DOMAIN used : i # j => used[i][1] # used[j][1]
  /\ {used[i][1] : i \in DOMAIN used}
       = {a \in DOMAIN h.chunk : h.chunk[a].cinuse /\ h.chunk[a].size > 1} \ Records(h)
  /\ \A i \in DOMAIN used :
       LET p == used[i][1]
           x == used[i][2]
       IN /\ h.chunk[p].size >= ClosureSize
          /\ \A w \in 0 .. ClosureSize - 1 :
               /\ h.pages[(p + w) \div PageSize][1] # "none"
               /\ h.pages[(x + w) \div PageSize] = h.pages[(p + w) \div PageSize]
================================================================================
