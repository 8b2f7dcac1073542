----------------------------- MODULE UserHeap -----------------------------
(***************************************************************************)
(* malloc, calloc, realloc and free of the C library: four slab lists for    *)
(* small sizes, and blocks from mmap that are cut into chunks, first fit,    *)
(* and glued again by free.  Sizes and addresses are the real ones; a chunk  *)
(* is known by the address of its malloc_header_t.                           *)
(***************************************************************************)
EXTENDS Integers, FiniteSets, FiniteSetsExt

CONSTANTS
  HeaderSizes,   \* sizeof(malloc_header_t): 16 with 32-bit pointers, 32 with 64-bit ones
  AllocSizes,    \* the sizes programs ask for
  CallocPairs,   \* the arguments of calloc: [num, size]
  SizeBits,      \* the width of size_t
  MAX_ALLOCATED_BLOCKS,  \* MALLOC_MAX_ALLOCATED_BLOCKS
  MaxPointers    \* bound: pointers a program holds

ASSUME UserHeapAssumption ==
  /\ HeaderSizes \subseteq {16, 32} /\ AllocSizes \subseteq Nat
  /\ \A a \in CallocPairs : a.num \in Nat /\ a.size \in Nat
  /\ SizeBits \in 1..30 /\ MAX_ALLOCATED_BLOCKS \in Nat /\ MaxPointers \in Nat

VARIABLE uh   \* the state of the allocator and what the program holds

MALLOC_DEFAULT_BLOCK_SIZE == 4096
ALIGNMENT == 4
DEVIDE_SPACE_BOUNDARY == 32
Span == 16384           \* external: mappings are further apart than their sizes
Classes == 1..4         \* slab classes of 16, 32, 48 and 64 bytes

\* A header, with the address of its chunk's neighbours, 0 for NULL.
Header(size, flags, next, prev) == [size |-> size, flags |-> flags, next |-> next, prev |-> prev]
IsFree(b)   == "ALLOCATED" \notin b.flags
IsSlab(b)   == "SLAB" \in b.flags

\* mmap of a fresh area; it may fail.
Mapped(h) == (h.nmaps + 1) * Span

-----------------------------------------------------------------------------
\* prepare_free_blocks of a class: of the headers that the area is cut into only
\* the first is on the list, because every next is NULL; the others are never used.
prepare_free_blocks(c) == Header(16 * c, {"SLAB", "ALLOCATED"}, 0, 0)

\* _slab_init: the lists, and the headers on them, when mmap succeeded for got.
_slab_init(got) == [c \in Classes |-> IF c \in got THEN c * Span ELSE 0]
SlabHeaders(got) == [a \in {c * Span : c \in got} |-> prepare_free_blocks(a \div Span)]

SlabClass(size) == (size + 15) \div 16
slab_alloc(h, sz) == IF sz > 64 THEN 0 ELSE h.free_blocks[SlabClass(sz)]

need_to_divide(b, sz) == sz + DEVIDE_SPACE_BOUNDARY <= b.size
can_fit(b, sz, hs) == b.size >= sz + (IF need_to_divide(b, sz) THEN hs ELSE 0)

\* Rounding up to ALIGNMENT, in size_t.
Aligned(sz) == (((sz + ALIGNMENT - 1) % 2^SizeBits) \div ALIGNMENT) * ALIGNMENT

\* The chunk that the search from block i on returns, 0 for none: along next
\* while there is one, so that the last chunk is tested on its own.
RECURSIVE WalkBlock(_, _, _), FirstFit(_, _, _)
WalkBlock(h, a, sz) ==
  LET fits == IsFree(h.mem[a]) /\ can_fit(h.mem[a], sz, h.hs)
  IN  IF fits THEN a
      ELSE IF h.mem[a].next = 0 THEN 0 ELSE WalkBlock(h, h.mem[a].next, sz)
FirstFit(h, i, sz) ==
  IF i > Cardinality(DOMAIN h.memory) THEN 0
  ELSE LET a == WalkBlock(h, h.memory[i], sz) IN IF a # 0 THEN a ELSE FirstFit(h, i + 1, sz)

\* _alloc_new_block, when mmap gives memory.
_alloc_new_block(h, sz) ==
  LET need == sz + h.hs
      size == IF need > MALLOC_DEFAULT_BLOCK_SIZE THEN need ELSE MALLOC_DEFAULT_BLOCK_SIZE
      a == Mapped(h)
      n == Cardinality(DOMAIN h.memory)
  IN  [h EXCEPT !.nmaps = @ + 1,
                !.memory = [i \in 1..(n + 1) |-> IF i <= n THEN @[i] ELSE a],
                !.mem = [x \in DOMAIN @ \cup {a} |-> IF x = a THEN Header(size - h.hs, {}, 0, 0) ELSE @[x]]]

\* The chunk at a is taken for sz bytes, and its rest becomes a free chunk.
Taken(h, a, sz) ==
  LET b == h.mem[a]
      rest == a + sz + h.hs
      whole == [h.mem EXCEPT ![a].flags = @ \cup {"ALLOCATED"}]
      new == Header(b.size - sz - h.hs, {}, b.next, a)
      cut == [x \in DOMAIN whole \cup {rest} |->
                CASE x = a -> [whole[a] EXCEPT !.size = sz, !.next = rest]
                  [] x = rest -> new
                  [] x = b.next /\ x \notin {a, rest} -> [whole[x] EXCEPT !.prev = rest]
                  [] OTHER -> whole[x]]
  IN  IF need_to_divide(b, sz) THEN [h EXCEPT !.mem = cut] ELSE [h EXCEPT !.mem = whole]

\* malloc: the states and pointers it may end in, by what mmap answers.
malloc(h, asked) ==
  LET sz == Aligned(asked)
      slab == slab_alloc(h, sz)
      fit == FirstFit(h, 1, sz)
      new == _alloc_new_block(h, sz)
  IN  CASE asked = 0 -> {[h |-> h, p |-> 0]}
        [] asked # 0 /\ slab # 0 ->
             {[h |-> [h EXCEPT !.free_blocks[SlabClass(sz)] = h.mem[slab].next], p |-> slab + h.hs]}
        [] asked # 0 /\ slab = 0 /\ fit # 0 -> {[h |-> Taken(h, fit, sz), p |-> fit + h.hs]}
        [] asked # 0 /\ slab = 0 /\ fit = 0 /\ Cardinality(DOMAIN h.memory) >= MAX_ALLOCATED_BLOCKS ->
             {[h |-> [h EXCEPT !.aborted = TRUE], p |-> 0]}
        [] OTHER -> {[h |-> h, p |-> 0],
                     [h |-> Taken(new, Mapped(h), sz), p |-> Mapped(h) + h.hs]}

-----------------------------------------------------------------------------
\* Mutant: the chunk after the glued one keeps its prev.
GlueKeepsPrev(h, a) ==
  LET b == h.mem[a]
      n == h.mem[b.next]
      m == [x \in DOMAIN h.mem \ {b.next} |->
              IF x = a THEN [b EXCEPT !.size = @ + n.size + h.hs, !.next = n.next] ELSE h.mem[x]]
  IN  IF b.next # 0 /\ IsFree(n) THEN [h EXCEPT !.mem = m] ELSE h

\* free: back to the first of the free chunks before, then forward over the
\* free ones after, which are glued to it.
RECURSIVE BackFree(_, _), Glue(_, _)
BackFree(m, a) == IF m[a].prev # 0 /\ IsFree(m[m[a].prev]) THEN BackFree(m, m[a].prev) ELSE a
Glue(h, a) ==
  LET b == h.mem[a]
      n == h.mem[b.next]
      m == [x \in DOMAIN h.mem \ {b.next} |->
              IF x = a THEN [b EXCEPT !.size = @ + n.size + h.hs, !.next = n.next]
              ELSE IF x = n.next THEN [h.mem[x] EXCEPT !.prev = a] ELSE h.mem[x]]
  IN  IF b.next # 0 /\ IsFree(n) THEN Glue([h EXCEPT !.mem = m], a) ELSE h

slab_free(h, a) ==
  LET c == h.mem[a].size \div 16
      next == h.free_blocks[c]
  IN  [h EXCEPT !.free_blocks[c] = a,
                !.mem = [x \in DOMAIN @ |->
                   CASE x = a -> [@[x] EXCEPT !.next = next, !.prev = 0]
                     [] x = next /\ x # a -> [@[x] EXCEPT !.prev = a]
                     [] OTHER -> @[x]]]

free(h, p) ==
  LET a == p - h.hs
      g == [h EXCEPT !.mem[a].flags = @ \ {"ALLOCATED"}]
  IN  IF p = 0 THEN h
      ELSE IF IsSlab(h.mem[a]) THEN slab_free(h, a)
      ELSE Glue(g, BackFree(g.mem, a))

\* realloc: a new area, the bytes it can keep, and the old one freed.
realloc(h, p, size) ==
  IF h.mem[p - h.hs].size = size THEN {[h |-> h, p |-> p]}
  ELSE {IF r.p = 0 THEN r ELSE [h |-> free(r.h, p), p |-> r.p] : r \in malloc(h, size)}

-----------------------------------------------------------------------------
\* held: the size the program believes each of its pointers has.
HoldPtr(held, p, size) == [x \in DOMAIN held \cup {p} |-> IF x = p THEN size ELSE held[x]]
DropPtr(held, p) == [x \in DOMAIN held \ {p} |-> held[x]]

UhInit ==
  \E hs \in HeaderSizes, got \in {Classes, {1, 2}} :
    uh = [hs |-> hs, nmaps |-> 4, memory |-> [i \in {} |-> 0], aborted |-> FALSE,
          free_blocks |-> _slab_init(got), mem |-> SlabHeaders(got),
          held |-> [p \in {} |-> 0]]

UhMalloc ==
  \E size \in AllocSizes : \E r \in malloc(uh, size) :
    /\ Cardinality(DOMAIN uh.held) < MaxPointers
    /\ uh' = IF r.p = 0 THEN r.h ELSE [r.h EXCEPT !.held = HoldPtr(@, r.p, size)]

UhCalloc ==
  \E a \in CallocPairs : \E r \in malloc(uh, (a.num * a.size) % 2^SizeBits) :
    /\ Cardinality(DOMAIN uh.held) < MaxPointers
    /\ uh' = IF r.p = 0 THEN r.h
             ELSE [r.h EXCEPT !.held = HoldPtr(@, r.p, a.num * a.size)]

UhFree == \E p \in DOMAIN uh.held : uh' = [free(uh, p) EXCEPT !.held = DropPtr(@, p)]

UhRealloc ==
  \E p \in DOMAIN uh.held, size \in AllocSizes : \E r \in realloc(uh, p, size) :
    uh' = IF r.p = 0 THEN r.h ELSE [r.h EXCEPT !.held = HoldPtr(DropPtr(@, p), r.p, size)]

UhNext == ~uh.aborted /\ (UhMalloc \/ UhCalloc \/ UhFree \/ UhRealloc)

-----------------------------------------------------------------------------
\* The chunks of a block, along next.
RECURSIVE ChunksFrom(_)
ChunksFrom(a) == IF a = 0 THEN {} ELSE {a} \cup ChunksFrom(uh.mem[a].next)
RECURSIVE SlabFrom(_)
SlabFrom(a) == IF a = 0 THEN {} ELSE {a} \cup SlabFrom(uh.mem[a].next)

\* What a program holds is its own: the areas that malloc, calloc and realloc
\* returned do not overlap each other or the header of any chunk or slab
\* block, whatever was cut, glued and moved before.
HeldDisjoint ==
  LET Area(p) == [lo |-> p, hi |-> p + uh.held[p]]
      HeaderOf(a) == [lo |-> a, hi |-> a + uh.hs]
      Apart(x, y) == x.hi <= y.lo \/ y.hi <= x.lo
  IN  \A p \in DOMAIN uh.held :
        /\ \A q \in DOMAIN uh.held \ {p} : Apart(Area(p), Area(q))
        /\ \A a \in DOMAIN uh.mem : Apart(Area(p), HeaderOf(a))

\* The chunks of a block are its parts: they follow one another to its end,
\* prev undoes next, no two free ones are neighbours, and the taken ones are
\* those that the program holds.  Nothing a program gave back is lost.
ChunksPartition ==
  /\ \A i \in DOMAIN uh.memory :
       LET cs == ChunksFrom(uh.memory[i]) IN
         /\ \A a \in cs : LET n == uh.mem[a].next IN n # 0 =>
              /\ n = a + uh.hs + uh.mem[a].size
              /\ uh.mem[n].prev = a
              /\ ~(IsFree(uh.mem[a]) /\ IsFree(uh.mem[n]))
         /\ \A a \in cs : IsFree(uh.mem[a]) <=> a + uh.hs \notin DOMAIN uh.held
         /\ MapThenSumSet(LAMBDA a : uh.hs + uh.mem[a].size, cs) >= MALLOC_DEFAULT_BLOCK_SIZE
  /\ \A c \in Classes : \A a \in SlabFrom(uh.free_blocks[c]) : a + uh.hs \notin DOMAIN uh.held
=============================================================================
