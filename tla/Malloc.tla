------------------------------- MODULE Malloc -------------------------------
(***************************************************************************)
(* The allocator of user programs (user/umalloc.c): a circular list of     *)
(* free blocks in address order, first fit from where the last search      *)
(* ended, grown with sbrk().  Addresses count headers.  base, a static     *)
(* variable, is at address 0, below the heap, and 0 also stands for the    *)
(* null pointer of freep before the first malloc().                        *)
(*                                                                         *)
(* A header that has become the inside of a block is forgotten: its memory *)
(* belongs to the program or to a larger free block.                       *)
(***************************************************************************)
EXTENDS Naturals, FiniteSets, SequencesExt

CONSTANTS
  HEAP, TOP,   \* the break at the start, and where sbrk() stops growing
  SizeofHeader,
  NUNITS,      \* 4096: the least that morecore() asks for
  Bytes,       \* what programs pass to malloc()
  Growth       \* what programs pass to sbrk() themselves

VARIABLES
  heap,        \* ptr and size of the headers, and freep
  break,       \* the program break
  live,        \* the blocks that malloc() has returned and free() has not got back
  core         \* the addresses that morecore() has given to the allocator

vars == <<heap, break, live, core>>

base == 0
Addr == 0..TOP - 1
Nowhere == TOP

\* The statics are zero.
Init ==
  /\ heap = [ptr |-> [a \in Addr |-> base], size |-> [a \in Addr |-> 0], freep |-> Nowhere]
  /\ break = HEAP
  /\ live = {}
  /\ core = {}

\* The search of free(): between which two blocks of the list bp belongs.
RECURSIVE Place(_, _, _)
Place(h, p, bp) ==
  LET q == h.ptr[p] IN
  IF (bp > p /\ bp < q) \/ (p >= q /\ (bp > p \/ bp < q)) THEN p ELSE Place(h, q, bp)

\* Variant of free: the block is not joined to the one before it.
freeUpper(h, bp) ==
  LET p == Place(h, h.freep, bp)
      q == h.ptr[p]
      up == bp + h.size[bp] = q
  IN [h EXCEPT !.size[bp] = IF up THEN @ + h.size[q] ELSE @,
               !.ptr[bp] = IF up THEN h.ptr[q] ELSE q,
               !.size[q] = IF up THEN 0 ELSE @,
               !.ptr[p] = bp,
               !.freep = p]

free(h, bp) ==
  LET p == Place(h, h.freep, bp)
      q == h.ptr[p]
      up == bp + h.size[bp] = q
      joined == [h EXCEPT !.size[bp] = IF up THEN @ + h.size[q] ELSE @,
                          !.ptr[bp] = IF up THEN h.ptr[q] ELSE q,
                          !.size[q] = IF up THEN 0 ELSE @,
                          !.ptr[q] = IF up THEN base ELSE @]
  IN IF p + h.size[p] = bp
       THEN [joined EXCEPT !.size[p] = @ + joined.size[bp], !.ptr[p] = joined.ptr[bp],
                           !.size[bp] = 0, !.ptr[bp] = base, !.freep = p]
       ELSE [joined EXCEPT !.ptr[p] = bp, !.freep = p]

\* morecore() asks for at least NUNITS headers.
Units(nu) == IF nu < NUNITS THEN NUNITS ELSE nu
morecore(h, brk, nu) == free([h EXCEPT !.size[brk] = nu], brk)

\* Takes nunits from the end of the block p of the list, or all of it.
Carve(h, prevp, p, nunits) ==
  IF h.size[p] = nunits
    THEN [h EXCEPT !.ptr[prevp] = h.ptr[p], !.ptr[p] = base, !.freep = prevp]
    ELSE [h EXCEPT !.size[p] = @ - nunits, !.size[p + (h.size[p] - nunits)] = nunits,
                   !.freep = prevp]

\* The loop of malloc(): the heap it leaves, the break, and the block, or
\* Nowhere when sbrk() fails.
RECURSIVE Fit(_, _, _, _, _)
Fit(h, brk, prevp, p, nunits) ==
  IF h.size[p] >= nunits
    THEN [heap |-> Carve(h, prevp, p, nunits), break |-> brk, at |-> p + (h.size[p] - nunits)]
    ELSE IF p # h.freep THEN Fit(h, brk, p, h.ptr[p], nunits)
    ELSE IF brk + Units(nunits) > TOP THEN [heap |-> h, break |-> brk, at |-> Nowhere]
    ELSE LET g == morecore(h, brk, Units(nunits))
         IN Fit(g, brk + Units(nunits), g.freep, g.ptr[g.freep], nunits)

\* The first call makes base the only block of the list.
Started(h) == IF h.freep = Nowhere THEN [h EXCEPT !.freep = base] ELSE h
NUnits(nbytes) == (nbytes + SizeofHeader - 1) \div SizeofHeader + 1

malloc(nbytes) ==
  LET h == Started(heap)
      r == Fit(h, break, h.freep, h.ptr[h.freep], NUnits(nbytes))
  IN /\ heap' = r.heap
     /\ break' = r.break
     /\ core' = core \cup break..r.break - 1
     /\ live' = IF r.at = Nowhere THEN live
                ELSE live \cup {[at |-> r.at, bytes |-> nbytes]}

release(b) ==
  /\ heap' = free(heap, b.at)
  /\ live' = live \ {b}
  /\ UNCHANGED <<break, core>>

\* A program may also grow its memory itself.
sbrk(n) ==
  /\ break + n <= TOP
  /\ break' = break + n
  /\ UNCHANGED <<heap, live, core>>

Next ==
  \/ \E n \in Bytes : malloc(n)
  \/ \E b \in live : release(b)
  \/ \E n \in Growth : sbrk(n)

Spec == Init /\ [][Next]_vars

-----------------------------------------------------------------------------
\* The blocks of the free list other than base, in the order of the list.
RECURSIVE ListFrom(_, _)
ListFrom(p, n) == IF p = base \/ n = 0 THEN <<>> ELSE <<p>> \o ListFrom(heap.ptr[p], n - 1)
FreeList == ListFrom(heap.ptr[base], TOP)

Span(p) == p..p + heap.size[p] - 1

\* free() and malloc() keep the memory that sbrk() gave them in one piece: the
\* free blocks and the blocks that programs hold never overlap, and together
\* they are all of it; a block has room for the bytes asked for; and the free
\* list is in address order with no two blocks that touch, whatever the order
\* of the calls and wherever freep was left.
HeapSound ==
  LET blocks == ToSet(FreeList) \cup {b.at : b \in live} IN
  /\ \A p, q \in blocks : p # q => Span(p) \cap Span(q) = {}
  /\ UNION {Span(p) : p \in blocks} = core
  /\ \A b \in live : (heap.size[b.at] - 1) * SizeofHeader >= b.bytes
  /\ \A i \in 1..Len(FreeList) - 1 : FreeList[i] + heap.size[FreeList[i]] < FreeList[i + 1]
  /\ heap.freep # Nowhere => heap.freep \in ToSet(FreeList) \cup {base}
=============================================================================
