---------------------------- MODULE MemoryPool ------------------------------
(* src/src/cmi_mempool.c and src/src/cmi_mempool.h: a pool of objects of    *)
(* one size, carved out of chunks that grow, and a stack of those that were *)
(* given back.  One pool is static to its thread: its first use sets it up  *)
(* and the end of the thread takes it down.                                 *)
EXTENDS Integers, Sequences, SequencesExt

CONSTANTS ObjectSize, PageSize,  \* in the same unit
          Requested,             \* obj_num
          GrowthLimit,           \* the increment doubles below it
          ListSize               \* CHUNK_LIST_SIZE

(* Whole pages for n objects, and the objects that fit in pages.            *)
Pages(n) == (n * ObjectSize + PageSize - 1) \div PageSize
Fits(pages) == (pages * PageSize) \div ObjectSize

(* chunks has the number of objects of each chunk.  An object is its chunk  *)
(* and its place in it; virgin is the place of the next one of the last     *)
(* chunk that was never handed out.                                         *)
StaticPool ==
    [cookie |-> "static", incr |-> 0, current |-> 0, chunks |-> <<>>, room |-> 0,
     free |-> <<>>, virgin |-> 1, left |-> 0]
Terminated == [StaticPool EXCEPT !.cookie = "uninitialized"]

Initialized == [Terminated EXCEPT !.cookie = "initialized", !.incr = Fits(Pages(Requested)),
                                  !.room = ListSize]

(* cmi_mempool_expand: a chunk of the current increment, which doubles.     *)
Expanded(p) ==
    LET q == IF p.cookie = "static" THEN Initialized ELSE p
        n == IF q.current = 0 THEN q.incr
             ELSE IF q.current < GrowthLimit THEN 2 * q.current ELSE q.current
    IN  [q EXCEPT !.current = n, !.chunks = Append(@, n), !.virgin = 1, !.left = n,
                  !.room = IF Len(q.chunks) = @ THEN @ + ListSize ELSE @]

Carved(p) == [p EXCEPT !.virgin = @ + 1, !.left = @ - 1]
NextVirgin(p) == <<Len(p.chunks), p.virgin>>

(* Faulty: a new chunk is taken when one is left, for the stack to stay     *)
(* short.                                                                   *)
AllocatedEagerly(p) ==
    IF p.free # <<>> THEN [object |-> Head(p.free), pool |-> [p EXCEPT !.free = Tail(@)]]
    ELSE LET q == IF p.left > 1 THEN p ELSE Expanded(p)
         IN  [object |-> NextVirgin(q), pool |-> Carved(q)]

(* cmi_mempool_alloc: a recycled object, else a new one.                    *)
Allocated(p) ==
    IF p.free # <<>> THEN [object |-> Head(p.free), pool |-> [p EXCEPT !.free = Tail(@)]]
    ELSE LET q == IF p.left > 0 THEN p ELSE Expanded(p)
         IN  [object |-> NextVirgin(q), pool |-> Carved(q)]

Freed(p, o) == [p EXCEPT !.free = <<o>> \o @]
=============================================================================
