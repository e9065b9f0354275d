-------------------------------- MODULE Pbuf --------------------------------
(* The packet buffers of lwip (pbuf.c) and the heap they live in (mem.c).   *)
(* The heap is a first-fit list of blocks, each with a header that links it *)
(* to its neighbours; a free block is merged with free neighbours.  A       *)
(* buffer of kind RAM is a heap block, one of kind ROM a pool element that  *)
(* points to data elsewhere; buffers form chains.  Every operation runs     *)
(* under mem_sem or on a buffer its caller owns, so each is one step.       *)
EXTENDS Integers, FiniteSetsExt, SequencesExt, TLC

CONSTANTS
    MEM_SIZE, SIZEOF_STRUCT_MEM, MIN_SIZE, MEM_ALIGNMENT,
    SIZEOF_STRUCT_PBUF,
    HLEN,       \* room for headers that PBUF_TRANSPORT reserves; the build declares it,
                \* and it is taken to be a multiple of MEM_ALIGNMENT
    SIZES,      \* sizes asked for
    NUM_ROM,    \* elements of the pool MEMP_PBUF
    REFS        \* bound on the reference count

VARIABLES
    ram,        \* the headers in the heap: next, prev, used, by address
    lfree,      \* where the search for a free block starts
    pbufs,      \* the buffers that exist
    held,       \* references to chains that their users hold
    shrunk,     \* history: mem_realloc has split a block
    twice       \* history: a buffer was freed twice

vars == <<ram, lfree, pbufs, held, shrunk, twice>>

NULL == 0 - 100

\* mem_init, pbuf_init
Init ==
    /\ ram = (0 :> [next |-> MEM_SIZE, prev |-> 0, used |-> FALSE])
    /\ lfree = 0
    /\ pbufs = <<>> /\ held = <<>> /\ shrunk = FALSE /\ twice = FALSE

-----------------------------------------------------------------------------
(* The heap: operators on heap = [ram, lfree].                              *)

heap == [ram |-> ram, lfree |-> lfree]

Without(f, x) == [y \in DOMAIN f \ {x} |-> f[y]]

\* The header at a, if it is not ram_end, gets p as its predecessor.
SetPrev(r, a, p) == IF a = MEM_SIZE THEN r ELSE [r EXCEPT ![a].prev = p]

\* Block m swallows its successor n.
Merge(h, m, n) ==
    [ram   |-> SetPrev([Without(h.ram, n) EXCEPT ![m].next = h.ram[n].next], h.ram[n].next, m),
     lfree |-> IF h.lfree = n THEN m ELSE h.lfree]

\* Mutated form: a free block is merged with its successor only.
plug_holes_forward(h, m) ==
    LET n == h.ram[m].next
    IN  IF n # MEM_SIZE /\ ~h.ram[n].used THEN Merge(h, m, n) ELSE h

\* A free block is merged with the next and with the previous one.
plug_holes(h, m) ==
    LET n  == h.ram[m].next
        h1 == IF n # MEM_SIZE /\ ~h.ram[n].used THEN Merge(h, m, n) ELSE h
        p  == h1.ram[m].prev
    IN  IF p # m /\ ~h1.ram[p].used THEN Merge(h1, p, m) ELSE h1

\* The requested size, expanded for alignment.
Aligned(size) ==
    IF size % MEM_ALIGNMENT = 0 THEN size
    ELSE size + MEM_ALIGNMENT - ((size + SIZEOF_STRUCT_MEM) % MEM_ALIGNMENT)

\* Block m is cut: what is beyond size bytes becomes a free block.
Split(r, m, size) ==
    LET m2 == m + SIZEOF_STRUCT_MEM + size
    IN  SetPrev((m2 :> [next |-> r[m].next, prev |-> m, used |-> FALSE])
                    @@ [r EXCEPT ![m].next = m2], r[m].next, m2)

\* The blocks, from lfree on, that have room for size bytes and a header.
Fitting(h, size) ==
    {m \in DOMAIN h.ram : /\ m >= h.lfree /\ ~h.ram[m].used
                          /\ h.ram[m].next - (m + SIZEOF_STRUCT_MEM) >= size + SIZEOF_STRUCT_MEM}

CanMalloc(size) == size # 0 /\ Fitting(heap, Aligned(size)) # {}

\* The heap after mem_malloc took block m.
Malloced(h, m, size) ==
    LET r == [Split(h.ram, m, Aligned(size)) EXCEPT ![m].used = TRUE]
    IN  [ram   |-> r,
         lfree |-> IF m # h.lfree THEN h.lfree
                   ELSE Min({a \in DOMAIN r : a >= m /\ ~r[a].used} \cup {MEM_SIZE})]

mem_malloc(size) == Min(Fitting(heap, Aligned(size)))

mem_free(h, m) ==
    plug_holes([ram   |-> [h.ram EXCEPT ![m].used = FALSE],
                lfree |-> IF m < h.lfree THEN m ELSE h.lfree], m)

\* The bytes of block m.
BlockSize(h, m) == h.ram[m].next - m - SIZEOF_STRUCT_MEM

Splits(h, m, newsize) == newsize + SIZEOF_STRUCT_MEM + MIN_SIZE < BlockSize(h, m)

\* A block is only ever shortened, and only when enough is left to be of use.
mem_realloc(h, m, newsize) ==
    IF ~Splits(h, m, newsize) THEN h
    ELSE plug_holes([h EXCEPT !.ram = Split(@, m, newsize)], m + SIZEOF_STRUCT_MEM + newsize)

-----------------------------------------------------------------------------
(* Buffers.  A RAM buffer is known by its block, a ROM buffer by a negative *)
(* number; payload is the offset of the data in the buffer's memory.        *)

\* The buffers of the chain that starts at p, in order.
Chain[p \in DOMAIN pbufs] ==
    IF pbufs[p].next = NULL THEN <<p>> ELSE <<p>> \o Chain[pbufs[p].next]

TotLen(s) == FoldFunction(LAMBDA p, n : pbufs[p].len + n, 0, s)

Hold(p, n) == (p :> n) @@ held

NewPbuf(flags, off, size) ==
    [flags |-> flags, payload |-> off, len |-> size, tot_len |-> size, next |-> NULL, ref |-> 1]

\* A size, or an address, rounded up.
MEM_ALIGN_SIZE(n) == ((n + MEM_ALIGNMENT - 1) \div MEM_ALIGNMENT) * MEM_ALIGNMENT

\* The offset of the data in a new buffer in block m: MEM_ALIGN of the address.
Payload(m, offset) ==
    LET p == m + SIZEOF_STRUCT_MEM
    IN  MEM_ALIGN_SIZE(p + SIZEOF_STRUCT_PBUF + offset) - p

\* pbuf_alloc(PBUF_RAW or PBUF_TRANSPORT, size, PBUF_RAM)
AllocRam(offset, size) ==
    LET bytes == MEM_ALIGN_SIZE(SIZEOF_STRUCT_PBUF + size + offset)
        m     == mem_malloc(bytes)
        h     == Malloced(heap, m, bytes)
    IN  /\ CanMalloc(bytes)
        /\ ram' = h.ram /\ lfree' = h.lfree
        /\ pbufs' = (m :> NewPbuf("RAM", Payload(m, offset), size)) @@ pbufs
        /\ held' = Hold(m, 1)
        /\ UNCHANGED <<shrunk, twice>>

\* pbuf_alloc(PBUF_TRANSPORT, size, PBUF_ROM)
AllocRom(size) ==
    LET free == (0 - NUM_ROM .. 0 - 1) \ DOMAIN pbufs
    IN  /\ free # {}
        /\ pbufs' = (Max(free) :> NewPbuf("ROM", 0, size)) @@ pbufs
        /\ held' = Hold(Max(free), 1)
        /\ UNCHANGED <<ram, lfree, shrunk, twice>>

\* pbuf_header: by n bytes, down (n > 0) or up; refused when the header
\* would start in the structure itself.
Header(p, n) ==
    /\ pbufs[p].flags = "RAM" /\ 0 - n <= pbufs[p].len
    /\ pbufs[p].payload - n >= SIZEOF_STRUCT_PBUF
    /\ pbufs' = [pbufs EXCEPT ![p].payload = @ - n, ![p].len = @ + n, ![p].tot_len = @ + n]
    /\ UNCHANGED <<ram, lfree, held, shrunk, twice>>

pbuf_ref(p) ==
    /\ pbufs[p].ref < REFS
    /\ pbufs' = [pbufs EXCEPT ![p].ref = @ + 1]
    /\ held' = [held EXCEPT ![p] = @ + 1]
    /\ UNCHANGED <<ram, lfree, shrunk, twice>>

\* pbuf_chain: the tail belongs to the head from now on, and only the length
\* of the head is adjusted.
pbuf_chain(h, t) ==
    /\ h # t /\ held[t] = 1 /\ pbufs[h].flags = "RAM"
    /\ pbufs' = [pbufs EXCEPT ![Last(Chain[h])].next = t, ![h].tot_len = @ + pbufs[t].tot_len]
    /\ held' = Without(held, t)
    /\ UNCHANGED <<ram, lfree, shrunk, twice>>

\* The length pbuf_dechain gives to the rest of the chain.
DechainedLen(p) == pbufs[p].tot_len - pbufs[p].len

\* pbuf_dechain: the rest of the chain is its caller's.
pbuf_dechain(p) ==
    LET q == pbufs[p].next
    IN  /\ q # NULL
        /\ pbufs' = [pbufs EXCEPT ![q].tot_len = DechainedLen(p),
                                  ![p].tot_len = pbufs[p].len, ![p].next = NULL]
        /\ held' = Hold(q, 1)
        /\ UNCHANGED <<ram, lfree, shrunk, twice>>

\* The heap once the RAM buffers of the chain s are freed, first to last.
FreedAll(h, s) == FoldLeft(LAMBDA x, p : IF pbufs[p].flags = "RAM" THEN mem_free(x, p) ELSE x, h, s)

\* pbuf_free: the last reference to the head frees the whole chain.
pbuf_free(p) ==
    LET s == Chain[p]
        h == FreedAll(heap, s)
    IN  /\ IF pbufs[p].ref > 1
           THEN /\ pbufs' = [pbufs EXCEPT ![p].ref = @ - 1]
                /\ UNCHANGED <<ram, lfree>>
           ELSE /\ ram' = h.ram /\ lfree' = h.lfree
                /\ pbufs' = [q \in DOMAIN pbufs \ ToSet(s) |-> pbufs[q]]
        /\ held' = IF held[p] > 1 THEN [held EXCEPT ![p] = @ - 1] ELSE Without(held, p)
        /\ UNCHANGED <<shrunk, twice>>

\* The bytes of its memory that a buffer cut to rsize keeps.
KeptBytes(q, rsize) == pbufs[q].payload + rsize

\* pbuf_realloc of a RAM buffer.  Of the buffers behind the cut pbuf_free frees
\* the first with all that follow it; the loop goes on and frees these again.
pbuf_realloc(p, size) ==
    LET s     == Chain[p]
        Upto(i) == TotLen(SubSeq(s, 1, i))
        i     == CHOOSE i \in DOMAIN s : size <= Upto(i) /\ (i = 1 \/ Upto(i - 1) < size)
        q     == s[i]
        rsize == size - Upto(i - 1)
        rest  == SubSeq(s, i + 1, Len(s))
        h     == FreedAll(IF pbufs[q].flags = "RAM" THEN mem_realloc(heap, q, KeptBytes(q, rsize))
                                                    ELSE heap, rest)
    IN  /\ pbufs[p].flags = "RAM" /\ size < pbufs[p].tot_len
        /\ ram' = h.ram /\ lfree' = h.lfree
        /\ pbufs' = [[x \in DOMAIN pbufs \ ToSet(rest) |-> pbufs[x]]
                        EXCEPT ![q].len = rsize, ![q].next = NULL, ![p].tot_len = size]
        /\ shrunk' = (shrunk \/ (pbufs[q].flags = "RAM" /\ Splits(heap, q, KeptBytes(q, rsize))))
        /\ twice' = (Len(rest) > 1)
        /\ UNCHANGED held

-----------------------------------------------------------------------------
Use(p) ==
    \/ \E n \in {0 - HLEN, HLEN} : Header(p, n)
    \/ pbuf_ref(p)
    \/ \E t \in DOMAIN held : pbuf_chain(p, t)
    \/ pbuf_dechain(p)
    \/ \E size \in SIZES : pbuf_realloc(p, size)
    \/ pbuf_free(p)

\* After a second free anything may happen: nothing is said of it.
Next ==
    /\ ~twice
    /\ \/ \E offset \in {0, HLEN}, size \in SIZES : AllocRam(offset, size)
       \/ \E size \in SIZES : AllocRom(size)
       \/ \E p \in DOMAIN held : Use(p)

Spec == Init /\ [][Next]_vars

-----------------------------------------------------------------------------
(* The headers tile the heap: each block ends where the next one starts and *)
(* knows its predecessor, no two free blocks touch, and the used blocks are *)
(* exactly the RAM buffers that exist, whatever was allocated, cut and      *)
(* freed before, as long as pbuf_realloc cuts no chain with two buffers or  *)
(* more behind the cut: it frees the last ones twice (pbuf.c:446-450); its  *)
(* callers (tcp_input.c) cut received segments, which are single buffers.   *)
(* The search of mem_malloc starts at a free block and skips none, unless   *)
(* mem_realloc made it.  The data of every buffer lies inside its block,    *)
(* unless the block starts at an address that is not aligned, as it may     *)
(* once mem_realloc, which rounds nothing, has split a block: pbuf_alloc    *)
(* moves the data up to an aligned address without asking for more room     *)
(* (pbuf.c:298, 303).  The tot_len of a chain that someone holds is the sum *)
(* of the lengths of its buffers, however it was put together and taken     *)
(* apart.                                                                   *)
HeapIsSound ==
    ~twice =>
    /\ 0 \in DOMAIN ram
    /\ \A m \in DOMAIN ram :
        /\ ram[m].next > m
        /\ ram[m].next = Min({n \in DOMAIN ram \cup {MEM_SIZE} : n > m})
        /\ ram[m].next # MEM_SIZE => /\ ram[ram[m].next].prev = m
                                     /\ ram[m].used \/ ram[ram[m].next].used
    /\ {m \in DOMAIN ram : ram[m].used} = {p \in DOMAIN pbufs : pbufs[p].flags = "RAM"}
    /\ lfree \in DOMAIN ram /\ ~ram[lfree].used
    /\ ~shrunk => \A m \in DOMAIN ram : ~ram[m].used => m >= lfree
    /\ \A p \in DOMAIN pbufs : pbufs[p].flags = "RAM" /\ p % MEM_ALIGNMENT = 0 =>
            pbufs[p].payload + pbufs[p].len <= BlockSize(heap, p)
    /\ \A p \in DOMAIN held : pbufs[p].tot_len = TotLen(Chain[p])
=============================================================================
