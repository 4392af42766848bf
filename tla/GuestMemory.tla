---------------------------- MODULE GuestMemory ----------------------------
(***************************************************************************)
(* Guest memory: the page allocator (VMAllocator), the heaps on top of it  *)
(* (HeapAllocator, mem/allocator.rs), and everybody who allocates:         *)
(* malloc and the malloc zones (mem.rs, libc/malloc.rs), mmap              *)
(* (libc/sys/mman.rs), vm_allocate (libc/mach/vm_map.rs), and the segments *)
(* of the binary, reserved when it is loaded (mach_o.rs).                  *)
(*                                                                         *)
(* Contents of memory are left out.  An allocation that cannot be met ends *)
(* the program, as the unwrap()s and expect()s of the callers do.          *)
(***************************************************************************)
EXTENDS Integers, FiniteSets, SequencesExt, FiniteSetTheorems, TLAPS

-----------------------------------------------------------------------------
(***************************************************************************)
(* Chunks of guest address space and the two chunk maps of                 *)
(* mem/allocator.rs: ChunkMap (by base) and SizeBucketedChunkMap (free     *)
(* chunks, in buckets by the logarithm of their size).  A map is modelled  *)
(* as its set of chunks; the buckets are derived from the sizes.           *)
(***************************************************************************)
Chunk(base, size) == [base |-> base, size |-> size]
Chunks == [base : Nat, size : Nat \ {0}]
last_byte(c) == c.base + (c.size - 1)
contains(c, addr) == c.base <= addr /\ addr <= last_byte(c)
Bytes(c) == c.base .. last_byte(c)

\* Chunk::difference: the parts of c that do not overlap o
left_part(c, o) ==
  IF last_byte(o) < c.base \/ o.base <= c.base THEN {}
  ELSE IF o.base > last_byte(c) THEN {c} ELSE {Chunk(c.base, o.base - c.base)}
right_part(c, o) ==
  IF last_byte(o) < c.base THEN {c}
  ELSE IF last_byte(c) <= last_byte(o) \/ o.base > last_byte(c) THEN {}
  ELSE {Chunk(last_byte(o) + 1, last_byte(c) - last_byte(o))}
difference(c, o) == left_part(c, o) \cup right_part(c, o)

\* Chunk::merge, of adjacent chunks, and with the neighbour found, if any
merge(c, d) == Chunk(IF c.base < d.base THEN c.base ELSE d.base, c.size + d.size)
merge_found(c, S) == IF S = {} THEN c ELSE merge(c, CHOOSE d \in S : TRUE)

\* ChunkMap::remove_with_base and remove_with_end, as the set of chunks found
with_base(S, base) == {c \in S : c.base = base}
with_end(S, end) == {c \in S : c.base < end /\ last_byte(c) + 1 = end}

\* ChunkMap::overlapping_chunks: the search starts at the last chunk that
\* begins at or before r, provided that it reaches into r
overlapping_chunks_inside(S, r) == {c \in S : r.base <= c.base /\ c.base <= last_byte(r)}
overlapping_chunks(S, r) ==
  LET before == {c \in S : c.base <= r.base}
      prev == {c \in before : \A d \in before : d.base <= c.base}
      reach == {c \in prev : r.base < c.base + c.size}
      starts == {c.base : c \in reach} \cup {r.base}
  IN  {c \in S : (\E s \in starts : s <= c.base) /\ c.base <= last_byte(r)}
remove_range(S, r) ==
  LET hit == overlapping_chunks(S, r)
  IN  (S \ hit) \cup UNION {difference(c, r) : c \in hit}

\* SizeBucketedChunkMap::bucket_for, less the constant for the smallest bucket:
\* the logarithm is one less than the number of powers of two up to n
CONSTANT AddressBits           \* the width of a GuestUSize
Powers == {2 ^ k : k \in 0 .. AddressBits - 1}
ilog2(n) == Cardinality({p \in 1 .. n : p \in Powers}) - 1
InBucket(S, k) == {c \in S : ilog2(c.size) = k}

\* SizeBucketedChunkMap::allocate: the chunks of the bucket of this size that
\* are large enough, or else those of the next bucket that is not empty
Candidates(S, size) ==
  LET fits == {c \in InBucket(S, ilog2(size)) : c.size >= size}
      above == {k \in {ilog2(c.size) : c \in S} : k > ilog2(size)}
  IN  IF fits # {} \/ above = {} THEN fits
      ELSE InBucket(S, CHOOSE k \in above : \A j \in above : k <= j)

\* allocate_in_bucket: the first candidate by (size, base) is split, and what
\* is left of it (the rump) is free again
Found(S, size) ==
  LET cs == Candidates(S, size)
  IN  CHOOSE c \in cs : \A d \in cs : c.size < d.size \/ (c.size = d.size /\ c.base <= d.base)
rump(c, size) == IF c.size = size THEN {} ELSE {Chunk(c.base + size, c.size - size)}
unused_after(S, size) ==
  LET c == Found(S, size) IN (S \ {c}) \cup rump(c, size)

Disjoint(c, d) == last_byte(c) < d.base \/ last_byte(d) < c.base
PairwiseDisjoint(S) == \A c, d \in S : c = d \/ Disjoint(c, d)
Covered(S) == UNION {Bytes(c) : c \in S}

-----------------------------------------------------------------------------
CONSTANTS
  PAGE_SIZE,
  MIN_CHUNK_SIZE,
  HEAP_CHUNK_SIZE,             \* what a heap asks the page allocator for
  HEAP_ALLOCATION_THRESHOLD,   \* larger requests go to the page allocator
  STACK_LOW_END,               \* the end of the allocatable space
  Reserved,                    \* the chunks reserved by loading the binary
  Zones,                       \* malloc zones other than the default one
  ZONE_SIZE,                   \* size of a malloc_zone_t
  MallocSizes, PageSizes,      \* the sizes the guest asks for
  UnmapsOnlyMapped             \* does the guest unmap only what it mapped?

ASSUME SizesAssumption ==
  /\ {PAGE_SIZE, MIN_CHUNK_SIZE, HEAP_CHUNK_SIZE, STACK_LOW_END, ZONE_SIZE} \subseteq Nat \ {0}
  /\ PAGE_SIZE % MIN_CHUNK_SIZE = 0
  /\ HEAP_CHUNK_SIZE % PAGE_SIZE = 0 /\ STACK_LOW_END % PAGE_SIZE = 0
  /\ HEAP_ALLOCATION_THRESHOLD \in Nat /\ HEAP_ALLOCATION_THRESHOLD < HEAP_CHUNK_SIZE
ASSUME RequestsAssumption ==
  /\ MallocSizes \subseteq Nat /\ PageSizes \subseteq Nat \ {0}
  /\ UnmapsOnlyMapped \in BOOLEAN
  /\ "default" \notin Zones
ASSUME ReservedAssumption ==
  /\ IsFiniteSet(Reserved) /\ PairwiseDisjoint(Reserved)
  /\ \A c \in Reserved : /\ c \in Chunks /\ last_byte(c) < STACK_LOW_END
                         /\ c.base % PAGE_SIZE = 0 /\ c.size % PAGE_SIZE = 0

VARIABLES
  vm,        \* Mem::vm_allocator
  heaps,     \* Mem::heap_allocator and malloc::State::zone_to_heap
  zones,     \* the address of each malloc_zone_t, NoZone if there is none
  mach,      \* vm_map::State::allocations
  mmaps,     \* mman::State::mmap_allocations
  panicked

memVars == <<vm, heaps>>
vars == <<vm, heaps, zones, mach, mmaps, panicked>>

Default == "default"
HeapIds == Zones \cup {Default}
NoZone == -1
NoHeap == [live |-> FALSE, used |-> {}, unused |-> {}, external |-> {}, backing |-> {}]

next_multiple_of(size, a) == ((size + a - 1) \div a) * a
page_base(addr) == addr - (addr % PAGE_SIZE)

(***************************************************************************)
(* The page allocator and the heaps as functions on a memory m with fields *)
(* vm and heaps.  A request yields the new memory and the chunk, or fails. *)
(***************************************************************************)
Mem == [vm |-> vm, heaps |-> heaps]
Got(m, c) == [ok |-> TRUE, mem |-> m, chunk |-> c]
Failed(m) == [ok |-> FALSE, mem |-> m, chunk |-> Chunk(0, 0)]
\* The memory with another heap at z
put(m, z, h) == [vm |-> m.vm, heaps |-> [m.heaps EXCEPT ![z] = h]]

\* VMAllocator::allocate_any and allocate_at, of a vm_allocator; the latter
\* fails unless one unused chunk contains the whole range
taken(v, c, unused) == [used |-> v.used \cup {c}, unused |-> unused]
allocate_any(m, size) ==
  LET c == Chunk(Found(m.vm.unused, size).base, size)
  IN  IF Candidates(m.vm.unused, size) = {} THEN Failed(m)
      ELSE Got([m EXCEPT !.vm = taken(m.vm, c, unused_after(m.vm.unused, size))], c)
around(S, c) == {u \in S : contains(u, c.base) /\ contains(u, last_byte(c))}
allocate_at(m, c) ==
  LET S == m.vm.unused
      us == around(S, c)
  IN  IF us = {} THEN Failed(m)
      ELSE Got([m EXCEPT !.vm = taken(m.vm, c, (S \ us) \cup UNION {difference(u, c) : u \in us})], c)

\* VMAllocator::allocate, at an address or anywhere
PageRange(addr, size) == Chunk(page_base(addr), next_multiple_of(size, PAGE_SIZE))
allocate(m, size) == allocate_any(m, next_multiple_of(size, PAGE_SIZE))
allocate_here(m, addr, size) == allocate_at(m, PageRange(addr, size))

\* VMAllocator::deallocate: any range becomes unused, merged with the unused
\* chunks on both sides
insert_merged(S, c) ==
  LET next == with_base(S, last_byte(c) + 1)
      prev == with_end(S, c.base)
  IN  (S \ (next \cup prev)) \cup {merge_found(merge_found(c, next), prev)}
deallocate(m, addr, size) ==
  LET freed == PageRange(addr, size)
  IN  [m EXCEPT !.vm = [used |-> remove_range(m.vm.used, freed),
                        unused |-> insert_merged(remove_range(m.vm.unused, freed), freed)]]

\* HeapAllocator::new and grow
Heap(used, unused, external, backing) ==
  [live |-> TRUE, used |-> used, unused |-> unused, external |-> external, backing |-> backing]
EmptyHeap(S) == Heap({}, S, {}, S)
started(r, z) == IF r.ok THEN Got(put(r.mem, z, EmptyHeap({r.chunk})), r.chunk) ELSE r
heap_new(m, z, size) ==
  IF size = 0 THEN Got(put(m, z, EmptyHeap({})), Chunk(0, 0)) ELSE started(allocate(m, size), z)
grown(r, z, h) ==
  IF r.ok THEN Got(put(r.mem, z, Heap(h.used, h.unused \cup {r.chunk}, h.external,
                                      h.backing \cup {r.chunk})), r.chunk)
          ELSE r
grow(m, z) == grown(allocate(m, HEAP_CHUNK_SIZE), z, m.heaps[z])

\* A chunk of the page allocator handed out by a heap
handed_on(r, z, h) ==
  IF r.ok THEN Got(put(r.mem, z, Heap(h.used, h.unused, h.external \cup {r.chunk}, h.backing)), r.chunk)
          ELSE r
external_alloc(m, z, size) == handed_on(allocate(m, size), z, m.heaps[z])
small_alloc(m, z, size) ==
  LET h == m.heaps[z]
      c == Chunk(Found(h.unused, size).base, size)
  IN  Got(put(m, z, Heap(h.used \cup {c}, unused_after(h.unused, size), h.external, h.backing)), c)

\* Mem::allocators_mut creates the default heap when it is first used
with_heap(m, z) ==
  IF m.heaps[z].live THEN Got(m, Chunk(0, 0)) ELSE heap_new(m, z, HEAP_CHUNK_SIZE)

\* HeapAllocator::alloc
Aligned(size) ==
  next_multiple_of(IF size < MIN_CHUNK_SIZE THEN MIN_CHUNK_SIZE ELSE size, MIN_CHUNK_SIZE)
refilled_alloc(r, z, size) == IF r.ok THEN small_alloc(r.mem, z, size) ELSE r
HeapAlloc(m, z, size) ==
  IF size > HEAP_ALLOCATION_THRESHOLD THEN external_alloc(m, z, size)
  ELSE IF Candidates(m.heaps[z].unused, size) # {} THEN small_alloc(m, z, size)
  ELSE refilled_alloc(grow(m, z), z, size)
heap_alloc(r, z, size) == IF r.ok THEN HeapAlloc(r.mem, z, size) ELSE r
alloc(m, z, request) == heap_alloc(with_heap(m, z), z, Aligned(request))

\* HeapAllocator::free: merged with the unused chunk after it or, if there
\* is none, with the one before it.  An unknown address is only logged.
HeapJoined(S, freed) ==
  IF with_base(S, last_byte(freed) + 1) # {} THEN with_base(S, last_byte(freed) + 1)
                                             ELSE with_end(S, freed.base)
free(m, z, base) ==
  LET h == m.heaps[z]
      ext == with_base(h.external, base)
      own == with_base(h.used, base)
      c == CHOOSE c \in IF ext # {} THEN ext ELSE own : TRUE
      joined == HeapJoined(h.unused, c)
  IN  IF ext # {}
        THEN deallocate(put(m, z, Heap(h.used, h.unused, h.external \ ext, h.backing)), c.base, c.size)
      ELSE IF own # {}
        THEN put(m, z, Heap(h.used \ own, (h.unused \ joined) \cup {merge_found(c, joined)},
                            h.external, h.backing))
      ELSE m

\* HeapAllocator::allocated_size
allocated_size(m, z, base) ==
  LET own == with_base(m.heaps[z].external, base) \cup with_base(m.heaps[z].used, base)
  IN  (CHOOSE c \in own : TRUE).size
Allocations(z) == {c.base : c \in heaps[z].used \cup heaps[z].external}

\* Mem::realloc_in_heap, of a pointer that is not null
moved(r, z, base) == IF r.ok THEN Got(free(r.mem, z, base), r.chunk) ELSE r
realloc(m, z, base, size) ==
  IF allocated_size(m, z, base) >= size THEN Got(m, Chunk(base, size)) ELSE moved(alloc(m, z, size), z, base)

\* Mem::destroy_heap: every chunk the heap had of the page allocator
vm_chunks(h) == h.external \cup h.backing
all_freed(m, cs) ==
  LET freed[i \in 0 .. Len(cs)] ==
        IF i = 0 THEN m ELSE deallocate(freed[i - 1], cs[i].base, cs[i].size)
  IN  freed[Len(cs)]
destroy_heap(m, z) == all_freed(put(m, z, NoHeap), SetToSeq(vm_chunks(m.heaps[z])))

-----------------------------------------------------------------------------
(***************************************************************************)
(* The operations.  Loading the binary has reserved its segments.          *)
(***************************************************************************)
all_reserved(m, cs) ==
  LET reserved[i \in 0 .. Len(cs)] ==
        IF i = 0 THEN m ELSE allocate_here(reserved[i - 1], cs[i].base, cs[i].size).mem
  IN  reserved[Len(cs)]
Loaded ==
  all_reserved([vm |-> [used |-> {}, unused |-> {Chunk(0, STACK_LOW_END)}],
                heaps |-> [z \in HeapIds |-> NoHeap]], SetToSeq(Reserved))
Init ==
  /\ vm = Loaded.vm
  /\ heaps = Loaded.heaps
  /\ zones = [z \in HeapIds |-> NoZone]
  /\ mach = {} /\ mmaps = {}
  /\ panicked = FALSE

Commit(m) == vm' = m.vm /\ heaps' = m.heaps
\* A request either succeeds or ends the program
Settle(r) ==
  IF r.ok THEN Commit(r.mem) /\ UNCHANGED panicked
          ELSE panicked' = TRUE /\ UNCHANGED memVars

malloc(size) ==
  /\ \E r \in {alloc(Mem, Default, size)} : Settle(r)
  /\ UNCHANGED <<zones, mach, mmaps>>

\* malloc_default_zone, which with_zone calls first, allocates the struct of
\* the default zone once
default_zone(m) ==
  IF zones[Default] # NoZone THEN Got(m, Chunk(zones[Default], ZONE_SIZE))
                             ELSE alloc(m, Default, ZONE_SIZE)
zone_call(z, d, outcome) ==
  \E r \in {outcome} :
    /\ zones[z] # NoZone \/ z = Default
    /\ Settle(r)
    /\ zones' = IF r.ok THEN [zones EXCEPT ![Default] = d.chunk.base] ELSE zones
    /\ UNCHANGED <<mach, mmaps>>

malloc_zone_malloc(z, size) ==
  \E d \in {default_zone(Mem)} :
    zone_call(z, d, IF d.ok THEN alloc(d.mem, z, size) ELSE d)
malloc_zone_free(z, base) ==
  /\ base # zones[z]
  /\ \E d \in {default_zone(Mem)} :
        zone_call(z, d, IF d.ok THEN Got(free(d.mem, z, base), Chunk(base, 0)) ELSE d)
malloc_zone_realloc(z, base, size) ==
  /\ base # zones[z]
  /\ \E d \in {default_zone(Mem)} :
        zone_call(z, d, IF d.ok THEN realloc(d.mem, z, base, size) ELSE d)

valloc(size) ==
  /\ \E h \in {with_heap(Mem, Default)} :
        Settle(IF h.ok THEN external_alloc(h.mem, Default, size) ELSE h)
  /\ UNCHANGED <<zones, mach, mmaps>>

malloc_create_zone(z, start_size) ==
  \E s \in {alloc(Mem, Default, ZONE_SIZE)} :
  \E r \in {IF s.ok THEN heap_new(s.mem, z, start_size) ELSE s} :
    /\ zones[z] = NoZone
    /\ Settle(r)
    /\ zones' = IF r.ok THEN [zones EXCEPT ![z] = s.chunk.base] ELSE zones
    /\ UNCHANGED <<mach, mmaps>>

malloc_destroy_zone(z) ==
  \E d \in {default_zone(Mem)} :
  \E r \in {IF d.ok THEN Got(free(destroy_heap(d.mem, z), Default, zones[z]), Chunk(0, 0))
                    ELSE d} :
    /\ zones[z] # NoZone /\ z # Default
    /\ Settle(r)
    /\ zones' = IF r.ok THEN [zones EXCEPT ![Default] = d.chunk.base, ![z] = NoZone] ELSE zones
    /\ UNCHANGED <<mach, mmaps>>

\* vm_allocate anywhere or at a fixed address; the requested size is recorded
vm_allocate(outcome, size) ==
  \E r \in {outcome} :
    /\ Settle(r)
    /\ mach' = IF r.ok THEN mach \cup {Chunk(r.chunk.base, size)} ELSE mach
    /\ UNCHANGED <<zones, mmaps>>
vm_deallocate(c) ==
  /\ Commit(deallocate(Mem, c.base, c.size))
  /\ mach' = mach \ {c}
  /\ UNCHANGED <<zones, mmaps, panicked>>

\* mman::State::untrack_range
untrack_range(r) ==
  (mmaps \ {c \in mmaps : ~Disjoint(c, r)})
    \cup UNION {difference(c, r) : c \in {d \in mmaps : ~Disjoint(d, r)}}

\* mmap: anywhere, at a hint (elsewhere if that fails) or at a fixed address,
\* where it takes the place of what was there
Mapping(outcome, tracked) ==
  \E r \in {outcome} :
    /\ Settle(r)
    /\ mmaps' = IF r.ok THEN tracked \cup {r.chunk} ELSE tracked
    /\ UNCHANGED <<zones, mach>>
mmap(size) == Mapping(allocate(Mem, size), mmaps)
mmap_hint(addr, size) ==
  \E r \in {allocate_here(Mem, addr, size)} :
    Mapping(IF r.ok THEN r ELSE allocate(Mem, size), mmaps)
mmap_fixed(c) ==
  Mapping(allocate_here(deallocate(Mem, c.base, c.size), c.base, c.size), untrack_range(c))
munmap(c) ==
  /\ mmaps' = untrack_range(c)
  /\ Commit(deallocate(Mem, c.base, c.size))
  /\ UNCHANGED <<zones, mach, panicked>>

\* Page ranges the guest may name: of its own mappings, unless it is careless
Pages == {p * PAGE_SIZE : p \in 0 .. (STACK_LOW_END \div PAGE_SIZE) - 1}
Ranges == {c \in {Chunk(a, next_multiple_of(s, PAGE_SIZE)) : a \in Pages, s \in PageSizes} :
             last_byte(c) < STACK_LOW_END}
UnmapRanges ==
  {c \in Ranges : UnmapsOnlyMapped => Bytes(c) \subseteq Covered(mmaps)}

MallocCall ==
  \/ \E s \in MallocSizes : malloc(s)
  \/ \E s \in PageSizes : valloc(s)
ZoneCall ==
  \/ \E z \in HeapIds, s \in MallocSizes : malloc_zone_malloc(z, s)
  \/ \E z \in HeapIds : \E b \in Allocations(z) \ {zones[y] : y \in HeapIds} :
        malloc_zone_free(z, b) \/ \E s \in MallocSizes : malloc_zone_realloc(z, b, s)
  \/ \E z \in Zones, s \in {0} \cup PageSizes : malloc_create_zone(z, s)
  \/ \E z \in Zones : malloc_destroy_zone(z)
PageCall ==
  \/ \E s \in PageSizes : vm_allocate(allocate(Mem, s), s)
  \/ \E c \in Ranges : vm_allocate(allocate_here(Mem, c.base, c.size), c.size)
  \/ \E c \in mach : vm_deallocate(c)
  \/ \E s \in PageSizes : mmap(s)
  \/ \E c \in Ranges : mmap_hint(c.base, c.size)
  \/ \E c \in UnmapRanges : mmap_fixed(c) \/ munmap(c)
Next == ~panicked /\ (MallocCall \/ ZoneCall \/ PageCall)

Spec == Init /\ [][Next]_vars

-----------------------------------------------------------------------------
(***************************************************************************)
(* Properties.                                                             *)
(***************************************************************************)
PageRounded(S) == {Chunk(c.base, next_multiple_of(c.size, PAGE_SIZE)) : c \in S}
HeapPages == UNION {heaps[z].backing \cup heaps[z].external : z \in HeapIds}

\* The page allocator's used and unused chunks are a partition of the address
\* space: whatever is split, merged or freed, no page is lost or counted twice.
VMPartition ==
  /\ vm.used \cap vm.unused = {}
  /\ PairwiseDisjoint(vm.used \cup vm.unused)
  /\ Covered(vm.used \cup vm.unused) = 0 .. STACK_LOW_END - 1

\* Nothing is handed out twice: two live allocations, of any heap, mapping,
\* vm_allocate or binary segment, never share a byte.
NoOverlap ==
  LET small == UNION {heaps[z].used : z \in HeapIds}
      big == UNION {heaps[z].external : z \in HeapIds}
      all == small \cup big \cup PageRounded(mach) \cup mmaps \cup Reserved
  IN  /\ PairwiseDisjoint(all)
      /\ \A y, z \in HeapIds : y # z =>
            (heaps[y].used \cup heaps[y].external) \cap (heaps[z].used \cup heaps[z].external) = {}

\* A heap's used and unused chunks are a partition of the pages it was given.
HeapPartition ==
  \A z \in HeapIds :
    LET h == heaps[z]
    IN  /\ PairwiseDisjoint(h.used \cup h.unused) /\ h.used \cap h.unused = {}
        /\ Covered(h.used \cup h.unused) = Covered(h.backing)

\* Free pages are merged with their neighbours, so that the largest free
\* range is one chunk.
VMCoalesced == \A c, d \in vm.unused : last_byte(c) + 1 # d.base

\* The pages in use are those of the heaps, the mappings, vm_allocate and the
\* binary: none leaks when a zone is destroyed or a mapping is split.
PagesAccounted ==
  Covered(vm.used) = Covered(HeapPages \cup PageRounded(mach) \cup mmaps \cup Reserved)

\* "allocation_uses_smallest_suitable_chunk": the search by buckets finds a
\* chunk whenever one is large enough, and then the smallest one.
BestFit ==
  \A S \in {vm.unused} \cup {heaps[z].unused : z \in HeapIds} :
    \A size \in 1 .. STACK_LOW_END :
      LET fits == {c \in S : c.size >= size}
      IN  IF fits = {} THEN Candidates(S, size) = {}
          ELSE Found(S, size) \in {c \in fits : \A d \in fits : c.size <= d.size}

\* Memory is kept: the page allocator's chunks are a partition of the address space, with no two
\* free neighbours.  If the guest unmaps only what it mapped, heaps are partitions of their pages,
\* no two allocations overlap, every page is some part's, and requests get the best fit.
MemoryRight ==
  /\ VMPartition /\ VMCoalesced
  /\ UnmapsOnlyMapped => HeapPartition /\ NoOverlap /\ PagesAccounted /\ BestFit

\* "Permanently mark a region of address space as being unusable".
ReservedStays == Covered(Reserved) \cap Covered(vm.unused) = {}

-----------------------------------------------------------------------------
(***************************************************************************)
(* Proofs.  Chunks first: what they are, and the bytes they stand for.     *)
(***************************************************************************)
Coalesced(S) == \A c, d \in S : last_byte(c) + 1 # d.base
ChunkSet(S) == S \subseteq Chunks /\ PairwiseDisjoint(S)

\* A chunk is a base and a size, and its bytes are those from the one to its last
LEMMA ChunkFacts ==
  ASSUME NEW c \in Chunks
  PROVE  /\ c.base \in Nat /\ c.size \in Nat \ {0} /\ c = Chunk(c.base, c.size)
         /\ last_byte(c) \in Nat /\ c.base <= last_byte(c) /\ last_byte(c) = c.base + c.size - 1
         /\ \A b : b \in Bytes(c) <=> b \in Nat /\ c.base <= b /\ b <= last_byte(c)
BY DEF Chunks, Chunk, last_byte, Bytes

\* The same of a chunk that is made
LEMMA ChunkIs ==
  ASSUME NEW a \in Nat, NEW n \in Nat \ {0}
  PROVE  /\ Chunk(a, n) \in Chunks /\ Chunk(a, n).base = a /\ Chunk(a, n).size = n
         /\ last_byte(Chunk(a, n)) = a + n - 1
BY DEF Chunks, Chunk, last_byte

\* Chunks are disjoint when they share no byte
LEMMA DisjointBytes ==
  ASSUME NEW c \in Chunks, NEW d \in Chunks
  PROVE  Disjoint(c, d) <=> Bytes(c) \cap Bytes(d) = {}
<1>1. CASE Disjoint(c, d)
  BY <1>1, ChunkFacts DEF Disjoint
<1>2. CASE ~Disjoint(c, d) /\ c.base <= d.base
  <2>1. d.base \in Bytes(c) /\ d.base \in Bytes(d)
    BY <1>2, ChunkFacts DEF Disjoint
  <2> QED BY <1>2, <2>1
<1>3. CASE ~Disjoint(c, d) /\ d.base < c.base
  <2>1. c.base \in Bytes(c) /\ c.base \in Bytes(d)
    BY <1>3, ChunkFacts DEF Disjoint
  <2> QED BY <1>3, <2>1
<1>4. c.base \in Nat /\ d.base \in Nat
  BY ChunkFacts
<1> QED BY <1>1, <1>2, <1>3, <1>4

\* A byte is covered when it is one of some chunk
LEMMA InCovered ==
  ASSUME NEW S, NEW b
  PROVE  b \in Covered(S) <=> \E c \in S : b \in Bytes(c)
BY DEF Covered

\* The chunks of a set are told apart by any byte they contain
LEMMA OneOwner ==
  ASSUME NEW S, ChunkSet(S), NEW c \in S, NEW d \in S, NEW b, b \in Bytes(c), b \in Bytes(d)
  PROVE  c = d
BY DisjointBytes DEF ChunkSet, PairwiseDisjoint

\* What is left of a chunk when another is cut out of it
LEMMA DifferenceFacts ==
  ASSUME NEW c \in Chunks, NEW o \in Chunks
  PROVE  /\ difference(c, o) \subseteq Chunks
         /\ \A x \in difference(c, o) : /\ c.base <= x.base /\ last_byte(x) <= last_byte(c)
                                        /\ Disjoint(x, o)
                                        /\ x.base = c.base \/ x.base = last_byte(o) + 1
                                        /\ last_byte(x) = last_byte(c) \/ last_byte(x) + 1 = o.base
         /\ \A x, y \in difference(c, o) : x = y \/ Disjoint(x, y)
         /\ \A x, y \in difference(c, o) : last_byte(x) + 1 # y.base
         /\ \A b \in Bytes(c) : b \in Bytes(o) \/ \E x \in difference(c, o) : b \in Bytes(x)
         /\ Disjoint(c, o) => difference(c, o) = {c}
<1> DEFINE l == Chunk(c.base, o.base - c.base)
           r == Chunk(last_byte(o) + 1, last_byte(c) - last_byte(o))
<1>1. /\ c.base \in Nat /\ c.size \in Nat \ {0} /\ last_byte(c) \in Nat /\ c.base <= last_byte(c)
      /\ o.base \in Nat /\ o.size \in Nat \ {0} /\ last_byte(o) \in Nat /\ o.base <= last_byte(o)
  BY ChunkFacts
<1>2. CASE Disjoint(c, o)
  <2>1. difference(c, o) = {c}
    BY <1>1, <1>2 DEF difference, left_part, right_part, Disjoint
  <2> QED BY <1>1, <1>2, <2>1 DEF Disjoint
<1>3. CASE ~Disjoint(c, o)
  <2>1. c.base < o.base => l \in Chunks /\ l.base = c.base /\ last_byte(l) = o.base - 1
    BY <1>1 DEF Chunk, Chunks, last_byte
  <2>2. last_byte(o) < last_byte(c) => r \in Chunks /\ r.base = last_byte(o) + 1 /\ last_byte(r) = last_byte(c)
    BY <1>1 DEF Chunk, Chunks, last_byte
  <2>3. /\ left_part(c, o) = IF c.base < o.base THEN {l} ELSE {}
        /\ right_part(c, o) = IF last_byte(o) < last_byte(c) THEN {r} ELSE {}
    BY <1>1, <1>3 DEF left_part, right_part, Disjoint
  <2> HIDE DEF l, r
  <2>4. \A x \in difference(c, o) : \/ x = l /\ c.base < o.base
                                    \/ x = r /\ last_byte(o) < last_byte(c)
    BY <2>3 DEF difference
  <2>5. /\ c.base < o.base => l \in difference(c, o)
        /\ last_byte(o) < last_byte(c) => r \in difference(c, o)
    BY <2>3 DEF difference
  <2>6. difference(c, o) \subseteq Chunks
    BY <2>1, <2>2, <2>4
  <2>7. \A x \in difference(c, o) : /\ c.base <= x.base /\ last_byte(x) <= last_byte(c)
                                    /\ Disjoint(x, o)
                                    /\ x.base = c.base \/ x.base = last_byte(o) + 1
                                    /\ last_byte(x) = last_byte(c) \/ last_byte(x) + 1 = o.base
    BY <1>1, <1>3, <2>1, <2>2, <2>4 DEF Disjoint
  <2>8. \A x, y \in difference(c, o) : x = y \/ Disjoint(x, y)
    BY <1>1, <2>1, <2>2, <2>4 DEF Disjoint
  <2>9. \A x, y \in difference(c, o) : last_byte(x) + 1 # y.base
    BY <1>1, <1>3, <2>1, <2>2, <2>4 DEF Disjoint
  <2>10. ASSUME NEW b \in Bytes(c) PROVE b \in Bytes(o) \/ \E x \in difference(c, o) : b \in Bytes(x)
    <3>1. b \in Nat /\ c.base <= b /\ b <= last_byte(c)
      BY ChunkFacts
    <3>2. CASE b < o.base
      <4>1. b \in Bytes(l)
        BY <1>1, <2>1, <3>1, <3>2, ChunkFacts
      <4> QED BY <1>1, <2>5, <3>1, <3>2, <4>1
    <3>3. CASE last_byte(o) < b
      <4>1. b \in Bytes(r)
        BY <1>1, <2>2, <3>1, <3>3, ChunkFacts
      <4> QED BY <1>1, <2>5, <3>1, <3>3, <4>1
    <3>4. CASE o.base <= b /\ b <= last_byte(o)
      BY <3>1, <3>4, ChunkFacts
    <3> QED BY <1>1, <3>1, <3>2, <3>3, <3>4
  <2> QED BY <1>3, <2>6, <2>7, <2>8, <2>9, <2>10
<1> QED BY <1>2, <1>3

\* What overlapping_chunks finds by its start is what overlaps
LEMMA OverlappingAre ==
  ASSUME NEW S, ChunkSet(S), NEW r \in Chunks
  PROVE  overlapping_chunks(S, r) = {c \in S : ~Disjoint(c, r)}
<1> DEFINE before == {c \in S : c.base <= r.base}
           prev == {c \in before : \A d \in before : d.base <= c.base}
           reach == {c \in prev : r.base < c.base + c.size}
           starts == {c.base : c \in reach} \cup {r.base}
<1>1. \A c \in S : /\ c.base \in Nat /\ c.size \in Nat \ {0} /\ last_byte(c) \in Nat
                   /\ c.base <= last_byte(c) /\ last_byte(c) = c.base + c.size - 1
  BY ChunkFacts DEF ChunkSet
<1>2. /\ r.base \in Nat /\ last_byte(r) \in Nat /\ r.base <= last_byte(r)
  BY ChunkFacts
<1>3. \A c, d \in S : c = d \/ last_byte(c) < d.base \/ last_byte(d) < c.base
  BY DEF ChunkSet, PairwiseDisjoint, Disjoint
<1>4. overlapping_chunks(S, r) = {c \in S : (\E s \in starts : s <= c.base) /\ c.base <= last_byte(r)}
  BY DEF overlapping_chunks
<1>5. ASSUME NEW c \in S, ~Disjoint(c, r)
      PROVE  c \in overlapping_chunks(S, r)
  <2>1. c.base <= last_byte(r) /\ r.base <= last_byte(c)
    BY <1>1, <1>2, <1>5 DEF Disjoint
  <2>2. CASE r.base <= c.base
    BY <1>4, <2>1, <2>2
  <2>3. CASE c.base <= r.base
    <3>1. c \in before
      BY <2>3
    <3>2. \A d \in before : d.base <= c.base
      BY <1>1, <1>2, <1>3, <2>1, <2>3
    <3>3. c \in reach
      BY <1>1, <1>2, <2>1, <3>1, <3>2
    <3>4. c.base \in starts /\ c.base <= c.base
      BY <1>1, <3>3
    <3> QED BY <1>4, <2>1, <3>4
  <2> QED BY <1>1, <1>2, <2>2, <2>3
<1>6. ASSUME NEW c \in overlapping_chunks(S, r)
      PROVE  c \in S /\ ~Disjoint(c, r)
  <2>1. PICK s \in starts : s <= c.base
    BY <1>4
  <2>2. c \in S /\ c.base <= last_byte(r)
    BY <1>4
  <2>3. CASE s = r.base
    BY <1>1, <1>2, <2>1, <2>2, <2>3 DEF Disjoint
  <2>4. CASE \E d \in reach : s = d.base
    <3>1. PICK d \in reach : d.base <= c.base
      BY <2>1, <2>4
    <3>2. d \in S /\ r.base < d.base + d.size /\ d.base <= r.base
      BY <3>1
    <3>3. CASE c.base <= r.base
      <4>1. c.base <= d.base
        BY <2>2, <3>1, <3>3
      <4>2. c.base = d.base
        BY <1>1, <2>2, <3>1, <3>2, <4>1
      <4>3. c = d
        BY <1>1, <1>3, <2>2, <3>2, <4>2
      <4> QED BY <1>1, <1>2, <2>2, <3>2, <4>3 DEF Disjoint
    <3>4. CASE r.base < c.base
      BY <1>1, <1>2, <2>2, <3>4 DEF Disjoint
    <3> QED BY <1>1, <1>2, <2>2, <3>3, <3>4
  <2> QED BY <2>3, <2>4
<1> QED BY <1>5, <1>6

\* A set of chunks with a range cut out
Cut(S, r) == UNION {difference(c, r) : c \in S}

\* What is left of chunks is what is left of each
LEMMA InCut ==
  ASSUME NEW S, NEW r, NEW x
  PROVE  x \in Cut(S, r) <=> \E c \in S : x \in difference(c, r)
BY DEF Cut

\* Of chunks that do not meet a range all is left
LEMMA CutOnlyHit ==
  ASSUME NEW S, ChunkSet(S), NEW r \in Chunks, NEW hit, hit = {c \in S : ~Disjoint(c, r)}
  PROVE  (S \ hit) \cup UNION {difference(c, r) : c \in hit} = Cut(S, r)
<1>1. \A c \in S \ hit : difference(c, r) = {c}
  BY DifferenceFacts DEF ChunkSet
<1>2. hit \subseteq S
  OBVIOUS
<1>3. \A x : x \in Cut(S, r) <=> x \in (S \ hit) \cup Cut(hit, r)
  BY <1>1, <1>2, InCut
<1>4. Cut(hit, r) = UNION {difference(c, r) : c \in hit}
  BY DEF Cut
<1>5. (S \ hit) \cup Cut(hit, r) = Cut(S, r)
  BY <1>3
<1> QED BY <1>4, <1>5, Zenon

\* remove_range finds every chunk the range meets, though it starts from the last chunk that
\* begins at or before the range: the bytes of the range are cut out of the map, and no others
LEMMA RemoveRangeIs ==
  ASSUME NEW S, ChunkSet(S), NEW r \in Chunks
  PROVE  remove_range(S, r) = Cut(S, r)
<1> DEFINE hit == overlapping_chunks(S, r)
<1>1. hit = {c \in S : ~Disjoint(c, r)}
  BY OverlappingAre
<1>2. remove_range(S, r) = (S \ hit) \cup UNION {difference(c, r) : c \in hit}
  BY DEF remove_range
<1> HIDE DEF hit
<1> QED BY <1>1, <1>2, CutOnlyHit

\* Cutting a range out takes its bytes, and makes no two chunks neighbours
LEMMA CutFacts ==
  ASSUME NEW S, ChunkSet(S), NEW r \in Chunks
  PROVE  /\ ChunkSet(Cut(S, r))
         /\ Covered(Cut(S, r)) = Covered(S) \ Bytes(r)
         /\ Coalesced(S) => Coalesced(Cut(S, r))
<1>1. \A x \in Cut(S, r) : \E c \in S : x \in difference(c, r)
  BY DEF Cut
<1>2. \A c \in S : difference(c, r) \subseteq Cut(S, r)
  BY DEF Cut
<1>3. \A c \in S : c \in Chunks
  BY DEF ChunkSet
<1>4. Cut(S, r) \subseteq Chunks
  BY <1>1, <1>3, DifferenceFacts
<1>5. \A x \in Cut(S, r) : /\ x.base \in Nat /\ last_byte(x) \in Nat /\ x.base <= last_byte(x)
  BY <1>4, ChunkFacts
<1>6. \A c \in S : /\ c.base \in Nat /\ last_byte(c) \in Nat /\ c.base <= last_byte(c)
  BY <1>3, ChunkFacts
<1>7. \A c, d \in S : c = d \/ last_byte(c) < d.base \/ last_byte(d) < c.base
  BY DEF ChunkSet, PairwiseDisjoint, Disjoint
<1>8. ASSUME NEW x \in Cut(S, r), NEW y \in Cut(S, r)
      PROVE  /\ x = y \/ Disjoint(x, y)
             /\ Coalesced(S) => last_byte(x) + 1 # y.base
  <2>1. PICK c \in S : x \in difference(c, r)
    BY <1>1
  <2>2. PICK d \in S : y \in difference(d, r)
    BY <1>1
  <2>3. CASE c = d
    BY <1>3, <2>1, <2>2, <2>3, DifferenceFacts
  <2>4. CASE c # d
    <3>1. c.base <= x.base /\ last_byte(x) <= last_byte(c)
      BY <1>3, <2>1, DifferenceFacts
    <3>2. d.base <= y.base /\ last_byte(y) <= last_byte(d)
      BY <1>3, <2>2, DifferenceFacts
    <3>3. last_byte(c) < d.base \/ last_byte(d) < c.base
      BY <1>7, <2>4
    <3>4. Disjoint(x, y)
      BY <1>5, <1>6, <3>1, <3>2, <3>3 DEF Disjoint
    <3>5. Coalesced(S) => last_byte(c) + 1 # d.base
      BY DEF Coalesced
    <3>6. last_byte(x) + 1 = y.base => last_byte(c) + 1 = d.base
      BY <1>5, <1>6, <3>1, <3>2, <3>3
    <3> QED BY <3>4, <3>5, <3>6
  <2> QED BY <2>3, <2>4
<1>9. ASSUME NEW b \in Covered(S), b \notin Bytes(r) PROVE b \in Covered(Cut(S, r))
  <2>1. PICK c \in S : b \in Bytes(c)
    BY InCovered
  <2>2. PICK x \in difference(c, r) : b \in Bytes(x)
    BY <1>3, <1>9, <2>1, DifferenceFacts
  <2> QED BY <1>2, <2>2, InCovered
<1>10. ASSUME NEW b \in Covered(Cut(S, r)) PROVE b \in Covered(S) \ Bytes(r)
  <2>1. PICK x \in Cut(S, r) : b \in Bytes(x)
    BY InCovered
  <2>2. PICK c \in S : x \in difference(c, r)
    BY <1>1
  <2>3. c.base <= x.base /\ last_byte(x) <= last_byte(c) /\ Disjoint(x, r)
    BY <1>3, <2>2, DifferenceFacts
  <2>4. b \in Nat /\ x.base <= b /\ b <= last_byte(x)
    BY <1>4, <2>1, ChunkFacts
  <2>5. b \in Bytes(c)
    BY <1>3, <1>5, <1>6, <2>3, <2>4, ChunkFacts
  <2>6. b \notin Bytes(r)
    BY <1>4, <2>1, <2>3, DisjointBytes
  <2> QED BY <2>5, <2>6, InCovered
<1>11. ChunkSet(Cut(S, r))
  BY <1>4, <1>8 DEF ChunkSet, PairwiseDisjoint
<1>12. Coalesced(S) => Coalesced(Cut(S, r))
  BY <1>8 DEF Coalesced
<1> QED BY <1>9, <1>10, <1>11, <1>12

-----------------------------------------------------------------------------
(***************************************************************************)
(* Searching the buckets.                                                  *)
(***************************************************************************)
LEMMA LeastExists ==
  ASSUME NEW S, S \subseteq Nat, S # {}
  PROVE  \E x \in S : \A y \in S : x <= y
<1>1. PICK a \in S : TRUE
  OBVIOUS
<1> DEFINE T == {0 .. x : x \in {y \in S : y <= a}}
<1>2. T \subseteq SUBSET (0 .. a) /\ T # {}
  BY <1>1, SMT
<1>3. IsWellFoundedOn(StrictSubsetOrdering(0 .. a), SUBSET (0 .. a))
  <2>1. IsFiniteSet(0 .. a)
    BY <1>1, FS_Interval, SMT
  <2>2. FiniteSubsetsOf(0 .. a) = SUBSET (0 .. a)
    BY <2>1, FS_FiniteSubsetsOfFinite, Zenon
  <2>3. IsWellFoundedOn(StrictSubsetOrdering(0 .. a), FiniteSubsetsOf(0 .. a))
    BY FS_StrictSubsetOrderingWellFounded, Zenon
  <2> QED BY <2>2, <2>3, Zenon
<1> HIDE DEF T
<1>4. \E x \in T : \A y \in T : ~(<<y, x>> \in StrictSubsetOrdering(0 .. a))
  BY <1>2, <1>3, WFMin, Zenon
<1>5. PICK m \in S : m <= a /\ \A y \in T : ~(<<y, 0 .. m>> \in StrictSubsetOrdering(0 .. a))
  BY <1>4 DEF T
<1>6. ASSUME NEW y \in S PROVE m <= y
  <2>1. CASE y > a
    BY <2>1, <1>1, <1>5
  <2>2. CASE y <= a
    <3>1. 0 .. y \in T /\ 0 .. m \in T
      BY <2>2, <1>5 DEF T
    <3>2. ~(0 .. y \subseteq 0 .. m /\ 0 .. y # 0 .. m)
      BY <3>1, <1>5, <1>2, Zenon DEF StrictSubsetOrdering
    <3> QED BY <3>2, <1>1, SMT
  <2> QED BY <2>1, <2>2, <1>1, SMT
<1> QED BY <1>6

\* Larger chunks are in higher buckets
LEMMA BucketsGrow ==
  ASSUME NEW m \in Nat, NEW n \in Nat, m <= n
  PROVE  /\ ilog2(m) \in Int /\ ilog2(m) + 1 \in Nat /\ ilog2(n) \in Int /\ ilog2(n) + 1 \in Nat
         /\ ilog2(m) <= ilog2(n)
<1> DEFINE M == {p \in 1 .. m : p \in Powers}  N == {p \in 1 .. n : p \in Powers}
<1>1. IsFiniteSet(1 .. n)
  BY FS_Interval
<1>2. N \subseteq 1 .. n /\ M \subseteq N
  OBVIOUS
<1> HIDE DEF M, N
<1>3. IsFiniteSet(N)
  BY <1>1, <1>2, FS_Subset
<1>4. IsFiniteSet(M) /\ Cardinality(M) <= Cardinality(N)
  BY <1>2, <1>3, FS_Subset
<1>5. Cardinality(M) \in Nat /\ Cardinality(N) \in Nat
  BY <1>3, <1>4, FS_CardinalityType
<1>6. ilog2(m) = Cardinality(M) - 1 /\ ilog2(n) = Cardinality(N) - 1
  BY DEF ilog2, M, N
<1> QED BY <1>4, <1>5, <1>6

\* The search by buckets finds a chunk whenever one is large enough, and none
\* it leaves out would be a better fit
LEMMA CandidatesFacts ==
  ASSUME NEW S, S \subseteq Chunks, NEW size \in Nat \ {0}
  PROVE  /\ Candidates(S, size) \subseteq {c \in S : size <= c.size}
         /\ (\E c \in S : size <= c.size) => Candidates(S, size) # {}
         /\ \A c \in S : size <= c.size =>
              c \in Candidates(S, size) \/ \A d \in Candidates(S, size) : d.size <= c.size
<1> DEFINE fits == {c \in InBucket(S, ilog2(size)) : c.size >= size}
           above == {k \in {ilog2(c.size) : c \in S} : k > ilog2(size)}
           least == CHOOSE k \in above : \A j \in above : k <= j
<1>1. Candidates(S, size) = IF fits # {} \/ above = {} THEN fits ELSE InBucket(S, least)
  BY DEF Candidates
<1>2. \A c \in S : c.size \in Nat \ {0} /\ ilog2(c.size) \in Int /\ ilog2(c.size) + 1 \in Nat
  BY ChunkFacts, BucketsGrow
<1>3. ilog2(size) \in Int /\ ilog2(size) + 1 \in Nat
  BY BucketsGrow
<1>4. \A c, d \in S : ilog2(c.size) < ilog2(d.size) => c.size < d.size
  BY <1>2, BucketsGrow
<1>5. \A c \in S : /\ ilog2(size) < ilog2(c.size) => size < c.size
                   /\ size <= c.size => ilog2(size) <= ilog2(c.size)
  BY <1>2, <1>3, BucketsGrow
<1>6. \A c : c \in fits <=> c \in S /\ ilog2(c.size) = ilog2(size) /\ size <= c.size
  BY <1>2 DEF InBucket
<1>7. \A k : k \in above <=> \E c \in S : k = ilog2(c.size) /\ ilog2(size) < ilog2(c.size)
  BY <1>2, <1>3
<1> HIDE DEF fits, above
<1>8. CASE fits # {} \/ above = {}
  <2>1. \A c \in S : size <= c.size => c \in fits \/ ilog2(size) < ilog2(c.size)
    BY <1>2, <1>3, <1>5, <1>6
  <2>2. ASSUME NEW c \in S, ilog2(size) < ilog2(c.size), NEW d \in fits
        PROVE  d.size <= c.size
    <3>1. d \in S /\ ilog2(d.size) = ilog2(size)
      BY <1>6
    <3>2. d.size < c.size
      BY <1>4, <2>2, <3>1
    <3> QED BY <1>2, <3>1, <3>2
  <2>3. \A c \in S : size <= c.size => fits # {}
    BY <1>7, <1>8, <2>1
  <2>4. Candidates(S, size) = fits
    BY <1>1, <1>8
  <2> QED BY <1>6, <2>1, <2>2, <2>3, <2>4
<1>9. CASE fits = {} /\ above # {}
  <2> DEFINE up == {k + 1 : k \in above}
  <2>1. \A k \in above : k + 1 \in Nat /\ k \in Int
    BY <1>2, <1>7
  <2>2. up \subseteq Nat /\ up # {}
    BY <1>9, <2>1
  <2>3. \E x \in up : \A y \in up : x <= y
    <3> HIDE DEF up
    <3> QED BY <2>2, LeastExists
  <2>4. PICK k \in above : \A j \in above : k + 1 <= j + 1
    BY <2>3
  <2>5. \A j \in above : k <= j
    BY <2>1, <2>4
  <2>6. least \in above /\ \A j \in above : least <= j
    BY <2>5
  <2> HIDE DEF least
  <2>7. Candidates(S, size) = InBucket(S, least)
    BY <1>1, <1>9
  <2>8. \A c : c \in Candidates(S, size) <=> c \in S /\ ilog2(c.size) = least
    BY <2>7 DEF InBucket
  <2>9. PICK w \in S : least = ilog2(w.size) /\ ilog2(size) < ilog2(w.size)
    BY <1>7, <2>6
  <2>10. \A c \in Candidates(S, size) : c \in S /\ size <= c.size
    BY <1>2, <1>5, <2>8, <2>9
  <2>11. ASSUME NEW c \in S, size <= c.size, c \notin Candidates(S, size), NEW d \in Candidates(S, size)
         PROVE  d.size <= c.size
    <3>1. ilog2(c.size) # least /\ d \in S /\ ilog2(d.size) = least
      BY <2>8, <2>11
    <3>2. ilog2(c.size) # ilog2(size)
      BY <1>6, <1>9, <2>11
    <3>3. ilog2(size) < ilog2(c.size)
      BY <1>2, <1>3, <1>5, <2>11, <3>2
    <3>4. least <= ilog2(c.size)
      BY <1>7, <2>6, <3>3
    <3>5. ilog2(d.size) < ilog2(c.size)
      BY <1>2, <3>1, <3>4
    <3>6. d.size < c.size
      BY <1>4, <3>1, <3>5
    <3> QED BY <1>2, <3>1, <3>6
  <2> QED BY <2>8, <2>9, <2>10, <2>11
<1> QED BY <1>8, <1>9

\* allocate_in_bucket finds a chunk that is large enough, and no larger than any such chunk
LEMMA FoundFacts ==
  ASSUME NEW S, S \subseteq Chunks, NEW size \in Nat \ {0}, Candidates(S, size) # {}
  PROVE  /\ Found(S, size) \in S /\ size <= Found(S, size).size
         /\ \A c \in S : size <= c.size => Found(S, size).size <= c.size
<1> DEFINE cs == Candidates(S, size)
           sizes == {c.size : c \in cs}
           first(c) == \A d \in cs : c.size < d.size \/ (c.size = d.size /\ c.base <= d.base)
<1>1. cs \subseteq S /\ \A c \in cs : c \in Chunks /\ size <= c.size
  BY CandidatesFacts
<1>2. \A c \in cs : c.size \in Nat /\ c.base \in Nat
  BY <1>1, ChunkFacts
<1>3. sizes \subseteq Nat /\ sizes # {}
  BY <1>2
<1> HIDE DEF sizes
<1>4. PICK n \in sizes : \A m \in sizes : n <= m
  BY <1>3, LeastExists
<1> DEFINE bases == {c.base : c \in {d \in cs : d.size = n}}
<1>5. bases \subseteq Nat /\ bases # {}
  BY <1>2, <1>4 DEF sizes
<1> HIDE DEF bases
<1>6. PICK b \in bases : \A a \in bases : b <= a
  BY <1>5, LeastExists
<1>7. PICK c \in cs : c.size = n /\ c.base = b
  BY <1>6 DEF bases
<1>8. ASSUME NEW d \in cs PROVE c.size < d.size \/ (c.size = d.size /\ c.base <= d.base)
  <2>1. n <= d.size
    BY <1>4 DEF sizes
  <2>2. CASE d.size = n
    <3>1. b <= d.base
      BY <1>6, <2>2 DEF bases
    <3> QED BY <1>7, <2>2, <3>1
  <2>3. CASE d.size # n
    BY <1>2, <1>7, <2>1, <2>3
  <2> QED BY <2>2, <2>3
<1>9. Found(S, size) = CHOOSE x \in cs : \A d \in cs : x.size < d.size \/ (x.size = d.size /\ x.base <= d.base)
  BY DEF Found
<1> HIDE DEF cs
<1>10. Found(S, size) \in cs /\ \A d \in cs : Found(S, size).size <= d.size
  <2>1. /\ Found(S, size) \in cs
        /\ \A d \in cs : \/ Found(S, size).size < d.size
                         \/ Found(S, size).size = d.size /\ Found(S, size).base <= d.base
    BY <1>7, <1>8, <1>9
  <2> QED BY <1>2, <2>1
<1>11. \A x \in S : size <= x.size => x \in cs \/ \A d \in cs : d.size <= x.size
  BY CandidatesFacts DEF cs
<1> QED BY <1>1, <1>10, <1>11

-----------------------------------------------------------------------------
(***************************************************************************)
(* Rounding to pages.                                                      *)
(***************************************************************************)
LEMMA Multiples ==
  ASSUME NEW a \in Nat, NEW d \in Nat \ {0}
  PROVE  a % d = 0 <=> \E k \in Nat : a = k * d
<1> DEFINE q == a \div d
<1>1. /\ a % d \in 0 .. d - 1 /\ q \in Int /\ a = d * q + (a % d)
  OBVIOUS
<1>2. q * d = d * q /\ d * q \in Int
  BY <1>1
<1> HIDE DEF q
<1>3. ASSUME a % d = 0 PROVE \E k \in Nat : a = k * d
  <2>1. a = q * d
    BY <1>1, <1>2, <1>3
  <2>2. q >= 0
    <3>1. ASSUME q <= -1 PROVE FALSE
      <4>1. d * (q + 1) <= 0
        BY <1>1, <3>1
      <4>2. d * (q + 1) = d * q + d
        BY <1>1
      <4> QED BY <1>2, <2>1, <4>1, <4>2
    <3> QED BY <1>1, <3>1
  <2>3. q \in Nat
    BY <1>1, <2>2
  <2> QED BY <2>1, <2>3
<1>4. ASSUME NEW k \in Nat, a = k * d PROVE a % d = 0
  <2> DEFINE e == k - q
  <2>1. e \in Int
    BY <1>1
  <2>2. d * e = k * d - d * q
    BY <1>1
  <2> HIDE DEF e
  <2>3. d * e = a % d /\ d * e \in Int
    BY <1>1, <1>2, <1>4, <2>2
  <2>4. ASSUME e >= 1 PROVE FALSE
    <3>1. d * (e - 1) >= 0
      BY <2>1, <2>4
    <3>2. d * (e - 1) = d * e - d
      BY <2>1
    <3> QED BY <1>1, <2>3, <3>1, <3>2
  <2>5. ASSUME e <= -1 PROVE FALSE
    <3>1. d * (e + 1) <= 0
      BY <2>1, <2>5
    <3>2. d * (e + 1) = d * e + d
      BY <2>1
    <3> QED BY <1>1, <2>3, <3>1, <3>2
  <2>6. e = 0
    BY <2>1, <2>4, <2>5
  <2> QED BY <2>3, <2>6
<1> QED BY <1>3, <1>4

\* Sums and differences of multiples are multiples
LEMMA MultipleSums ==
  ASSUME NEW a \in Nat, NEW b \in Nat, NEW d \in Nat \ {0}, a % d = 0, b % d = 0
  PROVE  (a + b) % d = 0 /\ (b <= a => (a - b) % d = 0)
<1>1. PICK j \in Nat : a = j * d
  BY Multiples
<1>2. PICK k \in Nat : b = k * d
  BY Multiples
<1>3. (j + k) * d = a + b /\ j + k \in Nat
  BY <1>1, <1>2
<1>4. (a + b) % d = 0
  <2> DEFINE t == a + b
  <2>1. t \in Nat /\ \E i \in Nat : t = i * d
    BY <1>3
  <2> HIDE DEF t
  <2>2. t % d = 0
    BY <2>1, Multiples
  <2> QED BY <2>2 DEF t
<1>5. ASSUME b <= a PROVE (a - b) % d = 0
  <2>1. (j - k) * d = a - b
    BY <1>1, <1>2
  <2>2. j >= k
    <3>1. ASSUME j < k PROVE FALSE
      <4>1. (k - j) * d > 0
        BY <3>1
      <4>2. (k - j) * d = b - a
        BY <1>1, <1>2
      <4> QED BY <1>5, <4>1, <4>2
    <3> QED BY <3>1
  <2> DEFINE t == a - b  i == j - k
  <2>3. t \in Nat /\ i \in Nat /\ t = i * d
    BY <1>5, <2>1, <2>2
  <2> HIDE DEF t, i
  <2>4. t % d = 0
    BY <2>3, Multiples
  <2> QED BY <2>4 DEF t
<1> QED BY <1>4, <1>5

\* align rounds up to the next multiple
LEMMA Rounding ==
  ASSUME NEW n \in Nat, NEW d \in Nat \ {0}
  PROVE  /\ next_multiple_of(n, d) \in Nat /\ n <= next_multiple_of(n, d)
         /\ next_multiple_of(n, d) < n + d /\ next_multiple_of(n, d) % d = 0
         /\ n % d = 0 => next_multiple_of(n, d) = n
<1> DEFINE c == n + d - 1  q == c \div d
<1>1. c \in Nat
  OBVIOUS
<1> HIDE DEF c
<1>2. q \in Int /\ d * q <= c /\ c < d * q + d
  BY <1>1
<1>3. next_multiple_of(n, d) = q * d
  BY DEF next_multiple_of, c
<1> HIDE DEF q
<1>4. q * d = d * q /\ q * d \in Int
  BY <1>2
<1>5. n <= q * d /\ q * d < n + d
  BY <1>2, <1>4 DEF c
<1>6. q \in Nat
  <2>1. ASSUME q <= -1 PROVE FALSE
    <3>1. d * (q + 1) <= 0
      BY <1>2, <2>1
    <3>2. d * (q + 1) = d * q + d
      BY <1>2
    <3> QED BY <1>1, <1>2, <1>4, <3>1, <3>2
  <2> QED BY <1>2, <2>1
<1>7. (q * d) % d = 0
  <2>1. q * d \in Nat /\ \E k \in Nat : q * d = k * d
    BY <1>4, <1>5, <1>6
  <2> QED BY <2>1, Multiples
<1>8. ASSUME n % d = 0 PROVE q * d = n
  <2>1. q * d \in Nat
    BY <1>4, <1>5
  <2>2. (q * d - n) % d = 0
    BY <1>5, <1>7, <1>8, <2>1, MultipleSums
  <2>3. q * d - n \in 0 .. d - 1
    BY <1>5, <2>1
  <2>4. (q * d - n) % d = q * d - n
    BY <2>3
  <2> QED BY <2>1, <2>2, <2>4
<1> QED BY <1>3, <1>4, <1>5, <1>7, <1>8

OnPage(a) == a % PAGE_SIZE = 0
Paged(c) == OnPage(c.base) /\ OnPage(c.size)

\* Sums and differences of pages are pages
LEMMA PageSums ==
  ASSUME NEW a \in Nat, NEW b \in Nat, OnPage(a), OnPage(b)
  PROVE  OnPage(a + b) /\ (b <= a => OnPage(a - b))
BY MultipleSums, SizesAssumption DEF OnPage

\* The range VMAllocator works on: whole pages, from the page of the address on
LEMMA PageRangeFacts ==
  ASSUME NEW a \in Nat, NEW n \in Nat \ {0}
  PROVE  /\ PageRange(a, n) \in Chunks /\ Paged(PageRange(a, n))
         /\ PageRange(a, n).base <= a /\ PageRange(a, n).size = next_multiple_of(n, PAGE_SIZE)
         /\ OnPage(a) => PageRange(a, n).base = a
         /\ OnPage(n) => PageRange(a, n).size = n
         /\ n <= PageRange(a, n).size
<1> DEFINE m == next_multiple_of(n, PAGE_SIZE)  b == page_base(a)
<1>1. PAGE_SIZE \in Nat \ {0}
  BY SizesAssumption
<1>2. m \in Nat /\ n <= m /\ m % PAGE_SIZE = 0 /\ (n % PAGE_SIZE = 0 => m = n)
  BY <1>1, Rounding
<1>3. b \in Nat /\ b <= a /\ (a % PAGE_SIZE = 0 => b = a)
  BY <1>1 DEF page_base
<1>4. b % PAGE_SIZE = 0
  <2> DEFINE q == a \div PAGE_SIZE
  <2>1. q \in Int /\ a % PAGE_SIZE \in Nat /\ a = PAGE_SIZE * q + (a % PAGE_SIZE)
    BY <1>1
  <2>2. b = PAGE_SIZE * q
    <3>1. b = a - (a % PAGE_SIZE)
      BY DEF page_base
    <3> HIDE DEF b, q
    <3> QED BY <1>1, <2>1, <3>1
  <2> HIDE DEF q, b
  <2>3. b = q * PAGE_SIZE
    BY <1>1, <2>1, <2>2
  <2>4. q >= 0
    <3>1. ASSUME q <= -1 PROVE FALSE
      <4>1. PAGE_SIZE * q < 0
        BY <1>1, <2>1, <3>1
      <4> QED BY <1>3, <2>2, <4>1
    <3> QED BY <2>1, <3>1
  <2> QED BY <1>1, <1>3, <2>1, <2>3, <2>4, Multiples
<1>5. PageRange(a, n) = Chunk(b, m)
  BY DEF PageRange
<1> HIDE DEF b, m
<1>6. PageRange(a, n) \in Chunks /\ PageRange(a, n).base = b /\ PageRange(a, n).size = m
  BY <1>2, <1>3, <1>5 DEF Chunk, Chunks
<1> QED BY <1>2, <1>3, <1>4, <1>6 DEF Paged, OnPage, m

-----------------------------------------------------------------------------
(***************************************************************************)
(* Sets of chunks that grow, shrink and are merged.                        *)
(***************************************************************************)
PageSet(S) == ChunkSet(S) /\ \A c \in S : Paged(c)

\* A chunk map with chunks taken out
LEMMA SubsetFacts ==
  ASSUME NEW S, ChunkSet(S), NEW R \in SUBSET S
  PROVE  /\ ChunkSet(R) /\ Covered(S \ R) = Covered(S) \ Covered(R)
         /\ Coalesced(S) => Coalesced(R)
<1>1. ChunkSet(R) /\ (Coalesced(S) => Coalesced(R))
  BY DEF ChunkSet, PairwiseDisjoint, Coalesced
<1>2. \A b : b \in Covered(S \ R) <=> b \in Covered(S) /\ b \notin Covered(R)
  BY InCovered, OneOwner
<1>3. Covered(S \ R) = Covered(S) \ Covered(R)
  BY <1>2
<1> QED BY <1>1, <1>3

\* A chunk map with a chunk put in where none was
LEMMA AddFacts ==
  ASSUME NEW S, ChunkSet(S), NEW c \in Chunks, Bytes(c) \cap Covered(S) = {}
  PROVE  /\ ChunkSet(S \cup {c}) /\ Covered(S \cup {c}) = Covered(S) \cup Bytes(c)
         /\ c \notin S
<1>1. \A d \in S : Bytes(d) \subseteq Covered(S) /\ d \in Chunks
  BY InCovered DEF ChunkSet
<1>2. \A d \in S : Disjoint(c, d)
  <2> TAKE d \in S
  <2>1. Bytes(c) \cap Bytes(d) = {}
    BY <1>1
  <2> QED BY <1>1, <2>1, DisjointBytes
<1>3. \A d \in S : Disjoint(d, c)
  BY <1>2 DEF Disjoint
<1>4. ChunkSet(S \cup {c})
  BY <1>2, <1>3 DEF ChunkSet, PairwiseDisjoint
<1>5. \A b : b \in Covered(S \cup {c}) <=> b \in Covered(S) \/ b \in Bytes(c)
  BY InCovered
<1>6. Covered(S \cup {c}) = Covered(S) \cup Bytes(c)
  BY <1>5
<1>7. c \notin S
  BY <1>2, ChunkFacts DEF Disjoint
<1> QED BY <1>4, <1>6, <1>7

\* Cutting whole pages out leaves whole pages
LEMMA CutPaged ==
  ASSUME NEW S, PageSet(S), NEW r \in Chunks, Paged(r)
  PROVE  PageSet(Cut(S, r))
<1>1. ChunkSet(S) /\ ChunkSet(Cut(S, r))
  BY CutFacts DEF PageSet
<1>2. ASSUME NEW x \in Cut(S, r) PROVE Paged(x)
  <2>1. PICK c \in S : x \in difference(c, r)
    BY InCut
  <2>2. c \in Chunks /\ Paged(c) /\ x \in Chunks
    BY <1>1, <1>2 DEF PageSet, ChunkSet
  <2>3. /\ x.base = c.base \/ x.base = last_byte(r) + 1
        /\ last_byte(x) = last_byte(c) \/ last_byte(x) + 1 = r.base
    BY <2>1, <2>2, DifferenceFacts
  <2>4. /\ c.base \in Nat /\ c.size \in Nat /\ r.base \in Nat /\ r.size \in Nat
        /\ x.base \in Nat /\ x.size \in Nat /\ last_byte(x) + 1 = x.base + x.size
        /\ last_byte(c) + 1 = c.base + c.size /\ last_byte(r) + 1 = r.base + r.size
    BY <2>2, ChunkFacts
  <2>5. OnPage(c.base) /\ OnPage(c.base + c.size) /\ OnPage(r.base) /\ OnPage(r.base + r.size)
    BY <2>2, <2>4, PageSums DEF Paged
  <2>6. OnPage(x.base)
    BY <2>3, <2>4, <2>5
  <2>7. OnPage(x.base + x.size)
    <3>1. CASE last_byte(x) = last_byte(c)
      <4>1. x.base + x.size = c.base + c.size
        BY <2>4, <3>1
      <4> QED BY <2>5, <4>1
    <3>2. CASE last_byte(x) + 1 = r.base
      <4>1. x.base + x.size = r.base
        BY <2>4, <3>2
      <4> QED BY <2>5, <4>1
    <3> QED BY <2>3, <3>1, <3>2
  <2>8. OnPage((x.base + x.size) - x.base)
    <3> DEFINE t == x.base + x.size
    <3>1. t \in Nat /\ x.base <= t /\ OnPage(t)
      BY <2>4, <2>7
    <3> HIDE DEF t
    <3>2. OnPage(t - x.base)
      BY <2>4, <2>6, <3>1, PageSums
    <3> QED BY <3>2 DEF t
  <2>9. (x.base + x.size) - x.base = x.size
    BY <2>4
  <2> QED BY <2>6, <2>8, <2>9 DEF Paged
<1> QED BY <1>1, <1>2 DEF PageSet

\* A range inside one chunk of a set meets no other
LEMMA HitOne ==
  ASSUME NEW S, ChunkSet(S), NEW u \in S, NEW c \in Chunks, u.base <= c.base, last_byte(c) <= last_byte(u)
  PROVE  {d \in S : ~Disjoint(d, c)} = {u} /\ Bytes(c) \subseteq Bytes(u)
<1>1. u \in Chunks /\ S \subseteq Chunks
  BY DEF ChunkSet
<1>2. Bytes(c) \subseteq Bytes(u)
  <2> SUFFICES ASSUME NEW b \in Bytes(c) PROVE b \in Bytes(u)
    OBVIOUS
  <2>1. b \in Nat /\ c.base <= b /\ b <= last_byte(c)
    BY ChunkFacts
  <2>2. u.base \in Nat /\ last_byte(u) \in Nat /\ c.base \in Nat /\ last_byte(c) \in Nat
    BY <1>1, ChunkFacts
  <2>3. u.base <= b /\ b <= last_byte(u)
    BY <2>1, <2>2
  <2> QED BY <1>1, <2>1, <2>3, ChunkFacts
<1>3. c.base \in Bytes(c)
  BY ChunkFacts
<1>4. ~Disjoint(u, c)
  BY <1>1, <1>2, <1>3, DisjointBytes
<1>5. ASSUME NEW d \in S, d # u PROVE Disjoint(d, c)
  <2>1. Disjoint(d, u) /\ d \in Chunks
    BY <1>1, <1>5 DEF ChunkSet, PairwiseDisjoint
  <2>2. Bytes(d) \cap Bytes(c) = {}
    BY <1>1, <1>2, <2>1, DisjointBytes
  <2> QED BY <2>1, <2>2, DisjointBytes
<1> QED BY <1>2, <1>4, <1>5

\* Chunk::merge of neighbours: the bytes of both
LEMMA MergeFacts ==
  ASSUME NEW c \in Chunks, NEW d \in Chunks, last_byte(c) + 1 = d.base \/ last_byte(d) + 1 = c.base
  PROVE  /\ merge(c, d) \in Chunks /\ Bytes(merge(c, d)) = Bytes(c) \cup Bytes(d)
         /\ merge(c, d).size = c.size + d.size
         /\ last_byte(c) + 1 = d.base => merge(c, d).base = c.base /\ last_byte(merge(c, d)) = last_byte(d)
         /\ last_byte(d) + 1 = c.base => merge(c, d).base = d.base /\ last_byte(merge(c, d)) = last_byte(c)
<1> DEFINE k == merge(c, d)
<1>1. /\ c.base \in Nat /\ c.size \in Nat \ {0} /\ last_byte(c) = c.base + c.size - 1
      /\ d.base \in Nat /\ d.size \in Nat \ {0} /\ last_byte(d) = d.base + d.size - 1
  BY ChunkFacts
<1>2. /\ k \in Chunks /\ k.size = c.size + d.size
      /\ k.base = IF c.base < d.base THEN c.base ELSE d.base
  BY <1>1 DEF merge, Chunk, Chunks
<1> HIDE DEF k
<1>3. last_byte(k) = k.base + k.size - 1
  BY <1>2, ChunkFacts
<1>4. CASE last_byte(c) + 1 = d.base
  <2>1. k.base = c.base /\ last_byte(k) = last_byte(d)
    BY <1>1, <1>2, <1>3, <1>4
  <2>2. \A b : b \in Bytes(k) <=> b \in Nat /\ c.base <= b /\ b <= last_byte(d)
    BY <1>2, <2>1, ChunkFacts
  <2>3. \A b : b \in Bytes(k) <=> b \in Bytes(c) \/ b \in Bytes(d)
    <3>1. \A b \in Nat : c.base <= b /\ b <= last_byte(d)
                           <=> (c.base <= b /\ b <= last_byte(c)) \/ (d.base <= b /\ b <= last_byte(d))
      BY <1>1, <1>4
    <3> QED BY <2>2, <3>1, ChunkFacts
  <2>4. Bytes(k) = Bytes(c) \cup Bytes(d)
    BY <2>3
  <2>5. last_byte(d) + 1 # c.base
    BY <1>1, <1>4
  <2> QED BY <1>2, <2>1, <2>4, <2>5 DEF k
<1>5. CASE last_byte(d) + 1 = c.base
  <2>1. k.base = d.base /\ last_byte(k) = last_byte(c)
    BY <1>1, <1>2, <1>3, <1>5
  <2>2. \A b : b \in Bytes(k) <=> b \in Nat /\ d.base <= b /\ b <= last_byte(c)
    BY <1>2, <2>1, ChunkFacts
  <2>3. \A b : b \in Bytes(k) <=> b \in Bytes(c) \/ b \in Bytes(d)
    <3>1. \A b \in Nat : d.base <= b /\ b <= last_byte(c)
                           <=> (c.base <= b /\ b <= last_byte(c)) \/ (d.base <= b /\ b <= last_byte(d))
      BY <1>1, <1>5
    <3> QED BY <2>2, <3>1, ChunkFacts
  <2>4. Bytes(k) = Bytes(c) \cup Bytes(d)
    BY <2>3
  <2>5. last_byte(c) + 1 # d.base
    <3>1. c.base = d.base + d.size /\ last_byte(c) + 1 = c.base + c.size
      BY <1>1, <1>5
    <3>2. last_byte(c) + 1 > d.base
      BY <1>1, <3>1
    <3> QED BY <1>1, <3>2
  <2> QED BY <1>2, <2>1, <2>4, <2>5 DEF k
<1> QED BY <1>4, <1>5

\* At most one chunk begins, and at most one ends, at an address
LEMMA Neighbours ==
  ASSUME NEW S, ChunkSet(S), NEW c \in Chunks
  PROVE  /\ \A b : with_base(S, b) = {} \/ \E d \in S : with_base(S, b) = {d} /\ d.base = b
         /\ with_end(S, c.base) = {} \/ \E d \in S : with_end(S, c.base) = {d} /\ last_byte(d) + 1 = c.base
         /\ \A d \in S : last_byte(d) + 1 = c.base => d \in with_end(S, c.base)
<1>1. \A d \in S : d \in Chunks /\ d.base \in Nat /\ last_byte(d) \in Nat /\ d.base <= last_byte(d)
  BY ChunkFacts DEF ChunkSet
<1>2. \A d, e \in S : d.base = e.base \/ last_byte(d) = last_byte(e) => d = e
  BY <1>1 DEF ChunkSet, PairwiseDisjoint, Disjoint
<1>3. \A b : with_base(S, b) = {} \/ \E d \in S : with_base(S, b) = {d} /\ d.base = b
  BY <1>2 DEF with_base
<1>4. c.base \in Nat
  BY ChunkFacts
<1>5. \A d \in S : last_byte(d) + 1 = c.base <=> d \in with_end(S, c.base)
  BY <1>1, <1>4 DEF with_end
<1>6. with_end(S, c.base) \subseteq S
  BY DEF with_end
<1>7. ASSUME NEW d \in with_end(S, c.base) PROVE with_end(S, c.base) = {d}
  <2>1. \A e \in with_end(S, c.base) : last_byte(e) = last_byte(d)
    BY <1>1, <1>4, <1>5, <1>6
  <2> QED BY <1>2, <1>6, <2>1
<1> QED BY <1>3, <1>5, <1>6, <1>7

\* Merging with what was found, if anything was
LEMMA MergeFound ==
  ASSUME NEW c, NEW S
  PROVE  /\ S = {} => merge_found(c, S) = c
         /\ \A d : S = {d} => merge_found(c, S) = merge(c, d)
BY DEF merge_found

\* J is a neighbour of c in S, if there is one, and what merging them makes
Adjoins(S, c, J) ==
  J = {} \/ \E d \in S : J = {d} /\ (last_byte(c) + 1 = d.base \/ last_byte(d) + 1 = c.base)
MergeMakes(S, c, J) ==
         /\ merge_found(c, J) \in Chunks /\ Bytes(merge_found(c, J)) = Bytes(c) \cup Covered(J)
         /\ J \subseteq S /\ ChunkSet(S \ J) /\ Covered(S \ J) = Covered(S) \ Covered(J)
         /\ Bytes(merge_found(c, J)) \cap Covered(S \ J) = {}
         /\ Covered(J) \subseteq Covered(S)

\* A chunk put in, merged with the neighbours found
LEMMA MergedIn ==
  ASSUME NEW S, ChunkSet(S), NEW c \in Chunks, Bytes(c) \cap Covered(S) = {}, NEW J, Adjoins(S, c, J)
  PROVE  MergeMakes(S, c, J)
<1>1. J \subseteq S
  BY DEF Adjoins
<1>2. ChunkSet(S \ J) /\ Covered(S \ J) = Covered(S) \ Covered(J) /\ Covered(J) \subseteq Covered(S)
  <2>1. Covered(S \ J) = Covered(S) \ Covered(J)
    BY <1>1, SubsetFacts
  <2>2. ChunkSet(S \ J)
    BY SubsetFacts
  <2>3. Covered(J) \subseteq Covered(S)
    BY <1>1, InCovered
  <2> QED BY <2>1, <2>2, <2>3
<1>3. merge_found(c, J) \in Chunks /\ Bytes(merge_found(c, J)) = Bytes(c) \cup Covered(J)
  <2>1. CASE J = {}
    <3>1. Covered(J) = {}
      BY <2>1 DEF Covered
    <3>2. merge_found(c, J) = c
      BY <2>1, MergeFound
    <3> QED BY <3>1, <3>2
  <2>2. CASE J # {}
    <3>1. PICK d \in S : J = {d} /\ (last_byte(c) + 1 = d.base \/ last_byte(d) + 1 = c.base)
      BY <2>2 DEF Adjoins
    <3>2. Covered(J) = Bytes(d)
      BY <3>1 DEF Covered
    <3>3. merge_found(c, J) = merge(c, d) /\ d \in Chunks
      BY <3>1, MergeFound DEF ChunkSet
    <3>4. merge(c, d) \in Chunks /\ Bytes(merge(c, d)) = Bytes(c) \cup Bytes(d)
      BY <3>1, <3>3, MergeFacts
    <3> QED BY <3>2, <3>3, <3>4
  <2> QED BY <2>1, <2>2
<1>4. Bytes(merge_found(c, J)) \cap Covered(S \ J) = {}
  BY <1>2, <1>3
<1> QED BY <1>1, <1>2, <1>3, <1>4 DEF MergeMakes

\* A freed range becomes unused with nothing lost, and has no free neighbour then
LEMMA InsertMergedFacts ==
  ASSUME NEW S, PageSet(S), Coalesced(S), NEW c \in Chunks, Paged(c), Bytes(c) \cap Covered(S) = {}
  PROVE  /\ PageSet(insert_merged(S, c)) /\ Coalesced(insert_merged(S, c))
         /\ Covered(insert_merged(S, c)) = Covered(S) \cup Bytes(c)
<1> DEFINE next == with_base(S, last_byte(c) + 1)
           prev == with_end(S, c.base)
           k == merge_found(c, next)
           l == merge_found(k, prev)
           T == S \ next
<1>1. ChunkSet(S) /\ \A d \in S : d \in Chunks /\ Paged(d)
  BY DEF PageSet, ChunkSet
<1>2. /\ c.base \in Nat /\ c.size \in Nat \ {0} /\ last_byte(c) \in Nat /\ last_byte(c) + 1 = c.base + c.size
      /\ \A d \in S : /\ d.base \in Nat /\ d.size \in Nat \ {0} /\ last_byte(d) \in Nat
                      /\ last_byte(d) + 1 = d.base + d.size
  BY <1>1, ChunkFacts
<1>3. next = {} \/ \E d \in S : next = {d} /\ d.base = last_byte(c) + 1
  BY <1>1, Neighbours
<1>4. /\ prev = {} \/ \E d \in S : prev = {d} /\ last_byte(d) + 1 = c.base
      /\ \A d \in S : last_byte(d) + 1 = c.base => d \in prev
  BY <1>1, Neighbours
<1>5. insert_merged(S, c) = (S \ (next \cup prev)) \cup {l}
  BY DEF insert_merged
<1>6. \A d \in S : d.base = last_byte(c) + 1 => d \in next
  BY DEF with_base
<1> HIDE DEF next, prev
<1>7. /\ k \in Chunks /\ Bytes(k) = Bytes(c) \cup Covered(next) /\ ChunkSet(T)
      /\ Covered(T) = Covered(S) \ Covered(next) /\ Bytes(k) \cap Covered(T) = {}
      /\ next \subseteq S /\ Covered(next) \subseteq Covered(S)
  <2>1. Adjoins(S, c, next)
    BY <1>3 DEF Adjoins
  <2>2. MergeMakes(S, c, next)
    BY <1>1, <2>1, MergedIn
  <2> QED BY <2>2 DEF MergeMakes
<1>8. k.base = c.base /\ Paged(k) /\ ((k = c /\ next = {}) \/ \E d \in S : next = {d} /\ last_byte(k) = last_byte(d))
  <2>1. CASE next = {}
    <3>1. k = c
      BY <2>1, MergeFound
    <3> QED BY <2>1, <3>1
  <2>2. CASE next # {}
    <3>1. PICK d \in S : next = {d} /\ d.base = last_byte(c) + 1
      BY <1>3, <2>2
    <3>2. k = merge(c, d)
      BY <3>1, MergeFound
    <3>3. k.base = c.base /\ k.size = c.size + d.size /\ last_byte(k) = last_byte(d)
      BY <1>1, <3>1, <3>2, MergeFacts
    <3>4. OnPage(c.base) /\ OnPage(c.size + d.size)
      BY <1>1, <1>2, PageSums DEF Paged
    <3> QED BY <3>1, <3>3, <3>4 DEF Paged
  <2> QED BY <2>1, <2>2
<1> HIDE DEF k
<1>9. \A d \in prev : d \in T
  <2> SUFFICES ASSUME NEW d \in prev, d \in next PROVE FALSE
    BY <1>4
  <2>1. last_byte(d) + 1 = c.base /\ d.base = last_byte(c) + 1 /\ d \in S
    BY <1>3, <1>4
  <2> QED BY <1>2, <2>1
<1>10. Adjoins(T, k, prev)
  BY <1>4, <1>8, <1>9 DEF Adjoins
<1>11. /\ l \in Chunks /\ Bytes(l) = Bytes(k) \cup Covered(prev) /\ ChunkSet(T \ prev)
       /\ Covered(T \ prev) = Covered(T) \ Covered(prev) /\ Bytes(l) \cap Covered(T \ prev) = {}
       /\ Covered(prev) \subseteq Covered(T)
  <2> HIDE DEF T
  <2>1. MergeMakes(T, k, prev)
    BY <1>7, <1>10, MergedIn
  <2> QED BY <2>1 DEF MergeMakes
<1>12. /\ last_byte(l) = last_byte(k) /\ Paged(l)
       /\ (l.base = k.base /\ prev = {}) \/ \E d \in S : prev = {d} /\ l.base = d.base
  <2>1. CASE prev = {}
    <3>1. l = k
      BY <2>1, MergeFound
    <3> QED BY <1>8, <2>1, <3>1
  <2>2. CASE prev # {}
    <3>1. PICK d \in S : prev = {d} /\ last_byte(d) + 1 = k.base
      BY <1>4, <1>8, <2>2
    <3>2. l = merge(k, d)
      BY <3>1, MergeFound
    <3>3. l.base = d.base /\ l.size = k.size + d.size /\ last_byte(l) = last_byte(k)
      BY <1>1, <1>7, <3>1, <3>2, MergeFacts
    <3>4. k.size \in Nat
      BY <1>7, ChunkFacts
    <3>5. OnPage(d.base) /\ OnPage(k.size + d.size)
      BY <1>1, <1>2, <1>8, <3>4, PageSums DEF Paged
    <3> QED BY <3>1, <3>3, <3>5 DEF Paged
  <2> QED BY <2>1, <2>2
<1> HIDE DEF l
<1> DEFINE R == T \ prev
<1>13. insert_merged(S, c) = R \cup {l}
  BY <1>5
<1>14. Covered(R \cup {l}) = Covered(S) \cup Bytes(c)
  <2>1. Covered(R \cup {l}) = Covered(R) \cup Bytes(l)
    BY <1>11, AddFacts
  <2> QED BY <1>7, <1>11, <2>1
<1>15. PageSet(R \cup {l})
  <2>1. ChunkSet(R \cup {l})
    BY <1>11, AddFacts
  <2> QED BY <1>1, <1>12, <2>1 DEF PageSet
<1>16. Coalesced(R \cup {l})
  <2>1. \A d, e \in R : last_byte(d) + 1 # e.base
    BY DEF Coalesced
  <2>2. ASSUME NEW d \in R PROVE last_byte(d) + 1 # l.base
    <3>1. CASE l.base = k.base /\ prev = {}
      BY <1>4, <1>8, <2>2, <3>1
    <3>2. CASE \E e \in S : prev = {e} /\ l.base = e.base
      BY <3>2 DEF Coalesced
    <3> QED BY <1>12, <3>1, <3>2
  <2>3. ASSUME NEW d \in R PROVE last_byte(l) + 1 # d.base
    <3>1. CASE k = c /\ next = {}
      BY <1>6, <1>12, <3>1
    <3>2. CASE \E e \in S : next = {e} /\ last_byte(k) = last_byte(e)
      BY <1>12, <3>2 DEF Coalesced
    <3> QED BY <1>8, <3>1, <3>2
  <2>4. last_byte(l) + 1 # l.base
    BY <1>11, ChunkFacts
  <2> QED BY <2>1, <2>2, <2>3, <2>4 DEF Coalesced
<1> QED BY <1>13, <1>14, <1>15, <1>16

-----------------------------------------------------------------------------
(***************************************************************************)
(* The page allocator.                                                     *)
(***************************************************************************)
Space == 0 .. STACK_LOW_END - 1
VMInv(v) ==
  /\ v = [used |-> v.used, unused |-> v.unused]
  /\ PageSet(v.used) /\ PageSet(v.unused)
  /\ Covered(v.used) \cap Covered(v.unused) = {}
  /\ Covered(v.used) \cup Covered(v.unused) = Space
  /\ Coalesced(v.unused)
IsMem(m) == m = [vm |-> m.vm, heaps |-> m.heaps]
\* r is the outcome of a request for pages that was met
Gives(m, r) ==
  /\ r.ok /\ r.chunk \in Chunks /\ Paged(r.chunk)
  /\ IsMem(r.mem) /\ r.mem.heaps = m.heaps /\ VMInv(r.mem.vm)
  /\ Bytes(r.chunk) \cap Covered(m.vm.used) = {} /\ Bytes(r.chunk) \subseteq Space
  /\ Covered(r.mem.vm.used) = Covered(m.vm.used) \cup Bytes(r.chunk)

\* The address space ends below the stack
LEMMA SpaceHas ==
  ASSUME NEW c \in Chunks
  PROVE  Bytes(c) \subseteq Space <=> last_byte(c) < STACK_LOW_END
<1>1. STACK_LOW_END \in Nat /\ last_byte(c) \in Nat /\ last_byte(c) \in Bytes(c)
  BY ChunkFacts, SizesAssumption
<1>2. ASSUME last_byte(c) < STACK_LOW_END, NEW b \in Bytes(c) PROVE b \in Space
  <2>1. b \in Nat /\ b <= last_byte(c)
    BY ChunkFacts
  <2> QED BY <1>1, <1>2, <2>1 DEF Space
<1>3. ASSUME Bytes(c) \subseteq Space PROVE last_byte(c) < STACK_LOW_END
  <2>1. last_byte(c) \in Space
    BY <1>1, <1>3
  <2> QED BY <1>1, <2>1 DEF Space
<1> QED BY <1>2, <1>3

\* A range moved from the unused to the used chunks: still a partition
LEMMA TakenFacts ==
  ASSUME NEW v, VMInv(v), NEW c \in Chunks, Paged(c), Bytes(c) \subseteq Covered(v.unused), NEW w,
         w = taken(v, c, Cut(v.unused, c))
  PROVE  /\ VMInv(w) /\ Covered(w.used) = Covered(v.used) \cup Bytes(c)
         /\ Bytes(c) \cap Covered(v.used) = {} /\ Bytes(c) \subseteq Space
<1>1. w = [used |-> v.used \cup {c}, unused |-> Cut(v.unused, c)]
  BY DEF taken
<1>2. ChunkSet(v.used) /\ ChunkSet(v.unused) /\ Covered(v.used) \cap Covered(v.unused) = {}
  BY DEF VMInv, PageSet
<1>3. Bytes(c) \cap Covered(v.used) = {} /\ Bytes(c) \subseteq Space
  BY <1>2 DEF VMInv
<1>4. ChunkSet(w.used) /\ Covered(w.used) = Covered(v.used) \cup Bytes(c)
  BY <1>1, <1>2, <1>3, AddFacts
<1>5. PageSet(w.used)
  BY <1>1, <1>4 DEF VMInv, PageSet
<1>6. PageSet(w.unused)
  BY <1>1, CutPaged DEF VMInv
<1>7. Covered(w.unused) = Covered(v.unused) \ Bytes(c) /\ Coalesced(w.unused)
  BY <1>1, <1>2, CutFacts DEF VMInv
<1>8. /\ Covered(w.used) \cap Covered(w.unused) = {}
      /\ Covered(w.used) \cup Covered(w.unused) = Space
  BY <1>2, <1>3, <1>4, <1>7 DEF VMInv
<1>9. w = [used |-> w.used, unused |-> w.unused]
  BY <1>1
<1>10. VMInv(w)
  BY <1>5, <1>6, <1>7, <1>8, <1>9 DEF VMInv
<1> QED BY <1>3, <1>4, <1>10

\* What allocate_in_bucket takes is cut out of the chunks it searched
LEMMA FoundCut ==
  ASSUME NEW S, ChunkSet(S), NEW n \in Nat \ {0}, Candidates(S, n) # {}, NEW c, c = Chunk(Found(S, n).base, n)
  PROVE  /\ c \in Chunks /\ c.size = n /\ Bytes(c) \subseteq Covered(S)
         /\ unused_after(S, n) = Cut(S, c)
         /\ (\A d \in S : Paged(d)) /\ OnPage(n) => Paged(c)
<1> DEFINE f == Found(S, n)
<1>1. \A d \in S : d \in Chunks
  BY DEF ChunkSet
<1>2. f \in S /\ n <= f.size
  BY FoundFacts DEF ChunkSet
<1> HIDE DEF f
<1>3. f.base \in Nat /\ f.size \in Nat \ {0} /\ last_byte(f) = f.base + f.size - 1 /\ f \in Chunks
  BY <1>1, <1>2, ChunkFacts
<1>4. PICK a \in Nat : a = f.base /\ c = Chunk(a, n)
  BY <1>3 DEF f
<1>5. Chunk(a, n) \in Chunks /\ Chunk(a, n).base = a /\ Chunk(a, n).size = n /\ last_byte(Chunk(a, n)) = a + n - 1
  BY ChunkIs
<1>6. c \in Chunks /\ c.base = f.base /\ c.size = n /\ last_byte(c) = f.base + n - 1
  BY <1>4, <1>5
<1>7. f.base <= c.base /\ last_byte(c) <= last_byte(f)
  BY <1>2, <1>3, <1>6
<1>8. {d \in S : ~Disjoint(d, c)} = {f} /\ Bytes(c) \subseteq Bytes(f)
  BY <1>2, <1>6, <1>7, HitOne
<1>9. unused_after(S, n) = (S \ {f}) \cup rump(f, n)
  BY DEF unused_after, f
<1>10. difference(f, c) = rump(f, n)
  <2>1. left_part(f, c) = {}
    BY <1>3, <1>6 DEF left_part
  <2>2. CASE f.size = n
    <3>1. right_part(f, c) = {}
      BY <1>3, <1>6, <2>2 DEF right_part
    <3> QED BY <2>1, <2>2, <3>1 DEF difference, rump
  <2>3. CASE f.size # n
    <3>1. right_part(f, c) = {Chunk(last_byte(c) + 1, last_byte(f) - last_byte(c))}
      <4>1. ~(last_byte(c) < f.base) /\ ~(last_byte(f) <= last_byte(c)) /\ ~(c.base > last_byte(f))
        BY <1>2, <1>3, <1>6, <2>3
      <4> QED BY <4>1 DEF right_part
    <3>2. last_byte(c) + 1 = f.base + n /\ last_byte(f) - last_byte(c) = f.size - n
      BY <1>3, <1>6
    <3>3. difference(f, c) = {Chunk(f.base + n, f.size - n)}
      BY <2>1, <3>1, <3>2 DEF difference
    <3>4. rump(f, n) = {Chunk(f.base + n, f.size - n)}
      BY <2>3 DEF rump
    <3> QED BY <3>3, <3>4
  <2> QED BY <2>2, <2>3
<1>11. (S \ {f}) \cup UNION {difference(d, c) : d \in {f}} = Cut(S, c)
  BY <1>6, <1>8, CutOnlyHit
<1>12. UNION {difference(d, c) : d \in {f}} = difference(f, c)
  OBVIOUS
<1>13. unused_after(S, n) = Cut(S, c)
  BY <1>9, <1>10, <1>11, <1>12
<1>14. Bytes(c) \subseteq Covered(S)
  BY <1>2, <1>8, InCovered
<1>15. (\A d \in S : Paged(d)) /\ OnPage(n) => Paged(c)
  BY <1>2, <1>6 DEF Paged
<1> QED BY <1>6, <1>13, <1>14, <1>15

\* allocate_any hands out pages nobody had
LEMMA AllocateAnyGives ==
  ASSUME NEW m, IsMem(m), VMInv(m.vm), NEW n \in Nat \ {0}, OnPage(n), allocate_any(m, n).ok
  PROVE  Gives(m, allocate_any(m, n)) /\ allocate_any(m, n).chunk.size = n
<1> DEFINE S == m.vm.unused
           c == Chunk(Found(S, n).base, n)
           r == allocate_any(m, n)
           w == taken(m.vm, c, unused_after(S, n))
<1>1. Candidates(S, n) # {}
  BY DEF allocate_any, Failed
<1>2. r = Got([m EXCEPT !.vm = w], c)
  BY <1>1 DEF allocate_any
<1>3. ChunkSet(S) /\ \A d \in S : Paged(d)
  BY DEF VMInv, PageSet
<1>4. c \in Chunks /\ c.size = n /\ Bytes(c) \subseteq Covered(S) /\ unused_after(S, n) = Cut(S, c) /\ Paged(c)
  <2> HIDE DEF S
  <2> QED BY <1>1, <1>3, FoundCut
<1> HIDE DEF c
<1>5. /\ VMInv(w) /\ Covered(w.used) = Covered(m.vm.used) \cup Bytes(c)
      /\ Bytes(c) \cap Covered(m.vm.used) = {} /\ Bytes(c) \subseteq Space
  BY <1>4, TakenFacts
<1> HIDE DEF w
<1>6. r.ok /\ r.chunk = c /\ r.mem.vm = w /\ r.mem.heaps = m.heaps /\ IsMem(r.mem)
  BY <1>2 DEF Got, IsMem
<1> QED BY <1>4, <1>5, <1>6 DEF Gives

\* VMAllocator::allocate, anywhere: at least as much as was asked for
LEMMA AllocateGives ==
  ASSUME NEW m, IsMem(m), VMInv(m.vm), NEW n \in Nat \ {0}, allocate(m, n).ok
  PROVE  /\ Gives(m, allocate(m, n))
         /\ allocate(m, n).chunk.size = next_multiple_of(n, PAGE_SIZE) /\ n <= allocate(m, n).chunk.size
<1> DEFINE k == next_multiple_of(n, PAGE_SIZE)
<1>1. k \in Nat \ {0} /\ OnPage(k) /\ n <= k
  BY Rounding, SizesAssumption DEF OnPage
<1>2. allocate(m, n) = allocate_any(m, k)
  BY DEF allocate
<1> HIDE DEF k
<1>3. Gives(m, allocate_any(m, k)) /\ allocate_any(m, k).chunk.size = k
  BY <1>1, <1>2, AllocateAnyGives
<1> QED BY <1>1, <1>2, <1>3 DEF k

\* VMAllocator::allocate at an address: the pages asked for, and never a refusal of pages that are free
LEMMA AllocateHereGives ==
  ASSUME NEW m, IsMem(m), VMInv(m.vm), NEW a \in Nat, NEW n \in Nat \ {0}
  PROVE  /\ allocate_here(m, a, n).ok => /\ Gives(m, allocate_here(m, a, n))
                                         /\ allocate_here(m, a, n).chunk = PageRange(a, n)
         /\ Bytes(PageRange(a, n)) \subseteq Covered(m.vm.unused) => allocate_here(m, a, n).ok
         /\ ~allocate_here(m, a, n).ok => allocate_here(m, a, n).mem = m
<1> DEFINE S == m.vm.unused
           c == PageRange(a, n)
           us == around(S, c)
           r == allocate_here(m, a, n)
<1>1. c \in Chunks /\ Paged(c)
  BY PageRangeFacts
<1>2. r = IF us = {} THEN Failed(m)
          ELSE Got([m EXCEPT !.vm = taken(m.vm, c, (S \ us) \cup UNION {difference(u, c) : u \in us})], c)
  BY DEF allocate_here, allocate_at
<1> HIDE DEF c, r
<1>3. c.base \in Nat /\ last_byte(c) \in Nat /\ c.base <= last_byte(c)
  BY <1>1, ChunkFacts
<1>4. ChunkSet(S) /\ \A d \in S : d \in Chunks
  BY DEF VMInv, PageSet, ChunkSet
<1>5. \A d \in S : d.base \in Nat /\ last_byte(d) \in Nat /\ d.base <= last_byte(d)
  BY <1>4, ChunkFacts
<1>6. \A u \in us : u \in S /\ u.base <= c.base /\ last_byte(c) <= last_byte(u)
  BY DEF around, contains
<1>7. ASSUME us # {}
      PROVE  r.ok /\ r.chunk = c /\ Gives(m, r)
  <2>1. PICK u \in us : TRUE
    BY <1>7
  <2>2. {d \in S : ~Disjoint(d, c)} = {u} /\ Bytes(c) \subseteq Bytes(u)
    BY <1>1, <1>4, <1>6, <2>1, HitOne
  <2>3. us = {u}
    <3>1. \A x \in us : {d \in S : ~Disjoint(d, c)} = {x}
      BY <1>1, <1>4, <1>6, HitOne
    <3> QED BY <2>1, <2>2, <3>1
  <2> DEFINE w == taken(m.vm, c, (S \ us) \cup UNION {difference(d, c) : d \in us})
  <2>4. (S \ us) \cup UNION {difference(d, c) : d \in us} = Cut(S, c)
    BY <1>1, <1>4, <2>2, <2>3, CutOnlyHit
  <2>5. w = taken(m.vm, c, Cut(m.vm.unused, c))
    BY <2>4
  <2>6. Bytes(c) \subseteq Covered(m.vm.unused)
    BY <1>6, <2>1, <2>2, InCovered
  <2>7. r = Got([m EXCEPT !.vm = w], c)
    BY <1>2, <1>7
  <2> HIDE DEF w
  <2>8. /\ VMInv(w) /\ Covered(w.used) = Covered(m.vm.used) \cup Bytes(c)
        /\ Bytes(c) \cap Covered(m.vm.used) = {} /\ Bytes(c) \subseteq Space
    BY <1>1, <2>5, <2>6, TakenFacts
  <2>9. r.ok /\ r.chunk = c /\ r.mem.vm = w /\ r.mem.heaps = m.heaps /\ IsMem(r.mem)
    BY <2>7 DEF Got, IsMem
  <2> QED BY <1>1, <2>8, <2>9 DEF Gives
<1>8. ASSUME us = {} PROVE ~r.ok /\ r.mem = m
  BY <1>2, <1>8 DEF Failed
\* Free chunks have no free neighbours, so a free range is in one of them
<1>9. ASSUME Bytes(c) \subseteq Covered(S) PROVE us # {}
  <2>1. PICK u \in S : c.base \in Bytes(u)
    <3>1. c.base \in Bytes(c)
      BY <1>1, ChunkFacts
    <3> QED BY <1>9, <3>1, InCovered
  <2>2. u.base <= c.base /\ c.base <= last_byte(u)
    BY <1>4, <2>1, ChunkFacts
  <2>3. last_byte(c) <= last_byte(u)
    <3> SUFFICES ASSUME last_byte(u) < last_byte(c) PROVE FALSE
      BY <1>3, <1>5
    <3> DEFINE b == last_byte(u) + 1
    <3>1. b \in Nat /\ c.base <= b /\ b <= last_byte(c)
      BY <1>3, <1>5, <2>2
    <3>2. b \in Bytes(c)
      BY <1>1, <3>1, ChunkFacts
    <3>3. PICK v \in S : b \in Bytes(v)
      BY <1>9, <3>2, InCovered
    <3>4. v.base <= b /\ b <= last_byte(v)
      BY <1>4, <3>3, ChunkFacts
    <3>5. v # u
      BY <1>5, <3>4
    <3>6. last_byte(v) < u.base \/ last_byte(u) < v.base
      BY <1>4, <3>5 DEF ChunkSet, PairwiseDisjoint, Disjoint
    <3>7. v.base = b
      BY <1>5, <3>4, <3>6
    <3> QED BY <3>7 DEF VMInv, Coalesced
  <2> QED BY <1>3, <1>5, <2>2, <2>3 DEF around, contains
<1> QED BY <1>7, <1>8, <1>9 DEF r, c

\* VMAllocator::deallocate of any range keeps the partition
LEMMA DeallocateFacts ==
  ASSUME NEW m, IsMem(m), VMInv(m.vm), NEW a \in Nat, NEW n \in Nat \ {0},
         Bytes(PageRange(a, n)) \subseteq Space
  PROVE  /\ IsMem(deallocate(m, a, n)) /\ deallocate(m, a, n).heaps = m.heaps
         /\ VMInv(deallocate(m, a, n).vm)
         /\ Covered(deallocate(m, a, n).vm.used) = Covered(m.vm.used) \ Bytes(PageRange(a, n))
<1> DEFINE r == PageRange(a, n)
           used == Cut(m.vm.used, r)
           unused == insert_merged(Cut(m.vm.unused, r), r)
           d == deallocate(m, a, n)
<1>1. r \in Chunks /\ Paged(r)
  BY PageRangeFacts
<1>2. PageSet(m.vm.used) /\ PageSet(m.vm.unused) /\ ChunkSet(m.vm.used) /\ ChunkSet(m.vm.unused)
  BY DEF VMInv, PageSet
<1>3. remove_range(m.vm.used, r) = used /\ remove_range(m.vm.unused, r) = Cut(m.vm.unused, r)
  BY <1>1, <1>2, RemoveRangeIs
<1>4. d = [m EXCEPT !.vm = [used |-> used, unused |-> unused]]
  BY <1>3 DEF deallocate
<1>5. d.heaps = m.heaps /\ d.vm = [used |-> used, unused |-> unused] /\ IsMem(d)
  BY <1>4 DEF IsMem
<1> HIDE DEF r, d
<1>6. PageSet(used) /\ Covered(used) = Covered(m.vm.used) \ Bytes(r)
  BY <1>1, <1>2, CutPaged, CutFacts
<1>7. /\ PageSet(Cut(m.vm.unused, r)) /\ Coalesced(Cut(m.vm.unused, r))
      /\ Covered(Cut(m.vm.unused, r)) = Covered(m.vm.unused) \ Bytes(r)
  BY <1>1, <1>2, CutPaged, CutFacts DEF VMInv
<1>8. Bytes(r) \cap Covered(Cut(m.vm.unused, r)) = {}
  BY <1>7
<1>9. /\ PageSet(unused) /\ Coalesced(unused)
      /\ Covered(unused) = Covered(Cut(m.vm.unused, r)) \cup Bytes(r)
  BY <1>1, <1>7, <1>8, InsertMergedFacts
<1> HIDE DEF used, unused
<1>10. Bytes(r) \subseteq Space /\ Covered(m.vm.used) \cap Covered(m.vm.unused) = {}
       /\ Covered(m.vm.used) \cup Covered(m.vm.unused) = Space
  BY DEF VMInv, r
<1>11. Covered(used) \cap Covered(unused) = {} /\ Covered(used) \cup Covered(unused) = Space
  BY <1>6, <1>7, <1>9, <1>10
<1>12. VMInv([used |-> used, unused |-> unused])
  BY <1>6, <1>9, <1>11 DEF VMInv
<1> QED BY <1>5, <1>6, <1>12 DEF r, d

-----------------------------------------------------------------------------
(***************************************************************************)
(* The heaps, and who owns which page.  E is what is not a heap's.         *)
(***************************************************************************)
PagesIn(S) == IsFiniteSet(S) /\ \A c \in S : c \in Chunks /\ Paged(c) /\ Bytes(c) \subseteq Space
PagesOf(h) == Covered(h.backing) \cup Covered(h.external)
HeapShape(h) ==
  /\ h = [live |-> h.live, used |-> h.used, unused |-> h.unused,
          external |-> h.external, backing |-> h.backing]
  /\ h.live \in BOOLEAN /\ (h.live \/ h = NoHeap)
  /\ PagesIn(h.backing) /\ PagesIn(h.external)
HeapInv(h) ==
  /\ ChunkSet(h.used) /\ ChunkSet(h.unused) /\ ChunkSet(h.external)
  /\ Covered(h.used) \cap Covered(h.unused) = {}
  /\ Covered(h.used) \cup Covered(h.unused) = Covered(h.backing)
  /\ Covered(h.backing) \cap Covered(h.external) = {}
Owned(m, E) ==
  /\ \A z \in HeapIds : HeapInv(m.heaps[z]) /\ PagesOf(m.heaps[z]) \cap E = {}
  /\ \A y, z \in HeapIds : y # z => PagesOf(m.heaps[y]) \cap PagesOf(m.heaps[z]) = {}
  /\ E \subseteq Covered(m.vm.used)
  /\ \A b \in Covered(m.vm.used) : b \in E \/ \E z \in HeapIds : b \in PagesOf(m.heaps[z])
  /\ \A z \in HeapIds : PagesOf(m.heaps[z]) \subseteq Covered(m.vm.used)
OwnInv(m, E) ==
  /\ IsMem(m) /\ VMInv(m.vm)
  /\ m.heaps = [z \in HeapIds |-> m.heaps[z]]
  /\ \A z \in HeapIds : HeapShape(m.heaps[z])
  /\ UnmapsOnlyMapped => Owned(m, E)

\* Pages that were allocated belong to nobody yet, so to E
LEMMA AllocatedKeeps ==
  ASSUME NEW m, NEW E, OwnInv(m, E), NEW r, Gives(m, r)
  PROVE  /\ OwnInv(r.mem, E \cup Bytes(r.chunk))
         /\ UnmapsOnlyMapped => Bytes(r.chunk) \cap E = {}
<1> DEFINE B == Bytes(r.chunk)  n == r.mem  U == Covered(m.vm.used)
<1>1. /\ IsMem(n) /\ VMInv(n.vm) /\ n.heaps = m.heaps
      /\ B \cap U = {} /\ Covered(n.vm.used) = U \cup B
  BY DEF Gives
<1> HIDE DEF B, n, U
<1>2. ASSUME Owned(m, E) PROVE Owned(n, E \cup B) /\ B \cap E = {}
  <2>1. /\ \A z \in HeapIds : HeapInv(m.heaps[z]) /\ PagesOf(m.heaps[z]) \cap E = {}
        /\ \A y, z \in HeapIds : y # z => PagesOf(m.heaps[y]) \cap PagesOf(m.heaps[z]) = {}
        /\ E \subseteq U
        /\ \A b \in U : b \in E \/ \E z \in HeapIds : b \in PagesOf(m.heaps[z])
        /\ \A z \in HeapIds : PagesOf(m.heaps[z]) \subseteq U
    BY <1>2 DEF Owned, U
  <2>2. B \cap E = {} /\ \A z \in HeapIds : PagesOf(m.heaps[z]) \cap B = {}
    BY <1>1, <2>1
  <2> QED BY <1>1, <2>1, <2>2 DEF Owned
<1>3. UnmapsOnlyMapped => Owned(m, E)
  BY DEF OwnInv
<1>4. n.heaps = [z \in HeapIds |-> n.heaps[z]] /\ \A z \in HeapIds : HeapShape(n.heaps[z])
  BY <1>1 DEF OwnInv
<1> QED BY <1>1, <1>2, <1>3, <1>4 DEF OwnInv, n, B

\* Pages that are no heap's may be freed
LEMMA DeallocatedKeeps ==
  ASSUME NEW m, NEW E, OwnInv(m, E), NEW a \in Nat, NEW n \in Nat \ {0},
         Bytes(PageRange(a, n)) \subseteq Space,
         UnmapsOnlyMapped => \A z \in HeapIds : Bytes(PageRange(a, n)) \cap PagesOf(m.heaps[z]) = {}
  PROVE  /\ OwnInv(deallocate(m, a, n), E \ Bytes(PageRange(a, n)))
         /\ deallocate(m, a, n).heaps = m.heaps
         /\ Bytes(PageRange(a, n)) \subseteq Covered(deallocate(m, a, n).vm.unused)
<1> DEFINE B == Bytes(PageRange(a, n))  d == deallocate(m, a, n)  U == Covered(m.vm.used)
<1>1. IsMem(d) /\ d.heaps = m.heaps /\ VMInv(d.vm) /\ Covered(d.vm.used) = U \ B
  BY DeallocateFacts DEF OwnInv
<1>2. B \subseteq Covered(d.vm.unused)
  BY <1>1 DEF VMInv
<1>3. UnmapsOnlyMapped => \A z \in HeapIds : B \cap PagesOf(m.heaps[z]) = {}
  OBVIOUS
<1> HIDE DEF B, d, U
<1>4. ASSUME UnmapsOnlyMapped, Owned(m, E) PROVE Owned(d, E \ B)
  <2>1. /\ \A z \in HeapIds : HeapInv(m.heaps[z]) /\ PagesOf(m.heaps[z]) \cap E = {}
        /\ \A y, z \in HeapIds : y # z => PagesOf(m.heaps[y]) \cap PagesOf(m.heaps[z]) = {}
        /\ E \subseteq U
        /\ \A b \in U : b \in E \/ \E z \in HeapIds : b \in PagesOf(m.heaps[z])
        /\ \A z \in HeapIds : PagesOf(m.heaps[z]) \subseteq U
    BY <1>4 DEF Owned, U
  <2> QED BY <1>1, <1>3, <1>4, <2>1 DEF Owned
<1>5. UnmapsOnlyMapped => Owned(m, E)
  BY DEF OwnInv
<1>6. d.heaps = [z \in HeapIds |-> d.heaps[z]] /\ \A z \in HeapIds : HeapShape(d.heaps[z])
  BY <1>1 DEF OwnInv
<1> QED BY <1>1, <1>2, <1>4, <1>5, <1>6 DEF OwnInv, B, d

\* A heap may give up pages, take pages from E, or use its own otherwise
LEMMA PutKeeps ==
  ASSUME NEW m, NEW E, OwnInv(m, E), NEW z \in HeapIds, NEW h, HeapShape(h), NEW F,
         UnmapsOnlyMapped => /\ HeapInv(h) /\ PagesOf(h) \cap F = {}
                             /\ PagesOf(h) \cup F = PagesOf(m.heaps[z]) \cup E
  PROVE  /\ OwnInv(put(m, z, h), F)
         /\ put(m, z, h).vm = m.vm /\ put(m, z, h).heaps[z] = h
         /\ \A y \in HeapIds : y # z => put(m, z, h).heaps[y] = m.heaps[y]
<1> DEFINE n == put(m, z, h)
<1>1. /\ m.heaps = [y \in HeapIds |-> m.heaps[y]] /\ VMInv(m.vm)
      /\ \A y \in HeapIds : HeapShape(m.heaps[y])
  BY DEF OwnInv
<1>2. n.vm = m.vm /\ n.heaps = [m.heaps EXCEPT ![z] = h] /\ IsMem(n)
  BY DEF put, IsMem
<1>3. /\ n.heaps = [y \in HeapIds |-> n.heaps[y]] /\ n.heaps[z] = h
      /\ \A y \in HeapIds : y # z => n.heaps[y] = m.heaps[y]
  BY <1>1, <1>2
<1>4. \A y \in HeapIds : HeapShape(n.heaps[y])
  BY <1>1, <1>3
<1> HIDE DEF n
<1>5. ASSUME UnmapsOnlyMapped PROVE Owned(n, F)
  <2>1. /\ \A y \in HeapIds : HeapInv(m.heaps[y]) /\ PagesOf(m.heaps[y]) \cap E = {}
        /\ \A x, y \in HeapIds : x # y => PagesOf(m.heaps[x]) \cap PagesOf(m.heaps[y]) = {}
        /\ E \subseteq Covered(m.vm.used)
        /\ \A b \in Covered(m.vm.used) : b \in E \/ \E y \in HeapIds : b \in PagesOf(m.heaps[y])
        /\ \A y \in HeapIds : PagesOf(m.heaps[y]) \subseteq Covered(m.vm.used)
    BY <1>5 DEF OwnInv, Owned
  <2>2. HeapInv(h) /\ PagesOf(h) \cap F = {} /\ PagesOf(h) \cup F = PagesOf(m.heaps[z]) \cup E
    BY <1>5
  <2>3. \A y \in HeapIds : y # z => PagesOf(m.heaps[y]) \cap PagesOf(h) = {} /\ PagesOf(m.heaps[y]) \cap F = {}
    BY <2>1, <2>2
  <2>4. \A y \in HeapIds : HeapInv(n.heaps[y]) /\ PagesOf(n.heaps[y]) \cap F = {}
    BY <1>3, <2>1, <2>2, <2>3
  <2>5. ASSUME NEW x \in HeapIds, NEW y \in HeapIds, x # y
        PROVE  PagesOf(n.heaps[x]) \cap PagesOf(n.heaps[y]) = {}
    BY <1>3, <2>1, <2>3, <2>5
  <2>6. F \subseteq Covered(n.vm.used)
    BY <1>2, <2>1, <2>2
  <2>7. ASSUME NEW b \in Covered(n.vm.used) PROVE b \in F \/ \E y \in HeapIds : b \in PagesOf(n.heaps[y])
    <3>1. b \in E \/ \E y \in HeapIds : b \in PagesOf(m.heaps[y])
      BY <1>2, <2>1
    <3>2. CASE b \in PagesOf(m.heaps[z]) \cup E
      BY <1>3, <2>2, <3>2
    <3>3. CASE \E y \in HeapIds : y # z /\ b \in PagesOf(m.heaps[y])
      BY <1>3, <3>3
    <3> QED BY <3>1, <3>2, <3>3
  <2>8. \A y \in HeapIds : PagesOf(n.heaps[y]) \subseteq Covered(n.vm.used)
    BY <1>2, <1>3, <2>1, <2>2
  <2> QED BY <2>4, <2>5, <2>6, <2>7, <2>8 DEF Owned
<1> QED BY <1>1, <1>2, <1>3, <1>4, <1>5 DEF OwnInv, n

\* What no chunk, one chunk and two maps cover
LEMMA CoveredSets ==
  ASSUME NEW S, NEW T
  PROVE  /\ Covered({}) = {} /\ \A c : Covered({c}) = Bytes(c)
         /\ Covered(S \cup T) = Covered(S) \cup Covered(T)
<1>1. Covered({}) = {} /\ \A c : Covered({c}) = Bytes(c)
  BY DEF Covered
<1>2. \A b : b \in Covered(S \cup T) <=> b \in Covered(S) \/ b \in Covered(T)
  BY InCovered
<1> QED BY <1>1, <1>2

\* The parts of a heap
LEMMA HeapHas ==
  ASSUME NEW u, NEW f, NEW x, NEW b, NEW h, h = Heap(u, f, x, b)
  PROVE  /\ h.live /\ h.used = u /\ h.unused = f /\ h.external = x /\ h.backing = b
         /\ h = [live |-> h.live, used |-> h.used, unused |-> h.unused,
                 external |-> h.external, backing |-> h.backing]
<1>1. h = [live |-> TRUE, used |-> u, unused |-> f, external |-> x, backing |-> b]
  BY DEF Heap
<1>2. h.live = TRUE /\ h.used = u /\ h.unused = f /\ h.external = x /\ h.backing = b
  BY <1>1
<1> QED BY <1>1, <1>2

\* A heap that is not there has no pages
LEMMA NoHeapFacts == HeapShape(NoHeap) /\ HeapInv(NoHeap) /\ PagesOf(NoHeap) = {}
<1>1. NoHeap = [live |-> FALSE, used |-> {}, unused |-> {}, external |-> {}, backing |-> {}]
  BY DEF NoHeap
<1>2. Covered({}) = {}
  BY CoveredSets
<1>3. ChunkSet({})
  BY DEF ChunkSet, PairwiseDisjoint
<1>4. HeapShape(NoHeap)
  BY <1>1, FS_EmptySet DEF HeapShape, PagesIn
<1>5. HeapInv(NoHeap) /\ PagesOf(NoHeap) = {}
  BY <1>1, <1>2, <1>3 DEF HeapInv, PagesOf
<1> QED BY <1>4, <1>5

\* A heap may have more pages
LEMMA PagesAdded ==
  ASSUME NEW S, PagesIn(S), NEW c \in Chunks, Paged(c), Bytes(c) \subseteq Space
  PROVE  PagesIn(S \cup {c})
<1>1. IsFiniteSet(S \cup {c})
  BY FS_AddElement DEF PagesIn
<1> QED BY <1>1 DEF PagesIn

\* One chunk is a chunk map
LEMMA OneChunk ==
  ASSUME NEW c \in Chunks
  PROVE  ChunkSet({c})
BY DEF ChunkSet, PairwiseDisjoint

\* A new heap has the chunk it was given, if any
LEMMA EmptyHeapFacts ==
  /\ HeapShape(EmptyHeap({})) /\ HeapInv(EmptyHeap({})) /\ PagesOf(EmptyHeap({})) = {} /\ EmptyHeap({}).live
  /\ \A c \in Chunks : Paged(c) /\ Bytes(c) \subseteq Space =>
       /\ HeapShape(EmptyHeap({c})) /\ HeapInv(EmptyHeap({c})) /\ PagesOf(EmptyHeap({c})) = Bytes(c)
       /\ EmptyHeap({c}).live
<1>1. \A S : EmptyHeap(S) = [live |-> TRUE, used |-> {}, unused |-> S, external |-> {}, backing |-> S]
  BY DEF EmptyHeap, Heap
<1>2. Covered({}) = {} /\ \A c : Covered({c}) = Bytes(c)
  BY CoveredSets
<1>3. ChunkSet({}) /\ \A c \in Chunks : ChunkSet({c})
  BY OneChunk DEF ChunkSet, PairwiseDisjoint
<1>4. ASSUME NEW S, PagesIn(S), ChunkSet(S)
      PROVE  HeapShape(EmptyHeap(S)) /\ HeapInv(EmptyHeap(S)) /\ PagesOf(EmptyHeap(S)) = Covered(S) /\ EmptyHeap(S).live
  <2> DEFINE h == EmptyHeap(S)
  <2>1. h.live = TRUE /\ h.used = {} /\ h.unused = S /\ h.external = {} /\ h.backing = S
    BY <1>1
  <2>2. h = [live |-> h.live, used |-> h.used, unused |-> h.unused, external |-> h.external, backing |-> h.backing]
    BY <1>1
  <2> HIDE DEF h
  <2>3. HeapShape(h)
    <3>1. PagesIn({})
      BY FS_EmptySet DEF PagesIn
    <3> QED BY <1>4, <2>1, <2>2, <3>1 DEF HeapShape
  <2>4. HeapInv(h) /\ PagesOf(h) = Covered(S)
    BY <1>2, <1>3, <1>4, <2>1 DEF HeapInv, PagesOf
  <2> QED BY <2>1, <2>3, <2>4 DEF h
<1>5. PagesIn({}) /\ \A c \in Chunks : Paged(c) /\ Bytes(c) \subseteq Space => PagesIn({c})
  BY FS_EmptySet, FS_Singleton DEF PagesIn
<1> QED BY <1>2, <1>3, <1>4, <1>5

\* What a request on the heap z must leave true
OthersSame(m, n, z) == \A y \in HeapIds : y # z => n.heaps[y] = m.heaps[y]

\* HeapAllocator::new takes its pages from nobody
LEMMA HeapNewKeeps ==
  ASSUME NEW m, NEW E, OwnInv(m, E), NEW z \in HeapIds, UnmapsOnlyMapped => m.heaps[z] = NoHeap,
         NEW n \in Nat, heap_new(m, z, n).ok
  PROVE  /\ OwnInv(heap_new(m, z, n).mem, E) /\ OthersSame(m, heap_new(m, z, n).mem, z)
         /\ heap_new(m, z, n).mem.heaps[z].live
<1> DEFINE r == allocate(m, n)
<1>1. CASE n = 0
  <2>1. heap_new(m, z, n).mem = put(m, z, EmptyHeap({}))
    BY <1>1 DEF heap_new, started, Got
  <2>2. UnmapsOnlyMapped => PagesOf(m.heaps[z]) = {}
    BY NoHeapFacts
  <2> DEFINE h == EmptyHeap({})
  <2>3. HeapShape(h) /\ HeapInv(h) /\ PagesOf(h) = {} /\ h.live
    BY EmptyHeapFacts
  <2> HIDE DEF h
  <2>4. /\ OwnInv(put(m, z, h), E) /\ put(m, z, h).heaps[z] = h
        /\ \A y \in HeapIds : y # z => put(m, z, h).heaps[y] = m.heaps[y]
    BY <2>2, <2>3, PutKeeps
  <2> QED BY <2>1, <2>3, <2>4 DEF OthersSame, h
<1>2. CASE n # 0
  <2>1. r.ok /\ heap_new(m, z, n) = Got(put(r.mem, z, EmptyHeap({r.chunk})), r.chunk)
    BY <1>2 DEF heap_new, started
  <2>2. Gives(m, r)
    BY <1>2, <2>1, AllocateGives DEF OwnInv
  <2> HIDE DEF r
  <2>3. /\ OwnInv(r.mem, E \cup Bytes(r.chunk)) /\ r.mem.heaps = m.heaps
        /\ UnmapsOnlyMapped => Bytes(r.chunk) \cap E = {}
    BY <2>2, AllocatedKeeps DEF Gives
  <2> DEFINE h == EmptyHeap({r.chunk})  B == Bytes(r.chunk)  F == E \cup B
  <2>4. HeapShape(h) /\ HeapInv(h) /\ PagesOf(h) = B /\ h.live
    BY <2>2, EmptyHeapFacts DEF Gives
  <2>5. UnmapsOnlyMapped => PagesOf(r.mem.heaps[z]) = {}
    BY <2>3, NoHeapFacts
  <2> HIDE DEF h
  <2>6. UnmapsOnlyMapped => /\ HeapInv(h) /\ PagesOf(h) \cap E = {}
                            /\ PagesOf(h) \cup E = PagesOf(r.mem.heaps[z]) \cup F
    BY <2>3, <2>4, <2>5
  <2> HIDE DEF F
  <2>7. OwnInv(r.mem, F)
    BY <2>3 DEF F
  <2>8. /\ OwnInv(put(r.mem, z, h), E) /\ put(r.mem, z, h).heaps[z] = h
        /\ \A y \in HeapIds : y # z => put(r.mem, z, h).heaps[y] = r.mem.heaps[y]
    BY <2>4, <2>6, <2>7, PutKeeps
  <2>9. heap_new(m, z, n).mem = put(r.mem, z, h)
    BY <2>1 DEF Got, h
  <2> QED BY <2>3, <2>4, <2>8, <2>9 DEF OthersSame
<1> QED BY <1>1, <1>2

\* Mem::allocators_mut makes the default heap when it is first used
LEMMA WithHeapKeeps ==
  ASSUME NEW m, NEW E, OwnInv(m, E), NEW z \in HeapIds, with_heap(m, z).ok
  PROVE  /\ OwnInv(with_heap(m, z).mem, E) /\ OthersSame(m, with_heap(m, z).mem, z)
         /\ with_heap(m, z).mem.heaps[z].live
<1>1. CASE m.heaps[z].live
  <2>1. with_heap(m, z).mem = m
    BY <1>1 DEF with_heap, Got
  <2> QED BY <1>1, <2>1 DEF OthersSame
<1>2. CASE ~m.heaps[z].live
  <2>1. with_heap(m, z) = heap_new(m, z, HEAP_CHUNK_SIZE)
    BY <1>2 DEF with_heap
  <2>2. m.heaps[z] = NoHeap
    BY <1>2 DEF OwnInv, HeapShape
  <2>3. HEAP_CHUNK_SIZE \in Nat
    BY SizesAssumption
  <2> QED BY <2>1, <2>2, <2>3, HeapNewKeeps
<1> QED BY <1>1, <1>2

\* HeapAllocator::grow, after which a chunk is large enough for any request below the threshold
LEMMA GrowKeeps ==
  ASSUME NEW m, NEW E, OwnInv(m, E), NEW z \in HeapIds, m.heaps[z].live, grow(m, z).ok
  PROVE  /\ OwnInv(grow(m, z).mem, E) /\ OthersSame(m, grow(m, z).mem, z)
         /\ grow(m, z).mem.heaps[z].live
         /\ \E c \in grow(m, z).mem.heaps[z].unused : HEAP_CHUNK_SIZE <= c.size
<1> DEFINE r == allocate(m, HEAP_CHUNK_SIZE)
           h == m.heaps[z]
           B == Bytes(r.chunk)
           F == E \cup B
<1> DEFINE more == h.unused \cup {r.chunk}
           back == h.backing \cup {r.chunk}
<1>0. PICK g : g = Heap(h.used, more, h.external, back)
  OBVIOUS
<1>1. r.ok /\ grow(m, z) = Got(put(r.mem, z, g), r.chunk)
  BY <1>0 DEF grow, grown
<1>2. Gives(m, r) /\ HEAP_CHUNK_SIZE <= r.chunk.size
  BY <1>1, AllocateGives, SizesAssumption DEF OwnInv
<1> HIDE DEF r
<1>3. OwnInv(r.mem, F) /\ r.mem.heaps = m.heaps /\ (UnmapsOnlyMapped => B \cap E = {})
  BY <1>2, AllocatedKeeps DEF Gives
<1>4. r.chunk \in Chunks /\ Paged(r.chunk) /\ B \subseteq Space
  BY <1>2 DEF Gives
<1>5. HeapShape(h)
  BY DEF OwnInv
<1> HIDE DEF h
<1>6. /\ g.live /\ g.used = h.used /\ g.external = h.external
      /\ g.unused = h.unused \cup {r.chunk} /\ g.backing = h.backing \cup {r.chunk}
      /\ g = [live |-> g.live, used |-> g.used, unused |-> g.unused, external |-> g.external, backing |-> g.backing]
  <2> HIDE DEF more, back
  <2>1. /\ g.live /\ g.used = h.used /\ g.external = h.external /\ g.unused = more /\ g.backing = back
        /\ g = [live |-> g.live, used |-> g.used, unused |-> g.unused, external |-> g.external, backing |-> g.backing]
    BY <1>0, HeapHas
  <2> QED BY <2>1 DEF more, back
<1>7. HeapShape(g) /\ g.live
  <2>1. g.live \in BOOLEAN /\ PagesIn(g.external) /\ PagesIn(g.backing)
    BY <1>4, <1>5, <1>6, PagesAdded DEF HeapShape
  <2> QED BY <1>6, <2>1 DEF HeapShape
<1>8. ASSUME UnmapsOnlyMapped
      PROVE  HeapInv(g) /\ PagesOf(g) \cap E = {} /\ PagesOf(g) \cup E = PagesOf(r.mem.heaps[z]) \cup F
  <2>1. HeapInv(h) /\ PagesOf(h) \cap F = {} /\ r.mem.heaps[z] = h
    BY <1>3, <1>8 DEF OwnInv, Owned, h
  <2>2. /\ Covered(g.unused) = Covered(h.unused) \cup B
        /\ Covered(g.backing) = Covered(h.backing) \cup B
    <3>1. Covered({r.chunk}) = B
      BY CoveredSets
    <3> QED BY <1>6, <3>1, CoveredSets
  <2>3. B \cap PagesOf(h) = {} /\ B \cap E = {}
    BY <1>3, <1>8, <2>1
  <2>4. B \cap Covered(h.unused) = {} /\ B \cap Covered(h.used) = {} /\ B \cap Covered(h.external) = {}
    BY <2>1, <2>3 DEF PagesOf, HeapInv
  <2>5. ChunkSet(g.unused)
    <3>1. ChunkSet(h.unused \cup {r.chunk})
      BY <1>4, <2>1, <2>4, AddFacts DEF HeapInv
    <3> QED BY <1>6, <3>1
  <2>6. HeapInv(g)
    BY <1>6, <2>1, <2>2, <2>4, <2>5 DEF HeapInv
  <2>7. PagesOf(g) = PagesOf(h) \cup B
    BY <1>6, <2>2 DEF PagesOf
  <2> QED BY <2>1, <2>3, <2>6, <2>7
<1> HIDE DEF F
<1>9. /\ OwnInv(put(r.mem, z, g), E) /\ put(r.mem, z, g).heaps[z] = g
      /\ \A y \in HeapIds : y # z => put(r.mem, z, g).heaps[y] = r.mem.heaps[y]
  BY <1>3, <1>7, <1>8, PutKeeps
<1>10. grow(m, z).mem = put(r.mem, z, g)
  BY <1>1 DEF Got
<1>11. r.chunk \in g.unused
  BY <1>6
<1> QED BY <1>2, <1>3, <1>7, <1>9, <1>10, <1>11 DEF OthersSame

\* An allocation outside the heap's own chunks
LEMMA ExternalKeeps ==
  ASSUME NEW m, NEW E, OwnInv(m, E), NEW z \in HeapIds, m.heaps[z].live,
         NEW n \in Nat \ {0}, external_alloc(m, z, n).ok
  PROVE  /\ OwnInv(external_alloc(m, z, n).mem, E) /\ OthersSame(m, external_alloc(m, z, n).mem, z)
         /\ external_alloc(m, z, n).mem.heaps[z].live
         /\ external_alloc(m, z, n).chunk.base \in Nat
<1> DEFINE r == allocate(m, n)
           h == m.heaps[z]
           B == Bytes(r.chunk)
           F == E \cup B
<1>0. PICK g : g = Heap(h.used, h.unused, h.external \cup {r.chunk}, h.backing)
  OBVIOUS
<1>1. r.ok /\ external_alloc(m, z, n) = Got(put(r.mem, z, g), r.chunk)
  BY <1>0 DEF external_alloc, handed_on
<1>2. Gives(m, r)
  BY <1>1, AllocateGives DEF OwnInv
<1> HIDE DEF r
<1>3. OwnInv(r.mem, F) /\ r.mem.heaps = m.heaps /\ (UnmapsOnlyMapped => B \cap E = {})
  BY <1>2, AllocatedKeeps DEF Gives
<1>4. r.chunk \in Chunks /\ Paged(r.chunk) /\ B \subseteq Space
  BY <1>2 DEF Gives
<1>5. HeapShape(h)
  BY DEF OwnInv
<1> HIDE DEF h
<1>6. /\ g.live /\ g.used = h.used /\ g.external = h.external \cup {r.chunk}
      /\ g.unused = h.unused /\ g.backing = h.backing
      /\ g = [live |-> g.live, used |-> g.used, unused |-> g.unused, external |-> g.external, backing |-> g.backing]
  BY <1>0, HeapHas
<1>7. HeapShape(g) /\ g.live
  <2>1. g.live \in BOOLEAN /\ PagesIn(g.external) /\ PagesIn(g.backing)
    BY <1>4, <1>5, <1>6, PagesAdded DEF HeapShape
  <2> QED BY <1>6, <2>1 DEF HeapShape
<1>8. ASSUME UnmapsOnlyMapped
      PROVE  HeapInv(g) /\ PagesOf(g) \cap E = {} /\ PagesOf(g) \cup E = PagesOf(r.mem.heaps[z]) \cup F
  <2>1. HeapInv(h) /\ PagesOf(h) \cap F = {} /\ r.mem.heaps[z] = h
    BY <1>3, <1>8 DEF OwnInv, Owned, h
  <2>2. Covered(g.external) = Covered(h.external) \cup B
    <3>1. Covered({r.chunk}) = B
      BY CoveredSets
    <3> QED BY <1>6, <3>1, CoveredSets
  <2>3. B \cap PagesOf(h) = {} /\ B \cap E = {}
    BY <1>3, <1>8, <2>1
  <2>4. B \cap Covered(h.backing) = {} /\ B \cap Covered(h.external) = {}
    BY <2>3 DEF PagesOf
  <2>5. ChunkSet(g.external)
    BY <1>4, <1>6, <2>1, <2>4, AddFacts DEF HeapInv
  <2>6. HeapInv(g)
    BY <1>6, <2>1, <2>2, <2>4, <2>5 DEF HeapInv
  <2>7. PagesOf(g) = PagesOf(h) \cup B
    BY <1>6, <2>2 DEF PagesOf
  <2> QED BY <2>1, <2>3, <2>6, <2>7
<1> HIDE DEF F
<1>9. /\ OwnInv(put(r.mem, z, g), E) /\ put(r.mem, z, g).heaps[z] = g
      /\ \A y \in HeapIds : y # z => put(r.mem, z, g).heaps[y] = r.mem.heaps[y]
  BY <1>3, <1>7, <1>8, PutKeeps
<1>10. external_alloc(m, z, n).mem = put(r.mem, z, g) /\ external_alloc(m, z, n).chunk = r.chunk
  BY <1>1 DEF Got
<1>11. r.chunk.base \in Nat
  BY <1>4, ChunkFacts
<1> QED BY <1>3, <1>7, <1>9, <1>10, <1>11 DEF OthersSame

\* A small allocation is cut out of a free chunk of the heap
LEMMA SmallKeeps ==
  ASSUME NEW m, NEW E, OwnInv(m, E), NEW z \in HeapIds, m.heaps[z].live, NEW n \in Nat \ {0},
         UnmapsOnlyMapped => Candidates(m.heaps[z].unused, n) # {}
  PROVE  /\ OwnInv(small_alloc(m, z, n).mem, E) /\ OthersSame(m, small_alloc(m, z, n).mem, z)
         /\ small_alloc(m, z, n).mem.heaps[z].live
         /\ UnmapsOnlyMapped => small_alloc(m, z, n).chunk.base \in Nat
<1> DEFINE h == m.heaps[z]
           S == h.unused
           c == Chunk(Found(S, n).base, n)
           used == h.used \cup {c}
           unused == unused_after(S, n)
<1>1. PICK g : g = Heap(used, unused, h.external, h.backing)
  OBVIOUS
<1>2. small_alloc(m, z, n) = Got(put(m, z, g), c)
  BY <1>1 DEF small_alloc
<1>3. HeapShape(h)
  BY DEF OwnInv
<1>4. UnmapsOnlyMapped => HeapInv(h) /\ PagesOf(h) \cap E = {} /\ Candidates(S, n) # {}
  BY DEF OwnInv, Owned
<1> HIDE DEF h
<1>5. ASSUME UnmapsOnlyMapped
      PROVE  c \in Chunks /\ Bytes(c) \subseteq Covered(S) /\ unused = Cut(S, c)
  <2>1. ChunkSet(S)
    BY <1>4, <1>5 DEF HeapInv
  <2> HIDE DEF S
  <2> QED BY <1>4, <1>5, <2>1, FoundCut
<1> HIDE DEF c, unused
<1>6. /\ g.live /\ g.used = used /\ g.unused = unused /\ g.external = h.external /\ g.backing = h.backing
      /\ g = [live |-> g.live, used |-> g.used, unused |-> g.unused, external |-> g.external, backing |-> g.backing]
  <2> HIDE DEF used
  <2> QED BY <1>1, HeapHas
<1>7. HeapShape(g)
  <2>1. PagesIn(h.backing) /\ PagesIn(h.external)
    BY <1>3 DEF HeapShape
  <2> QED BY <1>6, <2>1 DEF HeapShape
<1>8. ASSUME UnmapsOnlyMapped
      PROVE  HeapInv(g) /\ PagesOf(g) \cap E = {} /\ PagesOf(g) \cup E = PagesOf(h) \cup E
  <2>1. /\ ChunkSet(h.used) /\ ChunkSet(S) /\ ChunkSet(h.external)
        /\ Covered(h.used) \cap Covered(S) = {} /\ Covered(h.used) \cup Covered(S) = Covered(h.backing)
        /\ Covered(h.backing) \cap Covered(h.external) = {}
    BY <1>4, <1>8 DEF HeapInv
  <2>2. c \in Chunks /\ Bytes(c) \subseteq Covered(S) /\ unused = Cut(S, c)
    BY <1>5, <1>8
  <2>3. ChunkSet(used) /\ Covered(used) = Covered(h.used) \cup Bytes(c)
    <3>1. Bytes(c) \cap Covered(h.used) = {}
      BY <2>1, <2>2
    <3> QED BY <2>1, <2>2, <3>1, AddFacts
  <2>4. ChunkSet(unused) /\ Covered(unused) = Covered(S) \ Bytes(c)
    BY <2>1, <2>2, CutFacts
  <2>5. /\ Covered(used) \cap Covered(unused) = {}
        /\ Covered(used) \cup Covered(unused) = Covered(h.backing)
    BY <2>1, <2>2, <2>3, <2>4
  <2> HIDE DEF used
  <2>6. HeapInv(g)
    BY <1>6, <2>1, <2>3, <2>4, <2>5 DEF HeapInv
  <2>7. PagesOf(g) = PagesOf(h)
    BY <1>6 DEF PagesOf
  <2> QED BY <1>4, <1>8, <2>6, <2>7
<1>9. /\ OwnInv(put(m, z, g), E) /\ put(m, z, g).heaps[z] = g
      /\ \A y \in HeapIds : y # z => put(m, z, g).heaps[y] = m.heaps[y]
  BY <1>7, <1>8, PutKeeps DEF h
<1>10. small_alloc(m, z, n).mem = put(m, z, g) /\ small_alloc(m, z, n).chunk = c
  BY <1>2 DEF Got
<1>11. UnmapsOnlyMapped => c.base \in Nat
  BY <1>5, ChunkFacts
<1> QED BY <1>6, <1>9, <1>10, <1>11 DEF OthersSame

\* What an allocation of n bytes in the heap z leaves true
Served(m, E, z, r) ==
  /\ OwnInv(r.mem, E) /\ OthersSame(m, r.mem, z) /\ r.mem.heaps[z].live
  /\ UnmapsOnlyMapped => r.chunk.base \in Nat

\* HeapAllocator::alloc, from its chunks, after growing or from the page allocator
LEMMA HeapAllocKeeps ==
  ASSUME NEW m, NEW E, OwnInv(m, E), NEW z \in HeapIds, m.heaps[z].live, NEW n \in Nat \ {0},
         HeapAlloc(m, z, n).ok
  PROVE  Served(m, E, z, HeapAlloc(m, z, n))
<1> DEFINE r == HeapAlloc(m, z, n)
           w == grow(m, z)
<1>1. CASE n > HEAP_ALLOCATION_THRESHOLD
  <2>1. r = external_alloc(m, z, n)
    BY <1>1 DEF HeapAlloc
  <2> HIDE DEF r
  <2>2. external_alloc(m, z, n).ok
    BY <2>1 DEF r
  <2> QED BY <2>1, <2>2, ExternalKeeps DEF Served, r
<1>2. CASE ~(n > HEAP_ALLOCATION_THRESHOLD) /\ Candidates(m.heaps[z].unused, n) # {}
  <2>1. HeapAlloc(m, z, n) = small_alloc(m, z, n)
    BY <1>2 DEF HeapAlloc
  <2> QED BY <1>2, <2>1, SmallKeeps DEF Served
<1>3. CASE ~(n > HEAP_ALLOCATION_THRESHOLD) /\ Candidates(m.heaps[z].unused, n) = {}
  <2>1. HeapAlloc(m, z, n) = IF w.ok THEN small_alloc(w.mem, z, n) ELSE w
    BY <1>3 DEF HeapAlloc, refilled_alloc
  <2>2. w.ok /\ HeapAlloc(m, z, n) = small_alloc(w.mem, z, n)
    BY <2>1
  <2>3. /\ OwnInv(w.mem, E) /\ OthersSame(m, w.mem, z) /\ w.mem.heaps[z].live
        /\ \E c \in w.mem.heaps[z].unused : HEAP_CHUNK_SIZE <= c.size
    BY <2>2, GrowKeeps
  <2> DEFINE v == w.mem
             S == v.heaps[z].unused
  <2> HIDE DEF w
  <2>4. ASSUME UnmapsOnlyMapped PROVE Candidates(S, n) # {}
    <3>1. ChunkSet(S)
      BY <2>3, <2>4 DEF OwnInv, Owned, HeapInv
    <3>2. PICK c \in S : HEAP_CHUNK_SIZE <= c.size
      BY <2>3
    <3>3. c.size \in Nat /\ S \subseteq Chunks
      BY <3>1, ChunkFacts DEF ChunkSet
    <3>4. n <= c.size
      BY <1>3, <3>2, <3>3, SizesAssumption
    <3> HIDE DEF S
    <3> QED BY <3>3, <3>4, CandidatesFacts
  <2> HIDE DEF v
  <2>5. /\ OwnInv(small_alloc(v, z, n).mem, E) /\ OthersSame(v, small_alloc(v, z, n).mem, z)
        /\ small_alloc(v, z, n).mem.heaps[z].live
        /\ UnmapsOnlyMapped => small_alloc(v, z, n).chunk.base \in Nat
    <3>1. OwnInv(v, E) /\ v.heaps[z].live
      BY <2>3 DEF v
    <3> QED BY <2>4, <3>1, SmallKeeps
  <2>6. OthersSame(m, small_alloc(v, z, n).mem, z)
    BY <2>3, <2>5 DEF OthersSame, v
  <2> QED BY <2>2, <2>5, <2>6 DEF Served, v
<1> QED BY <1>1, <1>2, <1>3

\* No request is for nothing once it is aligned
LEMMA AlignedFacts ==
  ASSUME NEW n \in Nat
  PROVE  Aligned(n) \in Nat \ {0}
<1> DEFINE k == IF n < MIN_CHUNK_SIZE THEN MIN_CHUNK_SIZE ELSE n
<1>1. MIN_CHUNK_SIZE \in Nat \ {0}
  BY SizesAssumption
<1>2. k \in Nat \ {0}
  BY <1>1
<1>3. Aligned(n) = next_multiple_of(k, MIN_CHUNK_SIZE)
  BY DEF Aligned
<1> HIDE DEF k
<1>4. next_multiple_of(k, MIN_CHUNK_SIZE) \in Nat /\ k <= next_multiple_of(k, MIN_CHUNK_SIZE)
  BY <1>1, <1>2, Rounding
<1> QED BY <1>2, <1>3, <1>4

\* Mem::alloc_in_heap
LEMMA AllocKeeps ==
  ASSUME NEW m, NEW E, OwnInv(m, E), NEW z \in HeapIds, NEW n \in Nat, alloc(m, z, n).ok
  PROVE  Served(m, E, z, alloc(m, z, n))
<1> DEFINE w == with_heap(m, z)  k == Aligned(n)  v == w.mem
<1>1. alloc(m, z, n) = IF w.ok THEN HeapAlloc(v, z, k) ELSE w
  BY DEF alloc, heap_alloc
<1>2. w.ok /\ alloc(m, z, n) = HeapAlloc(v, z, k)
  BY <1>1
<1>3. OwnInv(v, E) /\ OthersSame(m, v, z) /\ v.heaps[z].live
  BY <1>2, WithHeapKeeps
<1>4. k \in Nat \ {0}
  BY AlignedFacts
<1> HIDE DEF v, k
<1>5. Served(v, E, z, HeapAlloc(v, z, k))
  BY <1>2, <1>3, <1>4, HeapAllocKeeps
<1>6. Served(m, E, z, HeapAlloc(v, z, k))
  BY <1>3, <1>5 DEF Served, OthersSame
<1> QED BY <1>2, <1>6

\* A chunk of whole pages is what the page allocator makes of it
LEMMA PagedRange ==
  ASSUME NEW c \in Chunks, Paged(c)
  PROVE  PageRange(c.base, c.size) = c
<1>1. c.base \in Nat /\ c.size \in Nat \ {0} /\ c = Chunk(c.base, c.size)
  BY ChunkFacts
<1> DEFINE r == PageRange(c.base, c.size)
<1>2. r \in Chunks /\ r.base = c.base /\ r.size = c.size
  BY <1>1, PageRangeFacts DEF Paged
<1> HIDE DEF r
<1>3. r = Chunk(r.base, r.size)
  BY <1>2, ChunkFacts
<1> QED BY <1>1, <1>2, <1>3 DEF r

\* A chunk of whole pages that is no heap's may be freed
LEMMA ChunkFreedKeeps ==
  ASSUME NEW m, NEW E, OwnInv(m, E), NEW c \in Chunks, Paged(c), Bytes(c) \subseteq Space,
         UnmapsOnlyMapped => \A z \in HeapIds : Bytes(c) \cap PagesOf(m.heaps[z]) = {}
  PROVE  /\ OwnInv(deallocate(m, c.base, c.size), E \ Bytes(c))
         /\ deallocate(m, c.base, c.size).heaps = m.heaps
         /\ Bytes(c) \subseteq Covered(deallocate(m, c.base, c.size).vm.unused)
<1>1. PICK a \in Nat, n \in Nat \ {0} : a = c.base /\ n = c.size
  BY ChunkFacts
<1>2. PageRange(a, n) = c
  BY <1>1, PagedRange
<1>3. /\ Bytes(PageRange(a, n)) \subseteq Space
      /\ UnmapsOnlyMapped => \A z \in HeapIds : Bytes(PageRange(a, n)) \cap PagesOf(m.heaps[z]) = {}
  BY <1>2
<1>4. /\ OwnInv(deallocate(m, a, n), E \ Bytes(PageRange(a, n)))
      /\ deallocate(m, a, n).heaps = m.heaps
      /\ Bytes(PageRange(a, n)) \subseteq Covered(deallocate(m, a, n).vm.unused)
  BY <1>3, DeallocatedKeeps
<1> QED BY <1>1, <1>2, <1>4

\* Nothing is said of who owns what if the guest is careless
LEMMA AnyOwner ==
  ASSUME NEW m, NEW E, OwnInv(m, E), NEW F, UnmapsOnlyMapped => E = F
  PROVE  OwnInv(m, F)
BY DEF OwnInv

\* HeapAllocator::free merges with one neighbour at the most, and with one that is there
LEMMA HeapJoinedAdjoins ==
  ASSUME NEW S, ChunkSet(S), NEW c \in Chunks
  PROVE  Adjoins(S, c, HeapJoined(S, c))
<1> DEFINE J == HeapJoined(S, c)
<1>1. \/ with_base(S, last_byte(c) + 1) = {}
      \/ \E d \in S : with_base(S, last_byte(c) + 1) = {d} /\ d.base = last_byte(c) + 1
  BY Neighbours
<1>2. with_end(S, c.base) = {} \/ \E d \in S : with_end(S, c.base) = {d} /\ last_byte(d) + 1 = c.base
  BY Neighbours
<1>3. CASE with_base(S, last_byte(c) + 1) # {}
  <2>1. J = with_base(S, last_byte(c) + 1)
    BY <1>3 DEF HeapJoined
  <2> HIDE DEF J
  <2>2. \E d \in S : J = {d} /\ last_byte(c) + 1 = d.base
    BY <1>1, <1>3, <2>1
  <2>3. Adjoins(S, c, J)
    BY <2>2 DEF Adjoins
  <2> QED BY <2>3 DEF J
<1>4. CASE with_base(S, last_byte(c) + 1) = {}
  <2>1. J = with_end(S, c.base)
    BY <1>4 DEF HeapJoined
  <2> HIDE DEF J
  <2>2. J = {} \/ \E d \in S : J = {d} /\ last_byte(d) + 1 = c.base
    BY <1>2, <2>1
  <2>3. Adjoins(S, c, J)
    BY <2>2 DEF Adjoins
  <2> QED BY <2>3 DEF J
<1> QED BY <1>3, <1>4

\* A large allocation goes back to the page allocator
LEMMA FreeExternal ==
  ASSUME NEW m, NEW E, OwnInv(m, E), NEW z \in HeapIds, NEW b, with_base(m.heaps[z].external, b) # {}
  PROVE  OwnInv(free(m, z, b), E) /\ OthersSame(m, free(m, z, b), z)
<1> DEFINE h == m.heaps[z]
           ext == with_base(h.external, b)
           c == CHOOSE d \in ext : TRUE
           B == Bytes(c)
           external == h.external \ ext
           F == E \cup B
<1>1. PICK g : g = Heap(h.used, h.unused, external, h.backing)
  OBVIOUS
<1>2. free(m, z, b) = deallocate(put(m, z, g), c.base, c.size)
  BY <1>1 DEF free
<1>3. c \in ext /\ ext \subseteq h.external
  BY DEF with_base
<1>4. HeapShape(h) /\ (UnmapsOnlyMapped => HeapInv(h) /\ PagesOf(h) \cap E = {})
  BY DEF OwnInv, Owned
<1> HIDE DEF h
<1>5. ASSUME UnmapsOnlyMapped PROVE ext = {c}
  <2>1. ChunkSet(h.external)
    BY <1>4, <1>5 DEF HeapInv
  <2>2. c \in Chunks
    BY <1>3, <2>1 DEF ChunkSet
  <2>3. ext = {} \/ \E d \in h.external : ext = {d}
    BY <2>1, <2>2, Neighbours
  <2> QED BY <1>3, <2>3
<1> HIDE DEF c, ext
<1>6. c \in Chunks /\ Paged(c) /\ B \subseteq Space
  BY <1>3, <1>4 DEF HeapShape, PagesIn
<1>7. /\ g.live /\ g.used = h.used /\ g.unused = h.unused /\ g.external = external /\ g.backing = h.backing
      /\ g = [live |-> g.live, used |-> g.used, unused |-> g.unused, external |-> g.external, backing |-> g.backing]
  <2> HIDE DEF external
  <2> QED BY <1>1, HeapHas
<1>8. HeapShape(g)
  <2>1. PagesIn(h.backing) /\ PagesIn(external)
    <3>1. PagesIn(h.backing) /\ PagesIn(h.external)
      BY <1>4 DEF HeapShape
    <3>2. IsFiniteSet(external)
      BY <3>1, FS_Difference DEF PagesIn
    <3> QED BY <3>1, <3>2 DEF PagesIn
  <2> QED BY <1>7, <2>1 DEF HeapShape
<1>9. ASSUME UnmapsOnlyMapped
      PROVE  HeapInv(g) /\ PagesOf(g) \cap F = {} /\ PagesOf(g) \cup F = PagesOf(h) \cup E /\ E \cap B = {}
  <2>1. /\ ChunkSet(h.used) /\ ChunkSet(h.unused) /\ ChunkSet(h.external)
        /\ Covered(h.used) \cap Covered(h.unused) = {} /\ Covered(h.used) \cup Covered(h.unused) = Covered(h.backing)
        /\ Covered(h.backing) \cap Covered(h.external) = {}
    BY <1>4, <1>9 DEF HeapInv
  <2>2. ext = {c} /\ Covered({c}) = B /\ B \subseteq Covered(h.external)
    BY <1>3, <1>5, <1>9, CoveredSets, InCovered
  <2>3. ChunkSet(external) /\ Covered(external) = Covered(h.external) \ B
    <3>1. ext \in SUBSET h.external
      BY <1>3
    <3>2. Covered(external) = Covered(h.external) \ Covered(ext)
      BY <2>1, <3>1, SubsetFacts
    <3>3. ChunkSet(external)
      BY <2>1, SubsetFacts
    <3> QED BY <2>2, <3>2, <3>3
  <2>4. B \cap E = {} /\ B \cap Covered(h.backing) = {}
    BY <1>4, <1>9, <2>1, <2>2 DEF PagesOf
  <2>5. HeapInv(g)
    BY <1>7, <2>1, <2>3 DEF HeapInv
  <2>6. PagesOf(g) = PagesOf(h) \ B /\ B \subseteq PagesOf(h)
    BY <1>7, <2>2, <2>3, <2>4 DEF PagesOf
  <2> QED BY <1>4, <1>9, <2>4, <2>5, <2>6
<1> HIDE DEF F
<1> DEFINE n == put(m, z, g)
<1>10. /\ OwnInv(n, F) /\ n.heaps[z] = g
       /\ \A y \in HeapIds : y # z => n.heaps[y] = m.heaps[y]
  BY <1>8, <1>9, PutKeeps DEF h
<1> HIDE DEF n
<1>12. UnmapsOnlyMapped => \A y \in HeapIds : B \cap PagesOf(n.heaps[y]) = {}
  <2>1. UnmapsOnlyMapped => \A y \in HeapIds : PagesOf(n.heaps[y]) \cap F = {}
    BY <1>10 DEF OwnInv, Owned
  <2> QED BY <2>1 DEF F
<1>13. OwnInv(deallocate(n, c.base, c.size), F \ B) /\ deallocate(n, c.base, c.size).heaps = n.heaps
  BY <1>6, <1>10, <1>12, ChunkFreedKeeps
<1>14. UnmapsOnlyMapped => F \ B = E
  BY <1>9 DEF F
<1>15. OwnInv(deallocate(n, c.base, c.size), E)
  BY <1>13, <1>14, AnyOwner
<1> QED BY <1>2, <1>10, <1>13, <1>15 DEF OthersSame, n

\* A small one is merged with a free neighbour in the heap
LEMMA FreeOwn ==
  ASSUME NEW m, NEW E, OwnInv(m, E), NEW z \in HeapIds, NEW b,
         with_base(m.heaps[z].external, b) = {}, with_base(m.heaps[z].used, b) # {}
  PROVE  OwnInv(free(m, z, b), E) /\ OthersSame(m, free(m, z, b), z)
<1> DEFINE h == m.heaps[z]
           own == with_base(h.used, b)
           c == CHOOSE d \in own : TRUE
           S == h.unused
           J == HeapJoined(S, c)
           used == h.used \ own
           unused == (S \ J) \cup {merge_found(c, J)}
<1>1. PICK g : g = Heap(used, unused, h.external, h.backing)
  OBVIOUS
<1>2. free(m, z, b) = put(m, z, g)
  BY <1>1 DEF free
<1>3. c \in own /\ own \subseteq h.used
  BY DEF with_base
<1>4. HeapShape(h) /\ (UnmapsOnlyMapped => HeapInv(h) /\ PagesOf(h) \cap E = {})
  BY DEF OwnInv, Owned
<1> HIDE DEF h
<1>5. ASSUME UnmapsOnlyMapped PROVE own = {c} /\ c \in Chunks
  <2>1. ChunkSet(h.used)
    BY <1>4, <1>5 DEF HeapInv
  <2>2. c \in Chunks
    BY <1>3, <2>1 DEF ChunkSet
  <2>3. own = {} \/ \E d \in h.used : own = {d}
    BY <2>1, <2>2, Neighbours
  <2> QED BY <1>3, <2>2, <2>3
<1> HIDE DEF c, own
<1>6. /\ g.live /\ g.used = used /\ g.unused = unused /\ g.external = h.external /\ g.backing = h.backing
      /\ g = [live |-> g.live, used |-> g.used, unused |-> g.unused, external |-> g.external, backing |-> g.backing]
  <2> HIDE DEF used, unused
  <2> QED BY <1>1, HeapHas
<1>7. HeapShape(g)
  <2>1. PagesIn(h.backing) /\ PagesIn(h.external)
    BY <1>4 DEF HeapShape
  <2> QED BY <1>6, <2>1 DEF HeapShape
<1>8. ASSUME UnmapsOnlyMapped
      PROVE  HeapInv(g) /\ PagesOf(g) \cap E = {} /\ PagesOf(g) \cup E = PagesOf(h) \cup E
  <2>1. /\ ChunkSet(h.used) /\ ChunkSet(S) /\ ChunkSet(h.external)
        /\ Covered(h.used) \cap Covered(S) = {} /\ Covered(h.used) \cup Covered(S) = Covered(h.backing)
        /\ Covered(h.backing) \cap Covered(h.external) = {}
    BY <1>4, <1>8 DEF HeapInv
  <2>2. own = {c} /\ Covered({c}) = Bytes(c) /\ Bytes(c) \subseteq Covered(h.used) /\ c \in Chunks
    BY <1>3, <1>5, <1>8, CoveredSets, InCovered
  <2>3. ChunkSet(used) /\ Covered(used) = Covered(h.used) \ Bytes(c)
    <3>1. own \in SUBSET h.used
      BY <1>3
    <3>2. Covered(used) = Covered(h.used) \ Covered(own)
      BY <2>1, <3>1, SubsetFacts
    <3>3. ChunkSet(used)
      BY <2>1, SubsetFacts
    <3> QED BY <2>2, <3>2, <3>3
  <2>4. Bytes(c) \cap Covered(S) = {}
    BY <2>1, <2>2
  <2> HIDE DEF S
  <2>5. Adjoins(S, c, J)
    BY <2>1, <2>2, HeapJoinedAdjoins
  <2> DEFINE k == merge_found(c, J)  T == S \ J
  <2> HIDE DEF J
  <2>6. MergeMakes(S, c, J)
    BY <2>1, <2>2, <2>4, <2>5, MergedIn
  <2>7. /\ k \in Chunks /\ Bytes(k) = Bytes(c) \cup Covered(J)
        /\ ChunkSet(T) /\ Covered(T) = Covered(S) \ Covered(J)
        /\ Bytes(k) \cap Covered(T) = {} /\ Covered(J) \subseteq Covered(S)
    BY <2>6 DEF MergeMakes
  <2> HIDE DEF k, T
  <2>8. ChunkSet(T \cup {k}) /\ Covered(T \cup {k}) = Covered(T) \cup Bytes(k)
    BY <2>7, AddFacts
  <2>9. unused = T \cup {k}
    BY DEF T, k
  <2>10. ChunkSet(unused) /\ Covered(unused) = Covered(S) \cup Bytes(c)
    BY <2>7, <2>8, <2>9
  <2> HIDE DEF unused, used
  <2>11. Covered(used) \cap Covered(unused) = {} /\ Covered(used) \cup Covered(unused) = Covered(h.backing)
    BY <2>1, <2>2, <2>3, <2>10
  <2>12. HeapInv(g)
    BY <1>6, <2>1, <2>3, <2>10, <2>11 DEF HeapInv
  <2>13. PagesOf(g) = PagesOf(h)
    BY <1>6 DEF PagesOf
  <2> QED BY <1>4, <1>8, <2>12, <2>13
<1>9. /\ OwnInv(put(m, z, g), E) /\ put(m, z, g).heaps[z] = g
      /\ \A y \in HeapIds : y # z => put(m, z, g).heaps[y] = m.heaps[y]
  BY <1>7, <1>8, PutKeeps DEF h
<1> QED BY <1>2, <1>9 DEF OthersSame

\* HeapAllocator::free of any address, also of one it does not know
LEMMA FreeKeeps ==
  ASSUME NEW m, NEW E, OwnInv(m, E), NEW z \in HeapIds, NEW b
  PROVE  OwnInv(free(m, z, b), E) /\ OthersSame(m, free(m, z, b), z)
<1>1. CASE with_base(m.heaps[z].external, b) # {}
  BY <1>1, FreeExternal
<1>2. CASE with_base(m.heaps[z].external, b) = {} /\ with_base(m.heaps[z].used, b) # {}
  BY <1>2, FreeOwn
<1>3. CASE with_base(m.heaps[z].external, b) = {} /\ with_base(m.heaps[z].used, b) = {}
  <2>1. free(m, z, b) = m
    BY <1>3 DEF free
  <2> QED BY <2>1 DEF OthersSame
<1> QED BY <1>1, <1>2, <1>3

\* Mem::realloc_in_heap, in place or by moving
LEMMA ReallocKeeps ==
  ASSUME NEW m, NEW E, OwnInv(m, E), NEW z \in HeapIds, NEW b, NEW n \in Nat, realloc(m, z, b, n).ok
  PROVE  OwnInv(realloc(m, z, b, n).mem, E) /\ OthersSame(m, realloc(m, z, b, n).mem, z)
<1> DEFINE r == alloc(m, z, n)
<1>1. CASE allocated_size(m, z, b) >= n
  <2>1. realloc(m, z, b, n).mem = m
    BY <1>1 DEF realloc, Got
  <2> QED BY <2>1 DEF OthersSame
<1>2. CASE ~(allocated_size(m, z, b) >= n)
  <2>1. realloc(m, z, b, n) = IF r.ok THEN Got(free(r.mem, z, b), r.chunk) ELSE r
    BY <1>2 DEF realloc, moved
  <2>2. r.ok /\ realloc(m, z, b, n).mem = free(r.mem, z, b)
    BY <2>1 DEF Got
  <2>3. OwnInv(r.mem, E) /\ OthersSame(m, r.mem, z)
    BY <2>2, AllocKeeps DEF Served
  <2> HIDE DEF r
  <2>4. OwnInv(free(r.mem, z, b), E) /\ OthersSame(r.mem, free(r.mem, z, b), z)
    BY <2>3, FreeKeeps
  <2> QED BY <2>2, <2>3, <2>4 DEF OthersSame
<1> QED BY <1>1, <1>2

-----------------------------------------------------------------------------
(***************************************************************************)
(* Going through the chunks of a set, one after the other.                 *)
(***************************************************************************)
LEMMA ListsSet ==
  ASSUME NEW S, IsFiniteSet(S), NEW cs, cs = SetToSeq(S)
  PROVE  /\ Len(cs) \in Nat /\ \A i \in 1 .. Len(cs) : cs[i] \in S
         /\ \A i, j \in 1 .. Len(cs) : cs[i] = cs[j] => i = j
         /\ \A c \in S : \E i \in 1 .. Len(cs) : cs[i] = c
<1> DEFINE n == Cardinality(S)
<1>1. n \in Nat /\ ExistsBijection(1 .. n, S)
  BY FS_CardinalityType
<1>2. cs = CHOOSE f \in [1 .. n -> S] : IsInjective(f)
  BY DEF SetToSeq
<1>3. Cardinality(1 .. n) = n
  <2>1. Cardinality(1 .. n) = IF 1 > n THEN 0 ELSE n - 1 + 1
    BY <1>1, FS_Interval
  <2> QED BY <1>1, <2>1
<1> HIDE DEF n
<1>4. \E f \in [1 .. n -> S] : IsInjective(f)
  BY <1>1 DEF ExistsBijection, Bijection, Injection
<1>5. cs \in [1 .. n -> S] /\ IsInjective(cs)
  BY <1>2, <1>4
<1>6. Len(cs) = n /\ DOMAIN cs = 1 .. n
  BY <1>1, <1>5
<1>7. cs \in Injection(1 .. n, S)
  BY <1>5 DEF Injection
<1>8. cs \in Surjection(1 .. n, S)
  BY <1>3, <1>7, FS_Injection DEF n
<1> QED BY <1>1, <1>5, <1>6, <1>8 DEF IsInjective, Surjection

\* f is the history of freeing the first n chunks of cs
Freeing(f, n, m, cs) ==
  f = [i \in 0 .. n |-> IF i = 0 THEN m ELSE deallocate(f[i - 1], cs[i].base, cs[i].size)]

\* There is a function that frees a list of chunks one after the other
LEMMA FreeingExists ==
  ASSUME NEW m, NEW cs, NEW n \in Nat
  PROVE  \E f : Freeing(f, n, m, cs)
<1> DEFINE bad == {k \in Nat : ~\E f : Freeing(f, k, m, cs)}
<1> SUFFICES ASSUME bad # {} PROVE FALSE
  OBVIOUS
<1>1. PICK k \in bad : \A j \in bad : k <= j
  BY LeastExists
<1>2. k \in Nat /\ (\A f : ~Freeing(f, k, m, cs)) /\ \A j \in Nat : j < k => \E f : Freeing(f, j, m, cs)
  BY <1>1
<1> HIDE DEF bad
<1>3. k # 0
  <2> SUFFICES ASSUME k = 0 PROVE FALSE
    OBVIOUS
  <2>1. PICK f : f = [i \in 0 .. 0 |-> m]
    OBVIOUS
  <2>2. f = [i \in 0 .. 0 |-> IF i = 0 THEN m ELSE deallocate(f[i - 1], cs[i].base, cs[i].size)]
    BY <2>1
  <2> QED BY <1>2, <2>2 DEF Freeing
<1>4. PICK f : Freeing(f, k - 1, m, cs)
  BY <1>2, <1>3
<1>5. /\ DOMAIN f = 0 .. k - 1
      /\ \A i \in 0 .. k - 1 : f[i] = IF i = 0 THEN m ELSE deallocate(f[i - 1], cs[i].base, cs[i].size)
  BY <1>4, Zenon DEF Freeing
<1>6. PICK g : g = [i \in 0 .. k |-> IF i < k THEN f[i] ELSE deallocate(f[k - 1], cs[k].base, cs[k].size)]
  OBVIOUS
<1>7. \A i \in 0 .. k - 1 : g[i] = f[i]
  BY <1>2, <1>6
<1>8. ASSUME NEW i \in 0 .. k
      PROVE  g[i] = IF i = 0 THEN m ELSE deallocate(g[i - 1], cs[i].base, cs[i].size)
  <2>1. CASE i < k
    <3>1. g[i] = f[i]
      BY <1>2, <1>7, <2>1
    <3>2. i # 0 => g[i - 1] = f[i - 1]
      BY <1>2, <1>7, <2>1
    <3>3. f[i] = IF i = 0 THEN m ELSE deallocate(f[i - 1], cs[i].base, cs[i].size)
      BY <1>2, <1>5, <2>1
    <3> QED BY <3>1, <3>2, <3>3
  <2>2. CASE ~(i < k)
    <3>1. i = k
      BY <1>2, <2>2
    <3>2. g[k] = deallocate(f[k - 1], cs[k].base, cs[k].size)
      BY <1>2, <1>6
    <3>3. g[k - 1] = f[k - 1]
      BY <1>2, <1>3, <1>7
    <3> QED BY <1>3, <3>1, <3>2, <3>3
  <2> QED BY <2>1, <2>2
<1>9. g = [i \in 0 .. k |-> IF i = 0 THEN m ELSE deallocate(g[i - 1], cs[i].base, cs[i].size)]
  BY <1>6, <1>8
<1>10. Freeing(g, k, m, cs)
  BY <1>9 DEF Freeing
<1> QED BY <1>2, <1>10

\* all_freed is what that function yields
LEMMA AllFreedIs ==
  ASSUME NEW m, NEW cs, Len(cs) \in Nat
  PROVE  \E f : Freeing(f, Len(cs), m, cs) /\ all_freed(m, cs) = f[Len(cs)]
<1>1. \E f : Freeing(f, Len(cs), m, cs)
  BY FreeingExists
<1>2. PICK f : f = CHOOSE g : g = [i \in 0 .. Len(cs) |->
                       IF i = 0 THEN m ELSE deallocate(g[i - 1], cs[i].base, cs[i].size)]
  OBVIOUS
<1>3. Freeing(f, Len(cs), m, cs)
  BY <1>1, <1>2, Zenon DEF Freeing
<1>4. all_freed(m, cs) = f[Len(cs)]
  BY <1>2, Zenon DEF all_freed
<1> QED BY <1>3, <1>4

\* The bytes of the first i chunks of cs
FirstBytes(cs, i) == UNION {Bytes(cs[j]) : j \in 1 .. i}

\* The bytes of the first k chunks, one chunk at a time
LEMMA FirstBytesStep ==
  ASSUME NEW cs, NEW k \in Nat \ {0}
  PROVE  FirstBytes(cs, 0) = {} /\ FirstBytes(cs, k) = FirstBytes(cs, k - 1) \cup Bytes(cs[k])
<1>1. FirstBytes(cs, 0) = {}
  BY DEF FirstBytes
<1>2. \A i \in Nat : \A b : b \in FirstBytes(cs, i) <=> \E j \in 1 .. i : b \in Bytes(cs[j])
  BY DEF FirstBytes
<1>3. \A j : j \in 1 .. k <=> j \in 1 .. k - 1 \/ j = k
  OBVIOUS
<1>4. \A b : b \in FirstBytes(cs, k) <=> b \in FirstBytes(cs, k - 1) \/ b \in Bytes(cs[k])
  <2>1. k \in Nat /\ k - 1 \in Nat
    OBVIOUS
  <2> QED BY <1>2, <1>3, <2>1, Zenon
<1> QED BY <1>1, <1>4

\* Chunks that are no heap's may be freed one after the other
LEMMA FreeingKeeps ==
  ASSUME NEW n, NEW F, OwnInv(n, F), NEW S, PagesIn(S),
         UnmapsOnlyMapped => \A z \in HeapIds : Covered(S) \cap PagesOf(n.heaps[z]) = {}
  PROVE  OwnInv(all_freed(n, SetToSeq(S)), F \ Covered(S)) /\ all_freed(n, SetToSeq(S)).heaps = n.heaps
<1>1. PICK cs : cs = SetToSeq(S)
  OBVIOUS
<1>2. /\ Len(cs) \in Nat /\ \A i \in 1 .. Len(cs) : cs[i] \in S
      /\ \A c \in S : \E i \in 1 .. Len(cs) : cs[i] = c
  BY <1>1, ListsSet DEF PagesIn
<1>3. PICK f : Freeing(f, Len(cs), n, cs) /\ all_freed(n, cs) = f[Len(cs)]
  BY <1>2, AllFreedIs
<1>4. \A i \in 0 .. Len(cs) : f[i] = IF i = 0 THEN n ELSE deallocate(f[i - 1], cs[i].base, cs[i].size)
  BY <1>3, Zenon DEF Freeing
<1> DEFINE good(k) == OwnInv(f[k], F \ FirstBytes(cs, k)) /\ f[k].heaps = n.heaps
           bad == {k \in 0 .. Len(cs) : ~good(k)}
<1>5. good(0)
  <2>1. f[0] = n
    BY <1>2, <1>4
  <2>2. FirstBytes(cs, 0) = {}
    BY FirstBytesStep
  <2>3. F \ FirstBytes(cs, 0) = F
    BY <2>2
  <2> QED BY <2>1, <2>3
<1>6. ASSUME NEW k \in 1 .. Len(cs), good(k - 1) PROVE good(k)
  <2> DEFINE w == f[k - 1]  c == cs[k]  G == F \ FirstBytes(cs, k - 1)
  <2>1. c \in S /\ k \in 0 .. Len(cs) /\ k # 0 /\ k \in Nat \ {0}
    BY <1>2
  <2>2. f[k] = deallocate(w, c.base, c.size)
    BY <1>4, <2>1
  <2>3. OwnInv(w, G) /\ w.heaps = n.heaps
    BY <1>6
  <2> HIDE DEF w, G, c
  <2>4. c \in Chunks /\ Paged(c) /\ Bytes(c) \subseteq Space
    BY <2>1 DEF PagesIn
  <2>5. UnmapsOnlyMapped => \A z \in HeapIds : Bytes(c) \cap PagesOf(w.heaps[z]) = {}
    <3>1. Bytes(c) \subseteq Covered(S)
      BY <2>1, InCovered
    <3> QED BY <2>3, <3>1
  <2>6. /\ OwnInv(deallocate(w, c.base, c.size), G \ Bytes(c))
        /\ deallocate(w, c.base, c.size).heaps = w.heaps
    BY <2>3, <2>4, <2>5, ChunkFreedKeeps
  <2>7. G \ Bytes(c) = F \ FirstBytes(cs, k)
    <3>1. FirstBytes(cs, k) = FirstBytes(cs, k - 1) \cup Bytes(c)
      BY <2>1, FirstBytesStep DEF c
    <3> QED BY <3>1 DEF G
  <2> QED BY <2>2, <2>3, <2>6, <2>7
<1> HIDE DEF good
<1>7. bad = {}
  <2> SUFFICES ASSUME bad # {} PROVE FALSE
    OBVIOUS
  <2>1. bad \subseteq Nat
    BY <1>2
  <2>2. PICK k \in bad : \A j \in bad : k <= j
    BY <2>1, LeastExists
  <2>3. k \in 0 .. Len(cs) /\ ~good(k)
    BY <2>2
  <2>4. k # 0
    BY <1>5, <2>3
  <2>5. k \in 1 .. Len(cs) /\ k - 1 \in 0 .. Len(cs) /\ ~(k <= k - 1)
    BY <1>2, <2>3, <2>4
  <2>6. k - 1 \notin bad
    BY <2>2, <2>5
  <2>7. good(k - 1)
    BY <2>5, <2>6
  <2> QED BY <1>6, <2>3, <2>5, <2>7
<1>8. good(Len(cs))
  BY <1>2, <1>7
<1>9. FirstBytes(cs, Len(cs)) = Covered(S)
  <2>1. \A b : b \in FirstBytes(cs, Len(cs)) <=> \E j \in 1 .. Len(cs) : b \in Bytes(cs[j])
    BY DEF FirstBytes
  <2>2. \A b : b \in FirstBytes(cs, Len(cs)) <=> \E c \in S : b \in Bytes(c)
    BY <1>2, <2>1, Zenon
  <2>3. \A b : b \in FirstBytes(cs, Len(cs)) <=> b \in Covered(S)
    BY <2>2, InCovered, Zenon
  <2> QED BY <2>3
<1> QED BY <1>1, <1>3, <1>8, <1>9 DEF good

\* Mem::destroy_heap gives back all that the heap had and nothing else
LEMMA DestroyKeeps ==
  ASSUME NEW m, NEW E, OwnInv(m, E), NEW z \in HeapIds
  PROVE  /\ OwnInv(destroy_heap(m, z), E) /\ OthersSame(m, destroy_heap(m, z), z)
         /\ destroy_heap(m, z).heaps[z] = NoHeap
<1> DEFINE h == m.heaps[z]
           S == h.external \cup h.backing
           P == PagesOf(h)
           F == E \cup P
           n == put(m, z, NoHeap)
           d == all_freed(n, SetToSeq(S))
<1>1. destroy_heap(m, z) = d
  BY DEF destroy_heap, vm_chunks
<1>2. HeapShape(h) /\ (UnmapsOnlyMapped => P \cap E = {})
  BY DEF OwnInv, Owned
<1>3. HeapShape(NoHeap) /\ HeapInv(NoHeap) /\ PagesOf(NoHeap) = {}
  BY NoHeapFacts
<1>4. PagesOf(NoHeap) \cap F = {} /\ PagesOf(NoHeap) \cup F = PagesOf(h) \cup E
  BY <1>3
<1> HIDE DEF F
<1>5. /\ OwnInv(n, F) /\ n.heaps[z] = NoHeap
      /\ \A y \in HeapIds : y # z => n.heaps[y] = m.heaps[y]
  BY <1>3, <1>4, PutKeeps
<1> HIDE DEF n, h
<1>6. PagesIn(S)
  <2>1. PagesIn(h.external) /\ PagesIn(h.backing)
    BY <1>2 DEF HeapShape
  <2>2. IsFiniteSet(S)
    BY <2>1, FS_Union DEF PagesIn
  <2> QED BY <2>1, <2>2 DEF PagesIn
<1>7. Covered(S) = P
  BY CoveredSets DEF PagesOf
<1> HIDE DEF S, P
<1>8. UnmapsOnlyMapped => \A y \in HeapIds : Covered(S) \cap PagesOf(n.heaps[y]) = {}
  <2>1. UnmapsOnlyMapped => \A y \in HeapIds : PagesOf(n.heaps[y]) \cap F = {}
    BY <1>5 DEF OwnInv, Owned
  <2> QED BY <1>7, <2>1 DEF F
<1>9. OwnInv(d, F \ Covered(S)) /\ d.heaps = n.heaps
  BY <1>5, <1>6, <1>8, FreeingKeeps
<1>10. UnmapsOnlyMapped => F \ Covered(S) = E
  BY <1>2, <1>7 DEF F
<1> HIDE DEF d
<1>11. OwnInv(d, E)
  BY <1>9, <1>10, AnyOwner
<1> QED BY <1>1, <1>5, <1>9, <1>11 DEF OthersSame

-----------------------------------------------------------------------------
(***************************************************************************)
(* Loading the binary: its segments are reserved one after the other.      *)
(***************************************************************************)
Reserving(f, n, m, cs) ==
  f = [i \in 0 .. n |-> IF i = 0 THEN m ELSE allocate_here(f[i - 1], cs[i].base, cs[i].size).mem]

\* There is a function that reserves a list of chunks one after the other
LEMMA ReservingExists ==
  ASSUME NEW m, NEW cs, NEW n \in Nat
  PROVE  \E f : Reserving(f, n, m, cs)
<1> DEFINE bad == {k \in Nat : ~\E f : Reserving(f, k, m, cs)}
<1> SUFFICES ASSUME bad # {} PROVE FALSE
  OBVIOUS
<1>1. PICK k \in bad : \A j \in bad : k <= j
  BY LeastExists
<1>2. k \in Nat /\ (\A f : ~Reserving(f, k, m, cs)) /\ \A j \in Nat : j < k => \E f : Reserving(f, j, m, cs)
  BY <1>1
<1> HIDE DEF bad
<1>3. k # 0
  <2> SUFFICES ASSUME k = 0 PROVE FALSE
    OBVIOUS
  <2>1. PICK f : f = [i \in 0 .. 0 |-> m]
    OBVIOUS
  <2>2. f = [i \in 0 .. 0 |-> IF i = 0 THEN m ELSE allocate_here(f[i - 1], cs[i].base, cs[i].size).mem]
    BY <2>1
  <2> QED BY <1>2, <2>2 DEF Reserving
<1>4. PICK f : Reserving(f, k - 1, m, cs)
  BY <1>2, <1>3
<1>5. /\ DOMAIN f = 0 .. k - 1
      /\ \A i \in 0 .. k - 1 : f[i] = IF i = 0 THEN m ELSE allocate_here(f[i - 1], cs[i].base, cs[i].size).mem
  BY <1>4, Zenon DEF Reserving
<1>6. PICK g : g = [i \in 0 .. k |-> IF i < k THEN f[i] ELSE allocate_here(f[k - 1], cs[k].base, cs[k].size).mem]
  OBVIOUS
<1>7. \A i \in 0 .. k - 1 : g[i] = f[i]
  BY <1>2, <1>6
<1>8. ASSUME NEW i \in 0 .. k
      PROVE  g[i] = IF i = 0 THEN m ELSE allocate_here(g[i - 1], cs[i].base, cs[i].size).mem
  <2>1. CASE i < k
    <3>1. g[i] = f[i]
      BY <1>2, <1>7, <2>1
    <3>2. i # 0 => g[i - 1] = f[i - 1]
      BY <1>2, <1>7, <2>1
    <3>3. f[i] = IF i = 0 THEN m ELSE allocate_here(f[i - 1], cs[i].base, cs[i].size).mem
      BY <1>2, <1>5, <2>1
    <3> QED BY <3>1, <3>2, <3>3
  <2>2. CASE ~(i < k)
    <3>1. i = k
      BY <1>2, <2>2
    <3>2. g[k] = allocate_here(f[k - 1], cs[k].base, cs[k].size).mem
      BY <1>2, <1>6
    <3>3. g[k - 1] = f[k - 1]
      BY <1>2, <1>3, <1>7
    <3> QED BY <1>3, <3>1, <3>2, <3>3
  <2> QED BY <2>1, <2>2
<1>9. g = [i \in 0 .. k |-> IF i = 0 THEN m ELSE allocate_here(g[i - 1], cs[i].base, cs[i].size).mem]
  BY <1>6, <1>8
<1>10. Reserving(g, k, m, cs)
  BY <1>9 DEF Reserving
<1> QED BY <1>2, <1>10

\* all_reserved is what that function yields
LEMMA AllReservedIs ==
  ASSUME NEW m, NEW cs, Len(cs) \in Nat
  PROVE  \E f : Reserving(f, Len(cs), m, cs) /\ all_reserved(m, cs) = f[Len(cs)]
<1>1. \E f : Reserving(f, Len(cs), m, cs)
  BY ReservingExists
<1>2. PICK f : f = CHOOSE g : g = [i \in 0 .. Len(cs) |->
                       IF i = 0 THEN m ELSE allocate_here(g[i - 1], cs[i].base, cs[i].size).mem]
  OBVIOUS
<1>3. Reserving(f, Len(cs), m, cs)
  BY <1>1, <1>2, Zenon DEF Reserving
<1>4. all_reserved(m, cs) = f[Len(cs)]
  BY <1>2, Zenon DEF all_reserved
<1> QED BY <1>3, <1>4

\* A free range of pages can be had
LEMMA ReserveOne ==
  ASSUME NEW m, NEW E, OwnInv(m, E), NEW c \in Chunks, Paged(c), Bytes(c) \subseteq Covered(m.vm.unused),
         NEW n, n = allocate_here(m, c.base, c.size).mem
  PROVE  /\ OwnInv(n, E \cup Bytes(c)) /\ n.heaps = m.heaps
         /\ Covered(n.vm.used) = Covered(m.vm.used) \cup Bytes(c)
<1>1. PICK a \in Nat, k \in Nat \ {0} : a = c.base /\ k = c.size
  BY ChunkFacts
<1>2. PageRange(a, k) = c
  BY <1>1, PagedRange
<1> DEFINE r == allocate_here(m, a, k)
<1>3. IsMem(m) /\ VMInv(m.vm)
  BY DEF OwnInv
<1>4. r.ok /\ Gives(m, r) /\ r.chunk = c
  <2>1. Bytes(PageRange(a, k)) \subseteq Covered(m.vm.unused)
    BY <1>2
  <2>2. r.ok
    BY <1>3, <2>1, AllocateHereGives
  <2> QED BY <1>2, <1>3, <2>2, AllocateHereGives
<1>5. n = r.mem
  BY <1>1
<1> HIDE DEF r
<1>6. OwnInv(r.mem, E \cup Bytes(r.chunk))
  BY <1>4, AllocatedKeeps
<1>7. r.mem.heaps = m.heaps /\ Covered(r.mem.vm.used) = Covered(m.vm.used) \cup Bytes(r.chunk)
  BY <1>4 DEF Gives
<1> QED BY <1>4, <1>5, <1>6, <1>7

Unloaded == [vm |-> [used |-> {}, unused |-> {Chunk(0, STACK_LOW_END)}], heaps |-> [z \in HeapIds |-> NoHeap]]

\* Before anything is loaded all is unused
LEMMA UnloadedIs == OwnInv(Unloaded, {}) /\ Covered(Unloaded.vm.used) = {}
<1> DEFINE c == Chunk(0, STACK_LOW_END)  v == [used |-> {}, unused |-> {c}]  m == Unloaded
<1>1. STACK_LOW_END \in Nat \ {0} /\ STACK_LOW_END % PAGE_SIZE = 0 /\ PAGE_SIZE \in Nat \ {0}
  BY SizesAssumption
<1>2. c \in Chunks /\ c.base = 0 /\ c.size = STACK_LOW_END /\ last_byte(c) = STACK_LOW_END - 1
  <2>1. last_byte(c) = 0 + STACK_LOW_END - 1
    BY <1>1, ChunkIs
  <2> QED BY <1>1, <2>1, ChunkIs
<1>3. v.used = {} /\ v.unused = {c} /\ m.vm = v /\ m.heaps = [z \in HeapIds |-> NoHeap]
  BY DEF Unloaded
<1> HIDE DEF c, m
<1>4. Paged(c)
  BY <1>1, <1>2 DEF Paged, OnPage
<1>5. Bytes(c) = Space
  BY <1>1, <1>2 DEF Bytes, Space
<1>6. Covered({}) = {} /\ Covered({c}) = Bytes(c)
  BY CoveredSets
<1>7. PageSet({}) /\ PageSet({c})
  BY <1>2, <1>4 DEF PageSet, ChunkSet, PairwiseDisjoint
<1>8. Coalesced({c})
  BY <1>1, <1>2 DEF Coalesced
<1>9. VMInv(v)
  <2>1. v = [used |-> v.used, unused |-> v.unused]
    OBVIOUS
  <2> HIDE DEF v
  <2> QED BY <1>3, <1>5, <1>6, <1>7, <1>8, <2>1 DEF VMInv
<1>10. IsMem(m)
  BY DEF IsMem, m, Unloaded
<1>11. HeapShape(NoHeap) /\ HeapInv(NoHeap) /\ PagesOf(NoHeap) = {}
  BY NoHeapFacts
<1>12. \A z \in HeapIds : m.heaps[z] = NoHeap
  BY <1>3
<1>13. Covered(m.vm.used) = {}
  BY <1>3, <1>6
<1>14. Owned(m, {})
  BY <1>11, <1>12, <1>13 DEF Owned
<1>15. m.heaps = [z \in HeapIds |-> m.heaps[z]]
  BY <1>3
<1>16. OwnInv(m, {})
  <2>1. VMInv(m.vm)
    BY <1>3, <1>9
  <2>2. \A z \in HeapIds : HeapShape(m.heaps[z])
    BY <1>11, <1>12
  <2> QED BY <1>10, <1>14, <1>15, <2>1, <2>2 DEF OwnInv
<1> QED BY <1>13, <1>16 DEF m

\* When the binary is loaded its segments are used and no heap is there
LEMMA LoadedIs == OwnInv(Loaded, Covered(Reserved)) /\ Loaded.heaps = [z \in HeapIds |-> NoHeap]
<1>1. PICK cs : cs = SetToSeq(Reserved)
  OBVIOUS
<1>2. /\ Len(cs) \in Nat /\ \A i \in 1 .. Len(cs) : cs[i] \in Reserved
      /\ \A i, j \in 1 .. Len(cs) : cs[i] = cs[j] => i = j
      /\ \A c \in Reserved : \E i \in 1 .. Len(cs) : cs[i] = c
  BY <1>1, ListsSet, ReservedAssumption
<1> DEFINE n == Unloaded
<1>3. PICK f : Reserving(f, Len(cs), n, cs) /\ all_reserved(n, cs) = f[Len(cs)]
  BY <1>2, AllReservedIs
<1>4. \A i \in 0 .. Len(cs) : f[i] = IF i = 0 THEN n ELSE allocate_here(f[i - 1], cs[i].base, cs[i].size).mem
  BY <1>3, Zenon DEF Reserving
<1>5. \A c \in Reserved : c \in Chunks /\ Paged(c) /\ Bytes(c) \subseteq Space
  BY ReservedAssumption, SpaceHas DEF Paged, OnPage
<1>6. OwnInv(n, {}) /\ Covered(n.vm.used) = {} /\ n.heaps = [z \in HeapIds |-> NoHeap]
  BY UnloadedIs DEF Unloaded
<1> HIDE DEF n
<1> DEFINE good(k) == /\ OwnInv(f[k], FirstBytes(cs, k)) /\ f[k].heaps = n.heaps
                      /\ Covered(f[k].vm.used) = FirstBytes(cs, k)
           bad == {k \in 0 .. Len(cs) : ~good(k)}
<1>7. good(0)
  <2>1. f[0] = n
    BY <1>2, <1>4
  <2>2. FirstBytes(cs, 0) = {}
    BY FirstBytesStep
  <2> QED BY <1>6, <2>1, <2>2
<1>8. ASSUME NEW k \in 1 .. Len(cs), good(k - 1) PROVE good(k)
  <2> DEFINE w == f[k - 1]  c == cs[k]  G == FirstBytes(cs, k - 1)  x == f[k]
  <2>1. c \in Reserved /\ k \in 0 .. Len(cs) /\ k # 0 /\ k \in Nat \ {0}
    BY <1>2
  <2>2. x = allocate_here(w, c.base, c.size).mem
    BY <1>4, <2>1
  <2>3. OwnInv(w, G) /\ w.heaps = n.heaps /\ Covered(w.vm.used) = G
    BY <1>8
  <2>4. FirstBytes(cs, k) = G \cup Bytes(c)
    BY <2>1, FirstBytesStep
  <2>5. Bytes(c) \cap G = {}
    <3> SUFFICES ASSUME NEW b \in Bytes(c), b \in G PROVE FALSE
      OBVIOUS
    <3>1. PICK j \in 1 .. k - 1 : b \in Bytes(cs[j])
      BY DEF FirstBytes
    <3>2. j \in 1 .. Len(cs) /\ j # k /\ cs[j] # c
      BY <1>2, <2>1, <3>1
    <3>3. cs[j] \in Reserved
      BY <1>2, <3>2
    <3>4. Disjoint(cs[j], c)
      BY <2>1, <3>2, <3>3, ReservedAssumption DEF PairwiseDisjoint
    <3>5. Bytes(cs[j]) \cap Bytes(c) = {}
      BY <1>5, <2>1, <3>3, <3>4, DisjointBytes
    <3> QED BY <3>1, <3>5
  <2> HIDE DEF w, G, c, x
  <2>6. c \in Chunks /\ Paged(c) /\ Bytes(c) \subseteq Space
    BY <1>5, <2>1
  <2>7. Bytes(c) \subseteq Covered(w.vm.unused)
    <3>1. Covered(w.vm.used) \cup Covered(w.vm.unused) = Space
      BY <2>3 DEF OwnInv, VMInv
    <3> QED BY <2>3, <2>5, <2>6, <3>1
  <2>8. /\ OwnInv(x, G \cup Bytes(c)) /\ x.heaps = w.heaps
        /\ Covered(x.vm.used) = Covered(w.vm.used) \cup Bytes(c)
    BY <2>2, <2>3, <2>6, <2>7, ReserveOne
  <2> QED BY <2>3, <2>4, <2>8 DEF x, c
<1> HIDE DEF good
<1>9. bad = {}
  <2> SUFFICES ASSUME bad # {} PROVE FALSE
    OBVIOUS
  <2>1. bad \subseteq Nat
    BY <1>2
  <2>2. PICK k \in bad : \A j \in bad : k <= j
    BY <2>1, LeastExists
  <2>3. k \in 0 .. Len(cs) /\ ~good(k)
    BY <2>2
  <2>4. k # 0
    BY <1>7, <2>3
  <2>5. k \in 1 .. Len(cs) /\ k - 1 \in 0 .. Len(cs) /\ ~(k <= k - 1)
    BY <1>2, <2>3, <2>4
  <2>6. k - 1 \notin bad
    BY <2>2, <2>5
  <2>7. good(k - 1)
    BY <2>5, <2>6
  <2> QED BY <1>8, <2>3, <2>5, <2>7
<1>10. good(Len(cs))
  BY <1>2, <1>9
<1>11. FirstBytes(cs, Len(cs)) = Covered(Reserved)
  <2>1. \A b : b \in FirstBytes(cs, Len(cs)) <=> \E j \in 1 .. Len(cs) : b \in Bytes(cs[j])
    BY DEF FirstBytes
  <2>2. \A b : b \in FirstBytes(cs, Len(cs)) <=> \E c \in Reserved : b \in Bytes(c)
    BY <1>2, <2>1, Zenon
  <2>3. \A b : b \in FirstBytes(cs, Len(cs)) <=> b \in Covered(Reserved)
    BY <2>2, InCovered, Zenon
  <2> QED BY <2>3
<1>12. Loaded = f[Len(cs)]
  BY <1>1, <1>3 DEF Loaded, Unloaded, n
<1> QED BY <1>6, <1>10, <1>11, <1>12 DEF good

-----------------------------------------------------------------------------
(***************************************************************************)
(* What vm_allocate (A), mmap (P) and the binary hold, and a memory m that *)
(* agrees with them.                                                       *)
(***************************************************************************)
MachRange(c) == PageRange(c.base, c.size)
RangesOf(A) == {MachRange(c) : c \in A}
Theirs(A, P) == Covered(RangesOf(A)) \cup Covered(P) \cup Covered(Reserved)
MachInv(A) == \A c \in A : c \in Chunks /\ OnPage(c.base) /\ Bytes(MachRange(c)) \subseteq Space
Apart(A, P) ==
  /\ ChunkSet(P)
  /\ \A c, d \in A : c = d \/ Bytes(MachRange(c)) \cap Bytes(MachRange(d)) = {}
  /\ Covered(RangesOf(A)) \cap Covered(P) = {}
  /\ Covered(RangesOf(A)) \cap Covered(Reserved) = {}
  /\ Covered(P) \cap Covered(Reserved) = {}
Known(m, A, P) ==
  /\ OwnInv(m, Theirs(A, P)) /\ MachInv(A)
  /\ UnmapsOnlyMapped => Apart(A, P)

\* The bytes of ranges
LEMMA InRanges ==
  ASSUME NEW A, NEW b
  PROVE  b \in Covered(RangesOf(A)) <=> \E c \in A : b \in Bytes(MachRange(c))
BY InCovered DEF RangesOf

\* One more range
LEMMA RangesAdded ==
  ASSUME NEW A, NEW c
  PROVE  Covered(RangesOf(A \cup {c})) = Covered(RangesOf(A)) \cup Bytes(MachRange(c))
<1>1. \A b : b \in Covered(RangesOf(A \cup {c})) <=> b \in Covered(RangesOf(A)) \/ b \in Bytes(MachRange(c))
  BY InRanges
<1> QED BY <1>1

\* vm_allocate remembers what it was given
LEMMA KnownMach ==
  ASSUME NEW m, NEW A, NEW P, Known(m, A, P), NEW r, Gives(m, r), NEW k \in Nat \ {0},
         PageRange(r.chunk.base, k) = r.chunk
  PROVE  Known(r.mem, A \cup {Chunk(r.chunk.base, k)}, P)
<1> DEFINE B == Bytes(r.chunk)  n == r.mem  E == Theirs(A, P)
<1>1. PICK c : c = Chunk(r.chunk.base, k)
  OBVIOUS
<1>2. r.chunk \in Chunks /\ Paged(r.chunk) /\ B \subseteq Space /\ r.chunk.base \in Nat
  BY ChunkFacts DEF Gives
<1>3. c \in Chunks /\ c.base = r.chunk.base /\ c.size = k
  BY <1>1, <1>2, ChunkIs
<1>4. MachRange(c) = r.chunk
  BY <1>3 DEF MachRange
<1>5. MachInv(A \cup {c})
  BY <1>2, <1>3, <1>4 DEF MachInv, Paged, Known
<1>6. OwnInv(n, E \cup B) /\ (UnmapsOnlyMapped => B \cap E = {})
  BY AllocatedKeeps DEF Known
<1>7. Covered(RangesOf(A \cup {c})) = Covered(RangesOf(A)) \cup B
  BY <1>4, RangesAdded
<1>8. Theirs(A \cup {c}, P) = E \cup B
  BY <1>7 DEF Theirs
<1>9. ASSUME UnmapsOnlyMapped PROVE Apart(A \cup {c}, P)
  <2>1. Apart(A, P) /\ B \cap E = {}
    BY <1>6, <1>9 DEF Known
  <2>2. B \cap Covered(RangesOf(A)) = {} /\ B \cap Covered(P) = {} /\ B \cap Covered(Reserved) = {}
    BY <2>1 DEF Theirs
  <2>3. \A d \in A : Bytes(MachRange(d)) \subseteq Covered(RangesOf(A))
    BY InRanges
  <2>4. \A d \in A : Bytes(MachRange(c)) \cap Bytes(MachRange(d)) = {} /\ Bytes(MachRange(d)) \cap Bytes(MachRange(c)) = {}
    BY <1>4, <2>2, <2>3
  <2>5. \A d, e \in A \cup {c} : d = e \/ Bytes(MachRange(d)) \cap Bytes(MachRange(e)) = {}
    BY <2>1, <2>4 DEF Apart
  <2> HIDE DEF B
  <2> QED BY <1>7, <2>1, <2>2, <2>5 DEF Apart
<1> QED BY <1>1, <1>5, <1>6, <1>8, <1>9 DEF Known

\* vm_deallocate frees what it forgets
LEMMA KnownMachFreed ==
  ASSUME NEW m, NEW A, NEW P, Known(m, A, P), NEW c \in A
  PROVE  Known(deallocate(m, c.base, c.size), A \ {c}, P)
<1> DEFINE B == Bytes(MachRange(c))  E == Theirs(A, P)  n == deallocate(m, c.base, c.size)
<1>1. c \in Chunks /\ B \subseteq Space /\ OwnInv(m, E)
  BY DEF Known, MachInv
<1>2. PICK a \in Nat, k \in Nat \ {0} : a = c.base /\ k = c.size
  BY <1>1, ChunkFacts
<1>3. B = Bytes(PageRange(a, k)) /\ n = deallocate(m, a, k)
  BY <1>2 DEF MachRange
<1>4. B \subseteq Covered(RangesOf(A))
  BY InRanges
<1>5. UnmapsOnlyMapped => \A z \in HeapIds : B \cap PagesOf(m.heaps[z]) = {}
  <2>1. UnmapsOnlyMapped => \A z \in HeapIds : PagesOf(m.heaps[z]) \cap E = {}
    BY <1>1 DEF OwnInv, Owned
  <2> QED BY <1>4, <2>1 DEF Theirs
<1> HIDE DEF B, n, E
<1>6. OwnInv(n, E \ B)
  <2>1. /\ Bytes(PageRange(a, k)) \subseteq Space
        /\ UnmapsOnlyMapped => \A z \in HeapIds : Bytes(PageRange(a, k)) \cap PagesOf(m.heaps[z]) = {}
    BY <1>1, <1>3, <1>5
  <2>2. OwnInv(deallocate(m, a, k), E \ Bytes(PageRange(a, k)))
    BY <1>1, <2>1, DeallocatedKeeps
  <2> QED BY <1>3, <2>2
<1>7. ASSUME UnmapsOnlyMapped
      PROVE  Apart(A \ {c}, P) /\ E \ B = Theirs(A \ {c}, P)
  <2>1. Apart(A, P)
    BY <1>7 DEF Known
  <2>2. \A d \in A \ {c} : Bytes(MachRange(d)) \cap B = {}
    BY <2>1 DEF Apart, B
  <2>3. Covered(RangesOf(A \ {c})) = Covered(RangesOf(A)) \ B
    <3>1. \A b : b \in Covered(RangesOf(A)) <=> \E d \in A : b \in Bytes(MachRange(d))
      BY InRanges
    <3>2. \A b : b \in Covered(RangesOf(A \ {c})) <=> \E d \in A \ {c} : b \in Bytes(MachRange(d))
      BY InRanges
    <3>3. ASSUME NEW b \in Covered(RangesOf(A)), b \notin B PROVE b \in Covered(RangesOf(A \ {c}))
      BY <3>1, <3>2, <3>3 DEF B
    <3>4. ASSUME NEW b \in Covered(RangesOf(A \ {c})) PROVE b \in Covered(RangesOf(A)) \ B
      BY <2>2, <3>1, <3>2
    <3> QED BY <3>3, <3>4
  <2>4. Apart(A \ {c}, P)
    BY <2>1, <2>3 DEF Apart
  <2>5. B \cap Covered(P) = {} /\ B \cap Covered(Reserved) = {}
    BY <1>4, <2>1 DEF Apart
  <2> QED BY <2>3, <2>4, <2>5 DEF Theirs, E
<1>8. MachInv(A \ {c})
  BY DEF MachInv, Known
<1>9. OwnInv(n, Theirs(A \ {c}, P))
  BY <1>6, <1>7, AnyOwner
<1> QED BY <1>7, <1>8, <1>9 DEF Known, n

\* mmap remembers what it was given
LEMMA KnownMapped ==
  ASSUME NEW m, NEW A, NEW P, Known(m, A, P), NEW r, Gives(m, r)
  PROVE  Known(r.mem, A, P \cup {r.chunk})
<1> DEFINE c == r.chunk  B == Bytes(c)  E == Theirs(A, P)
<1>1. c \in Chunks
  BY DEF Gives
<1>2. OwnInv(r.mem, E \cup B) /\ (UnmapsOnlyMapped => B \cap E = {})
  BY AllocatedKeeps DEF Known
<1> HIDE DEF c
<1>3. Covered(P \cup {c}) = Covered(P) \cup B
  <2>1. Covered({c}) = B
    BY CoveredSets
  <2> QED BY <2>1, CoveredSets
<1>4. Theirs(A, P \cup {c}) = E \cup B
  BY <1>3 DEF Theirs
<1>5. ASSUME UnmapsOnlyMapped PROVE Apart(A, P \cup {c})
  <2>1. Apart(A, P) /\ B \cap E = {}
    BY <1>2, <1>5 DEF Known
  <2>2. B \cap Covered(RangesOf(A)) = {} /\ B \cap Covered(P) = {} /\ B \cap Covered(Reserved) = {}
    BY <2>1 DEF Theirs
  <2>3. ChunkSet(P \cup {c})
    BY <1>1, <2>1, <2>2, AddFacts DEF Apart
  <2> QED BY <1>3, <2>1, <2>2, <2>3 DEF Apart
<1>6. OwnInv(r.mem, Theirs(A, P \cup {c}))
  BY <1>2, <1>4
<1> QED BY <1>5, <1>6 DEF Known, c

\* munmap, and mmap at a fixed address, free what they forget, or part of it
LEMMA KnownUnmapped ==
  ASSUME NEW m, NEW A, NEW P, Known(m, A, P), NEW c \in Chunks, Paged(c), Bytes(c) \subseteq Space, NEW Q,
         UnmapsOnlyMapped => Bytes(c) \subseteq Covered(P) /\ Q = Cut(P, c)
  PROVE  /\ Known(deallocate(m, c.base, c.size), A, Q)
         /\ Bytes(c) \subseteq Covered(deallocate(m, c.base, c.size).vm.unused)
<1> DEFINE B == Bytes(c)  E == Theirs(A, P)  n == deallocate(m, c.base, c.size)
<1>1. OwnInv(m, E)
  BY DEF Known
<1>2. UnmapsOnlyMapped => \A z \in HeapIds : B \cap PagesOf(m.heaps[z]) = {}
  <2>1. UnmapsOnlyMapped => \A z \in HeapIds : PagesOf(m.heaps[z]) \cap E = {}
    BY <1>1 DEF OwnInv, Owned
  <2> QED BY <2>1 DEF Theirs
<1>3. OwnInv(n, E \ B) /\ B \subseteq Covered(n.vm.unused)
  <2> HIDE DEF E
  <2> QED BY <1>1, <1>2, ChunkFreedKeeps
<1>4. ASSUME UnmapsOnlyMapped PROVE Apart(A, Q) /\ E \ B = Theirs(A, Q)
  <2>1. Apart(A, P) /\ B \subseteq Covered(P) /\ Q = Cut(P, c)
    BY <1>4 DEF Known
  <2>2. ChunkSet(Q) /\ Covered(Q) = Covered(P) \ B
    BY <2>1, CutFacts DEF Apart
  <2>3. Apart(A, Q)
    BY <2>1, <2>2 DEF Apart
  <2>4. B \cap Covered(RangesOf(A)) = {} /\ B \cap Covered(Reserved) = {}
    BY <2>1 DEF Apart
  <2> QED BY <2>2, <2>3, <2>4 DEF Theirs
<1> HIDE DEF E
<1>5. OwnInv(n, Theirs(A, Q))
  BY <1>3, <1>4, AnyOwner
<1>6. MachInv(A)
  BY DEF Known
<1> QED BY <1>3, <1>4, <1>5, <1>6 DEF Known

-----------------------------------------------------------------------------
(***************************************************************************)
(* The invariant, and that every operation keeps it.                       *)
(***************************************************************************)
\* The heap of a zone that is not there is not there either
ZonesInv(y, h) ==
  /\ y = [z \in HeapIds |-> y[z]]
  /\ UnmapsOnlyMapped => \A z \in Zones : y[z] = NoZone => h[z] = NoHeap
MemoryInv == Known(Mem, mach, mmaps) /\ ZonesInv(zones, heaps)

Others == Theirs(mach, mmaps)
\* Only the heaps in Z differ from those of Mem
Untouched(n, Z) == \A y \in HeapIds \ Z : n.heaps[y] = heaps[y]

\* The default heap is not one of a zone
LEMMA ZoneIds == Default \in HeapIds /\ Default \notin Zones /\ Zones \subseteq HeapIds
BY RequestsAssumption DEF Default, HeapIds

\* The invariant holds when the binary is loaded
LEMMA InitInv == Init => MemoryInv
<1> SUFFICES ASSUME Init PROVE MemoryInv
  OBVIOUS
<1> DEFINE m == Loaded
<1>1. OwnInv(m, Covered(Reserved)) /\ m.heaps = [z \in HeapIds |-> NoHeap]
  BY LoadedIs
<1>2. vm = m.vm /\ heaps = m.heaps /\ zones = [z \in HeapIds |-> NoZone] /\ mach = {} /\ mmaps = {}
  BY DEF Init
<1> HIDE DEF m
<1>3. Mem = m
  BY <1>1, <1>2 DEF Mem, OwnInv, IsMem
<1>4. Covered({}) = {} /\ RangesOf({}) = {}
  BY CoveredSets DEF RangesOf
<1>5. Theirs({}, {}) = Covered(Reserved)
  BY <1>4 DEF Theirs
<1>6. Apart({}, {}) /\ MachInv({})
  BY <1>4 DEF Apart, MachInv, ChunkSet, PairwiseDisjoint
<1>7. Known(m, {}, {})
  BY <1>1, <1>5, <1>6 DEF Known
<1>8. ZonesInv(zones, heaps)
  BY <1>1, <1>2, ZoneIds DEF ZonesInv
<1> QED BY <1>2, <1>3, <1>7, <1>8 DEF MemoryInv

\* A request changes the memory or ends the program
LEMMA SettleMem ==
  ASSUME NEW r, Settle(r), r.ok => IsMem(r.mem)
  PROVE  /\ r.ok => Mem' = r.mem /\ heaps' = r.mem.heaps
         /\ ~r.ok => Mem' = Mem /\ heaps' = heaps
<1>1. CASE r.ok
  <2>1. vm' = r.mem.vm /\ heaps' = r.mem.heaps /\ r.mem = [vm |-> r.mem.vm, heaps |-> r.mem.heaps]
    BY <1>1 DEF Settle, Commit, IsMem
  <2> QED BY <1>1, <2>1 DEF Mem
<1>2. CASE ~r.ok
  <2>1. vm' = vm /\ heaps' = heaps
    BY <1>2 DEF Settle, memVars
  <2> QED BY <1>2, <2>1 DEF Mem
<1> QED BY <1>1, <1>2

\* A request of the heaps in Z
LEMMA HeapsSettle ==
  ASSUME MemoryInv, NEW r, Settle(r), r.ok => OwnInv(r.mem, Others), mach' = mach, mmaps' = mmaps,
         NEW Z, r.ok => Untouched(r.mem, Z)
  PROVE  /\ Known(Mem', mach', mmaps') /\ \A y \in HeapIds \ Z : heaps'[y] = heaps[y]
         /\ r.ok => heaps' = r.mem.heaps
         /\ ~r.ok => heaps' = heaps
<1>1. Known(Mem, mach, mmaps)
  BY DEF MemoryInv
<1>2. r.ok => IsMem(r.mem)
  BY DEF OwnInv
<1>3. /\ r.ok => Mem' = r.mem /\ heaps' = r.mem.heaps
      /\ ~r.ok => Mem' = Mem /\ heaps' = heaps
  BY <1>2, SettleMem
<1>4. r.ok => Known(r.mem, mach, mmaps)
  BY <1>1 DEF Known, Others
<1>5. Known(Mem', mach, mmaps)
  BY <1>1, <1>3, <1>4
<1>6. \A y \in HeapIds \ Z : heaps'[y] = heaps[y]
  BY <1>3 DEF Untouched
<1> QED BY <1>3, <1>5, <1>6

\* The parts of the memory
LEMMA MemHas == Mem.vm = vm /\ Mem.heaps = heaps
BY DEF Mem

\* malloc and valloc, whose heap is the default one
LEMMA DefaultSettle ==
  ASSUME MemoryInv, NEW r, Settle(r), r.ok => OwnInv(r.mem, Others) /\ OthersSame(Mem, r.mem, Default),
         zones' = zones, mach' = mach, mmaps' = mmaps
  PROVE  MemoryInv'
<1>1. r.ok => Untouched(r.mem, {Default})
  BY MemHas DEF Untouched, OthersSame
<1>2. Known(Mem', mach', mmaps') /\ \A y \in HeapIds \ {Default} : heaps'[y] = heaps[y]
  BY <1>1, HeapsSettle
<1>3. ZonesInv(zones, heaps)
  BY DEF MemoryInv
<1>4. \A z \in Zones : heaps'[z] = heaps[z]
  BY <1>2, ZoneIds
<1>5. ZonesInv(zones', heaps')
  BY <1>3, <1>4 DEF ZonesInv
<1> QED BY <1>2, <1>5 DEF MemoryInv

\* What the memory says of owners
LEMMA MemOwn == MemoryInv => OwnInv(Mem, Others)
BY DEF MemoryInv, Known, Others

\* malloc
LEMMA MallocInv ==
  ASSUME MemoryInv, NEW s \in Nat, malloc(s)
  PROVE  MemoryInv'
<1>1. PICK r \in {alloc(Mem, Default, s)} : Settle(r)
  BY DEF malloc
<1>2. zones' = zones /\ mach' = mach /\ mmaps' = mmaps
  BY DEF malloc
<1>3. PICK m, E : m = Mem /\ E = Others
  OBVIOUS
<1>4. r.ok => OwnInv(r.mem, E) /\ OthersSame(m, r.mem, Default)
  <2>1. OwnInv(m, E) /\ r = alloc(m, Default, s)
    BY <1>1, <1>3, MemOwn
  <2> QED BY <2>1, AllocKeeps, ZoneIds DEF Served
<1> QED BY <1>1, <1>2, <1>3, <1>4, DefaultSettle

\* valloc
LEMMA VallocInv ==
  ASSUME MemoryInv, NEW s \in Nat \ {0}, valloc(s)
  PROVE  MemoryInv'
<1>1. PICK h \in {with_heap(Mem, Default)} : Settle(IF h.ok THEN external_alloc(h.mem, Default, s) ELSE h)
  BY DEF valloc
<1>2. zones' = zones /\ mach' = mach /\ mmaps' = mmaps
  BY DEF valloc
<1>3. PICK m, E : m = Mem /\ E = Others
  OBVIOUS
<1>4. PICK r : r = IF h.ok THEN external_alloc(h.mem, Default, s) ELSE h
  OBVIOUS
<1>5. r.ok => OwnInv(r.mem, E) /\ OthersSame(m, r.mem, Default)
  <2> SUFFICES ASSUME r.ok PROVE OwnInv(r.mem, E) /\ OthersSame(m, r.mem, Default)
    OBVIOUS
  <2>1. OwnInv(m, E) /\ h = with_heap(m, Default)
    BY <1>1, <1>3, MemOwn
  <2>2. h.ok /\ r = external_alloc(h.mem, Default, s)
    BY <1>4
  <2>3. PICK w : w = h.mem
    OBVIOUS
  <2>4. OwnInv(w, E) /\ OthersSame(m, w, Default) /\ w.heaps[Default].live
    BY <2>1, <2>2, <2>3, WithHeapKeeps, ZoneIds
  <2>5. r = external_alloc(w, Default, s) /\ external_alloc(w, Default, s).ok
    BY <2>2, <2>3
  <2>6. OwnInv(r.mem, E) /\ OthersSame(w, r.mem, Default)
    BY <2>4, <2>5, ExternalKeeps, ZoneIds
  <2> QED BY <2>4, <2>6 DEF OthersSame
<1>6. Settle(r)
  BY <1>1, <1>4
<1> QED BY <1>2, <1>3, <1>5, <1>6, DefaultSettle

\* malloc_default_zone, which every call on a zone makes first
LEMMA DefaultZoneKeeps ==
  ASSUME MemoryInv, NEW d, d = default_zone(Mem), d.ok
  PROVE  OwnInv(d.mem, Others) /\ Untouched(d.mem, {Default})
<1>1. PICK m, E : m = Mem /\ E = Others
  OBVIOUS
<1>2. OwnInv(m, E)
  BY <1>1, MemOwn
<1>3. CASE zones[Default] # NoZone
  <2>1. d.mem = m
    BY <1>1, <1>3 DEF default_zone, Got
  <2> QED BY <1>1, <1>2, <2>1, MemHas DEF Untouched
<1>4. CASE zones[Default] = NoZone
  <2>1. d = alloc(m, Default, ZONE_SIZE)
    BY <1>1, <1>4 DEF default_zone
  <2>2. ZONE_SIZE \in Nat
    BY SizesAssumption
  <2>3. OwnInv(d.mem, E) /\ OthersSame(m, d.mem, Default)
    BY <1>2, <2>1, <2>2, AllocKeeps, ZoneIds DEF Served
  <2> QED BY <1>1, <2>3, MemHas DEF Untouched, OthersSame
<1> QED BY <1>3, <1>4

\* A call of malloc_zone_* in a zone that is there
LEMMA ZoneCallInv ==
  ASSUME MemoryInv, NEW z \in HeapIds, NEW d, NEW o, zone_call(z, d, o),
         o.ok => OwnInv(o.mem, Others) /\ Untouched(o.mem, {Default, z})
  PROVE  MemoryInv'
<1>1. /\ zones[z] # NoZone \/ z = Default
      /\ Settle(o) /\ mach' = mach /\ mmaps' = mmaps
      /\ zones' = IF o.ok THEN [zones EXCEPT ![Default] = d.chunk.base] ELSE zones
  BY DEF zone_call
<1>2. Known(Mem', mach', mmaps') /\ \A y \in HeapIds \ {Default, z} : heaps'[y] = heaps[y]
  BY <1>1, HeapsSettle
<1>3. /\ zones = [y \in HeapIds |-> zones[y]]
      /\ UnmapsOnlyMapped => \A y \in Zones : zones[y] = NoZone => heaps[y] = NoHeap
  BY DEF MemoryInv, ZonesInv
<1>4. zones' = [y \in HeapIds |-> zones'[y]] /\ \A y \in Zones : zones'[y] = zones[y]
  BY <1>1, <1>3, ZoneIds
<1>5. ASSUME UnmapsOnlyMapped, NEW y \in Zones, zones'[y] = NoZone PROVE heaps'[y] = NoHeap
  <2>1. zones[y] = NoZone /\ heaps[y] = NoHeap
    BY <1>3, <1>4, <1>5
  <2>2. y \in HeapIds \ {Default, z}
    BY <1>1, <2>1, ZoneIds
  <2> QED BY <1>2, <2>1, <2>2
<1>6. ZonesInv(zones', heaps')
  BY <1>4, <1>5 DEF ZonesInv
<1> QED BY <1>2, <1>6 DEF MemoryInv

\* A call on a zone changes its heap and the default one
LEMMA ThenIn ==
  ASSUME NEW d, Untouched(d.mem, {Default}), NEW n, NEW z \in HeapIds, OthersSame(d.mem, n, z)
  PROVE  Untouched(n, {Default, z})
BY DEF Untouched, OthersSame

\* malloc_zone_malloc
LEMMA ZoneMallocInv ==
  ASSUME MemoryInv, NEW z \in HeapIds, NEW s \in Nat, malloc_zone_malloc(z, s)
  PROVE  MemoryInv'
<1>1. PICK d \in {default_zone(Mem)} : zone_call(z, d, IF d.ok THEN alloc(d.mem, z, s) ELSE d)
  BY DEF malloc_zone_malloc
<1>2. PICK o, m, E : o = (IF d.ok THEN alloc(d.mem, z, s) ELSE d) /\ m = d.mem /\ E = Others
  OBVIOUS
<1>3. o.ok => OwnInv(o.mem, Others) /\ Untouched(o.mem, {Default, z})
  <2> SUFFICES ASSUME o.ok PROVE OwnInv(o.mem, Others) /\ Untouched(o.mem, {Default, z})
    OBVIOUS
  <2>1. d.ok /\ o = alloc(m, z, s)
    BY <1>2
  <2>2. OwnInv(m, E) /\ Untouched(d.mem, {Default})
    BY <1>1, <1>2, <2>1, DefaultZoneKeeps
  <2>3. OwnInv(o.mem, E) /\ OthersSame(m, o.mem, z)
    BY <2>1, <2>2, AllocKeeps DEF Served
  <2> QED BY <1>2, <2>2, <2>3, ThenIn
<1>4. zone_call(z, d, o)
  BY <1>1, <1>2
<1> QED BY <1>3, <1>4, ZoneCallInv

\* malloc_zone_free
LEMMA ZoneFreeInv ==
  ASSUME MemoryInv, NEW z \in HeapIds, NEW b, malloc_zone_free(z, b)
  PROVE  MemoryInv'
<1>1. PICK d \in {default_zone(Mem)} :
        zone_call(z, d, IF d.ok THEN Got(free(d.mem, z, b), Chunk(b, 0)) ELSE d)
  BY DEF malloc_zone_free
<1>2. PICK o, m, E : /\ o = (IF d.ok THEN Got(free(d.mem, z, b), Chunk(b, 0)) ELSE d)
                     /\ m = d.mem /\ E = Others
  OBVIOUS
<1>3. o.ok => OwnInv(o.mem, Others) /\ Untouched(o.mem, {Default, z})
  <2> SUFFICES ASSUME o.ok PROVE OwnInv(o.mem, Others) /\ Untouched(o.mem, {Default, z})
    OBVIOUS
  <2>1. d.ok /\ o.mem = free(m, z, b)
    BY <1>2 DEF Got
  <2>2. OwnInv(m, E) /\ Untouched(d.mem, {Default})
    BY <1>1, <1>2, <2>1, DefaultZoneKeeps
  <2>3. OwnInv(o.mem, E) /\ OthersSame(m, o.mem, z)
    BY <2>1, <2>2, FreeKeeps
  <2> QED BY <1>2, <2>2, <2>3, ThenIn
<1>4. zone_call(z, d, o)
  BY <1>1, <1>2
<1> QED BY <1>3, <1>4, ZoneCallInv

\* malloc_zone_realloc
LEMMA ZoneReallocInv ==
  ASSUME MemoryInv, NEW z \in HeapIds, NEW b, NEW s \in Nat, malloc_zone_realloc(z, b, s)
  PROVE  MemoryInv'
<1>1. PICK d \in {default_zone(Mem)} : zone_call(z, d, IF d.ok THEN realloc(d.mem, z, b, s) ELSE d)
  BY DEF malloc_zone_realloc
<1>2. PICK o, m, E : o = (IF d.ok THEN realloc(d.mem, z, b, s) ELSE d) /\ m = d.mem /\ E = Others
  OBVIOUS
<1>3. o.ok => OwnInv(o.mem, Others) /\ Untouched(o.mem, {Default, z})
  <2> SUFFICES ASSUME o.ok PROVE OwnInv(o.mem, Others) /\ Untouched(o.mem, {Default, z})
    OBVIOUS
  <2>1. d.ok /\ o = realloc(m, z, b, s)
    BY <1>2
  <2>2. OwnInv(m, E) /\ Untouched(d.mem, {Default})
    BY <1>1, <1>2, <2>1, DefaultZoneKeeps
  <2>3. OwnInv(o.mem, E) /\ OthersSame(m, o.mem, z)
    BY <2>1, <2>2, ReallocKeeps
  <2> QED BY <1>2, <2>2, <2>3, ThenIn
<1>4. zone_call(z, d, o)
  BY <1>1, <1>2
<1> QED BY <1>3, <1>4, ZoneCallInv

\* malloc_create_zone
LEMMA CreateZoneInv ==
  ASSUME MemoryInv, NEW z \in Zones, NEW n \in Nat, malloc_create_zone(z, n)
  PROVE  MemoryInv'
<1>1. PICK s \in {alloc(Mem, Default, ZONE_SIZE)} : \E r \in {IF s.ok THEN heap_new(s.mem, z, n) ELSE s} :
        /\ zones[z] = NoZone
        /\ Settle(r)
        /\ zones' = IF r.ok THEN [zones EXCEPT ![z] = s.chunk.base] ELSE zones
        /\ UNCHANGED <<mach, mmaps>>
  BY DEF malloc_create_zone
<1>2. PICK r : /\ r = IF s.ok THEN heap_new(s.mem, z, n) ELSE s
               /\ zones[z] = NoZone /\ Settle(r)
               /\ zones' = IF r.ok THEN [zones EXCEPT ![z] = s.chunk.base] ELSE zones
               /\ mach' = mach /\ mmaps' = mmaps
  BY <1>1
<1>3. z \in HeapIds /\ z # Default
  BY ZoneIds
<1>4. ASSUME r.ok
      PROVE  /\ OwnInv(r.mem, Others) /\ Untouched(r.mem, {Default, z})
             /\ UnmapsOnlyMapped => s.chunk.base \in Nat
  <2>1. PICK m, w, E : m = Mem /\ w = s.mem /\ E = Others
    OBVIOUS
  <2>2. s.ok /\ r = heap_new(w, z, n) /\ s = alloc(m, Default, ZONE_SIZE) /\ ZONE_SIZE \in Nat
    BY <1>1, <1>2, <1>4, <2>1, SizesAssumption
  <2>3. OwnInv(m, E)
    BY <2>1, MemOwn
  <2>4. OwnInv(w, E) /\ OthersSame(m, w, Default) /\ (UnmapsOnlyMapped => s.chunk.base \in Nat)
    BY <2>1, <2>2, <2>3, AllocKeeps, ZoneIds DEF Served
  <2>5. UnmapsOnlyMapped => w.heaps[z] = NoHeap
    BY <1>2, <1>3, <2>1, <2>4, MemHas DEF OthersSame, MemoryInv, ZonesInv
  <2>6. OwnInv(r.mem, E) /\ OthersSame(w, r.mem, z)
    BY <1>3, <1>4, <2>2, <2>4, <2>5, HeapNewKeeps
  <2>7. Untouched(r.mem, {Default, z})
    BY <2>1, <2>4, <2>6, MemHas DEF Untouched, OthersSame
  <2> QED BY <2>1, <2>4, <2>6, <2>7
<1>5. /\ Known(Mem', mach', mmaps') /\ \A y \in HeapIds \ {Default, z} : heaps'[y] = heaps[y]
      /\ ~r.ok => heaps' = heaps
  BY <1>2, <1>4, HeapsSettle
<1>6. /\ zones = [y \in HeapIds |-> zones[y]]
      /\ UnmapsOnlyMapped => \A y \in Zones : zones[y] = NoZone => heaps[y] = NoHeap
  BY DEF MemoryInv, ZonesInv
<1>7. /\ zones' = [y \in HeapIds |-> zones'[y]] /\ \A y \in Zones : y # z => zones'[y] = zones[y]
      /\ r.ok => zones'[z] = s.chunk.base
  BY <1>2, <1>3, <1>6
<1>8. ASSUME UnmapsOnlyMapped, NEW y \in Zones, zones'[y] = NoZone PROVE heaps'[y] = NoHeap
  <2>1. CASE ~r.ok
    BY <1>2, <1>5, <1>6, <1>8, <2>1
  <2>2. CASE r.ok
    <3>1. y # z
      BY <1>4, <1>7, <1>8, <2>2 DEF NoZone
    <3>2. y \in HeapIds \ {Default, z}
      BY <3>1, ZoneIds
    <3> QED BY <1>5, <1>6, <1>7, <1>8, <3>1, <3>2
  <2> QED BY <2>1, <2>2
<1>9. ZonesInv(zones', heaps')
  BY <1>7, <1>8 DEF ZonesInv
<1> QED BY <1>5, <1>9 DEF MemoryInv

\* malloc_destroy_zone
LEMMA DestroyZoneInv ==
  ASSUME MemoryInv, NEW z \in Zones, malloc_destroy_zone(z)
  PROVE  MemoryInv'
<1>1. PICK d \in {default_zone(Mem)} :
      \E r \in {IF d.ok THEN Got(free(destroy_heap(d.mem, z), Default, zones[z]), Chunk(0, 0)) ELSE d} :
        /\ Settle(r)
        /\ zones' = IF r.ok THEN [zones EXCEPT ![Default] = d.chunk.base, ![z] = NoZone] ELSE zones
        /\ UNCHANGED <<mach, mmaps>>
  BY DEF malloc_destroy_zone
<1>2. PICK r : /\ r = IF d.ok THEN Got(free(destroy_heap(d.mem, z), Default, zones[z]), Chunk(0, 0)) ELSE d
               /\ Settle(r)
               /\ zones' = IF r.ok THEN [zones EXCEPT ![Default] = d.chunk.base, ![z] = NoZone] ELSE zones
               /\ mach' = mach /\ mmaps' = mmaps
  BY <1>1
<1>3. z \in HeapIds /\ z # Default
  BY ZoneIds
<1>4. ASSUME r.ok
      PROVE  OwnInv(r.mem, Others) /\ Untouched(r.mem, {Default, z}) /\ r.mem.heaps[z] = NoHeap
  <2>1. PICK m, w, b, E : m = d.mem /\ w = destroy_heap(m, z) /\ b = zones[z] /\ E = Others
    OBVIOUS
  <2>2. d.ok /\ r.mem = free(w, Default, b)
    BY <1>2, <1>4, <2>1 DEF Got
  <2>3. OwnInv(m, E) /\ Untouched(d.mem, {Default})
    BY <1>1, <2>1, <2>2, DefaultZoneKeeps
  <2>4. OwnInv(w, E) /\ OthersSame(m, w, z) /\ w.heaps[z] = NoHeap
    BY <1>3, <2>1, <2>3, DestroyKeeps
  <2>5. OwnInv(r.mem, E) /\ OthersSame(w, r.mem, Default)
    BY <2>2, <2>4, FreeKeeps, ZoneIds
  <2>6. Untouched(r.mem, {Default, z})
    BY <2>1, <2>3, <2>4, <2>5 DEF Untouched, OthersSame
  <2>7. r.mem.heaps[z] = NoHeap
    BY <1>3, <2>4, <2>5 DEF OthersSame
  <2> QED BY <2>1, <2>5, <2>6, <2>7
<1>5. /\ Known(Mem', mach', mmaps') /\ \A y \in HeapIds \ {Default, z} : heaps'[y] = heaps[y]
      /\ r.ok => heaps' = r.mem.heaps
      /\ ~r.ok => heaps' = heaps
  BY <1>2, <1>4, HeapsSettle
<1>6. /\ zones = [y \in HeapIds |-> zones[y]]
      /\ UnmapsOnlyMapped => \A y \in Zones : zones[y] = NoZone => heaps[y] = NoHeap
  BY DEF MemoryInv, ZonesInv
<1>7. /\ zones' = [y \in HeapIds |-> zones'[y]]
      /\ \A y \in Zones : y # z => zones'[y] = zones[y]
      /\ ~r.ok => zones' = zones
  <2>1. CASE r.ok
    <3>1. PICK x : x = [zones EXCEPT ![Default] = d.chunk.base]
      OBVIOUS
    <3>2. zones' = [x EXCEPT ![z] = NoZone]
      BY <1>2, <2>1, <3>1
    <3>3. x = [y \in HeapIds |-> x[y]] /\ \A y \in HeapIds : y # Default => x[y] = zones[y]
      BY <1>6, <3>1, ZoneIds
    <3>4. zones' = [y \in HeapIds |-> zones'[y]] /\ \A y \in HeapIds : y # z => zones'[y] = x[y]
      BY <3>2, <3>3
    <3> QED BY <2>1, <3>3, <3>4, ZoneIds
  <2>2. CASE ~r.ok
    BY <1>2, <1>6, <2>2
  <2> QED BY <2>1, <2>2
<1>8. ASSUME UnmapsOnlyMapped, NEW y \in Zones, zones'[y] = NoZone PROVE heaps'[y] = NoHeap
  <2>1. CASE ~r.ok
    BY <1>5, <1>6, <1>7, <1>8, <2>1
  <2>2. CASE r.ok /\ y = z
    BY <1>4, <1>5, <2>2
  <2>3. CASE r.ok /\ y # z
    <3>1. y \in HeapIds \ {Default, z}
      BY <2>3, ZoneIds
    <3> QED BY <1>5, <1>6, <1>7, <1>8, <2>3, <3>1
  <2> QED BY <2>1, <2>2, <2>3
<1>9. ZonesInv(zones', heaps')
  BY <1>7, <1>8 DEF ZonesInv
<1> QED BY <1>5, <1>9 DEF MemoryInv

\* A request of the page allocator on behalf of vm_allocate or mmap
LEMMA PagesSettle ==
  ASSUME MemoryInv, NEW r, Settle(r), r.ok => Gives(Mem, r), zones' = zones, NEW A, NEW P,
         mach' = A, mmaps' = P,
         r.ok => Known(r.mem, A, P), ~r.ok => Known(Mem, A, P)
  PROVE  MemoryInv'
<1>1. r.ok => IsMem(r.mem) /\ r.mem.heaps = heaps
  BY MemHas DEF Gives
<1>2. /\ r.ok => Mem' = r.mem /\ heaps' = r.mem.heaps
      /\ ~r.ok => Mem' = Mem /\ heaps' = heaps
  BY <1>1, SettleMem
<1>3. Known(Mem', mach', mmaps') /\ heaps' = heaps
  BY <1>1, <1>2
<1>4. ZonesInv(zones', heaps')
  BY <1>3 DEF MemoryInv
<1> QED BY <1>3, <1>4 DEF MemoryInv

\* vm_allocate, anywhere or at an address
LEMMA VmAllocateInv ==
  ASSUME MemoryInv, NEW r, NEW s \in Nat \ {0}, vm_allocate(r, s),
         r.ok => Gives(Mem, r) /\ PageRange(r.chunk.base, s) = r.chunk
  PROVE  MemoryInv'
<1>1. /\ Settle(r) /\ mach' = (IF r.ok THEN mach \cup {Chunk(r.chunk.base, s)} ELSE mach)
      /\ zones' = zones /\ mmaps' = mmaps
  BY DEF vm_allocate
<1>2. Known(Mem, mach, mmaps)
  BY DEF MemoryInv
<1>3. PICK m, A, P : m = Mem /\ A = mach /\ P = mmaps
  OBVIOUS
<1>4. r.ok => Known(r.mem, A \cup {Chunk(r.chunk.base, s)}, P)
  BY <1>2, <1>3, KnownMach
<1>5. CASE r.ok
  <2>1. PICK B : B = A \cup {Chunk(r.chunk.base, s)}
    OBVIOUS
  <2>2. mach' = B /\ mmaps' = P /\ Known(r.mem, B, P)
    BY <1>1, <1>3, <1>4, <1>5, <2>1
  <2> QED BY <1>1, <1>5, <2>2, PagesSettle
<1>6. CASE ~r.ok
  <2>1. mach' = A /\ mmaps' = P /\ Known(Mem, A, P)
    BY <1>1, <1>2, <1>3, <1>6
  <2> QED BY <1>1, <1>6, <2>1, PagesSettle
<1> QED BY <1>5, <1>6

\* mmap, anywhere or at a hint
LEMMA MappingInv ==
  ASSUME MemoryInv, NEW r, Mapping(r, mmaps), r.ok => Gives(Mem, r)
  PROVE  MemoryInv'
<1>1. /\ Settle(r) /\ mmaps' = (IF r.ok THEN mmaps \cup {r.chunk} ELSE mmaps)
      /\ zones' = zones /\ mach' = mach
  BY DEF Mapping
<1>2. Known(Mem, mach, mmaps)
  BY DEF MemoryInv
<1>3. PICK m, A, P : m = Mem /\ A = mach /\ P = mmaps
  OBVIOUS
<1>4. r.ok => Known(r.mem, A, P \cup {r.chunk})
  BY <1>2, <1>3, KnownMapped
<1>5. CASE r.ok
  <2>1. PICK B : B = P \cup {r.chunk}
    OBVIOUS
  <2>2. mach' = A /\ mmaps' = B /\ Known(r.mem, A, B)
    BY <1>1, <1>3, <1>4, <1>5, <2>1
  <2> QED BY <1>1, <1>5, <2>2, PagesSettle
<1>6. CASE ~r.ok
  <2>1. mach' = A /\ mmaps' = P /\ Known(Mem, A, P)
    BY <1>1, <1>2, <1>3, <1>6
  <2> QED BY <1>1, <1>6, <2>1, PagesSettle
<1> QED BY <1>5, <1>6

\* The ranges a guest names are whole pages of the address space
LEMMA RangeFacts ==
  ASSUME NEW c \in Ranges
  PROVE  c \in Chunks /\ Paged(c) /\ Bytes(c) \subseteq Space
<1>1. PICK p \in 0 .. (STACK_LOW_END \div PAGE_SIZE) - 1, s \in PageSizes :
        c = Chunk(p * PAGE_SIZE, next_multiple_of(s, PAGE_SIZE))
  BY DEF Ranges, Pages
<1>2. last_byte(c) < STACK_LOW_END
  BY DEF Ranges
<1>3. PAGE_SIZE \in Nat \ {0} /\ STACK_LOW_END \in Nat /\ s \in Nat \ {0}
  BY SizesAssumption, RequestsAssumption
<1> DEFINE a == p * PAGE_SIZE  n == next_multiple_of(s, PAGE_SIZE)
<1>4. p \in Nat
  BY <1>3
<1>5. a \in Nat
  BY <1>3, <1>4
<1>6. OnPage(a)
  BY <1>3, <1>4, <1>5, Multiples DEF OnPage
<1>7. n \in Nat /\ s <= n /\ n % PAGE_SIZE = 0
  BY <1>3, Rounding
<1> HIDE DEF a, n
<1>8. n \in Nat \ {0}
  BY <1>3, <1>7
<1>9. c = Chunk(a, n)
  BY <1>1 DEF a, n
<1>10. c \in Chunks /\ c.base = a /\ c.size = n
  BY <1>5, <1>8, <1>9, ChunkIs
<1>11. Paged(c)
  BY <1>6, <1>7, <1>10 DEF Paged, OnPage
<1> QED BY <1>2, <1>10, <1>11, SpaceHas

\* A chunk is known by its base and size
LEMMA SameChunk ==
  ASSUME NEW c \in Chunks, NEW d \in Chunks, c.base = d.base, c.size = d.size
  PROVE  c = d
BY ChunkFacts

\* Anywhere: what is recorded covers the pages given
LEMMA AllocatedRange ==
  ASSUME MemoryInv, NEW s \in Nat \ {0}, NEW r, r = allocate(Mem, s), r.ok
  PROVE  Gives(Mem, r) /\ PageRange(r.chunk.base, s) = r.chunk
<1>1. PICK m : m = Mem
  OBVIOUS
<1>2. IsMem(m) /\ VMInv(m.vm)
  BY <1>1, MemOwn DEF OwnInv
<1>3. Gives(m, r) /\ r.chunk.size = next_multiple_of(s, PAGE_SIZE)
  BY <1>1, <1>2, AllocateGives
<1>4. r.chunk \in Chunks /\ OnPage(r.chunk.base) /\ r.chunk.base \in Nat
  BY <1>3, ChunkFacts DEF Gives, Paged
<1>5. PICK d : d = PageRange(r.chunk.base, s)
  OBVIOUS
<1>6. d \in Chunks /\ d.base = r.chunk.base /\ d.size = r.chunk.size
  BY <1>3, <1>4, <1>5, PageRangeFacts
<1> QED BY <1>1, <1>3, <1>4, <1>5, <1>6, SameChunk

\* At an address: the pages that were named
LEMMA AllocatedHere ==
  ASSUME NEW m, IsMem(m), VMInv(m.vm), NEW c \in Chunks, Paged(c), NEW r, r = allocate_here(m, c.base, c.size)
  PROVE  /\ r.ok => Gives(m, r) /\ r.chunk = c /\ PageRange(r.chunk.base, c.size) = r.chunk
         /\ Bytes(c) \subseteq Covered(m.vm.unused) => r.ok
<1>1. PICK a \in Nat, k \in Nat \ {0} : a = c.base /\ k = c.size
  BY ChunkFacts
<1>2. PageRange(a, k) = c
  BY <1>1, PagedRange
<1>3. r = allocate_here(m, a, k)
  BY <1>1
<1>4. /\ r.ok => Gives(m, r) /\ r.chunk = PageRange(a, k)
      /\ Bytes(PageRange(a, k)) \subseteq Covered(m.vm.unused) => r.ok
  BY <1>3, AllocateHereGives
<1> QED BY <1>1, <1>2, <1>4

\* vm_deallocate
LEMMA VmDeallocateInv ==
  ASSUME MemoryInv, NEW c \in mach, vm_deallocate(c)
  PROVE  MemoryInv'
<1>1. PICK m, A, P : m = Mem /\ A = mach /\ P = mmaps
  OBVIOUS
<1>2. Known(m, A, P) /\ ZonesInv(zones, heaps)
  BY <1>1 DEF MemoryInv
<1>3. PICK n : n = deallocate(m, c.base, c.size)
  OBVIOUS
<1>4. Known(n, A \ {c}, P)
  BY <1>1, <1>2, <1>3, KnownMachFreed
<1>5. vm' = n.vm /\ heaps' = n.heaps /\ mach' = A \ {c} /\ zones' = zones /\ mmaps' = P
  BY <1>1, <1>3 DEF vm_deallocate, Commit
<1>6. n.heaps = heaps
  BY <1>1, <1>3, MemHas DEF deallocate
<1>7. Mem' = n
  BY <1>4, <1>5 DEF Mem, Known, OwnInv, IsMem
<1> QED BY <1>2, <1>4, <1>5, <1>6, <1>7 DEF MemoryInv

\* State::untrack_range cuts the range out of the records, as remove_range does
LEMMA UntrackIs ==
  ASSUME ChunkSet(mmaps), NEW c \in Chunks
  PROVE  untrack_range(c) = Cut(mmaps, c)
<1>1. PICK hit : hit = {d \in mmaps : ~Disjoint(d, c)}
  OBVIOUS
<1>2. untrack_range(c) = (mmaps \ hit) \cup UNION {difference(d, c) : d \in hit}
  BY <1>1 DEF untrack_range
<1>3. PICK P : P = mmaps
  OBVIOUS
<1>4. (P \ hit) \cup UNION {difference(d, c) : d \in hit} = Cut(P, c)
  BY <1>1, <1>3, CutOnlyHit
<1> QED BY <1>2, <1>3, <1>4

\* A range is unmapped: freed and cut out of the records
LEMMA Unmapped ==
  ASSUME MemoryInv, NEW c \in UnmapRanges, NEW n, n = deallocate(Mem, c.base, c.size)
  PROVE  /\ Known(n, mach, untrack_range(c)) /\ n.heaps = heaps
         /\ c \in Chunks /\ Paged(c) /\ Bytes(c) \subseteq Covered(n.vm.unused)
<1>1. PICK m, A, P, Q : m = Mem /\ A = mach /\ P = mmaps /\ Q = untrack_range(c)
  OBVIOUS
<1>2. Known(m, A, P)
  BY <1>1 DEF MemoryInv
<1>3. c \in Chunks /\ Paged(c) /\ Bytes(c) \subseteq Space /\ (UnmapsOnlyMapped => Bytes(c) \subseteq Covered(P))
  BY <1>1, RangeFacts DEF UnmapRanges
<1>4. UnmapsOnlyMapped => Q = Cut(P, c)
  BY <1>1, <1>2, <1>3, UntrackIs DEF Known, Apart
<1>5. Known(n, A, Q) /\ Bytes(c) \subseteq Covered(n.vm.unused)
  BY <1>1, <1>2, <1>3, <1>4, KnownUnmapped
<1>6. n.heaps = heaps
  BY MemHas DEF deallocate
<1> QED BY <1>1, <1>3, <1>5, <1>6

\* munmap
LEMMA MunmapInv ==
  ASSUME MemoryInv, NEW c \in UnmapRanges, munmap(c)
  PROVE  MemoryInv'
<1>1. PICK n : n = deallocate(Mem, c.base, c.size)
  OBVIOUS
<1>2. Known(n, mach, untrack_range(c)) /\ n.heaps = heaps
  BY <1>1, Unmapped
<1>3. vm' = n.vm /\ heaps' = n.heaps /\ mach' = mach /\ zones' = zones /\ mmaps' = untrack_range(c)
  BY <1>1 DEF munmap, Commit
<1>4. Mem' = n
  BY <1>2, <1>3 DEF Mem, Known, OwnInv, IsMem
<1>5. Known(Mem', mach', mmaps') /\ heaps' = heaps
  BY <1>2, <1>3, <1>4
<1> QED BY <1>3, <1>5 DEF MemoryInv

\* mmap at a fixed address, which never fails: it has just freed the range
LEMMA MmapFixedInv ==
  ASSUME MemoryInv, NEW c \in UnmapRanges, mmap_fixed(c)
  PROVE  MemoryInv'
<1>1. PICK n, A, Q : n = deallocate(Mem, c.base, c.size) /\ A = mach /\ Q = untrack_range(c)
  OBVIOUS
<1>2. Known(n, A, Q) /\ n.heaps = heaps /\ c \in Chunks /\ Paged(c) /\ Bytes(c) \subseteq Covered(n.vm.unused)
  BY <1>1, Unmapped
<1>3. PICK r : /\ r = allocate_here(n, c.base, c.size) /\ Settle(r)
               /\ mmaps' = (IF r.ok THEN Q \cup {r.chunk} ELSE Q)
               /\ zones' = zones /\ mach' = mach
  BY <1>1 DEF mmap_fixed, Mapping
<1>4. r.ok /\ Gives(n, r)
  BY <1>2, <1>3, AllocatedHere DEF Known, OwnInv
<1>5. Known(r.mem, A, Q \cup {r.chunk})
  BY <1>2, <1>4, KnownMapped
<1>6. r.ok => IsMem(r.mem)
  BY <1>4 DEF Gives
<1>7. Mem' = r.mem /\ heaps' = r.mem.heaps
  BY <1>3, <1>4, <1>6, SettleMem
<1>8. heaps' = heaps
  BY <1>2, <1>4, <1>7 DEF Gives
<1>9. Known(Mem', mach', mmaps')
  BY <1>1, <1>3, <1>4, <1>5, <1>7
<1> QED BY <1>3, <1>8, <1>9 DEF MemoryInv

\* malloc and valloc
LEMMA MallocCallInv == MemoryInv /\ MallocCall => MemoryInv'
<1> SUFFICES ASSUME MemoryInv, MallocCall PROVE MemoryInv'
  OBVIOUS
<1>1. MallocSizes \subseteq Nat /\ PageSizes \subseteq Nat \ {0}
  BY RequestsAssumption
<1>2. CASE \E s \in MallocSizes : malloc(s)
  BY <1>1, <1>2, MallocInv
<1>3. CASE \E s \in PageSizes : valloc(s)
  BY <1>1, <1>3, VallocInv
<1> QED BY <1>2, <1>3 DEF MallocCall

\* The calls on zones
LEMMA ZoneCallsInv == MemoryInv /\ ZoneCall => MemoryInv'
<1> SUFFICES ASSUME MemoryInv, ZoneCall PROVE MemoryInv'
  OBVIOUS
<1>1. MallocSizes \subseteq Nat /\ \A s \in {0} \cup PageSizes : s \in Nat
  BY RequestsAssumption
<1>2. CASE \E z \in HeapIds, s \in MallocSizes : malloc_zone_malloc(z, s)
  BY <1>1, <1>2, ZoneMallocInv
<1>3. CASE \E z \in HeapIds : \E b \in Allocations(z) \ {zones[y] : y \in HeapIds} :
             malloc_zone_free(z, b) \/ \E s \in MallocSizes : malloc_zone_realloc(z, b, s)
  <2>1. PICK z \in HeapIds : \E b \in Allocations(z) \ {zones[y] : y \in HeapIds} :
             malloc_zone_free(z, b) \/ \E s \in MallocSizes : malloc_zone_realloc(z, b, s)
    BY <1>3
  <2>2. PICK b : malloc_zone_free(z, b) \/ \E s \in MallocSizes : malloc_zone_realloc(z, b, s)
    BY <2>1
  <2>3. CASE malloc_zone_free(z, b)
    BY <2>3, ZoneFreeInv
  <2>4. CASE \E s \in MallocSizes : malloc_zone_realloc(z, b, s)
    BY <1>1, <2>4, ZoneReallocInv
  <2> QED BY <2>2, <2>3, <2>4
<1>4. CASE \E z \in Zones, s \in {0} \cup PageSizes : malloc_create_zone(z, s)
  BY <1>1, <1>4, CreateZoneInv
<1>5. CASE \E z \in Zones : malloc_destroy_zone(z)
  BY <1>5, DestroyZoneInv
<1> QED BY <1>2, <1>3, <1>4, <1>5 DEF ZoneCall

\* mmap at a hint, or elsewhere if that is taken
LEMMA MmapHintInv ==
  ASSUME MemoryInv, NEW c \in Ranges, mmap_hint(c.base, c.size)
  PROVE  MemoryInv'
<1>1. PICK m : m = Mem
  OBVIOUS
<1>2. PICK h : h = allocate_here(m, c.base, c.size) /\ Mapping(IF h.ok THEN h ELSE allocate(Mem, c.size), mmaps)
  BY <1>1 DEF mmap_hint
<1>3. PICK r : r = IF h.ok THEN h ELSE allocate(Mem, c.size)
  OBVIOUS
<1>4. c \in Chunks /\ Paged(c) /\ c.size \in Nat \ {0}
  BY RangeFacts, ChunkFacts
<1>5. IsMem(m) /\ VMInv(m.vm)
  BY <1>1, MemOwn DEF OwnInv
<1>6. CASE h.ok
  <2>1. r = h /\ Gives(Mem, r)
    BY <1>1, <1>2, <1>3, <1>4, <1>5, <1>6, AllocatedHere
  <2>2. Mapping(r, mmaps)
    BY <1>2, <1>3
  <2> QED BY <2>1, <2>2, MappingInv
<1>7. CASE ~h.ok
  <2>1. r = allocate(Mem, c.size) /\ (r.ok => Gives(Mem, r))
    BY <1>3, <1>4, <1>7, AllocatedRange
  <2>2. Mapping(r, mmaps)
    BY <1>2, <1>3
  <2> QED BY <2>1, <2>2, MappingInv
<1> QED BY <1>6, <1>7

\* The calls on the page allocator
LEMMA PageCallInv == MemoryInv /\ PageCall => MemoryInv'
<1> SUFFICES ASSUME MemoryInv, PageCall PROVE MemoryInv'
  OBVIOUS
<1>1. PageSizes \subseteq Nat \ {0}
  BY RequestsAssumption
<1>2. ASSUME NEW s \in PageSizes, vm_allocate(allocate(Mem, s), s) PROVE MemoryInv'
  <2>1. PICK r : r = allocate(Mem, s)
    OBVIOUS
  <2>2. r.ok => Gives(Mem, r) /\ PageRange(r.chunk.base, s) = r.chunk
    BY <1>1, <2>1, AllocatedRange
  <2>3. vm_allocate(r, s)
    BY <1>2, <2>1
  <2> QED BY <1>1, <2>2, <2>3, VmAllocateInv
<1>3. ASSUME NEW c \in Ranges, vm_allocate(allocate_here(Mem, c.base, c.size), c.size) PROVE MemoryInv'
  <2>1. PICK m, r, s : m = Mem /\ r = allocate_here(m, c.base, c.size) /\ s = c.size
    OBVIOUS
  <2>2. IsMem(m) /\ VMInv(m.vm) /\ c \in Chunks /\ Paged(c) /\ s \in Nat \ {0}
    BY <2>1, MemOwn, RangeFacts, ChunkFacts DEF OwnInv
  <2>3. r.ok => Gives(Mem, r) /\ PageRange(r.chunk.base, s) = r.chunk
    BY <2>1, <2>2, AllocatedHere
  <2>4. vm_allocate(r, s)
    BY <1>3, <2>1
  <2> QED BY <2>2, <2>3, <2>4, VmAllocateInv
<1>4. ASSUME NEW c \in mach, vm_deallocate(c) PROVE MemoryInv'
  BY <1>4, VmDeallocateInv
<1>5. ASSUME NEW s \in PageSizes, mmap(s) PROVE MemoryInv'
  <2>1. PICK r : r = allocate(Mem, s)
    OBVIOUS
  <2>2. r.ok => Gives(Mem, r)
    BY <1>1, <2>1, AllocatedRange
  <2>3. Mapping(r, mmaps)
    BY <1>5, <2>1 DEF mmap
  <2> QED BY <2>2, <2>3, MappingInv
<1>6. ASSUME NEW c \in Ranges, mmap_hint(c.base, c.size) PROVE MemoryInv'
  BY <1>6, MmapHintInv
<1>7. ASSUME NEW c \in UnmapRanges, mmap_fixed(c) \/ munmap(c) PROVE MemoryInv'
  BY <1>7, MmapFixedInv, MunmapInv
<1> QED BY <1>2, <1>3, <1>4, <1>5, <1>6, <1>7 DEF PageCall

\* Every step of the guest keeps the invariant
LEMMA StepInv == MemoryInv /\ [Next]_vars => MemoryInv'
<1> SUFFICES ASSUME MemoryInv, [Next]_vars PROVE MemoryInv'
  OBVIOUS
<1>1. CASE Next
  BY <1>1, MallocCallInv, ZoneCallsInv, PageCallInv DEF Next
<1>2. CASE UNCHANGED vars
  <2>1. vm' = vm /\ heaps' = heaps /\ zones' = zones /\ mach' = mach /\ mmaps' = mmaps
    BY <1>2 DEF vars
  <2>2. Mem' = Mem
    BY <2>1 DEF Mem
  <2> QED BY <2>1, <2>2 DEF MemoryInv
<1> QED BY <1>1, <1>2

\* The inductive invariant of guest memory holds in every reachable state, for any sizes, zones,
\* reserved segments and requests: the page allocator keeps a partition with no free neighbours;
\* and if the guest unmaps only what it mapped, every heap keeps a partition of its pages, and each
\* page in use is that of one heap, one mapping, one vm_allocate or one segment of the binary.
THEOREM MemoryInvariance == Spec => []MemoryInv
<1>1. Init => MemoryInv
  BY InitInv
<1>2. MemoryInv /\ [Next]_vars => MemoryInv'
  BY StepInv
<1> QED BY <1>1, <1>2, PTL DEF Spec

-----------------------------------------------------------------------------
(***************************************************************************)
(* What the invariant says of the properties.                              *)
(***************************************************************************)
\* Chunks of two sets that share no byte
LEMMA JoinedSets ==
  ASSUME NEW S, NEW T, ChunkSet(S), ChunkSet(T), Covered(S) \cap Covered(T) = {}
  PROVE  ChunkSet(S \cup T) /\ Covered(S \cup T) = Covered(S) \cup Covered(T) /\ S \cap T = {}
<1>1. \A c \in S : c \in Chunks /\ Bytes(c) \subseteq Covered(S)
  BY InCovered DEF ChunkSet
<1>2. \A c \in T : c \in Chunks /\ Bytes(c) \subseteq Covered(T)
  BY InCovered DEF ChunkSet
<1>3. \A c \in S, d \in T : Bytes(c) \cap Bytes(d) = {} /\ Bytes(d) \cap Bytes(c) = {}
  BY <1>1, <1>2
<1>4. \A c \in S, d \in T : Disjoint(c, d) /\ Disjoint(d, c)
  BY <1>1, <1>2, <1>3, DisjointBytes
<1>5. PairwiseDisjoint(S \cup T)
  BY <1>4 DEF ChunkSet, PairwiseDisjoint
<1>6. \A c \in S : c.base \in Bytes(c)
  BY <1>1, ChunkFacts
<1>7. S \cap T = {}
  BY <1>3, <1>6
<1> QED BY <1>1, <1>2, <1>5, <1>7, CoveredSets DEF ChunkSet

\* The page allocator keeps a partition of the address space, with no free neighbours
LEMMA PartitionHolds == MemoryInv => VMPartition /\ VMCoalesced
<1> SUFFICES ASSUME MemoryInv PROVE VMPartition /\ VMCoalesced
  OBVIOUS
<1>1. VMInv(vm)
  BY MemOwn, MemHas DEF OwnInv
<1>2. ChunkSet(vm.used) /\ ChunkSet(vm.unused) /\ Covered(vm.used) \cap Covered(vm.unused) = {}
  BY <1>1 DEF VMInv, PageSet
<1>3. /\ ChunkSet(vm.used \cup vm.unused) /\ vm.used \cap vm.unused = {}
      /\ Covered(vm.used \cup vm.unused) = Covered(vm.used) \cup Covered(vm.unused)
  BY <1>2, JoinedSets
<1>4. VMPartition
  BY <1>1, <1>3 DEF VMPartition, VMInv, Space, ChunkSet
<1>5. VMCoalesced
  BY <1>1 DEF VMInv, Coalesced, VMCoalesced
<1> QED BY <1>4, <1>5

\* The ranges of vm_allocate are its records rounded to pages
LEMMA RangesAre == MemoryInv => RangesOf(mach) = PageRounded(mach)
<1> SUFFICES ASSUME MemoryInv PROVE RangesOf(mach) = PageRounded(mach)
  OBVIOUS
<1>1. \A c \in mach : c \in Chunks /\ OnPage(c.base)
  BY DEF MemoryInv, Known, MachInv
<1>2. ASSUME NEW c \in mach PROVE MachRange(c) = Chunk(c.base, next_multiple_of(c.size, PAGE_SIZE))
  <2>1. c.base % PAGE_SIZE = 0 /\ c.base \in Nat
    BY <1>1, ChunkFacts DEF OnPage
  <2>2. page_base(c.base) = c.base
    BY <2>1 DEF page_base
  <2> QED BY <2>2 DEF MachRange, PageRange
<1> QED BY <1>2, Zenon DEF RangesOf, PageRounded

\* The chunks a heap has handed out
HandedOut(h) == h.used \cup h.external

\* What a heap has handed out lies in its pages
LEMMA HandedOutFacts ==
  ASSUME NEW h, HeapInv(h)
  PROVE  ChunkSet(HandedOut(h)) /\ Covered(HandedOut(h)) \subseteq PagesOf(h)
<1>1. ChunkSet(h.used) /\ ChunkSet(h.external) /\ Covered(h.used) \cap Covered(h.external) = {}
  BY DEF HeapInv
<1>2. Covered(HandedOut(h)) = Covered(h.used) \cup Covered(h.external)
  BY CoveredSets DEF HandedOut
<1>3. ChunkSet(HandedOut(h))
  BY <1>1, JoinedSets DEF HandedOut
<1> QED BY <1>2, <1>3 DEF HeapInv, PagesOf

\* What the invariant says of a careful guest, in one place
LEMMA CarefulFacts ==
  ASSUME MemoryInv, UnmapsOnlyMapped
  PROVE  /\ \A z \in HeapIds : HeapInv(heaps[z]) /\ PagesOf(heaps[z]) \cap Others = {}
         /\ \A y, z \in HeapIds : y # z => PagesOf(heaps[y]) \cap PagesOf(heaps[z]) = {}
         /\ Others \subseteq Covered(vm.used)
         /\ \A b \in Covered(vm.used) : b \in Others \/ \E z \in HeapIds : b \in PagesOf(heaps[z])
         /\ \A z \in HeapIds : PagesOf(heaps[z]) \subseteq Covered(vm.used)
         /\ Apart(mach, mmaps)
<1>1. PICK m, E : m = Mem /\ E = Others
  OBVIOUS
<1>2. Owned(m, E)
  BY <1>1, MemOwn DEF OwnInv
<1>3. m.heaps = heaps /\ m.vm = vm
  BY <1>1, MemHas
<1>4. Apart(mach, mmaps)
  BY DEF MemoryInv, Known
<1> QED BY <1>1, <1>2, <1>3, <1>4 DEF Owned

\* Every heap keeps a partition of its pages
LEMMA HeapPartitionHolds == MemoryInv /\ UnmapsOnlyMapped => HeapPartition
<1> SUFFICES ASSUME MemoryInv, UnmapsOnlyMapped, NEW z \in HeapIds, NEW h, h = heaps[z]
             PROVE  /\ PairwiseDisjoint(h.used \cup h.unused) /\ h.used \cap h.unused = {}
                    /\ Covered(h.used \cup h.unused) = Covered(h.backing)
  BY DEF HeapPartition
<1>1. HeapInv(h)
  BY CarefulFacts
<1>2. ChunkSet(h.used) /\ ChunkSet(h.unused) /\ Covered(h.used) \cap Covered(h.unused) = {}
  BY <1>1 DEF HeapInv
<1>3. /\ ChunkSet(h.used \cup h.unused) /\ h.used \cap h.unused = {}
      /\ Covered(h.used \cup h.unused) = Covered(h.used) \cup Covered(h.unused)
  BY <1>2, JoinedSets
<1> QED BY <1>1, <1>3 DEF HeapInv, ChunkSet

\* Distinct page ranges of vm_allocate, as a set of chunks
LEMMA RangesChunks == MemoryInv /\ UnmapsOnlyMapped => ChunkSet(RangesOf(mach))
<1> SUFFICES ASSUME MemoryInv, UnmapsOnlyMapped PROVE ChunkSet(RangesOf(mach))
  OBVIOUS
<1>1. ASSUME NEW c \in mach PROVE MachRange(c) \in Chunks
  <2>1. c.base \in Nat /\ c.size \in Nat \ {0}
    BY ChunkFacts DEF MemoryInv, Known, MachInv
  <2> QED BY <2>1, PageRangeFacts DEF MachRange
<1>2. ASSUME NEW c \in mach, NEW d \in mach PROVE MachRange(c) = MachRange(d) \/ Disjoint(MachRange(c), MachRange(d))
  <2>1. c = d \/ Bytes(MachRange(c)) \cap Bytes(MachRange(d)) = {}
    BY CarefulFacts DEF Apart
  <2> QED BY <1>1, <2>1, DisjointBytes
<1> QED BY <1>1, <1>2 DEF RangesOf, ChunkSet, PairwiseDisjoint

\* What is not a heap's is one chunk map
LEMMA OthersChunks ==
  ASSUME MemoryInv, UnmapsOnlyMapped
  PROVE  /\ ChunkSet(RangesOf(mach) \cup mmaps \cup Reserved)
         /\ Covered(RangesOf(mach) \cup mmaps \cup Reserved) = Others
<1> DEFINE R == RangesOf(mach)  T == R \cup mmaps
<1>1. Apart(mach, mmaps) /\ ChunkSet(R)
  BY CarefulFacts, RangesChunks
<1> HIDE DEF R
<1>2. ChunkSet(Reserved)
  BY ReservedAssumption DEF ChunkSet
<1>3. /\ ChunkSet(mmaps) /\ Covered(R) \cap Covered(mmaps) = {}
      /\ Covered(R) \cap Covered(Reserved) = {} /\ Covered(mmaps) \cap Covered(Reserved) = {}
  BY <1>1 DEF Apart, R
<1>4. ChunkSet(T) /\ Covered(T) = Covered(R) \cup Covered(mmaps)
  BY <1>1, <1>3, JoinedSets
<1>5. Covered(T) \cap Covered(Reserved) = {}
  BY <1>3, <1>4
<1> HIDE DEF T
<1>6. ChunkSet(T \cup Reserved) /\ Covered(T \cup Reserved) = Covered(T) \cup Covered(Reserved)
  BY <1>2, <1>4, <1>5, JoinedSets
<1> QED BY <1>4, <1>6 DEF T, R, Others, Theirs

\* Sets of chunks of different heaps
LEMMA FamilyChunks ==
  ASSUME NEW I, NEW F, \A i \in I : ChunkSet(F[i]),
         \A i, j \in I : i # j => Covered(F[i]) \cap Covered(F[j]) = {}
  PROVE  /\ ChunkSet(UNION {F[i] : i \in I})
         /\ \A b : b \in Covered(UNION {F[i] : i \in I}) <=> \E i \in I : b \in Covered(F[i])
         /\ \A i, j \in I : i # j => F[i] \cap F[j] = {}
<1> DEFINE U == UNION {F[i] : i \in I}
<1>1. \A c : c \in U <=> \E i \in I : c \in F[i]
  OBVIOUS
<1> HIDE DEF U
<1>2. \A i \in I : \A c \in F[i] : c \in Chunks /\ Bytes(c) \subseteq Covered(F[i])
  BY InCovered DEF ChunkSet
<1>3. ASSUME NEW c \in U, NEW d \in U PROVE c = d \/ Disjoint(c, d)
  <2>1. PICK i \in I : c \in F[i]
    BY <1>1
  <2>2. PICK j \in I : d \in F[j]
    BY <1>1
  <2>3. CASE i = j
    BY <2>1, <2>2, <2>3 DEF ChunkSet, PairwiseDisjoint
  <2>4. CASE i # j
    <3>1. Bytes(c) \cap Bytes(d) = {}
      BY <1>2, <2>1, <2>2, <2>4
    <3> QED BY <1>2, <2>1, <2>2, <3>1, DisjointBytes
  <2> QED BY <2>3, <2>4
<1>4. ChunkSet(U)
  BY <1>1, <1>2, <1>3 DEF ChunkSet, PairwiseDisjoint
<1>5. \A b : b \in Covered(U) <=> \E i \in I : b \in Covered(F[i])
  BY <1>1, InCovered
<1>6. ASSUME NEW i \in I, NEW j \in I, i # j PROVE F[i] \cap F[j] = {}
  <2> SUFFICES ASSUME NEW c \in F[i], c \in F[j] PROVE FALSE
    OBVIOUS
  <2>1. c \in Chunks /\ Bytes(c) \subseteq Covered(F[i]) /\ Bytes(c) \subseteq Covered(F[j])
    BY <1>2
  <2>2. c.base \in Bytes(c)
    BY <2>1, ChunkFacts
  <2>3. Covered(F[i]) \cap Covered(F[j]) = {}
    BY <1>6
  <2> QED BY <2>1, <2>2, <2>3
<1> QED BY <1>4, <1>5, <1>6 DEF U

\* No two live allocations share a byte
LEMMA NoOverlapHolds == MemoryInv /\ UnmapsOnlyMapped => NoOverlap
<1> SUFFICES ASSUME MemoryInv, UnmapsOnlyMapped PROVE NoOverlap
  OBVIOUS
<1> DEFINE small == UNION {heaps[z].used : z \in HeapIds}
           big == UNION {heaps[z].external : z \in HeapIds}
           rest == RangesOf(mach) \cup mmaps \cup Reserved
<1>1. PICK F : F = [z \in HeapIds |-> HandedOut(heaps[z])]
  OBVIOUS
<1> DEFINE U == UNION {F[z] : z \in HeapIds}
<1>2. \A z \in HeapIds : F[z] = heaps[z].used \cup heaps[z].external
  BY <1>1 DEF HandedOut
<1>3. U = small \cup big
  BY <1>2
<1>4. \A z \in HeapIds : ChunkSet(F[z]) /\ Covered(F[z]) \subseteq PagesOf(heaps[z])
  BY <1>1, CarefulFacts, HandedOutFacts
<1>5. \A y, z \in HeapIds : y # z => Covered(F[y]) \cap Covered(F[z]) = {}
  BY <1>4, CarefulFacts
<1>6. /\ ChunkSet(U)
      /\ \A b : b \in Covered(U) <=> \E z \in HeapIds : b \in Covered(F[z])
      /\ \A y, z \in HeapIds : y # z => F[y] \cap F[z] = {}
  BY <1>4, <1>5, FamilyChunks
<1>7. ChunkSet(rest) /\ Covered(rest) = Others
  BY OthersChunks
<1> HIDE DEF U, rest
<1>8. Covered(U) \cap Covered(rest) = {}
  <2>1. \A z \in HeapIds : Covered(F[z]) \cap Others = {}
    BY <1>4, CarefulFacts
  <2> QED BY <1>6, <1>7, <2>1
<1>9. ChunkSet(U \cup rest)
  BY <1>6, <1>7, <1>8, JoinedSets
<1>10. U \cup rest = small \cup big \cup PageRounded(mach) \cup mmaps \cup Reserved
  BY <1>3, RangesAre DEF rest
<1>11. PairwiseDisjoint(small \cup big \cup PageRounded(mach) \cup mmaps \cup Reserved)
  BY <1>9, <1>10 DEF ChunkSet
<1>12. \A y, z \in HeapIds : y # z =>
         (heaps[y].used \cup heaps[y].external) \cap (heaps[z].used \cup heaps[z].external) = {}
  BY <1>2, <1>6
<1> QED BY <1>11, <1>12 DEF NoOverlap

\* Every page in use is some part's
LEMMA PagesAccountedHolds == MemoryInv /\ UnmapsOnlyMapped => PagesAccounted
<1> SUFFICES ASSUME MemoryInv, UnmapsOnlyMapped PROVE PagesAccounted
  OBVIOUS
<1> DEFINE R == PageRounded(mach) \cup mmaps \cup Reserved
<1>1. Covered(R) = Others
  BY RangesAre, OthersChunks
<1>2. \A b : b \in Covered(HeapPages) <=> \E z \in HeapIds : b \in PagesOf(heaps[z])
  <2>1. \A z \in HeapIds : PagesOf(heaps[z]) = Covered(heaps[z].backing \cup heaps[z].external)
    BY CoveredSets DEF PagesOf
  <2>2. \A c : c \in HeapPages <=> \E z \in HeapIds : c \in heaps[z].backing \cup heaps[z].external
    BY DEF HeapPages
  <2>3. \A z \in HeapIds : \A b : b \in PagesOf(heaps[z]) <=> \E c \in heaps[z].backing \cup heaps[z].external : b \in Bytes(c)
    <3> SUFFICES ASSUME NEW z \in HeapIds, NEW b
                 PROVE  b \in PagesOf(heaps[z]) <=> \E c \in heaps[z].backing \cup heaps[z].external : b \in Bytes(c)
      OBVIOUS
    <3>1. PagesOf(heaps[z]) = Covered(heaps[z].backing \cup heaps[z].external)
      BY <2>1
    <3> QED BY <3>1 DEF Covered
  <2>4. \A b : b \in Covered(HeapPages) <=> \E c \in HeapPages : b \in Bytes(c)
    BY InCovered
  <2> QED BY <2>2, <2>3, <2>4, Zenon
<1>3. Covered(HeapPages \cup R) = Covered(HeapPages) \cup Others
  BY <1>1, CoveredSets
<1>4. \A b : b \in Covered(vm.used) <=> b \in Others \/ \E z \in HeapIds : b \in PagesOf(heaps[z])
  BY CarefulFacts
<1>5. Covered(vm.used) = Covered(HeapPages \cup R)
  BY <1>2, <1>3, <1>4
<1>6. HeapPages \cup R = HeapPages \cup PageRounded(mach) \cup mmaps \cup Reserved
  OBVIOUS
<1> QED BY <1>5, <1>6 DEF PagesAccounted

\* The search by buckets finds the best fit
LEMMA BestFitHolds == MemoryInv /\ UnmapsOnlyMapped => BestFit
<1> SUFFICES ASSUME MemoryInv, UnmapsOnlyMapped,
                    NEW S \in {vm.unused} \cup {heaps[z].unused : z \in HeapIds}, NEW n \in 1 .. STACK_LOW_END,
                    NEW fits, fits = {c \in S : c.size >= n}
             PROVE  IF fits = {} THEN Candidates(S, n) = {}
                    ELSE Found(S, n) \in {c \in fits : \A d \in fits : c.size <= d.size}
  BY DEF BestFit
<1>1. n \in Nat \ {0}
  BY SizesAssumption
<1>2. S \subseteq Chunks
  <2>1. CASE S = vm.unused
    BY <2>1, MemOwn, MemHas DEF OwnInv, VMInv, PageSet, ChunkSet
  <2>2. CASE \E z \in HeapIds : S = heaps[z].unused
    BY <2>2, CarefulFacts DEF HeapInv, ChunkSet
  <2> QED BY <2>1, <2>2
<1>3. \A c \in S : c.size \in Nat
  BY <1>2, ChunkFacts
<1>4. \A c \in S : c \in fits <=> n <= c.size
  BY <1>1, <1>3
<1>5. CASE fits = {}
  <2>1. Candidates(S, n) \subseteq {c \in S : n <= c.size}
    BY <1>1, <1>2, CandidatesFacts
  <2> QED BY <1>4, <1>5, <2>1
<1>6. CASE fits # {}
  <2>1. Candidates(S, n) # {}
    BY <1>1, <1>2, <1>4, <1>6, CandidatesFacts
  <2>2. /\ Found(S, n) \in S /\ n <= Found(S, n).size
        /\ \A c \in S : n <= c.size => Found(S, n).size <= c.size
    BY <1>1, <1>2, <2>1, FoundFacts
  <2> QED BY <1>4, <1>6, <2>2
<1> QED BY <1>5, <1>6

\* Guest memory is right for any sizes, zones, reserved segments and requests, whatever is split,
\* merged, grown, moved, destroyed or mapped over: remove_range and insert_merged keep the pages a
\* partition; for a guest that unmaps only what it mapped, malloc, valloc, zones, mmap and
\* vm_allocate never hand out a byte twice, no page leaks, and the bucket search is a best fit.
THEOREM MemoryAlwaysRight == Spec => []MemoryRight
<1>1. MemoryInv => MemoryRight
  BY PartitionHolds, HeapPartitionHolds, NoOverlapHolds, PagesAccountedHolds, BestFitHolds DEF MemoryRight
<1> QED BY <1>1, MemoryInvariance, PTL
=============================================================================
