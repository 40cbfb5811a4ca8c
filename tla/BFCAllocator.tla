---------------------------- MODULE BFCAllocator -----------------------------
(***************************************************************************)
(* BFCAllocator of core/common_runtime/bfc_allocator.cc, the best-fit      *)
(* allocator with coalescing that serves GPU memory, with the retrying     *)
(* wrapper of allocator_retry.cc.                                          *)
(*                                                                         *)
(* What lock_ protects is one record, bfc, and every method that runs      *)
(* under it is an operator from such a record to the next; an attempt to   *)
(* allocate and a deallocation are each one step, except that each round   *)
(* of the two loops of Extend is one, with lock_ held.  Sizes and          *)
(* addresses are bytes, with the constants of the code.  Around lock_, the *)
(* threads that fail to allocate wait for memory_returned_, under the      *)
(* other lock, mu_.                                                        *)
(*                                                                         *)
(* Left out: requested_size, the counters that are only reported (except   *)
(* bytes_in_use), the visitors and the logs.                               *)
(***************************************************************************)
EXTENDS Integers, FiniteSets, Sequences

CONSTANTS Clients,
          Options  \* the allocators considered, and what is asked of them

ASSUME BFCAssumption ==
    \A o \in Options : /\ o.total_memory \in Nat \ {0}
                       /\ o.allow_growth \in BOOLEAN
                       /\ o.device \in Nat
                       /\ o.sizes \subseteq Nat
                       /\ o.clients \in [Clients -> SUBSET BOOLEAN]
                              \* the values of no_retry_on_failure it uses

VARIABLES options,
          bfc,     \* the state behind lock_
          loop,    \* of each client, the loop of Extend it is in, and its locals
          pc,
          request, \* the bytes each client asks for, or has got
          held,    \* the pointer it has got
          expired  \* the clients whose deadline is over

vars == <<options, bfc, loop, pc, request, held, expired>>

-----------------------------------------------------------------------------
kMinAllocationSize == 256
kInitialRegion == 1048576      \* with allow_growth
kNumBins == 21
kInvalidBinNum == -1
kInvalidChunkHandle == 0       \* -1 in the code; chunks_ counts from 1 here
nullptr == 0

RoundedBytes(bytes) ==
    kMinAllocationSize
      * ((bytes + kMinAllocationSize - 1) \div kMinAllocationSize)

Bins == 0 .. kNumBins - 1
BinNumToSize(b) == kMinAllocationSize * 2^b

\* The last bin that begins at or below the size, which is at least 256.
BinNumForSize(bytes) ==
    CHOOSE b \in Bins : /\ BinNumToSize(b) <= bytes
                        /\ b < kNumBins - 1 => bytes < BinNumToSize(b + 1)

Smaller(a, b) == IF a <= b THEN a ELSE b

InUse(s, h) == s.chunks[h].in_use

Chunk(ptr, size, prev, next) ==
    [ptr |-> ptr, size |-> size, in_use |-> FALSE, prev |-> prev,
     next |-> next, bin_num |-> kInvalidBinNum]

\* Not in Extend, or not in one of its loops.
NoLoop == [stage |-> "none", bytes |-> 0, increased |-> FALSE]

Init ==
    /\ options \in Options
    /\ bfc = [chunks |-> <<>>,
              free_chunks_list |-> kInvalidChunkHandle,
              deleted |-> <<>>,       \* (history) what that list should hold
              bins |-> [b \in Bins |-> {}],
              regions |-> {},
              handles |-> <<>>,       \* ptr -> handle, of every region
              curr_region_allocation_bytes |->
                  RoundedBytes(IF options.allow_growth
                                 THEN Smaller(options.total_memory, kInitialRegion)
                                 ELSE options.total_memory),
              total_region_allocated_bytes |-> 0,
              started_backpedal |-> FALSE,
              bytes_in_use |-> 0,
              device_used |-> 0]      \* what the device has handed out
    /\ loop = [c \in Clients |-> NoLoop]
    /\ pc = [c \in Clients |-> "idle"]
    /\ request = [c \in Clients |-> 0]
    /\ held = [c \in Clients |-> nullptr]
    /\ expired = {}

-----------------------------------------------------------------------------
(* Chunks and bins. *)

\* The handle AllocateChunk returns: the first of the list, or a new one.
NextHandle(s) ==
    IF s.free_chunks_list # kInvalidChunkHandle THEN s.free_chunks_list
                                                ELSE Len(s.chunks) + 1

\* AllocateChunk, and what its callers write into the chunk before they use it:
\* every field but bin_num, which a reused chunk keeps.
AllocateChunk(s, c) ==
    LET h == s.free_chunks_list
    IN  IF h # kInvalidChunkHandle
          THEN [s EXCEPT !.free_chunks_list = s.chunks[h].next,
                         !.deleted = Tail(@),
                         !.chunks[h] = [c EXCEPT !.bin_num = s.chunks[h].bin_num]]
          ELSE [s EXCEPT !.chunks = Append(@, c)]

\* region_manager_.set_handle.
SetHandle(s, ptr, h) ==
    [s EXCEPT !.handles = [p \in DOMAIN @ \cup {ptr} |-> IF p = ptr THEN h ELSE @[p]]]

InsertFreeChunkIntoBin(s, h) ==
    LET b == BinNumForSize(s.chunks[h].size)
    IN  [s EXCEPT !.chunks[h].bin_num = b, !.bins[b] = @ \cup {h}]

RemoveFreeChunkFromBin(s, h) ==
    [s EXCEPT !.bins[s.chunks[h].bin_num] = @ \ {h},
              !.chunks[h].bin_num = kInvalidBinNum]

\* The neighbour h3, if there is one, gets h as its predecessor.
SetPrev(s, h3, h) ==
    IF h3 = kInvalidChunkHandle THEN s ELSE [s EXCEPT !.chunks[h3].prev = h]

\* The chunk keeps num_bytes, a new free chunk after it gets the rest.
SplitChunk(s, h, num_bytes) ==
    LET c == s.chunks[h]
        new == NextHandle(s)
        ptr == c.ptr + num_bytes
        s1 == AllocateChunk(s, Chunk(ptr, c.size - num_bytes, h, c.next))
        s2 == [s1 EXCEPT !.chunks[h].size = num_bytes, !.chunks[h].next = new]
    IN  InsertFreeChunkIntoBin(SetHandle(SetPrev(s2, c.next, new), ptr, new),
                               new)

\* erase of the handle and DeallocateChunk.  What is left in the fields of the
\* chunk is written again before it is read, except bin_num.
DeleteChunk(s, h) ==
    LET c == s.chunks[h]
    IN  [s EXCEPT
           !.handles = [p \in DOMAIN @ \ {c.ptr} |-> @[p]],
           !.chunks[h] = [Chunk(nullptr, 0, kInvalidChunkHandle,
                                s.free_chunks_list)
                            EXCEPT !.bin_num = c.bin_num],
           !.free_chunks_list = h,
           !.deleted = <<h>> \o @]

\* Mutant: the chunk after h2 keeps h2 as its predecessor.
MergeForgetsPrev(s, h1, h2) ==
    DeleteChunk([s EXCEPT !.chunks[h1].next = s.chunks[h2].next,
                          !.chunks[h1].size = @ + s.chunks[h2].size], h2)

\* h2, which follows h1, is merged into it.
Merge(s, h1, h2) ==
    LET h3 == s.chunks[h2].next
        s1 == [s EXCEPT !.chunks[h1].next = h3,
                        !.chunks[h1].size = @ + s.chunks[h2].size]
    IN  DeleteChunk(SetPrev(s1, h3, h1), h2)

\* The next chunk, if free, is merged into h ...
MergeNext(s, h) ==
    LET n == s.chunks[h].next
    IN  IF n = kInvalidChunkHandle THEN s
        ELSE IF InUse(s, n) THEN s
        ELSE Merge(RemoveFreeChunkFromBin(s, n), h, n)

\* ... and the result into the previous one, if that is free.
FreeAndMaybeCoalesce(s, h) ==
    LET s1 == [s EXCEPT !.chunks[h].in_use = FALSE,
                        !.bytes_in_use = @ - s.chunks[h].size]
        s2 == MergeNext(s1, h)
        p == s2.chunks[h].prev
    IN  IF p = kInvalidChunkHandle THEN InsertFreeChunkIntoBin(s2, h)
        ELSE IF InUse(s2, p) THEN InsertFreeChunkIntoBin(s2, h)
        ELSE InsertFreeChunkIntoBin(Merge(RemoveFreeChunkFromBin(s2, p), p, h), p)

-----------------------------------------------------------------------------
(* Finding a chunk. *)

\* Mutant: the search begins in the first bin whose chunks all fit.
CandidatesAbove(s, rounded_bytes) ==
    {h \in UNION {s.bins[b] : b \in {i \in Bins : BinNumToSize(i) > rounded_bytes}} :
        s.chunks[h].size >= rounded_bytes}

\* The chunks the search may meet: those of the first bin and the later ones.
Candidates(s, rounded_bytes) ==
    LET first == BinNumForSize(rounded_bytes)
    IN  {h \in UNION {s.bins[b] : b \in {i \in Bins : i >= first}} :
            s.chunks[h].size >= rounded_bytes}

\* The order of the search: bin, then size, then address (ChunkComparator).
Before(s, h, i) ==
    LET a == s.chunks[h]
        b == s.chunks[i]
    IN  \/ a.bin_num < b.bin_num
        \/ a.bin_num = b.bin_num /\ a.size < b.size
        \/ a.bin_num = b.bin_num /\ a.size = b.size /\ a.ptr <= b.ptr

\* FindChunkPtr for the chunk h that its search has met.
TakeChunk(s, h, rounded_bytes) ==
    LET s1 == RemoveFreeChunkFromBin(s, h)
        s2 == IF s.chunks[h].size >= rounded_bytes * 2
                THEN SplitChunk(s1, h, rounded_bytes) ELSE s1
    IN  [s2 EXCEPT !.chunks[h].in_use = TRUE,
                   !.bytes_in_use = @ + s2.chunks[h].size]

-----------------------------------------------------------------------------
(* Extending.  The sub-allocator is the device: it has a fixed amount, hands *)
(* it out from its lowest address on, and nothing is given back.            *)

DeviceGives(s, bytes) == bytes <= options.device - s.device_used
DeviceBase(s) == kMinAllocationSize + s.device_used

\* What the limit leaves, in whole units.
Available(s) ==
    ((options.total_memory - s.total_region_allocated_bytes) \div kMinAllocationSize)
      * kMinAllocationSize

\* Mutant: every round asks for half.
BackpedalFast(bytes) == RoundedBytes(bytes \div 2)

\* One round of the loop that asks for less; kBackpedalFactor is 0.9.
Backpedal(bytes) == RoundedBytes((bytes * 9) \div 10)

\* A new region of which bytes are used, although the device has given granted.
AddRegion(s, bytes, granted, increased) ==
    LET h == NextHandle(s)
        ptr == DeviceBase(s)
        s1 == [s EXCEPT
                 !.curr_region_allocation_bytes = IF increased THEN @ ELSE @ * 2,
                 !.total_region_allocated_bytes = @ + bytes,
                 !.regions = @ \cup {[ptr |-> ptr, memory_size |-> bytes]},
                 !.device_used = @ + granted]
        s2 == AllocateChunk(s1, Chunk(ptr, bytes, kInvalidChunkHandle,
                                      kInvalidChunkHandle))
    IN  InsertFreeChunkIntoBin(SetHandle(s2, ptr, h), h)

-----------------------------------------------------------------------------
(* The clients. *)

\* About to call AllocateRawInternal: once only, on the fast path, or for the
\* retrying wrapper.
Attempting == {"once", "fast", "first", "retry", "last"}
Stages == Attempting \cup {"idle", "to_wait", "waiting", "holds", "notify"}

\* AllocateRaw, with no_retry_on_failure or without.
AllocateRaw(c, bytes, no_retry) ==
    /\ pc[c] = "idle"
    /\ pc' = [pc EXCEPT ![c] = IF no_retry THEN "once" ELSE "fast"]
    /\ request' = [request EXCEPT ![c] = bytes]
    /\ UNCHANGED <<options, bfc, loop, held, expired>>

\* Mutant: every round sets the deadline anew.
AfterFailureLater(c) ==
    CASE pc[c] \in {"once", "last"} -> "idle"
      [] pc[c] = "fast" -> IF request[c] = 0 THEN "idle" ELSE "first"
      [] pc[c] \in {"first", "retry"} -> "to_wait"

\* Where a client goes on whose attempt has failed.  The retrying wrapper sets
\* the deadline after its first attempt, gives up for 0 bytes without one, and
\* tries a last time when it finds the deadline over.
AfterFailure(c) ==
    CASE pc[c] \in {"once", "last"} -> "idle"
      [] pc[c] = "fast" -> IF request[c] = 0 THEN "idle" ELSE "first"
      [] pc[c] = "first" -> "to_wait"
      [] pc[c] = "retry" -> IF c \in expired THEN "last" ELSE "to_wait"

\* AllocateRawInternal returns, and lock_ is released.
Answer(c, ptr) ==
    /\ held' = [held EXCEPT ![c] = ptr]
    /\ pc' = [pc EXCEPT ![c] = IF ptr # nullptr THEN "holds" ELSE AfterFailure(c)]
    /\ expired' = IF pc'[c] \in {"holds", "idle"} THEN expired \ {c} ELSE expired
    /\ request' = IF pc'[c] = "idle" THEN [request EXCEPT ![c] = 0] ELSE request
    /\ loop' = [loop EXCEPT ![c] = NoLoop]

\* The last search of the attempt, in the state s, and its answer.
FindChunkPtr(c, s) ==
    LET rounded_bytes == RoundedBytes(request[c])
        fit == Candidates(s, rounded_bytes)
    IN  \/ \E h \in fit : /\ \A i \in fit : Before(s, h, i)
                          /\ Answer(c, s.chunks[h].ptr)
                          /\ bfc' = TakeChunk(s, h, rounded_bytes)
        \/ fit = {} /\ Answer(c, nullptr) /\ bfc' = s

\* Extend goes on in a loop, with lock_ held.
Loop(c, s, stage, bytes, increased) ==
    /\ bfc' = s
    /\ loop' = [loop EXCEPT ![c] = [stage |-> stage, bytes |-> bytes,
                                    increased |-> increased]]
    /\ UNCHANGED <<pc, request, held, expired>>

\* Extend asks the device; it begins to ask for less only once.
Ask(c, s, increased) ==
    LET bytes == Smaller(s.curr_region_allocation_bytes, Available(s)) IN
    IF DeviceGives(s, bytes) THEN FindChunkPtr(c, AddRegion(s, bytes, bytes, increased))
    ELSE IF s.started_backpedal THEN Answer(c, nullptr) /\ bfc' = s
    ELSE Loop(c, [s EXCEPT !.started_backpedal = TRUE], "backpedal", Backpedal(bytes),
              increased)

\* Extend has to double the region size first, or asks at once.
Extend(c, s, increased) ==
    IF RoundedBytes(request[c]) > s.curr_region_allocation_bytes
      THEN Loop(c, s, "double", 0, increased)
      ELSE Ask(c, s, increased)

Locked == \E c \in Clients : loop[c].stage # "none"

\* AllocateRawInternal.
Attempt(c) ==
    LET rounded_bytes == RoundedBytes(request[c]) IN
    /\ pc[c] \in Attempting
    /\ ~Locked
    /\ IF request[c] = 0 THEN Answer(c, nullptr) /\ UNCHANGED bfc
       ELSE IF Candidates(bfc, rounded_bytes) # {} \/ rounded_bytes > Available(bfc)
         THEN FindChunkPtr(c, bfc)
       ELSE Extend(c, bfc, FALSE)
    /\ UNCHANGED options

\* A round of the loop of Extend that doubles the region size.
DoubleRegion(c) ==
    /\ loop[c].stage = "double"
    /\ Extend(c, [bfc EXCEPT !.curr_region_allocation_bytes = @ * 2], TRUE)
    /\ UNCHANGED options

\* A round of the one that asks for less.  After a success bytes is one round
\* smaller than what the device has given.
AskForLess(c) ==
    LET bytes == loop[c].bytes
        increased == loop[c].increased
    IN
    /\ loop[c].stage = "backpedal"
    /\ IF bytes <= RoundedBytes(request[c]) THEN Answer(c, nullptr) /\ UNCHANGED bfc
       ELSE IF DeviceGives(bfc, bytes)
         THEN FindChunkPtr(c, AddRegion(bfc, Backpedal(bytes), bytes, increased))
       ELSE Loop(c, bfc, "backpedal", Backpedal(bytes), increased)
    /\ UNCHANGED options

\* WaitForMilliseconds, under mu_: only from here on is the client notified.
Wait(c) ==
    /\ pc[c] = "to_wait"
    /\ pc' = [pc EXCEPT ![c] = "waiting"]
    /\ UNCHANGED <<options, bfc, loop, request, held, expired>>

\* The deadline passes.
Expire(c) ==
    /\ pc[c] \in {"to_wait", "waiting", "retry"}
    /\ c \notin expired
    /\ expired' = expired \cup {c}
    /\ UNCHANGED <<options, bfc, loop, pc, request, held>>

\* The wait ends with the deadline.
TimeOut(c) ==
    /\ pc[c] = "waiting"
    /\ c \in expired
    /\ pc' = [pc EXCEPT ![c] = "retry"]
    /\ UNCHANGED <<options, bfc, loop, request, held, expired>>

\* DeallocateRaw up to the release of lock_ ...
DeallocateRaw(c) ==
    /\ pc[c] = "holds"
    /\ ~Locked
    /\ bfc' = FreeAndMaybeCoalesce(bfc, bfc.handles[held[c]])
    /\ pc' = [pc EXCEPT ![c] = "notify"]
    /\ held' = [held EXCEPT ![c] = nullptr]
    /\ request' = [request EXCEPT ![c] = 0]
    /\ UNCHANGED <<options, loop, expired>>

\* ... and NotifyDealloc, which wakes those who are waiting now.
NotifyDealloc(c) ==
    /\ pc[c] = "notify"
    /\ pc' = [d \in Clients |-> IF d = c THEN "idle"
                                ELSE IF pc[d] = "waiting" THEN "retry"
                                ELSE pc[d]]
    /\ UNCHANGED <<options, bfc, loop, request, held, expired>>

Next ==
    \E c \in Clients :
        \/ \E bytes \in options.sizes, no_retry \in options.clients[c] :
              AllocateRaw(c, bytes, no_retry)
        \/ Attempt(c) \/ DoubleRegion(c) \/ AskForLess(c) \/ Wait(c) \/ Expire(c) \/ TimeOut(c)
        \/ DeallocateRaw(c) \/ NotifyDealloc(c)

Spec == Init /\ [][Next]_vars

\* The round of the loop that asks for less changes nothing.
Spins(c) ==
    /\ loop[c].stage = "backpedal"
    /\ loop[c].bytes > RoundedBytes(request[c]) /\ ~DeviceGives(bfc, loop[c].bytes)
    /\ Backpedal(loop[c].bytes) = loop[c].bytes

\* The steps of a thread inside AllocateRaw, and when it can take one.
Go(c) == Attempt(c) \/ DoubleRegion(c) \/ AskForLess(c) \/ Wait(c) \/ TimeOut(c)
Ready(c) ==
    \/ pc[c] \in Attempting /\ ~Locked
    \/ loop[c].stage # "none" /\ ~Spins(c)
    \/ pc[c] = "to_wait"
    \/ pc[c] = "waiting" /\ c \in expired

\* A thread that can go on does, and time passes; nobody has to ask for memory
\* or to give it back.  lock_ is held in a loop, where others wait, only finitely
\* often: the region size grows, and backpedalling happens once.  (The first
\* conjunct is WF_vars(Go(c)): Ready(c) says what ENABLED <<Go(c)>>_vars does.)
FairSpec ==
    /\ Spec
    /\ \A c \in Clients :
          /\ []<>~Ready(c) \/ []<><<Go(c)>>_vars
          /\ WF_vars(NotifyDealloc(c))
          /\ WF_vars(Expire(c))

-----------------------------------------------------------------------------
(* Properties. *)

\* The handles that stand for memory.
Live(s) == {s.handles[p] : p \in DOMAIN s.handles}

\* The memory of one chunk ends before that of the other begins.
Apart(c, d) == c.ptr + c.size <= d.ptr \/ d.ptr + d.size <= c.ptr

\* The units of memory that a chunk has, and those that the chunks H have.
Span(c) == c.ptr \div kMinAllocationSize .. (c.ptr + c.size) \div kMinAllocationSize - 1
Units(s, H) == UNION {Span(s.chunks[h]) : h \in H}

\* The chunks of a region cover it without a gap or an overlap: each knows its
\* neighbours, the first and the last of a region have none beyond it, and the
\* chunk of an address is found under that address.
ChunksTileRegions(s) ==
    /\ \A p \in DOMAIN s.handles : s.chunks[s.handles[p]].ptr = p
    /\ \A r \in s.regions :
          /\ r.ptr \in DOMAIN s.handles
          /\ s.chunks[s.handles[r.ptr]].prev = kInvalidChunkHandle
    /\ \A h \in Live(s) :
          LET c == s.chunks[h] IN
          /\ IF c.next = kInvalidChunkHandle
               THEN \E r \in s.regions : c.ptr + c.size = r.ptr + r.memory_size
               ELSE /\ c.next \in Live(s)
                    /\ s.chunks[c.next].ptr = c.ptr + c.size
                    /\ s.chunks[c.next].prev = h
          /\ IF c.prev = kInvalidChunkHandle
               THEN \E r \in s.regions : c.ptr = r.ptr
               ELSE c.prev \in Live(s) /\ s.chunks[c.prev].next = h
          /\ \A i \in Live(s) \ {h} : Apart(c, s.chunks[i])
    /\ kMinAllocationSize * Cardinality(Units(s, Live(s))) = s.total_region_allocated_bytes

\* The bins hold the free chunks, each in the bin of its size, and no chunk that
\* is in use or deleted; two free neighbours have always been merged.
FreeChunksBinned(s) ==
    /\ \A b \in Bins : s.bins[b] =
          {h \in Live(s) : ~InUse(s, h) /\ s.chunks[h].bin_num = b}
    /\ \A h \in DOMAIN s.chunks :
          LET c == s.chunks[h] IN
          /\ c.bin_num = IF h \in Live(s) /\ ~c.in_use THEN BinNumForSize(c.size)
                                                       ELSE kInvalidBinNum
          /\ h \in Live(s) /\ ~c.in_use /\ c.next # kInvalidChunkHandle
               => InUse(s, c.next)

\* The list of free chunk records, from free_chunks_list through next, holds
\* exactly the deleted ones.
DeletedChunksListed(s) ==
    LET l == s.deleted
        at(i) == IF i \in DOMAIN l THEN l[i] ELSE kInvalidChunkHandle
    IN  /\ s.free_chunks_list = at(1)
        /\ \A i \in DOMAIN l : /\ s.chunks[l[i]].next = at(i + 1)
                               /\ \A j \in DOMAIN l \ {i} : l[i] # l[j]
        /\ {l[i] : i \in DOMAIN l} = DOMAIN s.chunks \ Live(s)

Used(s) == {h \in Live(s) : InUse(s, h)}

\* The clients own exactly the chunks that are in use, each one its own, at least
\* as large as what it has asked for.
BlocksOwned ==
    LET Holders == {c \in Clients : held[c] # nullptr} IN
    /\ \A c \in Holders : /\ held[c] \in DOMAIN bfc.handles
                          /\ bfc.chunks[bfc.handles[held[c]]].size >= request[c]
                          /\ \A d \in Holders \ {c} : held[c] # held[d]
    /\ Used(bfc) = {bfc.handles[held[c]] : c \in Holders}
    /\ bfc.bytes_in_use = kMinAllocationSize * Cardinality(Units(bfc, Used(bfc)))

\* The books of the allocator are exact whatever sequence of allocations,
\* splits, merges and extensions has led to them, and no two clients share
\* memory.  (SplitChunk, Merge, FreeAndMaybeCoalesce and Extend each update
\* several of chunks_, bins, handles_ and the list of free records.)
MemorySound ==
    /\ ChunksTileRegions(bfc)
    /\ FreeChunksBinned(bfc)
    /\ DeletedChunksListed(bfc)
    /\ BlocksOwned

\* The most that a round of the loop reduces to bytes, or to less.
BeforeBackpedal(bytes) == (10 * bytes + 9) \div 9

\* Why an attempt of c to get n bytes may fail in this step.  The limit leaves too
\* little; or Extend has come, in the loop, to less than n although it asks for as
\* much as it can: the device has refused a region at most two rounds larger than n
\* (the second round is the one after a success); or there is no loop any more,
\* "Only backpedal once", and the device refuses, now, the one region that Extend
\* asks for, in which n would fit.
Refused(c, n) ==
    \/ options.total_memory - bfc'.total_region_allocated_bytes < n
    \/ /\ loop[c].stage = "backpedal"
       /\ ~DeviceGives(bfc, BeforeBackpedal(BeforeBackpedal(n)))
    \/ /\ loop[c].stage # "backpedal"
       /\ bfc.started_backpedal
       /\ LET bytes == Smaller(bfc'.curr_region_allocation_bytes, Available(bfc'))
          IN  n <= bytes /\ ~DeviceGives(bfc', bytes)

\* An attempt that fails leaves no free chunk that is large enough, so no chunk is
\* hidden in a bin the search skips; and it fails for the limit or after a refusal
\* of the device in this same attempt.  (FindChunkPtr, AllocateRawInternal and
\* Extend.  The region refused may be larger than the request: ExtendSatisfies.)
FailsOnlyWhenFull ==
    [][\A c \in Clients :
          pc[c] \in Attempting
            /\ pc'[c] \notin {pc[c], "holds"} /\ request[c] # 0 =>
          LET n == RoundedBytes(request[c]) IN
          /\ \A h \in Live(bfc)' : bfc'.chunks[h].in_use \/ bfc'.chunks[h].size < n
          /\ Refused(c, n)
      ]_vars

\* "Try to add a new memory region that can satisfy an allocation of
\* 'rounded_bytes' bytes.  Returns true on success" (bfc_allocator.h): a step that
\* adds a region gives a client its memory.
ExtendSatisfies ==
    [][bfc'.regions # bfc.regions =>
          \E c \in Clients : held[c] = nullptr /\ held'[c] # nullptr]_vars

\* "If the first attempt to allocate the memory fails, the allocation should return
\* immediately without retrying" (no_retry_on_failure, allocator.h): a client that
\* asks for that gets its answer.
ScratchReturns ==
    \A c \in Clients : pc[c] = "once" ~> pc[c] # "once"

\* A call of AllocateRaw returns, with memory or without, although other clients
\* keep theirs for ever and a notification may come before the wait; unless a
\* thread is caught in Extend, where the loop that asks the device for less
\* comes to ask for nine units of 256 bytes, or fewer, again and again.
AllocationReturns ==
    /\ [](\A c \in Clients : Spins(c) => ~DeviceGives(bfc, 9 * kMinAllocationSize))
    /\ \A c \in Clients :
          pc[c] \notin {"idle", "holds", "notify"}
            ~> (pc[c] \in {"idle", "holds"} \/ \E d \in Clients : Spins(d))
=============================================================================
