------------------------- MODULE BFCAllocatorProofs -------------------------
(***************************************************************************)
(* The books of the allocator are exact, a client is refused only when     *)
(* nothing is left, and the limit holds: for every limit, device, number   *)
(* of clients and sizes they ask for.                                      *)
(*                                                                         *)
(* The methods of the code are followed one by one through states in which *)
(* some free chunks X are "in hand": taken out of their bin and not yet    *)
(* back in one, merged away or handed out.  An action is right when X is   *)
(* empty at its end.                                                       *)
(***************************************************************************)
EXTENDS BFCAllocator, FiniteSetTheorems, SequenceTheorems, TLAPS

(***************************************************************************)
(* Types.                                                                  *)
(***************************************************************************)

ChunkType == [ptr : Nat, size : Nat, in_use : BOOLEAN, prev : Nat,
              next : Nat, bin_num : Int]
RegionType == [ptr : Nat, memory_size : Nat]
HandleMaps == UNION {[D -> Nat] : D \in SUBSET Nat}

BFCType == [chunks : Seq(ChunkType),
            free_chunks_list : Nat,
            deleted : Seq(Nat),
            bins : [Bins -> SUBSET Nat],
            regions : SUBSET RegionType,
            handles : HandleMaps,
            curr_region_allocation_bytes : Nat,
            total_region_allocated_bytes : Nat,
            started_backpedal : BOOLEAN,
            bytes_in_use : Nat,
            device_used : Nat]

Whole(x) == x \in Nat /\ x % kMinAllocationSize = 0

\* What the books never touch while they are put in order.
Fixed(s, t) ==
    /\ t.regions = s.regions
    /\ t.curr_region_allocation_bytes = s.curr_region_allocation_bytes
    /\ t.total_region_allocated_bytes = s.total_region_allocated_bytes
    /\ t.started_backpedal = s.started_backpedal
    /\ t.device_used = s.device_used

\* Fixed is transitive.
LEMMA FixedTwice ==
  \A s, t, u : Fixed(s, t) /\ Fixed(t, u) => Fixed(s, u)
  BY DEF Fixed

\* The place of a chunk and its neighbours.
SamePlace(c, d) ==
    c.ptr = d.ptr /\ c.size = d.size /\ c.prev = d.prev /\ c.next = d.next

\* What writing one field of a chunk leaves alone.
LEMMA ChunkFields ==
  /\ \A c \in ChunkType, k \in Int :
     /\ [c EXCEPT !.bin_num = k] \in ChunkType
     /\ [c EXCEPT !.bin_num = k].bin_num = k
     /\ SamePlace([c EXCEPT !.bin_num = k], c)
     /\ [c EXCEPT !.bin_num = k].in_use = c.in_use
  /\ \A c \in ChunkType, u \in BOOLEAN :
     /\ [c EXCEPT !.in_use = u] \in ChunkType
     /\ [c EXCEPT !.in_use = u].in_use = u
     /\ [c EXCEPT !.in_use = u].bin_num = c.bin_num
     /\ SamePlace([c EXCEPT !.in_use = u], c)
  /\ \A c \in ChunkType, n \in Nat :
     /\ [c EXCEPT !.prev = n] \in ChunkType
     /\ [c EXCEPT !.prev = n].prev = n
     /\ [c EXCEPT !.prev = n].ptr = c.ptr
     /\ [c EXCEPT !.prev = n].size = c.size
     /\ [c EXCEPT !.prev = n].next = c.next
     /\ [c EXCEPT !.prev = n].in_use = c.in_use
     /\ [c EXCEPT !.prev = n].bin_num = c.bin_num
  BY DEF ChunkType, SamePlace

\* One chunk is written anew.
LEMMA Rewritten ==
  ASSUME NEW ch \in Seq(ChunkType), NEW h \in DOMAIN ch, NEW c \in ChunkType
  PROVE  /\ [ch EXCEPT ![h] = c] \in Seq(ChunkType)
         /\ DOMAIN [ch EXCEPT ![h] = c] = DOMAIN ch
         /\ [ch EXCEPT ![h] = c][h] = c
         /\ \A i \in DOMAIN ch \ {h} : [ch EXCEPT ![h] = c][i] = ch[i]
  <1>1. h \in 1 .. Len(ch)
        BY LenProperties
  <1> QED BY <1>1, ExceptSeq, LenProperties

\* A record of chunks_ is a chunk.
LEMMA ChunkTyped ==
  ASSUME NEW s \in BFCType, NEW h \in DOMAIN s.chunks
  PROVE  s.chunks[h] \in ChunkType
  <1>1. s.chunks \in Seq(ChunkType)
        BY DEF BFCType
  <1> QED BY <1>1, LenProperties, ElementOfSeq

\* What RemoveFreeChunkFromBin does, field by field.
Removed(s, h, t) ==
    /\ t \in BFCType
    /\ Fixed(s, t)
    /\ t.handles = s.handles
    /\ t.free_chunks_list = s.free_chunks_list
    /\ t.deleted = s.deleted
    /\ t.bytes_in_use = s.bytes_in_use
    /\ DOMAIN t.chunks = DOMAIN s.chunks
    /\ \A i \in DOMAIN s.chunks \ {h} : t.chunks[i] = s.chunks[i]
    /\ t.chunks[h] = [s.chunks[h] EXCEPT !.bin_num = kInvalidBinNum]
    /\ \A b \in Bins : t.bins[b] = IF b = s.chunks[h].bin_num
                                     THEN s.bins[b] \ {h} ELSE s.bins[b]

\* RemoveFreeChunkFromBin does that.
LEMMA RemoveFields ==
  ASSUME NEW s \in BFCType, NEW h \in DOMAIN s.chunks,
         NEW t, t = RemoveFreeChunkFromBin(s, h)
  PROVE  Removed(s, h, t)
  <1> USE DEF Removed
  <1> DEFINE ch == [s.chunks EXCEPT ![h] = [s.chunks[h] EXCEPT !.bin_num = kInvalidBinNum]]
             bi == [s.bins EXCEPT ![s.chunks[h].bin_num] = @ \ {h}]
  <1>1. s.chunks \in Seq(ChunkType) /\ s.bins \in [Bins -> SUBSET Nat]
        BY DEF BFCType
  <1>2. s.chunks[h] \in ChunkType
        BY ChunkTyped
  <1>3. [s.chunks[h] EXCEPT !.bin_num = kInvalidBinNum] \in ChunkType
    <2>1. kInvalidBinNum \in Int
          BY DEF kInvalidBinNum
    <2> QED BY <1>2, <2>1, ChunkFields
  <1>4. /\ ch \in Seq(ChunkType)
        /\ DOMAIN ch = DOMAIN s.chunks
        /\ \A i \in DOMAIN s.chunks \ {h} : ch[i] = s.chunks[i]
        /\ ch[h] = [s.chunks[h] EXCEPT !.bin_num = kInvalidBinNum]
        BY <1>1, <1>3, Rewritten
  <1>5. /\ bi \in [Bins -> SUBSET Nat]
        /\ \A b \in Bins : bi[b] = IF b = s.chunks[h].bin_num
                                     THEN s.bins[b] \ {h} ELSE s.bins[b]
        BY <1>1
  <1>6. t = [s EXCEPT !.chunks = ch, !.bins = bi]
        BY <1>2 DEF RemoveFreeChunkFromBin, BFCType
  <1> HIDE DEF ch, bi
  <1> QED BY <1>4, <1>5, <1>6 DEF BFCType, Fixed

\* The sizes at which the bins begin.
LEMMA BinValues ==
  /\ BinNumToSize(0) = 256  /\ BinNumToSize(1) = 512
  /\ BinNumToSize(2) = 1024 /\ BinNumToSize(3) = 2048
  /\ BinNumToSize(4) = 4096 /\ BinNumToSize(5) = 8192
  /\ BinNumToSize(6) = 16384 /\ BinNumToSize(7) = 32768
  /\ BinNumToSize(8) = 65536 /\ BinNumToSize(9) = 131072
  /\ BinNumToSize(10) = 262144 /\ BinNumToSize(11) = 524288
  /\ BinNumToSize(12) = 1048576 /\ BinNumToSize(13) = 2097152
  /\ BinNumToSize(14) = 4194304 /\ BinNumToSize(15) = 8388608
  /\ BinNumToSize(16) = 16777216 /\ BinNumToSize(17) = 33554432
  /\ BinNumToSize(18) = 67108864 /\ BinNumToSize(19) = 134217728
  /\ BinNumToSize(20) = 268435456
  BY DEF BinNumToSize, kMinAllocationSize

\* They are natural numbers, in ascending order.
LEMMA BinSizes ==
  /\ \A b \in 0 .. 20 : BinNumToSize(b) \in Nat
  /\ \A a, b \in 0 .. 20 : a <= b => BinNumToSize(a) <= BinNumToSize(b)
  BY BinValues

\* Every size of a chunk has a bin.
LEMMA BinFits ==
  ASSUME NEW n \in Nat, n >= kMinAllocationSize
  PROVE  \E b \in Bins : /\ BinNumToSize(b) <= n
                         /\ b < kNumBins - 1 => n < BinNumToSize(b + 1)
  <1>1. n >= 256 /\ Bins = 0 .. 20 /\ kNumBins - 1 = 20
        BY DEF kMinAllocationSize, Bins, kNumBins
  <1> QED BY <1>1, BinValues

\* BinNumForSize finds it.
LEMMA BinExists ==
  ASSUME NEW n \in Nat, n >= kMinAllocationSize
  PROVE  BinNumForSize(n) \in Bins
  BY BinFits DEF BinNumForSize

\* What InsertFreeChunkIntoBin does.
Inserted(s, h, t) ==
    /\ t \in BFCType
    /\ Fixed(s, t)
    /\ t.handles = s.handles
    /\ t.free_chunks_list = s.free_chunks_list
    /\ t.deleted = s.deleted
    /\ t.bytes_in_use = s.bytes_in_use
    /\ DOMAIN t.chunks = DOMAIN s.chunks
    /\ \A i \in DOMAIN s.chunks \ {h} : t.chunks[i] = s.chunks[i]
    /\ t.chunks[h] = [s.chunks[h] EXCEPT !.bin_num = BinNumForSize(s.chunks[h].size)]
    /\ \A b \in Bins : t.bins[b] = IF b = BinNumForSize(s.chunks[h].size)
                                     THEN s.bins[b] \cup {h} ELSE s.bins[b]

\* InsertFreeChunkIntoBin does that.
LEMMA InsertFields ==
  ASSUME NEW s \in BFCType, NEW h \in DOMAIN s.chunks,
         s.chunks[h].size >= kMinAllocationSize,
         NEW t, t = InsertFreeChunkIntoBin(s, h)
  PROVE  Inserted(s, h, t)
  <1> USE DEF Inserted
  <1> DEFINE n == BinNumForSize(s.chunks[h].size)
             ch == [s.chunks EXCEPT ![h] = [s.chunks[h] EXCEPT !.bin_num = n]]
             bi == [s.bins EXCEPT ![n] = @ \cup {h}]
  <1>1. s.chunks \in Seq(ChunkType) /\ s.bins \in [Bins -> SUBSET Nat]
        BY DEF BFCType
  <1>2. s.chunks[h] \in ChunkType /\ h \in Nat
        BY <1>1, ChunkTyped, LenProperties
  <1>3. n \in Bins /\ n \in Int
    <2>1. s.chunks[h].size \in Nat
          BY <1>2 DEF ChunkType
    <2>2. n \in Bins
          BY <2>1, BinExists
    <2> QED BY <2>2 DEF Bins
  <1> HIDE DEF n
  <1>4. [s.chunks[h] EXCEPT !.bin_num = n] \in ChunkType
        BY <1>2, <1>3, ChunkFields
  <1>5. /\ ch \in Seq(ChunkType)
        /\ DOMAIN ch = DOMAIN s.chunks
        /\ \A i \in DOMAIN s.chunks \ {h} : ch[i] = s.chunks[i]
        /\ ch[h] = [s.chunks[h] EXCEPT !.bin_num = n]
        BY <1>1, <1>4, Rewritten
  <1>6. /\ bi \in [Bins -> SUBSET Nat]
        /\ \A b \in Bins : bi[b] = IF b = n THEN s.bins[b] \cup {h} ELSE s.bins[b]
        BY <1>1, <1>2
  <1>7. t = [s EXCEPT !.chunks = ch, !.bins = bi]
        BY DEF InsertFreeChunkIntoBin, BFCType, n
  <1> HIDE DEF ch, bi
  <1>8. /\ t \in BFCType
        /\ Fixed(s, t)
        /\ t.handles = s.handles
        /\ t.free_chunks_list = s.free_chunks_list
        /\ t.deleted = s.deleted
        /\ t.bytes_in_use = s.bytes_in_use
        /\ t.chunks = ch
        /\ t.bins = bi
        BY <1>5, <1>6, <1>7 DEF BFCType, Fixed
  <1> QED BY <1>5, <1>6, <1>8 DEF n

\* The rest of the list of free records, or a new record, is taken.
Listed(s, D) ==
    LET l == s.deleted
        at(i) == IF i \in DOMAIN l THEN l[i] ELSE kInvalidChunkHandle
    IN  /\ s.free_chunks_list = at(1)
        /\ \A i \in DOMAIN l : /\ s.chunks[l[i]].next = at(i + 1)
                               /\ \A j \in DOMAIN l \ {i} : l[i] # l[j]
        /\ {l[i] : i \in DOMAIN l} = D

\* A record that is not in the list may be written: only the chain matters.
LEMMA ListedKept ==
  ASSUME NEW s, NEW t, NEW D, Listed(s, D),
         t.deleted = s.deleted,
         t.free_chunks_list = s.free_chunks_list,
         \A i \in D : t.chunks[i].next = s.chunks[i].next
  PROVE  Listed(t, D)
  BY DEF Listed

\* What AllocateChunk does: it takes a record that no handle stands for.
Allocated(s, c, D, t, n) ==
    /\ t \in BFCType
    /\ Fixed(s, t)
    /\ t.handles = s.handles
    /\ t.bytes_in_use = s.bytes_in_use
    /\ t.bins = s.bins
    /\ n \in Nat \ {0}
    /\ n \in D \/ n \notin DOMAIN s.chunks
    /\ DOMAIN t.chunks = DOMAIN s.chunks \cup {n}
    /\ \A i \in DOMAIN s.chunks \ {n} : t.chunks[i] = s.chunks[i]
    /\ t.chunks[n] = c
    /\ Listed(t, D \ {n})

\* AllocateChunk and NextHandle agree, on a reused record or a new one.
LEMMA AllocateFields ==
  ASSUME NEW s \in BFCType, NEW c \in ChunkType, c.bin_num = kInvalidBinNum,
         NEW D \in SUBSET DOMAIN s.chunks, Listed(s, D),
         \A i \in D : s.chunks[i].bin_num = kInvalidBinNum,
         NEW t, t = AllocateChunk(s, c),
         NEW n, n = NextHandle(s)
  PROVE  Allocated(s, c, D, t, n)
  <1> USE DEF Allocated
  <1>1. /\ s.chunks \in Seq(ChunkType) /\ s.deleted \in Seq(Nat)
        /\ s.free_chunks_list \in Nat
        BY DEF BFCType
  <1>2. Len(s.chunks) \in Nat /\ DOMAIN s.chunks = 1 .. Len(s.chunks)
        BY <1>1, LenProperties
  <1>3. CASE s.free_chunks_list # kInvalidChunkHandle
    <2> DEFINE l == s.deleted
               ch == [s.chunks EXCEPT ![n] = c]
    <2>1. n = s.free_chunks_list
          BY <1>3 DEF NextHandle
    <2>2. /\ DOMAIN l = 1 .. Len(l) /\ Len(l) \in Nat
          BY <1>1, LenProperties
    <2>3. 1 \in DOMAIN l /\ n = l[1]
          BY <1>3, <2>1 DEF Listed
    <2>4. n \in D
          BY <2>3 DEF Listed
    <2>5. l # << >>
          BY <2>3, <2>2
    <2>6. /\ Tail(l) \in Seq(Nat)
          /\ DOMAIN Tail(l) = 1 .. Len(l) - 1
          /\ \A i \in 1 .. Len(l) - 1 : Tail(l)[i] = l[i + 1]
      <3>1. /\ Tail(l) \in Seq(Nat)
            /\ Len(Tail(l)) = Len(l) - 1
            /\ \A i \in 1 .. Len(Tail(l)) : Tail(l)[i] = l[i + 1]
            BY <1>1, <2>5, HeadTailProperties
      <3> QED BY <3>1, LenProperties
    <2>7. /\ ch \in Seq(ChunkType)
          /\ DOMAIN ch = DOMAIN s.chunks
          /\ ch[n] = c
          /\ \A i \in DOMAIN s.chunks \ {n} : ch[i] = s.chunks[i]
          BY <1>1, <2>4, Rewritten
    <2>8. [c EXCEPT !.bin_num = s.chunks[n].bin_num] = c
          BY <2>4 DEF ChunkType
    <2>9. t = [s EXCEPT !.free_chunks_list = s.chunks[n].next,
                        !.deleted = Tail(l), !.chunks = ch]
          BY <1>3, <2>1, <2>8 DEF AllocateChunk, BFCType
    <2>10. s.chunks[n].next \in Nat
           BY <2>4, ChunkTyped DEF ChunkType
    <2> HIDE DEF ch
    <2>11. /\ t \in BFCType
           /\ Fixed(s, t)
           /\ t.handles = s.handles
           /\ t.bytes_in_use = s.bytes_in_use
           /\ t.bins = s.bins
           /\ t.chunks = ch
           /\ t.deleted = Tail(l)
           /\ t.free_chunks_list = s.chunks[n].next
           BY <2>6, <2>7, <2>9, <2>10 DEF BFCType, Fixed
    <2>12. /\ s.chunks[n].next = IF 2 \in DOMAIN l THEN l[2] ELSE kInvalidChunkHandle
           /\ \A i \in DOMAIN l : /\ s.chunks[l[i]].next =
                                       IF i + 1 \in DOMAIN l THEN l[i + 1] ELSE kInvalidChunkHandle
                                  /\ \A j \in DOMAIN l \ {i} : l[i] # l[j]
           /\ \A i \in DOMAIN l : l[i] \in D
           /\ \A d \in D : \E i \in DOMAIN l : l[i] = d
           BY <2>3, 1 + 1 = 2 DEF Listed
    <2>13. Listed(t, D \ {n})
      <3> DEFINE m == Tail(l)
                 at(i) == IF i \in DOMAIN l THEN l[i] ELSE kInvalidChunkHandle
                 am(i) == IF i \in DOMAIN m THEN m[i] ELSE kInvalidChunkHandle
      <3>1. \A i \in DOMAIN m : i \in Nat \ {0} /\ i + 1 \in DOMAIN l /\ m[i] = l[i + 1]
            BY <2>2, <2>6
      <3>2. \A i \in DOMAIN l : i \in Nat /\ (i # 1 => i - 1 \in DOMAIN m)
            BY <2>2, <2>6
      <3>3. \A i \in Nat \ {0} : am(i) = at(i + 1)
            BY <2>2, <2>6
      <3> HIDE DEF m, l
      <3>4. t.free_chunks_list = am(1)
        <4>1. am(1) = at(1 + 1) /\ 1 + 1 = 2
              BY <3>3
        <4> QED BY <4>1, <2>11, <2>12
      <3>5. ASSUME NEW i \in DOMAIN m
            PROVE  /\ t.chunks[m[i]].next = am(i + 1)
                   /\ \A j \in DOMAIN m \ {i} : m[i] # m[j]
        <4>1. i \in Nat \ {0} /\ i + 1 \in DOMAIN l /\ i + 1 # 1 /\ m[i] = l[i + 1]
              BY <3>1
        <4>2. l[i + 1] # n /\ l[i + 1] \in D
              BY <4>1, <2>3, <2>12
        <4>3. t.chunks[m[i]] = s.chunks[l[i + 1]]
              BY <4>1, <4>2, <2>7, <2>11
        <4>4. s.chunks[l[i + 1]].next = at((i + 1) + 1)
              BY <4>1, <2>12
        <4>5. am(i + 1) = at((i + 1) + 1)
              BY <4>1, <3>3
        <4>6. ASSUME NEW j \in DOMAIN m \ {i} PROVE m[i] # m[j]
          <5>1. j \in Nat /\ j + 1 \in DOMAIN l /\ m[j] = l[j + 1] /\ j + 1 # i + 1
                BY <3>1, <4>1
          <5> QED BY <5>1, <4>1, <2>12
        <4> QED BY <4>3, <4>4, <4>5, <4>6
      <3>6. {m[i] : i \in DOMAIN m} = D \ {n}
        <4>1. ASSUME NEW i \in DOMAIN m PROVE m[i] \in D \ {n}
          <5>1. i + 1 \in DOMAIN l /\ i + 1 # 1 /\ m[i] = l[i + 1]
                BY <3>1
          <5> QED BY <5>1, <2>3, <2>12
        <4>2. ASSUME NEW d \in D \ {n} PROVE \E i \in DOMAIN m : m[i] = d
          <5>1. PICK i \in DOMAIN l : l[i] = d
                BY <2>12
          <5>2. i # 1 /\ i \in Nat
                BY <5>1, <2>3, <3>2
          <5>3. i - 1 \in DOMAIN m /\ (i - 1) + 1 = i
                BY <5>2, <3>2
          <5> QED BY <5>1, <5>3, <3>1
        <4> QED BY <4>1, <4>2
      <3>7. t.deleted = m
            BY <2>11 DEF m
      <3> QED BY <3>4, <3>5, <3>6, <3>7 DEF Listed
    <2> QED BY <1>1, <1>2, <2>1, <2>4, <2>7, <2>11, <2>13, <1>3 DEF kInvalidChunkHandle
  <1>4. CASE s.free_chunks_list = kInvalidChunkHandle
    <2>1. n = Len(s.chunks) + 1
          BY <1>4 DEF NextHandle
    <2>2. t = [s EXCEPT !.chunks = Append(s.chunks, c)]
          BY <1>4 DEF AllocateChunk
    <2>3. /\ Append(s.chunks, c) \in Seq(ChunkType)
          /\ DOMAIN Append(s.chunks, c) = 1 .. Len(s.chunks) + 1
          /\ \A i \in 1 .. Len(s.chunks) : Append(s.chunks, c)[i] = s.chunks[i]
          /\ Append(s.chunks, c)[n] = c
      <3>1. /\ Append(s.chunks, c) \in Seq(ChunkType)
            /\ Len(Append(s.chunks, c)) = Len(s.chunks) + 1
            /\ \A i \in 1 .. Len(s.chunks) : Append(s.chunks, c)[i] = s.chunks[i]
            /\ Append(s.chunks, c)[Len(s.chunks) + 1] = c
            BY <1>1, AppendProperties
      <3> QED BY <2>1, <3>1, LenProperties
    <2>4. /\ t \in BFCType
          /\ Fixed(s, t)
          /\ t.handles = s.handles
          /\ t.bytes_in_use = s.bytes_in_use
          /\ t.bins = s.bins
          /\ t.chunks = Append(s.chunks, c)
          /\ t.deleted = s.deleted
          /\ t.free_chunks_list = s.free_chunks_list
          BY <2>2, <2>3 DEF BFCType, Fixed
    <2>5. n \notin DOMAIN s.chunks /\ n \in Nat \ {0}
          BY <2>1, <1>2
    <2>6. D \ {n} = D
          BY <2>5
    <2>7. Listed(t, D)
          BY <2>3, <2>4, <1>2, ListedKept
    <2>8. DOMAIN t.chunks = DOMAIN s.chunks \cup {n}
          BY <1>2, <2>1, <2>3, <2>4
    <2>9. /\ \A i \in DOMAIN s.chunks \ {n} : t.chunks[i] = s.chunks[i]
          /\ t.chunks[n] = c
          BY <1>2, <2>3, <2>4
    <2> QED BY <2>4, <2>5, <2>6, <2>7, <2>8, <2>9
  <1> QED BY <1>3, <1>4

\* A map of handles leads from addresses to handles, whatever its domain.
LEMMA HandlesTyped ==
  \A f : f \in HandleMaps <=> f \in [DOMAIN f -> Nat] /\ DOMAIN f \subseteq Nat
  BY DEF HandleMaps

\* What SetHandle does.
HandleSet(s, ptr, h, t) ==
    /\ t \in BFCType
    /\ Fixed(s, t)
    /\ t.chunks = s.chunks
    /\ t.bins = s.bins
    /\ t.free_chunks_list = s.free_chunks_list
    /\ t.deleted = s.deleted
    /\ t.bytes_in_use = s.bytes_in_use
    /\ DOMAIN t.handles = DOMAIN s.handles \cup {ptr}
    /\ t.handles[ptr] = h
    /\ \A p \in DOMAIN s.handles \ {ptr} : t.handles[p] = s.handles[p]

\* set_handle does that.
LEMMA SetHandleFields ==
  ASSUME NEW s \in BFCType, NEW ptr \in Nat, NEW h \in Nat,
         NEW t, t = SetHandle(s, ptr, h)
  PROVE  HandleSet(s, ptr, h, t)
  <1> USE DEF HandleSet
  <1> DEFINE f == [p \in DOMAIN s.handles \cup {ptr} |-> IF p = ptr THEN h ELSE s.handles[p]]
  <1>1. s.handles \in [DOMAIN s.handles -> Nat] /\ DOMAIN s.handles \subseteq Nat
        BY HandlesTyped DEF BFCType
  <1>2. f \in HandleMaps
    <2>1. DOMAIN f = DOMAIN s.handles \cup {ptr}
          OBVIOUS
    <2>2. f \in [DOMAIN s.handles \cup {ptr} -> Nat]
          BY <1>1
    <2> HIDE DEF f
    <2> QED BY <1>1, <2>1, <2>2, HandlesTyped
  <1>3. t = [s EXCEPT !.handles = f]
        BY DEF SetHandle
  <1>4. /\ DOMAIN f = DOMAIN s.handles \cup {ptr}
        /\ f[ptr] = h
        /\ \A p \in DOMAIN s.handles \ {ptr} : f[p] = s.handles[p]
        OBVIOUS
  <1> HIDE DEF f
  <1>5. /\ t \in BFCType
        /\ Fixed(s, t)
        /\ t.chunks = s.chunks
        /\ t.bins = s.bins
        /\ t.free_chunks_list = s.free_chunks_list
        /\ t.deleted = s.deleted
        /\ t.bytes_in_use = s.bytes_in_use
        /\ t.handles = f
        BY <1>2, <1>3 DEF BFCType, Fixed
  <1> QED BY <1>4, <1>5

\* What SetPrev does.
PrevSet(s, h3, h, t) ==
    /\ t \in BFCType
    /\ Fixed(s, t)
    /\ t.handles = s.handles
    /\ t.bins = s.bins
    /\ t.free_chunks_list = s.free_chunks_list
    /\ t.deleted = s.deleted
    /\ t.bytes_in_use = s.bytes_in_use
    /\ DOMAIN t.chunks = DOMAIN s.chunks
    /\ \A i \in DOMAIN s.chunks \ {h3} : t.chunks[i] = s.chunks[i]
    /\ h3 # kInvalidChunkHandle =>
          t.chunks[h3] = [s.chunks[h3] EXCEPT !.prev = h]

\* The code that sets prev of the neighbour does that.
LEMMA SetPrevFields ==
  ASSUME NEW s \in BFCType, NEW h3 \in DOMAIN s.chunks \cup {kInvalidChunkHandle},
         NEW h \in Nat, NEW t, t = SetPrev(s, h3, h)
  PROVE  PrevSet(s, h3, h, t)
  <1> USE DEF PrevSet
  <1>1. CASE h3 = kInvalidChunkHandle
        BY <1>1 DEF SetPrev, Fixed
  <1>2. CASE h3 # kInvalidChunkHandle
    <2> DEFINE c == [s.chunks[h3] EXCEPT !.prev = h]
               ch == [s.chunks EXCEPT ![h3] = c]
    <2>1. h3 \in DOMAIN s.chunks /\ s.chunks \in Seq(ChunkType)
          BY <1>2 DEF BFCType
    <2>2. c \in ChunkType
      <3>1. s.chunks[h3] \in ChunkType
            BY <2>1, ChunkTyped
      <3> QED BY <3>1, ChunkFields
    <2> HIDE DEF c
    <2>3. /\ ch \in Seq(ChunkType)
          /\ DOMAIN ch = DOMAIN s.chunks
          /\ ch[h3] = c
          /\ \A i \in DOMAIN s.chunks \ {h3} : ch[i] = s.chunks[i]
          BY <2>1, <2>2, Rewritten
    <2>4. t = [s EXCEPT !.chunks = ch]
          BY <1>2 DEF SetPrev, c, BFCType
    <2> HIDE DEF ch
    <2>5. /\ t \in BFCType
          /\ Fixed(s, t)
          /\ t.handles = s.handles
          /\ t.bins = s.bins
          /\ t.free_chunks_list = s.free_chunks_list
          /\ t.deleted = s.deleted
          /\ t.bytes_in_use = s.bytes_in_use
          /\ t.chunks = ch
          BY <2>3, <2>4 DEF BFCType, Fixed
    <2> QED BY <2>3, <2>5 DEF c
  <1> QED BY <1>1, <1>2

\* SplitChunk before the new chunk is put into its bin.
Divided(s, h, num_bytes) ==
    LET c == s.chunks[h]
        new == NextHandle(s)
        ptr == c.ptr + num_bytes
        s1 == AllocateChunk(s, Chunk(ptr, c.size - num_bytes, h, c.next))
        s2 == [s1 EXCEPT !.chunks[h].size = num_bytes, !.chunks[h].next = new]
    IN  SetHandle(SetPrev(s2, c.next, new), ptr, new)

\* What SplitChunk does, before the new chunk is put into its bin.
Halved(s, h, num_bytes, D, t, new) ==
    /\ t \in BFCType
    /\ Fixed(s, t)
    /\ t.bytes_in_use = s.bytes_in_use
    /\ t.bins = s.bins
    /\ new \in Nat \ {0}
    /\ new \in D \/ new \notin DOMAIN s.chunks
    /\ DOMAIN t.chunks = DOMAIN s.chunks \cup {new}
    /\ \A i \in DOMAIN s.chunks \ {new, h, s.chunks[h].next} : t.chunks[i] = s.chunks[i]
    /\ t.chunks[new] = Chunk(s.chunks[h].ptr + num_bytes, s.chunks[h].size - num_bytes, h, s.chunks[h].next)
    /\ t.chunks[h] = [s.chunks[h] EXCEPT !.size = num_bytes, !.next = new]
    /\ s.chunks[h].next # kInvalidChunkHandle =>
          t.chunks[s.chunks[h].next] = [s.chunks[s.chunks[h].next] EXCEPT !.prev = new]
    /\ DOMAIN t.handles = DOMAIN s.handles \cup {s.chunks[h].ptr + num_bytes}
    /\ t.handles[s.chunks[h].ptr + num_bytes] = new
    /\ \A p \in DOMAIN s.handles \ {s.chunks[h].ptr + num_bytes} : t.handles[p] = s.handles[p]
    /\ Listed(t, D \ {new})

\* SplitChunk does that.
LEMMA DividedFields ==
  ASSUME NEW s \in BFCType, NEW h \in DOMAIN s.chunks,
         NEW D \in SUBSET DOMAIN s.chunks, Listed(s, D), h \notin D,
         \A i \in D : s.chunks[i].bin_num = kInvalidBinNum,
         s.chunks[h].next = kInvalidChunkHandle
           \/ s.chunks[h].next \in DOMAIN s.chunks \ (D \cup {h}),
         NEW num_bytes \in Nat, num_bytes <= s.chunks[h].size,
         NEW t, t = Divided(s, h, num_bytes),
         NEW new, new = NextHandle(s),
         NEW c, c = s.chunks[h]
  PROVE  Halved(s, h, num_bytes, D, t, new)
  <1> USE DEF Halved
  <1> DEFINE ptr == c.ptr + num_bytes
             k == Chunk(ptr, c.size - num_bytes, h, c.next)
             s1 == AllocateChunk(s, k)
             d == [c EXCEPT !.size = num_bytes, !.next = new]
             s2 == [s1 EXCEPT !.chunks[h].size = num_bytes, !.chunks[h].next = new]
             s3 == SetPrev(s2, c.next, new)
  <1>1. c \in ChunkType /\ c.ptr \in Nat /\ c.size \in Nat /\ c.next \in Nat
        BY ChunkTyped DEF ChunkType
  <1>2. h \in Nat
        BY LenProperties DEF BFCType
  <1>3. k \in ChunkType /\ k.bin_num = kInvalidBinNum /\ ptr \in Nat
        BY <1>1, <1>2 DEF Chunk, ChunkType, kInvalidBinNum
  <1>4. t = SetHandle(s3, ptr, new)
        BY DEF Divided
  <1> HIDE DEF k
  <1>5. /\ s1 \in BFCType
        /\ Fixed(s, s1)
        /\ s1.handles = s.handles
        /\ s1.bytes_in_use = s.bytes_in_use
        /\ s1.bins = s.bins
        /\ new \in Nat \ {0}
        /\ new \in D \/ new \notin DOMAIN s.chunks
        /\ DOMAIN s1.chunks = DOMAIN s.chunks \cup {new}
        /\ \A i \in DOMAIN s.chunks \ {new} : s1.chunks[i] = s.chunks[i]
        /\ s1.chunks[new] = k
        /\ Listed(s1, D \ {new})
    <2>1. Allocated(s, k, D, s1, new)
          BY <1>3, AllocateFields
    <2> QED BY <2>1 DEF Allocated
  <1> HIDE DEF s1
  <1>6. h # new /\ s1.chunks[h] = c
        BY <1>5
  <1>7. d \in ChunkType
        BY <1>1, <1>5 DEF ChunkType
  <1>8. s2 = [s1 EXCEPT !.chunks = [s1.chunks EXCEPT ![h] = d]]
    <2>1. h \in DOMAIN s1.chunks /\ s1.chunks \in Seq(ChunkType)
          BY <1>5 DEF BFCType
    <2>2. s1.chunks \in [DOMAIN s1.chunks -> ChunkType]
          BY <2>1, LenProperties
    <2>3. [s1.chunks EXCEPT ![h].size = num_bytes, ![h].next = new]
            = [s1.chunks EXCEPT ![h] = d]
          BY <2>1, <2>2, <1>6
    <2>4. s2 = [s1 EXCEPT !.chunks = [s1.chunks EXCEPT ![h].size = num_bytes, ![h].next = new]]
          BY <1>5 DEF BFCType
    <2> QED BY <2>3, <2>4
  <1> HIDE DEF d, s2
  <1>9. /\ s2 \in BFCType
        /\ Fixed(s1, s2)
        /\ s2.handles = s.handles
        /\ s2.bytes_in_use = s.bytes_in_use
        /\ s2.bins = s.bins
        /\ s2.free_chunks_list = s1.free_chunks_list
        /\ s2.deleted = s1.deleted
        /\ DOMAIN s2.chunks = DOMAIN s.chunks \cup {new}
        /\ \A i \in DOMAIN s1.chunks \ {h} : s2.chunks[i] = s1.chunks[i]
        /\ s2.chunks[h] = d
    <2> DEFINE ch == [s1.chunks EXCEPT ![h] = d]
    <2>1. /\ ch \in Seq(ChunkType)
          /\ DOMAIN ch = DOMAIN s1.chunks
          /\ ch[h] = d
          /\ \A i \in DOMAIN s1.chunks \ {h} : ch[i] = s1.chunks[i]
      <3>1. s1.chunks \in Seq(ChunkType) /\ h \in DOMAIN s1.chunks
            BY <1>5 DEF BFCType
      <3> QED BY <3>1, <1>7, Rewritten
    <2> HIDE DEF ch
    <2>2. /\ s2 \in BFCType
          /\ Fixed(s1, s2)
          /\ s2.handles = s1.handles
          /\ s2.bytes_in_use = s1.bytes_in_use
          /\ s2.bins = s1.bins
          /\ s2.free_chunks_list = s1.free_chunks_list
          /\ s2.deleted = s1.deleted
          /\ s2.chunks = ch
          BY <2>1, <1>5, <1>8 DEF BFCType, Fixed, ch
    <2> QED BY <2>1, <2>2, <1>5
  <1>10. c.next \in DOMAIN s2.chunks \cup {kInvalidChunkHandle}
         BY <1>9
  <1>11. /\ s3 \in BFCType
         /\ Fixed(s2, s3)
         /\ s3.handles = s.handles
         /\ s3.bytes_in_use = s.bytes_in_use
         /\ s3.bins = s.bins
         /\ s3.free_chunks_list = s1.free_chunks_list
         /\ s3.deleted = s1.deleted
         /\ DOMAIN s3.chunks = DOMAIN s.chunks \cup {new}
         /\ \A i \in DOMAIN s2.chunks \ {c.next} : s3.chunks[i] = s2.chunks[i]
         /\ c.next # kInvalidChunkHandle =>
               s3.chunks[c.next] = [s2.chunks[c.next] EXCEPT !.prev = new]
    <2>1. new \in Nat
          BY <1>5
    <2>2. PrevSet(s2, c.next, new, s3)
          BY <2>1, <1>9, <1>10, SetPrevFields
    <2> QED BY <2>2, <1>9 DEF PrevSet
  <1> HIDE DEF s3
  <1>12. /\ t \in BFCType
         /\ Fixed(s3, t)
         /\ t.chunks = s3.chunks
         /\ t.bins = s3.bins
         /\ t.free_chunks_list = s3.free_chunks_list
         /\ t.deleted = s3.deleted
         /\ t.bytes_in_use = s3.bytes_in_use
         /\ DOMAIN t.handles = DOMAIN s3.handles \cup {ptr}
         /\ t.handles[ptr] = new
         /\ \A p \in DOMAIN s3.handles \ {ptr} : t.handles[p] = s3.handles[p]
    <2>1. new \in Nat
          BY <1>5
    <2>2. ptr \in Nat /\ s3 \in BFCType
          BY <1>3, <1>11
    <2> HIDE DEF ptr
    <2>3. HandleSet(s3, ptr, new, t)
          BY <2>1, <2>2, <1>4, SetHandleFields
    <2> QED BY <2>3 DEF HandleSet
  <1>14. Fixed(s, t)
         BY <1>5, <1>9, <1>11, <1>12 DEF Fixed
  <1>15. kInvalidChunkHandle \notin D /\ kInvalidChunkHandle # h /\ kInvalidChunkHandle # new
    <2>1. kInvalidChunkHandle \notin DOMAIN s.chunks
          BY LenProperties DEF kInvalidChunkHandle, BFCType
    <2> QED BY <2>1, <1>5 DEF kInvalidChunkHandle
  <1>16. c.next # new /\ c.next # h /\ c.next \notin D
         BY <1>5, <1>15
  <1>17. /\ \A i \in DOMAIN s.chunks \ {new, h, c.next} : t.chunks[i] = s.chunks[i]
         /\ t.chunks[new] = k
         /\ t.chunks[h] = d
         /\ c.next # kInvalidChunkHandle =>
               t.chunks[c.next] = [s.chunks[c.next] EXCEPT !.prev = new]
    <2>1. ASSUME NEW i \in DOMAIN s.chunks \ {new, h, c.next} PROVE t.chunks[i] = s.chunks[i]
          BY <1>5, <1>9, <1>11, <1>12
    <2>2. t.chunks[new] = k
          BY <1>5, <1>6, <1>9, <1>11, <1>12, <1>16
    <2>3. t.chunks[h] = d
          BY <1>5, <1>9, <1>11, <1>12, <1>16
    <2>4. c.next # kInvalidChunkHandle => t.chunks[c.next] = [s.chunks[c.next] EXCEPT !.prev = new]
          BY <1>5, <1>9, <1>11, <1>12, <1>16
    <2> QED BY <2>1, <2>2, <2>3, <2>4
  <1>18. Listed(t, D \ {new})
    <2>1. \A i \in D \ {new} : t.chunks[i] = s1.chunks[i]
          BY <1>5, <1>16, <1>17
    <2>2. t.deleted = s1.deleted /\ t.free_chunks_list = s1.free_chunks_list
          BY <1>11, <1>12
    <2> QED BY <2>1, <2>2, <1>5, ListedKept
  <1> QED BY <1>5, <1>11, <1>12, <1>14, <1>17, <1>18 DEF d, k

\* A record is put at the head of the list.
LEMMA ListedPushed ==
  ASSUME NEW s, NEW D, Listed(s, D), NEW h, h \in Nat, h \notin D,
         s.deleted \in Seq(Nat),
         NEW t, t.deleted = <<h>> \o s.deleted,
         t.free_chunks_list = h,
         t.chunks[h].next = s.free_chunks_list,
         \A i \in D : t.chunks[i].next = s.chunks[i].next
  PROVE  Listed(t, D \cup {h})
  <1> DEFINE l == s.deleted
             m == t.deleted
             al(i) == IF i \in DOMAIN l THEN l[i] ELSE kInvalidChunkHandle
             am(i) == IF i \in DOMAIN m THEN m[i] ELSE kInvalidChunkHandle
  <1>1. DOMAIN l = 1 .. Len(l) /\ Len(l) \in Nat
        BY LenProperties
  <1>2. /\ DOMAIN m = 1 .. Len(l) + 1
        /\ m[1] = h
        /\ \A i \in 2 .. Len(l) + 1 : m[i] = l[i - 1]
    <2>1. <<h>> \in Seq(Nat) /\ Len(<<h>>) = 1 /\ <<h>>[1] = h
          OBVIOUS
    <2>2. /\ m \in Seq(Nat)
          /\ Len(m) = 1 + Len(l)
          /\ \A i \in 1 .. 1 + Len(l) : m[i] = IF i <= 1 THEN <<h>>[i] ELSE l[i - 1]
          BY <2>1, ConcatProperties
    <2>3. DOMAIN m = 1 .. Len(l) + 1
          BY <2>2, <1>1, LenProperties
    <2> QED BY <2>1, <2>2, <2>3, <1>1
  <1>3. \A i \in DOMAIN m : i = 1 \/ (i - 1 \in DOMAIN l /\ m[i] = l[i - 1] /\ i \in Nat)
        BY <1>1, <1>2
  <1>4. \A i \in DOMAIN l : i \in Nat /\ i + 1 \in DOMAIN m /\ i + 1 # 1 /\ m[i + 1] = l[i]
        BY <1>1, <1>2, SMTT(30)
  <1>5. \A i \in Nat \ {0} : am(i + 1) = al(i)
        BY <1>1, <1>2
  <1>6. 1 \in DOMAIN m /\ m[1] = h
        BY <1>1, <1>2
  <1>7. /\ s.free_chunks_list = al(1)
        /\ \A i \in DOMAIN l : /\ s.chunks[l[i]].next = al(i + 1)
                               /\ \A j \in DOMAIN l \ {i} : l[i] # l[j]
        /\ \A i \in DOMAIN l : l[i] \in D
        /\ \A d \in D : \E i \in DOMAIN l : l[i] = d
        BY DEF Listed
  <1> HIDE DEF l, m
  <1>8. t.free_chunks_list = am(1)
        BY <1>6
  <1>9. ASSUME NEW i \in DOMAIN m
        PROVE  /\ t.chunks[m[i]].next = am(i + 1)
               /\ \A j \in DOMAIN m \ {i} : m[i] # m[j]
    <2>1. CASE i = 1
      <3>1. am(i + 1) = al(1)
            BY <2>1, <1>5
      <3>2. \A j \in DOMAIN m \ {i} : m[j] \in D
            BY <2>1, <1>3, <1>7
      <3> QED BY <3>1, <3>2, <2>1, <1>6, <1>7
    <2>2. CASE i # 1
      <3>1. i - 1 \in DOMAIN l /\ m[i] = l[i - 1] /\ i \in Nat /\ m[i] \in D
            BY <2>2, <1>3, <1>7
      <3>2. s.chunks[l[i - 1]].next = al((i - 1) + 1)
            BY <3>1, <1>7
      <3>3. (i - 1) + 1 = i /\ i \in Nat \ {0}
            BY <3>1, <1>4
      <3>4. am(i + 1) = al(i)
            BY <3>3, <1>5
      <3>5. t.chunks[m[i]].next = s.chunks[l[i - 1]].next
            BY <3>1
      <3>6. ASSUME NEW j \in DOMAIN m \ {i} PROVE m[i] # m[j]
        <4>1. CASE j = 1
              BY <4>1, <1>6, <3>1
        <4>2. CASE j # 1
          <5>1. j - 1 \in DOMAIN l /\ m[j] = l[j - 1] /\ j - 1 # i - 1
                BY <4>2, <1>3, <3>1
          <5> QED BY <5>1, <3>1, <1>7
        <4> QED BY <4>1, <4>2
      <3> QED BY <3>2, <3>3, <3>4, <3>5, <3>6
    <2> QED BY <2>1, <2>2
  <1>10. {m[i] : i \in DOMAIN m} = D \cup {h}
    <2>1. \A i \in DOMAIN m : m[i] \in D \cup {h}
          BY <1>3, <1>6, <1>7
    <2>2. ASSUME NEW d \in D \cup {h} PROVE \E i \in DOMAIN m : m[i] = d
      <3>1. CASE d = h
            BY <3>1, <1>6
      <3>2. CASE d \in D
        <4>1. PICK i \in DOMAIN l : l[i] = d
              BY <3>2, <1>7
        <4> QED BY <4>1, <1>4
      <3> QED BY <3>1, <3>2
    <2> QED BY <2>1, <2>2
  <1> QED BY <1>8, <1>9, <1>10 DEF Listed, m

\* What Merge does.
Merged(s, h1, h2, D, t) ==
    LET h3 == s.chunks[h2].next IN
    /\ t \in BFCType
    /\ Fixed(s, t)
    /\ t.bytes_in_use = s.bytes_in_use
    /\ t.bins = s.bins
    /\ DOMAIN t.chunks = DOMAIN s.chunks
    /\ \A i \in DOMAIN s.chunks \ {h1, h2, h3} : t.chunks[i] = s.chunks[i]
    /\ t.chunks[h1] = [s.chunks[h1] EXCEPT !.next = h3,
                          !.size = s.chunks[h1].size + s.chunks[h2].size]
    /\ t.chunks[h2].bin_num = s.chunks[h2].bin_num
    /\ h3 # kInvalidChunkHandle =>
          t.chunks[h3] = [s.chunks[h3] EXCEPT !.prev = h1]
    /\ t.handles = [p \in DOMAIN s.handles \ {s.chunks[h2].ptr} |-> s.handles[p]]
    /\ Listed(t, D \cup {h2})

\* Merge and DeleteChunk do that.
LEMMA MergeFields ==
  ASSUME NEW s \in BFCType, NEW h1 \in DOMAIN s.chunks, NEW h2 \in DOMAIN s.chunks,
         h1 # h2,
         NEW D \in SUBSET DOMAIN s.chunks, Listed(s, D), h1 \notin D, h2 \notin D,
         NEW h3, h3 = s.chunks[h2].next,
         h3 = kInvalidChunkHandle \/ h3 \in DOMAIN s.chunks \ (D \cup {h1, h2}),
         NEW t, t = Merge(s, h1, h2)
  PROVE  Merged(s, h1, h2, D, t)
  <1> USE DEF Merged
  <1> DEFINE a == s.chunks[h1]
             b == s.chunks[h2]
             d == [a EXCEPT !.next = h3, !.size = a.size + b.size]
             s1 == [s EXCEPT !.chunks[h1].next = h3,
                             !.chunks[h1].size = @ + s.chunks[h2].size]
             s2 == SetPrev(s1, h3, h1)
             e == [Chunk(nullptr, 0, kInvalidChunkHandle, s2.free_chunks_list)
                     EXCEPT !.bin_num = b.bin_num]
             hs == [p \in DOMAIN s.handles \ {b.ptr} |-> s.handles[p]]
  <1>1. a \in ChunkType /\ b \in ChunkType
        BY ChunkTyped
  <1>2. h3 \in Nat /\ h1 \in Nat /\ h2 \in Nat /\ h1 # kInvalidChunkHandle
          /\ h2 # kInvalidChunkHandle
    <2>1. DOMAIN s.chunks = 1 .. Len(s.chunks) /\ Len(s.chunks) \in Nat
          BY LenProperties DEF BFCType
    <2> QED BY <2>1, <1>1 DEF ChunkType, kInvalidChunkHandle
  <1>3. d \in ChunkType
    <2>1. \A x \in ChunkType, n \in Nat, m \in Nat :
             [x EXCEPT !.next = n, !.size = m] \in ChunkType
          BY DEF ChunkType
    <2>2. a.size + b.size \in Nat
          BY <1>1 DEF ChunkType
    <2> QED BY <2>1, <2>2, <1>1, <1>2
  <1>4. s.chunks \in Seq(ChunkType) /\ s.chunks \in [DOMAIN s.chunks -> ChunkType]
        BY LenProperties DEF BFCType
  <1>5. s1 = [s EXCEPT !.chunks = [s.chunks EXCEPT ![h1] = d]]
    <2>1. [s.chunks EXCEPT ![h1].next = h3, ![h1].size = @ + s.chunks[h2].size]
            = [s.chunks EXCEPT ![h1] = d]
      <3>1. [a EXCEPT !.next = h3].size = a.size
            BY <1>1 DEF ChunkType
      <3> QED BY <3>1, <1>4
    <2>2. s1 = [s EXCEPT !.chunks = [s.chunks EXCEPT ![h1].next = h3,
                                        ![h1].size = @ + s.chunks[h2].size]]
          BY DEF BFCType
    <2> QED BY <2>1, <2>2
  <1> HIDE DEF d, s1
  <1>6. /\ s1 \in BFCType
        /\ Fixed(s, s1)
        /\ s1.handles = s.handles
        /\ s1.bytes_in_use = s.bytes_in_use
        /\ s1.bins = s.bins
        /\ s1.free_chunks_list = s.free_chunks_list
        /\ s1.deleted = s.deleted
        /\ DOMAIN s1.chunks = DOMAIN s.chunks
        /\ \A i \in DOMAIN s.chunks \ {h1} : s1.chunks[i] = s.chunks[i]
        /\ s1.chunks[h1] = d
    <2> DEFINE ch == [s.chunks EXCEPT ![h1] = d]
    <2>1. /\ ch \in Seq(ChunkType)
          /\ DOMAIN ch = DOMAIN s.chunks
          /\ ch[h1] = d
          /\ \A i \in DOMAIN s.chunks \ {h1} : ch[i] = s.chunks[i]
          BY <1>3, <1>4, Rewritten
    <2> HIDE DEF ch
    <2>2. /\ s1 \in BFCType
          /\ Fixed(s, s1)
          /\ s1.handles = s.handles
          /\ s1.bytes_in_use = s.bytes_in_use
          /\ s1.bins = s.bins
          /\ s1.free_chunks_list = s.free_chunks_list
          /\ s1.deleted = s.deleted
          /\ s1.chunks = ch
          BY <2>1, <1>5 DEF BFCType, Fixed, ch
    <2> QED BY <2>1, <2>2
  <1>7. /\ s2 \in BFCType
        /\ Fixed(s1, s2)
        /\ s2.handles = s.handles
        /\ s2.bytes_in_use = s.bytes_in_use
        /\ s2.bins = s.bins
        /\ s2.free_chunks_list = s.free_chunks_list
        /\ s2.deleted = s.deleted
        /\ DOMAIN s2.chunks = DOMAIN s.chunks
        /\ \A i \in DOMAIN s.chunks \ {h3} : s2.chunks[i] = s1.chunks[i]
        /\ h3 # kInvalidChunkHandle =>
              s2.chunks[h3] = [s1.chunks[h3] EXCEPT !.prev = h1]
    <2>1. h3 \in DOMAIN s1.chunks \cup {kInvalidChunkHandle} /\ h1 \in Nat
          BY <1>2, <1>6
    <2>2. PrevSet(s1, h3, h1, s2)
          BY <2>1, <1>6, SetPrevFields
    <2> QED BY <2>2, <1>6 DEF PrevSet
  <1>8. s2.chunks[h2] = b /\ s2.chunks[h1] = d
        BY <1>2, <1>6, <1>7
  <1>9. t = DeleteChunk(s2, h2)
        BY DEF Merge, s1
  <1> HIDE DEF s2
  <1>10. t = [s2 EXCEPT !.handles = hs, !.chunks = [s2.chunks EXCEPT ![h2] = e],
                        !.free_chunks_list = h2, !.deleted = <<h2>> \o s.deleted]
         BY <1>7, <1>8, <1>9 DEF DeleteChunk
  <1>11. e \in ChunkType /\ e.bin_num = b.bin_num /\ e.next = s.free_chunks_list
         BY <1>1, <1>7 DEF Chunk, ChunkType, BFCType, nullptr, kInvalidChunkHandle, kInvalidBinNum
  <1> HIDE DEF e
  <1>12. hs \in HandleMaps
    <2>1. s.handles \in [DOMAIN s.handles -> Nat] /\ DOMAIN s.handles \subseteq Nat
          BY HandlesTyped DEF BFCType
    <2>2. DOMAIN hs = DOMAIN s.handles \ {b.ptr} /\ hs \in [DOMAIN s.handles \ {b.ptr} -> Nat]
          BY <2>1
    <2> HIDE DEF hs
    <2> QED BY <2>1, <2>2, HandlesTyped
  <1> HIDE DEF hs
  <1>13. <<h2>> \o s.deleted \in Seq(Nat)
    <2>1. <<h2>> \in Seq(Nat) /\ s.deleted \in Seq(Nat)
          BY <1>2 DEF BFCType
    <2> QED BY <2>1, ConcatProperties
  <1>14. /\ t \in BFCType
         /\ Fixed(s2, t)
         /\ t.handles = hs
         /\ t.bytes_in_use = s.bytes_in_use
         /\ t.bins = s.bins
         /\ t.free_chunks_list = h2
         /\ t.deleted = <<h2>> \o s.deleted
         /\ DOMAIN t.chunks = DOMAIN s.chunks
         /\ t.chunks[h2] = e
         /\ \A i \in DOMAIN s.chunks \ {h2} : t.chunks[i] = s2.chunks[i]
    <2> DEFINE ch == [s2.chunks EXCEPT ![h2] = e]
    <2>1. /\ ch \in Seq(ChunkType)
          /\ DOMAIN ch = DOMAIN s.chunks
          /\ ch[h2] = e
          /\ \A i \in DOMAIN s.chunks \ {h2} : ch[i] = s2.chunks[i]
      <3>1. s2.chunks \in Seq(ChunkType) /\ h2 \in DOMAIN s2.chunks
            BY <1>7 DEF BFCType
      <3> QED BY <3>1, <1>7, <1>11, Rewritten
    <2>2. t = [s2 EXCEPT !.handles = hs, !.chunks = ch,
                         !.free_chunks_list = h2, !.deleted = <<h2>> \o s.deleted]
          BY <1>10
    <2> HIDE DEF ch
    <2>3. /\ t \in BFCType
          /\ Fixed(s2, t)
          /\ t.handles = hs
          /\ t.bytes_in_use = s2.bytes_in_use
          /\ t.bins = s2.bins
          /\ t.free_chunks_list = h2
          /\ t.deleted = <<h2>> \o s.deleted
          /\ t.chunks = ch
          BY <2>1, <2>2, <1>2, <1>7, <1>12, <1>13 DEF BFCType, Fixed
    <2> QED BY <2>1, <2>3, <1>7
  <1>15. Fixed(s, t)
         BY <1>6, <1>7, <1>14 DEF Fixed
  <1>16. h3 # h1 /\ h3 # h2 /\ h3 \notin D
    <2>1. kInvalidChunkHandle \notin DOMAIN s.chunks
          BY LenProperties DEF kInvalidChunkHandle, BFCType
    <2> QED BY <2>1
  <1>17. /\ \A i \in DOMAIN s.chunks \ {h1, h2, h3} : t.chunks[i] = s.chunks[i]
         /\ t.chunks[h1] = d
         /\ h3 # kInvalidChunkHandle =>
               t.chunks[h3] = [s.chunks[h3] EXCEPT !.prev = h1]
         BY <1>6, <1>7, <1>8, <1>14, <1>16
  <1>18. Listed(t, D \cup {h2})
    <2>1. \A i \in D : t.chunks[i].next = s.chunks[i].next
          BY <1>16, <1>17
    <2>2. t.chunks[h2].next = s.free_chunks_list
          BY <1>11, <1>14
    <2>3. s.deleted \in Seq(Nat)
          BY DEF BFCType
    <2>4. t.deleted = <<h2>> \o s.deleted /\ t.free_chunks_list = h2 /\ h2 \in Nat
          BY <1>2, <1>14
    <2>5. Listed(s, D) /\ h2 \notin D
          OBVIOUS
    <2> QED BY ONLY <2>1, <2>2, <2>3, <2>4, <2>5, ListedPushed
  <1> QED BY <1>11, <1>14, <1>15, <1>17, <1>18 DEF d, hs

\* AddRegion before its chunk is put into a bin.
Opened(s, bytes, granted, increased) ==
    LET h == NextHandle(s)
        ptr == DeviceBase(s)
        s1 == [s EXCEPT
                 !.curr_region_allocation_bytes = IF increased THEN @ ELSE @ * 2,
                 !.total_region_allocated_bytes = @ + bytes,
                 !.regions = @ \cup {[ptr |-> ptr, memory_size |-> bytes]},
                 !.device_used = @ + granted]
        s2 == AllocateChunk(s1, Chunk(ptr, bytes, kInvalidChunkHandle,
                                      kInvalidChunkHandle))
    IN  SetHandle(s2, ptr, h)

\* What AddRegion does, before its chunk is put into a bin.
Grown(s, bytes, granted, increased, D, t, n) ==
    LET ptr == DeviceBase(s) IN
    /\ t \in BFCType
    /\ t.regions = s.regions \cup {[ptr |-> ptr, memory_size |-> bytes]}
    /\ t.curr_region_allocation_bytes =
          IF increased THEN s.curr_region_allocation_bytes
                       ELSE s.curr_region_allocation_bytes * 2
    /\ t.total_region_allocated_bytes = s.total_region_allocated_bytes + bytes
    /\ t.started_backpedal = s.started_backpedal
    /\ t.device_used = s.device_used + granted
    /\ t.bytes_in_use = s.bytes_in_use
    /\ t.bins = s.bins
    /\ n \in Nat \ {0}
    /\ n \in D \/ n \notin DOMAIN s.chunks
    /\ DOMAIN t.chunks = DOMAIN s.chunks \cup {n}
    /\ \A i \in DOMAIN s.chunks \ {n} : t.chunks[i] = s.chunks[i]
    /\ t.chunks[n] = Chunk(ptr, bytes, kInvalidChunkHandle, kInvalidChunkHandle)
    /\ DOMAIN t.handles = DOMAIN s.handles \cup {ptr}
    /\ t.handles[ptr] = n
    /\ \A p \in DOMAIN s.handles \ {ptr} : t.handles[p] = s.handles[p]
    /\ Listed(t, D \ {n})

\* Extend does that.
LEMMA OpenedFields ==
  ASSUME NEW s \in BFCType, NEW D \in SUBSET DOMAIN s.chunks, Listed(s, D),
         \A i \in D : s.chunks[i].bin_num = kInvalidBinNum,
         NEW bytes \in Nat, NEW granted \in Nat, NEW increased \in BOOLEAN,
         NEW t, t = Opened(s, bytes, granted, increased),
         NEW n, n = NextHandle(s),
         NEW ptr, ptr = DeviceBase(s)
  PROVE  Grown(s, bytes, granted, increased, D, t, n)
  <1> USE DEF Grown
  <1> DEFINE s1 == [s EXCEPT
                 !.curr_region_allocation_bytes = IF increased THEN @ ELSE @ * 2,
                 !.total_region_allocated_bytes = @ + bytes,
                 !.regions = @ \cup {[ptr |-> ptr, memory_size |-> bytes]},
                 !.device_used = @ + granted]
             k == Chunk(ptr, bytes, kInvalidChunkHandle, kInvalidChunkHandle)
             s2 == AllocateChunk(s1, k)
  <1>1. ptr \in Nat
        BY DEF DeviceBase, BFCType, kMinAllocationSize
  <1>2. k \in ChunkType /\ k.bin_num = kInvalidBinNum
        BY <1>1 DEF Chunk, ChunkType, kInvalidBinNum, kInvalidChunkHandle
  <1>3. t = SetHandle(s2, ptr, n)
        BY DEF Opened
  <1>4. /\ s1 \in BFCType
        /\ s1.regions = s.regions \cup {[ptr |-> ptr, memory_size |-> bytes]}
        /\ s1.curr_region_allocation_bytes =
              IF increased THEN s.curr_region_allocation_bytes
                           ELSE s.curr_region_allocation_bytes * 2
        /\ s1.total_region_allocated_bytes = s.total_region_allocated_bytes + bytes
        /\ s1.started_backpedal = s.started_backpedal
        /\ s1.device_used = s.device_used + granted
        /\ s1.bytes_in_use = s.bytes_in_use
        /\ s1.bins = s.bins
        /\ s1.handles = s.handles
        /\ s1.chunks = s.chunks
        /\ s1.deleted = s.deleted
        /\ s1.free_chunks_list = s.free_chunks_list
    <2> DEFINE a == IF increased THEN s.curr_region_allocation_bytes
                                 ELSE s.curr_region_allocation_bytes * 2
               b == s.total_region_allocated_bytes + bytes
               g == s.regions \cup {[ptr |-> ptr, memory_size |-> bytes]}
               u == s.device_used + granted
    <2>1. a \in Nat /\ b \in Nat /\ u \in Nat
          BY DEF BFCType
    <2>2. g \in SUBSET RegionType
          BY <1>1 DEF BFCType, RegionType
    <2>3. s1 = [s EXCEPT !.curr_region_allocation_bytes = a,
                         !.total_region_allocated_bytes = b,
                         !.regions = g, !.device_used = u]
          OBVIOUS
    <2> HIDE DEF a, b, g, u, s1
    <2>4. /\ s1 \in BFCType
          /\ s1.regions = g
          /\ s1.curr_region_allocation_bytes = a
          /\ s1.total_region_allocated_bytes = b
          /\ s1.device_used = u
          /\ s1.started_backpedal = s.started_backpedal
          /\ s1.bytes_in_use = s.bytes_in_use
          /\ s1.bins = s.bins
          /\ s1.handles = s.handles
          /\ s1.chunks = s.chunks
          /\ s1.deleted = s.deleted
          /\ s1.free_chunks_list = s.free_chunks_list
          BY <2>1, <2>2, <2>3 DEF BFCType
    <2> QED BY <2>4 DEF a, b, g, u
  <1> HIDE DEF k, s1
  <1>5. Listed(s1, D) /\ n = NextHandle(s1)
        BY <1>4, ListedKept DEF NextHandle
  <1>6. /\ s2 \in BFCType
        /\ Fixed(s1, s2)
        /\ s2.handles = s1.handles
        /\ s2.bytes_in_use = s1.bytes_in_use
        /\ s2.bins = s1.bins
        /\ n \in Nat \ {0}
        /\ n \in D \/ n \notin DOMAIN s1.chunks
        /\ DOMAIN s2.chunks = DOMAIN s1.chunks \cup {n}
        /\ \A i \in DOMAIN s1.chunks \ {n} : s2.chunks[i] = s1.chunks[i]
        /\ s2.chunks[n] = k
        /\ Listed(s2, D \ {n})
    <2>1. /\ s1 \in BFCType /\ D \in SUBSET DOMAIN s1.chunks
          /\ \A i \in D : s1.chunks[i].bin_num = kInvalidBinNum
          BY <1>4
    <2>2. Allocated(s1, k, D, s2, n)
          BY <2>1, <1>2, <1>5, AllocateFields
    <2> QED BY <2>2 DEF Allocated
  <1> HIDE DEF s2
  <1>7. /\ t \in BFCType
        /\ Fixed(s2, t)
        /\ t.chunks = s2.chunks
        /\ t.bins = s2.bins
        /\ t.free_chunks_list = s2.free_chunks_list
        /\ t.deleted = s2.deleted
        /\ t.bytes_in_use = s2.bytes_in_use
        /\ DOMAIN t.handles = DOMAIN s2.handles \cup {ptr}
        /\ t.handles[ptr] = n
        /\ \A p \in DOMAIN s2.handles \ {ptr} : t.handles[p] = s2.handles[p]
    <2>1. s2 \in BFCType /\ n \in Nat
          BY <1>6
    <2>2. HandleSet(s2, ptr, n, t)
          BY <2>1, <1>1, <1>3, SetHandleFields
    <2> QED BY <2>2 DEF HandleSet
  <1>8. Listed(t, D \ {n})
        BY <1>6, <1>7, ListedKept
  <1> QED BY <1>4, <1>6, <1>7, <1>8 DEF Fixed, k

(***************************************************************************)
(* Units of memory.                                                        *)
(***************************************************************************)

\* The chunk begins and ends between two units.
Even(c) ==
    /\ Whole(c.ptr) /\ c.ptr >= kMinAllocationSize
    /\ Whole(c.size) /\ c.size >= kMinAllocationSize

\* The bytes of a chunk are those of its units.
LEMMA SpanCounted ==
  ASSUME NEW c, Even(c)
  PROVE  IsFiniteSet(Span(c)) /\ kMinAllocationSize * Cardinality(Span(c)) = c.size
  <1> DEFINE a == c.ptr \div 256
             b == (c.ptr + c.size) \div 256 - 1
  <1>1. a \in Int /\ b \in Int /\ a <= b /\ 256 * (b - a + 1) = c.size
        BY DEF Even, Whole, kMinAllocationSize
  <1>2. Span(c) = a .. b
        BY DEF Span, kMinAllocationSize
  <1> HIDE DEF a, b
  <1>3. IsFiniteSet(a .. b)
        BY <1>1, FS_Interval
  <1>4. Cardinality(a .. b) = IF a > b THEN 0 ELSE b - a + 1
        BY <1>1, FS_Interval
  <1>5. Cardinality(a .. b) = b - a + 1
        BY <1>1, <1>4
  <1> QED BY <1>1, <1>2, <1>3, <1>5 DEF kMinAllocationSize

\* Chunks that lie apart share no unit.
LEMMA SpansApart ==
  ASSUME NEW c, NEW d, Even(c), Even(d), Apart(c, d)
  PROVE  Span(c) \cap Span(d) = {}
  BY DEF Span, Even, Whole, kMinAllocationSize, Apart

\* The units of two adjacent chunks are those of the chunk they become.
LEMMA SpansJoin ==
  ASSUME NEW c, NEW d, NEW e, Even(c), Even(d), Even(e),
         d.ptr = c.ptr + c.size, e.ptr = c.ptr, e.size = c.size + d.size
  PROVE  Span(e) = Span(c) \cup Span(d)
  BY DEF Span, Even, Whole, kMinAllocationSize

\* The units depend on the place alone.
LEMMA SpanOf ==
  ASSUME NEW c, NEW d, c.ptr = d.ptr, c.size = d.size
  PROVE  Span(c) = Span(d)
  BY DEF Span

(***************************************************************************)
(* The books, with the free chunks X in hand.                              *)
(***************************************************************************)

\* The chunk of an address is found under it.
Found(s) ==
    \A p \in DOMAIN s.handles : /\ s.handles[p] \in DOMAIN s.chunks
                                /\ s.chunks[s.handles[p]].ptr = p

\* The chunks lie apart, in what the device has handed out.
Placed(s) ==
    /\ Whole(s.device_used)
    /\ \A h \in Live(s) : /\ Even(s.chunks[h])
                          /\ s.chunks[h].ptr + s.chunks[h].size <= DeviceBase(s)
    /\ \A h, i \in Live(s) : h # i => Apart(s.chunks[h], s.chunks[i])

\* The neighbours of a chunk.
NextRight(s, h) ==
    LET c == s.chunks[h] IN
    IF c.next = kInvalidChunkHandle
      THEN \E r \in s.regions : c.ptr + c.size = r.ptr + r.memory_size
      ELSE /\ c.next \in Live(s)
           /\ s.chunks[c.next].ptr = c.ptr + c.size
           /\ s.chunks[c.next].prev = h
PrevRight(s, h) ==
    LET c == s.chunks[h] IN
    IF c.prev = kInvalidChunkHandle
      THEN \E r \in s.regions : c.ptr = r.ptr
      ELSE c.prev \in Live(s) /\ s.chunks[c.prev].next = h

Linked(s) ==
    /\ \A r \in s.regions :
          /\ r.ptr \in DOMAIN s.handles
          /\ s.chunks[s.handles[r.ptr]].prev = kInvalidChunkHandle
    /\ \A h \in Live(s) : NextRight(s, h) /\ PrevRight(s, h)

\* The chunks in hand are in no bin, and beside other free ones, maybe.
Binned(s, X) ==
    /\ X \subseteq Live(s)
    /\ \A h \in X : ~InUse(s, h)
    /\ \A b \in Bins : s.bins[b] =
          {h \in Live(s) \ X : ~InUse(s, h) /\ s.chunks[h].bin_num = b}
    /\ \A h \in DOMAIN s.chunks :
          s.chunks[h].bin_num = IF h \in Live(s) \ X /\ ~InUse(s, h)
                                  THEN BinNumForSize(s.chunks[h].size)
                                  ELSE kInvalidBinNum
    /\ \A h \in Live(s) \ X :
          LET n == s.chunks[h].next
          IN  ~InUse(s, h) /\ n # kInvalidChunkHandle /\ n \notin X => InUse(s, n)

\* The totals.
Counted(s) ==
    /\ IsFiniteSet(Units(s, Live(s)))
    /\ kMinAllocationSize * Cardinality(Units(s, Live(s)))
         = s.total_region_allocated_bytes
    /\ s.bytes_in_use = kMinAllocationSize * Cardinality(Units(s, Used(s)))

Deleted(s) == DOMAIN s.chunks \ Live(s)

Books(s, X) ==
    /\ s \in BFCType
    /\ Found(s)
    /\ Placed(s)
    /\ Linked(s)
    /\ Binned(s, X)
    /\ Listed(s, Deleted(s))
    /\ Counted(s)

\* With nothing in hand the books are what the properties say.
LEMMA BooksSound ==
  ASSUME NEW s, Books(s, {})
  PROVE  /\ ChunksTileRegions(s)
         /\ FreeChunksBinned(s)
         /\ DeletedChunksListed(s)
         /\ s.bytes_in_use = kMinAllocationSize * Cardinality(Units(s, Used(s)))
  <1>1. ChunksTileRegions(s)
        BY DEF Books, ChunksTileRegions, Found, Linked, Placed, Counted, NextRight, PrevRight
  <1>2. FreeChunksBinned(s)
    <2>1. \A b \in Bins : s.bins[b] =
            {h \in Live(s) : ~InUse(s, h) /\ s.chunks[h].bin_num = b}
          BY DEF Books, Binned
    <2>2. ASSUME NEW h \in DOMAIN s.chunks
          PROVE  /\ s.chunks[h].bin_num = IF h \in Live(s) /\ ~s.chunks[h].in_use
                                            THEN BinNumForSize(s.chunks[h].size)
                                            ELSE kInvalidBinNum
                 /\ h \in Live(s) /\ ~s.chunks[h].in_use
                      /\ s.chunks[h].next # kInvalidChunkHandle
                    => InUse(s, s.chunks[h].next)
          BY DEF Books, Binned, InUse
    <2> QED BY <2>1, <2>2 DEF FreeChunksBinned
  <1>3. DeletedChunksListed(s)
        BY DEF Books, Listed, Deleted, DeletedChunksListed
  <1> QED BY <1>1, <1>2, <1>3 DEF Books, Counted

\* A chunk that stands for memory has its record and its handle.
LEMMA LiveFound ==
  ASSUME NEW s, Found(s), NEW h \in Live(s)
  PROVE  /\ h \in DOMAIN s.chunks
         /\ s.chunks[h].ptr \in DOMAIN s.handles
         /\ s.handles[s.chunks[h].ptr] = h
  BY DEF Found, Live

\* A handle of memory is not kInvalidChunkHandle.
LEMMA LiveNat ==
  ASSUME NEW s \in BFCType, Found(s), NEW h \in Live(s)
  PROVE  h \in Nat \ {0} /\ s.chunks[h] \in ChunkType
  <1>1. h \in DOMAIN s.chunks
        BY LiveFound
  <1>2. DOMAIN s.chunks = 1 .. Len(s.chunks) /\ Len(s.chunks) \in Nat
        BY LenProperties DEF BFCType
  <1> QED BY <1>1, <1>2, ChunkTyped

\* What does not concern the places of the chunks changes none of this.
Alike(s, t) ==
    /\ Fixed(s, t)
    /\ t.handles = s.handles
    /\ t.free_chunks_list = s.free_chunks_list
    /\ t.deleted = s.deleted
    /\ DOMAIN t.chunks = DOMAIN s.chunks
    /\ \A i \in DOMAIN s.chunks : SamePlace(t.chunks[i], s.chunks[i])

\* Places, neighbours and the list of free records stay right.
LEMMA AlikeKeeps ==
  ASSUME NEW s, NEW t, NEW X, Books(s, X), Alike(s, t)
  PROVE  /\ Live(t) = Live(s)
         /\ Found(t)
         /\ Placed(t)
         /\ Linked(t)
         /\ Deleted(t) = Deleted(s)
         /\ Listed(t, Deleted(t))
         /\ \A H \in SUBSET Live(s) : Units(t, H) = Units(s, H)
  <1>1. Live(t) = Live(s)
        BY DEF Live, Alike
  <1>2. Found(t)
        BY DEF Found, Alike, SamePlace, Books
  <1>3. \A h \in Live(s) : h \in DOMAIN s.chunks /\ SamePlace(t.chunks[h], s.chunks[h])
        BY LiveFound DEF Alike, Books
  <1>4. Placed(t)
    <2>1. \A h \in Live(t) : Even(t.chunks[h])
          BY <1>1, <1>3 DEF Books, Placed, Even, SamePlace
    <2>2. \A h \in Live(t) : t.chunks[h].ptr + t.chunks[h].size <= DeviceBase(t)
          BY <1>1, <1>3 DEF Books, Placed, DeviceBase, SamePlace, Alike, Fixed
    <2>3. \A h, i \in Live(t) : h # i => Apart(t.chunks[h], t.chunks[i])
          BY <1>1, <1>3 DEF Books, Placed, Apart, SamePlace
    <2> QED BY <2>1, <2>2, <2>3 DEF Placed, Books, Alike, Fixed
  <1>5. Linked(t)
    <2>1. \A r \in t.regions :
             /\ r.ptr \in DOMAIN t.handles
             /\ t.chunks[t.handles[r.ptr]].prev = kInvalidChunkHandle
          BY DEF Books, Linked, Found, Alike, Fixed, SamePlace
    <2>2. ASSUME NEW h \in Live(t) PROVE NextRight(t, h) /\ PrevRight(t, h)
      <3>1. h \in Live(s) /\ NextRight(s, h) /\ PrevRight(s, h)
            BY <1>1 DEF Books, Linked
      <3>2. NextRight(t, h)
            BY <3>1, <1>1, <1>3 DEF NextRight, SamePlace, Alike, Fixed
      <3>3. PrevRight(t, h)
            BY <3>1, <1>1, <1>3 DEF PrevRight, SamePlace, Alike, Fixed
      <3> QED BY <3>2, <3>3
    <2> QED BY <2>1, <2>2 DEF Linked
  <1>6. Deleted(t) = Deleted(s)
        BY <1>1 DEF Deleted, Alike
  <1>7. Listed(t, Deleted(t))
    <2>1. \A i \in Deleted(s) : t.chunks[i].next = s.chunks[i].next
          BY DEF Deleted, Alike, SamePlace
    <2>2. /\ Listed(s, Deleted(s)) /\ t.deleted = s.deleted
          /\ t.free_chunks_list = s.free_chunks_list
          BY DEF Books, Alike
    <2> QED BY <1>6, <2>1, <2>2, ListedKept
  <1>8. ASSUME NEW H \in SUBSET Live(s) PROVE Units(t, H) = Units(s, H)
    <2>1. \A h \in H : Span(t.chunks[h]) = Span(s.chunks[h])
          BY <1>3, SpanOf DEF SamePlace
    <2> QED BY <2>1 DEF Units
  <1> QED BY <1>1, <1>2, <1>4, <1>5, <1>6, <1>7, <1>8

\* Nothing but bins has changed: the totals stay.
LEMMA CountsKept ==
  ASSUME NEW s, NEW t, NEW X, Books(s, X), Alike(s, t),
         t.bytes_in_use = s.bytes_in_use,
         \A i \in Live(s) : InUse(t, i) = InUse(s, i)
  PROVE  Counted(t)
  <1>1. Live(t) = Live(s) /\ \A H \in SUBSET Live(s) : Units(t, H) = Units(s, H)
        BY AlikeKeeps
  <1>2. Used(t) = Used(s) /\ Used(s) \subseteq Live(s)
        BY <1>1 DEF Used
  <1>3. Units(t, Live(t)) = Units(s, Live(s)) /\ Units(t, Used(t)) = Units(s, Used(s))
        BY <1>1, <1>2
  <1>4. t.total_region_allocated_bytes = s.total_region_allocated_bytes
        BY DEF Alike, Fixed
  <1> QED BY <1>3, <1>4 DEF Counted, Books

\* The uses of the chunks are those of before.
SameUse(s, t) ==
    /\ t.bytes_in_use = s.bytes_in_use
    /\ \A i \in DOMAIN s.chunks : InUse(t, i) = InUse(s, i)

\* A free chunk is taken out of its bin.
LEMMA RemoveBooks ==
  ASSUME NEW s, NEW X, Books(s, X), NEW h \in Live(s) \ X, ~InUse(s, h),
         NEW t, t = RemoveFreeChunkFromBin(s, h)
  PROVE  Books(t, X \cup {h}) /\ Alike(s, t) /\ SameUse(s, t)
  <1>1. s \in BFCType /\ h \in DOMAIN s.chunks
        BY LiveFound DEF Books
  <1>2. Removed(s, h, t)
        BY <1>1, RemoveFields
  <1>3. s.chunks[h] \in ChunkType /\ kInvalidBinNum \in Int
        BY <1>1, ChunkTyped DEF kInvalidBinNum
  <1>4. /\ SamePlace(t.chunks[h], s.chunks[h])
        /\ t.chunks[h].in_use = s.chunks[h].in_use
        /\ t.chunks[h].bin_num = kInvalidBinNum
        BY <1>2, <1>3, ChunkFields DEF Removed
  <1>5. Alike(s, t)
        BY <1>2, <1>4 DEF Alike, Removed, SamePlace
  <1>6. SameUse(s, t)
        BY <1>2, <1>4 DEF SameUse, Removed, InUse
  <1>7. /\ Live(t) = Live(s) /\ Found(t) /\ Placed(t) /\ Linked(t)
        /\ Listed(t, Deleted(t))
        BY <1>5, AlikeKeeps
  <1>8. Counted(t)
        BY <1>5, <1>6, LiveFound, CountsKept DEF SameUse, Books
  <1>9. Binned(t, X \cup {h})
    <2>1. /\ X \cup {h} \subseteq Live(t)
          /\ \A i \in X \cup {h} : ~InUse(t, i)
          BY <1>1, <1>6, <1>7, LiveFound DEF SameUse, Books, Binned
    <2>2. ASSUME NEW i \in DOMAIN t.chunks
          PROVE  t.chunks[i].bin_num = IF i \in Live(t) \ (X \cup {h}) /\ ~InUse(t, i)
                                         THEN BinNumForSize(t.chunks[i].size)
                                         ELSE kInvalidBinNum
      <3>1. CASE i = h
            BY <3>1, <1>4
      <3>2. CASE i # h
            BY <3>2, <1>2, <1>7 DEF Removed, Books, Binned, InUse
      <3> QED BY <3>1, <3>2
    <2>3. ASSUME NEW b \in Bins
          PROVE  t.bins[b] = {i \in Live(t) \ (X \cup {h}) :
                                ~InUse(t, i) /\ t.chunks[i].bin_num = b}
      <3>1. s.bins[b] = {i \in Live(s) \ X : ~InUse(s, i) /\ s.chunks[i].bin_num = b}
            BY DEF Books, Binned
      <3>2. t.bins[b] = s.bins[b] \ {h}
            BY <1>2, <3>1 DEF Removed
      <3>3. \A i \in Live(s) \ {h} : t.chunks[i] = s.chunks[i]
            BY <1>2, LiveFound DEF Removed, Books
      <3>4. \A i \in Live(s) \ {h} : InUse(t, i) = InUse(s, i)
            BY <3>3 DEF InUse
      <3> QED BY <3>1, <3>2, <3>3, <3>4, <1>7
    <2>4. ASSUME NEW i \in Live(t) \ (X \cup {h}), ~InUse(t, i),
                 t.chunks[i].next # kInvalidChunkHandle,
                 t.chunks[i].next \notin X \cup {h}
          PROVE  InUse(t, t.chunks[i].next)
      <3>1. i \in DOMAIN s.chunks /\ t.chunks[i].next = s.chunks[i].next /\ ~InUse(s, i)
            BY <2>4, <1>5, <1>6, <1>7, LiveFound DEF Alike, SamePlace, SameUse, Books
      <3>2. s.chunks[i].next \in Live(s)
            BY <2>4, <3>1, <1>7 DEF Books, Linked, NextRight
      <3>3. InUse(s, s.chunks[i].next)
            BY <2>4, <3>1, <1>7 DEF Books, Binned
      <3> QED BY <3>1, <3>2, <3>3, <1>6, LiveFound DEF SameUse, Books
    <2> QED BY <2>1, <2>2, <2>3, <2>4 DEF Binned
  <1>10. t \in BFCType
         BY <1>2 DEF Removed
  <1> QED BY <1>5, <1>6, <1>7, <1>8, <1>9, <1>10 DEF Books

\* A free chunk whose neighbours are not free goes into its bin.
LEMMA InsertBooks ==
  ASSUME NEW s, NEW X, Books(s, X), NEW h \in X,
         NEW n, n = s.chunks[h].next,
         n = kInvalidChunkHandle \/ InUse(s, n) \/ n \in X \ {h},
         NEW p, p = s.chunks[h].prev,
         p = kInvalidChunkHandle \/ InUse(s, p) \/ p \in X \ {h},
         NEW t, t = InsertFreeChunkIntoBin(s, h)
  PROVE  Books(t, X \ {h}) /\ Alike(s, t) /\ SameUse(s, t)
  <1>1. s \in BFCType /\ h \in Live(s) /\ ~InUse(s, h)
        BY DEF Books, Binned
  <1>2. h \in DOMAIN s.chunks
        BY <1>1, LiveFound DEF Books
  <1>3. s.chunks[h].size >= kMinAllocationSize /\ s.chunks[h].size \in Nat
        BY <1>1 DEF Books, Placed, Even, Whole
  <1>4. Inserted(s, h, t)
        BY <1>1, <1>2, <1>3, InsertFields
  <1>5. BinNumForSize(s.chunks[h].size) \in Bins /\ BinNumForSize(s.chunks[h].size) \in Int
    <2>1. BinNumForSize(s.chunks[h].size) \in Bins
          BY <1>3, BinExists
    <2> QED BY <2>1 DEF Bins
  <1>6. s.chunks[h] \in ChunkType
        BY <1>1, <1>2, ChunkTyped
  <1>7. /\ SamePlace(t.chunks[h], s.chunks[h])
        /\ t.chunks[h].in_use = s.chunks[h].in_use
        /\ t.chunks[h].bin_num = BinNumForSize(s.chunks[h].size)
        BY <1>4, <1>5, <1>6, ChunkFields DEF Inserted
  <1>8. Alike(s, t)
        BY <1>4, <1>7 DEF Alike, Inserted, SamePlace
  <1>9. SameUse(s, t)
        BY <1>4, <1>7 DEF SameUse, Inserted, InUse
  <1>10. /\ Live(t) = Live(s) /\ Found(t) /\ Placed(t) /\ Linked(t)
         /\ Listed(t, Deleted(t))
         BY <1>8, AlikeKeeps
  <1>11. Counted(t)
         BY <1>8, <1>9, LiveFound, CountsKept DEF SameUse, Books
  <1>12. Binned(t, X \ {h})
    <2>1. /\ X \ {h} \subseteq Live(t)
          /\ \A i \in X \ {h} : ~InUse(t, i)
          BY <1>1, <1>9, <1>10, LiveFound DEF SameUse, Books, Binned
    <2>2. ASSUME NEW i \in DOMAIN t.chunks
          PROVE  t.chunks[i].bin_num = IF i \in Live(t) \ (X \ {h}) /\ ~InUse(t, i)
                                         THEN BinNumForSize(t.chunks[i].size)
                                         ELSE kInvalidBinNum
      <3>1. CASE i = h
            BY <3>1, <1>1, <1>2, <1>7, <1>9, <1>10 DEF SamePlace, SameUse
      <3>2. CASE i # h
            BY <3>2, <1>4, <1>10 DEF Inserted, Books, Binned, InUse
      <3> QED BY <3>1, <3>2
    <2>3. ASSUME NEW b \in Bins
          PROVE  t.bins[b] = {i \in Live(t) \ (X \ {h}) :
                                ~InUse(t, i) /\ t.chunks[i].bin_num = b}
      <3>1. s.bins[b] = {i \in Live(s) \ X : ~InUse(s, i) /\ s.chunks[i].bin_num = b}
            BY DEF Books, Binned
      <3>2. t.bins[b] = IF b = BinNumForSize(s.chunks[h].size)
                          THEN s.bins[b] \cup {h} ELSE s.bins[b]
            BY <1>4 DEF Inserted
      <3>3. \A i \in Live(s) \ {h} : t.chunks[i] = s.chunks[i]
            BY <1>4, LiveFound DEF Inserted, Books
      <3>4. \A i \in Live(s) \ {h} : InUse(t, i) = InUse(s, i)
            BY <3>3 DEF InUse
      <3>5. ~InUse(t, h)
            BY <1>1, <1>2, <1>9 DEF SameUse
      <3> QED BY <3>1, <3>2, <3>3, <3>4, <3>5, <1>1, <1>7, <1>10
    <2>4. ASSUME NEW i \in Live(t) \ (X \ {h}), ~InUse(t, i),
                 t.chunks[i].next # kInvalidChunkHandle,
                 t.chunks[i].next \notin X \ {h}
          PROVE  InUse(t, t.chunks[i].next)
      <3>1. i \in DOMAIN s.chunks /\ t.chunks[i].next = s.chunks[i].next /\ ~InUse(s, i)
              /\ i \in Live(s)
            BY <2>4, <1>8, <1>9, <1>10, LiveFound DEF Alike, SamePlace, SameUse, Books
      <3>2. s.chunks[i].next \in Live(s) /\ s.chunks[s.chunks[i].next].prev = i
            BY <2>4, <3>1, <1>10 DEF Books, Linked, NextRight
      <3>3. InUse(s, s.chunks[i].next)
        <4>1. CASE i = h
              BY <4>1, <2>4, <3>1
        <4>2. CASE i # h /\ s.chunks[i].next = h
              BY <4>2, <2>4, <3>1, <3>2, LiveNat, <1>1 DEF kInvalidChunkHandle, Books
        <4>3. CASE i # h /\ s.chunks[i].next # h
              BY <4>3, <2>4, <3>1, <1>10 DEF Books, Binned
        <4> QED BY <4>1, <4>2, <4>3
      <3> QED BY <3>1, <3>2, <3>3, <1>9, LiveFound DEF SameUse, Books
    <2> QED BY <2>1, <2>2, <2>3, <2>4 DEF Binned
  <1>13. t \in BFCType
         BY <1>4 DEF Inserted
  <1> QED BY <1>8, <1>9, <1>10, <1>11, <1>12, <1>13 DEF Books

\* One chunk more adds its size.
LEMMA UnitsAdd ==
  ASSUME NEW s, NEW H, NEW h, h \notin H, IsFiniteSet(Units(s, H)),
         \A i \in H \cup {h} : Even(s.chunks[i]),
         \A i \in H : Apart(s.chunks[h], s.chunks[i])
  PROVE  /\ IsFiniteSet(Units(s, H \cup {h}))
         /\ kMinAllocationSize * Cardinality(Units(s, H \cup {h}))
              = kMinAllocationSize * Cardinality(Units(s, H)) + s.chunks[h].size
  <1> DEFINE A == Units(s, H)
             B == Span(s.chunks[h])
  <1>1. Units(s, H \cup {h}) = A \cup B
        BY DEF Units
  <1>2. A \cap B = {}
    <2>1. \A i \in H : Span(s.chunks[h]) \cap Span(s.chunks[i]) = {}
          BY SpansApart
    <2> QED BY <2>1 DEF Units
  <1>3. IsFiniteSet(B) /\ kMinAllocationSize * Cardinality(B) = s.chunks[h].size
        BY SpanCounted
  <1> HIDE DEF A, B
  <1>4. IsFiniteSet(A)
        BY DEF A
  <1>5. Cardinality(A \cap B) = 0
        BY <1>2, FS_EmptySet
  <1>6. /\ IsFiniteSet(A \cup B)
        /\ Cardinality(A \cup B) = Cardinality(A) + Cardinality(B) - Cardinality(A \cap B)
        BY <1>3, <1>4, FS_Union
  <1>7. Cardinality(A) \in Nat /\ Cardinality(B) \in Nat
        BY <1>3, <1>4, FS_CardinalityType
  <1>8. Cardinality(A \cup B) = Cardinality(A) + Cardinality(B)
        BY <1>5, <1>6, <1>7
  <1>9. kMinAllocationSize * Cardinality(A \cup B)
          = kMinAllocationSize * Cardinality(A) + s.chunks[h].size
        BY <1>3, <1>7, <1>8 DEF kMinAllocationSize
  <1> QED BY <1>1, <1>6, <1>9 DEF A

\* Some of the chunks have some of the units.
LEMMA UnitsSome ==
  ASSUME NEW s, NEW H, IsFiniteSet(Units(s, H)), NEW I \in SUBSET H
  PROVE  IsFiniteSet(Units(s, I)) /\ Cardinality(Units(s, I)) \in Nat
  <1>1. Units(s, I) \subseteq Units(s, H)
        BY DEF Units
  <1>2. IsFiniteSet(Units(s, I))
        BY <1>1, FS_Subset
  <1> QED BY <1>2, FS_CardinalityType

\* A use of the chunk h begins or ends: u.
UseSet(s, h, u, bytes, t) ==
    /\ t \in BFCType
    /\ Alike(s, t)
    /\ \A i \in DOMAIN s.chunks \ {h} : t.chunks[i] = s.chunks[i]
    /\ t.chunks[h].in_use = u
    /\ t.chunks[h].bin_num = s.chunks[h].bin_num
    /\ t.bins = s.bins
    /\ t.bytes_in_use = bytes

\* Writing in_use and the count does that.
LEMMA UseFields ==
  ASSUME NEW s \in BFCType, NEW h \in DOMAIN s.chunks, NEW u \in BOOLEAN,
         NEW bytes \in Nat,
         NEW t, t = [s EXCEPT !.chunks[h].in_use = u, !.bytes_in_use = bytes]
  PROVE  UseSet(s, h, u, bytes, t)
  <1> DEFINE c == [s.chunks[h] EXCEPT !.in_use = u]
             ch == [s.chunks EXCEPT ![h] = c]
  <1>1. s.chunks \in Seq(ChunkType) /\ s.chunks[h] \in ChunkType
        BY ChunkTyped DEF BFCType
  <1>2. /\ c \in ChunkType /\ c.in_use = u /\ c.bin_num = s.chunks[h].bin_num
        /\ SamePlace(c, s.chunks[h])
        BY <1>1, ChunkFields
  <1>3. t = [s EXCEPT !.chunks = ch, !.bytes_in_use = bytes]
        BY DEF BFCType
  <1> HIDE DEF c
  <1>4. /\ ch \in Seq(ChunkType)
        /\ DOMAIN ch = DOMAIN s.chunks
        /\ ch[h] = c
        /\ \A i \in DOMAIN s.chunks \ {h} : ch[i] = s.chunks[i]
        BY <1>1, <1>2, Rewritten
  <1> HIDE DEF ch
  <1>5. /\ t \in BFCType
        /\ Fixed(s, t)
        /\ t.handles = s.handles
        /\ t.bins = s.bins
        /\ t.free_chunks_list = s.free_chunks_list
        /\ t.deleted = s.deleted
        /\ t.bytes_in_use = bytes
        /\ t.chunks = ch
        BY <1>3, <1>4 DEF BFCType, Fixed
  <1>6. Alike(s, t)
        BY <1>2, <1>4, <1>5 DEF Alike, SamePlace
  <1> QED BY <1>2, <1>4, <1>5, <1>6 DEF UseSet

\* A chunk in hand is handed out.
LEMMA UseBooks ==
  ASSUME NEW s, NEW X, Books(s, X), NEW h \in X,
         NEW t, t = [s EXCEPT !.chunks[h].in_use = TRUE,
                              !.bytes_in_use = @ + s.chunks[h].size]
  PROVE  /\ Books(t, X \ {h}) /\ Alike(s, t)
         /\ Used(t) = Used(s) \cup {h}
  <1>1. s \in BFCType /\ h \in Live(s) /\ ~InUse(s, h)
        BY DEF Books, Binned
  <1>2. h \in DOMAIN s.chunks
        BY <1>1, LiveFound DEF Books
  <1>3. /\ s.chunks[h].size \in Nat /\ s.bytes_in_use \in Nat
        /\ Even(s.chunks[h])
        BY <1>1 DEF Books, Placed, Even, Whole, BFCType
  <1>4. UseSet(s, h, TRUE, s.bytes_in_use + s.chunks[h].size, t)
    <2>1. s.bytes_in_use + s.chunks[h].size \in Nat
          BY <1>3
    <2>2. t = [s EXCEPT !.chunks[h].in_use = TRUE,
                        !.bytes_in_use = s.bytes_in_use + s.chunks[h].size]
          BY <1>1 DEF BFCType
    <2> QED BY <2>1, <2>2, <1>1, <1>2, UseFields
  <1>5. Alike(s, t) /\ t \in BFCType
        BY <1>4 DEF UseSet
  <1>6. /\ Live(t) = Live(s) /\ Found(t) /\ Placed(t) /\ Linked(t)
        /\ Listed(t, Deleted(t))
        /\ \A H \in SUBSET Live(s) : Units(t, H) = Units(s, H)
        BY <1>5, AlikeKeeps
  <1>7. \A i \in DOMAIN s.chunks : InUse(t, i) = (InUse(s, i) \/ i = h)
    <2>1. InUse(t, h)
          BY <1>4 DEF UseSet, InUse
    <2>2. \A i \in DOMAIN s.chunks \ {h} : InUse(t, i) = InUse(s, i)
          BY <1>4 DEF UseSet, InUse
    <2>3. \A i \in DOMAIN s.chunks : InUse(s, i) \in BOOLEAN /\ InUse(t, i) \in BOOLEAN
          BY <1>1, <1>5, ChunkTyped DEF ChunkType, InUse, Alike
    <2> QED BY <2>1, <2>2, <2>3
  <1>8. Used(t) = Used(s) \cup {h} /\ h \notin Used(s)
        BY <1>1, <1>6, <1>7, LiveFound DEF Used, Books
  <1>9. Counted(t)
    <2>1. Used(s) \subseteq Live(s) /\ Used(t) \subseteq Live(s)
          BY <1>6 DEF Used
    <2>2. IsFiniteSet(Units(s, Used(s))) /\ Cardinality(Units(s, Used(s))) \in Nat
          BY <2>1, UnitsSome DEF Books, Counted
    <2>3. /\ \A i \in Used(s) \cup {h} : Even(s.chunks[i])
          /\ \A i \in Used(s) : Apart(s.chunks[h], s.chunks[i])
          BY <1>1, <1>8, <2>1 DEF Books, Placed
    <2>4. kMinAllocationSize * Cardinality(Units(s, Used(s) \cup {h}))
            = kMinAllocationSize * Cardinality(Units(s, Used(s))) + s.chunks[h].size
          BY <2>2, <2>3, <1>8, UnitsAdd
    <2>5. t.bytes_in_use = kMinAllocationSize * Cardinality(Units(t, Used(t)))
          BY <2>1, <2>4, <1>4, <1>6, <1>8 DEF UseSet, Books, Counted
    <2>6. Units(t, Live(t)) = Units(s, Live(s))
          BY <1>6
    <2>7. t.total_region_allocated_bytes = s.total_region_allocated_bytes
          BY <1>5 DEF Alike, Fixed
    <2> QED BY <2>5, <2>6, <2>7 DEF Counted, Books
  <1>10. Binned(t, X \ {h})
    <2>1. /\ X \ {h} \subseteq Live(t)
          /\ \A i \in X \ {h} : ~InUse(t, i)
          BY <1>6, <1>7, LiveFound DEF Books, Binned
    <2>2. ASSUME NEW i \in DOMAIN t.chunks
          PROVE  t.chunks[i].bin_num = IF i \in Live(t) \ (X \ {h}) /\ ~InUse(t, i)
                                         THEN BinNumForSize(t.chunks[i].size)
                                         ELSE kInvalidBinNum
      <3>1. i \in DOMAIN s.chunks /\ t.chunks[i].bin_num = s.chunks[i].bin_num
              /\ t.chunks[i].size = s.chunks[i].size
            BY <1>4, <1>5 DEF UseSet, Alike, SamePlace
      <3> QED BY <3>1, <1>6, <1>7 DEF Books, Binned
    <2>3. ASSUME NEW b \in Bins
          PROVE  t.bins[b] = {i \in Live(t) \ (X \ {h}) :
                                ~InUse(t, i) /\ t.chunks[i].bin_num = b}
      <3>1. t.bins[b] = {i \in Live(s) \ X : ~InUse(s, i) /\ s.chunks[i].bin_num = b}
            BY <1>4 DEF Books, Binned, UseSet
      <3>2. \A i \in Live(s) : /\ t.chunks[i].bin_num = s.chunks[i].bin_num
                               /\ InUse(t, i) = (InUse(s, i) \/ i = h)
            BY <1>4, <1>7, LiveFound DEF UseSet, Books
      <3> QED BY <3>1, <3>2, <1>6
    <2>4. ASSUME NEW i \in Live(t) \ (X \ {h}), ~InUse(t, i),
                 t.chunks[i].next # kInvalidChunkHandle,
                 t.chunks[i].next \notin X \ {h}
          PROVE  InUse(t, t.chunks[i].next)
      <3>1. i \in DOMAIN s.chunks /\ t.chunks[i].next = s.chunks[i].next
              /\ ~InUse(s, i) /\ i # h /\ i \in Live(s)
            BY <2>4, <1>5, <1>6, <1>7, LiveFound DEF Alike, SamePlace, Books
      <3>2. s.chunks[i].next \in Live(s)
            BY <2>4, <3>1, <1>6 DEF Books, Linked, NextRight
      <3>3. s.chunks[i].next = h \/ InUse(s, s.chunks[i].next)
            BY <2>4, <3>1 DEF Books, Binned
      <3> QED BY <3>1, <3>2, <3>3, <1>7, LiveFound DEF Books
    <2> QED BY <2>1, <2>2, <2>3, <2>4 DEF Binned
  <1> QED BY <1>5, <1>6, <1>8, <1>9, <1>10 DEF Books

\* The chunk h is free, and not yet in a bin.
Freed(s, h) == [s EXCEPT !.chunks[h].in_use = FALSE,
                         !.bytes_in_use = @ - s.chunks[h].size]

\* A chunk that was in use is in hand.
LEMMA FreeBooks ==
  ASSUME NEW s, NEW X, Books(s, X), NEW h \in Used(s),
         NEW t, t = Freed(s, h)
  PROVE  /\ Books(t, X \cup {h}) /\ Alike(s, t)
         /\ Used(t) = Used(s) \ {h}
         /\ \A i \in DOMAIN s.chunks \ {h} : InUse(t, i) = InUse(s, i)
  <1>1. s \in BFCType /\ h \in Live(s) /\ InUse(s, h) /\ h \notin X
        BY DEF Books, Binned, Used
  <1>2. h \in DOMAIN s.chunks
        BY <1>1, LiveFound DEF Books
  <1>3. /\ s.chunks[h].size \in Nat /\ s.bytes_in_use \in Nat
        /\ Even(s.chunks[h])
        BY <1>1 DEF Books, Placed, Even, Whole, BFCType
  <1> DEFINE rest == kMinAllocationSize * Cardinality(Units(s, Used(s) \ {h}))
  <1>4. rest = s.bytes_in_use - s.chunks[h].size /\ rest \in Nat
    <2> DEFINE H == Used(s) \ {h}
    <2>1. Used(s) \subseteq Live(s) /\ H \subseteq Live(s) /\ H \cup {h} = Used(s)
          BY <1>1 DEF Used
    <2>2. IsFiniteSet(Units(s, H)) /\ Cardinality(Units(s, H)) \in Nat
          BY <2>1, UnitsSome DEF Books, Counted
    <2>3. /\ \A i \in H \cup {h} : Even(s.chunks[i])
          /\ \A i \in H : Apart(s.chunks[h], s.chunks[i])
          BY <1>1, <2>1 DEF Books, Placed
    <2>4. kMinAllocationSize * Cardinality(Units(s, H \cup {h}))
            = kMinAllocationSize * Cardinality(Units(s, H)) + s.chunks[h].size
      <3>1. h \notin H
            OBVIOUS
      <3> HIDE DEF H
      <3> QED BY <2>2, <2>3, <3>1, UnitsAdd
    <2>5. s.bytes_in_use = kMinAllocationSize * Cardinality(Units(s, H \cup {h}))
          BY <2>1 DEF Books, Counted
    <2> QED BY <2>2, <2>4, <2>5, <1>3 DEF kMinAllocationSize
  <1> HIDE DEF rest
  <1>5. UseSet(s, h, FALSE, rest, t)
    <2>1. t = [s EXCEPT !.chunks[h].in_use = FALSE, !.bytes_in_use = rest]
          BY <1>1, <1>4 DEF Freed, BFCType
    <2> QED BY <2>1, <1>1, <1>2, <1>4, UseFields
  <1>6. Alike(s, t) /\ t \in BFCType
        BY <1>5 DEF UseSet
  <1>7. /\ Live(t) = Live(s) /\ Found(t) /\ Placed(t) /\ Linked(t)
        /\ Listed(t, Deleted(t))
        /\ \A H \in SUBSET Live(s) : Units(t, H) = Units(s, H)
        BY <1>6, AlikeKeeps
  <1>8. \A i \in DOMAIN s.chunks \ {h} : InUse(t, i) = InUse(s, i)
        BY <1>5 DEF UseSet, InUse
  <1>9. ~InUse(t, h)
        BY <1>5 DEF UseSet, InUse
  <1>10. Used(t) = Used(s) \ {h}
         BY <1>7, <1>8, <1>9, LiveFound DEF Used, Books
  <1>11. Counted(t)
    <2>1. Used(t) \subseteq Live(s)
          BY <1>7 DEF Used
    <2>2. t.bytes_in_use = kMinAllocationSize * Cardinality(Units(t, Used(t)))
          BY <2>1, <1>5, <1>7, <1>10 DEF UseSet, rest
    <2>3. Units(t, Live(t)) = Units(s, Live(s))
          BY <1>7
    <2>4. t.total_region_allocated_bytes = s.total_region_allocated_bytes
          BY <1>6 DEF Alike, Fixed
    <2> QED BY <2>2, <2>3, <2>4 DEF Counted, Books
  <1>12. Binned(t, X \cup {h})
    <2>1. /\ X \cup {h} \subseteq Live(t)
          /\ \A i \in X \cup {h} : ~InUse(t, i)
          BY <1>1, <1>7, <1>8, <1>9, LiveFound DEF Books, Binned
    <2>2. ASSUME NEW i \in DOMAIN t.chunks
          PROVE  t.chunks[i].bin_num = IF i \in Live(t) \ (X \cup {h}) /\ ~InUse(t, i)
                                         THEN BinNumForSize(t.chunks[i].size)
                                         ELSE kInvalidBinNum
      <3>1. i \in DOMAIN s.chunks /\ t.chunks[i].bin_num = s.chunks[i].bin_num
              /\ t.chunks[i].size = s.chunks[i].size
            BY <1>5, <1>6 DEF UseSet, Alike, SamePlace
      <3> QED BY <3>1, <1>1, <1>7, <1>8 DEF Books, Binned
    <2>3. ASSUME NEW b \in Bins
          PROVE  t.bins[b] = {i \in Live(t) \ (X \cup {h}) :
                                ~InUse(t, i) /\ t.chunks[i].bin_num = b}
      <3>1. t.bins[b] = {i \in Live(s) \ X : ~InUse(s, i) /\ s.chunks[i].bin_num = b}
            BY <1>5 DEF Books, Binned, UseSet
      <3>2. \A i \in Live(s) \ {h} : /\ t.chunks[i].bin_num = s.chunks[i].bin_num
                                     /\ InUse(t, i) = InUse(s, i)
            BY <1>5, <1>8, LiveFound DEF UseSet, Books
      <3> QED BY <3>1, <3>2, <1>1, <1>7
    <2>4. ASSUME NEW i \in Live(t) \ (X \cup {h}), ~InUse(t, i),
                 t.chunks[i].next # kInvalidChunkHandle,
                 t.chunks[i].next \notin X \cup {h}
          PROVE  InUse(t, t.chunks[i].next)
      <3>1. i \in DOMAIN s.chunks /\ t.chunks[i].next = s.chunks[i].next
              /\ ~InUse(s, i) /\ i # h /\ i \in Live(s)
            BY <2>4, <1>6, <1>7, <1>8, LiveFound DEF Alike, SamePlace, Books
      <3>2. s.chunks[i].next \in Live(s)
            BY <2>4, <3>1, <1>7 DEF Books, Linked, NextRight
      <3>3. InUse(s, s.chunks[i].next)
            BY <2>4, <3>1 DEF Books, Binned
      <3> QED BY <2>4, <3>1, <3>2, <3>3, <1>8, LiveFound DEF Books
    <2> QED BY <2>1, <2>2, <2>3, <2>4 DEF Binned
  <1> QED BY <1>6, <1>7, <1>8, <1>10, <1>11, <1>12 DEF Books

\* The chunk in hand is divided; the new one is in hand too.
LEMMA DivideBooks ==
  ASSUME NEW s, NEW X, Books(s, X), NEW h \in X,
         NEW num_bytes, Whole(num_bytes), num_bytes >= kMinAllocationSize,
         num_bytes < s.chunks[h].size,
         NEW t, t = Divided(s, h, num_bytes),
         NEW new, new = NextHandle(s)
  PROVE  /\ Books(t, X \cup {new})
         /\ Live(t) = Live(s) \cup {new} /\ new \notin Live(s)
         /\ Used(t) = Used(s)
         /\ \A i \in Live(s) : t.chunks[i].ptr = s.chunks[i].ptr
         /\ \A i \in Live(s) \ {h} : t.chunks[i].size = s.chunks[i].size
         /\ t.chunks[h].size = num_bytes
         /\ t.chunks[new].prev = h
         /\ t.chunks[new].next = s.chunks[h].next
         /\ \A i \in Live(s) : InUse(t, i) = InUse(s, i)
         /\ Fixed(s, t)
  <1> DEFINE c == s.chunks[h]
             ptr == c.ptr + num_bytes
             D == Deleted(s)
  <1>1. s \in BFCType /\ h \in Live(s) /\ ~InUse(s, h) /\ Found(s) /\ Placed(s) /\ Linked(s)
        BY DEF Books, Binned
  <1>2. h \in DOMAIN s.chunks /\ h \notin D /\ h \in Nat \ {0} /\ c \in ChunkType
        BY <1>1, LiveFound, LiveNat DEF Deleted
  <1>3. /\ Even(c) /\ c.next \in Nat /\ c.prev \in Nat
        /\ c.ptr \in Nat /\ c.size \in Nat /\ num_bytes \in Nat
        BY <1>1, <1>2 DEF Placed, Even, Whole, ChunkType
  <1>4. c.next # kInvalidChunkHandle =>
          /\ c.next \in Live(s) /\ c.next # h
          /\ s.chunks[c.next].ptr = c.ptr + c.size
          /\ s.chunks[c.next].prev = h
    <2>1. NextRight(s, h)
          BY <1>1 DEF Linked
    <2>2. c.size >= 256
          BY <1>3 DEF Even, kMinAllocationSize
    <2>3. c.ptr + c.size # c.ptr
          BY <2>2, <1>3
    <2> QED BY <2>1, <2>3 DEF NextRight
  <1>5. Halved(s, h, num_bytes, D, t, new)
    <2>1. D \in SUBSET DOMAIN s.chunks /\ Listed(s, D)
          BY DEF Books, Deleted
    <2>2. \A i \in D : s.chunks[i].bin_num = kInvalidBinNum
          BY DEF Books, Binned, Deleted
    <2>3. c.next = kInvalidChunkHandle \/ c.next \in DOMAIN s.chunks \ (D \cup {h})
          BY <1>1, <1>4, LiveFound DEF Deleted
    <2>4. num_bytes <= c.size
          BY <1>3
    <2> HIDE DEF D
    <2> QED BY <2>1, <2>2, <2>3, <2>4, <1>1, <1>2, <1>3, DividedFields
  <1>6. /\ t \in BFCType /\ Fixed(s, t) /\ t.bytes_in_use = s.bytes_in_use
        /\ t.bins = s.bins /\ new \in Nat \ {0} /\ new \notin Live(s)
        /\ DOMAIN t.chunks = DOMAIN s.chunks \cup {new}
        /\ Listed(t, D \ {new})
        BY <1>1, <1>5, LiveFound DEF Halved, Deleted
  <1>7. /\ \A i \in DOMAIN s.chunks \ {new, h, c.next} : t.chunks[i] = s.chunks[i]
        /\ t.chunks[new] = Chunk(ptr, c.size - num_bytes, h, c.next)
        /\ t.chunks[h] = [c EXCEPT !.size = num_bytes, !.next = new]
        /\ c.next # kInvalidChunkHandle =>
              t.chunks[c.next] = [s.chunks[c.next] EXCEPT !.prev = new]
        BY <1>5 DEF Halved
  <1>8. /\ t.chunks[new].ptr = ptr
        /\ t.chunks[new].size = c.size - num_bytes
        /\ t.chunks[new].in_use = FALSE
        /\ t.chunks[new].prev = h
        /\ t.chunks[new].next = c.next
        /\ t.chunks[new].bin_num = kInvalidBinNum
        BY <1>7 DEF Chunk
  <1>9. /\ t.chunks[h].ptr = c.ptr
        /\ t.chunks[h].size = num_bytes
        /\ t.chunks[h].in_use = c.in_use
        /\ t.chunks[h].prev = c.prev
        /\ t.chunks[h].next = new
        /\ t.chunks[h].bin_num = c.bin_num
        BY <1>2, <1>7 DEF ChunkType
  <1>10. ASSUME NEW i \in DOMAIN s.chunks \ {new, h}
         PROVE  /\ t.chunks[i].ptr = s.chunks[i].ptr
                /\ t.chunks[i].size = s.chunks[i].size
                /\ t.chunks[i].in_use = s.chunks[i].in_use
                /\ t.chunks[i].next = s.chunks[i].next
                /\ t.chunks[i].bin_num = s.chunks[i].bin_num
                /\ t.chunks[i].prev = IF i = c.next THEN new ELSE s.chunks[i].prev
    <2>1. CASE i # c.next
          BY <2>1, <1>7
    <2>2. CASE i = c.next
      <3>1. s.chunks[i] \in ChunkType /\ i # kInvalidChunkHandle /\ new \in Nat
        <4>1. i # 0
              BY <1>1, LenProperties DEF BFCType
        <4> QED BY <4>1, <1>1, <1>6, ChunkTyped DEF kInvalidChunkHandle
      <3>2. t.chunks[i] = [s.chunks[i] EXCEPT !.prev = new]
            BY <2>2, <3>1, <1>7
      <3>3. /\ t.chunks[i].ptr = s.chunks[i].ptr
            /\ t.chunks[i].size = s.chunks[i].size
            /\ t.chunks[i].in_use = s.chunks[i].in_use
            /\ t.chunks[i].next = s.chunks[i].next
            /\ t.chunks[i].bin_num = s.chunks[i].bin_num
            /\ t.chunks[i].prev = new
            BY ONLY <3>1, <3>2, ChunkFields
      <3> QED BY <2>2, <3>3
    <2> QED BY <2>1, <2>2
  <1>11. /\ DOMAIN t.handles = DOMAIN s.handles \cup {ptr}
         /\ t.handles[ptr] = new
         /\ \A p \in DOMAIN s.handles \ {ptr} : t.handles[p] = s.handles[p]
         BY <1>5 DEF Halved
  <1>12. /\ Even(t.chunks[h]) /\ Even(t.chunks[new])
         /\ Apart(t.chunks[h], t.chunks[new]) /\ Apart(t.chunks[new], t.chunks[h])
         /\ ptr \in Nat /\ ptr # c.ptr /\ ptr + (c.size - num_bytes) = c.ptr + c.size
    <2>1. Even(t.chunks[h])
          BY <1>3, <1>9 DEF Even
    <2>2. Even(t.chunks[new])
          BY <1>3, <1>8 DEF Even, Whole, kMinAllocationSize
    <2>3. Apart(t.chunks[h], t.chunks[new]) /\ Apart(t.chunks[new], t.chunks[h])
          BY <1>3, <1>8, <1>9 DEF Apart
    <2>4. ptr \in Nat /\ ptr # c.ptr /\ ptr + (c.size - num_bytes) = c.ptr + c.size
          BY <1>3 DEF kMinAllocationSize
    <2> QED BY <2>1, <2>2, <2>3, <2>4
  <1>13. ptr \notin DOMAIN s.handles
    <2>1. SUFFICES ASSUME ptr \in DOMAIN s.handles PROVE FALSE
          OBVIOUS
    <2> DEFINE g == s.handles[ptr]
    <2>2. g \in Live(s) /\ s.chunks[g].ptr = ptr /\ g # h
          BY <2>1, <1>1, <1>12 DEF Found, Live
    <2>3. Even(s.chunks[g]) /\ Apart(c, s.chunks[g])
          BY <2>2, <1>1 DEF Placed
    <2> QED BY <2>2, <2>3, <1>3 DEF Apart, Even, Whole, kMinAllocationSize
  <1> HIDE DEF c, ptr, D
  <1>14. Live(t) = Live(s) \cup {new}
    <2>1. \A p \in DOMAIN s.handles : p # ptr /\ t.handles[p] = s.handles[p]
          BY <1>11, <1>13
    <2> QED BY <2>1, <1>11 DEF Live
  <1>15. \A i \in Live(s) : i \in DOMAIN s.chunks /\ i # new
         BY <1>1, <1>6, LiveFound
  <1>16. Found(t)
    <2>1. ASSUME NEW p \in DOMAIN t.handles
          PROVE  t.handles[p] \in DOMAIN t.chunks /\ t.chunks[t.handles[p]].ptr = p
      <3>1. CASE p = ptr
            BY <3>1, <1>6, <1>8, <1>11
      <3>2. CASE p # ptr
        <4>1. p \in DOMAIN s.handles /\ t.handles[p] = s.handles[p]
              BY <3>2, <1>11
        <4>2. s.handles[p] \in Live(s) /\ s.chunks[s.handles[p]].ptr = p
              BY <4>1, <1>1 DEF Live, Found
        <4>3. s.handles[p] \in DOMAIN s.chunks /\ s.handles[p] # new
              BY <4>2, <1>15
        <4> QED BY <4>1, <4>2, <4>3, <1>6, <1>9, <1>10 DEF c
      <3> QED BY <3>1, <3>2
    <2> QED BY <2>1 DEF Found
  <1>17. Placed(t)
    <2>1. DeviceBase(t) = DeviceBase(s) /\ Whole(t.device_used)
          BY <1>1, <1>6 DEF DeviceBase, Fixed, Placed
    <2>2. ASSUME NEW i \in Live(t)
          PROVE  Even(t.chunks[i]) /\ t.chunks[i].ptr + t.chunks[i].size <= DeviceBase(t)
      <3>1. c.ptr + c.size <= DeviceBase(s) /\ DeviceBase(s) \in Nat
            BY <1>1 DEF Placed, c, DeviceBase, BFCType, kMinAllocationSize
      <3>2. CASE i = new
            BY <3>1, <3>2, <2>1, <1>8, <1>12
      <3>3. CASE i = h
        <4>1. c.ptr + num_bytes <= c.ptr + c.size
              BY <1>3 DEF c
        <4> QED BY <4>1, <3>1, <3>3, <2>1, <1>3, <1>9, <1>12 DEF c
      <3>4. CASE i \in Live(s) \ {h}
        <4>1. /\ Even(s.chunks[i]) /\ s.chunks[i].ptr + s.chunks[i].size <= DeviceBase(s)
              /\ i \in DOMAIN s.chunks \ {new, h}
              BY <3>4, <1>1, <1>15 DEF Placed
        <4> QED BY <4>1, <2>1, <1>10 DEF Even
      <3> QED BY <3>2, <3>3, <3>4, <1>14
    <2>3. ASSUME NEW i \in Live(s) \ {h}
          PROVE  /\ Apart(t.chunks[i], t.chunks[h]) /\ Apart(t.chunks[h], t.chunks[i])
                 /\ Apart(t.chunks[i], t.chunks[new]) /\ Apart(t.chunks[new], t.chunks[i])
      <3>1. i \in DOMAIN s.chunks \ {new, h} /\ Apart(c, s.chunks[i]) /\ Even(s.chunks[i])
            BY <1>1, <1>15 DEF Placed, c
      <3>2. t.chunks[i].ptr = s.chunks[i].ptr /\ t.chunks[i].size = s.chunks[i].size
            BY <3>1, <1>10
      <3>3. /\ s.chunks[i].ptr \in Nat /\ s.chunks[i].size \in Nat
            /\ c.ptr \in Nat /\ c.size \in Nat /\ num_bytes \in Nat /\ num_bytes < c.size
            BY <3>1, <1>3 DEF Even, Whole, c
      <3> QED BY <3>1, <3>2, <3>3, <1>8, <1>9 DEF Apart, ptr
    <2>4. ASSUME NEW i \in Live(s) \ {h}, NEW j \in Live(s) \ {h}, i # j
          PROVE  Apart(t.chunks[i], t.chunks[j])
      <3>1. Apart(s.chunks[i], s.chunks[j])
            BY <2>4, <1>1 DEF Placed
      <3> QED BY <3>1, <1>10, <1>15 DEF Apart
    <2>5. \A i, j \in Live(t) : i # j => Apart(t.chunks[i], t.chunks[j])
          BY <2>3, <2>4, <1>12, <1>14
    <2> QED BY <2>1, <2>2, <2>5 DEF Placed
  <1>18. Linked(t)
    <2>1. ASSUME NEW r \in t.regions
          PROVE  /\ r.ptr \in DOMAIN t.handles
                 /\ t.chunks[t.handles[r.ptr]].prev = kInvalidChunkHandle
      <3> DEFINE g == s.handles[r.ptr]
      <3>1. r.ptr \in DOMAIN s.handles /\ s.chunks[g].prev = kInvalidChunkHandle
            BY <1>1, <1>6 DEF Linked, Fixed
      <3>2. r.ptr \in DOMAIN t.handles /\ t.handles[r.ptr] = g
            BY <3>1, <1>11, <1>13
      <3>3. g \in Live(s) /\ g \in DOMAIN s.chunks /\ g # new
            BY <3>1, <1>15 DEF Live
      <3>4. g # c.next
        <4>1. c.next # kInvalidChunkHandle => s.chunks[c.next].prev = h
              BY <1>4 DEF c
        <4>2. g # kInvalidChunkHandle /\ h # kInvalidChunkHandle
              BY <1>1, <1>2, <3>3, LiveNat DEF kInvalidChunkHandle
        <4> QED BY <4>1, <4>2, <3>1
      <3>5. t.chunks[g].prev = s.chunks[g].prev
            BY <3>3, <3>4, <1>9, <1>10 DEF c
      <3> QED BY <3>1, <3>2, <3>5
    <2>2. ASSUME NEW i \in Live(t) PROVE NextRight(t, i)
      <3>1. CASE i = h
        <4>1. new # kInvalidChunkHandle /\ new \in Live(t)
              BY <1>6, <1>14 DEF kInvalidChunkHandle
        <4> QED BY <4>1, <3>1, <1>8, <1>9 DEF NextRight, ptr
      <3>2. CASE i = new
        <4>1. CASE c.next = kInvalidChunkHandle
          <5>1. \E r \in s.regions : c.ptr + c.size = r.ptr + r.memory_size
                BY <4>1, <1>1 DEF Linked, NextRight, c
          <5> QED BY <5>1, <4>1, <3>2, <1>6, <1>8, <1>12 DEF NextRight, Fixed
        <4>2. CASE c.next # kInvalidChunkHandle
          <5>1. c.next \in Live(s) /\ c.next # h /\ s.chunks[c.next].ptr = c.ptr + c.size
                BY <4>2, <1>4 DEF c
          <5>2. /\ t.chunks[c.next].ptr = c.ptr + c.size
                /\ t.chunks[c.next].prev = new
                BY <5>1, <1>10, <1>15
          <5> QED BY <5>1, <5>2, <4>2, <3>2, <1>8, <1>12, <1>14 DEF NextRight
        <4> QED BY <4>1, <4>2
      <3>3. CASE i \in Live(s) \ {h}
        <4>1. NextRight(s, i) /\ i \in DOMAIN s.chunks \ {new, h}
              BY <3>3, <1>1, <1>15 DEF Linked
        <4>2. /\ t.chunks[i].next = s.chunks[i].next
              /\ t.chunks[i].ptr = s.chunks[i].ptr
              /\ t.chunks[i].size = s.chunks[i].size
              BY <4>1, <1>10
        <4>3. CASE s.chunks[i].next = kInvalidChunkHandle
              BY <4>1, <4>2, <4>3, <1>6 DEF NextRight, Fixed
        <4>4. CASE s.chunks[i].next # kInvalidChunkHandle
          <5> DEFINE n == s.chunks[i].next
          <5>1. n \in Live(s) /\ s.chunks[n].ptr = s.chunks[i].ptr + s.chunks[i].size
                  /\ s.chunks[n].prev = i /\ n \in DOMAIN s.chunks /\ n # new
                BY <4>1, <4>4, <1>15 DEF NextRight
          <5>2. n # c.next
                BY <5>1, <1>4, <3>3, <4>4 DEF c
          <5>3. t.chunks[n].ptr = s.chunks[n].ptr /\ t.chunks[n].prev = i
                BY <5>1, <5>2, <1>9, <1>10 DEF c
          <5> QED BY <5>1, <5>3, <4>2, <4>4, <1>14 DEF NextRight
        <4> QED BY <4>3, <4>4
      <3> QED BY <3>1, <3>2, <3>3, <1>14
    <2>3. ASSUME NEW i \in Live(t) PROVE PrevRight(t, i)
      <3>1. CASE i = new
        <4>1. h # kInvalidChunkHandle /\ h \in Live(t)
              BY <1>1, <1>2, <1>14 DEF kInvalidChunkHandle
        <4> QED BY <4>1, <3>1, <1>8, <1>9 DEF PrevRight
      <3>2. CASE i # new /\ i = c.next /\ i # h
        <4>1. t.chunks[i].prev = new /\ new # kInvalidChunkHandle /\ new \in Live(t)
              BY <3>2, <1>6, <1>10, <1>14, <1>15 DEF kInvalidChunkHandle
        <4> QED BY <4>1, <3>2, <1>8 DEF PrevRight
      <3>3. CASE i \in Live(s) /\ (i = h \/ i # c.next)
        <4>1. PrevRight(s, i) /\ i \in DOMAIN s.chunks /\ i # new
              BY <3>3, <1>1, <1>15 DEF Linked
        <4>2. t.chunks[i].prev = s.chunks[i].prev /\ t.chunks[i].ptr = s.chunks[i].ptr
              BY <3>3, <4>1, <1>9, <1>10 DEF c
        <4>3. CASE s.chunks[i].prev = kInvalidChunkHandle
              BY <4>1, <4>2, <4>3, <1>6 DEF PrevRight, Fixed
        <4>4. CASE s.chunks[i].prev # kInvalidChunkHandle
          <5> DEFINE p == s.chunks[i].prev
          <5>1. p \in Live(s) /\ s.chunks[p].next = i /\ p \in DOMAIN s.chunks /\ p # new
                BY <4>1, <4>4, <1>15 DEF PrevRight
          <5>2. p # h
            <6>1. CASE i = h
              <7>1. h # kInvalidChunkHandle /\ (c.next # kInvalidChunkHandle => c.next # h)
                    BY <1>2, <1>4 DEF c, kInvalidChunkHandle
              <7> QED BY <6>1, <7>1, <5>1 DEF c
            <6>2. CASE i # c.next
                  BY <6>2, <5>1 DEF c
            <6> QED BY <6>1, <6>2, <3>3
          <5>3. t.chunks[p].next = i
                BY <5>1, <5>2, <1>10
          <5> QED BY <5>1, <5>3, <4>2, <4>4, <1>14 DEF PrevRight
        <4> QED BY <4>3, <4>4
      <3> QED BY <3>1, <3>2, <3>3, <1>14
    <2> QED BY <2>1, <2>2, <2>3 DEF Linked
  <1>19. \A i \in Live(s) : InUse(t, i) = InUse(s, i)
         BY <1>9, <1>10, <1>15 DEF InUse, c
  <1>20. ~InUse(t, new)
         BY <1>8 DEF InUse
  <1>21. Used(t) = Used(s)
         BY <1>14, <1>19, <1>20 DEF Used
  <1>22. Binned(t, X \cup {new})
    <2>1. /\ X \cup {new} \subseteq Live(t)
          /\ \A i \in X \cup {new} : ~InUse(t, i)
          BY <1>14, <1>19, <1>20 DEF Books, Binned
    <2>2. ASSUME NEW i \in DOMAIN t.chunks
          PROVE  t.chunks[i].bin_num = IF i \in Live(t) \ (X \cup {new}) /\ ~InUse(t, i)
                                         THEN BinNumForSize(t.chunks[i].size)
                                         ELSE kInvalidBinNum
      <3>1. CASE i = new
            BY <3>1, <1>8
      <3>2. CASE i = h
        <4>1. c.bin_num = kInvalidBinNum
              BY <1>2 DEF Books, Binned, c
        <4> QED BY <4>1, <3>2, <1>9
      <3>3. CASE i \in DOMAIN s.chunks \ {new, h}
        <4>1. /\ t.chunks[i].bin_num = s.chunks[i].bin_num
              /\ t.chunks[i].size = s.chunks[i].size
              /\ InUse(t, i) = InUse(s, i)
              BY <3>3, <1>10 DEF InUse
        <4> QED BY <4>1, <3>3, <1>14 DEF Books, Binned
      <3> QED BY <3>1, <3>2, <3>3, <1>6
    <2>3. ASSUME NEW b \in Bins
          PROVE  t.bins[b] = {i \in Live(t) \ (X \cup {new}) :
                                ~InUse(t, i) /\ t.chunks[i].bin_num = b}
      <3>1. t.bins[b] = {i \in Live(s) \ X : ~InUse(s, i) /\ s.chunks[i].bin_num = b}
            BY <1>6 DEF Books, Binned
      <3>2. \A i \in Live(s) \ X : /\ t.chunks[i].bin_num = s.chunks[i].bin_num
                                   /\ InUse(t, i) = InUse(s, i)
            BY <1>10, <1>15, <1>19
      <3> QED BY <3>1, <3>2, <1>6, <1>14
    <2>4. ASSUME NEW i \in Live(t) \ (X \cup {new}), ~InUse(t, i),
                 t.chunks[i].next # kInvalidChunkHandle,
                 t.chunks[i].next \notin X \cup {new}
          PROVE  InUse(t, t.chunks[i].next)
      <3>1. i \in Live(s) \ X /\ i # h /\ i \in DOMAIN s.chunks \ {new, h}
            BY <2>4, <1>14, <1>15
      <3>2. t.chunks[i].next = s.chunks[i].next /\ ~InUse(s, i)
            BY <2>4, <3>1, <1>10, <1>19
      <3>3. s.chunks[i].next \in Live(s)
            BY <2>4, <3>1, <3>2, <1>1 DEF Linked, NextRight
      <3>4. InUse(s, s.chunks[i].next)
            BY <2>4, <3>1, <3>2 DEF Books, Binned
      <3> QED BY <3>2, <3>3, <3>4, <1>19
    <2> QED BY <2>1, <2>2, <2>3, <2>4 DEF Binned
  <1>23. Listed(t, Deleted(t))
    <2>1. Deleted(t) = D \ {new}
          BY <1>6, <1>14 DEF Deleted, D
    <2> QED BY <2>1, <1>6
  <1>24. Counted(t)
    <2>1. Span(c) = Span(t.chunks[h]) \cup Span(t.chunks[new])
      <3>1. /\ Even(c) /\ t.chunks[new].ptr = t.chunks[h].ptr + t.chunks[h].size
            /\ c.ptr = t.chunks[h].ptr /\ c.size = t.chunks[h].size + t.chunks[new].size
            BY <1>3, <1>8, <1>9 DEF c, ptr
      <3> QED BY <3>1, <1>12, SpansJoin
    <2>2. \A i \in Live(s) \ {h} : Span(t.chunks[i]) = Span(s.chunks[i])
          BY <1>10, <1>15, SpanOf
    <2>3. Units(t, Live(t)) = Units(s, Live(s))
      <3>1. \A u : (\E i \in Live(t) : u \in Span(t.chunks[i]))
                     <=> (\E i \in Live(s) : u \in Span(s.chunks[i]))
            BY <2>1, <2>2, <1>1, <1>14, <1>15 DEF c
      <3> QED BY <3>1 DEF Units
    <2>4. Units(t, Used(t)) = Units(s, Used(s))
      <3>1. Used(s) \subseteq Live(s) \ {h}
            BY <1>1 DEF Used
      <3> QED BY <3>1, <2>2, <1>21 DEF Units
    <2>5. t.total_region_allocated_bytes = s.total_region_allocated_bytes
          BY <1>6 DEF Fixed
    <2> QED BY <2>3, <2>4, <2>5, <1>6 DEF Counted, Books
  <1>25. Books(t, X \cup {new})
         BY <1>6, <1>16, <1>17, <1>18, <1>22, <1>23, <1>24 DEF Books
  <1>26. /\ \A i \in Live(s) : t.chunks[i].ptr = s.chunks[i].ptr
         /\ \A i \in Live(s) \ {h} : t.chunks[i].size = s.chunks[i].size
         BY <1>9, <1>10, <1>15 DEF c
  <1>27. Fixed(s, t)
         BY <1>5 DEF Halved
  <1> QED BY <1>6, <1>8, <1>9, <1>14, <1>19, <1>21, <1>25, <1>26, <1>27 DEF c

\* Two neighbours in hand become one.
LEMMA MergeBooks ==
  ASSUME NEW s, NEW X, Books(s, X), NEW h1 \in X, NEW h2 \in X,
         h2 = s.chunks[h1].next,
         NEW t, t = Merge(s, h1, h2)
  PROVE  /\ Books(t, X \ {h2})
         /\ Live(t) = Live(s) \ {h2} /\ h1 # h2
         /\ Used(t) = Used(s)
         /\ \A i \in Live(t) : t.chunks[i].ptr = s.chunks[i].ptr
         /\ \A i \in Live(t) \ {h1} : t.chunks[i].size = s.chunks[i].size
         /\ t.chunks[h1].prev = s.chunks[h1].prev
         /\ t.chunks[h1].next = s.chunks[h2].next
         /\ \A i \in Live(t) : InUse(t, i) = InUse(s, i)
         /\ Fixed(s, t)
  <1> DEFINE a == s.chunks[h1]
             b == s.chunks[h2]
             h3 == b.next
             D == Deleted(s)
  <1>1. /\ s \in BFCType /\ h1 \in Live(s) /\ h2 \in Live(s)
        /\ ~InUse(s, h1) /\ ~InUse(s, h2) /\ Found(s) /\ Placed(s) /\ Linked(s)
        BY DEF Books, Binned
  <1>2. /\ h1 \in DOMAIN s.chunks /\ h1 \notin D /\ h1 \in Nat \ {0} /\ a \in ChunkType
        /\ h2 \in DOMAIN s.chunks /\ h2 \notin D /\ h2 \in Nat \ {0} /\ b \in ChunkType
        BY <1>1, LiveFound, LiveNat DEF Deleted
  <1>3. /\ Even(a) /\ Even(b)
        /\ a.ptr \in Nat /\ a.size \in Nat /\ b.ptr \in Nat /\ b.size \in Nat
        /\ a.size >= 256 /\ b.size >= 256
        BY <1>1 DEF Placed, Even, Whole, kMinAllocationSize
  <1>4. /\ b.ptr = a.ptr + a.size /\ b.prev = h1 /\ h1 # h2
        /\ h1 # kInvalidChunkHandle /\ h2 # kInvalidChunkHandle
    <2>1. NextRight(s, h1) /\ h2 # kInvalidChunkHandle /\ h1 # kInvalidChunkHandle
          BY <1>1, <1>2 DEF Linked, kInvalidChunkHandle
    <2>2. b.ptr = a.ptr + a.size /\ b.prev = h1
          BY <2>1 DEF NextRight
    <2>3. a.ptr + a.size # a.ptr
          BY <1>3
    <2> QED BY <2>1, <2>2, <2>3
  <1>5. h3 # kInvalidChunkHandle =>
          /\ h3 \in Live(s) /\ h3 # h2 /\ h3 # h1
          /\ s.chunks[h3].ptr = b.ptr + b.size
          /\ s.chunks[h3].prev = h2
    <2>1. NextRight(s, h2)
          BY <1>1 DEF Linked
    <2>2. b.ptr + b.size # b.ptr /\ b.ptr + b.size # a.ptr
          BY <1>3, <1>4
    <2> QED BY <2>1, <2>2 DEF NextRight
  <1>6. Merged(s, h1, h2, D, t)
    <2>1. D \in SUBSET DOMAIN s.chunks /\ Listed(s, D)
          BY DEF Books, Deleted
    <2>2. h3 = kInvalidChunkHandle \/ h3 \in DOMAIN s.chunks \ (D \cup {h1, h2})
          BY <1>1, <1>5, LiveFound DEF Deleted
    <2> HIDE DEF D
    <2> QED BY <2>1, <2>2, <1>1, <1>2, <1>4, MergeFields
  <1>7. /\ t \in BFCType /\ Fixed(s, t) /\ t.bytes_in_use = s.bytes_in_use
        /\ t.bins = s.bins /\ DOMAIN t.chunks = DOMAIN s.chunks
        /\ Listed(t, D \cup {h2})
        /\ t.chunks[h2].bin_num = b.bin_num
        /\ t.handles = [p \in DOMAIN s.handles \ {b.ptr} |-> s.handles[p]]
        BY <1>6 DEF Merged
  <1>8. /\ \A i \in DOMAIN s.chunks \ {h1, h2, h3} : t.chunks[i] = s.chunks[i]
        /\ t.chunks[h1] = [a EXCEPT !.next = h3, !.size = a.size + b.size]
        /\ h3 # kInvalidChunkHandle =>
              t.chunks[h3] = [s.chunks[h3] EXCEPT !.prev = h1]
        BY <1>6 DEF Merged
  <1>9. /\ t.chunks[h1].ptr = a.ptr
        /\ t.chunks[h1].size = a.size + b.size
        /\ t.chunks[h1].in_use = a.in_use
        /\ t.chunks[h1].prev = a.prev
        /\ t.chunks[h1].next = h3
        /\ t.chunks[h1].bin_num = a.bin_num
        BY <1>2, <1>8 DEF ChunkType
  <1>10. ASSUME NEW i \in DOMAIN s.chunks \ {h1, h2}
         PROVE  /\ t.chunks[i].ptr = s.chunks[i].ptr
                /\ t.chunks[i].size = s.chunks[i].size
                /\ t.chunks[i].in_use = s.chunks[i].in_use
                /\ t.chunks[i].next = s.chunks[i].next
                /\ t.chunks[i].bin_num = s.chunks[i].bin_num
                /\ t.chunks[i].prev = IF i = h3 THEN h1 ELSE s.chunks[i].prev
    <2>1. CASE i # h3
          BY <2>1, <1>8
    <2>2. CASE i = h3
      <3>1. s.chunks[i] \in ChunkType /\ i # kInvalidChunkHandle /\ h1 \in Nat
        <4>1. i # 0
              BY <1>1, LenProperties DEF BFCType
        <4> QED BY <4>1, <1>1, <1>2, ChunkTyped DEF kInvalidChunkHandle
      <3>2. t.chunks[i] = [s.chunks[i] EXCEPT !.prev = h1]
            BY <2>2, <3>1, <1>8
      <3>3. /\ t.chunks[i].ptr = s.chunks[i].ptr
            /\ t.chunks[i].size = s.chunks[i].size
            /\ t.chunks[i].in_use = s.chunks[i].in_use
            /\ t.chunks[i].next = s.chunks[i].next
            /\ t.chunks[i].bin_num = s.chunks[i].bin_num
            /\ t.chunks[i].prev = h1
            BY ONLY <3>1, <3>2, ChunkFields
      <3> QED BY <2>2, <3>3
    <2> QED BY <2>1, <2>2
  <1> HIDE DEF a, b, h3, D
  <1>11. /\ DOMAIN t.handles = DOMAIN s.handles \ {b.ptr}
         /\ \A p \in DOMAIN s.handles \ {b.ptr} : t.handles[p] = s.handles[p]
         BY <1>7
  <1>12. Live(t) = Live(s) \ {h2}
    <2>1. s.handles[b.ptr] = h2 /\ b.ptr \in DOMAIN s.handles
          BY <1>1, LiveFound DEF b
    <2>2. \A p \in DOMAIN s.handles \ {b.ptr} : s.handles[p] # h2
          BY <1>1 DEF Found, b
    <2> QED BY <2>1, <2>2, <1>11 DEF Live
  <1>13. \A i \in Live(t) : i \in Live(s) /\ i \in DOMAIN s.chunks /\ i # h2
         BY <1>1, <1>12, LiveFound
  <1>14. Found(t)
    <2>1. ASSUME NEW p \in DOMAIN t.handles
          PROVE  t.handles[p] \in DOMAIN t.chunks /\ t.chunks[t.handles[p]].ptr = p
      <3>1. p \in DOMAIN s.handles /\ t.handles[p] = s.handles[p]
            BY <1>11
      <3>2. t.handles[p] \in Live(t)
            BY DEF Live
      <3>3. s.chunks[s.handles[p]].ptr = p
            BY <3>1, <1>1 DEF Found
      <3>4. \A i \in Live(t) : i \in DOMAIN t.chunks /\ t.chunks[i].ptr = s.chunks[i].ptr
            BY <1>7, <1>9, <1>10, <1>13 DEF a
      <3> QED BY <3>1, <3>2, <3>3, <3>4
    <2> QED BY <2>1 DEF Found
  <1>15. Even(t.chunks[h1])
         BY <1>3, <1>9 DEF Even, Whole, kMinAllocationSize
  <1>16. Placed(t)
    <2>1. DeviceBase(t) = DeviceBase(s) /\ Whole(t.device_used)
          BY <1>1, <1>7 DEF DeviceBase, Fixed, Placed
    <2>2. ASSUME NEW i \in Live(t)
          PROVE  Even(t.chunks[i]) /\ t.chunks[i].ptr + t.chunks[i].size <= DeviceBase(t)
      <3>1. b.ptr + b.size <= DeviceBase(s) /\ DeviceBase(s) \in Nat
            BY <1>1 DEF Placed, b, DeviceBase, BFCType, kMinAllocationSize
      <3>2. CASE i = h1
        <4>1. a.ptr + (a.size + b.size) = b.ptr + b.size
              BY <1>3, <1>4 DEF a, b
        <4> QED BY <4>1, <3>1, <3>2, <2>1, <1>9, <1>15
      <3>3. CASE i # h1
        <4>1. /\ Even(s.chunks[i]) /\ s.chunks[i].ptr + s.chunks[i].size <= DeviceBase(s)
              /\ i \in DOMAIN s.chunks \ {h1, h2}
              BY <3>3, <1>1, <1>13 DEF Placed
        <4> QED BY <4>1, <2>1, <1>10 DEF Even
      <3> QED BY <3>2, <3>3
    <2>3. ASSUME NEW i \in Live(t) \ {h1}
          PROVE  Apart(t.chunks[i], t.chunks[h1]) /\ Apart(t.chunks[h1], t.chunks[i])
      <3>1. /\ i \in DOMAIN s.chunks \ {h1, h2} /\ Apart(a, s.chunks[i])
            /\ Apart(b, s.chunks[i]) /\ Even(s.chunks[i])
            BY <1>1, <1>13 DEF Placed, a, b
      <3>2. t.chunks[i].ptr = s.chunks[i].ptr /\ t.chunks[i].size = s.chunks[i].size
            BY <3>1, <1>10
      <3>3. s.chunks[i].ptr \in Nat /\ s.chunks[i].size \in Nat /\ s.chunks[i].size >= 256
            BY <3>1 DEF Even, Whole, kMinAllocationSize
      <3>4. /\ a.ptr \in Nat /\ a.size \in Nat /\ b.ptr \in Nat /\ b.size \in Nat
            /\ a.size >= 256 /\ b.size >= 256 /\ b.ptr = a.ptr + a.size
            BY <1>3, <1>4 DEF a, b
      <3> QED BY <3>1, <3>2, <3>3, <3>4, <1>9 DEF Apart
    <2>4. ASSUME NEW i \in Live(t) \ {h1}, NEW j \in Live(t) \ {h1}, i # j
          PROVE  Apart(t.chunks[i], t.chunks[j])
      <3>1. Apart(s.chunks[i], s.chunks[j])
            BY <2>4, <1>1, <1>13 DEF Placed
      <3> QED BY <3>1, <1>10, <1>13 DEF Apart
    <2>5. \A i, j \in Live(t) : i # j => Apart(t.chunks[i], t.chunks[j])
          BY <2>3, <2>4
    <2> QED BY <2>1, <2>2, <2>5 DEF Placed
  <1>17. Linked(t)
    <2>1. ASSUME NEW r \in t.regions
          PROVE  /\ r.ptr \in DOMAIN t.handles
                 /\ t.chunks[t.handles[r.ptr]].prev = kInvalidChunkHandle
      <3> DEFINE g == s.handles[r.ptr]
      <3>1. r.ptr \in DOMAIN s.handles /\ s.chunks[g].prev = kInvalidChunkHandle
            BY <1>1, <1>7 DEF Linked, Fixed
      <3>2. g \in Live(s) /\ s.chunks[g].ptr = r.ptr
            BY <3>1, <1>1 DEF Live, Found
      <3>3. g # h2
            BY <3>1, <1>4 DEF b
      <3>4. r.ptr # b.ptr
            BY <3>1, <3>3, <1>1, LiveFound DEF b
      <3>5. r.ptr \in DOMAIN t.handles /\ t.handles[r.ptr] = g
            BY <3>1, <3>4, <1>11
      <3>6. g # h3
        <4>1. g # kInvalidChunkHandle
              BY <1>1, <3>2, LiveNat DEF kInvalidChunkHandle
        <4>2. h3 # kInvalidChunkHandle => s.chunks[h3].prev = h2
              BY <1>5
        <4> QED BY <4>1, <4>2, <3>1, <1>4
      <3>7. t.chunks[g].prev = s.chunks[g].prev
            BY <3>2, <3>3, <3>6, <1>9, <1>10, <1>12, <1>13 DEF a
      <3> QED BY <3>1, <3>5, <3>7
    <2>2. ASSUME NEW i \in Live(t) PROVE NextRight(t, i)
      <3>1. CASE i = h1
        <4>1. CASE h3 = kInvalidChunkHandle
          <5>1. \E r \in s.regions : b.ptr + b.size = r.ptr + r.memory_size
                BY <4>1, <1>1 DEF Linked, NextRight, b, h3
          <5>2. a.ptr + (a.size + b.size) = b.ptr + b.size
                BY <1>3, <1>4 DEF a, b
          <5> QED BY <5>1, <5>2, <4>1, <3>1, <1>7, <1>9 DEF NextRight, Fixed
        <4>2. CASE h3 # kInvalidChunkHandle
          <5>1. /\ h3 \in Live(t) /\ h3 # h1 /\ h3 # h2 /\ h3 \in DOMAIN s.chunks
                /\ s.chunks[h3].ptr = b.ptr + b.size
                BY <4>2, <1>5, <1>12, <1>13
          <5>2. t.chunks[h3].ptr = b.ptr + b.size /\ t.chunks[h3].prev = h1
                BY <5>1, <1>10
          <5>3. a.ptr + (a.size + b.size) = b.ptr + b.size
                BY <1>3, <1>4 DEF a, b
          <5> QED BY <5>1, <5>2, <5>3, <4>2, <3>1, <1>9 DEF NextRight
        <4> QED BY <4>1, <4>2
      <3>2. CASE i # h1
        <4>1. NextRight(s, i) /\ i \in DOMAIN s.chunks \ {h1, h2}
              BY <3>2, <1>1, <1>13 DEF Linked
        <4>2. /\ t.chunks[i].next = s.chunks[i].next
              /\ t.chunks[i].ptr = s.chunks[i].ptr
              /\ t.chunks[i].size = s.chunks[i].size
              BY <4>1, <1>10
        <4>3. CASE s.chunks[i].next = kInvalidChunkHandle
              BY <4>1, <4>2, <4>3, <1>7 DEF NextRight, Fixed
        <4>4. CASE s.chunks[i].next # kInvalidChunkHandle
          <5> DEFINE n == s.chunks[i].next
          <5>1. n \in Live(s) /\ s.chunks[n].ptr = s.chunks[i].ptr + s.chunks[i].size
                  /\ s.chunks[n].prev = i
                BY <4>1, <4>4 DEF NextRight
          <5>2. n # h2 /\ n # h3
                BY <5>1, <1>4, <1>5, <3>2, <4>1, <4>4 DEF b
          <5>3. n \in Live(t) /\ n \in DOMAIN s.chunks
                BY <5>1, <5>2, <1>12, <1>13
          <5>4. t.chunks[n].ptr = s.chunks[n].ptr /\ t.chunks[n].prev = i
            <6>1. CASE n = h1
                  BY <6>1, <5>1, <1>9 DEF a
            <6>2. CASE n # h1
                  BY <6>2, <5>1, <5>2, <5>3, <1>10
            <6> QED BY <6>1, <6>2
          <5> QED BY <5>1, <5>3, <5>4, <4>2, <4>4 DEF NextRight
        <4> QED BY <4>3, <4>4
      <3> QED BY <3>1, <3>2
    <2>3. ASSUME NEW i \in Live(t) PROVE PrevRight(t, i)
      <3>1. CASE i = h3 /\ i # h1
        <4>1. t.chunks[i].prev = h1 /\ h1 # kInvalidChunkHandle /\ h1 \in Live(t)
              BY <3>1, <1>1, <1>4, <1>10, <1>12, <1>13
        <4> QED BY <4>1, <3>1, <1>9 DEF PrevRight
      <3>2. CASE i = h1 \/ i # h3
        <4>1. PrevRight(s, i) /\ i \in DOMAIN s.chunks /\ i # h2
              BY <1>1, <1>13 DEF Linked
        <4>2. t.chunks[i].prev = s.chunks[i].prev /\ t.chunks[i].ptr = s.chunks[i].ptr
              BY <3>2, <4>1, <1>9, <1>10 DEF a
        <4>3. CASE s.chunks[i].prev = kInvalidChunkHandle
              BY <4>1, <4>2, <4>3, <1>7 DEF PrevRight, Fixed
        <4>4. CASE s.chunks[i].prev # kInvalidChunkHandle
          <5> DEFINE p == s.chunks[i].prev
          <5>1. p \in Live(s) /\ s.chunks[p].next = i
                BY <4>1, <4>4 DEF PrevRight
          <5>2. p # h2 /\ p # h1
            <6>1. p # h1
                  BY <5>1, <4>1 DEF a
            <6>2. i # h3
                  BY <3>2, <1>4, <1>5
            <6> QED BY <6>1, <6>2, <5>1 DEF b, h3
          <5>3. p \in Live(t) /\ p \in DOMAIN s.chunks
                BY <5>1, <5>2, <1>12, <1>13
          <5>4. t.chunks[p].next = i
                BY <5>1, <5>2, <5>3, <1>10
          <5> QED BY <5>3, <5>4, <4>2, <4>4 DEF PrevRight
        <4> QED BY <4>3, <4>4
      <3> QED BY <3>1, <3>2
    <2> QED BY <2>1, <2>2, <2>3 DEF Linked
  <1>18. \A i \in Live(t) : InUse(t, i) = InUse(s, i)
         BY <1>9, <1>10, <1>13 DEF InUse, a
  <1>19. Used(t) = Used(s)
         BY <1>1, <1>12, <1>18 DEF Used
  <1>20. Binned(t, X \ {h2})
    <2>1. /\ X \ {h2} \subseteq Live(t)
          /\ \A i \in X \ {h2} : ~InUse(t, i)
          BY <1>12, <1>18 DEF Books, Binned
    <2>2. ASSUME NEW i \in DOMAIN t.chunks
          PROVE  t.chunks[i].bin_num = IF i \in Live(t) \ (X \ {h2}) /\ ~InUse(t, i)
                                         THEN BinNumForSize(t.chunks[i].size)
                                         ELSE kInvalidBinNum
      <3>1. CASE i = h1
        <4>1. a.bin_num = kInvalidBinNum /\ i \in X \ {h2}
              BY <3>1, <1>2, <1>4 DEF Books, Binned, a
        <4> QED BY <4>1, <3>1, <1>9
      <3>2. CASE i = h2
        <4>1. b.bin_num = kInvalidBinNum /\ i \notin Live(t)
              BY <3>2, <1>2, <1>12 DEF Books, Binned, b
        <4> QED BY <4>1, <3>2, <1>7
      <3>3. CASE i # h1 /\ i # h2
        <4>1. /\ t.chunks[i].bin_num = s.chunks[i].bin_num
              /\ t.chunks[i].size = s.chunks[i].size
              /\ InUse(t, i) = InUse(s, i)
              BY <3>3, <1>7, <1>10 DEF InUse
        <4> QED BY <4>1, <3>3, <1>7, <1>12 DEF Books, Binned
      <3> QED BY <3>1, <3>2, <3>3
    <2>3. ASSUME NEW k \in Bins
          PROVE  t.bins[k] = {i \in Live(t) \ (X \ {h2}) :
                                ~InUse(t, i) /\ t.chunks[i].bin_num = k}
      <3>1. t.bins[k] = {i \in Live(s) \ X : ~InUse(s, i) /\ s.chunks[i].bin_num = k}
            BY <1>7 DEF Books, Binned
      <3>2. \A i \in Live(s) \ X : /\ i \in Live(t)
                                   /\ t.chunks[i].bin_num = s.chunks[i].bin_num
                                   /\ InUse(t, i) = InUse(s, i)
            BY <1>10, <1>12, <1>13, <1>18
      <3>3. Live(t) \ (X \ {h2}) = Live(s) \ X
            BY <1>12
      <3> QED BY <3>1, <3>2, <3>3
    <2>4. ASSUME NEW i \in Live(t) \ (X \ {h2}), ~InUse(t, i),
                 t.chunks[i].next # kInvalidChunkHandle,
                 t.chunks[i].next \notin X \ {h2}
          PROVE  InUse(t, t.chunks[i].next)
      <3>1. i \in Live(s) \ X /\ i \in DOMAIN s.chunks \ {h1, h2}
            BY <2>4, <1>12, <1>13
      <3>2. t.chunks[i].next = s.chunks[i].next /\ ~InUse(s, i)
            BY <2>4, <3>1, <1>10, <1>18
      <3>3. s.chunks[i].next \in Live(s) /\ s.chunks[s.chunks[i].next].prev = i
            BY <2>4, <3>1, <3>2, <1>1 DEF Linked, NextRight
      <3>4. s.chunks[i].next # h2
            BY <3>1, <3>3, <1>4 DEF b
      <3>5. InUse(s, s.chunks[i].next)
            BY <2>4, <3>1, <3>2, <3>4 DEF Books, Binned
      <3> QED BY <3>2, <3>3, <3>4, <3>5, <1>12, <1>18
    <2> QED BY <2>1, <2>2, <2>3, <2>4 DEF Binned
  <1>21. Listed(t, Deleted(t))
    <2>1. Deleted(t) = D \cup {h2}
          BY <1>2, <1>7, <1>12 DEF Deleted, D
    <2> QED BY <2>1, <1>7
  <1>22. Counted(t)
    <2>1. Span(t.chunks[h1]) = Span(a) \cup Span(b)
      <3>1. Even(a) /\ Even(b) /\ b.ptr = a.ptr + a.size
            BY <1>3, <1>4 DEF a, b
      <3> QED BY <3>1, <1>9, <1>15, SpansJoin
    <2>2. \A i \in Live(t) \ {h1} : Span(t.chunks[i]) = Span(s.chunks[i])
          BY <1>10, <1>13, SpanOf
    <2>3. Units(t, Live(t)) = Units(s, Live(s))
      <3>1. \A u : (\E i \in Live(t) : u \in Span(t.chunks[i]))
                     <=> (\E i \in Live(s) : u \in Span(s.chunks[i]))
            BY <2>1, <2>2, <1>1, <1>4, <1>12 DEF a, b
      <3> QED BY <3>1 DEF Units
    <2>4. Units(t, Used(t)) = Units(s, Used(s))
      <3>1. Used(s) \subseteq Live(t) \ {h1}
            BY <1>1, <1>12 DEF Used
      <3> QED BY <3>1, <2>2, <1>19 DEF Units
    <2>5. t.total_region_allocated_bytes = s.total_region_allocated_bytes
          BY <1>7 DEF Fixed
    <2> QED BY <2>3, <2>4, <2>5, <1>7 DEF Counted, Books
  <1>23. Books(t, X \ {h2})
         BY <1>7, <1>14, <1>16, <1>17, <1>20, <1>21, <1>22 DEF Books
  <1>24. /\ \A i \in Live(t) : t.chunks[i].ptr = s.chunks[i].ptr
         /\ \A i \in Live(t) \ {h1} : t.chunks[i].size = s.chunks[i].size
         BY <1>9, <1>10, <1>13 DEF a
  <1>25. Fixed(s, t)
         BY <1>6 DEF Merged
  <1> QED BY <1>4, <1>9, <1>12, <1>18, <1>19, <1>23, <1>24, <1>25 DEF a, b, h3

\* A new region is one chunk, in hand.
LEMMA OpenBooks ==
  ASSUME NEW s, NEW X, Books(s, X),
         NEW bytes, Whole(bytes), bytes >= kMinAllocationSize,
         NEW granted, Whole(granted), bytes <= granted,
         NEW increased \in BOOLEAN,
         NEW t, t = Opened(s, bytes, granted, increased),
         NEW n, n = NextHandle(s)
  PROVE  /\ Books(t, X \cup {n})
         /\ Live(t) = Live(s) \cup {n} /\ n \notin Live(s)
         /\ Used(t) = Used(s)
         /\ \A i \in Live(s) : t.chunks[i] = s.chunks[i]
         /\ t.chunks[n].prev = kInvalidChunkHandle
         /\ t.chunks[n].next = kInvalidChunkHandle
         /\ t.chunks[n].size = bytes
         /\ t.started_backpedal = s.started_backpedal
         /\ t.total_region_allocated_bytes = s.total_region_allocated_bytes + bytes
         /\ t.curr_region_allocation_bytes =
              IF increased THEN s.curr_region_allocation_bytes
                           ELSE s.curr_region_allocation_bytes * 2
  <1> DEFINE ptr == DeviceBase(s)
             D == Deleted(s)
             g == [ptr |-> ptr, memory_size |-> bytes]
  <1>1. s \in BFCType /\ Found(s) /\ Placed(s) /\ Linked(s)
        BY DEF Books
  <1>2. bytes \in Nat /\ granted \in Nat /\ bytes >= 256
        BY DEF Whole, kMinAllocationSize
  <1>3. Whole(ptr) /\ ptr >= 256 /\ ptr = 256 + s.device_used /\ s.device_used \in Nat
        BY <1>1 DEF Placed, Whole, DeviceBase, kMinAllocationSize
  <1>4. Grown(s, bytes, granted, increased, D, t, n)
    <2>1. D \in SUBSET DOMAIN s.chunks /\ Listed(s, D)
          BY DEF Books, Deleted
    <2>2. \A i \in D : s.chunks[i].bin_num = kInvalidBinNum
          BY DEF Books, Binned, Deleted
    <2> HIDE DEF D
    <2> QED BY <2>1, <2>2, <1>1, <1>2, OpenedFields
  <1>5. /\ t \in BFCType
        /\ t.regions = s.regions \cup {g}
        /\ t.total_region_allocated_bytes = s.total_region_allocated_bytes + bytes
        /\ t.device_used = s.device_used + granted
        /\ t.bytes_in_use = s.bytes_in_use
        /\ t.bins = s.bins
        /\ n \in Nat \ {0}
        /\ n \notin Live(s)
        /\ DOMAIN t.chunks = DOMAIN s.chunks \cup {n}
        /\ \A i \in DOMAIN s.chunks \ {n} : t.chunks[i] = s.chunks[i]
        /\ Listed(t, D \ {n})
        BY <1>1, <1>4, LiveFound DEF Grown, Deleted
  <1>6. t.chunks[n] = Chunk(ptr, bytes, kInvalidChunkHandle, kInvalidChunkHandle)
        BY <1>4 DEF Grown
  <1>7. /\ t.chunks[n].ptr = ptr
        /\ t.chunks[n].size = bytes
        /\ t.chunks[n].in_use = FALSE
        /\ t.chunks[n].prev = kInvalidChunkHandle
        /\ t.chunks[n].next = kInvalidChunkHandle
        /\ t.chunks[n].bin_num = kInvalidBinNum
        BY <1>6 DEF Chunk
  <1>8. /\ DOMAIN t.handles = DOMAIN s.handles \cup {ptr}
        /\ t.handles[ptr] = n
        /\ \A p \in DOMAIN s.handles \ {ptr} : t.handles[p] = s.handles[p]
        BY <1>4 DEF Grown
  <1>9. g.ptr = ptr /\ g.memory_size = bytes
        OBVIOUS
  <1> HIDE DEF ptr, D, g
  <1>10. \A i \in Live(s) : i \in DOMAIN s.chunks /\ i # n /\ t.chunks[i] = s.chunks[i]
         BY <1>1, <1>5, LiveFound
  <1>11. ptr \notin DOMAIN s.handles
    <2>1. SUFFICES ASSUME ptr \in DOMAIN s.handles PROVE FALSE
          OBVIOUS
    <2>2. s.handles[ptr] \in Live(s) /\ s.chunks[s.handles[ptr]].ptr = ptr
          BY <2>1, <1>1 DEF Found, Live
    <2> QED BY <2>2, <1>1, <1>3 DEF Placed, Even, Whole, kMinAllocationSize, ptr
  <1>12. Live(t) = Live(s) \cup {n}
    <2>1. \A p \in DOMAIN s.handles : p # ptr /\ t.handles[p] = s.handles[p]
          BY <1>8, <1>11
    <2> QED BY <2>1, <1>8 DEF Live
  <1>13. Found(t)
    <2>1. ASSUME NEW p \in DOMAIN t.handles
          PROVE  t.handles[p] \in DOMAIN t.chunks /\ t.chunks[t.handles[p]].ptr = p
      <3>1. CASE p = ptr
            BY <3>1, <1>5, <1>7, <1>8
      <3>2. CASE p # ptr
        <4>1. p \in DOMAIN s.handles /\ t.handles[p] = s.handles[p]
              BY <3>2, <1>8
        <4>2. s.handles[p] \in Live(s) /\ s.chunks[s.handles[p]].ptr = p
              BY <4>1, <1>1 DEF Live, Found
        <4> QED BY <4>1, <4>2, <1>5, <1>10
      <3> QED BY <3>1, <3>2
    <2> QED BY <2>1 DEF Found
  <1>14. Even(t.chunks[n])
         BY <1>2, <1>3, <1>7 DEF Even, kMinAllocationSize
  <1>15. \A i \in Live(s) : /\ Even(s.chunks[i]) /\ s.chunks[i].ptr \in Nat
                            /\ s.chunks[i].size \in Nat
                            /\ s.chunks[i].ptr + s.chunks[i].size <= ptr
         BY <1>1 DEF Placed, Even, Whole, ptr
  <1>16. Placed(t)
    <2>1. DeviceBase(t) = ptr + granted /\ Whole(t.device_used) /\ ptr \in Nat
          BY <1>1, <1>2, <1>3, <1>5 DEF DeviceBase, Placed, Whole, kMinAllocationSize
    <2>2. ASSUME NEW i \in Live(t)
          PROVE  Even(t.chunks[i]) /\ t.chunks[i].ptr + t.chunks[i].size <= DeviceBase(t)
      <3>1. CASE i = n
            BY <3>1, <2>1, <1>2, <1>7, <1>14
      <3>2. CASE i \in Live(s)
            BY <3>2, <2>1, <1>2, <1>10, <1>15
      <3> QED BY <3>1, <3>2, <1>12
    <2>3. ASSUME NEW i \in Live(s)
          PROVE  Apart(t.chunks[i], t.chunks[n]) /\ Apart(t.chunks[n], t.chunks[i])
          BY <1>7, <1>10, <1>15 DEF Apart
    <2>4. ASSUME NEW i \in Live(s), NEW j \in Live(s), i # j
          PROVE  Apart(t.chunks[i], t.chunks[j])
          BY <2>4, <1>1, <1>10 DEF Placed
    <2>5. \A i, j \in Live(t) : i # j => Apart(t.chunks[i], t.chunks[j])
          BY <2>3, <2>4, <1>12
    <2> QED BY <2>1, <2>2, <2>5 DEF Placed
  <1>17. Linked(t)
    <2>1. ASSUME NEW r \in t.regions
          PROVE  /\ r.ptr \in DOMAIN t.handles
                 /\ t.chunks[t.handles[r.ptr]].prev = kInvalidChunkHandle
      <3>1. CASE r = g
            BY <3>1, <1>7, <1>8, <1>9
      <3>2. CASE r \in s.regions
        <4>1. r.ptr \in DOMAIN s.handles /\ s.chunks[s.handles[r.ptr]].prev = kInvalidChunkHandle
              BY <3>2, <1>1 DEF Linked
        <4>2. r.ptr \in DOMAIN t.handles /\ t.handles[r.ptr] = s.handles[r.ptr]
              BY <4>1, <1>8, <1>11
        <4>3. s.handles[r.ptr] \in Live(s)
              BY <4>1 DEF Live
        <4> QED BY <4>1, <4>2, <4>3, <1>10
      <3> QED BY <3>1, <3>2, <1>5
    <2>2. ASSUME NEW i \in Live(t) PROVE NextRight(t, i) /\ PrevRight(t, i)
      <3>1. CASE i = n
        <4>1. g \in t.regions
              BY <1>5
        <4>2. NextRight(t, i)
              BY <3>1, <4>1, <1>7, <1>9 DEF NextRight
        <4>3. PrevRight(t, i)
              BY <3>1, <4>1, <1>7, <1>9 DEF PrevRight
        <4> QED BY <4>2, <4>3
      <3>2. CASE i \in Live(s)
        <4>1. NextRight(s, i) /\ PrevRight(s, i) /\ t.chunks[i] = s.chunks[i]
              BY <3>2, <1>1, <1>10 DEF Linked
        <4>2. NextRight(t, i)
              BY <4>1, <1>5, <1>10, <1>12 DEF NextRight
        <4>3. PrevRight(t, i)
              BY <4>1, <1>5, <1>10, <1>12 DEF PrevRight
        <4> QED BY <4>2, <4>3
      <3> QED BY <3>1, <3>2, <1>12
    <2> QED BY <2>1, <2>2 DEF Linked
  <1>18. (\A i \in Live(s) : InUse(t, i) = InUse(s, i)) /\ ~InUse(t, n)
         BY <1>7, <1>10 DEF InUse
  <1>19. Used(t) = Used(s)
         BY <1>12, <1>18 DEF Used
  <1>20. Binned(t, X \cup {n})
    <2>1. /\ X \cup {n} \subseteq Live(t)
          /\ \A i \in X \cup {n} : ~InUse(t, i)
          BY <1>12, <1>18 DEF Books, Binned
    <2>2. ASSUME NEW i \in DOMAIN t.chunks
          PROVE  t.chunks[i].bin_num = IF i \in Live(t) \ (X \cup {n}) /\ ~InUse(t, i)
                                         THEN BinNumForSize(t.chunks[i].size)
                                         ELSE kInvalidBinNum
      <3>1. CASE i = n
            BY <3>1, <1>7
      <3>2. CASE i \in DOMAIN s.chunks \ {n}
            BY <3>2, <1>5, <1>12 DEF Books, Binned, InUse
      <3> QED BY <3>1, <3>2, <1>5
    <2>3. ASSUME NEW b \in Bins
          PROVE  t.bins[b] = {i \in Live(t) \ (X \cup {n}) :
                                ~InUse(t, i) /\ t.chunks[i].bin_num = b}
      <3>1. t.bins[b] = {i \in Live(s) \ X : ~InUse(s, i) /\ s.chunks[i].bin_num = b}
            BY <1>5 DEF Books, Binned
      <3>2. Live(t) \ (X \cup {n}) = Live(s) \ X
            BY <1>5, <1>12
      <3> QED BY <3>1, <3>2, <1>10, <1>18
    <2>4. ASSUME NEW i \in Live(t) \ (X \cup {n}), ~InUse(t, i),
                 t.chunks[i].next # kInvalidChunkHandle,
                 t.chunks[i].next \notin X \cup {n}
          PROVE  InUse(t, t.chunks[i].next)
      <3>1. i \in Live(s) \ X /\ t.chunks[i] = s.chunks[i] /\ ~InUse(s, i)
            BY <2>4, <1>10, <1>12, <1>18
      <3>2. s.chunks[i].next \in Live(s) /\ InUse(s, s.chunks[i].next)
            BY <2>4, <3>1 DEF Books, Binned, Linked, NextRight
      <3> QED BY <3>1, <3>2, <1>18
    <2> QED BY <2>1, <2>2, <2>3, <2>4 DEF Binned
  <1>21. Listed(t, Deleted(t))
    <2>1. Deleted(t) = D \ {n}
          BY <1>5, <1>12 DEF Deleted, D
    <2> QED BY <2>1, <1>5
  <1>22. Counted(t)
    <2>1. \A H \in SUBSET Live(s) : Units(t, H) = Units(s, H)
          BY <1>10 DEF Units
    <2>2. /\ IsFiniteSet(Units(t, Live(s)))
          /\ kMinAllocationSize * Cardinality(Units(t, Live(s))) = s.total_region_allocated_bytes
          BY <2>1 DEF Books, Counted
    <2>3. /\ \A i \in Live(s) \cup {n} : Even(t.chunks[i])
          /\ \A i \in Live(s) : Apart(t.chunks[n], t.chunks[i])
          BY <1>5, <1>12, <1>16 DEF Placed
    <2>4. /\ IsFiniteSet(Units(t, Live(s) \cup {n}))
          /\ kMinAllocationSize * Cardinality(Units(t, Live(s) \cup {n}))
               = kMinAllocationSize * Cardinality(Units(t, Live(s))) + t.chunks[n].size
          BY <2>2, <2>3, <1>5, UnitsAdd
    <2>5. Units(t, Used(t)) = Units(s, Used(s))
      <3>1. Used(s) \subseteq Live(s)
            BY DEF Used
      <3> QED BY <3>1, <2>1, <1>19
    <2>6. t.bytes_in_use = kMinAllocationSize * Cardinality(Units(t, Used(t)))
          BY <2>5, <1>5 DEF Books, Counted
    <2> QED BY <2>2, <2>4, <2>6, <1>5, <1>7, <1>12 DEF Counted
  <1>23. Books(t, X \cup {n})
         BY <1>5, <1>13, <1>16, <1>17, <1>20, <1>21, <1>22 DEF Books
  <1>24. t.curr_region_allocation_bytes =
           IF increased THEN s.curr_region_allocation_bytes
                        ELSE s.curr_region_allocation_bytes * 2
         BY <1>4 DEF Grown
  <1>25. /\ t.chunks[n].size = bytes /\ t.started_backpedal = s.started_backpedal
         /\ t.total_region_allocated_bytes = s.total_region_allocated_bytes + bytes
         BY <1>4 DEF Grown, Chunk
  <1> QED BY <1>5, <1>7, <1>10, <1>12, <1>19, <1>23, <1>24, <1>25

(***************************************************************************)
(* What the actions do to the books.                                       *)
(***************************************************************************)

\* The chunks H are still where they were.
Stay(s, t, H) ==
    \A i \in H : /\ i \in Live(t)
                 /\ t.chunks[i].ptr = s.chunks[i].ptr
                 /\ t.chunks[i].size = s.chunks[i].size

\* A chunk is not its own neighbour, on either side.
LEMMA NeighboursDiffer ==
  ASSUME NEW s, NEW X, Books(s, X), NEW h \in Live(s),
         NEW n, n = s.chunks[h].next, n # kInvalidChunkHandle
  PROVE  /\ n \in Live(s) /\ n # h /\ s.chunks[n].prev = h
         /\ s.chunks[n].next # h
  <1>1. /\ n \in Live(s) /\ s.chunks[n].ptr = s.chunks[h].ptr + s.chunks[h].size
        /\ s.chunks[n].prev = h
        BY DEF Books, Linked, NextRight
  <1>2. /\ s.chunks[h].ptr \in Nat /\ s.chunks[h].size \in Nat /\ s.chunks[h].size >= 256
        /\ s.chunks[n].ptr \in Nat /\ s.chunks[n].size \in Nat /\ s.chunks[n].size >= 256
        BY <1>1 DEF Books, Placed, Even, Whole, kMinAllocationSize
  <1>3. h # kInvalidChunkHandle
        BY LiveNat DEF Books, kInvalidChunkHandle
  <1>4. s.chunks[n].next = h => s.chunks[h].ptr = s.chunks[n].ptr + s.chunks[n].size
        BY <1>1, <1>3 DEF Books, Linked, NextRight
  <1> QED BY <1>1, <1>2, <1>4

\* The same, of one chunk.
LEMMA AlikeFields ==
  ASSUME NEW s, NEW t, NEW X, Books(s, X), Alike(s, t), NEW i \in Live(s)
  PROVE  /\ i \in Live(t)
         /\ t.chunks[i].ptr = s.chunks[i].ptr /\ t.chunks[i].size = s.chunks[i].size
         /\ t.chunks[i].next = s.chunks[i].next /\ t.chunks[i].prev = s.chunks[i].prev
  <1>1. i \in DOMAIN s.chunks
        BY LiveFound DEF Books
  <1>2. Live(t) = Live(s)
        BY AlikeKeeps
  <1> QED BY <1>1, <1>2 DEF Alike, SamePlace

\* AddRegion keeps the books.
LEMMA AddRegionBooks ==
  ASSUME NEW s, Books(s, {}),
         NEW bytes, Whole(bytes), bytes >= kMinAllocationSize,
         NEW granted, Whole(granted), bytes <= granted,
         NEW increased \in BOOLEAN,
         NEW t, t = AddRegion(s, bytes, granted, increased)
  PROVE  /\ Books(t, {}) /\ Used(t) = Used(s) /\ Stay(s, t, Live(s))
         /\ t.curr_region_allocation_bytes =
              IF increased THEN s.curr_region_allocation_bytes
                           ELSE s.curr_region_allocation_bytes * 2
         /\ t.started_backpedal = s.started_backpedal
         /\ t.total_region_allocated_bytes = s.total_region_allocated_bytes + bytes
         /\ \E h \in Live(t) : ~InUse(t, h) /\ t.chunks[h].size = bytes
  <1> DEFINE n == NextHandle(s)
             o == Opened(s, bytes, granted, increased)
  <1>1. t = InsertFreeChunkIntoBin(o, n)
        BY DEF AddRegion, Opened
  <1> HIDE DEF n, o
  <1>2. /\ Books(o, {} \cup {n})
        /\ Live(o) = Live(s) \cup {n}
        /\ Used(o) = Used(s)
        /\ \A i \in Live(s) : o.chunks[i] = s.chunks[i]
        /\ o.chunks[n].prev = kInvalidChunkHandle
        /\ o.chunks[n].next = kInvalidChunkHandle
        /\ o.chunks[n].size = bytes
        /\ o.started_backpedal = s.started_backpedal
        /\ o.total_region_allocated_bytes = s.total_region_allocated_bytes + bytes
        /\ o.curr_region_allocation_bytes =
             IF increased THEN s.curr_region_allocation_bytes
                          ELSE s.curr_region_allocation_bytes * 2
        BY OpenBooks DEF n, o
  <1>3. {} \cup {n} = {n} /\ {n} \ {n} = {}
        OBVIOUS
  <1>4. Books(o, {n})
        BY <1>2, <1>3
  <1>5. Books(t, {n} \ {n}) /\ Alike(o, t) /\ SameUse(o, t)
        BY <1>1, <1>2, <1>4, InsertBooks
  <1>6. \A i \in Live(o) : i \in Live(t) /\ t.chunks[i].ptr = o.chunks[i].ptr
                             /\ t.chunks[i].size = o.chunks[i].size
        BY <1>4, <1>5, AlikeFields
  <1>7. Used(t) = Used(o)
    <2>1. Live(t) = Live(o) /\ \A i \in Live(o) : InUse(t, i) = InUse(o, i)
          BY <1>4, <1>5, AlikeKeeps, LiveFound DEF SameUse, Books
    <2> QED BY <2>1 DEF Used
  <1>8. t.curr_region_allocation_bytes = o.curr_region_allocation_bytes
        BY <1>5 DEF Alike, Fixed
  <1>9. /\ t.started_backpedal = s.started_backpedal
        /\ t.total_region_allocated_bytes = s.total_region_allocated_bytes + bytes
        BY <1>2, <1>5 DEF Alike, Fixed
  <1>10. n \in Live(t) /\ ~InUse(t, n) /\ t.chunks[n].size = bytes
    <2>1. n \in Live(o) /\ ~InUse(o, n)
          BY <1>4 DEF Books, Binned
    <2>2. n \in DOMAIN o.chunks
          BY <2>1, <1>4, LiveFound DEF Books
    <2> QED BY <2>1, <2>2, <1>2, <1>5, <1>6 DEF SameUse
  <1> QED BY <1>2, <1>3, <1>5, <1>6, <1>7, <1>8, <1>9, <1>10 DEF Stay

\* So does FindChunkPtr, which hands out the chunk it has met.
LEMMA TakeChunkBooks ==
  ASSUME NEW s, Books(s, {}),
         NEW rounded_bytes, Whole(rounded_bytes), rounded_bytes >= kMinAllocationSize,
         NEW h \in Candidates(s, rounded_bytes),
         NEW t, t = TakeChunk(s, h, rounded_bytes)
  PROVE  /\ Books(t, {})
         /\ h \in Live(s) /\ h \notin Used(s)
         /\ Used(t) = Used(s) \cup {h}
         /\ Stay(s, t, Used(s))
         /\ t.chunks[h].ptr = s.chunks[h].ptr
         /\ t.chunks[h].size >= rounded_bytes
         /\ Fixed(s, t)
  <1> DEFINE s1 == RemoveFreeChunkFromBin(s, h)
             new == NextHandle(s1)
             d == Divided(s1, h, rounded_bytes)
             s2 == IF s.chunks[h].size >= rounded_bytes * 2
                     THEN SplitChunk(s1, h, rounded_bytes) ELSE s1
  <1>1. h \in Live(s) /\ ~InUse(s, h) /\ s.chunks[h].size >= rounded_bytes
    <2>1. PICK b \in Bins : h \in s.bins[b]
          BY DEF Candidates
    <2>2. s.chunks[h].size >= rounded_bytes
          BY DEF Candidates
    <2> QED BY <2>1, <2>2 DEF Books, Binned
  <1>2. Books(s1, {h}) /\ Alike(s, s1) /\ SameUse(s, s1)
    <2>1. Books(s1, {} \cup {h}) /\ Alike(s, s1) /\ SameUse(s, s1)
          BY <1>1, RemoveBooks
    <2>2. {} \cup {h} = {h}
          OBVIOUS
    <2> HIDE DEF s1
    <2> QED BY <2>1, <2>2
  <1>3. t = [s2 EXCEPT !.chunks[h].in_use = TRUE, !.bytes_in_use = @ + s2.chunks[h].size]
        BY DEF TakeChunk
  <1>4. SplitChunk(s1, h, rounded_bytes) = InsertFreeChunkIntoBin(d, new)
        BY DEF SplitChunk, Divided
  <1> HIDE DEF s1, new, d
  <1>5. /\ Live(s1) = Live(s)
        /\ \A i \in Live(s) : InUse(s1, i) = InUse(s, i)
        /\ Used(s1) = Used(s)
    <2>1. Live(s1) = Live(s) /\ \A i \in Live(s) : InUse(s1, i) = InUse(s, i)
          BY <1>2, AlikeKeeps, LiveFound DEF SameUse, Books
    <2> QED BY <2>1 DEF Used
  <1>6. \A i \in Live(s) : /\ s1.chunks[i].ptr = s.chunks[i].ptr
                           /\ s1.chunks[i].size = s.chunks[i].size
                           /\ s1.chunks[i].next = s.chunks[i].next
        BY <1>2, AlikeFields
  <1>7. /\ Books(s2, {h}) /\ Used(s2) = Used(s) /\ Stay(s, s2, Live(s) \ {h})
        /\ h \in Live(s2) /\ s2.chunks[h].ptr = s.chunks[h].ptr
        /\ s2.chunks[h].size >= rounded_bytes
        /\ Fixed(s1, s2)
    <2>1. CASE ~(s.chunks[h].size >= rounded_bytes * 2)
      <3>1. s2 = s1
            BY <2>1
      <3> HIDE DEF s2
      <3>2. Fixed(s1, s2)
            BY <3>1 DEF Fixed
      <3> QED BY <3>1, <3>2, <1>1, <1>2, <1>5, <1>6 DEF Stay
    <2>2. CASE s.chunks[h].size >= rounded_bytes * 2
      <3>1. s2 = InsertFreeChunkIntoBin(d, new)
            BY <2>2, <1>4
      <3> HIDE DEF s2
      <3>2. rounded_bytes < s1.chunks[h].size
        <4>1. s1.chunks[h].size \in Nat /\ rounded_bytes \in Nat /\ rounded_bytes >= 256
              BY <1>1, <1>2, <1>5 DEF Books, Placed, Even, Whole, kMinAllocationSize
        <4> QED BY <4>1, <2>2, <1>1, <1>6
      <3>3. /\ Books(d, {h} \cup {new})
            /\ Live(d) = Live(s1) \cup {new} /\ new \notin Live(s1)
            /\ Used(d) = Used(s1)
            /\ \A i \in Live(s1) : d.chunks[i].ptr = s1.chunks[i].ptr
            /\ \A i \in Live(s1) \ {h} : d.chunks[i].size = s1.chunks[i].size
            /\ d.chunks[h].size = rounded_bytes
            /\ d.chunks[new].prev = h
            /\ d.chunks[new].next = s1.chunks[h].next
            /\ \A i \in Live(s1) : InUse(d, i) = InUse(s1, i)
            /\ Fixed(s1, d)
            BY <3>2, <1>2, DivideBooks DEF d, new
      <3>4. d.chunks[new].next = kInvalidChunkHandle \/ InUse(d, d.chunks[new].next)
        <4> DEFINE n == s.chunks[h].next
        <4>1. SUFFICES ASSUME n # kInvalidChunkHandle PROVE InUse(d, n)
              BY <3>3, <1>1, <1>6
        <4>2. n \in Live(s)
              BY <4>1, <1>1, NeighboursDiffer
        <4>3. InUse(s, n)
              BY <4>1, <1>1 DEF Books, Binned
        <4> QED BY <4>2, <4>3, <3>3, <1>5
      <3>5. h \in ({h} \cup {new}) \ {new} /\ new \in {h} \cup {new}
              /\ ({h} \cup {new}) \ {new} = {h}
            BY <3>3, <1>1, <1>5
      <3> DEFINE Y == {h} \cup {new}
      <3>6. Books(d, Y) /\ new \in Y /\ h \in Y \ {new} /\ Y \ {new} = {h}
            BY <3>3, <3>5
      <3> HIDE DEF Y
      <3>7. Books(s2, Y \ {new}) /\ Alike(d, s2) /\ SameUse(d, s2)
            BY <3>1, <3>3, <3>4, <3>6, InsertBooks
      <3>8. \A i \in Live(d) : i \in Live(s2) /\ s2.chunks[i].ptr = d.chunks[i].ptr
                                 /\ s2.chunks[i].size = d.chunks[i].size
            BY <3>6, <3>7, AlikeFields
      <3>9. Used(s2) = Used(d)
        <4>1. Live(s2) = Live(d) /\ \A i \in Live(d) : InUse(s2, i) = InUse(d, i)
              BY <3>6, <3>7, AlikeKeeps, LiveFound DEF SameUse, Books
        <4> QED BY <4>1 DEF Used
      <3>10. Stay(s, s2, Live(s) \ {h})
             BY <3>3, <3>8, <1>5, <1>6 DEF Stay
      <3>11. /\ h \in Live(s2) /\ s2.chunks[h].ptr = s.chunks[h].ptr
             /\ s2.chunks[h].size = rounded_bytes
             BY <3>3, <3>8, <1>1, <1>5, <1>6
      <3>12. rounded_bytes >= rounded_bytes
             BY DEF Whole
      <3>13. Fixed(s1, s2)
             BY <3>3, <3>7, FixedTwice DEF Alike
      <3> QED BY <3>6, <3>3, <3>7, <3>9, <3>10, <3>11, <3>12, <3>13, <1>5
    <2> QED BY <2>1, <2>2
  <1> HIDE DEF s2
  <1>8. Books(t, {h} \ {h}) /\ Alike(s2, t) /\ Used(t) = Used(s2) \cup {h}
        BY <1>3, <1>7, UseBooks
  <1>9. Books(t, {})
    <2>1. {h} \ {h} = {}
          OBVIOUS
    <2> QED BY <2>1, <1>8
  <1>10. \A i \in Live(s2) : i \in Live(t) /\ t.chunks[i].ptr = s2.chunks[i].ptr
                              /\ t.chunks[i].size = s2.chunks[i].size
         BY <1>7, <1>8, AlikeFields
  <1>11. Stay(s, t, Used(s))
    <2>1. Used(s) \subseteq Live(s) \ {h}
          BY <1>1 DEF Used
    <2> QED BY <2>1, <1>7, <1>10 DEF Stay
  <1>12. h \notin Used(s)
         BY <1>1 DEF Used
  <1>13. Fixed(s, t)
         BY <1>2, <1>7, <1>8, FixedTwice DEF Alike
  <1> QED BY <1>1, <1>7, <1>8, <1>9, <1>10, <1>11, <1>12, <1>13

\* The free chunk b, after a, is a part of a now.
Joined(s, a, b, t) ==
    /\ Books(t, {a})
    /\ Live(t) = Live(s) \ {b} /\ a # b
    /\ Used(t) = Used(s)
    /\ \A i \in Live(t) : t.chunks[i].ptr = s.chunks[i].ptr
    /\ \A i \in Live(t) \ {a} : t.chunks[i].size = s.chunks[i].size
    /\ t.chunks[a].prev = s.chunks[a].prev
    /\ t.chunks[a].next = s.chunks[b].next
    /\ \A i \in Live(t) : InUse(t, i) = InUse(s, i)
    /\ Fixed(s, t)

\* The chunk y leaves its bin and is joined with x, which is in hand.
LEMMA JoinBooks ==
  ASSUME NEW s, NEW x, Books(s, {x}), NEW y \in Live(s) \ {x}, ~InUse(s, y),
         NEW a, NEW b, (a = x /\ b = y) \/ (a = y /\ b = x), b = s.chunks[a].next,
         NEW t, t = Merge(RemoveFreeChunkFromBin(s, y), a, b)
  PROVE  Joined(s, a, b, t)
  <1> DEFINE r == RemoveFreeChunkFromBin(s, y)
             X == {x} \cup {y}
  <1>1. Books(r, X) /\ Alike(s, r) /\ SameUse(s, r)
        BY RemoveBooks
  <1>2. x \in Live(s)
        BY DEF Books, Binned
  <1>3. a \in X /\ b \in X /\ X \ {b} = {a} /\ a \in Live(s) /\ b \in Live(s)
        BY <1>2
  <1>4. t = Merge(r, a, b)
        OBVIOUS
  <1> HIDE DEF r, X
  <1>5. /\ Live(r) = Live(s)
        /\ \A i \in Live(s) : InUse(r, i) = InUse(s, i)
        /\ Used(r) = Used(s)
    <2>1. Live(r) = Live(s) /\ \A i \in Live(s) : InUse(r, i) = InUse(s, i)
          BY <1>1, AlikeKeeps, LiveFound DEF SameUse, Books
    <2> QED BY <2>1 DEF Used
  <1>6. \A i \in Live(s) : /\ r.chunks[i].ptr = s.chunks[i].ptr
                           /\ r.chunks[i].size = s.chunks[i].size
                           /\ r.chunks[i].next = s.chunks[i].next
                           /\ r.chunks[i].prev = s.chunks[i].prev
        BY <1>1, AlikeFields
  <1>7. b = r.chunks[a].next
        BY <1>3, <1>6
  <1>8. /\ Books(t, X \ {b})
        /\ Live(t) = Live(r) \ {b} /\ a # b
        /\ Used(t) = Used(r)
        /\ \A i \in Live(t) : t.chunks[i].ptr = r.chunks[i].ptr
        /\ \A i \in Live(t) \ {a} : t.chunks[i].size = r.chunks[i].size
        /\ t.chunks[a].prev = r.chunks[a].prev
        /\ t.chunks[a].next = r.chunks[b].next
        /\ \A i \in Live(t) : InUse(t, i) = InUse(r, i)
        /\ Fixed(r, t)
        BY <1>1, <1>3, <1>4, <1>7, MergeBooks, SMTT(30)
  <1>9. Books(t, {a})
        BY <1>3, <1>8
  <1>10. Fixed(s, t)
         BY <1>1, <1>8, FixedTwice DEF Alike
  <1>11. Live(t) = Live(s) \ {b} /\ a # b /\ Used(t) = Used(s)
         BY <1>5, <1>8
  <1>12. \A i \in Live(t) : /\ t.chunks[i].ptr = s.chunks[i].ptr
                            /\ InUse(t, i) = InUse(s, i)
         BY <1>5, <1>6, <1>8, <1>11
  <1>13. \A i \in Live(t) \ {a} : t.chunks[i].size = s.chunks[i].size
         BY <1>6, <1>8, <1>11
  <1>14. t.chunks[a].prev = s.chunks[a].prev /\ t.chunks[a].next = s.chunks[b].next
         BY <1>3, <1>6, <1>8
  <1> QED BY <1>9, <1>10, <1>11, <1>12, <1>13, <1>14 DEF Joined

\* The next chunk is merged into h, if it is free: after h comes none that is.
LEMMA MergeNextBooks ==
  ASSUME NEW s, NEW h, Books(s, {h}), NEW t, t = MergeNext(s, h)
  PROVE  /\ Books(t, {h})
         /\ Used(t) = Used(s)
         /\ Stay(s, t, Used(s))
         /\ Fixed(s, t)
         /\ \/ t.chunks[h].next = kInvalidChunkHandle
            \/ /\ t.chunks[h].next \in Live(t)
               /\ InUse(t, t.chunks[h].next)
  <1> DEFINE n == s.chunks[h].next
  <1>1. h \in Live(s) /\ ~InUse(s, h)
        BY DEF Books, Binned
  <1>2. CASE n = kInvalidChunkHandle
    <2>1. t = s
          BY <1>2 DEF MergeNext
    <2> QED BY <2>1, <1>2 DEF Stay, Used, Fixed
  <1>3. CASE n # kInvalidChunkHandle
    <2>1. n \in Live(s) /\ n # h /\ s.chunks[n].prev = h /\ s.chunks[n].next # h
          BY <1>1, <1>3, NeighboursDiffer
    <2>2. CASE InUse(s, n)
      <3>1. t = s
            BY <1>3, <2>2 DEF MergeNext
      <3> QED BY <3>1, <2>1, <2>2 DEF Stay, Used, Fixed
    <2>3. CASE ~InUse(s, n)
      <3> DEFINE m == s.chunks[n].next
      <3>1. t = Merge(RemoveFreeChunkFromBin(s, n), h, n)
            BY <1>3, <2>3 DEF MergeNext
      <3>2. n \in Live(s) \ {h}
            BY <2>1
      <3>3. /\ Books(t, {h})
            /\ Live(t) = Live(s) \ {n}
            /\ Used(t) = Used(s)
            /\ \A i \in Live(t) : t.chunks[i].ptr = s.chunks[i].ptr
            /\ \A i \in Live(t) \ {h} : t.chunks[i].size = s.chunks[i].size
            /\ t.chunks[h].next = m
            /\ \A i \in Live(t) : InUse(t, i) = InUse(s, i)
            /\ Fixed(s, t)
        <4>1. Joined(s, h, n, t)
              BY <3>1, <3>2, <2>3, JoinBooks
        <4> QED BY <4>1 DEF Joined
      <3>4. m = kInvalidChunkHandle \/ (m \in Live(t) /\ InUse(t, m))
        <4>1. SUFFICES ASSUME m # kInvalidChunkHandle PROVE m \in Live(t) /\ InUse(t, m)
              OBVIOUS
        <4>2. m \in Live(s) /\ m # n
              BY <4>1, <2>1, NeighboursDiffer
        <4>3. InUse(s, m)
          <5>1. m \notin {h} /\ n \in Live(s) \ {h}
                BY <2>1
          <5> QED BY <5>1, <4>1, <2>3 DEF Books, Binned
        <4> QED BY <4>2, <4>3, <3>3
      <3>5. Stay(s, t, Used(s))
        <4>1. Used(s) \subseteq Live(t) \ {h}
              BY <3>3, <1>1, <2>3 DEF Used
        <4> QED BY <4>1, <3>3 DEF Stay
      <3> QED BY <3>3, <3>4, <3>5
    <2> QED BY <2>2, <2>3
  <1> QED BY <1>2, <1>3

\* FreeAndMaybeCoalesce frees one chunk, and the others in use stay.
LEMMA FreeAndMaybeCoalesceBooks ==
  ASSUME NEW s, Books(s, {}), NEW h \in Used(s),
         NEW t, t = FreeAndMaybeCoalesce(s, h)
  PROVE  /\ Books(t, {})
         /\ Used(t) = Used(s) \ {h}
         /\ Stay(s, t, Used(t))
         /\ Fixed(s, t)
  <1> DEFINE s1 == [s EXCEPT !.chunks[h].in_use = FALSE,
                             !.bytes_in_use = @ - s.chunks[h].size]
             s2 == MergeNext(s1, h)
             p == s2.chunks[h].prev
             n == s2.chunks[h].next
  <1>1. /\ Books(s1, {h}) /\ Alike(s, s1)
        /\ Used(s1) = Used(s) \ {h}
    <2>1. s1 = Freed(s, h)
          BY DEF Freed
    <2> HIDE DEF s1
    <2>2. /\ Books(s1, {} \cup {h}) /\ Alike(s, s1)
          /\ Used(s1) = Used(s) \ {h}
          BY <2>1, FreeBooks
    <2>3. {} \cup {h} = {h}
          OBVIOUS
    <2> QED BY <2>2, <2>3
  <1>2. /\ p = kInvalidChunkHandle \/ InUse(s2, p) => t = InsertFreeChunkIntoBin(s2, h)
        /\ ~(p = kInvalidChunkHandle \/ InUse(s2, p)) =>
             t = InsertFreeChunkIntoBin(Merge(RemoveFreeChunkFromBin(s2, p), p, h), p)
        BY DEF FreeAndMaybeCoalesce
  <1>3. Stay(s, s1, Used(s1))
    <2>1. Used(s1) \subseteq Live(s)
          BY <1>1 DEF Used
    <2> HIDE DEF s1
    <2> QED BY <2>1, <1>1, AlikeFields DEF Stay
  <1> HIDE DEF s1
  <1>4. /\ Books(s2, {h})
        /\ Used(s2) = Used(s1)
        /\ Stay(s1, s2, Used(s1))
        /\ Fixed(s1, s2)
        /\ n = kInvalidChunkHandle \/ (n \in Live(s2) /\ InUse(s2, n))
        BY <1>1, MergeNextBooks
  <1> HIDE DEF s2
  <1>5. h \in Live(s2) /\ ~InUse(s2, h)
        BY <1>4 DEF Books, Binned
  <1>6. SUFFICES ASSUME NEW u, NEW x, Books(u, {x}), t = InsertFreeChunkIntoBin(u, x),
                        u.chunks[x].next = kInvalidChunkHandle \/ InUse(u, u.chunks[x].next),
                        u.chunks[x].prev = kInvalidChunkHandle \/ InUse(u, u.chunks[x].prev),
                        Used(u) = Used(s2), Stay(s2, u, Used(s2)), Fixed(s2, u)
                 PROVE  /\ Books(t, {}) /\ Used(t) = Used(s) \ {h}
                        /\ Stay(s, t, Used(t)) /\ Fixed(s, t)
    <2>1. CASE p = kInvalidChunkHandle \/ InUse(s2, p)
      <3>1. t = InsertFreeChunkIntoBin(s2, h)
            BY <2>1, <1>2
      <3>2. Stay(s2, s2, Used(s2)) /\ Fixed(s2, s2)
            BY DEF Stay, Used, Fixed
      <3> QED BY <3>1, <3>2, <2>1, <1>4, <1>6
    <2>2. CASE ~(p = kInvalidChunkHandle \/ InUse(s2, p))
      <3> DEFINE u == Merge(RemoveFreeChunkFromBin(s2, p), p, h)
                 q == s2.chunks[p].prev
      <3>1. p \in Live(s2) /\ s2.chunks[p].next = h
            BY <1>4, <1>5, <2>2 DEF Books, Linked, PrevRight
      <3>2. h # kInvalidChunkHandle
            BY <1>4, <1>5, LiveNat DEF Books, kInvalidChunkHandle
      <3>3. p # h /\ n # p
            BY <3>1, <3>2, <1>4, NeighboursDiffer
      <3>4. p \in Live(s2) \ {h} /\ ~InUse(s2, p)
            BY <3>1, <3>3, <2>2
      <3>5. /\ Books(u, {p})
            /\ Live(u) = Live(s2) \ {h}
            /\ Used(u) = Used(s2)
            /\ \A i \in Live(u) : u.chunks[i].ptr = s2.chunks[i].ptr
            /\ \A i \in Live(u) \ {p} : u.chunks[i].size = s2.chunks[i].size
            /\ u.chunks[p].prev = q
            /\ u.chunks[p].next = n
            /\ \A i \in Live(u) : InUse(u, i) = InUse(s2, i)
            /\ Fixed(s2, u)
        <4>1. Joined(s2, p, h, u)
              BY <1>4, <3>1, <3>4, JoinBooks
        <4> QED BY <4>1 DEF Joined
      <3>6. t = InsertFreeChunkIntoBin(u, p)
            BY <1>2, <2>2
      <3> HIDE DEF u
      <3>7. n = kInvalidChunkHandle \/ InUse(u, n)
            BY <3>5, <1>4, <1>5
      <3>8. q = kInvalidChunkHandle \/ InUse(u, q)
        <4>1. SUFFICES ASSUME q # kInvalidChunkHandle PROVE InUse(u, q)
              OBVIOUS
        <4>2. q \in Live(s2) /\ s2.chunks[q].next = p
              BY <4>1, <3>1, <1>4 DEF Books, Linked, PrevRight
        <4>3. q # h
              BY <4>2, <3>3
        <4>4. InUse(s2, q)
          <5>1. q \in Live(s2) \ {h} /\ p \notin {h}
                BY <4>2, <4>3, <3>3
          <5> QED BY <5>1, <4>2, <2>2, <1>4 DEF Books, Binned
        <4> QED BY <4>2, <4>3, <4>4, <3>5
      <3>9. Stay(s2, u, Used(s2))
        <4>1. Used(s2) \subseteq Live(u) \ {p}
              BY <3>4, <3>5, <1>5 DEF Used
        <4> QED BY <4>1, <3>5 DEF Stay
      <3> QED BY <3>5, <3>6, <3>7, <3>8, <3>9, <1>6
    <2> QED BY <2>1, <2>2
  <1>7. x \in {x}
        OBVIOUS
  <1>8. Books(t, {x} \ {x}) /\ Alike(u, t) /\ SameUse(u, t)
        BY <1>6, <1>7, InsertBooks
  <1>9. Books(t, {})
    <2>1. {x} \ {x} = {}
          OBVIOUS
    <2> QED BY <2>1, <1>8
  <1>10. Used(t) = Used(u)
    <2>1. Live(t) = Live(u) /\ \A i \in Live(u) : InUse(t, i) = InUse(u, i)
          BY <1>6, <1>8, AlikeKeeps, LiveFound DEF SameUse, Books
    <2> QED BY <2>1 DEF Used
  <1>11. Stay(u, t, Used(u))
         BY <1>6, <1>8, AlikeFields DEF Stay, Used
  <1>12. Stay(s, t, Used(t))
         BY <1>3, <1>4, <1>6, <1>10, <1>11 DEF Stay
  <1>13. Fixed(s, t)
    <2>1. Fixed(s, s2)
          BY <1>1, <1>4, FixedTwice DEF Alike
    <2>2. Fixed(s2, t)
          BY <1>6, <1>8, FixedTwice DEF Alike
    <2> QED BY <2>1, <2>2, FixedTwice
  <1> QED BY <1>1, <1>4, <1>6, <1>9, <1>10, <1>12, <1>13

(***************************************************************************)
(* The clients, and the inductive invariant.                               *)
(***************************************************************************)

LoopType == [stage : {"none", "double", "backpedal"}, bytes : Nat,
             increased : BOOLEAN]

ClientsTyped ==
    /\ options \in Options
    /\ loop \in [Clients -> LoopType]
    /\ pc \in [Clients -> Stages]
    /\ request \in [Clients -> Nat]
    /\ held \in [Clients -> Nat]

\* The next region would be a whole number of units, and one at least.
RegionSized(s) ==
    /\ Whole(s.curr_region_allocation_bytes)
    /\ s.curr_region_allocation_bytes >= kMinAllocationSize

\* The locals of Extend in one of its loops, with the lock held.
InLoop(c) ==
    /\ pc[c] \in Attempting
    /\ request[c] # 0
    /\ RoundedBytes(request[c]) <= Available(bfc)
    /\ loop[c].stage = "backpedal" => /\ Whole(loop[c].bytes)
                                      /\ loop[c].bytes >= kMinAllocationSize

\* One client at most is in a loop of Extend.
LoopsSound ==
    \A c \in Clients : loop[c].stage # "none" =>
        /\ InLoop(c)
        /\ \A d \in Clients \ {c} : loop[d].stage = "none"

HoldingKnown == \A c \in Clients : (held[c] # nullptr) = (pc[c] = "holds")

\* The holders of pointers, hd, own the chunks in use, of the sizes rq.
OwnedBy(s, hd, rq) ==
    LET Holders == {c \in Clients : hd[c] # nullptr} IN
    /\ \A c \in Holders : /\ hd[c] \in DOMAIN s.handles
                          /\ s.chunks[s.handles[hd[c]]].size >= rq[c]
                          /\ \A d \in Holders \ {c} : hd[c] # hd[d]
    /\ Used(s) = {s.handles[hd[c]] : c \in Holders}

BFCInv ==
    /\ ClientsTyped
    /\ Books(bfc, {})
    /\ RegionSized(bfc)
    /\ LoopsSound
    /\ HoldingKnown
    /\ OwnedBy(bfc, held, request)

\* Sizes are rounded up to whole units.
LEMMA Rounded ==
  ASSUME NEW n \in Nat
  PROVE  /\ Whole(RoundedBytes(n))
         /\ RoundedBytes(n) >= n
         /\ n # 0 => RoundedBytes(n) >= kMinAllocationSize
  <1> DEFINE q == (n + 255) \div 256
  <1>1. q \in Nat /\ 256 * q >= n /\ (n # 0 => q >= 1)
        OBVIOUS
  <1>2. RoundedBytes(n) = 256 * q
        BY DEF RoundedBytes, kMinAllocationSize
  <1> HIDE DEF q
  <1>3. 256 * q \in Nat /\ (256 * q) % 256 = 0
        BY <1>1
  <1> QED BY <1>1, <1>2, <1>3 DEF Whole, kMinAllocationSize

\* A round of the loop that asks for less asks for no more, and for a unit at least.
LEMMA BackpedalWhole ==
  ASSUME NEW bytes, Whole(bytes), bytes >= kMinAllocationSize
  PROVE  /\ Whole(Backpedal(bytes)) /\ Backpedal(bytes) >= kMinAllocationSize
         /\ Backpedal(bytes) <= bytes
  <1> DEFINE n == (bytes * 9) \div 10
             k == bytes \div 256
             q == (n + 255) \div 256
  <1>1. bytes \in Nat /\ bytes >= 256 /\ bytes % 256 = 0
        BY DEF Whole, kMinAllocationSize
  <1>2. k \in Nat /\ bytes = 256 * k
        BY <1>1
  <1>3. n \in Nat /\ n # 0 /\ n <= bytes
        BY <1>1
  <1>4. Backpedal(bytes) = RoundedBytes(n)
        BY DEF Backpedal
  <1> HIDE DEF n, k
  <1>5. Whole(RoundedBytes(n)) /\ RoundedBytes(n) >= kMinAllocationSize
        BY <1>3, Rounded
  <1>6. RoundedBytes(n) = 256 * q
        BY DEF RoundedBytes, kMinAllocationSize
  <1>7. q <= k /\ q \in Nat
        BY <1>2, <1>3
  <1> HIDE DEF q
  <1>8. 256 * q <= 256 * k
        BY <1>2, <1>7
  <1> QED BY <1>2, <1>4, <1>5, <1>6, <1>8

\* What the limit leaves is a whole number of units, if it is enough for one.
LEMMA AvailableWhole ==
  ASSUME NEW s \in BFCType, options \in Options, Available(s) >= kMinAllocationSize
  PROVE  Whole(Available(s))
  <1> DEFINE x == options.total_memory - s.total_region_allocated_bytes
             q == x \div 256
  <1>1. x \in Int
        BY BFCAssumption DEF BFCType
  <1>2. Available(s) = q * 256
        BY DEF Available, kMinAllocationSize
  <1>3. q \in Int
        BY <1>1
  <1> HIDE DEF x, q
  <1>4. q * 256 >= 256
        BY <1>2 DEF kMinAllocationSize
  <1>5. q \in Nat
        BY <1>3, <1>4
  <1>6. q * 256 \in Nat /\ (q * 256) % 256 = 0
        BY <1>5
  <1> QED BY <1>2, <1>6 DEF Whole, kMinAllocationSize

\* A pointer to a chunk that stays where it was is good in both states.
LEMMA PointerKept ==
  ASSUME NEW s, NEW t, Books(s, {}), Books(t, {}), NEW H, Stay(s, t, H),
         NEW p \in DOMAIN s.handles, s.handles[p] \in H
  PROVE  /\ p \in DOMAIN t.handles
         /\ t.handles[p] = s.handles[p]
         /\ t.chunks[t.handles[p]].size = s.chunks[s.handles[p]].size
  <1> DEFINE h == s.handles[p]
  <1>1. s.chunks[h].ptr = p
        BY DEF Books, Found
  <1>2. h \in Live(t) /\ t.chunks[h].ptr = p /\ t.chunks[h].size = s.chunks[h].size
        BY <1>1 DEF Stay
  <1>3. p \in DOMAIN t.handles /\ t.handles[p] = h
        BY <1>2, LiveFound DEF Books
  <1> QED BY <1>2, <1>3

\* A handle stands for one address.
LEMMA OneAddress ==
  ASSUME NEW s, Books(s, {}), NEW p \in DOMAIN s.handles, NEW q \in DOMAIN s.handles,
         s.handles[p] = s.handles[q]
  PROVE  p = q
  BY DEF Books, Found

\* The owners keep what they have.
LEMMA OwnersKept ==
  ASSUME NEW s, NEW t, Books(s, {}), Books(t, {}), NEW hd, NEW rq, OwnedBy(s, hd, rq),
         Used(t) = Used(s), Stay(s, t, Used(s))
  PROVE  OwnedBy(t, hd, rq)
  <1> DEFINE Holders == {c \in Clients : hd[c] # nullptr}
  <1>1. \A c \in Holders : /\ hd[c] \in DOMAIN s.handles /\ s.handles[hd[c]] \in Used(s)
                           /\ s.chunks[s.handles[hd[c]]].size >= rq[c]
                           /\ \A d \in Holders \ {c} : hd[c] # hd[d]
        BY DEF OwnedBy
  <1>2. Used(s) = {s.handles[hd[c]] : c \in Holders}
        BY DEF OwnedBy
  <1>3. \A c \in Holders : /\ hd[c] \in DOMAIN t.handles
                           /\ t.handles[hd[c]] = s.handles[hd[c]]
                           /\ t.chunks[t.handles[hd[c]]].size = s.chunks[s.handles[hd[c]]].size
        BY <1>1, PointerKept
  <1> HIDE DEF Holders
  <1>4. Used(t) = {t.handles[hd[c]] : c \in Holders}
        BY <1>2, <1>3
  <1>5. \A c \in Holders : /\ hd[c] \in DOMAIN t.handles
                           /\ t.chunks[t.handles[hd[c]]].size >= rq[c]
                           /\ \A d \in Holders \ {c} : hd[c] # hd[d]
        BY <1>1, <1>3
  <1> QED BY <1>4, <1>5 DEF OwnedBy, Holders

\* What a client asks for does not matter before it has got it.
LEMMA OwnersAsk ==
  ASSUME NEW s, NEW hd, NEW rq, OwnedBy(s, hd, rq), NEW rr,
         \A c \in Clients : hd[c] # nullptr => rr[c] = rq[c]
  PROVE  OwnedBy(s, hd, rr)
  BY DEF OwnedBy

\* One more owner: the chunk h goes to the client c.
LEMMA OwnerAdded ==
  ASSUME NEW s, NEW t, Books(s, {}), Books(t, {}), NEW rq,
         NEW hd \in [Clients -> Nat], OwnedBy(s, hd, rq),
         NEW c \in Clients, hd[c] = nullptr, NEW h, h \notin Used(s),
         Used(t) = Used(s) \cup {h}, Stay(s, t, Used(s)),
         NEW p, p = t.chunks[h].ptr, t.chunks[h].size >= rq[c]
  PROVE  p # nullptr /\ OwnedBy(t, [hd EXCEPT ![c] = p], rq)
  <1> DEFINE Holders == {d \in Clients : hd[d] # nullptr}
             hn == [hd EXCEPT ![c] = p]
             New == {d \in Clients : hn[d] # nullptr}
  <1>1. \A d \in Holders : /\ hd[d] \in DOMAIN s.handles /\ s.handles[hd[d]] \in Used(s)
                           /\ s.chunks[s.handles[hd[d]]].size >= rq[d]
                           /\ \A e \in Holders \ {d} : hd[d] # hd[e]
        BY DEF OwnedBy
  <1>2. Used(s) = {s.handles[hd[d]] : d \in Holders}
        BY DEF OwnedBy
  <1>3. \A d \in Holders : /\ hd[d] \in DOMAIN t.handles
                           /\ t.handles[hd[d]] = s.handles[hd[d]]
                           /\ t.chunks[t.handles[hd[d]]].size = s.chunks[s.handles[hd[d]]].size
        BY <1>1, PointerKept
  <1>4. h \in Live(t)
        BY DEF Used
  <1>5. p \in DOMAIN t.handles /\ t.handles[p] = h
        BY <1>4, LiveFound DEF Books
  <1>6. p # nullptr
    <2>1. p \in Nat /\ p >= 256
          BY <1>4 DEF Books, Placed, Even, Whole, kMinAllocationSize
    <2> QED BY <2>1 DEF nullptr
  <1>7. /\ hn[c] = p /\ c \in New /\ c \notin Holders
        /\ \A d \in Holders : hn[d] = hd[d]
        /\ New = Holders \cup {c}
        BY <1>6
  <1> HIDE DEF Holders, New, hn
  <1>8. \A d \in Holders : hd[d] # p
        BY <1>1, <1>3, <1>5
  <1>9. \A d \in New : /\ hn[d] \in DOMAIN t.handles
                       /\ t.chunks[t.handles[hn[d]]].size >= rq[d]
        BY <1>1, <1>3, <1>5, <1>7
  <1>10. \A d \in New : \A e \in New \ {d} : hn[d] # hn[e]
         BY <1>1, <1>7, <1>8
  <1>11. Used(t) = {t.handles[hn[d]] : d \in New}
    <2>1. \A d \in Holders : t.handles[hn[d]] = s.handles[hd[d]]
          BY <1>3, <1>7
    <2>2. {t.handles[hn[d]] : d \in New} = {t.handles[hn[d]] : d \in Holders} \cup {h}
          BY <1>5, <1>7
    <2>3. {t.handles[hn[d]] : d \in Holders} = {s.handles[hd[d]] : d \in Holders}
          BY <2>1
    <2> QED BY <2>2, <2>3, <1>2
  <1>12. OwnedBy(t, hn, rq)
         BY <1>9, <1>10, <1>11 DEF OwnedBy, New
  <1> QED BY <1>6, <1>12 DEF hn

\* One owner less: the client c gives its chunk back.
LEMMA OwnerGone ==
  ASSUME NEW s, NEW t, Books(s, {}), Books(t, {}), NEW rq,
         NEW hd \in [Clients -> Nat], OwnedBy(s, hd, rq),
         NEW c \in Clients, hd[c] # nullptr, NEW h, h = s.handles[hd[c]],
         Used(t) = Used(s) \ {h}, Stay(s, t, Used(t))
  PROVE  OwnedBy(t, [hd EXCEPT ![c] = nullptr], rq)
  <1> DEFINE Holders == {d \in Clients : hd[d] # nullptr}
             hn == [hd EXCEPT ![c] = nullptr]
             New == {d \in Clients : hn[d] # nullptr}
  <1>1. \A d \in Holders : /\ hd[d] \in DOMAIN s.handles /\ s.handles[hd[d]] \in Used(s)
                           /\ s.chunks[s.handles[hd[d]]].size >= rq[d]
                           /\ \A e \in Holders \ {d} : hd[d] # hd[e]
        BY DEF OwnedBy
  <1>2. Used(s) = {s.handles[hd[d]] : d \in Holders}
        BY DEF OwnedBy
  <1>3. /\ c \in Holders /\ New = Holders \ {c}
        /\ \A d \in New : hn[d] = hd[d]
        BY DEF nullptr
  <1> HIDE DEF Holders, New, hn
  <1>4. \A d \in New : s.handles[hd[d]] # h
        BY <1>1, <1>3, OneAddress
  <1>5. \A d \in New : s.handles[hd[d]] \in Used(t)
        BY <1>1, <1>3, <1>4
  <1>6. \A d \in New : /\ hd[d] \in DOMAIN t.handles
                       /\ t.handles[hd[d]] = s.handles[hd[d]]
                       /\ t.chunks[t.handles[hd[d]]].size = s.chunks[s.handles[hd[d]]].size
        BY <1>1, <1>3, <1>5, PointerKept
  <1>7. \A d \in New : /\ hn[d] \in DOMAIN t.handles
                       /\ t.chunks[t.handles[hn[d]]].size >= rq[d]
                       /\ \A e \in New \ {d} : hn[d] # hn[e]
        BY <1>1, <1>3, <1>6
  <1>8. Used(t) = {t.handles[hn[d]] : d \in New}
    <2>1. \A d \in New : t.handles[hn[d]] = s.handles[hd[d]]
          BY <1>3, <1>6
    <2>2. Used(s) \ {h} = {s.handles[hd[d]] : d \in New}
          BY <1>2, <1>3, <1>4
    <2> QED BY <2>1, <2>2
  <1>9. OwnedBy(t, hn, rq)
        BY <1>7, <1>8 DEF OwnedBy, New
  <1> QED BY <1>9 DEF hn

\* The allocator begins with an empty book.
LEMMA BFCInit ==
  Init => BFCInv
  <1> SUFFICES ASSUME Init PROVE BFCInv
      OBVIOUS
  <1> DEFINE first == IF options.allow_growth
                        THEN Smaller(options.total_memory, kInitialRegion)
                        ELSE options.total_memory
  <1>1. options \in Options /\ options.total_memory \in Nat \ {0}
        BY BFCAssumption DEF Init
  <1>2. first \in Nat \ {0}
        BY <1>1 DEF Smaller, kInitialRegion
  <1>3. bfc.curr_region_allocation_bytes = RoundedBytes(first)
        BY DEF Init
  <1> HIDE DEF first
  <1>4. RegionSized(bfc)
        BY <1>2, <1>3, Rounded DEF RegionSized
  <1>5. /\ bfc.chunks = <<>> /\ bfc.free_chunks_list = 0 /\ bfc.deleted = <<>>
        /\ bfc.bins = [b \in Bins |-> {}] /\ bfc.regions = {} /\ bfc.handles = <<>>
        /\ bfc.total_region_allocated_bytes = 0 /\ bfc.started_backpedal = FALSE
        /\ bfc.bytes_in_use = 0 /\ bfc.device_used = 0
        BY DEF Init, kInvalidChunkHandle
  <1>6. DOMAIN bfc.handles = {} /\ DOMAIN bfc.chunks = {} /\ DOMAIN bfc.deleted = {}
        BY <1>5
  <1>7. Live(bfc) = {} /\ Used(bfc) = {} /\ Units(bfc, {}) = {} /\ Deleted(bfc) = {}
        BY <1>6 DEF Live, Used, Units, Deleted
  <1>8. bfc \in BFCType
    <2>1. bfc.handles \in HandleMaps
      <3>1. bfc.handles \in [{} -> Nat]
            BY <1>5, <1>6
      <3> QED BY <3>1 DEF HandleMaps
    <2>2. bfc.chunks \in Seq(ChunkType) /\ bfc.deleted \in Seq(Nat)
          BY <1>5
    <2>3. bfc.curr_region_allocation_bytes \in Nat
          BY <1>4 DEF RegionSized, Whole
    <2>4. bfc = [chunks |-> <<>>,
                 free_chunks_list |-> bfc.free_chunks_list,
                 deleted |-> <<>>,
                 bins |-> bfc.bins,
                 regions |-> bfc.regions,
                 handles |-> bfc.handles,
                 curr_region_allocation_bytes |-> bfc.curr_region_allocation_bytes,
                 total_region_allocated_bytes |-> bfc.total_region_allocated_bytes,
                 started_backpedal |-> bfc.started_backpedal,
                 bytes_in_use |-> bfc.bytes_in_use,
                 device_used |-> bfc.device_used]
          BY DEF Init
    <2>5. /\ bfc.free_chunks_list \in Nat /\ bfc.bins \in [Bins -> SUBSET Nat]
          /\ bfc.regions \in SUBSET RegionType
          /\ bfc.total_region_allocated_bytes \in Nat
          /\ bfc.started_backpedal \in BOOLEAN /\ bfc.bytes_in_use \in Nat
          /\ bfc.device_used \in Nat
      <3>1. [b \in Bins |-> {}] \in [Bins -> SUBSET Nat]
            OBVIOUS
      <3>2. 0 \in Nat /\ FALSE \in BOOLEAN /\ {} \in SUBSET RegionType
            OBVIOUS
      <3> QED BY <3>1, <3>2, <1>5
    <2> QED BY <2>1, <2>2, <2>3, <2>4, <2>5, <1>5 DEF BFCType
  <1>9. Found(bfc) /\ Linked(bfc)
        BY <1>5, <1>6, <1>7 DEF Found, Linked
  <1>10. Placed(bfc)
         BY <1>5, <1>7 DEF Placed, Whole, kMinAllocationSize
  <1>11. Binned(bfc, {})
         BY <1>5, <1>6, <1>7 DEF Binned
  <1>12. Listed(bfc, Deleted(bfc))
         BY <1>5, <1>6, <1>7 DEF Listed, kInvalidChunkHandle
  <1>13. Counted(bfc)
    <2>1. IsFiniteSet({}) /\ Cardinality({}) = 0
          BY FS_EmptySet
    <2>2. kMinAllocationSize * 0 = 0
          BY DEF kMinAllocationSize
    <2> QED BY <2>1, <2>2, <1>5, <1>7 DEF Counted
  <1>14. Books(bfc, {})
         BY <1>8, <1>9, <1>10, <1>11, <1>12, <1>13 DEF Books
  <1>15. ClientsTyped
         BY <1>1 DEF Init, ClientsTyped, LoopType, NoLoop, Stages, nullptr
  <1>16. LoopsSound /\ HoldingKnown
         BY DEF Init, LoopsSound, HoldingKnown, NoLoop
  <1>17. OwnedBy(bfc, held, request)
         BY <1>7 DEF Init, OwnedBy
  <1> QED BY <1>4, <1>14, <1>15, <1>16, <1>17 DEF BFCInv

\* The fields that the books do not speak of.
LEMMA BooksAside ==
  ASSUME NEW s, Books(s, {}), NEW t \in BFCType,
         t.chunks = s.chunks, t.free_chunks_list = s.free_chunks_list,
         t.deleted = s.deleted, t.bins = s.bins, t.regions = s.regions,
         t.handles = s.handles, t.bytes_in_use = s.bytes_in_use,
         t.total_region_allocated_bytes = s.total_region_allocated_bytes,
         t.device_used = s.device_used
  PROVE  Books(t, {}) /\ Used(t) = Used(s) /\ Stay(s, t, Live(s))
  <1>1. Live(t) = Live(s) /\ \A h : InUse(t, h) = InUse(s, h)
        BY DEF Live, InUse
  <1>2. Used(t) = Used(s) /\ \A H : Units(t, H) = Units(s, H)
        BY <1>1 DEF Used, Units
  <1>3. Found(t)
        BY DEF Books, Found
  <1>4. Placed(t)
        BY <1>1 DEF Books, Placed, DeviceBase
  <1>5. Linked(t)
        BY <1>1 DEF Books, Linked, NextRight, PrevRight
  <1>6. Binned(t, {})
        BY <1>1 DEF Books, Binned
  <1>7. Listed(t, Deleted(t))
    <2>1. Deleted(t) = Deleted(s)
          BY <1>1 DEF Deleted
    <2> QED BY <2>1 DEF Books, Listed
  <1>8. Counted(t)
        BY <1>1, <1>2 DEF Books, Counted
  <1>9. Stay(s, t, Live(s))
        BY <1>1 DEF Stay
  <1> QED BY <1>2, <1>3, <1>4, <1>5, <1>6, <1>7, <1>8, <1>9 DEF Books

\* The client c is inside AllocateRawInternal, which has led from bfc to s.
Inside(c, s) ==
    /\ pc[c] \in Attempting /\ request[c] # 0
    /\ \A d \in Clients \ {c} : loop[d].stage = "none"
    /\ Books(s, {}) /\ RegionSized(s)
    /\ Used(s) = Used(bfc) /\ Stay(bfc, s, Used(bfc))

\* The attempt ends.
LEMMA Answered ==
  ASSUME ClientsTyped, HoldingKnown, NEW c \in Clients, pc[c] \in Attempting,
         \A d \in Clients \ {c} : loop[d].stage = "none",
         NEW ptr \in Nat, Answer(c, ptr), UNCHANGED options
  PROVE  /\ ClientsTyped' /\ HoldingKnown' /\ LoopsSound'
         /\ held[c] = nullptr
         /\ held' = [held EXCEPT ![c] = ptr]
         /\ \A d \in Clients : held'[d] # nullptr => request'[d] = request[d]
  <1>1. AfterFailure(c) \in Stages \ {"holds"}
        BY DEF AfterFailure, Attempting, Stages
  <1>2. held[c] = nullptr
        BY DEF HoldingKnown, Attempting
  <1>3. /\ held' = [held EXCEPT ![c] = ptr]
        /\ pc' = [pc EXCEPT ![c] = IF ptr # nullptr THEN "holds" ELSE AfterFailure(c)]
        /\ request' = IF pc'[c] = "idle" THEN [request EXCEPT ![c] = 0] ELSE request
        /\ loop' = [loop EXCEPT ![c] = NoLoop]
        BY DEF Answer
  <1>4. pc' \in [Clients -> Stages] /\ held' \in [Clients -> Nat]
        BY <1>1, <1>3 DEF ClientsTyped, Stages
  <1>5. request' \in [Clients -> Nat]
        BY <1>3 DEF ClientsTyped
  <1>6. loop' \in [Clients -> LoopType] /\ \A d \in Clients : loop'[d].stage = "none"
    <2>1. NoLoop \in LoopType /\ NoLoop.stage = "none"
          BY DEF NoLoop, LoopType
    <2> QED BY <2>1, <1>3 DEF ClientsTyped
  <1>7. ClientsTyped'
        BY <1>4, <1>5, <1>6 DEF ClientsTyped
  <1>8. LoopsSound'
        BY <1>6 DEF LoopsSound
  <1>9. HoldingKnown'
        BY <1>1, <1>3 DEF ClientsTyped, HoldingKnown
  <1>10. \A d \in Clients : held'[d] # nullptr => request'[d] = request[d]
    <2>1. CASE ptr # nullptr
      <3>1. pc'[c] = "holds"
            BY <2>1, <1>3 DEF ClientsTyped
      <3> QED BY <3>1, <1>3
    <2>2. CASE ptr = nullptr
      <3>1. held'[c] = nullptr
            BY <2>2, <1>3 DEF ClientsTyped
      <3> QED BY <3>1, <1>3 DEF ClientsTyped
    <2> QED BY <2>1, <2>2
  <1> QED BY <1>2, <1>3, <1>7, <1>8, <1>9, <1>10

\* An attempt that finds nothing changes no owner.
LEMMA FailedStep ==
  ASSUME BFCInv, NEW c \in Clients, NEW s, pc[c] \in Attempting,
         \A d \in Clients \ {c} : loop[d].stage = "none",
         Books(s, {}), RegionSized(s), Used(s) = Used(bfc), Stay(bfc, s, Used(bfc)),
         Answer(c, nullptr), bfc' = s, UNCHANGED options
  PROVE  BFCInv'
  <1>1. nullptr \in Nat
        BY DEF nullptr
  <1>2. /\ ClientsTyped' /\ HoldingKnown' /\ LoopsSound'
        /\ held[c] = nullptr
        /\ held' = [held EXCEPT ![c] = nullptr]
        /\ \A d \in Clients : held'[d] # nullptr => request'[d] = request[d]
        BY <1>1, Answered DEF BFCInv
  <1>3. held' = held
        BY <1>2 DEF BFCInv, ClientsTyped
  <1>4. OwnedBy(s, held, request)
        BY OwnersKept DEF BFCInv
  <1>5. OwnedBy(s, held', request')
        BY <1>2, <1>3, <1>4, OwnersAsk
  <1>6. OwnedBy(bfc, held, request)' /\ Books(bfc, {})' /\ RegionSized(bfc)'
        BY <1>5 DEF OwnedBy, Used, Live, InUse, Books, RegionSized
  <1> QED BY <1>2, <1>6 DEF BFCInv

\* The invariant, from what it says of the next states of its variables.
LEMMA InvPrimed ==
  ASSUME NEW s, bfc' = s, ClientsTyped', HoldingKnown', LoopsSound',
         Books(s, {}), RegionSized(s), OwnedBy(s, held', request')
  PROVE  BFCInv'
  <1>1. OwnedBy(bfc, held, request)' /\ Books(bfc, {})' /\ RegionSized(bfc)'
        BY DEF OwnedBy, Used, Live, InUse, Books, RegionSized
  <1> QED BY <1>1 DEF BFCInv

\* The last search of an attempt.
LEMMA FoundStep ==
  ASSUME BFCInv, NEW c \in Clients, NEW s, Inside(c, s),
         FindChunkPtr(c, s), UNCHANGED options
  PROVE  BFCInv'
  <1> DEFINE n == RoundedBytes(request[c])
             fit == Candidates(s, n)
  <1>1. request[c] \in Nat /\ request[c] # 0
        BY DEF BFCInv, ClientsTyped, Inside
  <1>2. Whole(n) /\ n >= request[c] /\ n >= kMinAllocationSize
        BY <1>1, Rounded
  <1>3. CASE fit = {} /\ Answer(c, nullptr) /\ bfc' = s
        BY <1>3, FailedStep DEF Inside
  <1>4. ASSUME NEW h \in fit, Answer(c, s.chunks[h].ptr), bfc' = TakeChunk(s, h, n)
        PROVE  BFCInv'
    <2> DEFINE t == TakeChunk(s, h, n)
               p == s.chunks[h].ptr
    <2>1. /\ Books(t, {})
          /\ h \in Live(s) /\ h \notin Used(s)
          /\ Used(t) = Used(s) \cup {h}
          /\ Stay(s, t, Used(s))
          /\ t.chunks[h].ptr = p
          /\ t.chunks[h].size >= n
          /\ Fixed(s, t)
      <3>1. Books(s, {}) /\ t = TakeChunk(s, h, n)
            BY DEF Inside
      <3> HIDE DEF t, n
      <3> QED BY <3>1, <1>2, TakeChunkBooks
    <2>2. bfc' = t
          BY <1>4
    <2> HIDE DEF t, n
    <2>3. p \in Nat
          BY <2>1 DEF Inside, Books, Placed, Even, Whole
    <2>4. /\ ClientsTyped' /\ HoldingKnown' /\ LoopsSound'
          /\ held[c] = nullptr
          /\ held' = [held EXCEPT ![c] = p]
          /\ \A d \in Clients : held'[d] # nullptr => request'[d] = request[d]
      <3> HIDE DEF p
      <3> QED BY <1>4, <2>3, Answered DEF BFCInv, Inside, p
    <2>5. OwnedBy(s, held, request)
          BY OwnersKept DEF BFCInv, Inside
    <2>6. t.chunks[h].size >= request[c]
      <3>1. t.chunks[h].size \in Nat
        <4>1. h \in Live(t)
              BY <2>1 DEF Used
        <4> QED BY <4>1, <2>1 DEF Books, Placed, Even, Whole
      <3> QED BY <3>1, <2>1, <1>1, <1>2 DEF Whole
    <2>7. OwnedBy(t, [held EXCEPT ![c] = p], request)
      <3>1. held \in [Clients -> Nat] /\ Books(s, {})
            BY DEF BFCInv, ClientsTyped, Inside
      <3> HIDE DEF p
      <3> QED BY <3>1, <2>1, <2>4, <2>5, <2>6, OwnerAdded
    <2>8. OwnedBy(t, held', request')
          BY <2>4, <2>7, OwnersAsk
    <2>9. RegionSized(t)
          BY <2>1 DEF Fixed, Inside, RegionSized
    <2> QED BY <2>1, <2>2, <2>4, <2>8, <2>9, InvPrimed
  <1> QED BY <1>3, <1>4 DEF FindChunkPtr

\* Extend goes on in a loop.
LEMMA LoopStep ==
  ASSUME BFCInv, NEW c \in Clients, NEW s, Inside(c, s),
         RoundedBytes(request[c]) <= Available(bfc),
         s.total_region_allocated_bytes = bfc.total_region_allocated_bytes,
         NEW stage \in {"double", "backpedal"}, NEW bytes \in Nat, NEW increased \in BOOLEAN,
         stage = "backpedal" => Whole(bytes) /\ bytes >= kMinAllocationSize,
         Loop(c, s, stage, bytes, increased), UNCHANGED options
  PROVE  BFCInv'
  <1> DEFINE l == [stage |-> stage, bytes |-> bytes, increased |-> increased]
  <1>1. /\ bfc' = s /\ loop' = [loop EXCEPT ![c] = l]
        /\ UNCHANGED <<pc, request, held, expired>>
        BY DEF Loop
  <1>2. l \in LoopType /\ l.stage = stage /\ l.bytes = bytes
        BY DEF LoopType
  <1> HIDE DEF l
  <1>3. ClientsTyped' /\ HoldingKnown'
        BY <1>1, <1>2 DEF BFCInv, ClientsTyped, HoldingKnown
  <1>4. loop'[c] = l /\ \A d \in Clients \ {c} : loop'[d].stage = "none"
        BY <1>1 DEF BFCInv, ClientsTyped, Inside
  <1>5. InLoop(c)'
    <2>1. Available(bfc)' = Available(bfc)
          BY <1>1 DEF Available
    <2>2. RoundedBytes(request[c])' = RoundedBytes(request[c])
          BY <1>1
    <2> QED BY <2>1, <2>2, <1>1, <1>2, <1>4 DEF InLoop, Inside
  <1>6. LoopsSound'
        BY <1>4, <1>5 DEF LoopsSound
  <1>7. OwnedBy(s, held, request)
        BY OwnersKept DEF BFCInv, Inside
  <1>8. OwnedBy(s, held', request')
        BY <1>1, <1>7
  <1> QED BY <1>1, <1>3, <1>6, <1>8, InvPrimed DEF Inside

\* What the limit leaves is a number.
LEMMA AvailableInt ==
  ASSUME BFCInv
  PROVE  Available(bfc) \in Int
  <1>1. options.total_memory \in Nat
        BY BFCAssumption DEF BFCInv, ClientsTyped
  <1> QED BY <1>1 DEF BFCInv, Books, BFCType, Available, kMinAllocationSize

\* A region is added.
LEMMA RegionAdded ==
  ASSUME BFCInv, NEW c \in Clients, NEW s, Inside(c, s),
         NEW bytes, Whole(bytes), bytes >= kMinAllocationSize,
         NEW granted, Whole(granted), bytes <= granted,
         NEW increased \in BOOLEAN
  PROVE  Inside(c, AddRegion(s, bytes, granted, increased))
  <1> DEFINE t == AddRegion(s, bytes, granted, increased)
  <1>1. /\ Books(t, {}) /\ Used(t) = Used(s) /\ Stay(s, t, Live(s))
        /\ t.curr_region_allocation_bytes =
             IF increased THEN s.curr_region_allocation_bytes
                          ELSE s.curr_region_allocation_bytes * 2
    <2>1. t = AddRegion(s, bytes, granted, increased) /\ Books(s, {})
          BY DEF Inside
    <2> HIDE DEF t
    <2> QED BY <2>1, AddRegionBooks
  <1> HIDE DEF t
  <1>2. RegionSized(t)
        BY <1>1 DEF Inside, RegionSized, Whole, kMinAllocationSize
  <1>3. Stay(bfc, t, Used(bfc))
    <2>1. Used(bfc) \subseteq Live(s)
          BY DEF Inside, Used
    <2> QED BY <2>1, <1>1 DEF Inside, Stay
  <1>4. Inside(c, t)
        BY <1>1, <1>2, <1>3 DEF Inside
  <1> QED BY <1>4 DEF t

\* Extend asks the device for a region.
LEMMA AskStep ==
  ASSUME BFCInv, NEW c \in Clients, NEW s, Inside(c, s),
         RoundedBytes(request[c]) <= Available(bfc),
         s.total_region_allocated_bytes = bfc.total_region_allocated_bytes,
         NEW increased \in BOOLEAN,
         Ask(c, s, increased), UNCHANGED options
  PROVE  BFCInv'
  <1> DEFINE bytes == Smaller(s.curr_region_allocation_bytes, Available(s))
             t == [s EXCEPT !.started_backpedal = TRUE]
  <1>1. s \in BFCType /\ options \in Options /\ request[c] \in Nat /\ request[c] # 0
        BY DEF BFCInv, ClientsTyped, Inside, Books
  <1>2. Whole(bytes) /\ bytes >= kMinAllocationSize
    <2>1. Available(s) = Available(bfc)
          BY DEF Available
    <2>2. /\ RoundedBytes(request[c]) \in Nat
          /\ RoundedBytes(request[c]) >= kMinAllocationSize
          BY <1>1, Rounded DEF Whole
    <2>3. Available(bfc) \in Int
          BY AvailableInt
    <2>4. Available(s) >= kMinAllocationSize
          BY <2>1, <2>2, <2>3 DEF kMinAllocationSize
    <2>5. Whole(Available(s))
          BY <2>4, <1>1, AvailableWhole
    <2> QED BY <2>4, <2>5 DEF Smaller, Inside, RegionSized
  <1>3. CASE DeviceGives(s, bytes)
    <2>1. FindChunkPtr(c, AddRegion(s, bytes, bytes, increased))
          BY <1>3 DEF Ask
    <2> HIDE DEF bytes
    <2>2. bytes <= bytes
          BY <1>2 DEF Whole
    <2>3. Inside(c, AddRegion(s, bytes, bytes, increased))
          BY <2>2, <1>2, RegionAdded
    <2> QED BY <2>1, <2>3, FoundStep
  <1>4. CASE ~DeviceGives(s, bytes) /\ s.started_backpedal
    <2>1. Answer(c, nullptr) /\ bfc' = s
          BY <1>4 DEF Ask
    <2> QED BY <2>1, FailedStep DEF Inside
  <1>5. CASE ~DeviceGives(s, bytes) /\ ~s.started_backpedal
    <2>1. Loop(c, t, "backpedal", Backpedal(bytes), increased)
          BY <1>5 DEF Ask
    <2> HIDE DEF bytes
    <2>2. Whole(Backpedal(bytes)) /\ Backpedal(bytes) >= kMinAllocationSize
          BY <1>2, BackpedalWhole
    <2>3. /\ t \in BFCType /\ t.chunks = s.chunks
          /\ t.free_chunks_list = s.free_chunks_list
          /\ t.deleted = s.deleted /\ t.bins = s.bins /\ t.regions = s.regions
          /\ t.handles = s.handles /\ t.bytes_in_use = s.bytes_in_use
          /\ t.total_region_allocated_bytes = s.total_region_allocated_bytes
          /\ t.device_used = s.device_used
          /\ t.curr_region_allocation_bytes = s.curr_region_allocation_bytes
          BY <1>1 DEF BFCType
    <2> HIDE DEF t
    <2>4. Books(t, {}) /\ Used(t) = Used(s) /\ Stay(s, t, Live(s))
          BY <2>3, BooksAside DEF Inside
    <2>5. Inside(c, t)
      <3>1. Used(bfc) \subseteq Live(s)
            BY DEF Inside, Used
      <3>2. Stay(bfc, t, Used(bfc))
            BY <3>1, <2>4 DEF Inside, Stay
      <3>3. RegionSized(t)
            BY <2>3 DEF Inside, RegionSized
      <3> QED BY <3>2, <3>3, <2>4 DEF Inside
    <2>6. t.total_region_allocated_bytes = bfc.total_region_allocated_bytes
          BY <2>3
    <2> QED BY <2>1, <2>2, <2>5, <2>6, LoopStep DEF Whole
  <1> QED BY <1>3, <1>4, <1>5

\* Extend, from its beginning or from a round of its first loop.
LEMMA ExtendStep ==
  ASSUME BFCInv, NEW c \in Clients, NEW s, Inside(c, s),
         RoundedBytes(request[c]) <= Available(bfc),
         s.total_region_allocated_bytes = bfc.total_region_allocated_bytes,
         NEW increased \in BOOLEAN,
         Extend(c, s, increased), UNCHANGED options
  PROVE  BFCInv'
  <1>1. CASE RoundedBytes(request[c]) > s.curr_region_allocation_bytes
    <2>1. Loop(c, s, "double", 0, increased)
          BY <1>1 DEF Extend
    <2> QED BY <2>1, LoopStep
  <1>2. CASE ~(RoundedBytes(request[c]) > s.curr_region_allocation_bytes)
    <2>1. Ask(c, s, increased)
          BY <1>2 DEF Extend
    <2> QED BY <2>1, AskStep
  <1> QED BY <1>1, <1>2

\* Nothing has changed yet.
LEMMA InsideFirst ==
  ASSUME BFCInv, NEW c \in Clients, pc[c] \in Attempting, request[c] # 0,
         \A d \in Clients \ {c} : loop[d].stage = "none"
  PROVE  Inside(c, bfc)
  BY DEF BFCInv, Inside, Stay, Used

\* AllocateRawInternal keeps the invariant.
LEMMA AttemptStep ==
  ASSUME BFCInv, NEW c \in Clients, Attempt(c)
  PROVE  BFCInv'
  <1> DEFINE n == RoundedBytes(request[c])
  <1>1. /\ pc[c] \in Attempting /\ UNCHANGED options
        /\ \A d \in Clients : loop[d].stage = "none"
        BY DEF Attempt, Locked
  <1>2. CASE request[c] = 0
    <2>1. Answer(c, nullptr) /\ bfc' = bfc
          BY <1>2 DEF Attempt
    <2>2. Stay(bfc, bfc, Used(bfc)) /\ Books(bfc, {}) /\ RegionSized(bfc)
          BY DEF Stay, Used, BFCInv
    <2> QED BY <2>1, <2>2, <1>1, FailedStep
  <1>3. CASE request[c] # 0
    <2>1. Inside(c, bfc)
          BY <1>1, <1>3, InsideFirst
    <2>2. CASE Candidates(bfc, n) # {} \/ n > Available(bfc)
      <3>1. FindChunkPtr(c, bfc)
            BY <1>3, <2>2 DEF Attempt
      <3> QED BY <3>1, <2>1, <1>1, FoundStep
    <2>3. CASE ~(Candidates(bfc, n) # {} \/ n > Available(bfc))
      <3>1. Extend(c, bfc, FALSE)
            BY <1>3, <2>3 DEF Attempt
      <3>2. n <= Available(bfc)
        <4>1. n \in Nat
          <5>1. request[c] \in Nat
                BY DEF BFCInv, ClientsTyped
          <5> QED BY <5>1, Rounded DEF Whole
        <4>2. Available(bfc) \in Int
              BY AvailableInt
        <4> HIDE DEF n
        <4> QED BY <4>1, <4>2, <2>3
      <3> QED BY <3>1, <3>2, <2>1, <1>1, ExtendStep
    <2> QED BY <2>2, <2>3
  <1> QED BY <1>2, <1>3

\* A round of the first loop of Extend doubles the size of the next region.
LEMMA DoubledInside ==
  ASSUME BFCInv, NEW c \in Clients, loop[c].stage = "double",
         NEW t, t = [bfc EXCEPT !.curr_region_allocation_bytes = @ * 2]
  PROVE  /\ Inside(c, t)
         /\ t.chunks = bfc.chunks /\ t.handles = bfc.handles
         /\ t.total_region_allocated_bytes = bfc.total_region_allocated_bytes
  <1>2. InLoop(c) /\ \A d \in Clients \ {c} : loop[d].stage = "none"
        BY DEF BFCInv, LoopsSound
  <1>3. bfc \in BFCType /\ RegionSized(bfc)
        BY DEF BFCInv, Books
  <1>4. /\ t \in BFCType /\ t.chunks = bfc.chunks
        /\ t.free_chunks_list = bfc.free_chunks_list
        /\ t.deleted = bfc.deleted /\ t.bins = bfc.bins /\ t.regions = bfc.regions
        /\ t.handles = bfc.handles /\ t.bytes_in_use = bfc.bytes_in_use
        /\ t.total_region_allocated_bytes = bfc.total_region_allocated_bytes
        /\ t.device_used = bfc.device_used
        /\ t.curr_region_allocation_bytes = bfc.curr_region_allocation_bytes * 2
    <2> DEFINE k == bfc.curr_region_allocation_bytes * 2
    <2>1. k \in Nat
          BY <1>3 DEF RegionSized, Whole
    <2>2. t = [bfc EXCEPT !.curr_region_allocation_bytes = k]
          BY <1>3 DEF BFCType
    <2> HIDE DEF k
    <2>3. /\ t \in BFCType /\ t.chunks = bfc.chunks
          /\ t.free_chunks_list = bfc.free_chunks_list
          /\ t.deleted = bfc.deleted /\ t.bins = bfc.bins /\ t.regions = bfc.regions
          /\ t.handles = bfc.handles /\ t.bytes_in_use = bfc.bytes_in_use
          /\ t.total_region_allocated_bytes = bfc.total_region_allocated_bytes
          /\ t.device_used = bfc.device_used
          /\ t.curr_region_allocation_bytes = k
          BY <1>3, <2>1, <2>2 DEF BFCType
    <2> QED BY <2>3 DEF k
  <1>5. Books(t, {}) /\ Used(t) = Used(bfc) /\ Stay(bfc, t, Live(bfc))
        BY <1>4, BooksAside DEF BFCInv
  <1>6. RegionSized(t)
        BY <1>3, <1>4 DEF RegionSized, Whole, kMinAllocationSize
  <1>7. Inside(c, t)
    <2>1. Stay(bfc, t, Used(bfc))
          BY <1>5 DEF Stay, Used
    <2> QED BY <2>1, <1>2, <1>5, <1>6 DEF Inside, InLoop
  <1> QED BY <1>4, <1>7

\* So does a round of the first loop of Extend ...
LEMMA DoubleRegionStep ==
  ASSUME BFCInv, NEW c \in Clients, DoubleRegion(c)
  PROVE  BFCInv'
  <1> DEFINE t == [bfc EXCEPT !.curr_region_allocation_bytes = @ * 2]
  <1>1. /\ loop[c].stage = "double" /\ UNCHANGED options
        /\ Extend(c, t, TRUE)
        BY DEF DoubleRegion
  <1>2. RoundedBytes(request[c]) <= Available(bfc)
        BY <1>1 DEF BFCInv, LoopsSound, InLoop
  <1>3. t = [bfc EXCEPT !.curr_region_allocation_bytes = @ * 2]
        OBVIOUS
  <1> HIDE DEF t
  <1>4. /\ Inside(c, t)
        /\ t.total_region_allocated_bytes = bfc.total_region_allocated_bytes
        BY <1>1, <1>3, DoubledInside
  <1> QED BY <1>1, <1>2, <1>4, ExtendStep

\* ... and a round of the second.
LEMMA AskForLessStep ==
  ASSUME BFCInv, NEW c \in Clients, AskForLess(c)
  PROVE  BFCInv'
  <1> DEFINE bytes == loop[c].bytes
             increased == loop[c].increased
             less == Backpedal(bytes)
  <1>1. loop[c].stage = "backpedal" /\ UNCHANGED options
        BY DEF AskForLess
  <1>2. InLoop(c) /\ \A d \in Clients \ {c} : loop[d].stage = "none"
        BY <1>1 DEF BFCInv, LoopsSound
  <1>3. Inside(c, bfc)
        BY <1>2, InsideFirst DEF InLoop
  <1>4. Whole(bytes) /\ bytes >= kMinAllocationSize
        BY <1>1, <1>2 DEF InLoop
  <1>5. increased \in BOOLEAN
        BY DEF BFCInv, ClientsTyped, LoopType
  <1>6. Whole(less) /\ less >= kMinAllocationSize /\ less <= bytes
        BY <1>4, BackpedalWhole
  <1>7. CASE bytes <= RoundedBytes(request[c])
    <2>1. Answer(c, nullptr) /\ bfc' = bfc
          BY <1>7 DEF AskForLess
    <2> QED BY <2>1, <1>1, <1>3, FailedStep DEF Inside
  <1>8. CASE ~(bytes <= RoundedBytes(request[c])) /\ DeviceGives(bfc, bytes)
    <2>1. FindChunkPtr(c, AddRegion(bfc, less, bytes, increased))
          BY <1>8 DEF AskForLess
    <2> HIDE DEF bytes, increased, less
    <2>2. Inside(c, AddRegion(bfc, less, bytes, increased))
          BY <1>3, <1>4, <1>5, <1>6, RegionAdded
    <2> QED BY <2>1, <2>2, <1>1, FoundStep
  <1>9. CASE ~(bytes <= RoundedBytes(request[c])) /\ ~DeviceGives(bfc, bytes)
    <2>1. Loop(c, bfc, "backpedal", less, increased)
          BY <1>9 DEF AskForLess
    <2>2. RoundedBytes(request[c]) <= Available(bfc)
          BY <1>2 DEF InLoop
    <2>3. less \in Nat
          BY <1>6 DEF Whole
    <2> HIDE DEF bytes, increased, less
    <2> QED BY <2>1, <2>2, <2>3, <1>1, <1>3, <1>5, <1>6, LoopStep
  <1> QED BY <1>7, <1>8, <1>9

\* DeallocateRaw gives back the chunk of the client, and no other.
LEMMA DeallocateStep ==
  ASSUME BFCInv, NEW c \in Clients, DeallocateRaw(c)
  PROVE  BFCInv'
  <1> DEFINE h == bfc.handles[held[c]]
             t == FreeAndMaybeCoalesce(bfc, h)
  <1>1. /\ pc[c] = "holds" /\ \A d \in Clients : loop[d].stage = "none"
        /\ bfc' = t
        /\ pc' = [pc EXCEPT ![c] = "notify"]
        /\ held' = [held EXCEPT ![c] = nullptr]
        /\ request' = [request EXCEPT ![c] = 0]
        /\ UNCHANGED <<options, loop, expired>>
        BY DEF DeallocateRaw, Locked
  <1>2. Books(bfc, {}) /\ OwnedBy(bfc, held, request) /\ held \in [Clients -> Nat]
        BY DEF BFCInv, ClientsTyped
  <1>3. held[c] # nullptr
        BY <1>1 DEF BFCInv, HoldingKnown
  <1>4. h \in Used(bfc)
        BY <1>2, <1>3 DEF OwnedBy
  <1>5. /\ Books(t, {})
        /\ Used(t) = Used(bfc) \ {h}
        /\ Stay(bfc, t, Used(t))
        /\ Fixed(bfc, t)
    <2>1. t = FreeAndMaybeCoalesce(bfc, h)
          OBVIOUS
    <2> HIDE DEF t, h
    <2> QED BY <2>1, <1>2, <1>4, FreeAndMaybeCoalesceBooks
  <1> HIDE DEF t
  <1>6. OwnedBy(t, [held EXCEPT ![c] = nullptr], request)
        BY <1>2, <1>3, <1>5, OwnerGone
  <1>7. OwnedBy(t, held', request')
    <2>1. \A d \in Clients : held'[d] # nullptr => request'[d] = request[d]
          BY <1>1, <1>2 DEF BFCInv, ClientsTyped
    <2> QED BY <2>1, <1>1, <1>6, OwnersAsk
  <1>8. ClientsTyped' /\ HoldingKnown' /\ LoopsSound'
    <2>1. nullptr \in Nat /\ "notify" \in Stages /\ 0 \in Nat
          BY DEF nullptr, Stages
    <2>2. ClientsTyped'
          BY <2>1, <1>1 DEF BFCInv, ClientsTyped
    <2>3. HoldingKnown'
          BY <1>1 DEF BFCInv, ClientsTyped, HoldingKnown
    <2>4. LoopsSound'
          BY <1>1 DEF LoopsSound
    <2> QED BY <2>2, <2>3, <2>4
  <1>9. RegionSized(t)
        BY <1>5 DEF BFCInv, RegionSized, Fixed
  <1> QED BY <1>1, <1>5, <1>7, <1>8, <1>9, InvPrimed

\* The steps outside lock_ do not touch the books.
LEMMA OutsideStep ==
  ASSUME BFCInv, UNCHANGED <<options, bfc, loop, held>>,
         ClientsTyped', HoldingKnown',
         \A d \in Clients : held[d] # nullptr => request'[d] = request[d],
         \A d \in Clients : loop[d].stage # "none" =>
             pc'[d] = pc[d] /\ request'[d] = request[d]
  PROVE  BFCInv'
  <1>1. OwnedBy(bfc, held, request')
        BY OwnersAsk DEF BFCInv
  <1>2. OwnedBy(bfc, held', request')
        BY <1>1
  <1>3. LoopsSound'
    <2>1. Available(bfc)' = Available(bfc)
          BY DEF Available
    <2>2. ASSUME NEW d \in Clients, loop[d].stage # "none"
          PROVE  InLoop(d)'
      <3>1. InLoop(d) /\ pc'[d] = pc[d] /\ request'[d] = request[d]
            BY <2>2 DEF BFCInv, LoopsSound
      <3> QED BY <3>1, <2>1 DEF InLoop
    <2> QED BY <2>2 DEF BFCInv, LoopsSound
  <1>4. bfc' = bfc /\ Books(bfc, {}) /\ RegionSized(bfc)
        BY DEF BFCInv
  <1> QED BY <1>2, <1>3, <1>4, InvPrimed

\* A client begins to ask.
LEMMA AllocateRawStep ==
  ASSUME BFCInv, NEW c \in Clients, NEW bytes \in options.sizes,
         NEW no_retry \in options.clients[c], AllocateRaw(c, bytes, no_retry)
  PROVE  BFCInv'
  <1>1. /\ pc[c] = "idle"
        /\ pc' = [pc EXCEPT ![c] = IF no_retry THEN "once" ELSE "fast"]
        /\ request' = [request EXCEPT ![c] = bytes]
        /\ UNCHANGED <<options, bfc, loop, held, expired>>
        BY DEF AllocateRaw
  <1>2. bytes \in Nat
        BY BFCAssumption DEF BFCInv, ClientsTyped
  <1>3. held[c] = nullptr
        BY <1>1 DEF BFCInv, HoldingKnown
  <1>4. loop[c].stage = "none"
        BY <1>1 DEF BFCInv, LoopsSound, InLoop, Attempting
  <1>5. ClientsTyped'
    <2>1. (IF no_retry THEN "once" ELSE "fast") \in Stages
          BY DEF Stages, Attempting
    <2> QED BY <2>1, <1>1, <1>2 DEF BFCInv, ClientsTyped
  <1>6. HoldingKnown'
        BY <1>1, <1>3 DEF BFCInv, ClientsTyped, HoldingKnown
  <1> QED BY <1>1, <1>3, <1>4, <1>5, <1>6, OutsideStep DEF BFCInv, ClientsTyped

\* Waiting, being woken and the passing of time.
LEMMA WaitingStep ==
  ASSUME BFCInv, NEW c \in Clients,
         Wait(c) \/ Expire(c) \/ TimeOut(c) \/ NotifyDealloc(c)
  PROVE  BFCInv'
  <1>1. UNCHANGED <<options, bfc, loop, request, held>>
        BY DEF Wait, Expire, TimeOut, NotifyDealloc
  <1>2. /\ pc' \in [Clients -> Stages]
        /\ \A d \in Clients : \/ pc'[d] = pc[d]
                              \/ /\ pc[d] \in {"to_wait", "waiting", "notify"}
                                 /\ pc'[d] \in {"waiting", "retry", "idle"}
    <2>1. /\ "waiting" \in Stages /\ "retry" \in Stages /\ "idle" \in Stages
          /\ pc \in [Clients -> Stages]
          BY DEF Stages, Attempting, BFCInv, ClientsTyped
    <2>2. CASE Wait(c)
          BY <2>1, <2>2 DEF Wait
    <2>3. CASE Expire(c)
          BY <2>1, <2>3 DEF Expire
    <2>4. CASE TimeOut(c)
          BY <2>1, <2>4 DEF TimeOut
    <2>5. CASE NotifyDealloc(c)
          BY <2>1, <2>5 DEF NotifyDealloc
    <2> QED BY <2>2, <2>3, <2>4, <2>5
  <1>3. ClientsTyped'
        BY <1>1, <1>2 DEF BFCInv, ClientsTyped
  <1>4. HoldingKnown'
        BY <1>1, <1>2 DEF BFCInv, HoldingKnown
  <1>5. \A d \in Clients : loop[d].stage # "none" => pc'[d] = pc[d]
        BY <1>2 DEF BFCInv, LoopsSound, InLoop, Attempting
  <1> QED BY <1>1, <1>3, <1>4, <1>5, OutsideStep

\* A step that changes nothing.
LEMMA StutterStep ==
  ASSUME BFCInv, UNCHANGED vars
  PROVE  BFCInv'
  <1>1. UNCHANGED <<options, bfc, loop, pc, request, held>>
        BY DEF vars
  <1>2. ClientsTyped' /\ HoldingKnown'
        BY <1>1 DEF BFCInv, ClientsTyped, HoldingKnown
  <1> QED BY <1>1, <1>2, OutsideStep

\* The invariant is inductive.
LEMMA BFCInductive ==
  BFCInv /\ [Next]_vars => BFCInv'
  <1> SUFFICES ASSUME BFCInv, [Next]_vars PROVE BFCInv'
      OBVIOUS
  <1>1. ASSUME NEW c \in Clients, NEW bytes \in options.sizes,
               NEW no_retry \in options.clients[c], AllocateRaw(c, bytes, no_retry)
        PROVE  BFCInv'
        BY <1>1, AllocateRawStep
  <1>2. ASSUME NEW c \in Clients, Attempt(c) PROVE BFCInv'
        BY <1>2, AttemptStep
  <1>3. ASSUME NEW c \in Clients, DoubleRegion(c) PROVE BFCInv'
        BY <1>3, DoubleRegionStep
  <1>4. ASSUME NEW c \in Clients, AskForLess(c) PROVE BFCInv'
        BY <1>4, AskForLessStep
  <1>5. ASSUME NEW c \in Clients, Wait(c) \/ Expire(c) \/ TimeOut(c) \/ NotifyDealloc(c)
        PROVE  BFCInv'
        BY <1>5, WaitingStep
  <1>6. ASSUME NEW c \in Clients, DeallocateRaw(c) PROVE BFCInv'
        BY <1>6, DeallocateStep
  <1>7. CASE UNCHANGED vars
        BY <1>7, StutterStep
  <1> QED BY <1>1, <1>2, <1>3, <1>4, <1>5, <1>6, <1>7 DEF Next

\* The invariant says what MemorySound does.
LEMMA BFCInvSound ==
  BFCInv => MemorySound
  <1> SUFFICES ASSUME BFCInv PROVE MemorySound
      OBVIOUS
  <1>1. /\ ChunksTileRegions(bfc)
        /\ FreeChunksBinned(bfc)
        /\ DeletedChunksListed(bfc)
        /\ bfc.bytes_in_use = kMinAllocationSize * Cardinality(Units(bfc, Used(bfc)))
        BY BooksSound DEF BFCInv
  <1>2. OwnedBy(bfc, held, request)
        BY DEF BFCInv
  <1>3. BlocksOwned
        BY <1>1, <1>2 DEF BlocksOwned, OwnedBy
  <1> QED BY <1>1, <1>3 DEF MemorySound

\* Whatever the clients ask for and give back, in whatever order, and whatever the
\* device refuses, the chunks tile the regions, the free ones are in their bins and
\* merged, the list of records is that of the deleted ones, and each client owns
\* its own chunk (AllocateRawInternal, Extend, SplitChunk and FreeAndMaybeCoalesce
\* of bfc_allocator.cc).
THEOREM AllocatorSound == Spec => []MemorySound
  <1>1. Init => BFCInv
        BY BFCInit
  <1>2. BFCInv /\ [Next]_vars => BFCInv'
        BY BFCInductive
  <1>3. BFCInv => MemorySound
        BY BFCInvSound
  <1> QED BY <1>1, <1>2, <1>3, PTL DEF Spec

(***************************************************************************)
(* An attempt fails only when there is nothing left.                       *)
(***************************************************************************)

\* A larger chunk is in the same bin or in a later one.
LEMMA BinsOrdered ==
  ASSUME NEW n \in Nat, n >= kMinAllocationSize, NEW m \in Nat, n <= m
  PROVE  BinNumForSize(n) <= BinNumForSize(m)
  <1> DEFINE P(x, b) == /\ BinNumToSize(b) <= x
                        /\ b < kNumBins - 1 => x < BinNumToSize(b + 1)
             a == BinNumForSize(n)
             b == BinNumForSize(m)
  <1>1. m >= kMinAllocationSize
        BY DEF kMinAllocationSize
  <1>2. ASSUME NEW x \in Nat, x >= kMinAllocationSize
        PROVE  BinNumForSize(x) \in Bins /\ P(x, BinNumForSize(x))
    <2>1. \E i \in Bins : P(x, i)
          BY <1>2, BinFits
    <2> QED BY <2>1 DEF BinNumForSize
  <1>3. a \in Bins /\ b \in Bins /\ P(n, a) /\ P(m, b)
        BY <1>1, <1>2
  <1> HIDE DEF a, b
  <1>4. a \in 0 .. 20 /\ b \in 0 .. 20 /\ kNumBins - 1 = 20
        BY <1>3 DEF Bins, kNumBins
  <1>5. SUFFICES ASSUME b < a PROVE FALSE
        BY <1>4 DEF a, b
  <1>6. b + 1 \in 0 .. 20 /\ b + 1 <= a
        BY <1>4, <1>5
  <1>7. BinNumToSize(b + 1) <= BinNumToSize(a)
        BY <1>4, <1>6, BinSizes
  <1>8. BinNumToSize(b + 1) \in Nat /\ BinNumToSize(a) \in Nat
        BY <1>4, <1>6, BinSizes
  <1>9. m < BinNumToSize(b + 1) /\ BinNumToSize(a) <= n
        BY <1>3, <1>4, <1>5
  <1> QED BY <1>7, <1>8, <1>9

\* Every chunk of at least n bytes is in use.
Full(s, n) == \A h \in Live(s) : InUse(s, h) \/ s.chunks[h].size < n

\* The search meets every free chunk that is large enough.
LEMMA NoCandidates ==
  ASSUME NEW s, Books(s, {}), NEW n, Whole(n), n >= kMinAllocationSize,
         Candidates(s, n) = {}
  PROVE  Full(s, n)
  <1> SUFFICES ASSUME NEW h \in Live(s), ~InUse(s, h), ~(s.chunks[h].size < n)
               PROVE  FALSE
      BY DEF Full
  <1> DEFINE z == s.chunks[h].size
             b == BinNumForSize(z)
  <1>1. z \in Nat /\ n \in Nat /\ z >= kMinAllocationSize
        BY DEF Books, Placed, Even, Whole
  <1>2. n <= z
        BY <1>1
  <1>3. h \in DOMAIN s.chunks
        BY LiveFound DEF Books
  <1>4. b \in Bins
        BY <1>1, BinExists
  <1>5. s.chunks[h].bin_num = b /\ h \in s.bins[b]
        BY <1>3, <1>4 DEF Books, Binned
  <1>6. BinNumForSize(n) <= b /\ BinNumForSize(n) \in Bins
        BY <1>1, <1>2, BinsOrdered, BinExists
  <1> HIDE DEF b
  <1>7. b >= BinNumForSize(n)
        BY <1>4, <1>6 DEF Bins
  <1>8. h \in Candidates(s, n)
        BY <1>2, <1>1, <1>4, <1>5, <1>7 DEF Candidates
  <1> QED BY <1>8

\* While Extend is in a loop no chunk would have done.
LoopFull ==
    \A c \in Clients : loop[c].stage # "none" =>
        /\ Full(bfc, RoundedBytes(request[c]))
        /\ loop[c].stage = "backpedal" =>
              ~DeviceGives(bfc, BeforeBackpedal(loop[c].bytes))

\* A round of the second loop does not ask for less than it should.
LEMMA RoundBounded ==
  ASSUME NEW p \in Nat
  PROVE  Backpedal(p) \in Nat /\ p <= BeforeBackpedal(Backpedal(p))
  <1> DEFINE q == (p * 9) \div 10
             b == Backpedal(p)
  <1>1. q \in Nat /\ 9 * p <= 10 * q + 9
        OBVIOUS
  <1>2. b \in Nat /\ q <= b
    <2>1. b = 256 * ((q + 256 - 1) \div 256)
          BY DEF Backpedal, RoundedBytes, kMinAllocationSize
    <2> HIDE DEF q, b
    <2> QED BY <1>1, <2>1
  <1> HIDE DEF q, b
  <1>3. 9 * p <= 10 * b + 9
        BY <1>1, <1>2
  <1>4. p <= (10 * b + 9) \div 9
        BY <1>2, <1>3
  <1> QED BY <1>2, <1>4 DEF b, BeforeBackpedal

\* What could have been reduced to less could have been reduced to more.
LEMMA RoundsOrdered ==
  ASSUME NEW a \in Nat, NEW b \in Nat, a <= b
  PROVE  /\ BeforeBackpedal(a) \in Nat /\ a <= BeforeBackpedal(a)
         /\ BeforeBackpedal(a) <= BeforeBackpedal(b)
  <1>1. BeforeBackpedal(a) \in Nat /\ BeforeBackpedal(b) \in Nat
        BY DEF BeforeBackpedal
  <1>2. a <= BeforeBackpedal(a)
        BY DEF BeforeBackpedal
  <1>3. BeforeBackpedal(a) <= BeforeBackpedal(b)
        BY DEF BeforeBackpedal
  <1> QED BY <1>1, <1>2, <1>3

\* A device that refuses a size refuses a larger one.
LEMMA RefusesMore ==
  ASSUME BFCInv, NEW s, s \in BFCType, NEW a \in Nat, NEW b \in Nat, a <= b,
         ~DeviceGives(s, a)
  PROVE  ~DeviceGives(s, b)
  <1>1. options.device \in Nat /\ s.device_used \in Nat
        BY BFCAssumption DEF BFCInv, ClientsTyped, BFCType
  <1> QED BY <1>1 DEF DeviceGives

\* A step of c inside AllocateRawInternal is right: the other clients stay, and
\* if it fails then for want of memory.
Ends(c) ==
    /\ LoopFull'
    /\ \A d \in Clients \ {c} : pc'[d] = pc[d]
    /\ pc'[c] \notin {pc[c], "holds"} /\ request[c] # 0 =>
         /\ Full(bfc', RoundedBytes(request[c]))
         /\ Refused(c, RoundedBytes(request[c]))

\* An answer without memory has to be justified.
LEMMA AnswerEnds ==
  ASSUME BFCInv, NEW c \in Clients, NEW ptr, Answer(c, ptr),
         \A d \in Clients \ {c} : loop[d].stage = "none",
         \/ ptr # nullptr
         \/ request[c] = 0
         \/ /\ Full(bfc', RoundedBytes(request[c]))
            /\ Refused(c, RoundedBytes(request[c]))
  PROVE  Ends(c)
  <1>1. /\ pc' = [pc EXCEPT ![c] = IF ptr # nullptr THEN "holds" ELSE AfterFailure(c)]
        /\ loop' = [loop EXCEPT ![c] = NoLoop]
        BY DEF Answer
  <1>2. \A d \in Clients : loop'[d].stage = "none"
        BY <1>1 DEF BFCInv, ClientsTyped, NoLoop
  <1>3. LoopFull'
        BY <1>2 DEF LoopFull
  <1>4. /\ \A d \in Clients \ {c} : pc'[d] = pc[d]
        /\ ptr # nullptr => pc'[c] = "holds"
        BY <1>1 DEF BFCInv, ClientsTyped
  <1> QED BY <1>3, <1>4 DEF Ends

\* The search finds every chunk that is large enough.
LEMMA FindEnds ==
  ASSUME BFCInv, NEW c \in Clients, NEW s, Inside(c, s), FindChunkPtr(c, s),
         NEW n, n = RoundedBytes(request[c]),
         bfc' = s => Refused(c, n) \/ ~Full(s, n)
  PROVE  Ends(c)
  <1>1. request[c] \in Nat /\ request[c] # 0
        BY DEF BFCInv, ClientsTyped, Inside
  <1>2. Whole(n) /\ n >= kMinAllocationSize
        BY <1>1, Rounded
  <1>3. \A d \in Clients \ {c} : loop[d].stage = "none"
        BY DEF Inside
  <1>4. CASE Candidates(s, n) = {} /\ Answer(c, nullptr) /\ bfc' = s
    <2>1. Full(s, n)
          BY <1>2, <1>4, NoCandidates DEF Inside
    <2>2. Full(bfc', n) /\ Refused(c, n)
          BY <2>1, <1>4
    <2> QED BY <2>2, <1>3, <1>4, AnswerEnds
  <1>5. ASSUME NEW h \in Candidates(s, n), Answer(c, s.chunks[h].ptr)
        PROVE  Ends(c)
    <2>1. PICK b \in Bins : h \in s.bins[b]
          BY DEF Candidates
    <2>2. h \in Live(s)
          BY <2>1 DEF Inside, Books, Binned
    <2>3. s.chunks[h].ptr # nullptr
      <3>1. s.chunks[h].ptr \in Nat /\ s.chunks[h].ptr >= 256
            BY <2>2 DEF Inside, Books, Placed, Even, Whole, kMinAllocationSize
      <3> QED BY <3>1 DEF nullptr
    <2> QED BY <2>3, <1>3, <1>5, AnswerEnds
  <1> QED BY <1>4, <1>5 DEF FindChunkPtr

\* Going on in a loop ends nothing.
LEMMA LoopEnds ==
  ASSUME BFCInv, NEW c \in Clients, NEW s,
         \A d \in Clients \ {c} : loop[d].stage = "none",
         NEW stage, NEW bytes, NEW increased, Loop(c, s, stage, bytes, increased),
         Full(s, RoundedBytes(request[c])),
         stage = "backpedal" => ~DeviceGives(s, BeforeBackpedal(bytes)),
         UNCHANGED options
  PROVE  Ends(c)
  <1> DEFINE l == [stage |-> stage, bytes |-> bytes, increased |-> increased]
  <1>1. /\ bfc' = s /\ loop' = [loop EXCEPT ![c] = l]
        /\ pc' = pc /\ request' = request
        BY DEF Loop
  <1>2. l.stage = stage /\ l.bytes = bytes
        OBVIOUS
  <1> HIDE DEF l
  <1>3. loop'[c] = l /\ \A d \in Clients \ {c} : loop'[d].stage = "none"
        BY <1>1 DEF BFCInv, ClientsTyped
  <1>4. Full(bfc, RoundedBytes(request[c]))'
        BY <1>1 DEF Full, Live, InUse
  <1>5. loop'[c].stage = "backpedal" =>
            (~DeviceGives(bfc, BeforeBackpedal(loop[c].bytes)))'
        BY <1>1, <1>2, <1>3 DEF DeviceGives, BeforeBackpedal
  <1>6. LoopFull'
        BY <1>1, <1>3, <1>4, <1>5 DEF LoopFull
  <1> QED BY <1>1, <1>6 DEF Ends

\* Extend asks for enough, if the limit allows it.
LEMMA ExtendEnds ==
  ASSUME BFCInv, NEW c \in Clients, NEW s, Inside(c, s),
         NEW n, n = RoundedBytes(request[c]), n <= Available(s), Full(s, n),
         NEW increased \in BOOLEAN, Extend(c, s, increased), UNCHANGED options,
         loop[c].stage # "backpedal", s.started_backpedal = bfc.started_backpedal
  PROVE  Ends(c)
  <1> DEFINE bytes == Smaller(s.curr_region_allocation_bytes, Available(s))
             t == [s EXCEPT !.started_backpedal = TRUE]
             r == AddRegion(s, bytes, bytes, increased)
  <1>1. s \in BFCType /\ options \in Options /\ request[c] \in Nat /\ request[c] # 0
        BY DEF BFCInv, ClientsTyped, Inside, Books
  <1>2. n \in Nat /\ n >= kMinAllocationSize
        BY <1>1, Rounded DEF Whole
  <1>3. CASE n > s.curr_region_allocation_bytes
    <2>1. Loop(c, s, "double", 0, increased)
          BY <1>3 DEF Extend
    <2> QED BY <2>1, LoopEnds DEF Inside
  <1>4. CASE ~(n > s.curr_region_allocation_bytes)
    <2>1. Ask(c, s, increased)
          BY <1>4 DEF Extend
    <2>2. s.curr_region_allocation_bytes \in Nat /\ Whole(s.curr_region_allocation_bytes)
          BY DEF Inside, RegionSized, Whole
    <2>3. Available(s) \in Int
      <3>1. options.total_memory \in Nat
            BY <1>1, BFCAssumption
      <3> QED BY <3>1, <1>1 DEF BFCType, Available, kMinAllocationSize
    <2>4. Available(s) >= kMinAllocationSize
          BY <2>3, <1>2 DEF kMinAllocationSize
    <2>5. Whole(Available(s))
          BY <2>4, <1>1, AvailableWhole
    <2>6. n <= bytes /\ Whole(bytes)
          BY <2>2, <2>3, <2>5, <1>2, <1>4 DEF Smaller
    <2>7. CASE DeviceGives(s, bytes)
      <3>1. FindChunkPtr(c, r)
            BY <2>1, <2>7 DEF Ask
      <3>2. r = AddRegion(s, bytes, bytes, increased)
            OBVIOUS
      <3> HIDE DEF bytes, r
      <3>3. bytes >= kMinAllocationSize /\ bytes <= bytes /\ bytes \in Nat
            BY <2>6, <1>2 DEF Whole, kMinAllocationSize
      <3>4. Inside(c, r)
            BY <3>2, <3>3, <2>6, RegionAdded
      <3>5. \E h \in Live(r) : ~InUse(r, h) /\ r.chunks[h].size = bytes
            BY <3>2, <3>3, <2>6, AddRegionBooks DEF Inside
      <3>6. ~Full(r, n)
            BY <3>5, <3>3, <2>6, <1>2 DEF Full
      <3> QED BY <3>1, <3>4, <3>6, FindEnds
    <2>8. CASE ~DeviceGives(s, bytes) /\ s.started_backpedal
      <3>1. Answer(c, nullptr) /\ bfc' = s
            BY <2>1, <2>8 DEF Ask
      <3>2. bytes = Smaller(bfc'.curr_region_allocation_bytes, Available(bfc'))
            BY <3>1
      <3>3. Full(bfc', n) /\ ~DeviceGives(bfc', bytes)
            BY <3>1, <2>8
      <3> HIDE DEF bytes
      <3>4. Refused(c, n)
            BY <3>2, <3>3, <2>6, <2>8 DEF Refused
      <3> QED BY <3>1, <3>3, <3>4, AnswerEnds DEF Inside
    <2>9. CASE ~DeviceGives(s, bytes) /\ ~s.started_backpedal
      <3>1. Loop(c, t, "backpedal", Backpedal(bytes), increased)
            BY <2>1, <2>9 DEF Ask
      <3>2. /\ t.chunks = s.chunks /\ t.handles = s.handles
            /\ t.device_used = s.device_used
            BY <1>1 DEF BFCType
      <3> HIDE DEF bytes, t
      <3>3. Full(t, n)
            BY <3>2 DEF Full, Live, InUse
      <3>4. Backpedal(bytes) \in Nat /\ bytes <= BeforeBackpedal(Backpedal(bytes))
              /\ bytes \in Nat
            BY <2>6, RoundBounded DEF Whole
      <3>5. BeforeBackpedal(Backpedal(bytes)) \in Nat
            BY <3>4, RoundsOrdered
      <3>6. ~DeviceGives(s, BeforeBackpedal(Backpedal(bytes)))
            BY <3>4, <3>5, <2>9, <1>1, RefusesMore
      <3>7. ~DeviceGives(t, BeforeBackpedal(Backpedal(bytes)))
            BY <3>2, <3>6 DEF DeviceGives
      <3> QED BY <3>1, <3>3, <3>7, LoopEnds DEF Inside
    <2> QED BY <2>7, <2>8, <2>9
  <1> QED BY <1>3, <1>4

\* AllocateRawInternal looks everywhere before it extends.
LEMMA AttemptEnds ==
  ASSUME BFCInv, NEW c \in Clients, Attempt(c)
  PROVE  Ends(c)
  <1> DEFINE n == RoundedBytes(request[c])
             x == options.total_memory - bfc.total_region_allocated_bytes
  <1>1. pc[c] \in Attempting /\ \A d \in Clients : loop[d].stage = "none"
        BY DEF Attempt, Locked
  <1>2. CASE request[c] = 0
    <2>1. Answer(c, nullptr)
          BY <1>2 DEF Attempt
    <2> QED BY <2>1, <1>1, <1>2, AnswerEnds
  <1>3. CASE request[c] # 0
    <2>1. Inside(c, bfc)
          BY <1>1, <1>3, InsideFirst
    <2>2. request[c] \in Nat /\ options.total_memory \in Nat
            /\ bfc.total_region_allocated_bytes \in Nat
          BY BFCAssumption DEF BFCInv, ClientsTyped, Books, BFCType
    <2>3. Whole(n) /\ n >= kMinAllocationSize /\ n \in Nat
          BY <2>2, <1>3, Rounded DEF Whole
    <2>4. x \in Int /\ Available(bfc) = (x \div 256) * 256
          BY <2>2 DEF Available, kMinAllocationSize
    <2>5. Books(bfc, {})
          BY DEF BFCInv
    <2>6. CASE Candidates(bfc, n) # {} \/ n > Available(bfc)
      <3>1. FindChunkPtr(c, bfc)
            BY <1>3, <2>6 DEF Attempt
      <3>2. bfc' = bfc => Refused(c, n) \/ ~Full(bfc, n)
        <4>1. CASE n > Available(bfc)
          <5> DEFINE k == n \div 256
                     q == x \div 256
          <5>1. k \in Int /\ n = 256 * k
                BY <2>3 DEF Whole, kMinAllocationSize
          <5>2. q \in Int /\ x < 256 * (q + 1)
                BY <2>4
          <5>3. 256 * k > q * 256
                BY <5>1, <2>4, <4>1
          <5> HIDE DEF k, q
          <5>4. k >= q + 1
                BY <5>1, <5>2, <5>3
          <5>5. 256 * k >= 256 * (q + 1)
                BY <5>1, <5>2, <5>4
          <5>6. x < n
                BY <5>1, <5>2, <5>5, <2>3, <2>4
          <5> QED BY <5>6 DEF Refused
        <4>2. CASE Candidates(bfc, n) # {}
          <5>1. PICK h : h \in Candidates(bfc, n)
                BY <4>2
          <5>2. PICK b \in Bins : h \in bfc.bins[b]
                BY <5>1 DEF Candidates
          <5>3. h \in Live(bfc) /\ ~InUse(bfc, h)
                BY <5>2, <2>5 DEF Books, Binned
          <5>4. bfc.chunks[h].size \in Nat
                BY <5>3, <2>5 DEF Books, Placed, Even, Whole
          <5>5. bfc.chunks[h].size >= n
                BY <5>1 DEF Candidates
          <5> HIDE DEF n
          <5> QED BY <5>3, <5>4, <5>5, <2>3 DEF Full
        <4> QED BY <4>1, <4>2, <2>6
      <3> HIDE DEF n
      <3> QED BY <3>1, <3>2, <2>1, FindEnds DEF n
    <2>7. CASE ~(Candidates(bfc, n) # {} \/ n > Available(bfc))
      <3>1. Extend(c, bfc, FALSE)
            BY <1>3, <2>7 DEF Attempt
      <3>2. Full(bfc, n)
            BY <2>3, <2>5, <2>7, NoCandidates
      <3>3. n <= Available(bfc)
        <4>1. Available(bfc) \in Int
              BY AvailableInt
        <4> HIDE DEF n
        <4> QED BY <4>1, <2>3, <2>7
      <3>4. UNCHANGED options /\ loop[c].stage # "backpedal"
            BY <1>1 DEF Attempt
      <3> QED BY <3>1, <3>2, <3>3, <3>4, <2>1, ExtendEnds
    <2> QED BY <2>6, <2>7
  <1> QED BY <1>2, <1>3

\* A round of the first loop frees nothing and asks for no less.
LEMMA DoubleRegionEnds ==
  ASSUME BFCInv, LoopFull, NEW c \in Clients, DoubleRegion(c)
  PROVE  Ends(c)
  <1> DEFINE t == [bfc EXCEPT !.curr_region_allocation_bytes = @ * 2]
             n == RoundedBytes(request[c])
  <1>1. loop[c].stage = "double" /\ Extend(c, t, TRUE) /\ UNCHANGED options
        BY DEF DoubleRegion
  <1>2. n <= Available(bfc) /\ Full(bfc, n)
        BY <1>1 DEF BFCInv, LoopsSound, InLoop, LoopFull
  <1>3. t = [bfc EXCEPT !.curr_region_allocation_bytes = @ * 2]
        OBVIOUS
  <1> HIDE DEF t
  <1>4. /\ Inside(c, t)
        /\ t.chunks = bfc.chunks /\ t.handles = bfc.handles
        /\ t.total_region_allocated_bytes = bfc.total_region_allocated_bytes
        BY <1>1, <1>3, DoubledInside
  <1>5. n <= Available(t) /\ Full(t, n)
        BY <1>2, <1>4 DEF Available, Full, Live, InUse
  <1>6. t.started_backpedal = bfc.started_backpedal
        BY <1>3 DEF BFCInv, Books, BFCType
  <1> QED BY <1>1, <1>4, <1>5, <1>6, ExtendEnds

\* In the second loop the device has refused at most a round more.
LEMMA AskForLessEnds ==
  ASSUME BFCInv, LoopFull, NEW c \in Clients, AskForLess(c)
  PROVE  Ends(c)
  <1> DEFINE bytes == loop[c].bytes
             increased == loop[c].increased
             less == Backpedal(bytes)
             n == RoundedBytes(request[c])
  <1>1. loop[c].stage = "backpedal" /\ UNCHANGED options
        BY DEF AskForLess
  <1>2. InLoop(c) /\ \A d \in Clients \ {c} : loop[d].stage = "none"
        BY <1>1 DEF BFCInv, LoopsSound
  <1>3. Inside(c, bfc) /\ bfc \in BFCType
        BY <1>2, InsideFirst DEF InLoop, BFCInv, Books
  <1>4. Full(bfc, n) /\ ~DeviceGives(bfc, BeforeBackpedal(bytes))
        BY <1>1 DEF LoopFull
  <1>5. /\ Whole(bytes) /\ bytes >= kMinAllocationSize /\ increased \in BOOLEAN
        /\ bytes \in Nat
        BY <1>1, <1>2 DEF InLoop, BFCInv, ClientsTyped, LoopType, Whole
  <1>6. n \in Nat
    <2>1. request[c] \in Nat /\ request[c] # 0
          BY <1>3 DEF Inside, BFCInv, ClientsTyped
    <2> QED BY <2>1, Rounded DEF Whole
  <1> HIDE DEF bytes, increased, less, n
  <1>7. ASSUME bytes <= BeforeBackpedal(n)
        PROVE  Refused(c, n)
    <2>1. BeforeBackpedal(n) \in Nat
          BY <1>6, RoundsOrdered
    <2>2. /\ BeforeBackpedal(bytes) \in Nat
          /\ BeforeBackpedal(BeforeBackpedal(n)) \in Nat
          /\ BeforeBackpedal(bytes) <= BeforeBackpedal(BeforeBackpedal(n))
          BY <2>1, <1>5, <1>7, RoundsOrdered
    <2>3. ~DeviceGives(bfc, BeforeBackpedal(BeforeBackpedal(n)))
          BY <2>2, <1>3, <1>4, RefusesMore
    <2> QED BY <2>3, <1>1 DEF Refused
  <1>8. CASE bytes <= n
    <2>1. Answer(c, nullptr) /\ bfc' = bfc
          BY <1>8 DEF AskForLess, bytes, n
    <2>2. n <= BeforeBackpedal(n) /\ BeforeBackpedal(n) \in Nat
          BY <1>6, RoundsOrdered
    <2>3. Full(bfc', n) /\ Refused(c, n)
          BY <2>1, <2>2, <1>4, <1>5, <1>6, <1>7, <1>8
    <2> QED BY <2>1, <2>3, <1>2, AnswerEnds DEF n
  <1>9. CASE ~(bytes <= n) /\ DeviceGives(bfc, bytes)
    <2> DEFINE r == AddRegion(bfc, less, bytes, increased)
    <2>1. FindChunkPtr(c, r)
          BY <1>9 DEF AskForLess, bytes, less, increased, n
    <2>2. Whole(less) /\ less >= kMinAllocationSize /\ less <= bytes
          BY <1>5, BackpedalWhole DEF less
    <2>3. r = AddRegion(bfc, less, bytes, increased)
          OBVIOUS
    <2> HIDE DEF r
    <2>4. Inside(c, r)
          BY <2>2, <2>3, <1>3, <1>5, RegionAdded
    <2>5. Refused(c, n) \/ ~Full(r, n)
      <3>1. CASE n <= less
        <4>1. \E h \in Live(r) : ~InUse(r, h) /\ r.chunks[h].size = less
              BY <2>2, <2>3, <1>3, <1>5, AddRegionBooks DEF Inside
        <4>2. less \in Nat
              BY <2>2 DEF Whole
        <4> QED BY <3>1, <4>1, <4>2, <1>6 DEF Full
      <3>2. CASE ~(n <= less)
        <4>1. less \in Nat /\ bytes <= BeforeBackpedal(less)
              BY <1>5, RoundBounded DEF less
        <4>2. /\ BeforeBackpedal(less) \in Nat /\ BeforeBackpedal(n) \in Nat
              /\ BeforeBackpedal(less) <= BeforeBackpedal(n)
              BY <4>1, <3>2, <1>6, RoundsOrdered
        <4>3. bytes <= BeforeBackpedal(n)
              BY <4>1, <4>2, <1>5
        <4> QED BY <4>3, <1>7
      <3> QED BY <3>1, <3>2
    <2> QED BY <2>1, <2>4, <2>5, FindEnds DEF n
  <1>10. CASE ~(bytes <= n) /\ ~DeviceGives(bfc, bytes)
    <2>1. Loop(c, bfc, "backpedal", less, increased)
          BY <1>10 DEF AskForLess, bytes, less, increased, n
    <2>2. less \in Nat /\ bytes <= BeforeBackpedal(less)
          BY <1>5, RoundBounded DEF less
    <2>3. BeforeBackpedal(less) \in Nat
          BY <2>2, RoundsOrdered
    <2>4. ~DeviceGives(bfc, BeforeBackpedal(less))
          BY <2>2, <2>3, <1>3, <1>5, <1>10, RefusesMore
    <2> QED BY <2>1, <2>4, <1>1, <1>2, <1>4, LoopEnds DEF n
  <1> QED BY <1>8, <1>9, <1>10

\* What a step says of the attempts that it ends.
FailsFull ==
    \A c \in Clients :
        pc[c] \in Attempting
          /\ pc'[c] \notin {pc[c], "holds"} /\ request[c] # 0 =>
        LET n == RoundedBytes(request[c]) IN
        /\ \A h \in Live(bfc)' : bfc'.chunks[h].in_use \/ bfc'.chunks[h].size < n
        /\ Refused(c, n)

\* A step inside AllocateRawInternal is as it should be.
LEMMA EndsFull ==
  ASSUME NEW c \in Clients, Ends(c)
  PROVE  LoopFull' /\ FailsFull
  <1>1. \A h \in Live(bfc') : InUse(bfc', h) = bfc'.chunks[h].in_use
        BY DEF InUse
  <1>2. Live(bfc)' = Live(bfc')
        BY DEF Live
  <1> QED BY <1>1, <1>2 DEF Ends, FailsFull, Full

\* No other step ends an attempt.
LEMMA OtherFull ==
  ASSUME BFCInv, LoopFull, UNCHANGED <<options, loop>>,
         \A d \in Clients : pc[d] \in Attempting => pc'[d] = pc[d],
         Locked => bfc' = bfc /\ \A d \in Clients :
                      loop[d].stage # "none" => request'[d] = request[d]
  PROVE  LoopFull' /\ FailsFull
  <1>1. FailsFull
        BY DEF FailsFull
  <1>2. ASSUME NEW d \in Clients, loop[d].stage # "none"
        PROVE  /\ Full(bfc, RoundedBytes(request[d]))'
               /\ (loop[d].stage = "backpedal" =>
                      ~DeviceGives(bfc, BeforeBackpedal(loop[d].bytes)))'
    <2>1. bfc' = bfc /\ request'[d] = request[d]
          BY <1>2 DEF Locked
    <2> QED BY <2>1, <1>2 DEF LoopFull, Full, Live, InUse, DeviceGives, BeforeBackpedal
  <1>3. LoopFull'
        BY <1>2 DEF LoopFull
  <1> QED BY <1>1, <1>3

\* Each step keeps LoopFull and refuses nobody without need.
LEMMA FullInductive ==
  BFCInv /\ LoopFull /\ [Next]_vars => LoopFull' /\ [FailsFull]_vars
  <1> SUFFICES ASSUME BFCInv, LoopFull, [Next]_vars PROVE LoopFull' /\ FailsFull
      BY DEF FailsFull
  <1>1. ASSUME NEW c \in Clients, Attempt(c) PROVE LoopFull' /\ FailsFull
        BY <1>1, AttemptEnds, EndsFull
  <1>2. ASSUME NEW c \in Clients, DoubleRegion(c) PROVE LoopFull' /\ FailsFull
        BY <1>2, DoubleRegionEnds, EndsFull
  <1>3. ASSUME NEW c \in Clients, AskForLess(c) PROVE LoopFull' /\ FailsFull
        BY <1>3, AskForLessEnds, EndsFull
  <1>4. pc \in [Clients -> Stages] /\ request \in [Clients -> Nat]
        BY DEF BFCInv, ClientsTyped
  <1>5. ASSUME NEW c \in Clients, NEW bytes \in options.sizes,
               NEW no_retry \in options.clients[c], AllocateRaw(c, bytes, no_retry)
        PROVE  LoopFull' /\ FailsFull
    <2>1. /\ pc[c] = "idle" /\ bfc' = bfc /\ loop' = loop /\ options' = options
          /\ pc' = [pc EXCEPT ![c] = IF no_retry THEN "once" ELSE "fast"]
          /\ request' = [request EXCEPT ![c] = bytes]
          BY <1>5 DEF AllocateRaw
    <2>2. loop[c].stage = "none"
          BY <2>1 DEF BFCInv, LoopsSound, InLoop, Attempting
    <2>3. \A d \in Clients : pc[d] \in Attempting => pc'[d] = pc[d]
          BY <2>1, <1>4 DEF Attempting
    <2>4. \A d \in Clients : loop[d].stage # "none" => request'[d] = request[d]
          BY <2>1, <2>2, <1>4
    <2> QED BY <2>1, <2>3, <2>4, OtherFull
  <1>6. ASSUME NEW c \in Clients, Wait(c) \/ Expire(c) \/ TimeOut(c) \/ NotifyDealloc(c)
        PROVE  LoopFull' /\ FailsFull
    <2>1. bfc' = bfc /\ loop' = loop /\ request' = request /\ options' = options
          BY <1>6 DEF Wait, Expire, TimeOut, NotifyDealloc
    <2>2. \A d \in Clients : pc[d] \in Attempting => pc'[d] = pc[d]
          BY <1>4, <1>6 DEF Wait, Expire, TimeOut, NotifyDealloc, Attempting
    <2> QED BY <2>1, <2>2, OtherFull
  <1>7. ASSUME NEW c \in Clients, DeallocateRaw(c) PROVE LoopFull' /\ FailsFull
    <2>1. /\ pc[c] = "holds" /\ ~Locked /\ loop' = loop /\ options' = options
          /\ pc' = [pc EXCEPT ![c] = "notify"]
          BY <1>7 DEF DeallocateRaw
    <2>2. \A d \in Clients : pc[d] \in Attempting => pc'[d] = pc[d]
          BY <2>1, <1>4 DEF Attempting
    <2> QED BY <2>1, <2>2, OtherFull
  <1>8. CASE UNCHANGED vars
    <2>1. bfc' = bfc /\ loop' = loop /\ request' = request /\ pc' = pc
            /\ options' = options
          BY <1>8 DEF vars
    <2> QED BY <2>1, OtherFull
  <1> QED BY <1>1, <1>2, <1>3, <1>5, <1>6, <1>7, <1>8 DEF Next

\* A client is refused only when every chunk that would do is in use, and then for
\* the limit or after a refusal of the device in this same attempt, of a region
\* that the request fits in: at most two rounds of backpedalling larger than it, or
\* the one that Extend asks for when it has backpedalled before.  The search skips
\* no bin in which a chunk may be, what Extend asks for is enough, and while it
\* loops, with lock_ held, nothing becomes free (FindChunkPtr, Extend and
\* AllocateRawInternal of bfc_allocator.cc).
THEOREM RefusalsJustified == Spec => FailsOnlyWhenFull
  <1>1. Init => BFCInv /\ LoopFull
    <2>1. Init => LoopFull
          BY DEF Init, LoopFull, NoLoop
    <2> QED BY <2>1, BFCInit
  <1>2. BFCInv /\ LoopFull /\ [Next]_vars => BFCInv' /\ LoopFull' /\ [FailsFull]_vars
        BY BFCInductive, FullInductive
  <1>3. FailsOnlyWhenFull <=> [][FailsFull]_vars
        BY DEF FailsOnlyWhenFull, FailsFull
  <1> QED BY <1>1, <1>2, <1>3, PTL DEF Spec

(***************************************************************************)
(* The limit.  available_bytes of Extend is unsigned: were more allocated  *)
(* than the limit, it would be enormous.                                   *)
(***************************************************************************)

Within(s) == s.total_region_allocated_bytes <= options.total_memory

\* What the second loop asks for is within the limit, too.
LimitKept ==
    /\ Within(bfc)
    /\ \A c \in Clients : loop[c].stage = "backpedal" => loop[c].bytes <= Available(bfc)

\* A region of the available bytes, or fewer, keeps the limit.
LEMMA RegionWithin ==
  ASSUME BFCInv, NEW c \in Clients, NEW s, Inside(c, s), Within(s),
         NEW bytes, Whole(bytes), bytes >= kMinAllocationSize,
         NEW granted, Whole(granted), bytes <= granted, granted <= Available(s),
         NEW increased \in BOOLEAN
  PROVE  Within(AddRegion(s, bytes, granted, increased))
  <1> DEFINE t == AddRegion(s, bytes, granted, increased)
             x == options.total_memory - s.total_region_allocated_bytes
  <1>1. /\ options.total_memory \in Nat /\ s.total_region_allocated_bytes \in Nat
        BY BFCAssumption DEF BFCInv, ClientsTyped, Inside, Books, BFCType
  <1>2. x \in Int /\ Available(s) = (x \div 256) * 256
        BY <1>1 DEF Available, kMinAllocationSize
  <1>3. (x \div 256) * 256 <= x /\ (x \div 256) * 256 \in Int
        BY <1>2
  <1>4. bytes \in Nat /\ granted \in Nat
        BY DEF Whole
  <1>5. bytes <= x
    <2> HIDE DEF x
    <2> QED BY <1>2, <1>3, <1>4
  <1>6. t.total_region_allocated_bytes = s.total_region_allocated_bytes + bytes
    <2>1. t = AddRegion(s, bytes, granted, increased)
          OBVIOUS
    <2> HIDE DEF t
    <2> QED BY <2>1, AddRegionBooks DEF Inside
  <1> HIDE DEF t
  <1>7. Within(t)
        BY <1>1, <1>4, <1>5, <1>6 DEF Within
  <1> QED BY <1>7 DEF t

\* An answer keeps the limit: the memory of a chunk is allocated already.
LEMMA AnswerWithin ==
  ASSUME BFCInv, NEW c \in Clients, NEW ptr, Answer(c, ptr),
         \A d \in Clients \ {c} : loop[d].stage = "none", UNCHANGED options,
         NEW t, bfc' = t, Within(t)
  PROVE  LimitKept'
  <1>1. loop' = [loop EXCEPT ![c] = NoLoop]
        BY DEF Answer
  <1>2. \A d \in Clients : loop'[d].stage = "none"
        BY <1>1 DEF BFCInv, ClientsTyped, NoLoop
  <1>3. Within(bfc)'
        BY DEF Within
  <1> QED BY <1>2, <1>3 DEF LimitKept

\* So does the search.
LEMMA FindWithin ==
  ASSUME BFCInv, NEW c \in Clients, NEW s, Inside(c, s), FindChunkPtr(c, s),
         Within(s), UNCHANGED options
  PROVE  LimitKept'
  <1> DEFINE n == RoundedBytes(request[c])
  <1>1. request[c] \in Nat /\ request[c] # 0
        BY DEF BFCInv, ClientsTyped, Inside
  <1>2. Whole(n) /\ n >= kMinAllocationSize
        BY <1>1, Rounded
  <1>3. CASE Answer(c, nullptr) /\ bfc' = s
        BY <1>3, AnswerWithin DEF Inside
  <1>4. ASSUME NEW h \in Candidates(s, n), Answer(c, s.chunks[h].ptr),
               bfc' = TakeChunk(s, h, n)
        PROVE  LimitKept'
    <2> DEFINE t == TakeChunk(s, h, n)
    <2>1. bfc' = t /\ t = TakeChunk(s, h, n)
          BY <1>4
    <2> HIDE DEF t, n
    <2>2. Fixed(s, t)
          BY <2>1, <1>2, TakeChunkBooks DEF Inside
    <2>3. Within(t)
          BY <2>2 DEF Fixed, Within
    <2> QED BY <2>1, <2>3, <1>4, AnswerWithin DEF Inside
  <1> QED BY <1>3, <1>4 DEF FindChunkPtr

\* Going on in a loop keeps the limit.
LEMMA LoopWithin ==
  ASSUME BFCInv, NEW c \in Clients, NEW s, Within(s),
         \A d \in Clients \ {c} : loop[d].stage = "none",
         NEW stage, NEW bytes, NEW increased, Loop(c, s, stage, bytes, increased),
         stage = "backpedal" => bytes <= Available(s), UNCHANGED options
  PROVE  LimitKept'
  <1> DEFINE l == [stage |-> stage, bytes |-> bytes, increased |-> increased]
  <1>1. bfc' = s /\ loop' = [loop EXCEPT ![c] = l]
        BY DEF Loop
  <1>2. l.stage = stage /\ l.bytes = bytes
        OBVIOUS
  <1> HIDE DEF l
  <1>3. loop'[c] = l /\ \A d \in Clients \ {c} : loop'[d].stage = "none"
        BY <1>1 DEF BFCInv, ClientsTyped
  <1>4. Within(bfc)' /\ Available(bfc)' = Available(s)
        BY <1>1 DEF Within, Available
  <1> QED BY <1>2, <1>3, <1>4 DEF LimitKept

\* Extend asks for no more than the limit leaves.
LEMMA ExtendWithin ==
  ASSUME BFCInv, NEW c \in Clients, NEW s, Inside(c, s), Within(s),
         RoundedBytes(request[c]) <= Available(s),
         NEW increased \in BOOLEAN, Extend(c, s, increased), UNCHANGED options
  PROVE  LimitKept'
  <1> DEFINE n == RoundedBytes(request[c])
             bytes == Smaller(s.curr_region_allocation_bytes, Available(s))
             t == [s EXCEPT !.started_backpedal = TRUE]
             r == AddRegion(s, bytes, bytes, increased)
  <1>1. s \in BFCType /\ options \in Options /\ request[c] \in Nat /\ request[c] # 0
        BY DEF BFCInv, ClientsTyped, Inside, Books
  <1>2. n \in Nat /\ n >= kMinAllocationSize
        BY <1>1, Rounded DEF Whole
  <1>3. CASE n > s.curr_region_allocation_bytes
    <2>1. Loop(c, s, "double", 0, increased)
          BY <1>3 DEF Extend
    <2> QED BY <2>1, LoopWithin DEF Inside
  <1>4. CASE ~(n > s.curr_region_allocation_bytes)
    <2>1. Ask(c, s, increased)
          BY <1>4 DEF Extend
    <2>2. /\ s.curr_region_allocation_bytes \in Nat
          /\ Whole(s.curr_region_allocation_bytes)
          /\ s.curr_region_allocation_bytes >= kMinAllocationSize
          BY DEF Inside, RegionSized, Whole
    <2>3. Available(s) \in Int
      <3>1. options.total_memory \in Nat
            BY <1>1, BFCAssumption
      <3> QED BY <3>1, <1>1 DEF BFCType, Available, kMinAllocationSize
    <2>4. Available(s) >= kMinAllocationSize
          BY <2>3, <1>2 DEF kMinAllocationSize
    <2>5. Whole(Available(s))
          BY <2>4, <1>1, AvailableWhole
    <2>6. bytes <= Available(s) /\ Whole(bytes) /\ bytes >= kMinAllocationSize
          BY <2>2, <2>3, <2>4, <2>5 DEF Smaller
    <2>7. CASE DeviceGives(s, bytes)
      <3>1. FindChunkPtr(c, r)
            BY <2>1, <2>7 DEF Ask
      <3> HIDE DEF bytes
      <3>2. bytes <= bytes
            BY <2>6 DEF Whole
      <3>3. Inside(c, r) /\ Within(r)
            BY <3>2, <2>6, RegionAdded, RegionWithin
      <3> HIDE DEF r
      <3> QED BY <3>1, <3>3, FindWithin
    <2>8. CASE ~DeviceGives(s, bytes) /\ s.started_backpedal
      <3>1. Answer(c, nullptr) /\ bfc' = s
            BY <2>1, <2>8 DEF Ask
      <3> QED BY <3>1, AnswerWithin DEF Inside
    <2>9. CASE ~DeviceGives(s, bytes) /\ ~s.started_backpedal
      <3>1. Loop(c, t, "backpedal", Backpedal(bytes), increased)
            BY <2>1, <2>9 DEF Ask
      <3>2. t.total_region_allocated_bytes = s.total_region_allocated_bytes
            BY <1>1 DEF BFCType
      <3> HIDE DEF bytes, t
      <3>3. Within(t) /\ Available(t) = Available(s)
            BY <3>2 DEF Within, Available
      <3>4. Backpedal(bytes) <= bytes /\ Backpedal(bytes) \in Nat /\ bytes \in Nat
            BY <2>6, BackpedalWhole DEF Whole
      <3>5. Backpedal(bytes) <= Available(t)
            BY <3>3, <3>4, <2>3, <2>6
      <3> QED BY <3>1, <3>3, <3>5, LoopWithin DEF Inside
    <2> QED BY <2>7, <2>8, <2>9
  <1> QED BY <1>3, <1>4

\* Each step keeps the limit.
LEMMA LimitInductive ==
  BFCInv /\ LimitKept /\ [Next]_vars => LimitKept'
  <1> SUFFICES ASSUME BFCInv, LimitKept, [Next]_vars PROVE LimitKept'
      OBVIOUS
  <1>1. Within(bfc)
        BY DEF LimitKept
  <1>2. ASSUME NEW c \in Clients, Attempt(c) PROVE LimitKept'
    <2> DEFINE n == RoundedBytes(request[c])
    <2>1. /\ pc[c] \in Attempting /\ UNCHANGED options
          /\ \A d \in Clients : loop[d].stage = "none"
          BY <1>2 DEF Attempt, Locked
    <2>2. CASE request[c] = 0
      <3>1. Answer(c, nullptr) /\ bfc' = bfc
            BY <1>2, <2>2 DEF Attempt
      <3> QED BY <3>1, <2>1, <1>1, AnswerWithin
    <2>3. CASE request[c] # 0
      <3>1. Inside(c, bfc)
            BY <2>1, <2>3, InsideFirst
      <3>2. CASE Candidates(bfc, n) # {} \/ n > Available(bfc)
        <4>1. FindChunkPtr(c, bfc)
              BY <1>2, <2>3, <3>2 DEF Attempt
        <4> QED BY <4>1, <3>1, <2>1, <1>1, FindWithin
      <3>3. CASE ~(Candidates(bfc, n) # {} \/ n > Available(bfc))
        <4>1. Extend(c, bfc, FALSE)
              BY <1>2, <2>3, <3>3 DEF Attempt
        <4>2. n \in Nat /\ Available(bfc) \in Int
          <5>1. request[c] \in Nat
                BY DEF BFCInv, ClientsTyped
          <5> QED BY <5>1, Rounded, AvailableInt DEF Whole
        <4>3. n <= Available(bfc)
          <5> HIDE DEF n
          <5> QED BY <4>2, <3>3
        <4> QED BY <4>1, <4>3, <3>1, <2>1, <1>1, ExtendWithin
      <3> QED BY <3>2, <3>3
    <2> QED BY <2>2, <2>3
  <1>3. ASSUME NEW c \in Clients, DoubleRegion(c) PROVE LimitKept'
    <2> DEFINE t == [bfc EXCEPT !.curr_region_allocation_bytes = @ * 2]
    <2>1. loop[c].stage = "double" /\ Extend(c, t, TRUE) /\ UNCHANGED options
          BY <1>3 DEF DoubleRegion
    <2>2. RoundedBytes(request[c]) <= Available(bfc)
          BY <2>1 DEF BFCInv, LoopsSound, InLoop
    <2>3. t = [bfc EXCEPT !.curr_region_allocation_bytes = @ * 2]
          OBVIOUS
    <2> HIDE DEF t
    <2>4. /\ Inside(c, t)
          /\ t.total_region_allocated_bytes = bfc.total_region_allocated_bytes
          BY <2>1, <2>3, DoubledInside
    <2>5. Within(t) /\ Available(t) = Available(bfc)
          BY <2>4, <1>1 DEF Within, Available
    <2> QED BY <2>1, <2>2, <2>4, <2>5, ExtendWithin
  <1>4. ASSUME NEW c \in Clients, AskForLess(c) PROVE LimitKept'
    <2> DEFINE bytes == loop[c].bytes
               increased == loop[c].increased
               less == Backpedal(bytes)
               r == AddRegion(bfc, less, bytes, increased)
    <2>1. loop[c].stage = "backpedal" /\ UNCHANGED options
          BY <1>4 DEF AskForLess
    <2>2. InLoop(c) /\ \A d \in Clients \ {c} : loop[d].stage = "none"
          BY <2>1 DEF BFCInv, LoopsSound
    <2>3. Inside(c, bfc)
          BY <2>2, InsideFirst DEF InLoop
    <2>4. /\ Whole(bytes) /\ bytes >= kMinAllocationSize /\ increased \in BOOLEAN
          /\ bytes <= Available(bfc)
          BY <2>1, <2>2 DEF InLoop, BFCInv, ClientsTyped, LoopType, LimitKept
    <2>5. Whole(less) /\ less >= kMinAllocationSize /\ less <= bytes
          BY <2>4, BackpedalWhole
    <2>6. CASE bytes <= RoundedBytes(request[c])
      <3>1. Answer(c, nullptr) /\ bfc' = bfc
            BY <1>4, <2>6 DEF AskForLess
      <3> QED BY <3>1, <2>1, <2>2, <1>1, AnswerWithin
    <2>7. CASE ~(bytes <= RoundedBytes(request[c])) /\ DeviceGives(bfc, bytes)
      <3>1. FindChunkPtr(c, r)
            BY <1>4, <2>7 DEF AskForLess
      <3> HIDE DEF bytes, increased, less
      <3>2. Inside(c, r) /\ Within(r)
            BY <2>3, <2>4, <2>5, <1>1, RegionAdded, RegionWithin
      <3> HIDE DEF r
      <3> QED BY <3>1, <3>2, <2>1, FindWithin
    <2>8. CASE ~(bytes <= RoundedBytes(request[c])) /\ ~DeviceGives(bfc, bytes)
      <3>1. Loop(c, bfc, "backpedal", less, increased)
            BY <1>4, <2>8 DEF AskForLess
      <3> HIDE DEF bytes, increased, less
      <3>2. less <= Available(bfc)
        <4>1. Available(bfc) \in Int
              BY AvailableInt
        <4> QED BY <4>1, <2>4, <2>5 DEF Whole
      <3> QED BY <3>1, <3>2, <2>1, <2>2, <1>1, LoopWithin
    <2> QED BY <2>6, <2>7, <2>8
  <1>5. ASSUME NEW c \in Clients, DeallocateRaw(c) PROVE LimitKept'
    <2> DEFINE h == bfc.handles[held[c]]
               t == FreeAndMaybeCoalesce(bfc, h)
    <2>1. /\ pc[c] = "holds" /\ bfc' = t /\ UNCHANGED options /\ loop' = loop
          /\ \A d \in Clients : loop[d].stage = "none"
          BY <1>5 DEF DeallocateRaw, Locked
    <2>2. Books(bfc, {}) /\ h \in Used(bfc)
          BY <2>1 DEF BFCInv, HoldingKnown, OwnedBy
    <2>3. t = FreeAndMaybeCoalesce(bfc, h)
          OBVIOUS
    <2> HIDE DEF t, h
    <2>4. Fixed(bfc, t)
          BY <2>2, <2>3, FreeAndMaybeCoalesceBooks
    <2>5. Within(bfc)'
          BY <2>1, <2>4, <1>1 DEF Fixed, Within
    <2> QED BY <2>1, <2>5 DEF LimitKept
  <1>6. ASSUME UNCHANGED <<options, bfc, loop>> PROVE LimitKept'
        BY <1>6 DEF LimitKept, Within, Available
  <1>7. CASE UNCHANGED vars
        BY <1>6, <1>7 DEF vars
  <1>8. ASSUME NEW c \in Clients,
               \/ \E bytes \in options.sizes, no_retry \in options.clients[c] :
                     AllocateRaw(c, bytes, no_retry)
               \/ Wait(c) \/ Expire(c) \/ TimeOut(c) \/ NotifyDealloc(c)
        PROVE  LimitKept'
        BY <1>6, <1>8 DEF AllocateRaw, Wait, Expire, TimeOut, NotifyDealloc
  <1> QED BY <1>2, <1>3, <1>4, <1>5, <1>7, <1>8 DEF Next

\* The regions never add up to more than the limit, even if the device is asked
\* again and again for less: the unsigned difference that Extend begins with
\* (available_bytes, bfc_allocator.cc) does not wrap around.
THEOREM LimitRespected == Spec => []Within(bfc)
  <1>1. Init => BFCInv /\ LimitKept
    <2>1. Init => LimitKept
          BY BFCAssumption DEF Init, LimitKept, Within, NoLoop
    <2> QED BY <2>1, BFCInit
  <1>2. BFCInv /\ LimitKept /\ [Next]_vars => BFCInv' /\ LimitKept'
        BY BFCInductive, LimitInductive
  <1>3. LimitKept => Within(bfc)
        BY DEF LimitKept
  <1> QED BY <1>1, <1>2, <1>3, PTL DEF Spec

=============================================================================
