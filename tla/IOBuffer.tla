------------------------------ MODULE IOBuffer ------------------------------
(***************************************************************************)
(* IOBuffer of common/io_buffer.{h,cpp}: the memory of every IOBuffer of   *)
(* the process, as one record                                              *)
(*                                                                         *)
(*   data : block -> the bytes written to it (its size is the length)      *)
(*   next : block -> the block its `next` shared_ptr points to             *)
(*   tls  : thread -> head of the thread's s_tls_block_chain               *)
(*   refs : buffer -> its _ref vector of slices [block, offset, length]    *)
(*   roff : buffer -> its _ref_offset                                      *)
(*                                                                         *)
(* Each operation of the class is an operator from a memory to the memory  *)
(* after it (and its result), so that a module of the users of IOBuffer    *)
(* performs one or several of them in a single step, as one call of a      *)
(* thread does.  The loops of io_buffer.cpp are RECURSIVE operators.       *)
(* A block lives while a slice, a chain head or a live block's `next`      *)
(* points to it (the shared_ptr reference count); createBlock returns the  *)
(* least block that is not alive.  Offsets are 0-based as in the code.     *)
(***************************************************************************)
EXTENDS Integers, Sequences, SequencesExt

CONSTANTS
    Blocks,        \* block identities, a set of positive integers
    Threads,       \* threads that own a s_tls_block_chain
    Bufs,          \* IOBuffer objects
    Cap,           \* Block::capacity (BUFFER_DEFAULT_BLOCK_SIZE less the header)
    SliceRefSize,  \* IO_BUFFER_DEFAULT_SLICE_REF_SIZE
    MaxIovec,      \* MAX_APPEND_IOVEC of append_from_file_descriptor
    NoBlock        \* an empty shared_ptr<Block>

ASSUME Cap > 0 /\ SliceRefSize >= 0 /\ MaxIovec > 0 /\ NoBlock \notin Blocks

Slice == [block : Blocks, offset : Nat, length : Nat]

FreeSpaceOffByOne(m, b) == Cap - Len(m.data[b]) + 1

FreeSpace(m, b) == Cap - Len(m.data[b])

(* The blocks some shared_ptr points to: slices (those before _ref_offset  *)
(* too, as the vector still holds them), chain heads, the locals `extra`   *)
(* of the running call, and what their `next` pointers reach.             *)
RECURSIVE Reach(_, _)
Reach(m, S) ==
    LET S2 == S \cup ({m.next[b] : b \in S} \ {NoBlock})
    IN  IF S2 = S THEN S ELSE Reach(m, S2)

Alive(m, extra) ==
    Reach(m, (UNION {{m.refs[x][i].block : i \in DOMAIN m.refs[x]} : x \in Bufs}
                \cup {m.tls[t] : t \in Threads} \cup extra) \ {NoBlock})

(* The destructor of the last shared_ptr of a block: a block nothing       *)
(* points to is returned to malloc, its bytes and its `next` forgotten.    *)
Collect(m) ==
    LET A == Alive(m, {})
    IN  [m EXCEPT !.data = [b \in Blocks |-> IF b \in A THEN m.data[b] ELSE <<>>],
                  !.next = [b \in Blocks |-> IF b \in A THEN m.next[b] ELSE NoBlock]]

(* createBlock: a fresh empty block.  The model has no malloc failure: a   *)
(* run whose Blocks are too few stops with an error in CHOOSE.             *)
CreateBlock(m, extra) == Min(Blocks \ Alive(m, extra))

EmptyMemory ==
    [data |-> [b \in Blocks |-> <<>>], next |-> [b \in Blocks |-> NoBlock],
     tls |-> [t \in Threads |-> NoBlock],
     refs |-> [x \in Bufs |-> <<>>], roff |-> [x \in Bufs |-> 0]]

(* The bytes IOBuffer x holds: its slices from _ref_offset on.             *)
Bytes(m, x) ==
    LET r == m.refs[x]
        Piece(i) == SubSeq(m.data[r[i].block], r[i].offset + 1,
                           r[i].offset + r[i].length)
    IN  FlattenSeq([i \in 1 .. Len(r) - m.roff[x] |-> Piece(m.roff[x] + i)])

(* length() and size()                                                     *)
Length(m, x) == Len(Bytes(m, x))

(***************************************************************************)
(* shareBlockFromTLSChain: drop full heads of t's chain; share the first   *)
(* with free space, or make a new block the whole chain.  [mem, blk]       *)
(***************************************************************************)
RECURSIVE ShareBlock(_, _)
ShareBlock(m, t) ==
    LET h == m.tls[t] IN
    IF h = NoBlock
    THEN LET b == CreateBlock(m, {})
         IN  [mem |-> [m EXCEPT !.data[b] = <<>>, !.next[b] = NoBlock,
                                !.tls[t] = b],
              blk |-> b]
    ELSE IF FreeSpace(m, h) > 0
         THEN [mem |-> m, blk |-> h]
         ELSE ShareBlock([m EXCEPT !.tls[t] = m.next[h]], t)

RECURSIVE AcquireBlock(_, _, _)

(* acquireBlockFromTLSChain written as shareBlockFromTLSChain: the block   *)
(* taken stays the chain head.                                             *)
AcquireBlockSharing(m, t, extra) ==
    LET h == m.tls[t] IN
    IF h = NoBlock
    THEN LET b == CreateBlock(m, extra)
         IN  [mem |-> [m EXCEPT !.data[b] = <<>>, !.next[b] = NoBlock], blk |-> b]
    ELSE IF FreeSpace(m, h) > 0
         THEN [mem |-> m, blk |-> h]
         ELSE AcquireBlock([m EXCEPT !.tls[t] = m.next[h]], t, extra)

(* acquireBlockFromTLSChain: unlink the first head with free space, or     *)
(* create a block only the caller holds; `extra` are blocks it holds.      *)
AcquireBlock(m, t, extra) ==
    LET h == m.tls[t] IN
    IF h = NoBlock
    THEN LET b == CreateBlock(m, extra)
         IN  [mem |-> [m EXCEPT !.data[b] = <<>>, !.next[b] = NoBlock], blk |-> b]
    ELSE IF FreeSpace(m, h) > 0
         THEN [mem |-> [m EXCEPT !.tls[t] = m.next[h], !.next[h] = NoBlock],
               blk |-> h]
         ELSE AcquireBlock([m EXCEPT !.tls[t] = m.next[h]], t, extra)

(* releaseBlockToTLSChain: a block with free space becomes t's head.       *)
ReleaseBlock(m, t, b) ==
    IF FreeSpace(m, b) = 0 THEN m
    ELSE [m EXCEPT !.next[b] = m.tls[t], !.tls[t] = b]

(***************************************************************************)
(* append(const void *data, count) by thread t: each round shares a block,      *)
(* copies what fits at block->size, and grows the last slice when it ends  *)
(* at block->size in the same block, else adds a slice.                    *)
(***************************************************************************)
RECURSIVE AppendLoop(_, _, _, _)
AppendLoop(m, t, x, s) ==
    IF s = <<>> THEN m
    ELSE LET sb   == ShareBlock(m, t)
             b    == sb.blk
             m1   == sb.mem
             n    == Min({Len(s), FreeSpace(m1, b)})
             size == Len(m1.data[b])
             r    == m1.refs[x]
             grow == /\ Len(r) > m1.roff[x]
                     /\ r[Len(r)].block = b
                     /\ r[Len(r)].offset + r[Len(r)].length = size
         IN  AppendLoop(
               [m1 EXCEPT !.data[b] = @ \o SubSeq(s, 1, n),
                          !.refs[x] = IF grow
                                      THEN [r EXCEPT ![Len(r)].length = @ + n]
                                      ELSE Append(r, [block |-> b, offset |-> size,
                                                      length |-> n])],
               t, x, SubSeq(s, n + 1, Len(s)))

AppendData(m, t, x, s) == AppendLoop(m, t, x, s)

(* append(IOBuffer&&): every slice of `y`, from index 0, then y.clear().   *)
AppendMove(m, x, y) ==
    [m EXCEPT !.refs[x] = @ \o m.refs[y], !.refs[y] = <<>>, !.roff[y] = 0]

(* tryReleaseBlock: compact _ref once more than SliceRefSize are consumed. *)
TryReleaseBlock(m, x) ==
    IF m.roff[x] <= SliceRefSize THEN m
    ELSE [m EXCEPT !.refs[x] = SubSeq(@, m.roff[x] + 1, Len(@)), !.roff[x] = 0]

(***************************************************************************)
(* The loop shared by pop_front, cut(IOBuffer *out, n), cut(void *out, n) and copy_to:   *)
(* from slice idx (0-based) take n bytes, trimming the front of the slice  *)
(* where they end.  [refs, idx, out] with `out` the slices taken.          *)
(***************************************************************************)
RECURSIVE FrontLoop(_, _, _, _)

(* The partial slice shortened without moving its offset.                 *)
FrontLoopKeepOffset(r, idx, n, out) ==
    IF n = 0 \/ idx >= Len(r) THEN [refs |-> r, idx |-> idx, out |-> out]
    ELSE IF n < r[idx + 1].length
         THEN [refs |-> [r EXCEPT ![idx + 1].length = @ - n],
               idx |-> idx,
               out |-> Append(out, [r[idx + 1] EXCEPT !.length = n])]
         ELSE FrontLoop(r, idx + 1, n - r[idx + 1].length, Append(out, r[idx + 1]))

FrontLoop(r, idx, n, out) ==
    IF n = 0 \/ idx >= Len(r) THEN [refs |-> r, idx |-> idx, out |-> out]
    ELSE IF n < r[idx + 1].length
         THEN [refs |-> [r EXCEPT ![idx + 1].offset = @ + n,
                                  ![idx + 1].length = @ - n],
               idx |-> idx,
               out |-> Append(out, [r[idx + 1] EXCEPT !.length = n])]
         ELSE FrontLoop(r, idx + 1, n - r[idx + 1].length, Append(out, r[idx + 1]))

SliceBytes(m, out) ==
    FlattenSeq([i \in DOMAIN out |->
                  SubSeq(m.data[out[i].block], out[i].offset + 1,
                         out[i].offset + out[i].length)])

TakeFront(m, x, n) == FrontLoop(m.refs[x], m.roff[x], n, <<>>)

(* pop_front(n)                                                           *)
PopFront(m, x, n) ==
    LET f == TakeFront(m, x, n)
    IN  TryReleaseBlock([m EXCEPT !.refs[x] = f.refs, !.roff[x] = f.idx], x)

(* cut(IOBuffer *out, n): the slices taken are appended to y.              *)
Cut(m, x, y, n) ==
    LET f == TakeFront(m, x, n)
    IN  TryReleaseBlock([m EXCEPT !.refs[x] = f.refs, !.roff[x] = f.idx,
                                  !.refs[y] = @ \o f.out], x)

(* copy_to(out, n): the first n bytes, or fewer, leaving x as it is.       *)
CopyTo(m, x, n) == SliceBytes(m, TakeFront(m, x, n).out)

(* cut(void *out, n), and cut(std::string&, n) which resizes the string to *)
(* min(n, length()) and calls it: the bytes copied out, and x popped by    *)
(* the same walk.  [mem, out]; Len(out) is the count returned.             *)
CutOut(m, x, n) == [mem |-> PopFront(m, x, n), out |-> CopyTo(m, x, n)]

(***************************************************************************)
(* append_from_file_descriptor(fd, max_size) by thread t, in two parts     *)
(* around readv.  AcquireLoop takes blocks from t's chain (or new ones),   *)
(* linking each to the previous, until they offer max_size bytes or        *)
(* MaxIovec vectors: [mem, head, space].                                   *)
(***************************************************************************)
RECURSIVE AcquireLoop(_, _, _, _, _)
AcquireLoop(m, t, max, ch, space) ==
    LET a   == AcquireBlock(m, t, ToSet(ch))
        b   == a.blk
        m1  == IF ch = <<>> THEN a.mem ELSE [a.mem EXCEPT !.next[Last(ch)] = b]
        sp  == space + Min({FreeSpace(m1, b), max - space})
        ch2 == Append(ch, b)
    IN  IF sp >= max \/ Len(ch2) >= MaxIovec
        THEN [mem |-> m1, head |-> ch2[1], space |-> sp]
        ELSE AcquireLoop(m1, t, max, ch2, sp)

AcquireForRead(m, t, max) == AcquireLoop(m, t, max, <<>>, 0)

(* After readv returned nr = Len(s) > 0 bytes s: a new slice per block     *)
(* filled, block_head moving to `next` when its block is full.             *)
RECURSIVE FillLoop(_, _, _, _)

(* The slice recorded at the block's start, not at block_head->size.     *)
FillLoopFromStart(m, x, h, s) ==
    LET len  == Min({Len(s), FreeSpace(m, h)})
        m1   == [m EXCEPT !.refs[x] = Append(@, [block |-> h, offset |-> 0,
                                                 length |-> len]),
                          !.data[h] = @ \o SubSeq(s, 1, len)]
        h2   == IF FreeSpace(m1, h) = 0 THEN m1.next[h] ELSE h
        rest == SubSeq(s, len + 1, Len(s))
    IN  IF rest = <<>> THEN [mem |-> m1, head |-> h2] ELSE FillLoop(m1, x, h2, rest)

FillLoop(m, x, h, s) ==
    LET len  == Min({Len(s), FreeSpace(m, h)})
        m1   == [m EXCEPT !.refs[x] = Append(@, [block |-> h,
                                                 offset |-> Len(m.data[h]),
                                                 length |-> len]),
                          !.data[h] = @ \o SubSeq(s, 1, len)]
        h2   == IF FreeSpace(m1, h) = 0 THEN m1.next[h] ELSE h
        rest == SubSeq(s, len + 1, Len(s))
    IN  IF rest = <<>> THEN [mem |-> m1, head |-> h2] ELSE FillLoop(m1, x, h2, rest)

(* The closing loop: releaseBlockToTLSChain(block_head) and then           *)
(* block_head = block_head->next, the pointer the release may just have    *)
(* set to the old chain head.  The loop is deterministic, so once a        *)
(* configuration (block_head, chain head, next pointers) repeats it runs   *)
(* for ever: `spins`.                                                      *)
RECURSIVE ReleaseLoop(_, _, _, _)
ReleaseLoop(m, t, h, seen) ==
    LET key == <<h, m.tls[t], m.next>> IN
    IF h = NoBlock THEN [mem |-> m, spins |-> FALSE]
    ELSE IF key \in seen THEN [mem |-> m, spins |-> TRUE]
    ELSE LET m1 == ReleaseBlock(m, t, h)
         IN  ReleaseLoop(m1, t, m1.next[h], seen \cup {key})

(* The rest of append_from_file_descriptor once readv returned the bytes   *)
(* s (<<>> when nr <= 0): [mem, spins].                                    *)
ReadInto(a, t, x, s) ==
    LET f == IF s = <<>> THEN [mem |-> a.mem, head |-> a.head]
             ELSE FillLoop(a.mem, x, a.head, s)
    IN  ReleaseLoop(f.mem, t, f.head, {})
====
