------------------------------ MODULE SocketIO ------------------------------
(***************************************************************************)
(* The bytes of one Bolt connection, through the IOBuffers of its threads. *)
(*                                                                         *)
(*  - Each caller thread c runs Session::sendInternal once: it assembles   *)
(*    its request with BoltInternalRequest::serialize into its write_buf   *)
(*    W(c) (the body goes to a local IOBuffer first), then Socket::write   *)
(*    moves it to the kernel under _write_mtx, cut_into_file_descriptor by *)
(*    cut_into_file_descriptor, and waits; once notified it parses its     *)
(*    session's read_buf S(c) with BoltResponse::deserialize.              *)
(*  - The reactor runs Socket::onRead: append_from_file_descriptor into    *)
(*    _read_buf, then cutIntoMessage while whole frames are there, each    *)
(*    found by BoltResponse::checkHeader and cut into its session's        *)
(*    read_buf.                                                            *)
(*  - The server (not code of this repository) reads whole request frames  *)
(*    and answers each with a response frame of the same request id.       *)
(*                                                                         *)
(* A frame is a header <<request id, body length>> and the body; a byte is *)
(* a number, the body bytes of request or response c are all c.  The      *)
(* kernel is two byte sequences, `wire` bounded by the send buffer SndBuf. *)
(* The session map of Socket is abstracted to: a session is found by its   *)
(* request id until its caller timed out (ReadSession models the map).    *)
(***************************************************************************)
EXTENDS Integers, Sequences, SequencesExt

CONSTANTS
    Callers,      \* caller threads; caller c sends request id c (c > 0)
    Reactor,      \* the reactor thread
    ReqLens,      \* body lengths of requests
    RespLens,     \* body lengths of responses
    SndBuf,       \* bytes the kernel send buffer holds
    MinOnceRead,  \* MIN_ONCE_READ of onRead
    WordMod,      \* 2^64: size_t arithmetic of Socket::write
    Blocks, Cap, SliceRefSize, MaxIovec, NoBlock, NoOwner

ASSUME Callers \subseteq Nat \ {0} /\ Reactor \notin Callers

W(c) == <<"write_buf", c>>
S(c) == <<"read_buf", c>>
Body == <<"buffer_body", 0>>
ReadBuf == <<"_read_buf", 0>>

BufSet == {Body, ReadBuf} \cup {W(c) : c \in Callers} \cup {S(c) : c \in Callers}

IOB == INSTANCE IOBuffer WITH Threads <- Callers \cup {Reactor}, Bufs <- BufSet

HeaderSize == 2
Frame(id, len) == <<id, len>> \o [i \in 1 .. len |-> id]

VARIABLES
    mem,       \* the IOBuffer memory of the process
    wire,      \* bytes in the kernel from the client to the server
    rwire,     \* bytes in the kernel from the server to the client
    pc,        \* where each caller is
    curSize,   \* cur_size of Socket::write
    bufSize,   \* buffer_size of Socket::write
    wlock,     \* owner of _write_mtx
    reqLen,    \* body length of the request each caller assembled
    srv,       \* frames the server has read, in order
    sent,      \* body length of the response sent for each request id
    rpc,       \* where the reactor is
    spins,     \* the release loop of append_from_file_descriptor never ends
    notified,  \* the session of c was notified with SESSION_OK
    gone,      \* the session of c is no longer in the session map
    got        \* the body each caller parsed

vars == <<mem, wire, rwire, pc, curSize, bufSize, wlock, reqLen, srv, sent,
          rpc, spins, notified, gone, got>>

Init ==
    /\ mem = IOB!EmptyMemory
    /\ wire = <<>> /\ rwire = <<>>
    /\ pc = [c \in Callers |-> "assemble"]
    /\ curSize = [c \in Callers |-> 0]
    /\ bufSize = [c \in Callers |-> 0]
    /\ wlock = NoOwner
    /\ reqLen = [c \in Callers |-> 0]
    /\ srv = <<>>
    /\ sent = [c \in Callers |-> 0]
    /\ rpc = "idle"
    /\ spins = FALSE
    /\ notified = [c \in Callers |-> FALSE]
    /\ gone = [c \in Callers |-> FALSE]
    /\ got = [c \in Callers |-> <<>>]

(***************************************************************************)
(* Caller c                                                                *)
(***************************************************************************)

(* assembleBoltRequest and serialize with a STRING body: the body into     *)
(* buffer_body, the header into write_buf, then write_buf.append of the    *)
(* moved body; buffer_body goes out of scope.                              *)
Serialize(m, c, len) ==
    LET m1 == IOB!AppendData(m, c, Body, [i \in 1 .. len |-> c])
        m2 == IOB!AppendData(m1, c, W(c), <<c, len>>)
    IN  IOB!AppendMove(m2, W(c), Body)

Assemble(c) ==
    /\ pc[c] = "assemble"
    /\ \E len \in ReqLens :
         /\ mem' = IOB!Collect(Serialize(mem, c, len))
         /\ reqLen' = [reqLen EXCEPT ![c] = len]
    /\ pc' = [pc EXCEPT ![c] = "lock"]
    /\ UNCHANGED <<wire, rwire, curSize, bufSize, wlock, srv, sent, rpc, spins,
                   notified, gone, got>>

(* Socket::write: take _write_mtx, read buffer.length().                   *)
WriteLock(c) ==
    /\ pc[c] = "lock"
    /\ wlock = NoOwner
    /\ wlock' = c
    /\ bufSize' = [bufSize EXCEPT ![c] = IOB!Length(mem, W(c))]
    /\ curSize' = [curSize EXCEPT ![c] = 0]
    /\ pc' = [pc EXCEPT ![c] = "write"]
    /\ UNCHANGED <<mem, wire, rwire, reqLen, srv, sent, rpc, spins, notified,
                   gone, got>>

(* What writev of the whole write_buf returns: <<nw, errno>>.  A full send *)
(* buffer gives EAGAIN.  An empty write_buf makes cut_into_file_descriptor *)
(* read _ref past its end (undefined); the model takes EFAULT.             *)
Writev(c) ==
    LET len   == IOB!Length(mem, W(c))
        space == SndBuf - Len(wire)
    IN  IF len = 0 THEN {<<-1, "EFAULT">>}
        ELSE IF space = 0 THEN {<<-1, "EAGAIN">>}
        ELSE {<<n, "OK">> : n \in 1 .. Min({len, space})}

(* One round of the loop of Socket::write: cut_into_file_descriptor, then  *)
(* cur_size += nw in size_t (an EAGAIN adds -1); the loop ends when        *)
(* cur_size >= buffer_size, and write returns true.                        *)
WriteStep(c) ==
    /\ pc[c] = "write"
    /\ \E r \in Writev(c) :
         LET nw  == r[1]
             cur == (curSize[c] + nw) % WordMod
         IN  IF nw < 0 /\ r[2] /= "EAGAIN"
             THEN /\ wlock' = NoOwner
                  /\ pc' = [pc EXCEPT ![c] = "done"]
                  /\ gone' = [gone EXCEPT ![c] = TRUE]
                  /\ UNCHANGED <<mem, wire, curSize>>
             ELSE /\ wire' = wire \o IOB!CopyTo(mem, W(c), Max({nw, 0}))
                  /\ mem' = IF nw > 0 THEN IOB!Collect(IOB!PopFront(mem, W(c), nw))
                            ELSE mem
                  /\ curSize' = [curSize EXCEPT ![c] = cur]
                  /\ IF cur >= bufSize[c]
                     THEN wlock' = NoOwner /\ pc' = [pc EXCEPT ![c] = "wait"]
                     ELSE UNCHANGED <<wlock, pc>>
                  /\ UNCHANGED gone
    /\ UNCHANGED <<rwire, bufSize, reqLen, srv, sent, rpc, spins, notified, got>>

(* The sync wait ends by notify: BoltResponse::deserialize of read_buf.    *)
(* cut(&_header) of the header (fewer bytes: NOT_ENOUGH_DATA), then, for   *)
(* a STRING body, cut of content_len bytes into the resized string.        *)
(* write_buf and the session go with the call.                             *)
Deserialize(c) ==
    /\ pc[c] = "wait"
    /\ notified[c]
    /\ LET h   == IOB!CutOut(mem, S(c), HeaderSize)
           len == IF Len(h.out) = HeaderSize THEN h.out[2] ELSE 0
           b   == IOB!CutOut(h.mem, S(c), len)
       IN  /\ got' = [got EXCEPT ![c] = b.out]
           /\ mem' = IOB!Collect([b.mem EXCEPT !.refs[W(c)] = <<>>, !.roff[W(c)] = 0,
                                               !.refs[S(c)] = <<>>, !.roff[S(c)] = 0])
    /\ pc' = [pc EXCEPT ![c] = "done"]
    /\ gone' = [gone EXCEPT ![c] = TRUE]
    /\ UNCHANGED <<wire, rwire, curSize, bufSize, wlock, reqLen, srv, sent, rpc,
                   spins, notified>>

(* The timeout task wins the session first: the caller returns            *)
(* READ_TIMEOUT and the session leaves the map.                           *)
Timeout(c) ==
    /\ pc[c] = "wait"
    /\ ~notified[c]
    /\ pc' = [pc EXCEPT ![c] = "done"]
    /\ gone' = [gone EXCEPT ![c] = TRUE]
    /\ mem' = IOB!Collect([mem EXCEPT !.refs[W(c)] = <<>>, !.roff[W(c)] = 0])
    /\ UNCHANGED <<wire, rwire, curSize, bufSize, wlock, reqLen, srv, sent, rpc,
                   spins, notified, got>>

(***************************************************************************)
(* The server: one whole request frame read, one response frame sent.      *)
(***************************************************************************)
Serve ==
    /\ Len(wire) >= HeaderSize
    /\ Len(wire) >= HeaderSize + wire[2]
    /\ LET n == HeaderSize + wire[2]
           id == wire[1]
       IN  /\ srv' = Append(srv, SubSeq(wire, 1, n))
           /\ wire' = SubSeq(wire, n + 1, Len(wire))
           /\ \E len \in RespLens :
                /\ rwire' = rwire \o Frame(id, len)
                /\ sent' = [c \in Callers |-> IF c = id THEN len ELSE sent[c]]
    /\ UNCHANGED <<mem, pc, curSize, bufSize, wlock, reqLen, rpc, spins,
                   notified, gone, got>>

(***************************************************************************)
(* The reactor                                                             *)
(***************************************************************************)

(* BoltResponse::checkHeader: copy_to of the header; NOT_ENOUGH_DATA when *)
(* fewer bytes came out or the frame is longer than the buffer, else the  *)
(* request id and the frame's size.                                       *)
CheckHeaderNoEqual(m) ==
    LET h == IOB!CopyTo(m, ReadBuf, HeaderSize)
        n == IF Len(h) = HeaderSize THEN HeaderSize + h[2] ELSE 0
    IN  [ok |-> Len(h) = HeaderSize /\ n < IOB!Length(m, ReadBuf),
         id |-> IF Len(h) = HeaderSize THEN h[1] ELSE 0, size |-> n]

CheckHeader(m) ==
    LET h == IOB!CopyTo(m, ReadBuf, HeaderSize)
        n == IF Len(h) = HeaderSize THEN HeaderSize + h[2] ELSE 0
    IN  [ok |-> Len(h) = HeaderSize /\ n <= IOB!Length(m, ReadBuf),
         id |-> IF Len(h) = HeaderSize THEN h[1] ELSE 0, size |-> n]

(* The loop of onRead over cutIntoMessage, from a memory and the sessions  *)
(* notified: an empty _read_buf or NOT_ENOUGH_DATA end it; a frame whose   *)
(* session is gone is popped, else cut into the session's read_buf and    *)
(* the session notified; a request id of 0 ends the loop.                  *)
RECURSIVE CutLoop(_, _)
CutLoop(m, nt) ==
    LET hd == CheckHeader(m) IN
    IF IOB!Length(m, ReadBuf) = 0 \/ ~hd.ok THEN [mem |-> m, nt |-> nt]
    ELSE IF hd.id \notin Callers \/ gone[hd.id]
    THEN IF hd.id > 0 THEN CutLoop(IOB!PopFront(m, ReadBuf, hd.size), nt)
         ELSE [mem |-> IOB!PopFront(m, ReadBuf, hd.size), nt |-> nt]
    ELSE CutLoop(IOB!Cut(m, ReadBuf, S(hd.id), hd.size), [nt EXCEPT ![hd.id] = TRUE])

(* The poller runs onRead when the socket is readable.                     *)
OnReadStart ==
    /\ rpc = "idle"
    /\ rwire /= <<>>
    /\ rpc' = "read"
    /\ UNCHANGED <<mem, wire, rwire, pc, curSize, bufSize, wlock, reqLen, srv,
                   sent, spins, notified, gone, got>>

(* One round of the loop of onRead: append_from_file_descriptor with       *)
(* MIN_ONCE_READ, readv returning 1 .. the space offered bytes, or EAGAIN  *)
(* when none are there, which ends onRead; then cutIntoMessage until it    *)
(* returns 0.  If the release loop of append_from_file_descriptor never    *)
(* ends, the reactor is stuck in it.                                       *)
ReadStep ==
    /\ rpc = "read"
    /\ LET a == IOB!AcquireForRead(mem, Reactor, MinOnceRead) IN
       \E nr \in IF rwire = <<>> THEN {-1} ELSE 1 .. Min({a.space, Len(rwire)}) :
         LET s == IF nr > 0 THEN SubSeq(rwire, 1, nr) ELSE <<>>
             r == IOB!ReadInto(a, Reactor, ReadBuf, s)
             k == CutLoop(r.mem, notified)
         IN  /\ spins' = r.spins
             /\ rwire' = SubSeq(rwire, Len(s) + 1, Len(rwire))
             /\ IF r.spins
                THEN rpc' = "stuck" /\ mem' = IOB!Collect(r.mem) /\ UNCHANGED notified
                ELSE IF nr < 0
                THEN rpc' = "idle" /\ mem' = IOB!Collect(r.mem) /\ UNCHANGED notified
                ELSE /\ mem' = IOB!Collect(k.mem)
                     /\ notified' = k.nt
                     /\ UNCHANGED rpc
    /\ UNCHANGED <<wire, pc, curSize, bufSize, wlock, reqLen, srv, sent, gone, got>>

Caller(c) ==
    Assemble(c) \/ WriteLock(c) \/ WriteStep(c) \/ Deserialize(c) \/ Timeout(c)

Next ==
    \/ \E c \in Callers : Caller(c)
    \/ Serve
    \/ OnReadStart
    \/ ReadStep

(* Weak fairness is written out as <>[]P => []<><<A>>_vars, with P the    *)
(* state predicate ENABLED <<A>>_vars reduces to in this module, so that   *)
(* TLC need not evaluate ENABLED of actions running the IOBuffer loops.    *)
CallerRuns(c) == WriteLock(c) \/ WriteStep(c) \/ Deserialize(c)

(* A caller can take _write_mtx when it is free, always has a writev       *)
(* outcome, and parses once notified.                                      *)
CallerReady(c) ==
    \/ pc[c] = "lock" /\ wlock = NoOwner
    \/ pc[c] = "write"
    \/ pc[c] = "wait" /\ notified[c]

(* Callers, the poller, the reactor and the server keep running; a caller  *)
(* may stop before a request, and the timeout task may never fire.         *)
Fairness ==
    /\ \A c \in Callers : <>[]CallerReady(c) => []<><<CallerRuns(c)>>_vars
    /\ WF_vars(Serve)
    /\ WF_vars(OnReadStart)
    /\ <>[](rpc = "read") => []<><<ReadStep>>_vars

Spec == Init /\ [][Next]_vars /\ Fairness

(***************************************************************************)
(* Properties                                                              *)
(***************************************************************************)

TypeOK ==
    /\ \A x \in BufSet : \A i \in DOMAIN mem.refs[x] :
          mem.refs[x][i] \in IOB!Slice
    /\ \A b \in Blocks : Len(mem.data[b]) <= Cap
    /\ pc \in [Callers -> {"assemble", "lock", "write", "wait", "done"}]
    /\ curSize \in [Callers -> 0 .. WordMod - 1]
    /\ wlock \in Callers \cup {NoOwner}
    /\ Len(wire) <= SndBuf
    /\ rpc \in {"idle", "read", "stuck"}
    /\ spins \in BOOLEAN
    /\ notified \in [Callers -> BOOLEAN] /\ gone \in [Callers -> BOOLEAN]

(* The closing loop of append_from_file_descriptor, which follows the      *)
(* `next` that releaseBlockToTLSChain has just pointed at the old chain    *)
(* head, always ends: the reactor never spins in it.                       *)
ReleaseLoopEnds == ~spins

(* Every frame the server reads is, byte for byte, the request a caller    *)
(* assembled: serialize, the slices shared in one thread's block, the      *)
(* merging appends and the partial writes of Socket::write keep frames     *)
(* whole and apart.                                                        *)
RequestsIntact ==
    \A i \in DOMAIN srv : \E c \in Callers : srv[i] = Frame(c, reqLen[c])

(* A caller that parses a response gets, byte for byte, the body the       *)
(* server sent for its request id, however readv split the stream.         *)
ResponsesIntact ==
    \A c \in Callers :
        pc[c] = "done" /\ notified[c] =>
            got[c] = [i \in 1 .. sent[c] |-> c]

(* Socket::write returns true only after its loop counted buffer_size     *)
(* bytes written: a caller past the write has nothing left in write_buf.   *)
WriteSendsAll == \A c \in Callers : pc[c] = "wait" => IOB!Length(mem, W(c)) = 0

(* A caller whose write returned true and whose timeout does not fire      *)
(* gets its response: the reactor leaves no whole frame in _read_buf.      *)
CallsReturn == \A c \in Callers : pc[c] = "wait" ~> pc[c] = "done"
====
