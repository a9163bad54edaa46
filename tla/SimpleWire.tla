----------------------------- MODULE SimpleWire -----------------------------
(***************************************************************************)
(* simple_wire, unidirectional_message_wire and unidirectional_response_   *)
(* wire (transport/wire.h): the one-to-one stream of messages between the  *)
(* two processes of a session.                                             *)
(*                                                                         *)
(* The ring buffer lives in shared memory.  The writer copies a message,   *)
(* in pieces if it is longer than the ring, and publishes each piece by    *)
(* adding to pushed_; the reader copies and then adds to poped_.  Neither  *)
(* takes the mutex to do so.  A side that has to wait takes the mutex,     *)
(* raises wait_for_read_ or wait_for_write_, tests its predicate and       *)
(* sleeps; the other side looks at that flag after each publication and    *)
(* takes the mutex to notify only if it is up.                             *)
(*                                                                         *)
(* All of these variables are sequentially consistent atomics, so each     *)
(* access is a step.  The predicate is tested with the mutex held and      *)
(* condition.wait releases it and sleeps, which is one step here: nobody   *)
(* can notify in between.                                                  *)
(***************************************************************************)
EXTENDS Integers, Sequences, FiniteSets

CONSTANTS
    Kind,           \* "request" or "response"
    Capacity,       \* capacity_
    HeaderSize,     \* T::size
    Word,           \* one more than the largest std::size_t
    Lengths,        \* the lengths of the messages
    MaxMessages,    \* bound: messages written in one behaviour
    UsePayload,     \* TRUE: requests may be read with payload() and dispose()
    Raised,         \* the signals that other threads raise
    Timeouts        \* TRUE: the timed waits of peep and await may expire

(* the functions of the two wires that another thread calls *)
Signals ==
    IF Kind = "request" THEN {"terminate", "notify", "close"}
                        ELSE {"close", "notify_shutdown", "force_close"}

Flags == {"terminate", "notify", "closed", "shutdown"}
Flag(s) ==
    CASE s = "notify_shutdown" -> "shutdown"
      [] s \in {"close", "force_close"} -> "closed"
      [] OTHER -> s

ASSUME WireAssumption ==
    /\ Kind \in {"request", "response"}
    /\ HeaderSize \in Nat \ {0}
    /\ Capacity \in Nat /\ Capacity > HeaderSize
    /\ Word \in Nat /\ Word > Capacity
    /\ Lengths \subseteq Nat
    /\ MaxMessages \in Nat
    /\ UsePayload \in BOOLEAN
    /\ Raised \subseteq Signals
    /\ Timeouts \in BOOLEAN

VARIABLES
    buf,            \* the ring: a byte is <<message, offset>>
    pushed, poped,  \* pushed_, poped_
    waitForWrite,   \* wait_for_write_
    waitForRead,    \* wait_for_read_
    mutex,          \* who holds m_mutex_
    flags,          \* the atomic_bools of the wire that are true
    wpc,            \* where the writer is
    wlen,           \* its length, still to be written
    woff,           \* its from, as an offset in header and payload
    rpc,            \* where the reader is
    seen,           \* the flags it has loaded
    header,         \* header_received_
    rlen,           \* its length, still to be read
    top,            \* the buffer of the message it reads
    needDispose,    \* need_dispose_
    spc,            \* where the caller of a signal is
    sent,           \* history: the messages published, with their place
    mark,           \* history: how many were published when a flag went up
    delivered       \* history: the messages read

ringVars == <<buf, pushed, poped>>
writerVars == <<wpc, wlen, woff, sent>>
readerVars == <<rpc, seen, header, rlen, top, needDispose, delivered>>
vars == <<ringVars, waitForWrite, waitForRead, mutex, flags, writerVars,
          readerVars, spc, mark>>

MinOf(a, b) == IF a > b THEN b ELSE a

Index(n) == n % Capacity

(* stored and room, in unsigned arithmetic; mutant: an off-by-one in room *)
Stored == (pushed - poped) % Word
Room_OneMore == (Capacity - Stored + 1) % Word
Room == (Capacity - Stored) % Word

MaxPayloadLength == Capacity - HeaderSize

(***************************************************************************)
(* write_in_buffer: n bytes of message m, from offset o, to position at.   *)
(* Mutant: the second part starts with the first byte again.               *)
(***************************************************************************)
WriteInBuffer_SamePart(b, at, m, o, n) ==
    IF Capacity >= at + n
    THEN [j \in DOMAIN b |-> IF at <= j /\ j < at + n THEN <<m, o + (j - at)>> ELSE b[j]]
    ELSE [j \in DOMAIN b |->
             IF at <= j THEN <<m, o + (j - at)>>
             ELSE IF j < n - (Capacity - at) THEN <<m, o + j>>
             ELSE b[j]]
WriteInBuffer(b, at, m, o, n) ==
    IF Capacity >= at + n
    THEN [j \in DOMAIN b |-> IF at <= j /\ j < at + n THEN <<m, o + (j - at)>> ELSE b[j]]
    ELSE LET first == Capacity - at IN
         [j \in DOMAIN b |->
             IF at <= j THEN <<m, o + (j - at)>>
             ELSE IF j < n - first THEN <<m, o + (first + j)>>
             ELSE b[j]]

(***************************************************************************)
(* read_from_buffer: n bytes from position at to t, from place o + 1 on.   *)
(* Mutant: no wrapping, the last place of the ring is read again.          *)
(***************************************************************************)
ReadFromBuffer_NoWrap(t, o, at, n) ==
    [k \in DOMAIN t |->
        IF o < k /\ k <= o + n THEN buf[MinOf(at + (k - o - 1), Capacity - 1)] ELSE t[k]]
ReadFromBuffer(t, o, at, n) ==
    IF Capacity >= at + n
    THEN [k \in DOMAIN t |-> IF o < k /\ k <= o + n THEN buf[at + (k - o - 1)] ELSE t[k]]
    ELSE LET first == Capacity - at IN
         [k \in DOMAIN t |->
             IF o < k /\ k <= o + first THEN buf[at + (k - o - 1)]
             ELSE IF o + first < k /\ k <= o + n THEN buf[k - o - 1 - first]
             ELSE t[k]]

(***************************************************************************)
(* copy_header: a header says which message it begins, and its length.     *)
(* Bytes that are no header of a message give NoHeader.                    *)
(***************************************************************************)
NoHeader == [msg |-> 0, length |-> 0]
HeaderAt(p) ==
    LET bytes == ReadFromBuffer([k \in 1 .. HeaderSize |-> <<0, 0>>], 0, Index(p), HeaderSize)
        m == bytes[1][1]
    IN  IF m \in DOMAIN sent /\ \A k \in 1 .. HeaderSize : bytes[k] = <<m, k - 1>>
        THEN [msg |-> m, length |-> sent[m].length]
        ELSE NoHeader

Init ==
    /\ buf = [j \in 0 .. Capacity - 1 |-> <<0, 0>>]
    /\ pushed = 0 /\ poped = 0
    /\ waitForWrite = FALSE /\ waitForRead = FALSE
    /\ mutex = "free"
    /\ flags = {}
    /\ wpc = "idle" /\ wlen = 0 /\ woff = 0
    /\ rpc = "idle" /\ seen = {} /\ header = NoHeader /\ rlen = 0 /\ top = <<>>
    /\ needDispose = 0
    /\ spc = [s \in Signals |-> "idle"]
    /\ sent = <<>> /\ delivered = <<>>
    /\ mark = [f \in Flags |-> -1]

(***************************************************************************)
(* notify_one: at most one thread sleeps on each condition                 *)
(***************************************************************************)
WakeReader ==
    rpc' = CASE rpc = "asleep" -> "woken"
             [] rpc = "r_asleep" -> "r_woken"
             [] OTHER -> rpc
WakeWriter == wpc' = IF wpc = "asleep" THEN "woken" ELSE wpc

(***************************************************************************)
(* The writer: simple_wire::write                                          *)
(***************************************************************************)
Piece == MinOf(wlen, Capacity)

Write(l) ==
    /\ wpc = "idle"
    /\ Len(sent) < MaxMessages
    /\ wlen' = l + HeaderSize
    /\ woff' = 0
    /\ wpc' = "room"
    /\ UNCHANGED <<ringVars, waitForWrite, waitForRead, mutex, flags, sent, readerVars,
                   spc, mark>>

(* is there room for the piece, or is the wire closed? *)
CheckRoom ==
    /\ wpc = "room"
    /\ wpc' = IF Piece > Room /\ "closed" \notin flags THEN "lock" ELSE "check"
    /\ UNCHANGED <<ringVars, waitForWrite, waitForRead, mutex, flags, wlen, woff, sent,
                   readerVars, spc, mark>>

(* wait_to_write: lock and raise the flag; mutant: the flag is not raised *)
WaitToWrite_NoFlag ==
    /\ wpc = "lock"
    /\ mutex = "free"
    /\ mutex' = "writer"
    /\ wpc' = "testing"
    /\ UNCHANGED <<ringVars, waitForWrite, waitForRead, flags, wlen, woff, sent,
                   readerVars, spc, mark>>
WaitToWrite ==
    /\ wpc = "lock"
    /\ mutex = "free"
    /\ mutex' = "writer"
    /\ waitForWrite' = TRUE
    /\ wpc' = "testing"
    /\ UNCHANGED <<ringVars, waitForRead, flags, wlen, woff, sent, readerVars, spc, mark>>

(* wait_to_write: the predicate, and going to sleep or leaving *)
TestRoom ==
    /\ wpc = "testing"
    /\ mutex' = "free"
    /\ \/ /\ Room >= Piece \/ "closed" \in flags
          /\ waitForWrite' = FALSE
          /\ wpc' = "check"
       \/ /\ Room < Piece /\ "closed" \notin flags
          /\ wpc' = "asleep"
          /\ UNCHANGED waitForWrite
    /\ UNCHANGED <<ringVars, waitForRead, flags, wlen, woff, sent, readerVars, spc, mark>>

(* a notified writer takes the mutex again *)
WriterWakes ==
    /\ wpc = "woken"
    /\ mutex = "free"
    /\ mutex' = "writer"
    /\ wpc' = "testing"
    /\ UNCHANGED <<ringVars, waitForWrite, waitForRead, flags, wlen, woff, sent,
                   readerVars, spc, mark>>

(* a closed wire swallows the rest of the message *)
CheckClosed ==
    /\ wpc = "check"
    /\ \/ /\ "closed" \in flags
          /\ wpc' = "idle" /\ wlen' = 0 /\ woff' = 0
       \/ /\ "closed" \notin flags
          /\ wpc' = "copy"
          /\ UNCHANGED <<wlen, woff>>
    /\ UNCHANGED <<ringVars, waitForWrite, waitForRead, mutex, flags, sent, readerVars,
                   spc, mark>>

(* the bytes of the piece, for the first one those of the header included *)
Copy ==
    /\ wpc = "copy"
    /\ buf' = IF woff = 0
              THEN WriteInBuffer(
                       WriteInBuffer(buf, Index(pushed), Len(sent) + 1, 0, HeaderSize),
                       Index(pushed + HeaderSize), Len(sent) + 1, HeaderSize,
                       Piece - HeaderSize)
              ELSE WriteInBuffer(buf, Index(pushed), Len(sent), woff, Piece)
    /\ wpc' = "push"
    /\ UNCHANGED <<pushed, poped, waitForWrite, waitForRead, mutex, flags, wlen, woff,
                   sent, readerVars, spc, mark>>

Push ==
    /\ wpc = "push"
    /\ pushed' = pushed + Piece
    /\ woff' = woff + Piece
    /\ wlen' = wlen - Piece
    /\ sent' = IF woff = 0
               THEN Append(sent, [at |-> pushed, length |-> wlen - HeaderSize])
               ELSE sent
    /\ wpc' = "look"
    /\ UNCHANGED <<buf, poped, waitForWrite, waitForRead, mutex, flags, readerVars,
                   spc, mark>>

AfterPush == IF wlen > 0 THEN "room" ELSE "idle"

(* does the reader wait?; mutant: it is not asked *)
LookForReader_Never ==
    /\ wpc = "look"
    /\ wpc' = AfterPush
    /\ UNCHANGED <<ringVars, waitForWrite, waitForRead, mutex, flags, wlen, woff, sent,
                   readerVars, spc, mark>>
LookForReader ==
    /\ wpc = "look"
    /\ wpc' = IF waitForRead THEN "notify" ELSE AfterPush
    /\ UNCHANGED <<ringVars, waitForWrite, waitForRead, mutex, flags, wlen, woff, sent,
                   readerVars, spc, mark>>

NotifyReader ==
    /\ wpc = "notify"
    /\ mutex = "free"
    /\ WakeReader
    /\ wpc' = AfterPush
    /\ UNCHANGED <<ringVars, waitForWrite, waitForRead, mutex, flags, wlen, woff, sent,
                   seen, header, rlen, top, needDispose, delivered, spc, mark>>

WriterStep ==
    \/ CheckRoom \/ WaitToWrite \/ TestRoom \/ WriterWakes \/ CheckClosed
    \/ Copy \/ Push \/ LookForReader \/ NotifyReader

(***************************************************************************)
(* The reader: peep (of a request) or await (of a response), then read,    *)
(* or payload and dispose.                                                 *)
(***************************************************************************)
ReaderFlags == IF Kind = "request" THEN {"terminate", "notify"} ELSE {"closed", "shutdown"}

(* the flags are loaded before stored() *)
LoadFlags ==
    /\ rpc = "idle"
    /\ seen' = flags \cap ReaderFlags
    /\ rpc' = "stored"
    /\ UNCHANGED <<ringVars, waitForWrite, waitForRead, mutex, flags, writerVars,
                   header, rlen, top, needDispose, delivered, spc, mark>>

(***************************************************************************)
(* A message has precedence.  Without one a flag that was loaded ends the  *)
(* call: with a dummy header, or by an exception for "notify".  Mutant:    *)
(* the flags have precedence.                                              *)
(***************************************************************************)
CheckStored_FlagsFirst ==
    /\ rpc = "stored"
    /\ \/ /\ seen = {} /\ Stored >= HeaderSize
          /\ header' = HeaderAt(poped)
          /\ rpc' = "header"
          /\ UNCHANGED flags
       \/ /\ seen = {} /\ Stored < HeaderSize
          /\ rpc' = "lock"
          /\ UNCHANGED <<flags, header>>
       \/ /\ seen # {}
          /\ flags' = flags \ {"terminate"}
          /\ header' = NoHeader
          /\ rpc' = "interrupted"
    /\ UNCHANGED <<ringVars, waitForWrite, waitForRead, mutex, writerVars, seen,
                   rlen, top, needDispose, delivered, spc, mark>>
CheckStored ==
    /\ rpc = "stored"
    /\ \/ /\ Stored >= HeaderSize
          /\ header' = HeaderAt(poped)
          /\ rpc' = "header"
          /\ UNCHANGED flags
       \/ /\ Stored < HeaderSize /\ seen = {}
          /\ rpc' = "lock"
          /\ UNCHANGED <<flags, header>>
       \/ /\ Stored < HeaderSize /\ seen # {}
          /\ flags' = IF "terminate" \in seen THEN flags \ {"terminate"} ELSE flags
          /\ header' = NoHeader
          /\ rpc' = "interrupted"
    /\ UNCHANGED <<ringVars, waitForWrite, waitForRead, mutex, writerVars, seen,
                   rlen, top, needDispose, delivered, spc, mark>>

(* lock and raise the flag, in peep and await and inside read *)
WaitToRead ==
    /\ rpc \in {"lock", "r_lock"}
    /\ mutex = "free"
    /\ mutex' = "reader"
    /\ waitForRead' = TRUE
    /\ rpc' = IF rpc = "lock" THEN "testing" ELSE "r_testing"
    /\ UNCHANGED <<ringVars, waitForWrite, flags, writerVars, seen, header, rlen, top,
                   needDispose, delivered, spc, mark>>

(* the predicate of peep and await *)
TestMessage ==
    /\ rpc = "testing"
    /\ mutex' = "free"
    /\ \/ /\ Stored >= HeaderSize \/ flags \cap ReaderFlags # {}
          /\ waitForRead' = FALSE
          /\ rpc' = "idle"
       \/ /\ Stored < HeaderSize /\ flags \cap ReaderFlags = {}
          /\ rpc' = "asleep"
          /\ UNCHANGED waitForRead
    /\ UNCHANGED <<ringVars, waitForWrite, flags, writerVars, seen, header, rlen, top,
                   needDispose, delivered, spc, mark>>

(* a notified reader takes the mutex again *)
ReaderWakes ==
    /\ rpc \in {"woken", "r_woken"}
    /\ mutex = "free"
    /\ mutex' = "reader"
    /\ rpc' = IF rpc = "woken" THEN "testing" ELSE "r_testing"
    /\ UNCHANGED <<ringVars, waitForWrite, waitForRead, flags, writerVars, seen, header,
                   rlen, top, needDispose, delivered, spc, mark>>

(* timed_wait gives up; the caller tries again while its peer is alive *)
Expire ==
    /\ Timeouts
    /\ rpc = "asleep"
    /\ mutex = "free"
    /\ waitForRead' = FALSE
    /\ rpc' = "idle"
    /\ UNCHANGED <<ringVars, waitForWrite, mutex, flags, writerVars, seen, header, rlen,
                   top, needDispose, delivered, spc, mark>>

(***************************************************************************)
(* What read takes next: payload behind the header, later a full ring.     *)
(***************************************************************************)
FirstPart == rlen = header.length
Part == MinOf(rlen, IF FirstPart THEN MaxPayloadLength ELSE Capacity)
Blank(n) == [k \in 1 .. n |-> <<0, 0>>]

ReadFirst ==
    /\ rlen' = header.length
    /\ top' = ReadFromBuffer(Blank(header.length), 0, Index(poped + HeaderSize),
                             MinOf(header.length, MaxPayloadLength))
    /\ rpc' = "pop"
    /\ UNCHANGED needDispose

(* read up to the first fetch_add *)
Read ==
    /\ rpc = "header"
    /\ ReadFirst
    /\ UNCHANGED <<ringVars, waitForWrite, waitForRead, mutex, flags, writerVars, seen,
                   header, delivered, spc, mark>>

(***************************************************************************)
(* payload: a view of the ring, or a copy by read when the message wraps.  *)
(* Mutant: always the view.                                                *)
(***************************************************************************)
Payload_NoCopy ==
    /\ UsePayload /\ Kind = "request"
    /\ rpc = "header"
    /\ needDispose' = HeaderSize + header.length
    /\ rpc' = "viewing"
    /\ UNCHANGED <<ringVars, waitForWrite, waitForRead, mutex, flags, writerVars, seen,
                   header, rlen, top, delivered, spc, mark>>
Payload ==
    /\ UsePayload /\ Kind = "request"
    /\ rpc = "header"
    /\ IF Index(poped + HeaderSize) < Index(poped + HeaderSize + header.length)
       THEN /\ needDispose' = HeaderSize + header.length
            /\ rpc' = "viewing"
            /\ UNCHANGED <<rlen, top>>
       ELSE ReadFirst
    /\ UNCHANGED <<ringVars, waitForWrite, waitForRead, mutex, flags, writerVars, seen,
                   header, delivered, spc, mark>>

(* the bytes of the view; those behind the ring are not bytes of a message *)
View ==
    [k \in 1 .. header.length |->
        LET j == Index(poped + HeaderSize) + k - 1
        IN  IF j < Capacity THEN buf[j] ELSE <<0, 0>>]

(* dispose: the view is given up and its message popped *)
Dispose ==
    /\ rpc = "viewing"
    /\ top' = View
    /\ rlen' = 0
    /\ poped' = poped + needDispose
    /\ needDispose' = 0
    /\ rpc' = "look"
    /\ UNCHANGED <<buf, pushed, waitForWrite, waitForRead, mutex, flags, writerVars, seen,
                   header, delivered, spc, mark>>

Pop ==
    /\ rpc = "pop"
    /\ poped' = poped + Part + (IF FirstPart THEN HeaderSize ELSE 0)
    /\ rlen' = rlen - Part
    /\ rpc' = "look"
    /\ UNCHANGED <<buf, pushed, waitForWrite, waitForRead, mutex, flags, writerVars, seen,
                   header, top, needDispose, delivered, spc, mark>>

(* the loop of read goes on, or the message is complete *)
AfterPop ==
    \/ /\ rlen > 0
       /\ rpc' = "r_lock"
       /\ UNCHANGED <<top, delivered>>
    \/ /\ rlen = 0 /\ header.msg # 0
       /\ delivered' = Append(delivered, top)
       /\ top' = <<>>
       /\ rpc' = "idle"
    \/ /\ rlen = 0 /\ header.msg = 0
       /\ rpc' = "over"
       /\ UNCHANGED <<top, delivered>>

(* does the writer wait?; mutant: it is not asked *)
LookForWriter_Never ==
    /\ rpc = "look"
    /\ AfterPop
    /\ UNCHANGED <<ringVars, waitForWrite, waitForRead, mutex, flags, writerVars, seen,
                   header, rlen, needDispose, spc, mark>>
LookForWriter ==
    /\ rpc = "look"
    /\ IF waitForWrite THEN rpc' = "notify" /\ UNCHANGED <<top, delivered>> ELSE AfterPop
    /\ UNCHANGED <<ringVars, waitForWrite, waitForRead, mutex, flags, writerVars, seen,
                   header, rlen, needDispose, spc, mark>>

NotifyWriter ==
    /\ rpc = "notify"
    /\ mutex = "free"
    /\ WakeWriter
    /\ AfterPop
    /\ UNCHANGED <<ringVars, waitForWrite, waitForRead, mutex, flags, wlen, woff, sent,
                   seen, header, rlen, needDispose, spc, mark>>

(* the predicate inside read *)
TestPart ==
    /\ rpc = "r_testing"
    /\ mutex' = "free"
    /\ \/ /\ Stored >= Part
          /\ waitForRead' = FALSE
          /\ rpc' = "r_copy"
       \/ /\ Stored < Part
          /\ rpc' = "r_asleep"
          /\ UNCHANGED waitForRead
    /\ UNCHANGED <<ringVars, waitForWrite, flags, writerVars, seen, header, rlen, top,
                   needDispose, delivered, spc, mark>>

ReadMore ==
    /\ rpc = "r_copy"
    /\ top' = ReadFromBuffer(top, header.length - rlen, Index(poped), Part)
    /\ rpc' = "pop"
    /\ UNCHANGED <<ringVars, waitForWrite, waitForRead, mutex, flags, writerVars, seen,
                   header, rlen, needDispose, delivered, spc, mark>>

(* receive() calls read after the dummy header of await, too *)
ReadDummy ==
    /\ Kind = "response"
    /\ rpc = "interrupted"
    /\ rlen' = 0
    /\ top' = <<>>
    /\ poped' = poped + HeaderSize
    /\ rpc' = "look"
    /\ UNCHANGED <<buf, pushed, waitForWrite, waitForRead, mutex, flags, writerVars, seen,
                   header, needDispose, delivered, spc, mark>>

ReaderStep ==
    \/ LoadFlags \/ CheckStored \/ WaitToRead \/ TestMessage \/ ReaderWakes
    \/ Read \/ Payload \/ Dispose \/ Pop \/ LookForWriter \/ NotifyWriter
    \/ TestPart \/ ReadMore \/ ReadDummy

(***************************************************************************)
(* terminate, notify, close, notify_shutdown and force_close: a flag goes  *)
(* up, then the side that may wait for it is notified.  close of a         *)
(* response wire notifies both sides, force_close only the writer.         *)
(* Mutants: the notification is left out.                                  *)
(***************************************************************************)
Raise(s) ==
    /\ s \in Raised
    /\ spc[s] = "idle"
    /\ flags' = flags \cup {Flag(s)}
    /\ mark' = IF Flag(s) \in flags THEN mark ELSE [mark EXCEPT ![Flag(s)] = Len(sent)]
    /\ spc' = [spc EXCEPT ![s] = IF Flag(s) = "closed" THEN "look_w" ELSE "look_r"]
    /\ UNCHANGED <<ringVars, waitForWrite, waitForRead, mutex, writerVars, readerVars>>

AfterWriter(s) == IF Kind = "response" /\ s = "close" THEN "look_r" ELSE "done"

SignalWriter_Silent(s) ==
    /\ spc[s] = "look_w"
    /\ spc' = [spc EXCEPT ![s] = AfterWriter(s)]
    /\ UNCHANGED <<ringVars, waitForWrite, waitForRead, mutex, flags, writerVars,
                   readerVars, mark>>
SignalWriter(s) ==
    /\ \/ /\ spc[s] = "look_w"
          /\ spc' = [spc EXCEPT ![s] = IF waitForWrite THEN "notify_w" ELSE AfterWriter(s)]
          /\ UNCHANGED wpc
       \/ /\ spc[s] = "notify_w"
          /\ mutex = "free"
          /\ WakeWriter
          /\ spc' = [spc EXCEPT ![s] = AfterWriter(s)]
    /\ UNCHANGED <<ringVars, waitForWrite, waitForRead, mutex, flags, wlen, woff, sent,
                   readerVars, mark>>

SignalReader_Silent(s) ==
    /\ spc[s] = "look_r"
    /\ spc' = [spc EXCEPT ![s] = "done"]
    /\ UNCHANGED <<ringVars, waitForWrite, waitForRead, mutex, flags, writerVars,
                   readerVars, mark>>
SignalReader(s) ==
    /\ \/ /\ spc[s] = "look_r"
          /\ spc' = [spc EXCEPT ![s] = IF waitForRead THEN "notify_r" ELSE "done"]
          /\ UNCHANGED rpc
       \/ /\ spc[s] = "notify_r"
          /\ mutex = "free"
          /\ WakeReader
          /\ spc' = [spc EXCEPT ![s] = "done"]
    /\ UNCHANGED <<ringVars, waitForWrite, waitForRead, mutex, flags, writerVars, seen,
                   header, rlen, top, needDispose, delivered, mark>>

Next ==
    \/ \E l \in Lengths : Write(l)
    \/ WriterStep
    \/ ReaderStep
    \/ Expire
    \/ \E s \in Signals : Raise(s) \/ SignalWriter(s) \/ SignalReader(s)

Spec == Init /\ [][Next]_vars

(***************************************************************************)
(* A thread inside write, peep, await, read or a signal runs on; nothing   *)
(* makes a client write or a thread raise a signal.  A timed wait that     *)
(* nobody ends does expire.                                                *)
(***************************************************************************)
Fairness ==
    /\ WF_vars(WriterStep)
    /\ WF_vars(ReaderStep)
    /\ WF_vars(Expire)
    /\ \A s \in Signals : WF_vars(SignalWriter(s) \/ SignalReader(s))

FairSpec == Spec /\ Fairness

(***************************************************************************)
(* Properties                                                              *)
(***************************************************************************)
Bytes == Nat \X Nat

(* The variables have their types. *)
TypeOK ==
    /\ buf \in [0 .. Capacity - 1 -> Bytes]
    /\ pushed \in Nat /\ poped \in Nat
    /\ waitForWrite \in BOOLEAN /\ waitForRead \in BOOLEAN
    /\ mutex \in {"free", "writer", "reader"}
    /\ flags \subseteq Flags
    /\ wpc \in {"idle", "room", "lock", "testing", "asleep", "woken", "check", "copy",
                "push", "look", "notify"}
    /\ wlen \in Nat /\ woff \in Nat
    /\ rpc \in {"idle", "stored", "lock", "testing", "asleep", "woken", "header", "viewing",
                "pop", "look", "notify", "r_lock", "r_testing", "r_asleep", "r_woken",
                "r_copy", "interrupted", "over"}
    /\ seen \subseteq Flags
    /\ header \in [msg : Nat, length : Nat]
    /\ rlen \in Nat /\ needDispose \in Nat
    /\ top \in Seq(Bytes)
    /\ spc \in [Signals -> {"idle", "look_w", "notify_w", "look_r", "notify_r", "done"}]
    /\ sent \in Seq([at : Nat, length : Nat])
    /\ delivered \in Seq(Seq(Bytes))
    /\ mark \in [Flags -> Nat \cup {-1}]

(* receive() has called read after a dummy header *)
DummyRead == rpc = "over" \/ (rpc \in {"look", "notify"} /\ header.msg = 0)

(***************************************************************************)
(* The ring never holds less than nothing or more than its capacity:       *)
(* whatever the two sides do between looking at the counters and moving    *)
(* them, no byte is overwritten before it was read.                        *)
(***************************************************************************)
Bounded == TypeOK /\ (~DummyRead => poped <= pushed /\ pushed <= poped + Capacity)

PayloadOf(m) == [k \in 1 .. sent[m].length |-> <<m, HeaderSize + (k - 1)>>]

(***************************************************************************)
(* payload() is "the view of the first request message in the queue": all  *)
(* the bytes it shows are those of the message, and the writer leaves them *)
(* alone until dispose.                                                    *)
(***************************************************************************)
ViewIntact == rpc = "viewing" => View = PayloadOf(header.msg)

(***************************************************************************)
(* No wakeup is lost though the flags are looked at without the mutex:     *)
(* when a side sleeps and what it waits for is there, somebody who will    *)
(* notify it is on the way.  (force_close does not care for the reader.)   *)
(***************************************************************************)
NoLostWakeup ==
    /\ \/ rpc = "asleep" /\ Stored >= HeaderSize
       \/ rpc = "r_asleep" /\ Stored >= Part
       => wpc \in {"look", "notify"}
    /\ wpc = "asleep" /\ Room >= Piece => rpc \in {"look", "notify"}
    /\ \A f \in flags \cap ReaderFlags :
           rpc = "asleep" /\ f # "closed" =>
               \E s \in Signals : Flag(s) = f /\ spc[s] \in {"look_r", "notify_r"}
    /\ wpc = "asleep" /\ "closed" \in flags =>
           \E s \in Signals : spc[s] \in {"look_w", "notify_w"}

(***************************************************************************)
(* The wire is a channel: messages arrive whole, once and in order, and    *)
(* peep and await report the end only after what was written before it.    *)
(***************************************************************************)
Channel == INSTANCE MessageChannel WITH
    Message <- Seq(Bytes),
    accepted <- [m \in DOMAIN sent |-> PayloadOf(m)],
    received <- delivered,
    cuts <- {mark[f] : f \in ReaderFlags} \ {-1},
    ended <- rpc = "interrupted" \/ DummyRead

IsChannel == Channel!Spec

(***************************************************************************)
(* A message that was published is delivered, unless the reader was told   *)
(* to stop or the wire was closed in the middle of it.                     *)
(***************************************************************************)
Delivery ==
    \A n \in 1 .. MaxMessages :
        Len(sent) >= n ~> \/ Len(delivered) >= n
                          \/ rpc \in {"interrupted", "over"}
                          \/ "closed" \in flags

(***************************************************************************)
(* A reader that waits for a message hears terminate, notify and           *)
(* notify_shutdown, whenever they come.                                    *)
(***************************************************************************)
SignalHeard ==
    \A s \in Signals : spc[s] # "idle" /\ Flag(s) # "closed"
        ~> rpc \in {"interrupted", "over"} \/ "closed" \in flags

(* A writer that waits for room is released when the wire is closed. *)
CloseReleasesWriter == "closed" \in flags /\ wpc # "idle" ~> wpc = "idle"
=============================================================================
