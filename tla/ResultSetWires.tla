--------------------------- MODULE ResultSetWires ---------------------------
(***************************************************************************)
(* The wires of a result set: unidirectional_simple_wires (transport/      *)
(* wire.h) and resultset_wires_container (transport/client_wire.h).        *)
(*                                                                         *)
(* Threads of the server each acquire a wire and write records to it, in   *)
(* pieces; flush makes a record visible.  One client reads the records of  *)
(* all the wires, until the server has marked the end of the records, the  *)
(* server is found dead, or it closes the result set.  A thread of the     *)
(* server waits on c_full_ of its wire, the client on c_record_.           *)
(*                                                                         *)
(* A cell of a buffer holds a header, which is the length of the record,   *)
(* or the wire and number of the record that it belongs to.  The server is *)
(* not in this repository: its threads do what the test mock of it does.   *)
(***************************************************************************)
EXTENDS Integers, Sequences, FiniteSets, FiniteSetsExt, TLC

CONSTANTS
    Count,       \* bound: the number of wires
    Capacity,    \* buffer_size, in cells; a header takes one
    Buffers,     \* the buffers that fit in the shared memory
    Writers,     \* the threads of the server
    Records,     \* the records that may be written: the lengths of their pieces
    MaxRecords,  \* bound: records written and wires released, by the number of wires
    Crashes      \* whether the server may crash

HeaderSize == 1

SizeModulus == 2^16

Length(r) == IF r = <<>> THEN 0 ELSE IF Len(r) = 1 THEN r[1] ELSE r[1] + r[2]

ASSUME ResultSetAssumption ==
    /\ Count \in Nat \ {0} /\ Capacity \in Nat /\ Crashes \in BOOLEAN
    /\ MaxRecords \in [1 .. Count -> Nat]
    /\ \A r \in Records : Len(r) \in 1 .. 2 /\ Length(r) + HeaderSize <= Capacity
    /\ 0 \notin Buffers

Wires == 1 .. Count

VARIABLES
    wire,        \* the fields of each unidirectional_simple_wire
    buffer,      \* the cells of each buffer
    pool,        \* number of wires, reserved_, count_using_, next_index_, buffers leaked
    eor,         \* eor_
    closed,      \* closed_
    alive,       \* the server has its lock
    orphaned,    \* the server has died holding m_record_
    writer,      \* of each thread of the server: place, wire, pieces to write
    written,     \* the number of records started and of wires released
    ender,       \* where the thread is that calls set_eor
    reader,      \* of the client: place, wire looked at, eor, timed out, the chunk
    accepted,    \* the records flushed to each wire
    received,    \* the records that the client has read from it
    cut          \* for each wire how many had been flushed at set_eor

server == <<writer, written, ender>>
ghosts == <<accepted, received, cut>>
health == <<alive, orphaned>>
vars == <<wire, buffer, pool, eor, closed, health, server, reader, ghosts>>

NoBuffer == 0
NoChunk == [at |-> 0, length |-> 0, copy |-> <<>>]

Init ==
    /\ wire = [i \in Wires |-> [handle |-> NoBuffer, pushed |-> 0, valid |-> 0, poped |-> 0,
                                continued |-> FALSE, closed |-> FALSE, waiting |-> FALSE]]
    /\ buffer = [b \in Buffers |-> [c \in 0 .. Capacity - 1 |-> <<>>]]
    /\ pool \in [count : Wires, reserved : {Min(Buffers)}, using : {0}, next : {0}, lost : {{}}]
    /\ eor = FALSE /\ closed = FALSE /\ alive = TRUE /\ orphaned = FALSE
    /\ writer = [w \in Writers |-> [at |-> "idle", on |-> 0, pieces |-> <<>>]]
    /\ written = 0
    /\ ender = "waits"
    /\ reader = [at |-> "scan", on |-> 1, eor |-> FALSE, late |-> FALSE, chunk |-> NoChunk]
    /\ accepted = [i \in Wires |-> <<>>]
    /\ received = [i \in Wires |-> <<>>]
    /\ cut = [i \in Wires |-> {}]

-----------------------------------------------------------------------------
(* room(), of type std::size_t, once more than the capacity is pushed *)
Room(i) == (Capacity - (wire[i].pushed - wire[i].poped)) % SizeModulus

has_record(i) == wire[i].valid > wire[i].poped

Cell(position) == position % Capacity

Free == Buffers \ ({pool.reserved} \cup pool.lost \cup {wire[i].handle : i \in Wires})

SetWire(i, fields) == wire' = [wire EXCEPT ![i] = fields @@ @]

At(w, place) == writer' = [writer EXCEPT ![w].at = place]

ReaderAt(place) == reader' = [reader EXCEPT !.at = place]

(* The client is in the wait on c_record_ and has the mutex. *)
ReaderLocked == reader.at \in {"test", "test_scan"}

-----------------------------------------------------------------------------
(* acquire and release, which the server calls one at a time. *)

FreeWires == {i \in 1 .. pool.count : i <= pool.next /\ wire[i].handle = NoBuffer}

search_free_wire == IF pool.using = pool.next THEN pool.next + 1 ELSE Min(FreeWires)

(* mutant: reserved_ is not set to nullptr *)
Taken_StillReserved(b, next, lost) ==
    [pool EXCEPT !.using = @ + 1, !.next = next, !.lost = @ \cup lost]

Taken(b, next, lost) ==
    [pool EXCEPT !.reserved = IF b = @ THEN NoBuffer ELSE @,
                 !.using = @ + 1, !.next = next, !.lost = @ \cup lost]

(* the buffers that acquire may come by *)
Offered == IF pool.reserved # NoBuffer THEN {pool.reserved} ELSE Free

Attach(w, i, b, next) ==
    /\ SetWire(i, [handle |-> b])
    /\ pool' = Taken(b, next, {})
    /\ writer' = [writer EXCEPT ![w].at = "ready", ![w].on = i]

acquire(w) ==
    /\ alive /\ writer[w].at = "idle"
    /\ \/ pool.using = 0 /\ Attach(w, 1, pool.reserved, 1)
       \/ /\ pool.using # 0 /\ search_free_wire <= pool.count
          /\ \E b \in Offered :
                Attach(w, search_free_wire, b, Max({search_free_wire, pool.next}))
    /\ UNCHANGED <<buffer, eor, closed, health, written, ender, reader, ghosts>>

(* The shared memory, in which there are other things too, has no room for *)
(* a buffer, or no wire is left: acquire throws, and the server gives up.  *)
(* A missing wire costs the buffer, and is counted as in use.              *)
AcquireFails(w) ==
    /\ alive /\ writer[w].at = "idle" /\ pool.using # 0
    /\ \/ pool.reserved = NoBuffer /\ UNCHANGED pool
       \/ /\ search_free_wire > pool.count
          /\ \E b \in Offered : pool' = Taken(b, search_free_wire, {b})
    /\ At(w, "done")
    /\ UNCHANGED <<wire, buffer, eor, closed, health, written, ender, reader, ghosts>>

(* The server releases a wire that the client has read to the end, and may *)
(* acquire one again.  That it has been read is not tested by the code,    *)
(* which would drop the records that are left: it is what is asked of the  *)
(* server here, which is not in this repository.                           *)
release(w) ==
    LET i == writer[w].on IN
    /\ alive /\ writer[w].at = "ready"
    /\ ~has_record(i) /\ ~wire[i].continued
    /\ written < MaxRecords[pool.count] /\ written' = written + 1
    /\ SetWire(i, [handle |-> NoBuffer])
    /\ pool' = [pool EXCEPT !.reserved = IF @ = NoBuffer THEN wire[i].handle ELSE @,
                            !.using = @ - 1]
    /\ writer' = [writer EXCEPT ![w].at = "idle", ![w].on = 0]
    /\ UNCHANGED <<buffer, eor, closed, health, ender, reader, ghosts>>

-----------------------------------------------------------------------------
(* A thread of the server writes. *)

(* It starts a record, or writes the next piece of one; once the client    *)
(* has closed the wire nothing is written.                                 *)
Write(w) ==
    LET i == writer[w].on IN
    /\ alive /\ writer[w].at = "ready"
    /\ \/ /\ ~wire[i].continued /\ written < MaxRecords[pool.count]
          /\ written' = written + 1
          /\ \E r \in Records :
                writer' = [writer EXCEPT ![w].at = IF wire[i].closed THEN "ready" ELSE "brand_new",
                                         ![w].pieces = IF wire[i].closed THEN <<>> ELSE r]
       \/ /\ wire[i].continued /\ writer[w].pieces # <<>>
          /\ IF wire[i].closed THEN writer' = [writer EXCEPT ![w].pieces = Tail(@)]
             ELSE At(w, "write")
          /\ UNCHANGED written
    /\ UNCHANGED <<wire, buffer, pool, eor, closed, health, ender, reader, ghosts>>

Waits == [brand_new |-> "brand_new_lock", write |-> "write_lock",
          brand_new_lock |-> "brand_new_test", write_lock |-> "write_test",
          brand_new_test |-> "brand_new_asleep", write_test |-> "write_asleep"]

Needed(w) == IF writer[w].at \in {"brand_new", "brand_new_test"} THEN HeaderSize
             ELSE Head(writer[w].pieces)

Fits(w) == Room(writer[w].on) >= Needed(w)

brand_new(w, waiting) ==
    /\ SetWire(writer[w].on, [pushed |-> wire[writer[w].on].pushed + HeaderSize,
                              continued |-> TRUE, waiting |-> waiting])
    /\ At(w, "write")
    /\ UNCHANGED buffer

write_in_buffer(w, waiting) ==
    LET i == writer[w].on
        n == Head(writer[w].pieces)
        cells == {Cell(wire[i].pushed + k) : k \in 0 .. n - 1}
    IN  /\ buffer' = [buffer EXCEPT ![wire[i].handle] =
                          [c \in DOMAIN @ |-> IF c \in cells THEN <<i, Len(accepted[i]) + 1>> ELSE @[c]]]
        /\ SetWire(i, [pushed |-> wire[i].pushed + n, waiting |-> waiting])
        /\ writer' = [writer EXCEPT ![w].at = "ready", ![w].pieces = Tail(@)]

Push(w, waiting) ==
    IF writer[w].at \in {"brand_new", "brand_new_test"}
    THEN brand_new(w, waiting) ELSE write_in_buffer(w, waiting)

(* The room is looked at without the mutex first. *)
TryPush(w) ==
    /\ alive /\ writer[w].at \in {"brand_new", "write"}
    /\ IF Fits(w) THEN Push(w, wire[writer[w].on].waiting)
       ELSE At(w, Waits[writer[w].at]) /\ UNCHANGED <<wire, buffer>>
    /\ UNCHANGED <<pool, eor, closed, health, written, ender, reader, ghosts>>

(* wait_to_resultset_write: with the mutex it tells that it waits, then    *)
(* looks at the room again, and sleeps unless the wire has been closed.    *)
WaitForWrite(w) ==
    /\ alive /\ writer[w].at \in {"brand_new_lock", "write_lock"}
    /\ SetWire(writer[w].on, [waiting |-> TRUE])
    /\ At(w, Waits[writer[w].at])
    /\ UNCHANGED <<buffer, pool, eor, closed, health, written, ender, reader, ghosts>>

TestRoom(w) ==
    /\ alive /\ writer[w].at \in {"brand_new_test", "write_test"}
    /\ IF Fits(w) \/ wire[writer[w].on].closed THEN Push(w, FALSE)
       ELSE At(w, Waits[writer[w].at]) /\ UNCHANGED <<wire, buffer>>
    /\ UNCHANGED <<pool, eor, closed, health, written, ender, reader, ghosts>>

(* flush writes the header and makes the record visible; then it notifies. *)
flush(w) ==
    LET i == writer[w].on
        length == wire[i].pushed - (wire[i].valid + HeaderSize)
    IN  /\ alive /\ writer[w].at = "ready"
        /\ wire[i].continued /\ writer[w].pieces = <<>>
        /\ buffer' = [buffer EXCEPT ![wire[i].handle][Cell(wire[i].valid)] = <<length>>]
        /\ SetWire(i, [valid |-> wire[i].pushed])
        /\ accepted' = [accepted EXCEPT ![i] =
                           Append(@, [k \in 1 .. length |-> <<i, Len(@) + 1>>])]
        /\ At(w, "notify")
        /\ UNCHANGED <<pool, eor, closed, health, written, ender, reader, received, cut>>

NotifyReader == reader' = [reader EXCEPT !.at = IF @ = "asleep" THEN "test" ELSE @]

notify_record_arrival(w) ==
    /\ alive /\ writer[w].at = "notify"
    /\ ~ReaderLocked
    /\ NotifyReader
    /\ SetWire(writer[w].on, [continued |-> FALSE])
    /\ writer' = [writer EXCEPT ![w].at = "ready", ![w].pieces = <<>>]
    /\ UNCHANGED <<buffer, pool, eor, closed, health, written, ender, ghosts>>

(* A writer that has written its records and keeps its wire. *)
Leave(w) ==
    /\ alive /\ writer[w].at = "ready"
    /\ ~wire[writer[w].on].continued
    /\ writer' = [writer EXCEPT ![w].at = "done", ![w].on = 0]
    /\ UNCHANGED <<wire, buffer, pool, eor, closed, health, written, ender, reader, ghosts>>

(* The server marks the end of the records when its threads are done. *)
set_eor ==
    /\ alive /\ ender = "waits"
    /\ \A w \in Writers : writer[w].at = "done"
    /\ eor' = TRUE /\ ender' = "notify"
    /\ cut' = [i \in Wires |-> {Len(accepted[i])}]
    /\ UNCHANGED <<wire, buffer, pool, closed, health, writer, written, reader, accepted, received>>

NotifyEor ==
    /\ alive /\ ender = "notify"
    /\ ~ReaderLocked
    /\ NotifyReader
    /\ ender' = "done"
    /\ UNCHANGED <<wire, buffer, pool, eor, closed, health, writer, written, ghosts>>

(* A thread of the server may have the mutex of c_record_ when it dies. *)
Crash ==
    /\ Crashes /\ alive
    /\ alive' = FALSE
    /\ \/ UNCHANGED orphaned
       \/ /\ ender = "notify" \/ \E w \in Writers : writer[w].at = "notify"
          /\ ~ReaderLocked
          /\ orphaned' = TRUE
    /\ UNCHANGED <<wire, buffer, pool, eor, closed, server, reader, ghosts>>

-----------------------------------------------------------------------------
(* The client: get_chunk, dispose and set_closed. *)

Look(at, on) == reader' = [reader EXCEPT !.at = at, !.on = on]

(* What the test of the predicate has found is forgotten after it. *)
Tested(at) == reader' = [reader EXCEPT !.at = at, !.eor = FALSE, !.late = FALSE]

(* mutant: eor_ is looked at after the loop without the mutex *)
Scan_EorUnlocked ==
    /\ reader.at \in {"scan", "test_scan"}
    /\ \/ has_record(reader.on) /\ Tested("get_chunk")
       \/ ~has_record(reader.on) /\ reader.on < pool.count /\ Look(reader.at, reader.on + 1)
       \/ /\ ~has_record(reader.on) /\ reader.on = pool.count
          /\ Tested(IF reader.at = "scan" /\ ~eor THEN "lock" ELSE IF eor THEN "null"
                    ELSE IF reader.late THEN "throw" ELSE "asleep")
    /\ UNCHANGED <<wire, buffer, pool, eor, closed, health, server, ghosts>>

(* the loop over the wires, without the mutex and with it *)
Scan ==
    /\ reader.at \in {"scan", "test_scan"}
    /\ \/ has_record(reader.on) /\ Tested("get_chunk")
       \/ ~has_record(reader.on) /\ reader.on < pool.count /\ Look(reader.at, reader.on + 1)
       \/ /\ ~has_record(reader.on) /\ reader.on = pool.count
          /\ Tested(IF reader.at = "scan" THEN "lock" ELSE IF reader.eor THEN "null"
                    ELSE IF reader.late THEN "throw" ELSE "asleep")
    /\ UNCHANGED <<wire, buffer, pool, eor, closed, health, server, ghosts>>

Lock ==
    /\ reader.at = "lock" /\ ~orphaned
    /\ ReaderAt("test")
    /\ UNCHANGED <<wire, buffer, pool, eor, closed, health, server, ghosts>>

(* The predicate of the wait loads eor_ before it looks at the wires. *)
TestEor ==
    /\ reader.at = "test"
    /\ reader' = [reader EXCEPT !.at = "test_scan", !.on = 1, !.eor = eor]
    /\ UNCHANGED <<wire, buffer, pool, eor, closed, health, server, ghosts>>

(* timed_wait evaluates the predicate once more when the time is over. *)
TimeOut ==
    /\ reader.at = "asleep" /\ ~orphaned
    /\ reader' = [reader EXCEPT !.at = "test", !.late = TRUE]
    /\ UNCHANGED <<wire, buffer, pool, eor, closed, health, server, ghosts>>

(* mutant: the client does not ask whether the server is alive *)
Caught_Patient ==
    /\ reader.at = "throw"
    /\ Look("scan", 1)
    /\ UNCHANGED <<wire, buffer, pool, eor, closed, health, server, ghosts>>

(* get_chunk of the container goes on if the server is alive. *)
Caught ==
    /\ reader.at = "throw"
    /\ IF alive THEN Look("scan", 1) ELSE ReaderAt("failed")
    /\ UNCHANGED <<wire, buffer, pool, eor, closed, health, server, ghosts>>

(* get_chunk of the wire gives a view of the buffer, or two if the record  *)
(* is wrapped around, which the container then copies.                     *)
Page(position) == position \div Capacity

get_chunk ==
    LET i == reader.on
        b == buffer[wire[i].handle]
        length == b[Cell(wire[i].poped)][1]
        first == wire[i].poped + HeaderSize
        end == Page(wire[i].valid) * Capacity
        View(from, n) == [k \in 1 .. n |-> b[Cell(from + k - 1)]]
    IN  /\ reader.at = "get_chunk"
        /\ reader' = [reader EXCEPT !.at = "have", !.chunk =
               IF Page(first) = Page(first + length - 1)
               THEN [at |-> first, length |-> length, copy |-> <<>>]
               ELSE [at |-> first, length |-> length,
                     copy |-> View(first, end - first) \o View(end, length - (end - first))]]
        /\ UNCHANGED <<wire, buffer, pool, eor, closed, health, server, ghosts>>

(* What the client has seen of the chunk by the time that it disposes of it. *)
Seen ==
    IF reader.chunk.copy # <<>> THEN reader.chunk.copy
    ELSE [k \in 1 .. reader.chunk.length |->
             buffer[wire[reader.on].handle][Cell(reader.chunk.at + k - 1)]]

dispose ==
    LET i == reader.on IN
    /\ reader.at = "have"
    /\ received' = [received EXCEPT ![i] = Append(@, Seen)]
    /\ SetWire(i, [poped |-> wire[i].poped + HeaderSize
                             + buffer[wire[i].handle][Cell(wire[i].poped)][1]])
    /\ reader' = [reader EXCEPT !.at = "disposed", !.chunk = NoChunk]
    /\ UNCHANGED <<buffer, pool, eor, closed, health, server, accepted, cut>>

(* c_full_.notify_one(), with the mutex, which a writer that is about to   *)
(* sleep does not give up before it sleeps.                                *)
WriterLocked(i) ==
    \E w \in Writers : writer[w].on = i /\ writer[w].at \in {"brand_new_test", "write_test"}

NotifyWriter(i) ==
    writer' = [w \in Writers |->
        [writer[w] EXCEPT !.at = IF writer[w].on # i THEN @
                                 ELSE IF @ = "brand_new_asleep" THEN "brand_new_test"
                                 ELSE IF @ = "write_asleep" THEN "write_test" ELSE @]]

WakeWriter(i) ==
    IF wire[i].waiting THEN ~WriterLocked(i) /\ NotifyWriter(i) ELSE UNCHANGED writer

NotifyDisposed ==
    /\ reader.at = "disposed"
    /\ WakeWriter(reader.on)
    /\ Look("scan", 1)
    /\ UNCHANGED <<wire, buffer, pool, eor, closed, health, written, ender, ghosts>>

(* set_closed of one wire after the other, whenever the client likes. *)
set_closed(i) ==
    /\ SetWire(i, [closed |-> TRUE])
    /\ Look("close_notify", i)
    /\ UNCHANGED <<buffer, pool, eor, closed, health, server, ghosts>>

Close ==
    /\ reader.at \in {"scan", "have"} /\ (reader.at = "scan" => reader.on = 1)
    /\ set_closed(1)

CloseNext == reader.at = "close" /\ set_closed(reader.on)

(* mutant: set_closed wakes nobody *)
NotifyClosed_Silent ==
    /\ reader.at = "close_notify"
    /\ IF reader.on < pool.count THEN Look("close", reader.on + 1) /\ UNCHANGED closed
       ELSE ReaderAt("closed") /\ closed' = TRUE
    /\ UNCHANGED <<wire, buffer, pool, eor, health, server, ghosts>>

NotifyClosed ==
    /\ reader.at = "close_notify"
    /\ WakeWriter(reader.on)
    /\ IF reader.on < pool.count THEN Look("close", reader.on + 1) /\ UNCHANGED closed
       ELSE ReaderAt("closed") /\ closed' = TRUE
    /\ UNCHANGED <<wire, buffer, pool, eor, health, written, ender, ghosts>>

-----------------------------------------------------------------------------
WriterStep(w) ==
    \/ acquire(w) \/ AcquireFails(w) \/ Write(w) \/ TryPush(w) \/ WaitForWrite(w)
    \/ TestRoom(w) \/ flush(w) \/ notify_record_arrival(w) \/ Leave(w)

ReaderStep ==
    \/ Scan \/ Lock \/ TestEor \/ TimeOut \/ Caught \/ get_chunk \/ dispose
    \/ NotifyDisposed \/ CloseNext \/ NotifyClosed

Ender == set_eor \/ NotifyEor

Next ==
    \/ \E w \in Writers : WriterStep(w) \/ release(w)
    \/ ReaderStep \/ Close \/ Ender \/ Crash

Spec == Init /\ [][Next]_vars

(* The threads of the server and of the client run; nobody has to release  *)
(* a wire or to close the result set, and the server need not crash.  The  *)
(* client, which sleeps for seconds, does not keep the others from the     *)
(* mutex of c_record_ for ever.                                            *)
FairSpec ==
    /\ Spec
    /\ WF_vars(ReaderStep) /\ WF_vars(set_eor) /\ SF_vars(NotifyEor)
    /\ \A w \in Writers : WF_vars(WriterStep(w)) /\ SF_vars(notify_record_arrival(w))

-----------------------------------------------------------------------------
TypeOK ==
    /\ \A i \in Wires :
          /\ wire[i].handle \in Buffers \cup {NoBuffer}
          /\ wire[i].poped <= wire[i].valid /\ wire[i].valid <= wire[i].pushed
    /\ pool.reserved \in Buffers \cup {NoBuffer}
    /\ pool.using \in 0 .. pool.next
    /\ pool.count \in Wires /\ reader.on \in 1 .. pool.count
    /\ written \in 0 .. MaxRecords[pool.count]
    /\ {eor, closed, alive, orphaned} \subseteq BOOLEAN

(* However acquire and release alternate, and whatever acquire has failed, *)
(* no buffer belongs to two wires or to a wire and the reserve, acquire    *)
(* finds the reserved buffer when no wire is in use, and search_free_wire  *)
(* does not reach its std::abort.                                          *)
BuffersApart ==
    LET used == {i \in Wires : wire[i].handle # NoBuffer} IN
    /\ TypeOK
    /\ \A i, j \in used : i # j => wire[i].handle # wire[j].handle
    /\ pool.reserved \notin {wire[i].handle : i \in used}
    /\ pool.using = 0 => used = {} /\ pool.reserved # NoBuffer
    /\ pool.using # pool.next => pool.using = 0 \/ FreeWires # {}

Channel(i) ==
    INSTANCE MessageChannel WITH
        Message <- Seq(Wires \X Nat),
        accepted <- accepted[i], received <- received[i], cuts <- cut[i],
        ended <- reader.at = "null"

(* Every wire is a first-in first-out channel: each chunk that the client  *)
(* gets and has until it disposes of it is the next record as it was       *)
(* written, however it lies in the buffer and in how many pieces it came;  *)
(* and the end of the records is reported only when none is left on any of *)
(* the wires.                                                              *)
Channels ==
    /\ \A i \in Wires : Channel(i)!Init
    /\ [][\A i \in Wires : [Channel(i)!Next]_(Channel(i)!vars)]_vars

(* A writer that sleeps because its buffer is full is woken when the       *)
(* client reads or closes the result set: no wake-up is lost although the  *)
(* client looks at wait_for_write_ without the mutex.                      *)
WriterGoesOn ==
    \A w \in Writers :
        writer[w].at \in {"brand_new_asleep", "write_asleep"}
            ~> writer[w].at \notin {"brand_new_asleep", "write_asleep"} \/ ~alive

(* What the client can wait for without end: a mutex that the server had   *)
(* when it died.                                                           *)
MutexLost ==
    \/ orphaned /\ reader.at \in {"lock", "asleep"}
    \/ ~alive /\ reader.at \in {"disposed", "close_notify"} /\ WriterLocked(reader.on)

(* get_chunk ends, with the end of the records or because the server is    *)
(* dead, and so do dispose and set_closed, unless a mutex is lost.         *)
ReaderEnds == <>[](reader.at \in {"null", "failed", "closed"} \/ MutexLost)
=============================================================================
