--------------------------- MODULE SessionReceive ---------------------------
(***************************************************************************)
(* session_wire_container (transport/client_wire.h): how the threads of a  *)
(* client share one session.                                               *)
(*                                                                         *)
(* The main thread and the timer that renews the session each take a slot, *)
(* send a request that carries the index of the slot and call receive().   *)
(* There is one response wire, so whoever wins using_wire_ reads it for    *)
(* everybody: its own response it keeps, any other it puts in the slot it  *)
(* is for.  Those that do not read sleep on cnd_receive_ until their slot  *)
(* is filled or the wire is free.                                          *)
(*                                                                         *)
(* mtx_receive_ is held only around the wait, never by those that change   *)
(* what is waited for: testing the predicate and going to sleep are two    *)
(* steps, and a notify_all between them reaches nobody.  The wires are     *)
(* FIFO channels (SimpleWire shows that they are); the server answers the  *)
(* requests in any order, each with a body or with a body head and a body. *)
(* Once the server has shut the session down (notify_shutdown), await of   *)
(* an empty wire returns a header that belongs to no message: a stray.     *)
(***************************************************************************)
EXTENDS Integers, Sequences, FiniteSets

CONSTANTS
    Users,          \* the threads of the client
    SlotSize,       \* slot_size
    Replies,        \* the replies a request may have, as sequences of types
    Crashes,        \* TRUE: the server may die
    Shutdowns,      \* TRUE: the server may shut the session down
    MaxRequests,    \* bound: requests made in one behaviour
    MaxStrays       \* bound: headers without a message taken in one behaviour

Slots == 0 .. SlotSize - 1
Types == {"RESPONSE_BODYHEAD", "RESPONSE_BODY"}

ASSUME SessionAssumption ==
    /\ SlotSize \in Nat \ {0}
    /\ Replies \subseteq {<<"RESPONSE_BODY">>, <<"RESPONSE_BODYHEAD", "RESPONSE_BODY">>}
    /\ Crashes \in BOOLEAN
    /\ Shutdowns \in BOOLEAN
    /\ MaxRequests \in Nat
    /\ MaxStrays \in Nat

VARIABLES
    slot,       \* slot_status_
    using,      \* using_wire_
    wire,       \* the response wire, from the oldest message to the newest
    pending,    \* the requests at the server and what it has still to answer
    alive,      \* the server runs and owns the lock of its mutex file
    probed,     \* another process has that lock for a moment, to test it
    shutdown,   \* shutdown_ of the response wire
    strays,     \* the headers taken that belong to no message
    pc,         \* of a thread: where it is
    at,         \*   slot_index, or where search_slot looks
    req,        \*   the number of its request
    parts,      \*   the types of the messages it has still to receive
    header,     \*   header_received
    message,    \*   res_message
    todo,       \*   what it does after notify_all: return, loop or throw
    requests    \* the number of requests made

thread == <<at, req, parts, header, message, todo>>
server == <<pending, alive, probed, shutdown, requests>>
vars == <<slot, using, wire, strays, server, pc, thread>>

Empty == [idx |-> -1, type |-> "none", req |-> 0]
Messages == [idx : Slots, type : Types, req : 1 .. MaxRequests]

(* response_header(0, 0, 0); and what the bytes after the last message of  *)
(* the wire may be taken for, an index out of range included.              *)
Dummy == [idx |-> 0, type |-> "none", req |-> 0]
Strays == [idx : 0 .. SlotSize, type : {"none", "RESPONSE_BODYHEAD"}, req : {0}]
FreeSlot == [in_use |-> FALSE, received |-> 0, consumed |-> 0, expected |-> 0,
             body |-> Empty, body_head |-> Empty]

Init ==
    /\ slot = [i \in Slots |-> FreeSlot]
    /\ using = FALSE
    /\ wire = << >>
    /\ pending = {}
    /\ alive = TRUE
    /\ probed = FALSE
    /\ shutdown = FALSE
    /\ strays = 0
    /\ pc = [u \in Users |-> "idle"]
    /\ at = [u \in Users |-> 0]
    /\ req = [u \in Users |-> 0]
    /\ parts = [u \in Users |-> << >>]
    /\ header = [u \in Users |-> Empty]
    /\ message = [u \in Users |-> Empty]
    /\ todo = [u \in Users |-> "loop"]
    /\ requests = 0

Goto(u, where) == pc' = [pc EXCEPT ![u] = where]

-----------------------------------------------------------------------------
(* class slot *)

Valid(s) == s.received > s.consumed

(* expected_ as pre_receive and receive_and_consume set it. *)
Expect(s, type) ==
    IF s.expected # 0 THEN s.expected ELSE IF type = "RESPONSE_BODYHEAD" THEN 2 ELSE 1

PreReceive_ByValue(s, msg) == [s EXCEPT !.expected = Expect(s, msg.type)]

(* pre_receive and the read into the string it has chosen. *)
PreReceive(s, msg) ==
    LET e == Expect(s, msg.type)
    IN  IF e = 2 /\ s.received = 0
        THEN [s EXCEPT !.expected = e, !.body_head = msg]
        ELSE [s EXCEPT !.expected = e, !.body = msg]

PostReceive(s) == [s EXCEPT !.received = @ + 1]

FinishReceive_Counted(s) == [FreeSlot EXCEPT !.in_use = s.in_use, !.received = s.received]

(* finish_receive but for its last statement, which frees the slot. *)
FinishReceive(s) == [FreeSlot EXCEPT !.in_use = s.in_use]

(* The message is a body head and another one follows. *)
FirstOfTwo(s, done) == s.expected = 2 /\ done = 0

-----------------------------------------------------------------------------
(* search_slot and send *)

Begin(u) ==
    /\ pc[u] = "idle"
    /\ requests < MaxRequests
    /\ requests' = requests + 1
    /\ req' = [req EXCEPT ![u] = requests + 1]
    /\ at' = [at EXCEPT ![u] = 0]
    /\ Goto(u, "search")
    /\ UNCHANGED <<slot, using, wire, strays, pending, alive, probed, shutdown, parts, header, message, todo>>

(* One test_and_set of the loop; after the last one "running out of slot". *)
SearchSlot(u) ==
    /\ pc[u] = "search"
    /\ IF at[u] = SlotSize
       THEN Goto(u, "failed") /\ UNCHANGED <<slot, at>>
       ELSE /\ slot' = [slot EXCEPT ![at[u]].in_use = TRUE]
            /\ IF slot[at[u]].in_use
               THEN at' = [at EXCEPT ![u] = @ + 1] /\ UNCHANGED pc
               ELSE Goto(u, "send") /\ UNCHANGED at
    /\ UNCHANGED <<using, wire, strays, server, req, parts, header, message, todo>>

Send(u) ==
    /\ pc[u] = "send"
    /\ \E reply \in Replies :
          /\ parts' = [parts EXCEPT ![u] = reply]
          /\ pending' = pending \cup {[idx |-> at[u], req |-> req[u], types |-> reply]}
    /\ Goto(u, "wait")
    /\ UNCHANGED <<slot, using, wire, strays, alive, probed, shutdown, requests, at, req, header, message, todo>>
-----------------------------------------------------------------------------
(* receive *)

(* The predicate of cnd_receive_.wait. *)
Ready(u) == Valid(slot[at[u]]) \/ ~using

TestPredicate(u) ==
    /\ pc[u] = "wait"
    /\ Goto(u, IF Ready(u) THEN "check" ELSE "drowsy")
    /\ UNCHANGED <<slot, using, wire, strays, server, thread>>

FallAsleep(u) ==
    /\ pc[u] = "drowsy"
    /\ Goto(u, "asleep")
    /\ UNCHANGED <<slot, using, wire, strays, server, thread>>

CheckSlot(u) ==
    /\ pc[u] = "check"
    /\ Goto(u, IF Valid(slot[at[u]]) THEN "consume" ELSE "cas")
    /\ UNCHANGED <<slot, using, wire, strays, server, thread>>

Consume(u) ==
    LET i == at[u]
        s == slot[i]
    IN  /\ pc[u] = "consume"
        /\ todo' = [todo EXCEPT ![u] = "return"]
        /\ IF FirstOfTwo(s, s.consumed)
           THEN /\ message' = [message EXCEPT ![u] = s.body_head]
                /\ slot' = [slot EXCEPT ![i].consumed = @ + 1]
                /\ Goto(u, "notify")
           ELSE /\ message' = [message EXCEPT ![u] = s.body]
                /\ slot' = [slot EXCEPT ![i] = FinishReceive(s)]
                /\ Goto(u, "clear")
        /\ UNCHANGED <<using, wire, strays, server, at, req, parts, header>>

(* in_use_.clear(), of a message from the slot and of one from the wire. *)
ClearInUse(u) ==
    /\ pc[u] \in {"clear", "clear_own"}
    /\ slot' = [slot EXCEPT ![at[u]].in_use = FALSE]
    /\ Goto(u, IF pc[u] = "clear" THEN "notify" ELSE "free")
    /\ UNCHANGED <<using, wire, strays, server, thread>>

Cas_NoTest(u) ==
    /\ pc[u] = "cas"
    /\ using' = TRUE
    /\ Goto(u, "await")
    /\ UNCHANGED <<slot, wire, strays, server, thread>>

Cas(u) ==
    /\ pc[u] = "cas"
    /\ ~using
    /\ using' = TRUE
    /\ Goto(u, "await")
    /\ UNCHANGED <<slot, wire, strays, server, thread>>

(* The weak exchange may also fail when using_wire_ is FALSE. *)
CasFails(u) ==
    /\ pc[u] = "cas"
    /\ Goto(u, "wait")
    /\ UNCHANGED <<slot, using, wire, strays, server, thread>>

Await_AnyIndex(u) ==
    /\ pc[u] = "await"
    /\ strays = 0
    /\ wire # << >>
    /\ header' = [header EXCEPT ![u] = Head(wire)]
    /\ Goto(u, "read_own")
    /\ UNCHANGED <<slot, using, wire, strays, server, at, req, parts, message, todo>>

(* response_wire_container::await goes on for as long as the server lives. *)
Await(u) ==
    /\ pc[u] = "await"
    /\ strays = 0
    /\ wire # << >>
    /\ header' = [header EXCEPT ![u] = Head(wire)]
    /\ Goto(u, IF Head(wire).idx = at[u] THEN "read_own" ELSE "read")
    /\ UNCHANGED <<slot, using, wire, strays, server, at, req, parts, message, todo>>

(* After notify_shutdown, await of an empty wire returns the dummy header. *)
(* The read that follows takes it off the wire all the same: poped_ passes *)
(* pushed_, and from then on await finds whatever the buffer contains.     *)
AwaitStray(u) ==
    /\ pc[u] = "await"
    /\ strays > 0 \/ (wire = << >> /\ shutdown)
    /\ strays < MaxStrays
    /\ strays' = strays + 1
    /\ \E h \in IF strays = 0 THEN {Dummy} ELSE Strays :
          /\ header' = [header EXCEPT ![u] = h]
          /\ Goto(u, IF h.idx = at[u] THEN "read_own" ELSE "read")
    /\ UNCHANGED <<slot, using, wire, server, at, req, parts, message, todo>>

(* status_provider::is_alive: somebody has the lock. *)
IsAlive == alive \/ probed

AwaitThrows(u) ==
    /\ pc[u] = "await"
    /\ wire = << >>
    /\ ~shutdown
    /\ ~IsAlive
    /\ Goto(u, "caught")
    /\ UNCHANGED <<slot, using, wire, strays, server, thread>>

(* response_wire_container::read: what it copies, and the wire after it. *)
Copied(u) == IF header[u].req = 0 THEN header[u] ELSE Head(wire)
Rest(u) == IF header[u].req = 0 THEN wire ELSE Tail(wire)

(* read and receive_and_consume *)
ReadOwn(u) ==
    LET i == at[u]
        s == [slot[i] EXCEPT !.expected = Expect(slot[i], header[u].type)]
    IN  /\ pc[u] = "read_own"
        /\ message' = [message EXCEPT ![u] = Copied(u)]
        /\ wire' = Rest(u)
        /\ todo' = [todo EXCEPT ![u] = "return"]
        /\ IF FirstOfTwo(s, s.received)
           THEN /\ slot' = [slot EXCEPT ![i] = [s EXCEPT !.received = @ + 1, !.consumed = @ + 1]]
                /\ Goto(u, "free")
           ELSE /\ slot' = [slot EXCEPT ![i] = FinishReceive(s)]
                /\ Goto(u, "clear_own")
        /\ UNCHANGED <<using, strays, server, at, req, parts, header>>

Read(u) ==
    LET i == header[u].idx
    IN  /\ pc[u] = "read"
        /\ i \in Slots
        /\ slot' = [slot EXCEPT ![i] = PreReceive(@, Copied(u))]
        /\ wire' = Rest(u)
        /\ Goto(u, "post")
        /\ UNCHANGED <<using, strays, server, thread>>

(* slot_status_.at throws: nobody catches it, using_wire_ stays as it is. *)
ReadOutOfRange(u) ==
    /\ pc[u] = "read"
    /\ header[u].idx \notin Slots
    /\ Goto(u, "failed")
    /\ UNCHANGED <<slot, using, wire, strays, server, thread>>

Post(u) ==
    LET i == header[u].idx
    IN  /\ pc[u] = "post"
        /\ slot' = [slot EXCEPT ![i] = PostReceive(@)]
        /\ todo' = [todo EXCEPT ![u] = "loop"]
        /\ Goto(u, "free")
        /\ UNCHANGED <<using, wire, strays, server, at, req, parts, header, message>>

(* The handler: if the server seems to live the loop goes on at once, with *)
(* using_wire_ as it is.                                                   *)
Catch(u) ==
    /\ pc[u] = "caught"
    /\ IF IsAlive
       THEN Goto(u, "wait") /\ UNCHANGED todo
       ELSE Goto(u, "free") /\ todo' = [todo EXCEPT ![u] = "throw"]
    /\ UNCHANGED <<slot, using, wire, strays, server, at, req, parts, header, message>>

FreeWire_Kept(u) ==
    /\ pc[u] = "free"
    /\ Goto(u, "notify")
    /\ UNCHANGED <<slot, using, wire, strays, server, thread>>

FreeWire(u) ==
    /\ pc[u] = "free"
    /\ using' = FALSE
    /\ Goto(u, "notify")
    /\ UNCHANGED <<slot, wire, strays, server, thread>>

(* notify_all, and what follows it: receive returns, loops or throws.  The *)
(* caller of a receive that has returned calls it again while its reply    *)
(* has another message.  header_received, res_message and, for a caller    *)
(* that is done, the index of its slot go out of scope.                    *)
Notify(u) ==
    /\ pc[u] = "notify"
    /\ parts' = [parts EXCEPT ![u] = IF todo[u] = "return" THEN Tail(@) ELSE @]
    /\ pc' = [v \in Users |->
                IF v = u
                THEN CASE todo[u] = "loop" -> "wait"
                       [] todo[u] = "throw" -> "failed"
                       [] OTHER -> IF Len(parts[u]) > 1 THEN "wait" ELSE "idle"
                ELSE IF pc[v] = "asleep" THEN "wait" ELSE pc[v]]
    /\ header' = [header EXCEPT ![u] = Empty]
    /\ message' = [message EXCEPT ![u] = Empty]
    /\ todo' = [todo EXCEPT ![u] = "loop"]
    /\ at' = [at EXCEPT ![u] = IF pc'[u] = "wait" THEN @ ELSE 0]
    /\ req' = [req EXCEPT ![u] = IF pc'[u] = "wait" THEN @ ELSE 0]
    /\ UNCHANGED <<slot, using, wire, strays, server>>

-----------------------------------------------------------------------------
(* The server, and the other processes that test whether it lives *)

Answer ==
    /\ alive
    /\ \E p \in pending :
          /\ wire' = Append(wire, [idx |-> p.idx, type |-> Head(p.types), req |-> p.req])
          /\ pending' = (pending \ {p}) \cup
                (IF Len(p.types) > 1 THEN {[p EXCEPT !.types = Tail(@)]} ELSE {})
    /\ UNCHANGED <<slot, using, strays, alive, probed, shutdown, requests, pc, thread>>

Crash ==
    /\ Crashes
    /\ alive
    /\ alive' = FALSE
    /\ UNCHANGED <<slot, using, wire, strays, pending, probed, shutdown, requests, pc, thread>>

(* notify_shutdown, called by the server when it ends the session. *)
Shutdown ==
    /\ Shutdowns
    /\ alive
    /\ shutdown' = TRUE
    /\ UNCHANGED <<slot, using, wire, strays, pending, alive, probed, requests, pc, thread>>

(* is_alive of another client takes the lock of a dead server and gives it *)
(* back; the lock of a server that lives it does not get.                  *)
Probe ==
    /\ ~alive
    /\ probed' = ~probed
    /\ UNCHANGED <<slot, using, wire, strays, pending, alive, shutdown, requests, pc, thread>>

Step(u) ==
    \/ SearchSlot(u) \/ Send(u) \/ TestPredicate(u) \/ FallAsleep(u)
    \/ CheckSlot(u) \/ Consume(u) \/ ClearInUse(u) \/ Cas(u) \/ CasFails(u)
    \/ Await(u) \/ AwaitStray(u) \/ AwaitThrows(u)
    \/ ReadOwn(u) \/ Read(u) \/ ReadOutOfRange(u) \/ Post(u)
    \/ Catch(u) \/ FreeWire(u) \/ Notify(u)

Next ==
    \/ \E u \in Users : Begin(u) \/ Step(u)
    \/ Answer \/ Crash \/ Shutdown \/ Probe

Spec == Init /\ [][Next]_vars

(* A thread that can go on does, an exchange on a free wire succeeds in    *)
(* the end, and the server answers what it has been asked.                 *)
Fairness ==
    /\ \A u \in Users : WF_vars(Step(u)) /\ SF_vars(Cas(u))
    /\ WF_vars(Answer)

FairSpec == Spec /\ Fairness

-----------------------------------------------------------------------------
(* Properties *)

Places ==
    {"idle", "search", "send", "wait", "drowsy", "asleep", "check", "consume",
     "clear", "clear_own", "cas", "await", "read_own", "read", "post", "caught",
     "free", "notify", "failed"}

SlotRecords(top, M) ==
    [in_use : BOOLEAN, received : 0 .. top, consumed : 0 .. 1, expected : 0 .. 2,
     body : M, body_head : M]

SlotStates == SlotRecords(2, Messages \cup {Empty})

(* The counters of a slot never pass 2, and a slot nobody uses is as new:  *)
(* its next owner finds no message of an earlier one (finish_receive).     *)
SlotsTidy ==
    /\ slot \in [Slots -> SlotStates]
    /\ \A i \in Slots : ~slot[i].in_use => slot[i] = FreeSlot
    /\ header \in [Users -> Messages \cup {Empty}]
    /\ message \in [Users -> Messages \cup {Empty}]

Typed ==
    /\ using \in BOOLEAN
    /\ wire \in Seq(Messages)
    /\ \A p \in pending : p.idx \in Slots /\ p.req \in 1 .. requests
    /\ alive \in BOOLEAN /\ probed \in BOOLEAN
    /\ pc \in [Users -> Places]
    /\ at \in [Users -> 0 .. SlotSize]
    /\ req \in [Users -> 0 .. requests]
    /\ parts \in [Users -> Seq(Types)]
    /\ todo \in [Users -> {"return", "loop", "throw"}]
    /\ requests \in 0 .. MaxRequests

(* The variables have their types, and the slots are tidy for as long as   *)
(* no header without a message was taken for one.                          *)
TypeOK ==
    LET M == Messages \cup Strays \cup {Empty}
    IN  /\ Typed
        /\ shutdown \in BOOLEAN /\ strays \in 0 .. MaxStrays
        /\ slot \in [Slots -> SlotRecords(2 + strays, M)]
        /\ header \in [Users -> M] /\ message \in [Users -> M]
        /\ strays = 0 => SlotsTidy

(* using_wire_ lets one thread at a time read the response wire, which is  *)
(* a wire for one reader, and fill the slots of the others.                *)
Reading == {"await", "read_own", "clear_own", "read", "post", "caught", "free"}
OneReader ==
    \A u, v \in Users :
        /\ pc[u] \in Reading \ {"free", "clear_own"} => using
        /\ pc[u] \in Reading /\ pc[v] \in Reading => u = v

(* What receive returns is the next message of the reply to the request    *)
(* its caller has sent, whoever has read it from the wire, in whatever     *)
(* order the server has answered, until a stray header was taken.          *)
OwnAnswer ==
    strays = 0 => \A u \in Users :
        (pc[u] \in {"clear", "clear_own", "free", "notify"} /\ todo[u] = "return") =>
            message[u] = [idx |-> at[u], type |-> Head(parts[u]), req |-> req[u]]

Waiting(u) == pc[u] \notin {"idle", "search", "send", "failed"}

(* The message thread u is about to return with. *)
InHand(u) == IF pc[u] \in {"clear", "clear_own", "free", "notify"} /\ todo[u] = "return" THEN 1 ELSE 0

Held(s, r) == Cardinality({f \in {"body", "body_head"} : s[f].req = r})

(* No message of a reply is lost or doubled on its way: those a thread has *)
(* still to receive are at the server, on the wire, in the slot of the     *)
(* thread or in its hands, until a stray header was taken.  (A consumed    *)
(* body head stays in its string.)                                         *)
NothingLost ==
    strays = 0 => \A u \in Users : Waiting(u) =>
        Len(parts[u]) =
            (IF \E p \in pending : p.req = req[u]
             THEN Len((CHOOSE p \in pending : p.req = req[u]).types) ELSE 0)
            + Cardinality({k \in DOMAIN wire : wire[k].req = req[u]})
            + Held(slot[at[u]], req[u])
            - (IF slot[at[u]].consumed = 1 /\ slot[at[u]].body_head # Empty THEN 1 ELSE 0)
            + InHand(u)

(* A thread that reads the wire hands it on once a message has come,       *)
(* unless a stray header has moved the wire.                               *)
WireHandedOn == (strays = 0 /\ using /\ wire # << >>) ~> ~using

(* receive returns, or throws, in the end.                                 *)
ReceiveReturns == \A u \in Users : (pc[u] = "wait") ~> (pc[u] \in {"idle", "failed"})
=============================================================================
