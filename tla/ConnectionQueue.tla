--------------------------- MODULE ConnectionQueue ---------------------------
(***************************************************************************)
(* connection_queue (transport/wire.h): how a client obtains a session.    *)
(*                                                                         *)
(* A pool of NormalSlots + AdminSlots slots lives in a ring, q_free_.  A   *)
(* client pops a slot (request or request_admin), pushes it on the ring    *)
(* q_requested_ and sleeps on the slot's element until the listener thread *)
(* of the server has stored a session id there.  The slot comes back to    *)
(* q_free_ when the session ends (disconnect) or is refused (reject).      *)
(*                                                                         *)
(* Both rings are protected by an interprocess mutex, so try_pop and push  *)
(* are one step each.  The element is written by accept/reject before its  *)
(* mutex is taken and is read and cleared by the client after the mutex    *)
(* was released: those are steps of their own.                             *)
(*                                                                         *)
(* Three variables are histories, which no guard looks at: overdrawn,      *)
(* disturbed and spoiled record when the rings or an element were used by  *)
(* two requests at once.                                                   *)
(***************************************************************************)
EXTENDS Integers, FiniteSets

CONSTANTS
    Clients,            \* the processes that connect
    AdminClients,       \* those that call request_admin (every tgctl does)
    NormalSlots,        \* n of the constructor
    AdminSlots,         \* as_n, ipc_endpoint.admin_sessions of the server
    MaxRequests         \* bound: slots popped in one behaviour

Capacity == NormalSlots + AdminSlots
Slots == 0 .. Capacity - 1

(* Sizes for which the eight bits of admin_slots_in_use_ are enough; with  *)
(* no admin slot the admin bit would stay in the ring and the count with it. *)
ASSUME ConstantsAssumption ==
    /\ AdminClients \subseteq Clients
    /\ NormalSlots \in Nat \ {0}
    /\ AdminSlots \in Nat \ {0}
    /\ NormalSlots + AdminSlots < 256
    /\ MaxRequests \in Nat

VARIABLES
    freeQ, freePushed, freePoped,   \* q_free_: the ring and its counters
    adminInUse,                     \* q_free_.admin_slots_in_use_
    reqQ, reqPushed, reqPoped,      \* q_requested_
    element,                        \* v_requested_[slot].session_id_
    nextSession,                    \* session_id_
    terminate,                      \* terminate_
    pc, sid, got,                   \* of a client: where it is, its sid, its answer
    listener,                       \* where the listener thread is
    rejected,                       \* the sid the listener is rejecting
    sessions,                       \* the sessions the server runs, by id
    sleep,                          \* of the listener in timed_wait
    notifying,                      \* request_terminate is about to notify
    overdrawn,                      \* history: q_free_ was popped while empty
    disturbed,                      \* history: clients that share an element
    spoiled                         \* history: slots whose owner left too early

freeVars == <<freeQ, freePushed, freePoped, adminInUse>>
reqVars == <<reqQ, reqPushed, reqPoped>>
clientVars == <<pc, sid, got>>
serverVars == <<nextSession, listener, rejected, sessions>>
wakeVars == <<sleep, notifying>>
history == <<overdrawn, disturbed, spoiled>>
vars == <<freeVars, reqVars, element, terminate, clientVars, serverVars, wakeVars, history>>

Refused == -1           \* session_id_indicating_error
Unanswered == 0         \* an element nobody has answered

(***************************************************************************)
(* The identification of a request: the slot, the admin bit and, as a      *)
(* history, the number of the request (its position in the free ring).     *)
(***************************************************************************)
Sids == [slot : Slots, admin : BOOLEAN, number : Nat]
NoSid == [slot |-> 0, admin |-> FALSE, number |-> 0]

(* index_queue::index *)
Index(n) == n % Capacity

FreeWindow == freePoped .. freePushed + AdminSlots - 1
ReqWindow == reqPoped .. reqPushed - 1
Requested == {reqQ[Index(i)] : i \in ReqWindow}

(* index_queue::front *)
Front == reqQ[Index(reqPoped)]

(* the predicate of index_queue::wait; mutant: an off-by-one in it *)
Pending_OffByOne == reqPushed > reqPoped + 1
Pending == reqPushed > reqPoped

(***************************************************************************)
(* index_queue::fill and the constructors                                  *)
(***************************************************************************)
Init ==
    /\ freeQ = [s \in Slots |-> s]
    /\ freePushed = Capacity - AdminSlots
    /\ freePoped = 0
    /\ adminInUse = 0
    /\ reqQ = [s \in Slots |-> NoSid]
    /\ reqPushed = 0
    /\ reqPoped = 0
    /\ element = [s \in Slots |-> Unanswered]
    /\ nextSession = 0
    /\ terminate = FALSE
    /\ pc = [c \in Clients |-> "idle"]
    /\ sid = [c \in Clients |-> NoSid]
    /\ got = [c \in Clients |-> Unanswered]
    /\ listener = "listening"
    /\ rejected = NoSid
    /\ sessions = {}
    /\ sleep = "awake"
    /\ notifying = FALSE
    /\ overdrawn = FALSE
    /\ disturbed = {}
    /\ spoiled = {}

(***************************************************************************)
(* index_queue::try_pop(), for a normal request.  A refusal throws and     *)
(* changes nothing.  Mutant: the slots reserved for admin are not spared.  *)
(***************************************************************************)
NormalAvailable_NoReserve == freePushed + AdminSlots > freePoped
NormalAvailable == freePushed + adminInUse > freePoped

(***************************************************************************)
(* index_queue::try_pop(admin_slots).  The difference is computed in int   *)
(* and may be negative; a sum below zero is a huge unsigned number.        *)
(***************************************************************************)
AdminAvailable ==
    LET sum == freePushed + (AdminSlots - adminInUse) IN sum < 0 \/ sum > freePoped

(* From try_pop to the end of wait() a client uses its slot's element; the *)
(* others that do so for slot s.                                           *)
Active(c) == pc[c] \notin {"idle", "connected"}
Sharing(c, s) == {d \in Clients \ {c} : Active(d) /\ sid[d].slot = s}

(* What the pop of slot s by c says of the rings and of its element. *)
Remember(c, s) ==
    /\ overdrawn' = (overdrawn \/ freePoped >= freePushed + AdminSlots)
    /\ disturbed' = disturbed \cup Sharing(c, s)
                        \cup {d \in {c} : Sharing(c, s) # {} \/ s \in spoiled}
    /\ UNCHANGED spoiled

PopFree(c, admin) ==
    /\ freePoped < MaxRequests
    /\ sid' = [sid EXCEPT ![c] = [slot |-> freeQ[Index(freePoped)],
                                  admin |-> admin,
                                  number |-> freePoped]]
    /\ freePoped' = freePoped + 1
    /\ pc' = [pc EXCEPT ![c] = "popped"]
    /\ Remember(c, freeQ[Index(freePoped)])
    /\ UNCHANGED <<freeQ, freePushed, reqVars, element, terminate, got, serverVars, wakeVars>>

(* the first half of connection_queue::request *)
Request(c) ==
    /\ pc[c] = "idle"
    /\ c \notin AdminClients
    /\ NormalAvailable
    /\ PopFree(c, FALSE)
    /\ UNCHANGED adminInUse

(* the first half of connection_queue::request_admin *)
RequestAdmin(c) ==
    /\ pc[c] = "idle"
    /\ c \in AdminClients
    /\ AdminAvailable
    /\ PopFree(c, TRUE)
    /\ adminInUse' = (adminInUse + 1) % 256

(* condition_.notify_one() of q_requested_ *)
Notify == sleep' = IF sleep = "asleep" THEN "awake" ELSE sleep

(* q_requested_.push(sid), the second half of both.  It takes the mutex,   *)
(* which the listener has from its test to its sleep.                      *)
PushRequest(c) ==
    /\ pc[c] = "popped"
    /\ sleep # "dozing"
    /\ reqQ' = [reqQ EXCEPT ![Index(reqPushed)] = sid[c]]
    /\ reqPushed' = reqPushed + 1
    /\ pc' = [pc EXCEPT ![c] = "requested"]
    /\ Notify
    /\ UNCHANGED <<freeVars, reqPoped, element, terminate, sid, got, serverVars,
                   notifying, history>>

(* connect() is over, its local variables are gone *)
Leave(c) ==
    /\ pc' = [pc EXCEPT ![c] = "idle"]
    /\ sid' = [sid EXCEPT ![c] = NoSid]
    /\ got' = [got EXCEPT ![c] = Unanswered]
    /\ disturbed' = disturbed \ {c}

(* connection_queue::wait up to entry.wait; it throws when terminate_ is set *)
EnterWait(c) ==
    /\ pc[c] = "requested"
    /\ \/ terminate /\ Leave(c) /\ spoiled' = spoiled \cup {sid[c].slot}
       \/ /\ ~terminate
          /\ pc' = [pc EXCEPT ![c] = "waiting"]
          /\ UNCHANGED <<sid, got, disturbed, spoiled>>
    /\ UNCHANGED <<freeVars, reqVars, element, terminate, serverVars, wakeVars, overdrawn>>

(* element::wait: the predicate holds and the mutex is released *)
Wake(c) ==
    /\ pc[c] = "waiting"
    /\ element[sid[c].slot] # Unanswered
    /\ pc' = [pc EXCEPT ![c] = "answered"]
    /\ UNCHANGED <<freeVars, reqVars, element, terminate, sid, got, serverVars, wakeVars,
                   history>>

(* element::wait: return session_id_, read after the mutex was released *)
ReadAnswer(c) ==
    /\ pc[c] = "answered"
    /\ got' = [got EXCEPT ![c] = element[sid[c].slot]]
    /\ pc' = [pc EXCEPT ![c] = "read"]
    /\ UNCHANGED <<freeVars, reqVars, element, terminate, sid, serverVars, wakeVars, history>>

(* element::wait with a timeout: timed_wait gives up, the exception is on  *)
(* its way                                                                 *)
TimeOut(c) ==
    /\ pc[c] = "waiting"
    /\ element[sid[c].slot] = Unanswered
    /\ pc' = [pc EXCEPT ![c] = "expired"]
    /\ UNCHANGED <<freeVars, reqVars, element, terminate, sid, got, serverVars, wakeVars,
                   history>>

(***************************************************************************)
(* entry.reuse() on both ways out of connection_queue::wait; mutant: it is *)
(* forgotten.                                                              *)
(***************************************************************************)
Reuse_Forgotten(c) ==
    /\ pc[c] = "read"
    /\ pc' = [pc EXCEPT ![c] = "connected"]
    /\ UNCHANGED <<freeVars, reqVars, element, terminate, sid, got, serverVars, wakeVars,
                   history>>
Reuse(c) ==
    /\ pc[c] \in {"read", "expired"}
    /\ element' = [element EXCEPT ![sid[c].slot] = Unanswered]
    /\ IF pc[c] = "read" /\ got[c] # Refused
       THEN pc' = [pc EXCEPT ![c] = "connected"] /\ UNCHANGED <<sid, got, disturbed>>
       ELSE Leave(c)
    /\ spoiled' = spoiled \cup {t.slot : t \in {sid[c]} \cap Requested}
    /\ UNCHANGED <<freeVars, reqVars, terminate, serverVars, wakeVars, overdrawn>>

(* the client is done with its session *)
Close(c) ==
    /\ pc[c] = "connected"
    /\ Leave(c)
    /\ UNCHANGED <<freeVars, reqVars, element, terminate, serverVars, wakeVars, overdrawn,
                   spoiled>>

(***************************************************************************)
(* connection_queue::listen: timed_wait with its predicate, then the count *)
(* of the sessions.  A request that is pending comes first, whatever       *)
(* terminate_ says.                                                        *)
(***************************************************************************)
ListenRequest ==
    /\ listener = "listening" /\ sleep = "awake"
    /\ Pending
    /\ nextSession' = nextSession + 1
    /\ listener' = "requested"
    /\ UNCHANGED <<freeVars, reqVars, element, terminate, clientVars, rejected, sessions,
                   wakeVars, history>>

(* the predicate is false: the listener is about to sleep, with the mutex *)
Doze ==
    /\ listener = "listening" /\ sleep = "awake"
    /\ ~Pending /\ ~terminate
    /\ sleep' = "dozing"
    /\ UNCHANGED <<freeVars, reqVars, element, terminate, clientVars, serverVars, notifying,
                   history>>

FallAsleep ==
    /\ sleep = "dozing"
    /\ sleep' = "asleep"
    /\ UNCHANGED <<freeVars, reqVars, element, terminate, clientVars, serverVars, notifying,
                   history>>

(***************************************************************************)
(* listen returns 0: terminated, or five seconds went by; mutant: the wait *)
(* has no limit.                                                           *)
(***************************************************************************)
ListenNothing_Untimed ==
    /\ listener = "listening"
    /\ ~Pending
    /\ sleep = "awake" /\ terminate
    /\ listener' = "checking"
    /\ UNCHANGED <<freeVars, reqVars, element, terminate, clientVars,
                   nextSession, rejected, sessions, wakeVars, history>>
ListenNothing ==
    /\ listener = "listening"
    /\ ~Pending
    /\ sleep = "asleep" \/ (sleep = "awake" /\ terminate)
    /\ listener' = "checking" /\ sleep' = "awake"
    /\ UNCHANGED <<freeVars, reqVars, element, terminate, clientVars,
                   nextSession, rejected, sessions, notifying, history>>

(* the listener calls is_terminated and, if so, confirm_terminated *)
CheckTerminated ==
    /\ listener = "checking"
    /\ listener' = IF terminate THEN "stopped" ELSE "listening"
    /\ UNCHANGED <<freeVars, reqVars, element, terminate, clientVars,
                   nextSession, rejected, sessions, wakeVars, history>>

(* connection_queue::slot, then accept *)
Accept ==
    /\ listener = "requested"
    /\ reqPoped' = reqPoped + 1
    /\ element' = [element EXCEPT ![Front.slot] = nextSession]
    /\ sessions' = sessions \cup {[id |-> nextSession, sid |-> Front]}
    /\ listener' = "listening"
    /\ UNCHANGED <<freeVars, reqQ, reqPushed, terminate, clientVars,
                   nextSession, rejected, wakeVars, history>>

(* connection_queue::slot, then reject up to the notification *)
Reject ==
    /\ listener = "requested"
    /\ reqPoped' = reqPoped + 1
    /\ element' = [element EXCEPT ![Front.slot] = Refused]
    /\ rejected' = Front
    /\ listener' = "rejecting"
    /\ UNCHANGED <<freeVars, reqQ, reqPushed, terminate, clientVars,
                   nextSession, sessions, wakeVars, history>>

(***************************************************************************)
(* q_free_.push(sid, admin_slots_); mutant: the entry is written           *)
(* AdminSlots places too early.                                            *)
(***************************************************************************)
PushFree_Early(s) ==
    /\ freeQ' = [freeQ EXCEPT ![Index(freePushed)] = s.slot]
    /\ freePushed' = freePushed + 1
    /\ adminInUse' = IF s.admin THEN (adminInUse - 1) % 256 ELSE adminInUse
    /\ UNCHANGED freePoped
PushFree(s) ==
    /\ freeQ' = [freeQ EXCEPT ![Index(freePushed + AdminSlots)] = s.slot]
    /\ freePushed' = freePushed + 1
    /\ adminInUse' = IF s.admin THEN (adminInUse - 1) % 256 ELSE adminInUse
    /\ UNCHANGED freePoped

(* the last step of connection_queue::reject *)
RejectPush ==
    /\ listener = "rejecting"
    /\ PushFree(rejected)
    /\ listener' = "listening"
    /\ rejected' = NoSid
    /\ UNCHANGED <<reqVars, element, terminate, clientVars, nextSession, sessions, wakeVars,
                   history>>

(* connection_queue::disconnect, called when the session ends, whenever *)
Disconnect(x) ==
    /\ PushFree(x.sid)
    /\ sessions' = sessions \ {x}
    /\ UNCHANGED <<reqVars, element, terminate, clientVars, nextSession,
                   listener, rejected, wakeVars, history>>

(* connection_queue::request_terminate, up to s_terminated_.wait: the flag *)
(* is set and the condition notified without the mutex                     *)
RequestTerminate ==
    /\ ~terminate
    /\ terminate' = TRUE /\ notifying' = TRUE
    /\ UNCHANGED <<freeVars, reqVars, element, clientVars, serverVars, sleep, history>>

NotifyTerminate ==
    /\ notifying /\ notifying' = FALSE
    /\ Notify
    /\ UNCHANGED <<freeVars, reqVars, element, terminate, clientVars, serverVars, history>>

ClientStep(c) ==
    \/ Request(c) \/ RequestAdmin(c) \/ PushRequest(c)
    \/ EnterWait(c) \/ Wake(c) \/ ReadAnswer(c) \/ TimeOut(c) \/ Reuse(c)
    \/ Close(c)

ListenerStep ==
    \/ ListenRequest \/ Doze \/ FallAsleep \/ ListenNothing \/ CheckTerminated
    \/ Accept \/ Reject \/ RejectPush

Next ==
    \/ \E c \in Clients : ClientStep(c)
    \/ ListenerStep
    \/ \E x \in sessions : Disconnect(x)
    \/ RequestTerminate \/ NotifyTerminate

Spec == Init /\ [][Next]_vars

(***************************************************************************)
(* Threads that can run do run: the listener, whose timed_wait ends, and a *)
(* client inside wait.  Nothing makes a client connect, close or give up,  *)
(* a server terminate, or the notification of request_terminate arrive.    *)
(***************************************************************************)
Fairness ==
    /\ WF_vars(ListenerStep)
    /\ \A c \in Clients :
           WF_vars(PushRequest(c) \/ EnterWait(c) \/ Wake(c) \/ ReadAnswer(c) \/ Reuse(c))

FairSpec == Spec /\ Fairness

(***************************************************************************)
(* Properties                                                              *)
(***************************************************************************)

(* The variables have their types, the histories and the places of the     *)
(* listener's wait aside.                                                  *)
QueueTypes ==
    /\ freeQ \in [Slots -> Slots]
    /\ freePushed \in Nat /\ freePoped \in Nat /\ adminInUse \in 0 .. 255
    /\ reqQ \in [Slots -> Sids]
    /\ reqPushed \in Nat /\ reqPoped \in Nat
    /\ nextSession \in Nat
    /\ element \in [Slots -> Nat \cup {Refused}]
    /\ terminate \in BOOLEAN
    /\ pc \in [Clients -> {"idle", "popped", "requested", "waiting", "answered",
                           "read", "expired", "connected"}]
    /\ sid \in [Clients -> Sids]
    /\ got \in [Clients -> Nat \cup {Refused}]
    /\ listener \in {"listening", "requested", "checking", "rejecting", "stopped"}
    /\ rejected \in Sids
    /\ sessions \subseteq [id : Nat, sid : Sids]

(***************************************************************************)
(* Everything that holds slot s: a position of the free ring, a client     *)
(* between its two halves of request, a position of the ring of requests,  *)
(* the listener in the middle of reject, a session.                        *)
(***************************************************************************)
FreeHolders(s) == {<<"free", i>> : i \in {j \in FreeWindow : freeQ[Index(j)] = s}}
ClientHolders(s) ==
    {<<"client", c>> : c \in {d \in Clients : pc[d] = "popped" /\ sid[d].slot = s}}
RequestHolders(s) ==
    {<<"requested", i>> : i \in {j \in ReqWindow : reqQ[Index(j)].slot = s}}
ListenerHolders(s) ==
    {<<"listener", t>> : t \in {r \in {rejected} : listener = "rejecting" /\ r.slot = s}}
SessionHolders(s) == {<<"session", x>> : x \in {y \in sessions : y.sid.slot = s}}
Holders(s) ==
    FreeHolders(s) \cup ClientHolders(s) \cup RequestHolders(s)
        \cup ListenerHolders(s) \cup SessionHolders(s)

(* The sids of the slots that are not free, and those of admin requests. *)
SidsOut ==
    {sid[c] : c \in {d \in Clients : pc[d] = "popped"}}
    \cup {reqQ[Index(i)] : i \in ReqWindow}
    \cup {r \in {rejected} : listener = "rejecting"}
    \cup {x.sid : x \in sessions}
AdminSids == {t \in SidsOut : t.admin}

(***************************************************************************)
(* A slot is neither lost nor handed out twice: exactly one party holds it *)
(* at every moment (q_free_ and q_requested_ are rings that wrap and are   *)
(* pushed and popped by different processes), unless the free ring was     *)
(* popped when it was empty.                                               *)
(***************************************************************************)
OneHolderEach == \A s \in Slots : \E h \in Holders(s) : Holders(s) = {h}
SlotExclusive == overdrawn \/ OneHolderEach

(***************************************************************************)
(* try_pop throws if "no request slot is available": the free ring is      *)
(* never popped beyond the slots it contains.                              *)
(***************************************************************************)
NoOverdraft == freePoped <= freePushed + AdminSlots

(***************************************************************************)
(* admin_slots_in_use_ counts the slots that admin requests hold, though   *)
(* it is raised by the client and lowered by the server, at the push of a  *)
(* sid that carries the admin bit.                                         *)
(***************************************************************************)
AdminCounted == adminInUse = Cardinality(AdminSids)

(***************************************************************************)
(* The admin slots are a reservation: however many normal clients are      *)
(* connected, an admin request is granted while fewer than AdminSlots      *)
(* admin sessions exist (try_pop throws "no request slot is available for  *)
(* admin request" only if there is none).                                  *)
(***************************************************************************)
AdminReservation == overdrawn \/ (adminInUse < AdminSlots => AdminAvailable)

(***************************************************************************)
(* connection_queue::wait returns the session that the listener opened for *)
(* this very request, and no other client's: whatever the server rejects,  *)
(* ends or terminates and whoever gives up, unless the client got a slot   *)
(* whose element another one was still using, or had left to a late        *)
(* answer.                                                                 *)
(***************************************************************************)
OwnAnswer ==
    \A c \in Clients \ disturbed : ~overdrawn /\ pc[c] = "connected" =>
        /\ got[c] \notin {Unanswered, Refused}
        /\ \A x \in sessions : got[c] = x.id <=> sid[c].number = x.sid.number
        /\ \A d \in Clients \ {c} : got[c] # got[d]

(***************************************************************************)
(* connect() waits without a timeout: a client that sleeps on its element  *)
(* is answered, unless the listener has left its loop or the element is    *)
(* shared as above.                                                        *)
(***************************************************************************)
AnswerArrives ==
    \A c \in Clients :
        pc[c] = "waiting" ~>
            (pc[c] # "waiting" \/ c \in disturbed \/ overdrawn \/ listener = "stopped")

(***************************************************************************)
(* request_terminate returns: once asked, the listener drains the pending  *)
(* requests and posts s_terminated_, even if it falls asleep just when it  *)
(* is notified.                                                            *)
(***************************************************************************)
TerminationConfirmed == terminate ~> (listener = "stopped")
=============================================================================
