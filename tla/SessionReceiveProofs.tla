------------------------ MODULE SessionReceiveProofs ------------------------
(***************************************************************************)
(* Proofs about SessionReceive, for any number of threads, slots and       *)
(* requests, whether or not the server dies: one thread at a time reads    *)
(* the response wire, and, if every reply is one body as for all requests  *)
(* of tgctl, each thread gets the reply to its own request and no reply is *)
(* lost or doubled on its way.  The last two hold until the server shuts   *)
(* the session down under a thread that awaits an answer: the header that  *)
(* await returns then belongs to no message, and nothing is claimed once   *)
(* such a header was taken for one (strays > 0).                           *)
(***************************************************************************)
EXTENDS SessionReceive, FiniteSetTheorems, TLAPS

(* The prover of the leaves that do not name one. *)
USE Zenon

(* No request of tgctl is answered with a body head.  With two messages in *)
(* a reply OwnAnswer does not hold.                                        *)
OneBody == Replies \subseteq {<<"RESPONSE_BODY">>}

(* The reply to the request of thread u, and the request as the server has *)
(* it.                                                                     *)
Reply(u) == [idx |-> at[u], type |-> "RESPONSE_BODY", req |-> req[u]]
Order(u) == [idx |-> at[u], req |-> req[u], types |-> <<"RESPONSE_BODY">>]

Busy(u) == pc[u] \notin {"idle", "failed"}

(* The slot of a thread, from search_slot to in_use_.clear().              *)
Owns(u) ==
    /\ pc[u] \notin {"idle", "search", "failed"}
    /\ pc[u] \in {"free", "notify"} => todo[u] # "return"

Returning(u) == pc[u] \in {"clear", "clear_own", "free", "notify"} /\ todo[u] = "return"

(* What a slot may be, but for FreeSlot: taken and as new, or with message *)
(* m, which is counted if n is 1.                                          *)
Taken == [in_use |-> TRUE, received |-> 0, consumed |-> 0, expected |-> 0,
          body |-> Empty, body_head |-> Empty]
Holding(m, n) == [in_use |-> TRUE, received |-> n, consumed |-> 0, expected |-> 1,
                  body |-> m, body_head |-> Empty]

(* Where the reply to u may be: at the server, on the wire, in the slot or *)
(* in the hands of u.                                                      *)
Ordered(u) == Order(u) \in pending
OnWire(u) == \E k \in 1 .. Len(wire) : wire[k] = Reply(u)
Stored(u) == Owns(u) /\ \E n \in {0, 1} : slot[at[u]] = Holding(Reply(u), n)

(* Somebody has read a message into slot i and not yet counted it.         *)
Filling(i) == \E v \in Users : pc[v] = "post" /\ header[v].idx = i
Counted(i) == IF Filling(i) THEN 0 ELSE 1

Readers ==
    /\ \A u \in Users : pc[u] \in Reading => using
    /\ \A u, v \in Users : pc[u] \in Reading /\ pc[v] \in Reading => u = v

Owners ==
    /\ \A u \in Users : Owns(u) => at[u] \in Slots /\ slot[at[u]].in_use
    /\ \A u, v \in Users : Owns(u) /\ Owns(v) /\ at[u] = at[v] => u = v

Numbered ==
    /\ \A u \in Users : Busy(u) => req[u] \in 1 .. requests
    /\ \A u, v \in Users : Busy(u) /\ Busy(v) /\ req[u] = req[v] => u = v

(* What a thread does next, and what the reader knows of the wire.         *)
Intent(u) ==
    /\ pc[u] \in {"clear", "clear_own"} => todo[u] = "return"
    /\ pc[u] \notin {"clear", "clear_own", "free", "notify"} => todo[u] = "loop"
    /\ pc[u] = "caught" \/ todo[u] = "throw" => ~alive /\ wire = << >> /\ \A v \in Users : pc[v] # "post"
    /\ pc[u] \in {"read", "read_own"} => wire # << >> /\ header[u] = wire[1]
    /\ pc[u] = "read_own" => header[u].idx = at[u]
    /\ pc[u] = "read" => header[u].idx # at[u]
    /\ pc[u] = "post" => \E v \in Users : v # u /\ Stored(v) /\ at[v] = header[u].idx

(* What is at the server and on the wire is for somebody who waits for it. *)
Addressed ==
    /\ \A p \in pending : \A u \in Users : Busy(u) /\ p.req = req[u] => Waiting(u) /\ p = Order(u)
    /\ alive => \A p \in pending : \E u \in Users : Waiting(u) /\ p = Order(u)
    /\ \A k \in 1 .. Len(wire) : \E u \in Users : Waiting(u) /\ wire[k] = Reply(u)
    /\ \A j, k \in 1 .. Len(wire) : wire[j] = wire[k] => j = k

(* The reply to u is in one place, and the slot of u is as new unless it   *)
(* is there.                                                               *)
Placed(u) ==
    /\ parts[u] = <<"RESPONSE_BODY">>
    /\ Ordered(u) \/ OnWire(u) \/ Stored(u) \/ Returning(u)
    /\ Ordered(u) \/ OnWire(u) => Owns(u) /\ slot[at[u]] = Taken /\ ~Returning(u)
    /\ ~(Ordered(u) /\ OnWire(u))
    /\ Stored(u) => slot[at[u]] = Holding(Reply(u), Counted(at[u]))
    /\ Returning(u) => message[u] = Reply(u) /\ (Owns(u) => slot[at[u]] = Taken)
    /\ pc[u] = "consume" => slot[at[u]] = Holding(Reply(u), 1)

(* A slot is as new, or has a reply; and the reply to a thread that has    *)
(* not returned is in the slot of that thread.                             *)
Shaped(i) ==
    /\ slot[i] \in {FreeSlot, Taken} \/ \E m \in Messages, n \in {0, 1} : slot[i] = Holding(m, n)
    /\ slot[i].body.req <= requests
    /\ \A v \in Users : Busy(v) /\ slot[i].body.req = req[v] => Waiting(v) /\ Stored(v) /\ at[v] = i

(* What the invariant says of one thread and its slot.                     *)
Home(v) == (pc[v] = "send" => slot[at[v]] = Taken) /\ (Waiting(v) => Placed(v))

(* The types of the variables, and slots that are as new when free.        *)
Tidy == Typed /\ SlotsTidy

IInv ==
    /\ Tidy
    /\ Readers
    /\ Owners
    /\ Numbered
    /\ Addressed
    /\ \A i \in Slots : Shaped(i)
    /\ \A u \in Users : Intent(u) /\ Home(u)

-----------------------------------------------------------------------------
(* One reader                                                              *)

(* Every step of a thread keeps the places and who reads the wire: only an *)
(* exchange that succeeds makes a reader, and then there was none.         *)
LEMMA ReadersStep ==
  ASSUME pc \in [Users -> Places], using \in BOOLEAN, Readers, [Next]_vars
  PROVE  pc' \in [Users -> Places] /\ using' \in BOOLEAN /\ Readers'
  <1>1. ASSUME NEW u \in Users, Begin(u) \/ Step(u)
        PROVE  pc' \in [Users -> Places] /\ using' \in BOOLEAN /\ Readers'
    <2>1. CASE Notify(u)
      <3>1. pc' \in [Users -> Places] /\ using' = using
        BY <2>1 DEF Notify, Places
      <3>2. \A v \in Users : pc'[v] \in Reading => pc[v] \in Reading
        BY <2>1 DEF Notify, Reading
      <3> QED BY <3>1, <3>2 DEF Readers
    <2>2. CASE Cas(u)
      <3>1. \A v \in Users : pc[v] \notin Reading
        BY <2>2 DEF Cas, Readers
      <3>2. pc' \in [Users -> Places] /\ using' = TRUE /\ \A v \in Users : pc'[v] \in Reading => v = u
        BY <2>2, <3>1 DEF Cas, Goto, Places
      <3> QED BY <3>2 DEF Readers
    <2>3. CASE FreeWire(u)
      <3>1. pc[u] \in Reading /\ pc' = [pc EXCEPT ![u] = "notify"] /\ using' = FALSE
        BY <2>3 DEF FreeWire, Goto, Reading
      <3>2. pc' \in [Users -> Places] /\ \A v \in Users : pc'[v] \notin Reading
        BY <3>1 DEF Places, Readers, Reading
      <3> QED BY <3>1, <3>2 DEF Readers
    <2>4. CASE ~(Notify(u) \/ Cas(u) \/ FreeWire(u))
      <3>1. /\ using' = using
            /\ \/ pc' = pc
               \/ \E l \in Places : pc' = [pc EXCEPT ![u] = l] /\ (l \in Reading => pc[u] \in Reading)
        BY <1>1, <2>4 DEF Begin, Step, SearchSlot, Send, TestPredicate, FallAsleep, CheckSlot, Consume,
           ClearInUse, CasFails, Await, AwaitStray, AwaitThrows, ReadOwn, Read, ReadOutOfRange, Post,
           Catch, Goto, Places, Reading
      <3>2. pc' \in [Users -> Places] /\ \A v \in Users : pc'[v] \in Reading => pc[v] \in Reading
        BY <3>1
      <3> QED BY <3>1, <3>2 DEF Readers
    <2> QED BY <2>1, <2>2, <2>3, <2>4
  <1>2. CASE UNCHANGED <<pc, using>>
    BY <1>2 DEF Readers
  <1> QED BY <1>1, <1>2 DEF Next, Answer, Crash, Shutdown, Probe, vars

(* The steps while no header without a message is taken for one, nor has   *)
(* been.                                                                   *)
SoundStep(u) ==
    \/ SearchSlot(u) \/ Send(u) \/ TestPredicate(u) \/ FallAsleep(u)
    \/ CheckSlot(u) \/ Consume(u) \/ ClearInUse(u) \/ Cas(u) \/ CasFails(u)
    \/ Await(u) \/ AwaitThrows(u) \/ ReadOwn(u) \/ Read(u) \/ Post(u)
    \/ Catch(u) \/ FreeWire(u) \/ Notify(u)

SoundNext ==
    \/ \E u \in Users : Begin(u) \/ SoundStep(u)
    \/ Answer \/ Crash \/ Shutdown \/ Probe

(* They are steps.                                                         *)
LEMMA SoundIsNext ==
  ASSUME [SoundNext]_vars
  PROVE  [Next]_vars
  BY DEF SoundNext, SoundStep, Next, Step

(* So they keep the readers.                                               *)
LEMMA ReadersKept ==
  ASSUME pc \in [Users -> Places], using \in BOOLEAN, Readers, [SoundNext]_vars
  PROVE  pc' \in [Users -> Places] /\ using' \in BOOLEAN /\ Readers'
  BY SoundIsNext, ReadersStep

(***************************************************************************)
(* using_wire_ lets one thread at a time read the response wire and fill   *)
(* slots of the others: for any threads, slots and replies, even when a    *)
(* thread that caught an exception goes on with using_wire_ set.           *)
(***************************************************************************)
THEOREM OneReadsAtATime == Spec => []OneReader
  <1> DEFINE R == pc \in [Users -> Places] /\ using \in BOOLEAN /\ Readers
  <1>1. Init => R
    BY DEF Init, Readers, Reading, Places
  <1>2. R /\ [Next]_vars => R'
    BY ReadersStep
  <1>3. R => OneReader
    BY DEF Readers, OneReader
  <1> HIDE DEF R
  <1> QED BY <1>1, <1>2, <1>3, PTL DEF Spec

-----------------------------------------------------------------------------
(* Slots                                                                   *)

(* A slot is its six fields.                                               *)
Fields(s, u, r, c, e, b, h) ==
    /\ s \in SlotStates
    /\ s.in_use = u /\ s.received = r /\ s.consumed = c /\ s.expected = e
    /\ s.body = b /\ s.body_head = h

(* A slot is known by its fields.                                          *)
LEMMA SameFields ==
  ASSUME NEW s, NEW t, NEW u, NEW r, NEW c, NEW e, NEW b, NEW h,
         Fields(s, u, r, c, e, b, h), Fields(t, u, r, c, e, b, h)
  PROVE  s = t
  BY SMT DEF Fields, SlotStates, SlotRecords

(* The fields of a slot that is free, taken, or holds a message.           *)
LEMMA SlotFields ==
  /\ Fields(FreeSlot, FALSE, 0, 0, 0, Empty, Empty)
  /\ Fields(Taken, TRUE, 0, 0, 0, Empty, Empty)
  /\ \A m \in Messages, n \in {0, 1} : Fields(Holding(m, n), TRUE, n, 0, 1, m, Empty)
  <1>1. /\ Fields(FreeSlot, FALSE, 0, 0, 0, Empty, Empty)
        /\ Fields(Taken, TRUE, 0, 0, 0, Empty, Empty)
    BY SMT DEF Fields, SlotStates, SlotRecords, FreeSlot, Taken
  <1>2. ASSUME NEW m \in Messages, NEW n \in {0, 1}
        PROVE  Fields(Holding(m, n), TRUE, n, 0, 1, m, Empty)
    BY SMT DEF Fields, SlotStates, SlotRecords, Holding
  <1> QED BY <1>1, <1>2

(* The operations of class slot, on a slot that is as new.                 *)
LEMMA NewSlots ==
  /\ [FreeSlot EXCEPT !.in_use = TRUE] = Taken
  /\ [Taken EXCEPT !.in_use = TRUE] = Taken
  /\ [Taken EXCEPT !.in_use = FALSE] = FreeSlot
  /\ ~FreeSlot.in_use /\ Taken.in_use /\ ~Valid(Taken)
  /\ FinishReceive([Taken EXCEPT !.expected = 1]) = Taken
  /\ Expect(Taken, "RESPONSE_BODY") = 1
  /\ ~FirstOfTwo([Taken EXCEPT !.expected = 1], [Taken EXCEPT !.expected = 1].received)
  <1>1. [FreeSlot EXCEPT !.in_use = TRUE] = Taken
    <2>1. Fields([FreeSlot EXCEPT !.in_use = TRUE], TRUE, 0, 0, 0, Empty, Empty)
      BY SlotFields DEF Fields, SlotStates, SlotRecords
    <2> QED BY <2>1, SlotFields, SameFields
  <1>2. [Taken EXCEPT !.in_use = TRUE] = Taken
    <2>1. Fields([Taken EXCEPT !.in_use = TRUE], TRUE, 0, 0, 0, Empty, Empty)
      BY SlotFields DEF Fields, SlotStates, SlotRecords
    <2> QED BY <2>1, SlotFields, SameFields
  <1>3. [Taken EXCEPT !.in_use = FALSE] = FreeSlot
    <2>1. Fields([Taken EXCEPT !.in_use = FALSE], FALSE, 0, 0, 0, Empty, Empty)
      BY SlotFields DEF Fields, SlotStates, SlotRecords
    <2> QED BY <2>1, SlotFields, SameFields
  <1>4. ~FreeSlot.in_use /\ Taken.in_use /\ ~Valid(Taken)
    BY SlotFields, SMT DEF Fields, Valid
  <1>5. Fields([Taken EXCEPT !.expected = 1], TRUE, 0, 0, 1, Empty, Empty)
    BY SlotFields, SMT DEF Fields, SlotStates, SlotRecords
  <1>6. FinishReceive([Taken EXCEPT !.expected = 1]) = Taken
    BY <1>1, <1>5 DEF FinishReceive, Fields
  <1>7. /\ Expect(Taken, "RESPONSE_BODY") = 1
        /\ ~FirstOfTwo([Taken EXCEPT !.expected = 1], [Taken EXCEPT !.expected = 1].received)
    BY <1>5, SlotFields, SMT DEF Fields, Expect, FirstOfTwo
  <1> QED BY <1>1, <1>2, <1>3, <1>4, <1>6, <1>7

(* What the reader does with a message for another, and what the slot is   *)
(* then to its owner.                                                      *)
LEMMA FilledSlots ==
  ASSUME NEW m \in Messages, NEW n \in {0, 1}
  PROVE  /\ m.type = "RESPONSE_BODY" => PreReceive(Taken, m) = Holding(m, 0)
         /\ PostReceive(Holding(m, 0)) = Holding(m, 1)
         /\ Holding(m, n).in_use /\ Holding(m, n).body = m
         /\ Holding(m, n).consumed = 0 /\ Holding(m, n).body_head = Empty
         /\ Valid(Holding(m, n)) <=> n = 1
         /\ [Holding(m, n) EXCEPT !.in_use = TRUE] = Holding(m, n)
         /\ FinishReceive(Holding(m, n)) = Taken
         /\ ~FirstOfTwo(Holding(m, n), Holding(m, n).consumed)
         /\ Holding(m, n) # Taken /\ Holding(m, n) # FreeSlot
  <1>0. /\ Fields(Holding(m, 0), TRUE, 0, 0, 1, m, Empty)
        /\ Fields(Holding(m, 1), TRUE, 1, 0, 1, m, Empty)
        /\ Fields(Holding(m, n), TRUE, n, 0, 1, m, Empty)
    BY SlotFields
  <1>1. m.type = "RESPONSE_BODY" => PreReceive(Taken, m) = Holding(m, 0)
    <2>1. m.type = "RESPONSE_BODY" => PreReceive(Taken, m) = [Taken EXCEPT !.expected = 1, !.body = m]
      <3>1. m.type = "RESPONSE_BODY" => Expect(Taken, m.type) = 1 /\ ~(Expect(Taken, m.type) = 2)
        BY NewSlots, SMT
      <3> QED BY <3>1 DEF PreReceive
    <2>2. Fields([Taken EXCEPT !.expected = 1, !.body = m], TRUE, 0, 0, 1, m, Empty)
      BY SlotFields DEF Fields, SlotStates, SlotRecords
    <2> QED BY <1>0, <2>1, <2>2, SameFields
  <1>2. PostReceive(Holding(m, 0)) = Holding(m, 1)
    <2>1. Fields(PostReceive(Holding(m, 0)), TRUE, 1, 0, 1, m, Empty)
      BY <1>0, SMT DEF Fields, SlotStates, SlotRecords, PostReceive
    <2> QED BY <1>0, <2>1, SameFields
  <1>3. /\ Holding(m, n).in_use /\ Holding(m, n).body = m
        /\ Holding(m, n).consumed = 0 /\ Holding(m, n).body_head = Empty
        /\ Valid(Holding(m, n)) <=> n = 1
        /\ ~FirstOfTwo(Holding(m, n), Holding(m, n).consumed)
    BY <1>0, SMT DEF Fields, Valid, FirstOfTwo
  <1>4. FinishReceive(Holding(m, n)) = Taken
    BY <1>3, NewSlots DEF FinishReceive
  <1>5. [Holding(m, n) EXCEPT !.in_use = TRUE] = Holding(m, n)
    <2>1. Fields([Holding(m, n) EXCEPT !.in_use = TRUE], TRUE, n, 0, 1, m, Empty)
      BY <1>0 DEF Fields, SlotStates, SlotRecords
    <2> QED BY <1>0, <2>1, SameFields
  <1>6. Holding(m, n) # Taken /\ Holding(m, n) # FreeSlot
    BY <1>0, SlotFields, SMT DEF Fields
  <1> QED BY <1>1, <1>2, <1>3, <1>4, <1>5, <1>6
-----------------------------------------------------------------------------
(* Steps of one thread, to the others                                      *)

(* A step of another thread is nothing to v but that it may be woken.      *)
Same(v) ==
    /\ at'[v] = at[v] /\ req'[v] = req[v] /\ parts'[v] = parts[v]
    /\ header'[v] = header[v] /\ message'[v] = message[v] /\ todo'[v] = todo[v]
    /\ pc'[v] = pc[v] \/ (pc[v] = "asleep" /\ pc'[v] = "wait")

(* A step of one thread leaves the local state of the others alone.        *)
LEMMA OthersAreSame ==
  ASSUME Tidy, NEW u \in Users, Begin(u) \/ SoundStep(u), NEW v \in Users, v # u
  PROVE  Same(v)
  <1> USE DEF Same, Tidy, Typed, SlotsTidy, thread, Goto
  <1>1. CASE Begin(u) \/ SearchSlot(u) \/ Send(u)
    BY <1>1 DEF Begin, SearchSlot, Send
  <1>2. CASE TestPredicate(u) \/ FallAsleep(u) \/ CheckSlot(u) \/ Consume(u) \/ ClearInUse(u)
    BY <1>2, SMT DEF TestPredicate, FallAsleep, CheckSlot, Consume, ClearInUse
  <1>3. CASE Cas(u) \/ CasFails(u) \/ Await(u) \/ AwaitThrows(u) \/ ReadOwn(u) \/ Read(u)
    BY <1>3 DEF Cas, CasFails, Await, AwaitThrows, ReadOwn, Read
  <1>4. CASE Post(u) \/ Catch(u) \/ FreeWire(u) \/ Notify(u)
    BY <1>4 DEF Post, Catch, FreeWire, Notify
  <1> QED BY <1>1, <1>2, <1>3, <1>4 DEF SoundStep

(* The predicates on v that a step of another thread keeps.                *)
LEMMA SameIs ==
  ASSUME NEW v, Same(v)
  PROVE  /\ Reply(v)' = Reply(v) /\ Order(v)' = Order(v)
         /\ Busy(v)' <=> Busy(v)
         /\ Owns(v)' <=> Owns(v)
         /\ Waiting(v)' <=> Waiting(v)
         /\ Returning(v)' <=> Returning(v)
         /\ \A l \in Places \ {"asleep", "wait"} : pc'[v] = l <=> pc[v] = l
  BY DEF Same, Reply, Order, Busy, Owns, Waiting, Returning, Places

(* Somebody who begins or ends to fill a slot is somebody who steps.       *)
LEMMA FillingKept ==
  ASSUME NEW u \in Users, \A v \in Users : v # u => Same(v), pc[u] # "post", pc'[u] # "post"
  PROVE  \A i : Filling(i)' <=> Filling(i)
  <1>1. \A v \in Users : (pc'[v] = "post" <=> pc[v] = "post") /\ (pc[v] = "post" => header'[v] = header[v])
    BY DEF Same
  <1> QED BY <1>1 DEF Filling

(* A step after which v waits for the same reply with the same slot.       *)
Alike(v) ==
    /\ at'[v] = at[v] /\ req'[v] = req[v] /\ parts'[v] = parts[v]
    /\ Returning(v) => message'[v] = message[v]
    /\ Busy(v)' <=> Busy(v)
    /\ Owns(v)' <=> Owns(v)
    /\ Waiting(v)' <=> Waiting(v)
    /\ Returning(v)' <=> Returning(v)
    /\ pc'[v] = "send" => pc[v] = "send"
    /\ pc'[v] = "consume" => Owns(v) /\ slot[at[v]] = Holding(Reply(v), 1)

(* Whoever is left alone is alike for the invariant.                       *)
LEMMA SameIsAlike ==
  ASSUME NEW v, Home(v), Same(v)
  PROVE  Alike(v)
  <1>1. pc'[v] = "consume" => pc[v] = "consume" /\ Owns(v) /\ Waiting(v)
    BY DEF Same, Owns, Waiting
  <1>2. pc'[v] = "send" => pc[v] = "send"
    BY DEF Same
  <1> QED BY <1>1, <1>2, SameIs DEF Alike, Home, Placed, Same

(* A step that neither touches the slot of v nor moves the reply to v.     *)
Apart(v) ==
    /\ Alike(v)
    /\ Owns(v) => slot'[at[v]] = slot[at[v]] /\ (Filling(at[v])' <=> Filling(at[v]))
    /\ Waiting(v) => (Ordered(v)' <=> Ordered(v)) /\ (OnWire(v)' <=> OnWire(v))

(* The reply to a thread that a step stays apart from is where it was.     *)
LEMMA ApartKeepsHome ==
  ASSUME NEW v, Home(v), Apart(v)
  PROVE  Home(v)' /\ (Stored(v)' <=> Stored(v))
  <1>0. Alike(v)
    BY DEF Apart
  <1>1. /\ Reply(v)' = Reply(v) /\ (Owns(v)' <=> Owns(v)) /\ (Waiting(v)' <=> Waiting(v))
        /\ (Returning(v)' <=> Returning(v)) /\ at'[v] = at[v]
        /\ parts'[v] = parts[v] /\ (Returning(v) => message'[v] = message[v])
    BY <1>0 DEF Alike, Reply
  <1>2. pc'[v] = "send" => pc[v] = "send" /\ Owns(v)
    BY <1>0 DEF Alike, Owns
  <1>3. pc'[v] = "consume" => Owns(v) /\ slot[at[v]] = Holding(Reply(v), 1)
    BY <1>0 DEF Alike
  <1>4. Owns(v) => Counted(at[v])' = Counted(at[v])
    BY <1>1 DEF Apart, Counted, Filling
  <1>5. Stored(v)' <=> Stored(v)
    BY <1>1 DEF Apart, Stored
  <1>6. Waiting(v)' => Placed(v)'
    <2> SUFFICES ASSUME Waiting(v) PROVE Placed(v)'
      BY <1>1
    <2>0. Placed(v) /\ (Ordered(v)' <=> Ordered(v)) /\ (OnWire(v)' <=> OnWire(v))
      BY DEF Home, Apart
    <2>1. Owns(v) => slot'[at'[v]] = slot[at[v]]
      BY <1>1 DEF Apart
    <2>2. Stored(v)' => slot'[at'[v]] = Holding(Reply(v)', Counted(at[v])')
      <3>1. Stored(v) => Owns(v) /\ slot[at[v]] = Holding(Reply(v), Counted(at[v]))
        BY <2>0 DEF Placed, Stored
      <3> QED BY <1>1, <1>4, <1>5, <2>1, <3>1
    <2>3. pc'[v] = "consume" => slot'[at'[v]] = Holding(Reply(v)', 1)
      BY <1>1, <1>3, <2>1
    <2>4. Returning(v)' => message'[v] = Reply(v)' /\ (Owns(v)' => slot'[at'[v]] = Taken)
      BY <1>1, <2>0, <2>1 DEF Placed
    <2>5. Ordered(v)' \/ OnWire(v)' => Owns(v)' /\ slot'[at'[v]] = Taken /\ ~Returning(v)'
      BY <1>1, <2>0, <2>1 DEF Placed
    <2>6. /\ parts'[v] = <<"RESPONSE_BODY">> /\ ~(Ordered(v)' /\ OnWire(v)')
          /\ Ordered(v)' \/ OnWire(v)' \/ Stored(v)' \/ Returning(v)'
      BY <1>1, <1>5, <2>0 DEF Placed
    <2> QED BY <2>2, <2>3, <2>4, <2>5, <2>6 DEF Placed
  <1> QED BY <1>1, <1>2, <1>5, <1>6 DEF Apart, Home
-----------------------------------------------------------------------------
(* What the steps of a thread do, where the invariant holds                *)

(* The constants, and the message that stands for none.                    *)
LEMMA Numbers ==
  /\ SlotSize \in Nat /\ SlotSize > 0 /\ MaxRequests \in Nat /\ 0 \in Slots
  /\ \A i \in Slots : i \in Nat
  /\ Empty.req = 0 /\ Empty.idx = -1
  BY SessionAssumption, SMT DEF Slots, Empty

(* A reply and the order for it carry the slot and the request of their    *)
(* thread.                                                                 *)
LEMMA ReplyFields ==
  ASSUME NEW u
  PROVE  /\ Reply(u).idx = at[u] /\ Reply(u).type = "RESPONSE_BODY" /\ Reply(u).req = req[u]
         /\ Order(u).idx = at[u] /\ Order(u).types = <<"RESPONSE_BODY">> /\ Order(u).req = req[u]
  BY DEF Reply, Order

(* The reply to a thread that owns a slot is a message.                    *)
LEMMA ReplyType ==
  ASSUME IInv, NEW u \in Users, Owns(u)
  PROVE  Reply(u) \in Messages
  <1>1. at[u] \in Slots /\ Busy(u)
    BY DEF IInv, Owners, Owns, Busy
  <1>2. req[u] \in 1 .. requests /\ requests \in 0 .. MaxRequests
    BY <1>1 DEF IInv, Numbered, Tidy, Typed, SlotsTidy
  <1>3. req[u] \in 1 .. MaxRequests
    BY <1>2, Numbers, SMT
  <1> QED BY <1>1, <1>3 DEF Reply, Messages, Types

(* Whoever waits for a message of the wire has a slot that is as new.      *)
LEMMA OnWireOwns ==
  ASSUME IInv, NEW k \in 1 .. Len(wire)
  PROVE  \E w \in Users : /\ Waiting(w) /\ Busy(w) /\ wire[k] = Reply(w) /\ OnWire(w)
                          /\ Owns(w) /\ slot[at[w]] = Taken /\ ~Returning(w)
  <1>1. PICK w \in Users : Waiting(w) /\ wire[k] = Reply(w)
    BY DEF IInv, Addressed
  <1>2. OnWire(w) /\ Busy(w)
    BY <1>1 DEF OnWire, Waiting, Busy
  <1>3. Placed(w)
    BY <1>1 DEF IInv, Home
  <1> QED BY <1>1, <1>2, <1>3 DEF Placed

(* search_slot: gives up, goes on to the next slot, or takes a free one.   *)
LEMMA SearchDoes ==
  ASSUME IInv, NEW u \in Users, SearchSlot(u)
  PROVE  \/ slot' = slot /\ at' = at /\ pc' = [pc EXCEPT ![u] = "failed"]
         \/ slot' = slot /\ at' = [at EXCEPT ![u] = at[u] + 1] /\ pc' = pc /\ at[u] \in Slots
         \/ /\ at' = at /\ pc' = [pc EXCEPT ![u] = "send"]
            /\ at[u] \in Slots /\ slot[at[u]] = FreeSlot /\ slot' = [slot EXCEPT ![at[u]] = Taken]
  <1>1. CASE at[u] = SlotSize
    BY <1>1 DEF SearchSlot, Goto
  <1>2. CASE at[u] # SlotSize
    <2> DEFINE s == slot[at[u]]
    <2>1. at[u] \in Slots
      BY <1>2, Numbers, SMT DEF IInv, Tidy, Typed, SlotsTidy, Slots
    <2>2. /\ slot' = [slot EXCEPT ![at[u]] = [s EXCEPT !.in_use = TRUE]]
          /\ IF s.in_use THEN at' = [at EXCEPT ![u] = at[u] + 1] /\ pc' = pc
                         ELSE at' = at /\ pc' = [pc EXCEPT ![u] = "send"]
      BY <1>2 DEF SearchSlot, Goto
    <2>3. s = FreeSlot \/ s = Taken \/ \E m \in Messages, n \in {0, 1} : s = Holding(m, n)
      BY <2>1 DEF IInv, Shaped
    <2>4. slot \in [Slots -> SlotStates]
      BY DEF IInv, Tidy, Typed, SlotsTidy
    <2> HIDE DEF s
    <2>5. CASE s = FreeSlot
      BY <2>1, <2>2, <2>5, NewSlots DEF s
    <2>6. CASE s # FreeSlot
      <3>1. s.in_use /\ [s EXCEPT !.in_use = TRUE] = s
        BY <2>3, <2>6, NewSlots, FilledSlots, SMT
      <3>2. slot' = slot
        BY <2>2, <2>4, <3>1 DEF s
      <3> QED BY <2>1, <2>2, <3>1, <3>2
    <2> QED BY <2>5, <2>6
  <1> QED BY <1>1, <1>2

(* consume: the message is the reply to the thread, and the slot is as new *)
(* again.                                                                  *)
LEMMA ConsumeDoes ==
  ASSUME IInv, NEW u \in Users, Consume(u)
  PROVE  /\ slot[at[u]] = Holding(Reply(u), 1) /\ slot' = [slot EXCEPT ![at[u]] = Taken]
         /\ message' = [message EXCEPT ![u] = Reply(u)] /\ pc' = [pc EXCEPT ![u] = "clear"]
  <1>1. pc[u] = "consume" /\ Waiting(u) /\ Owns(u)
    BY DEF Consume, Waiting, Owns
  <1>2. slot[at[u]] = Holding(Reply(u), 1) /\ Reply(u) \in Messages
    BY <1>1, ReplyType DEF IInv, Home, Placed
  <1>3. /\ ~FirstOfTwo(slot[at[u]], slot[at[u]].consumed) /\ FinishReceive(slot[at[u]]) = Taken
        /\ slot[at[u]].body = Reply(u)
    BY <1>2, FilledSlots
  <1> QED BY <1>2, <1>3 DEF Consume, Goto

(* clear_in_use: the slot of the thread is as new, and becomes free.       *)
LEMMA ClearDoes ==
  ASSUME IInv, NEW u \in Users, ClearInUse(u)
  PROVE  /\ Owns(u) /\ Returning(u) /\ slot[at[u]] = Taken /\ slot' = [slot EXCEPT ![at[u]] = FreeSlot]
  <1>1. pc[u] \in {"clear", "clear_own"} /\ todo[u] = "return" /\ Waiting(u) /\ Owns(u)
    BY DEF ClearInUse, Waiting, Owns, IInv, Intent
  <1>2. Returning(u)
    BY <1>1 DEF Returning
  <1>3. slot[at[u]] = Taken
    BY <1>1, <1>2 DEF IInv, Home, Placed
  <1> QED BY <1>1, <1>2, <1>3, NewSlots DEF ClearInUse

(* What Tail leaves of a sequence.                                         *)
LEMMA TailOf ==
  ASSUME NEW S, NEW q \in Seq(S), q # << >>
  PROVE  /\ Len(q) \in Nat \ {0} /\ Head(q) = q[1] /\ Tail(q) \in Seq(S) /\ Len(Tail(q)) = Len(q) - 1
         /\ \A k \in 1 .. Len(q) - 1 : Tail(q)[k] = q[k + 1]
  BY SMT

(* A message that is read is no longer on the wire, and nothing else is    *)
(* different there.                                                        *)
LEMMA WireRead ==
  ASSUME IInv, wire # << >>, wire' = Tail(wire)
  PROVE  /\ \A m : (\E k \in 1 .. Len(wire') : wire'[k] = m) <=>
                      (m # wire[1] /\ \E k \in 1 .. Len(wire) : wire[k] = m)
         /\ \A j, k \in 1 .. Len(wire') : wire'[j] = wire'[k] => j = k
         /\ wire' \in Seq(Messages)
  <1>1. wire \in Seq(Messages) /\ \A j, k \in 1 .. Len(wire) : wire[j] = wire[k] => j = k
    BY DEF IInv, Tidy, Typed, SlotsTidy, Addressed
  <1>2. /\ Len(wire) \in Nat \ {0} /\ wire' \in Seq(Messages) /\ Len(wire') = Len(wire) - 1
        /\ \A k \in 1 .. Len(wire) - 1 : wire'[k] = wire[k + 1]
    BY <1>1, TailOf
  <1>3. \A j, k \in 1 .. Len(wire') : wire'[j] = wire'[k] => j = k
    BY <1>1, <1>2, SMT
  <1>4. ASSUME NEW m, NEW k \in 1 .. Len(wire'), wire'[k] = m
        PROVE  m # wire[1] /\ \E j \in 1 .. Len(wire) : wire[j] = m
    <2>1. k + 1 \in 1 .. Len(wire) /\ wire[k + 1] = m /\ k + 1 # 1 /\ 1 \in 1 .. Len(wire)
      BY <1>2, <1>4, SMT
    <2> QED BY <1>1, <2>1
  <1>5. ASSUME NEW m, m # wire[1], NEW k \in 1 .. Len(wire), wire[k] = m
        PROVE  \E j \in 1 .. Len(wire') : wire'[j] = m
    <2>1. k - 1 \in 1 .. Len(wire') /\ wire'[k - 1] = m
      BY <1>2, <1>5, SMT
    <2> QED BY <2>1
  <1> QED BY <1>2, <1>3, <1>4, <1>5, SMT

(* The message at the front of the wire, for which a thread waits.         *)
LEMMA Front ==
  ASSUME IInv, NEW u \in Users, pc[u] \in {"read", "read_own"}
  PROVE  /\ wire # << >> /\ Head(wire) = wire[1] /\ header[u] = wire[1]
         /\ \E w \in Users : /\ Waiting(w) /\ Busy(w) /\ wire[1] = Reply(w) /\ OnWire(w)
                             /\ Owns(w) /\ slot[at[w]] = Taken /\ ~Returning(w)
                             /\ at[w] = header[u].idx /\ (w = u <=> pc[u] = "read_own")
  <1>1. wire # << >> /\ header[u] = wire[1] /\ wire \in Seq(Messages)
    BY DEF IInv, Intent, Tidy, Typed, SlotsTidy
  <1>2. 1 \in 1 .. Len(wire) /\ Head(wire) = wire[1]
    BY <1>1, TailOf, SMT
  <1>3. PICK w \in Users : /\ Waiting(w) /\ Busy(w) /\ wire[1] = Reply(w) /\ OnWire(w)
                           /\ Owns(w) /\ slot[at[w]] = Taken /\ ~Returning(w)
    BY <1>2, OnWireOwns
  <1>4. at[w] = header[u].idx
    BY <1>1, <1>3, ReplyFields
  <1>5. Owns(u) /\ (pc[u] = "read_own" => header[u].idx = at[u]) /\ (pc[u] = "read" => header[u].idx # at[u])
    BY DEF IInv, Intent, Owns
  <1>6. w = u <=> pc[u] = "read_own"
    BY <1>3, <1>4, <1>5 DEF IInv, Owners
  <1> QED BY <1>1, <1>2, <1>3, <1>4, <1>6

(* What a thread reads is the first message of the wire.                   *)
LEMMA Fetched ==
  ASSUME IInv, NEW u \in Users, pc[u] \in {"read", "read_own"}
  PROVE  Copied(u) = Head(wire) /\ Rest(u) = Tail(wire) /\ header[u].idx \in Slots
  <1>1. wire # << >> /\ header[u] = wire[1] /\ wire \in Seq(Messages)
    BY DEF IInv, Intent, Tidy, Typed
  <1>2. header[u] \in Messages
    BY <1>1, SMT
  <1>3. header[u].req # 0 /\ header[u].idx \in Slots
    BY <1>2, SMT DEF Messages
  <1> QED BY <1>3 DEF Copied, Rest

(* A thread that reads its own reply off the wire returns it, and leaves   *)
(* its slot as new.                                                        *)
LEMMA ReadOwnDoes ==
  ASSUME IInv, NEW u \in Users, ReadOwn(u)
  PROVE  /\ OnWire(u) /\ wire # << >> /\ wire[1] = Reply(u) /\ wire' = Tail(wire)
         /\ slot[at[u]] = Taken /\ slot' = slot
         /\ message' = [message EXCEPT ![u] = Reply(u)] /\ pc' = [pc EXCEPT ![u] = "clear_own"]
         /\ todo' = [todo EXCEPT ![u] = "return"]
  <1>1. pc[u] = "read_own" /\ wire' = Tail(wire) /\ todo' = [todo EXCEPT ![u] = "return"]
    BY Fetched DEF ReadOwn
  <1>2. /\ wire # << >> /\ Head(wire) = wire[1] /\ header[u] = wire[1] /\ wire[1] = Reply(u)
        /\ OnWire(u) /\ slot[at[u]] = Taken /\ Owns(u)
    BY <1>1, Front
  <1> DEFINE s == [slot[at[u]] EXCEPT !.expected = Expect(slot[at[u]], header[u].type)]
  <1>3. s = [Taken EXCEPT !.expected = 1]
    BY <1>2, NewSlots, ReplyFields, SMT
  <1>4. ~FirstOfTwo(s, s.received) /\ FinishReceive(s) = Taken
    BY <1>3, NewSlots
  <1>5. at[u] \in Slots /\ slot \in [Slots -> SlotStates]
    BY <1>2 DEF IInv, Owners, Tidy, Typed, SlotsTidy
  <1>6. message' = [message EXCEPT ![u] = Reply(u)]
    BY <1>2, Fetched DEF ReadOwn
  <1>7. slot' = [slot EXCEPT ![at[u]] = Taken] /\ pc' = [pc EXCEPT ![u] = "clear_own"]
    <2>1. IF FirstOfTwo(s, s.received)
          THEN TRUE ELSE slot' = [slot EXCEPT ![at[u]] = FinishReceive(s)] /\ pc' = [pc EXCEPT ![u] = "clear_own"]
      BY DEF ReadOwn, Goto
    <2> HIDE DEF s
    <2> QED BY <1>4, <2>1
  <1>8. slot' = slot
    BY <1>2, <1>5, <1>7
  <1> QED BY <1>1, <1>2, <1>6, <1>7, <1>8

(* A message for another thread is put in the slot of that thread.         *)
LEMMA ReadDoes ==
  ASSUME IInv, NEW u \in Users, Read(u)
  PROVE  /\ wire # << >> /\ wire' = Tail(wire) /\ header[u] = wire[1] /\ pc' = [pc EXCEPT ![u] = "post"]
         /\ \E w \in Users \ {u} :
               /\ Waiting(w) /\ Busy(w) /\ wire[1] = Reply(w) /\ OnWire(w) /\ Owns(w)
               /\ slot[at[w]] = Taken /\ ~Returning(w) /\ at[w] = header[u].idx
               /\ slot' = [slot EXCEPT ![at[w]] = Holding(Reply(w), 0)]
  <1>1. pc[u] = "read" /\ wire' = Tail(wire) /\ pc' = [pc EXCEPT ![u] = "post"]
    BY Fetched DEF Read, Goto
  <1>2. wire # << >> /\ Head(wire) = wire[1] /\ header[u] = wire[1]
    BY <1>1, Front
  <1>3. PICK w \in Users : /\ Waiting(w) /\ Busy(w) /\ wire[1] = Reply(w) /\ OnWire(w)
                           /\ Owns(w) /\ slot[at[w]] = Taken /\ ~Returning(w)
                           /\ at[w] = header[u].idx /\ (w = u <=> pc[u] = "read_own")
    BY <1>1, Front
  <1>4. PreReceive(slot[at[w]], Reply(w)) = Holding(Reply(w), 0)
    BY <1>3, ReplyType, ReplyFields, FilledSlots
  <1>5. slot' = [slot EXCEPT ![at[w]] = PreReceive(slot[at[w]], Reply(w))]
    BY <1>2, <1>3, Fetched DEF Read
  <1> QED BY <1>1, <1>2, <1>3, <1>4, <1>5

(* post: the slot holds the reply to another thread that waits for it.     *)
LEMMA PostDoes ==
  ASSUME IInv, NEW u \in Users, Post(u)
  PROVE  /\ pc[u] = "post" /\ pc' = [pc EXCEPT ![u] = "free"] /\ todo' = [todo EXCEPT ![u] = "loop"]
         /\ \E w \in Users \ {u} :
               /\ Stored(w) /\ Waiting(w) /\ Owns(w) /\ at[w] = header[u].idx
               /\ slot[at[w]] = Holding(Reply(w), 0)
               /\ slot' = [slot EXCEPT ![at[w]] = Holding(Reply(w), 1)]
  <1>1. pc[u] = "post" /\ pc' = [pc EXCEPT ![u] = "free"] /\ todo' = [todo EXCEPT ![u] = "loop"]
    BY DEF Post, Goto
  <1>2. PICK w \in Users : w # u /\ Stored(w) /\ at[w] = header[u].idx
    BY <1>1 DEF IInv, Intent
  <1>3. Owns(w) /\ Reply(w) \in Messages
    BY <1>2, ReplyType DEF Stored
  <1>4. Waiting(w)
    <2>1. slot[at[w]] # Taken
      BY <1>2, <1>3, FilledSlots DEF Stored
    <2>2. pc[w] # "send"
      BY <2>1 DEF IInv, Home
    <2> QED BY <1>3, <2>2 DEF Owns, Waiting
  <1>5. Counted(at[w]) = 0
    BY <1>1, <1>2 DEF Counted, Filling
  <1>6. slot[at[w]] = Holding(Reply(w), 0)
    BY <1>2, <1>4, <1>5 DEF IInv, Home, Placed
  <1>7. PostReceive(slot[at[w]]) = Holding(Reply(w), 1)
    BY <1>3, <1>6, FilledSlots
  <1>8. slot' = [slot EXCEPT ![at[w]] = PostReceive(slot[at[w]])]
    BY <1>2 DEF Post
  <1> QED BY <1>1, <1>2, <1>3, <1>4, <1>6, <1>7, <1>8
-----------------------------------------------------------------------------
(* Types                                                                   *)

(* A slot that becomes as new, or gets the reply to a thread, is typed.    *)
SlotsTyped(f) == f \in [Slots -> SlotStates] /\ \A i \in Slots : ~f[i].in_use => f[i] = FreeSlot

(* Storing a free slot, a taken one or one that holds a message keeps the  *)
(* type of the slots.                                                      *)
LEMMA SlotsStayTyped ==
  ASSUME NEW f, NEW i \in Slots, NEW s, SlotsTyped(f),
         s = FreeSlot \/ s = Taken \/ \E m \in Messages, n \in {0, 1} : s = Holding(m, n)
  PROVE  SlotsTyped([f EXCEPT ![i] = s])
  <1>1. s \in SlotStates /\ (s.in_use \/ s = FreeSlot)
    <2>1. ASSUME NEW m \in Messages, NEW n \in {0, 1}, s = Holding(m, n)
          PROVE  s \in SlotStates /\ s.in_use
      BY <2>1, SlotFields DEF Fields
    <2>2. s \in {FreeSlot, Taken} => s \in SlotStates /\ (s.in_use \/ s = FreeSlot)
      BY SlotFields DEF Fields
    <2> QED BY <2>1, <2>2
  <1> QED BY <1>1 DEF SlotsTyped

(* Every step of a thread keeps the type of the slots,                     *)
LEMMA SlotTypesKept ==
  ASSUME IInv, NEW u \in Users, Begin(u) \/ SoundStep(u)
  PROVE  SlotsTyped(slot')
  <1>0. SlotsTyped(slot)
    BY DEF IInv, Tidy, Typed, SlotsTidy, SlotsTyped
  <1>1. CASE SearchSlot(u)
    BY <1>0, <1>1, SearchDoes, SlotsStayTyped, SMT
  <1>2. CASE Consume(u)
    <2>1. at[u] \in Slots
      BY <1>2 DEF Consume, IInv, Owners, Owns
    <2> QED BY <1>0, <1>2, <2>1, ConsumeDoes, SlotsStayTyped, SMT
  <1>3. CASE ClearInUse(u)
    <2>1. at[u] \in Slots
      BY <1>3, ClearDoes DEF IInv, Owners
    <2> QED BY <1>0, <1>3, <2>1, ClearDoes, SlotsStayTyped, SMT
  <1>4. CASE ReadOwn(u)
    BY <1>0, <1>4, ReadOwnDoes
  <1>5. CASE Read(u)
    <2>1. PICK w \in Users : Owns(w) /\ slot' = [slot EXCEPT ![at[w]] = Holding(Reply(w), 0)]
      BY <1>5, ReadDoes
    <2>2. at[w] \in Slots /\ Reply(w) \in Messages
      BY <2>1, ReplyType DEF IInv, Owners
    <2> QED BY <1>0, <2>1, <2>2, SlotsStayTyped
  <1>6. CASE Post(u)
    <2>1. PICK w \in Users : Owns(w) /\ slot' = [slot EXCEPT ![at[w]] = Holding(Reply(w), 1)]
      BY <1>6, PostDoes
    <2>2. at[w] \in Slots /\ Reply(w) \in Messages
      BY <2>1, ReplyType DEF IInv, Owners
    <2> QED BY <1>0, <2>1, <2>2, SlotsStayTyped
  <1>7. CASE UNCHANGED slot
    BY <1>0, <1>7
  <1> QED BY <1>1, <1>2, <1>3, <1>4, <1>5, <1>6, <1>7 DEF Begin, SoundStep, Send, TestPredicate, FallAsleep,
             CheckSlot, Cas, CasFails, Await, AwaitThrows, Catch, FreeWire, Notify

(* The variables of a thread.                                              *)
ThreadTyped ==
    /\ at \in [Users -> 0 .. SlotSize] /\ req \in [Users -> 0 .. requests]
    /\ parts \in [Users -> Seq(Types)]
    /\ header \in [Users -> Messages \cup {Empty}] /\ message \in [Users -> Messages \cup {Empty}]
    /\ todo \in [Users -> {"return", "loop", "throw"}] /\ requests \in 0 .. MaxRequests

(* and that of what belongs to the threads.                                *)
LEMMA ThreadTypesKept ==
  ASSUME OneBody, IInv, NEW u \in Users, Begin(u) \/ SoundStep(u)
  PROVE  ThreadTyped'
  <1>0. ThreadTyped /\ MaxRequests \in Nat /\ SlotSize \in Nat
    BY Numbers DEF IInv, Tidy, Typed, SlotsTidy, ThreadTyped
  <1>1. CASE Begin(u)
    <2>1. requests \in Nat /\ requests' = requests + 1 /\ requests' \in 0 .. MaxRequests
      BY <1>0, <1>1, SMT DEF Begin, ThreadTyped
    <2>2. req' \in [Users -> 0 .. requests']
      BY <1>0, <1>1, <2>1, SMT DEF Begin, ThreadTyped
    <2>3. at' \in [Users -> 0 .. SlotSize] /\ UNCHANGED <<parts, header, message, todo>>
      BY <1>0, <1>1, SMT DEF Begin, ThreadTyped
    <2> QED BY <1>0, <2>1, <2>2, <2>3 DEF ThreadTyped
  <1>2. CASE SearchSlot(u)
    <2>1. at' \in [Users -> 0 .. SlotSize]
      <3>1. at' = at \/ (at' = [at EXCEPT ![u] = at[u] + 1] /\ at[u] \in Slots)
        BY <1>2, SearchDoes
      <3>2. at[u] \in Slots => at[u] + 1 \in 0 .. SlotSize
        BY <1>0, SMT DEF Slots
      <3> QED BY <1>0, <3>1, <3>2 DEF ThreadTyped
    <2>2. UNCHANGED <<requests, req, parts, header, message, todo>>
      BY <1>2 DEF SearchSlot, server
    <2> QED BY <1>0, <2>1, <2>2 DEF ThreadTyped
  <1>3. CASE Send(u)
    <2>1. <<"RESPONSE_BODY">> \in Seq(Types)
      BY SMT DEF Types
    <2>2. parts' \in [Users -> Seq(Types)]
      BY <1>0, <1>3, <2>1 DEF Send, OneBody, ThreadTyped
    <2>3. UNCHANGED <<requests, req, at, header, message, todo>>
      BY <1>3 DEF Send
    <2> QED BY <1>0, <2>2, <2>3 DEF ThreadTyped
  <1>4. CASE Consume(u)
    <2>1. Reply(u) \in Messages
      BY <1>4, ReplyType DEF Consume, Owns
    <2>2. message' \in [Users -> Messages \cup {Empty}] /\ todo' \in [Users -> {"return", "loop", "throw"}]
      BY <1>0, <1>4, <2>1, ConsumeDoes DEF Consume, ThreadTyped
    <2>3. UNCHANGED <<requests, req, at, parts, header>>
      BY <1>4 DEF Consume, server
    <2> QED BY <1>0, <2>2, <2>3 DEF ThreadTyped
  <1>5. CASE Await(u)
    <2>1. Head(wire) \in Messages
      <3>1. wire \in Seq(Messages) /\ wire # << >>
        BY <1>5 DEF Await, IInv, Tidy, Typed, SlotsTidy
      <3> QED BY <3>1, SMT
    <2>2. header' \in [Users -> Messages \cup {Empty}]
      BY <1>0, <1>5, <2>1 DEF Await, ThreadTyped
    <2>3. UNCHANGED <<requests, req, at, parts, message, todo>>
      BY <1>5 DEF Await, server
    <2> QED BY <1>0, <2>2, <2>3 DEF ThreadTyped
  <1>6. CASE ReadOwn(u)
    <2>1. Reply(u) \in Messages
      BY <1>6, ReplyType DEF ReadOwn, Owns
    <2>2. message' \in [Users -> Messages \cup {Empty}] /\ todo' \in [Users -> {"return", "loop", "throw"}]
      <3>1. message' = [message EXCEPT ![u] = Reply(u)] /\ todo' = [todo EXCEPT ![u] = "return"]
        BY <1>6, ReadOwnDoes
      <3> QED BY <1>0, <2>1, <3>1 DEF ThreadTyped
    <2>3. UNCHANGED <<requests, req, at, parts, header>>
      BY <1>6 DEF ReadOwn, server
    <2> QED BY <1>0, <2>2, <2>3 DEF ThreadTyped
  <1>7. CASE Post(u) \/ Catch(u)
    <2>1. todo' \in [Users -> {"return", "loop", "throw"}]
      BY <1>0, <1>7 DEF Post, Catch, ThreadTyped
    <2>2. UNCHANGED <<requests, req, at, parts, header, message>>
      BY <1>7 DEF Post, Catch, server
    <2> QED BY <1>0, <2>1, <2>2 DEF ThreadTyped
  <1>8. CASE Notify(u)
    <2>1. requests' = requests /\ requests \in Nat
      BY <1>0, <1>8, SMT DEF Notify, server, ThreadTyped
    <2>2. /\ at' \in [Users -> 0 .. SlotSize] /\ req' \in [Users -> 0 .. requests]
          /\ header' \in [Users -> Messages \cup {Empty}] /\ message' \in [Users -> Messages \cup {Empty}]
          /\ todo' \in [Users -> {"return", "loop", "throw"}]
      BY <1>0, <1>8, <2>1, SMT DEF Notify, ThreadTyped
    <2>3. parts' \in [Users -> Seq(Types)]
      <3>1. parts[u] = <<"RESPONSE_BODY">>
        BY <1>8 DEF Notify, IInv, Home, Waiting, Placed
      <3>2. Tail(parts[u]) \in Seq(Types)
        BY <3>1, SMT
      <3> QED BY <1>0, <1>8, <3>2 DEF Notify, ThreadTyped
    <2> QED BY <1>0, <2>1, <2>2, <2>3 DEF ThreadTyped
  <1>9. CASE UNCHANGED <<requests, at, req, parts, header, message, todo>>
    BY <1>0, <1>9 DEF ThreadTyped
  <1> QED BY <1>1, <1>2, <1>3, <1>4, <1>5, <1>6, <1>7, <1>8, <1>9 DEF SoundStep, TestPredicate, FallAsleep,
             CheckSlot, ClearInUse, Cas, CasFails, AwaitThrows, Read, FreeWire, thread, server

(* What the server sends is a reply to somebody who waits for it.          *)
LEMMA AnswerDoes ==
  ASSUME IInv, Answer
  PROVE  /\ alive
         /\ \E w \in Users : /\ Waiting(w) /\ Busy(w) /\ Ordered(w) /\ Owns(w) /\ ~OnWire(w)
                             /\ slot[at[w]] = Taken /\ ~Returning(w)
                             /\ pending' = pending \ {Order(w)} /\ wire' = Append(wire, Reply(w))
  <1>1. alive
    BY DEF Answer
  <1>2. PICK p \in pending :
          /\ wire' = Append(wire, [idx |-> p.idx, type |-> Head(p.types), req |-> p.req])
          /\ pending' = (pending \ {p}) \cup (IF Len(p.types) > 1 THEN {[p EXCEPT !.types = Tail(@)]} ELSE {})
    BY DEF Answer
  <1>3. PICK w \in Users : Waiting(w) /\ p = Order(w)
    BY <1>1 DEF IInv, Addressed
  <1>4. p.idx = at[w] /\ p.req = req[w] /\ p.types = <<"RESPONSE_BODY">>
    BY <1>3, ReplyFields
  <1>5. Len(p.types) = 1 /\ Head(p.types) = "RESPONSE_BODY"
    BY <1>4, SMT
  <1>6. pending' = pending \ {Order(w)} /\ wire' = Append(wire, Reply(w))
    BY <1>2, <1>3, <1>4, <1>5, SMT DEF Reply
  <1>7. Ordered(w) /\ Busy(w)
    BY <1>3 DEF Ordered, Waiting, Busy
  <1>8. Owns(w) /\ slot[at[w]] = Taken /\ ~Returning(w) /\ ~OnWire(w)
    BY <1>3, <1>7 DEF IInv, Home, Placed
  <1> QED BY <1>1, <1>3, <1>6, <1>7, <1>8

(* Every step keeps the type invariant.                                    *)
LEMMA TypesKept ==
  ASSUME OneBody, IInv, [SoundNext]_vars
  PROVE  Tidy'
  <1>0. Tidy /\ pc' \in [Users -> Places] /\ using' \in BOOLEAN
    BY ReadersKept DEF IInv, Tidy, Typed, SlotsTidy
  <1> DEFINE ServerTyped == /\ wire \in Seq(Messages)
                            /\ \A p \in pending : p.idx \in Slots /\ p.req \in 1 .. requests
                            /\ alive \in BOOLEAN /\ probed \in BOOLEAN
  <1>1. ServerTyped /\ SlotsTyped(slot) /\ ThreadTyped
    BY <1>0 DEF Tidy, Typed, SlotsTidy, SlotsTyped, ThreadTyped
  <1>2. SlotsTyped(slot)' /\ ThreadTyped' /\ ServerTyped' => Tidy'
    BY <1>0 DEF Tidy, Typed, SlotsTidy, SlotsTyped, ThreadTyped
  <1>3. ASSUME NEW u \in Users, Begin(u) \/ SoundStep(u) PROVE ServerTyped'
    <2>1. wire' \in Seq(Messages)
      <3>1. CASE ReadOwn(u)
        BY <3>1, ReadOwnDoes, WireRead
      <3>2. CASE Read(u)
        BY <3>2, ReadDoes, WireRead
      <3>3. CASE UNCHANGED wire
        BY <1>1, <3>3
      <3> QED BY <1>3, <3>1, <3>2, <3>3 DEF Begin, SoundStep, SearchSlot, Send, TestPredicate, FallAsleep, CheckSlot,
                 Consume, ClearInUse, Cas, CasFails, Await, AwaitThrows, Post, Catch, FreeWire, Notify
    <2>2. alive' = alive /\ probed' = probed
      BY <1>3 DEF Begin, SoundStep, SearchSlot, Send, TestPredicate, FallAsleep, CheckSlot, Consume, ClearInUse,
            Cas, CasFails, Await, AwaitThrows, ReadOwn, Read, Post, Catch, FreeWire, Notify, server
    <2>3. \A p \in pending' : p.idx \in Slots /\ p.req \in 1 .. requests'
      <3>0. requests \in Nat
        BY <1>1, Numbers, SMT DEF ThreadTyped
      <3>1. CASE Begin(u)
        <4>1. requests' = requests + 1 /\ pending' = pending
          BY <3>1 DEF Begin
        <4> QED BY <1>1, <3>0, <4>1, SMT
      <3>2. CASE Send(u)
        <4>1. at[u] \in Slots /\ req[u] \in 1 .. requests
          BY <3>2 DEF Send, IInv, Owners, Owns, Numbered, Busy
        <4>2. PICK r \in Replies : pending' = pending \cup {[idx |-> at[u], req |-> req[u], types |-> r]}
          BY <3>2 DEF Send
        <4>3. requests' = requests
          BY <3>2 DEF Send
        <4> QED BY <1>1, <4>1, <4>2, <4>3, SMT
      <3>3. CASE UNCHANGED <<pending, requests>>
        BY <1>1, <3>3
      <3> QED BY <1>3, <3>1, <3>2, <3>3 DEF SoundStep, SearchSlot, TestPredicate, FallAsleep, CheckSlot, Consume,
                 ClearInUse, Cas, CasFails, Await, AwaitThrows, ReadOwn, Read, Post, Catch, FreeWire, Notify, server
    <2> QED BY <1>1, <2>1, <2>2, <2>3
  <1>4. CASE \E u \in Users : Begin(u) \/ SoundStep(u)
    BY <1>2, <1>3, <1>4, SlotTypesKept, ThreadTypesKept
  <1>5. CASE Answer
    <2>1. PICK w \in Users : Owns(w) /\ pending' = pending \ {Order(w)} /\ wire' = Append(wire, Reply(w))
      BY <1>5, AnswerDoes
    <2>2. Reply(w) \in Messages
      BY <2>1, ReplyType
    <2>3. wire' \in Seq(Messages)
      BY <1>1, <2>1, <2>2, SMT
    <2>4. UNCHANGED <<slot, alive, probed, requests, thread>>
      BY <1>5 DEF Answer
    <2> QED BY <1>1, <1>2, <2>1, <2>3, <2>4 DEF SlotsTyped, ThreadTyped, thread
  <1>6. CASE Crash \/ Shutdown \/ Probe
    BY <1>1, <1>2, <1>6 DEF Crash, Shutdown, Probe, SlotsTyped, ThreadTyped, thread
  <1>7. CASE UNCHANGED vars
    BY <1>1, <1>2, <1>7 DEF vars, server, SlotsTyped, ThreadTyped, thread
  <1> QED BY <1>4, <1>5, <1>6, <1>7 DEF SoundNext
-----------------------------------------------------------------------------
(* What a step has to keep                                                 *)

(* Of a thread that does not step.                                         *)
LEMMA IntentKept ==
  ASSUME NEW v \in Users, Intent(v), Same(v), alive' => alive,
         ~alive /\ wire = << >> => wire' = << >>,
         pc[v] \in {"read", "read_own"} => wire' # << >> /\ wire'[1] = wire[1],
         pc[v] = "post" => \A x \in Users : Stored(x) /\ at[x] = header[v].idx => Stored(x)' /\ at'[x] = at[x],
         (pc[v] = "caught" \/ todo[v] = "throw") /\ (\A x \in Users : pc[x] # "post") => \A x \in Users : pc'[x] # "post"
  PROVE  Intent(v)'
  <1>1. /\ at'[v] = at[v] /\ header'[v] = header[v] /\ todo'[v] = todo[v]
        /\ \A l : l \notin {"asleep", "wait"} => (pc'[v] = l <=> pc[v] = l)
    BY DEF Same
  <1>2. pc'[v] \notin {"clear", "clear_own", "free", "notify"} <=> pc[v] \notin {"clear", "clear_own", "free", "notify"}
    BY <1>1
  <1>3. pc'[v] = "post" => \E x \in Users : x # v /\ Stored(x)' /\ at'[x] = header'[v].idx
    BY <1>1 DEF Intent
  <1>4. pc'[v] = "caught" \/ todo'[v] = "throw" => ~alive' /\ wire' = << >> /\ \A x \in Users : pc'[x] # "post"
    BY <1>1 DEF Intent
  <1>5. /\ pc'[v] \in {"read", "read_own"} => wire' # << >> /\ header'[v] = wire'[1]
        /\ pc'[v] = "read_own" => header'[v].idx = at'[v]
        /\ pc'[v] = "read" => header'[v].idx # at'[v]
    BY <1>1 DEF Intent
  <1>6. pc'[v] \in {"clear", "clear_own"} => todo'[v] = "return"
    BY <1>1 DEF Intent
  <1> QED BY <1>1, <1>2, <1>3, <1>4, <1>5, <1>6 DEF Intent

(* Of what is at the server and on the wire, by a step that leaves it.     *)
Stays(v) == Waiting(v)' /\ Order(v)' = Order(v) /\ Reply(v)' = Reply(v)
Served(v) == ~Busy(v)' /\ (Ordered(v) => ~alive') /\ ~OnWire(v)

(* What the server owes and what is on the wire stays addressed while its  *)
(* threads wait.                                                           *)
LEMMA AddressedKept ==
  ASSUME IInv, UNCHANGED <<wire, pending>>, alive' => alive,
         \A v \in Users : Waiting(v) => Stays(v) \/ Served(v),
         \A v \in Users : Busy(v)' => Busy(v) /\ req'[v] = req[v]
  PROVE  Addressed'
  <1>1. ASSUME NEW p \in pending, NEW v \in Users, Busy(v)', p.req = req'[v]
        PROVE  Waiting(v)' /\ p = Order(v)'
    <2>1. Waiting(v) /\ p = Order(v)
      BY <1>1 DEF IInv, Addressed
    <2>2. Stays(v)
      BY <1>1, <2>1 DEF Served
    <2> QED BY <2>1, <2>2 DEF Stays
  <1>2. ASSUME alive', NEW p \in pending PROVE \E v \in Users : Waiting(v)' /\ p = Order(v)'
    <2>1. PICK v \in Users : Waiting(v) /\ p = Order(v)
      BY <1>2 DEF IInv, Addressed
    <2>2. Stays(v)
      BY <1>2, <2>1 DEF Served, Ordered
    <2> QED BY <2>1, <2>2 DEF Stays
  <1>3. ASSUME NEW k \in 1 .. Len(wire) PROVE \E v \in Users : Waiting(v)' /\ wire[k] = Reply(v)'
    <2>1. PICK v \in Users : Waiting(v) /\ wire[k] = Reply(v)
      BY DEF IInv, Addressed
    <2>2. Stays(v)
      BY <2>1 DEF Served, OnWire
    <2> QED BY <2>1, <2>2 DEF Stays
  <1>4. \A j, k \in 1 .. Len(wire') : wire'[j] = wire'[k] => j = k
    BY DEF IInv, Addressed
  <1> QED BY <1>1, <1>2, <1>3, <1>4 DEF Addressed

(* A thread that is alike stays waiting for the same reply.                *)
LEMMA AlikeStays ==
  ASSUME NEW v, Alike(v), Waiting(v)
  PROVE  Stays(v)
  BY DEF Alike, Stays, Order, Reply

(* Of the slots, when the step is about thread w and nobody else: w has    *)
(* the slot it had or one that nobody has, and the only reply that may be  *)
(* put into a slot, or be taken from it, is that to w.                     *)
Handles(w) ==
    /\ \A v \in Users \ {w} : Apart(v)
    /\ Busy(w)' => Busy(w) /\ req'[w] = req[w]
    /\ Owns(w)' => /\ at'[w] \in Slots /\ slot'[at'[w]].in_use
                   /\ \A v \in Users \ {w} : Owns(v) => at[v] # at'[w]
    /\ \A i \in Slots : \/ slot'[i] = slot[i] /\ ~(Stored(w) /\ i = at[w])
                        \/ slot'[i] \in {FreeSlot, Taken}
                        \/ ~Busy(w)' /\ slot'[i] = slot[i]
                        \/ /\ Stored(w)' /\ Waiting(w)' /\ i = at'[w]
                           /\ \E n \in {0, 1} : slot'[i] = Holding(Reply(w)', n)

(* What a step that stays apart from a thread leaves alone.                *)
LEMMA ApartIs ==
  ASSUME NEW v, Apart(v)
  PROVE  /\ (Busy(v)' <=> Busy(v)) /\ req'[v] = req[v] /\ at'[v] = at[v]
         /\ (Owns(v)' <=> Owns(v)) /\ (Waiting(v)' <=> Waiting(v)) /\ Reply(v)' = Reply(v) /\ Order(v)' = Order(v)
         /\ Owns(v) => slot'[at[v]] = slot[at[v]]
  BY DEF Apart, Alike, Reply, Order

(* Nobody else loses their slot, or gets that of another.                  *)
LEMMA OwnersKept ==
  ASSUME IInv, NEW w \in Users, Handles(w)
  PROVE  Owners'
  <1>1. ASSUME NEW v \in Users, Owns(v)' PROVE at'[v] \in Slots /\ slot'[at'[v]].in_use
    <2>1. CASE v = w
      BY <1>1, <2>1 DEF Handles
    <2>2. CASE v # w
      <3>1. Owns(v) /\ at'[v] = at[v] /\ slot'[at[v]] = slot[at[v]]
        BY <1>1, <2>2, ApartIs DEF Handles
      <3> QED BY <3>1 DEF IInv, Owners
    <2> QED BY <2>1, <2>2
  <1>2. ASSUME NEW u \in Users, NEW v \in Users, Owns(u)', Owns(v)', at'[u] = at'[v], u # v PROVE FALSE
    <2>1. \A x \in Users \ {w} : Owns(x)' => Owns(x) /\ at'[x] = at[x]
      BY ApartIs DEF Handles
    <2>2. u # w /\ v # w
      BY <1>2, <2>1 DEF Handles
    <2> QED BY <1>2, <2>1, <2>2 DEF IInv, Owners
  <1> QED BY <1>1, <1>2 DEF Owners

(* The numbers of the requests stay apart while no request is made.        *)
LEMMA NumberedKept ==
  ASSUME IInv, requests' = requests, \A v \in Users : Busy(v)' => Busy(v) /\ req'[v] = req[v]
  PROVE  Numbered'
  BY DEF IInv, Numbered

(* Every slot is left free, taken, or with the reply to a thread that      *)
(* waits for it.                                                           *)
LEMMA ShapedKept ==
  ASSUME IInv, NEW w \in Users, Handles(w), requests' = requests
  PROVE  \A i \in Slots : Shaped(i)'
  <1> SUFFICES ASSUME NEW i \in Slots PROVE Shaped(i)'
    OBVIOUS
  <1>0. /\ Shaped(i) /\ requests \in Nat
        /\ \A v \in Users : Busy(v) => req[v] \in 1 .. requests
        /\ \A u, v \in Users : Busy(u) /\ Busy(v) /\ req[u] = req[v] => u = v
    BY Numbers, SMT DEF IInv, Numbered, Tidy, Typed, SlotsTidy
  <1>1. \A v \in Users : Busy(v)' => Busy(v) /\ req'[v] = req[v]
    BY ApartIs DEF Handles
  <1>2. \A v \in Users \ {w} : Waiting(v) /\ Stored(v) /\ at[v] = i => Waiting(v)' /\ Stored(v)' /\ at'[v] = i
    BY ApartIs, ApartKeepsHome DEF Handles, IInv
  <1>3. CASE slot'[i] = slot[i] /\ (~(Stored(w) /\ i = at[w]) \/ ~Busy(w)')
    <2>1. ASSUME NEW v \in Users, Busy(v)', slot'[i].body.req = req'[v]
          PROVE  Waiting(v)' /\ Stored(v)' /\ at'[v] = i
      <3>1. Waiting(v) /\ Stored(v) /\ at[v] = i
        BY <1>0, <1>1, <1>3, <2>1 DEF Shaped
      <3>2. v # w
        BY <1>3, <2>1, <3>1
      <3> QED BY <1>2, <3>1, <3>2
    <2> QED BY <1>0, <1>3, <2>1 DEF Shaped
  <1>4. CASE slot'[i] \in {FreeSlot, Taken}
    <2>1. slot'[i].body.req = 0
      BY <1>4, SlotFields, Numbers DEF Fields
    <2>2. \A v \in Users : Busy(v)' => req'[v] # 0
      BY <1>0, <1>1, SMT
    <2> QED BY <1>0, <1>4, <2>1, <2>2, SMT DEF Shaped
  <1>5. ASSUME Stored(w)', Waiting(w)', i = at'[w], NEW n \in {0, 1}, slot'[i] = Holding(Reply(w)', n)
        PROVE  Shaped(i)'
    <2>1. Busy(w)' /\ Busy(w) /\ req'[w] = req[w] /\ req[w] \in 1 .. requests
      BY <1>0, <1>1, <1>5 DEF Waiting, Busy
    <2>2. req[w] \in 1 .. MaxRequests
      BY <1>0, <2>1, Numbers, SMT DEF IInv, Tidy, Typed, SlotsTidy
    <2>3. Reply(w)' \in Messages
      BY <1>5, <2>1, <2>2 DEF Reply, Messages, Types
    <2>4. slot'[i].body.req = req[w]
      BY <1>5, <2>1, <2>3, FilledSlots, ReplyFields, SMT DEF Reply
    <2>5. \A v \in Users : Busy(v)' /\ slot'[i].body.req = req'[v] => v = w
      BY <1>0, <1>1, <2>1, <2>4
    <2>6. slot'[i].body.req <= requests'
      BY <1>0, <2>1, <2>4, SMT
    <2> QED BY <1>5, <2>3, <2>5, <2>6 DEF Shaped
  <1> QED BY <1>3, <1>4, <1>5 DEF Handles

(* A step that handles the reply to one thread keeps the invariant, if it  *)
(* does for that thread.                                                   *)
LEMMA HandlesKeeps ==
  ASSUME OneBody, IInv, [SoundNext]_vars, requests' = requests, NEW w \in Users, Handles(w),
         Addressed', Home(w)', \A v \in Users : Intent(v)'
  PROVE  IInv'
  <1>1. Tidy' /\ Readers'
    BY TypesKept, ReadersKept DEF IInv, Tidy, Typed, SlotsTidy
  <1>2. Numbered'
    BY NumberedKept, ApartIs DEF Handles
  <1>3. \A v \in Users \ {w} : Home(v)'
    BY ApartKeepsHome DEF Handles, IInv
  <1> QED BY <1>1, <1>2, <1>3, OwnersKept, ShapedKept DEF IInv

(* A step after which everybody is as before.                              *)
LEMMA QuietKeeps ==
  ASSUME OneBody, IInv, [SoundNext]_vars, UNCHANGED <<slot, wire, pending, requests>>, alive' => alive,
         \A v \in Users : Alike(v) /\ Intent(v)', \A i : Filling(i)' <=> Filling(i)
  PROVE  IInv'
  <1>1. \A v \in Users : Apart(v)
    BY DEF Apart, Alike, Ordered, OnWire, Order, Reply
  <1>2. Addressed'
    BY AddressedKept, AlikeStays DEF Alike
  <1>3. \A v \in Users : Home(v)' /\ (Stored(v)' <=> Stored(v))
    BY <1>1, ApartKeepsHome DEF IInv
  <1>4. Tidy' /\ Readers'
    BY TypesKept, ReadersKept DEF IInv, Tidy, Typed, SlotsTidy
  <1>5. Numbered'
    BY NumberedKept DEF Alike
  <1>6. Owners'
    BY <1>1, ApartIs DEF IInv, Owners
  <1>7. ASSUME NEW i \in Slots PROVE Shaped(i)'
    <2>1. Shaped(i)
      BY DEF IInv
    <2>2. \A v \in Users : /\ Busy(v)' => Busy(v) /\ req'[v] = req[v]
                           /\ Waiting(v) /\ Stored(v) /\ at[v] = i => Waiting(v)' /\ Stored(v)' /\ at'[v] = i
      BY <1>1, <1>3, ApartIs
    <2> QED BY <2>1, <2>2 DEF Shaped
  <1> QED BY <1>2, <1>3, <1>4, <1>5, <1>6, <1>7 DEF IInv
-----------------------------------------------------------------------------
(* The steps                                                               *)

(* A step of u after which u is at another place and all else is as it was. *)
LEMMA QuietThread ==
  ASSUME OneBody, IInv, [SoundNext]_vars, NEW u \in Users, Begin(u) \/ SoundStep(u), Alike(u), Intent(u)',
         UNCHANGED <<slot, wire, pending, requests, alive>>, pc[u] # "post", pc'[u] # "post"
  PROVE  IInv'
  <1>1. \A v \in Users \ {u} : Same(v)
    BY OthersAreSame DEF IInv
  <1>2. \A v \in Users : Alike(v)
    BY <1>1, SameIsAlike DEF IInv
  <1>3. \A i : Filling(i)' <=> Filling(i)
    BY <1>1, FillingKept
  <1>4. \A v \in Users : Stored(v) => Stored(v)' /\ at'[v] = at[v]
    BY <1>2 DEF Alike, Stored, Reply
  <1>5. (\A x \in Users : pc[x] # "post") => \A x \in Users : pc'[x] # "post"
    BY <1>1 DEF Same
  <1>6. ASSUME NEW v \in Users \ {u} PROVE Intent(v)'
    <2>1. pc[v] \in {"read", "read_own"} => wire # << >>
      BY DEF IInv, Intent
    <2> QED BY <1>1, <1>4, <1>5, <2>1, IntentKept DEF IInv
  <1> QED BY <1>2, <1>3, <1>6, QuietKeeps

(* Thread u goes on from one place to another where it waits as before.    *)
Resting == {"wait", "drowsy", "asleep", "check", "consume", "cas", "await", "read_own", "read", "caught"}

(* A thread that moves between places where its reply is not touched is    *)
(* alike.                                                                  *)
LEMMA RestingAlike ==
  ASSUME NEW u, pc[u] \in Resting, pc'[u] \in Resting, at'[u] = at[u], req'[u] = req[u], parts'[u] = parts[u],
         todo'[u] = todo[u], todo[u] = "loop", pc'[u] = "consume" => slot[at[u]] = Holding(Reply(u), 1)
  PROVE  Alike(u)
  <1>1. Busy(u) /\ Busy(u)' /\ Owns(u) /\ Owns(u)' /\ Waiting(u) /\ Waiting(u)' /\ pc'[u] # "send"
    BY DEF Resting, Busy, Owns, Waiting
  <1>2. ~Returning(u) /\ ~Returning(u)'
    BY DEF Returning
  <1> QED BY <1>1, <1>2 DEF Alike

(* The steps that test, sleep, look at the slot, take the wire or wait on  *)
(* it.                                                                     *)
LEMMA RestingStep ==
  ASSUME OneBody, IInv, [SoundNext]_vars, NEW u \in Users,
         TestPredicate(u) \/ FallAsleep(u) \/ CheckSlot(u) \/ Cas(u) \/ CasFails(u) \/ Await(u) \/ AwaitThrows(u)
  PROVE  IInv'
  <1>0. /\ pc \in [Users -> Places] /\ header \in [Users -> Messages \cup {Empty}]
        /\ wire \in Seq(Messages) /\ Intent(u)
    BY DEF IInv, Tidy, Typed, SlotsTidy
  <1>1. /\ UNCHANGED <<slot, wire, pending, requests, alive, at, req, parts, message, todo>>
        /\ pc[u] \in Resting \ {"consume", "read_own", "read", "caught"}
        /\ \E l \in Resting : pc' = [pc EXCEPT ![u] = l]
    BY DEF TestPredicate, FallAsleep, CheckSlot, Cas, CasFails, Await, AwaitThrows, Goto, thread, server, Resting
  <1>2. pc'[u] \in Resting /\ todo[u] = "loop" /\ pc[u] # "post" /\ pc'[u] # "post"
    BY <1>0, <1>1 DEF Resting, Intent
  <1>3. pc'[u] = "consume" => slot[at[u]] = Holding(Reply(u), 1)
    <2> SUFFICES ASSUME pc'[u] = "consume" PROVE slot[at[u]] = Holding(Reply(u), 1)
      OBVIOUS
    <2>1. pc[u] = "check" /\ Valid(slot[at[u]])
      BY <1>0 DEF TestPredicate, FallAsleep, CheckSlot, Cas, CasFails, Await, AwaitThrows, Goto
    <2>2. Owns(u) /\ Waiting(u) /\ ~Returning(u)
      BY <2>1 DEF Owns, Waiting, Returning
    <2>3. Placed(u) /\ slot[at[u]] # Taken
      BY <2>1, <2>2, NewSlots DEF IInv, Home
    <2>4. slot[at[u]] = Holding(Reply(u), Counted(at[u])) /\ Counted(at[u]) \in {0, 1}
      BY <2>2, <2>3 DEF Placed, Counted
    <2>5. Counted(at[u]) = 1
      BY <2>1, <2>2, <2>4, ReplyType, FilledSlots, SMT
    <2> QED BY <2>4, <2>5
  <1>4. Alike(u)
    BY <1>1, <1>2, <1>3, RestingAlike
  <1>5. Intent(u)'
    <2>1. CASE pc'[u] \in {"read", "read_own"}
      <3>1. Await(u)
        BY <1>0, <2>1 DEF TestPredicate, FallAsleep, CheckSlot, Cas, CasFails, Await, AwaitThrows, Goto
      <3>2. wire # << >> /\ header'[u] = wire[1]
        <4>1. wire # << >> /\ header' = [header EXCEPT ![u] = Head(wire)]
          BY <3>1 DEF Await
        <4> QED BY <1>0, <4>1, TailOf
      <3>3. pc'[u] = "read_own" <=> header'[u].idx = at[u]
        BY <1>0, <3>1 DEF Await, Goto
      <3> QED BY <1>1, <1>2, <2>1, <3>2, <3>3 DEF Intent
    <2>2. CASE pc'[u] = "caught"
      <3>1. AwaitThrows(u)
        BY <1>0, <2>2 DEF TestPredicate, FallAsleep, CheckSlot, Cas, CasFails, Await, AwaitThrows, Goto
      <3>2. ~alive /\ wire = << >> /\ pc[u] \in Reading
        BY <3>1 DEF AwaitThrows, IsAlive, Reading
      <3>3. \A v \in Users \ {u} : pc[v] # "post" /\ pc'[v] = pc[v]
        BY <1>0, <1>1, <3>2 DEF IInv, Readers, Reading
      <3> QED BY <1>1, <1>2, <2>2, <3>2, <3>3 DEF Intent
    <2>3. CASE pc'[u] \notin {"read", "read_own", "caught"}
      BY <1>1, <1>2, <2>3 DEF Intent, Resting
    <2> QED BY <2>1, <2>2, <2>3
  <1> QED BY <1>1, <1>2, <1>4, <1>5, QuietThread DEF SoundStep

(* The reader gives up, frees the wire, or goes on with the loop.          *)
LEMMA LeavingStep ==
  ASSUME OneBody, IInv, [SoundNext]_vars, NEW u \in Users,
         Catch(u) \/ FreeWire(u) \/ (Notify(u) /\ todo[u] = "loop")
  PROVE  IInv'
  <1>0. /\ pc \in [Users -> Places] /\ Intent(u) /\ todo \in [Users -> {"return", "loop", "throw"}]
        /\ at \in [Users -> 0 .. SlotSize] /\ req \in [Users -> 0 .. requests] /\ parts \in [Users -> Seq(Types)]
        /\ message \in [Users -> Messages \cup {Empty}]
    BY DEF IInv, Tidy, Typed, SlotsTidy
  <1>1. CASE Catch(u)
    <2>1. /\ UNCHANGED <<slot, wire, pending, requests, alive, at, req, parts, message>>
          /\ pc[u] = "caught" /\ todo[u] = "loop"
          /\ \/ pc' = [pc EXCEPT ![u] = "wait"] /\ todo' = todo
             \/ pc' = [pc EXCEPT ![u] = "free"] /\ todo' = [todo EXCEPT ![u] = "throw"]
      BY <1>0, <1>1 DEF Catch, Goto, server, Intent
    <2>2. /\ (pc'[u] = "wait" /\ todo'[u] = "loop") \/ (pc'[u] = "free" /\ todo'[u] = "throw")
          /\ ~alive /\ wire = << >> /\ \A v \in Users : pc'[v] # "post"
      BY <1>0, <2>1 DEF Intent
    <2>3. Alike(u)
      BY <2>1, <2>2 DEF Alike, Busy, Owns, Waiting, Returning
    <2>4. Intent(u)'
      BY <2>1, <2>2 DEF Intent
    <2> QED BY <1>1, <2>1, <2>2, <2>3, <2>4, QuietThread DEF SoundStep
  <1>2. CASE FreeWire(u)
    <2>1. /\ UNCHANGED <<slot, wire, pending, requests, alive, at, req, parts, message, todo>>
          /\ pc[u] = "free" /\ pc' = [pc EXCEPT ![u] = "notify"]
      BY <1>2 DEF FreeWire, Goto, server, thread
    <2>2. pc'[u] = "notify" /\ \A v \in Users : pc'[v] = "post" => pc[v] = "post"
      BY <1>0, <2>1
    <2>3. Alike(u)
      BY <2>1, <2>2 DEF Alike, Busy, Owns, Waiting, Returning
    <2>4. Intent(u)'
      BY <1>0, <2>1, <2>2 DEF Intent
    <2> QED BY <1>2, <2>1, <2>2, <2>3, <2>4, QuietThread DEF SoundStep
  <1>3. CASE Notify(u) /\ todo[u] = "loop"
    <2>1. /\ UNCHANGED <<slot, wire, pending, requests, alive>> /\ pc[u] = "notify"
          /\ pc'[u] = "wait" /\ todo'[u] = "loop" /\ at'[u] = at[u] /\ req'[u] = req[u] /\ parts'[u] = parts[u]
      BY <1>0, <1>3 DEF Notify, server
    <2>2. Alike(u)
      BY <1>3, <2>1 DEF Alike, Busy, Owns, Waiting, Returning
    <2>3. Intent(u)'
      BY <2>1 DEF Intent
    <2> QED BY <1>3, <2>1, <2>2, <2>3, QuietThread DEF SoundStep
  <1> QED BY <1>1, <1>2, <1>3

(* The intents of the others when u steps, in general.                     *)
LEMMA OthersIntent ==
  ASSUME IInv, NEW u \in Users, Begin(u) \/ SoundStep(u), alive' => alive,
         wire' = wire \/ (wire # << >> /\ wire' = Tail(wire) /\ pc[u] \in Reading),
         \A v, x \in Users : v # u /\ pc[v] = "post" /\ Stored(x) /\ at[x] = header[v].idx => Stored(x)' /\ at'[x] = at[x],
         pc'[u] = "post" => pc[u] = "post" \/ wire # << >>
  PROVE  \A v \in Users \ {u} : Intent(v)'
  <1> SUFFICES ASSUME NEW v \in Users \ {u} PROVE Intent(v)'
    OBVIOUS
  <1>1. \A x \in Users \ {u} : Same(x)
    BY OthersAreSame DEF IInv
  <1>2. Intent(v) /\ \A x \in Users : pc[x] \in {"read", "read_own"} => wire # << >>
    BY DEF IInv, Intent
  <1>3. ~alive /\ wire = << >> => wire' = << >>
    OBVIOUS
  <1>4. pc[v] \in {"read", "read_own"} => wire' # << >> /\ wire'[1] = wire[1]
    BY <1>2 DEF IInv, Readers, Reading
  <1>5. (pc[v] = "caught" \/ todo[v] = "throw") /\ (\A x \in Users : pc[x] # "post") => \A x \in Users : pc'[x] # "post"
    BY <1>1, <1>2, SMT DEF Same, Intent
  <1> QED BY <1>1, <1>2, <1>3, <1>4, <1>5, IntentKept

(* A thread goes on or gives up with its search, or leaves receive: it has *)
(* no slot and waits for nothing then.                                     *)
LEMMA OutsideStep ==
  ASSUME OneBody, IInv, [SoundNext]_vars, NEW u \in Users, Begin(u) \/ SoundStep(u),
         UNCHANGED <<slot, wire, pending, requests, alive>>, pc[u] # "post",
         pc'[u] \in {"idle", "search", "failed"}, todo'[u] = "loop", Busy(u)' => Busy(u) /\ req'[u] = req[u],
         Waiting(u) => Served(u) /\ (Stored(u) => \A v \in Users : pc[v] # "post")
  PROVE  IInv'
  <1>1. \A v \in Users \ {u} : Same(v)
    BY OthersAreSame DEF IInv
  <1>2. \A i : Filling(i)' <=> Filling(i)
    BY <1>1, FillingKept
  <1>3. \A v \in Users \ {u} : Apart(v)
    <2>1. ASSUME NEW v \in Users \ {u} PROVE Apart(v)
      <3>1. Alike(v) /\ Reply(v)' = Reply(v) /\ Order(v)' = Order(v)
        BY <1>1, SameIsAlike, SameIs DEF IInv
      <3>2. (Ordered(v)' <=> Ordered(v)) /\ (OnWire(v)' <=> OnWire(v))
        BY <3>1 DEF Ordered, OnWire
      <3>3. Filling(at[v])' <=> Filling(at[v])
        <4>1. at'[v] = at[v]
          BY <3>1 DEF Alike
        <4> QED BY ONLY <1>2, <4>1, SMT DEF Filling
      <3> QED BY <3>1, <3>2, <3>3 DEF Apart
    <2> QED BY <2>1
  <1>4. ~Owns(u)' /\ ~Waiting(u)' /\ pc'[u] # "send"
    BY DEF Owns, Waiting
  <1>5. Stored(u) => Waiting(u) /\ ~Busy(u)'
    <2>1. Stored(u) => Owns(u) /\ slot[at[u]] # Taken
      BY ReplyType, FilledSlots, SMT DEF Stored
    <2>2. Stored(u) => Waiting(u)
      BY <2>1 DEF IInv, Home, Owns, Waiting
    <2> QED BY <2>2 DEF Served
  <1>6. Handles(u)
    BY <1>3, <1>4, <1>5 DEF Handles
  <1>7. Addressed'
    BY <1>3, ApartIs, AddressedKept DEF Stays
  <1>8. Home(u)' /\ Intent(u)'
    BY <1>4 DEF Home, Intent
  <1>9. ASSUME NEW v \in Users, NEW x \in Users, v # u, pc[v] = "post", Stored(x), at[x] = header[v].idx
        PROVE  Stored(x)' /\ at'[x] = at[x]
    <2>1. x # u
      BY <1>5, <1>9
    <2> QED BY <1>3, <1>9, <2>1, ApartIs, ApartKeepsHome DEF IInv
  <1>10. \A v \in Users \ {u} : Intent(v)'
    BY <1>9, OthersIntent
  <1> QED BY <1>6, <1>7, <1>8, <1>10, HandlesKeeps

(* A thread returns, or throws, after it has given the wire back.          *)
LEMMA NotifyStep ==
  ASSUME OneBody, IInv, [SoundNext]_vars, NEW u \in Users, Notify(u), todo[u] # "loop"
  PROVE  IInv'
  <1>0. /\ pc \in [Users -> Places] /\ Intent(u) /\ todo \in [Users -> {"return", "loop", "throw"}]
        /\ pc[u] = "notify" /\ Waiting(u)
    BY DEF IInv, Tidy, Typed, SlotsTidy, Notify, Waiting
  <1>1. Placed(u)
    BY <1>0 DEF IInv, Home
  <1>2. /\ UNCHANGED <<slot, wire, pending, requests, alive>> /\ todo'[u] = "loop" /\ pc'[u] \in {"idle", "failed"}
    <2>1. Len(parts[u]) = 1
      BY <1>1, SMT DEF Placed
    <2>2. todo[u] = "return" \/ todo[u] = "throw"
      BY <1>0
    <2> QED BY <1>0, <2>1, <2>2, SMT DEF Notify, server
  <1>3. ~Busy(u)'
    BY <1>2 DEF Busy
  <1>4. Served(u) /\ (Stored(u) => \A v \in Users : pc[v] # "post")
    <2>1. CASE todo[u] = "return"
      <3>1. Returning(u) /\ ~Owns(u)
        BY <1>0, <2>1 DEF Returning, Owns
      <3>2. ~Ordered(u) /\ ~OnWire(u) /\ ~Stored(u)
        BY <1>1, <3>1 DEF Placed, Stored
      <3> QED BY <1>3, <3>2 DEF Served
    <2>2. CASE todo[u] = "throw"
      <3>1. ~alive /\ wire = << >> /\ \A v \in Users : pc[v] # "post"
        BY <1>0, <2>2 DEF Intent
      <3>2. ~OnWire(u)
        BY <3>1, SMT DEF OnWire
      <3> QED BY <1>2, <1>3, <3>1, <3>2 DEF Served
    <2> QED BY <1>0, <2>1, <2>2
  <1> QED BY <1>0, <1>2, <1>3, <1>4, OutsideStep DEF SoundStep

(* A new request has a number that nobody has.                             *)
LEMMA BeginStep ==
  ASSUME OneBody, IInv, [SoundNext]_vars, NEW u \in Users, Begin(u)
  PROVE  IInv'
  <1>0. /\ pc \in [Users -> Places] /\ req \in [Users -> 0 .. requests] /\ requests \in Nat
        /\ pc[u] = "idle" /\ Intent(u)
    BY Numbers, SMT DEF IInv, Tidy, Typed, SlotsTidy, Begin
  <1>1. /\ UNCHANGED <<slot, wire, pending, alive>> /\ requests' = requests + 1
        /\ pc'[u] = "search" /\ req'[u] = requests + 1 /\ todo'[u] = "loop"
    BY <1>0 DEF Begin, Goto, Intent
  <1>2. \A v \in Users \ {u} : Same(v)
    BY OthersAreSame DEF IInv
  <1>3. \A i : Filling(i)' <=> Filling(i)
    BY <1>0, <1>1, <1>2, FillingKept
  <1>4. \A v \in Users \ {u} : Apart(v)
    BY <1>1, <1>2, <1>3, SameIsAlike DEF IInv, Apart, Alike, Ordered, OnWire, Order, Reply
  <1>5. \A v \in Users \ {u} : Home(v)' /\ (Stored(v)' <=> Stored(v)) /\ at'[v] = at[v] /\ req'[v] = req[v]
                                /\ (Busy(v)' <=> Busy(v)) /\ (Owns(v)' <=> Owns(v)) /\ (Waiting(v)' <=> Waiting(v))
                                /\ Order(v)' = Order(v) /\ Reply(v)' = Reply(v)
    BY <1>4, ApartIs, ApartKeepsHome DEF IInv
  <1>6. ~Owns(u) /\ ~Owns(u)' /\ ~Waiting(u) /\ ~Waiting(u)' /\ ~Busy(u) /\ Busy(u)'
    BY <1>0, <1>1 DEF Owns, Waiting, Busy
  <1>7. Home(u)' /\ Intent(u)'
    BY <1>1, <1>6 DEF Home, Intent
  <1>8. \A v \in Users \ {u} : Intent(v)'
    <2>1. \A v, x \in Users : v # u /\ pc[v] = "post" /\ Stored(x) /\ at[x] = header[v].idx => Stored(x)' /\ at'[x] = at[x]
      BY <1>5, <1>6 DEF Stored
    <2> QED BY <1>1, <2>1, OthersIntent
  <1>9. Tidy' /\ Readers'
    BY TypesKept, ReadersKept DEF IInv, Tidy, Typed, SlotsTidy
  <1>10. Owners'
    BY <1>1, <1>5, <1>6 DEF IInv, Owners
  <1>11. \A v \in Users : Busy(v) => req[v] \in 1 .. requests
    BY DEF IInv, Numbered
  <1>12. Numbered'
    <2>1. \A v \in Users : Busy(v)' => req'[v] \in 1 .. requests'
      BY <1>0, <1>1, <1>5, <1>11, SMT
    <2>2. \A v \in Users \ {u} : Busy(v)' => req'[v] # req'[u]
      BY <1>0, <1>1, <1>5, <1>11, SMT
    <2>3. \A v, w \in Users \ {u} : Busy(v)' /\ Busy(w)' /\ req'[v] = req'[w] => v = w
      BY <1>5 DEF IInv, Numbered
    <2> QED BY <2>1, <2>2, <2>3 DEF Numbered
  <1>13. Addressed'
    <2>1. \A p \in pending : p.req # req'[u]
      BY <1>0, <1>1, SMT DEF IInv, Tidy, Typed, SlotsTidy
    <2>2. \A p \in pending : \A v \in Users : Busy(v)' /\ p.req = req'[v] => Waiting(v)' /\ p = Order(v)'
      BY <1>5, <2>1, SMT DEF IInv, Addressed
    <2>3. alive => \A p \in pending : \E v \in Users : Waiting(v)' /\ p = Order(v)'
      BY <1>5, <1>6, SMT DEF IInv, Addressed
    <2>4. \A k \in 1 .. Len(wire) : \E v \in Users : Waiting(v)' /\ wire[k] = Reply(v)'
      BY <1>5, <1>6 DEF IInv, Addressed
    <2>5. \A j, k \in 1 .. Len(wire') : wire'[j] = wire'[k] => j = k
      BY <1>1 DEF IInv, Addressed
    <2> QED BY <1>1, <2>2, <2>3, <2>4, <2>5 DEF Addressed
  <1>14. ASSUME NEW i \in Slots PROVE Shaped(i)'
    <2>1. Shaped(i)
      BY DEF IInv
    <2> DEFINE r == slot[i].body.req
    <2>2. r <= requests /\ r \in Nat
      <3>1. slot[i].body \in Messages \cup {Empty}
        BY DEF IInv, Tidy, Typed, SlotsTidy, SlotStates, SlotRecords
      <3> QED BY <2>1, <3>1, Numbers, SMT DEF Shaped, Messages
    <2>3. r <= requests' /\ r # req'[u]
      <3> HIDE DEF r
      <3> QED BY <1>0, <1>1, <2>2, SMT
    <2>4. \A v \in Users : Busy(v)' /\ r = req'[v] => Waiting(v)' /\ Stored(v)' /\ at'[v] = i
      BY <1>5, <2>1, <2>3 DEF Shaped
    <2> QED BY <1>1, <2>1, <2>3, <2>4 DEF Shaped
  <1> QED BY <1>5, <1>7, <1>8, <1>9, <1>10, <1>12, <1>13, <1>14 DEF IInv

(* A thread looks at the next slot; one that nobody has it takes.          *)
LEMMA SearchStep ==
  ASSUME OneBody, IInv, [SoundNext]_vars, NEW u \in Users, SearchSlot(u)
  PROVE  IInv'
  <1>0. /\ pc \in [Users -> Places] /\ pc[u] = "search" /\ todo[u] = "loop" /\ slot \in [Slots -> SlotStates]
        /\ UNCHANGED <<wire, pending, requests, alive, req, todo>>
    BY DEF IInv, Tidy, Typed, SlotsTidy, SearchSlot, Intent, server
  <1>1. Busy(u) /\ ~Waiting(u) /\ ~Owns(u) /\ ~Stored(u)
    BY <1>0 DEF Busy, Waiting, Owns, Stored
  <1>2. CASE slot' = slot /\ (pc' = pc \/ pc' = [pc EXCEPT ![u] = "failed"])
    <2>1. pc'[u] \in {"search", "failed"}
      BY <1>0, <1>2
    <2> QED BY <1>0, <1>1, <1>2, <2>1, OutsideStep DEF SoundStep
  <1>3. CASE /\ at' = at /\ pc' = [pc EXCEPT ![u] = "send"]
             /\ at[u] \in Slots /\ slot[at[u]] = FreeSlot /\ slot' = [slot EXCEPT ![at[u]] = Taken]
    <2>1. pc'[u] = "send" /\ at'[u] = at[u] /\ slot'[at[u]] = Taken /\ \A i \in Slots : i # at[u] => slot'[i] = slot[i]
      BY <1>0, <1>3
    <2>2. \A v \in Users \ {u} : Same(v)
      BY OthersAreSame DEF IInv, SoundStep
    <2>3. \A i : Filling(i)' <=> Filling(i)
      BY <1>0, <2>1, <2>2, FillingKept
    <2>4. \A v \in Users : Owns(v) => at[v] \in Slots /\ at[v] # at[u]
      BY <1>3, NewSlots DEF IInv, Owners
    <2>5. ASSUME NEW v \in Users \ {u} PROVE Apart(v)
      <3>1. Alike(v) /\ Reply(v)' = Reply(v) /\ Order(v)' = Order(v)
        BY <2>2, SameIsAlike, SameIs DEF IInv
      <3>2. (Ordered(v)' <=> Ordered(v)) /\ (OnWire(v)' <=> OnWire(v))
        BY <1>0, <3>1 DEF Ordered, OnWire
      <3>3. Filling(at[v])' <=> Filling(at[v])
        <4>1. at'[v] = at[v]
          BY <3>1 DEF Alike
        <4> QED BY ONLY <2>3, <4>1, SMT DEF Filling
      <3>4. Owns(v) => slot'[at[v]] = slot[at[v]]
        BY <2>1, <2>4
      <3> QED BY <3>1, <3>2, <3>3, <3>4 DEF Apart
    <2>6. Handles(u)
      BY <1>0, <1>1, <1>3, <2>1, <2>4, <2>5, NewSlots, SMT DEF Handles
    <2>7. Addressed'
      BY <1>0, <1>1, <2>5, ApartIs, AddressedKept DEF Stays
    <2>8. Home(u)' /\ Intent(u)'
      BY <1>0, <2>1 DEF Home, Intent, Waiting
    <2>9. \A v \in Users : Stored(v) => Stored(v)' /\ at'[v] = at[v]
      BY <1>1, <2>5, ApartIs, ApartKeepsHome DEF IInv
    <2>10. \A v \in Users \ {u} : Intent(v)'
      BY <1>0, <2>1, <2>9, OthersIntent DEF SoundStep
    <2> QED BY <1>0, <2>6, <2>7, <2>8, <2>10, HandlesKeeps
  <1> QED BY <1>2, <1>3, SearchDoes

(* The request goes to the server, and nothing else is on its way to u.    *)
LEMMA SendStep ==
  ASSUME OneBody, IInv, [SoundNext]_vars, NEW u \in Users, Send(u)
  PROVE  IInv'
  <1>0. /\ pc \in [Users -> Places] /\ parts \in [Users -> Seq(Types)] /\ pc[u] = "send" /\ todo[u] = "loop"
        /\ UNCHANGED <<slot, wire, requests, alive, at, req, todo>>
    BY DEF IInv, Tidy, Typed, SlotsTidy, Send, Intent
  <1>1. pc'[u] = "wait" /\ parts'[u] = <<"RESPONSE_BODY">> /\ pending' = pending \cup {Order(u)}
    BY <1>0 DEF Send, Goto, OneBody, Order
  <1>2. Busy(u) /\ ~Waiting(u) /\ Owns(u) /\ Busy(u)' /\ Waiting(u)' /\ Owns(u)' /\ ~Returning(u)'
    BY <1>0, <1>1 DEF Busy, Waiting, Owns, Returning
  <1>3. Reply(u) \in Messages /\ Reply(u)' = Reply(u) /\ Order(u)' = Order(u) /\ slot[at[u]] = Taken
    BY <1>0, <1>2, ReplyType DEF Reply, Order, IInv, Home
  <1>4. ~Stored(u) /\ ~Stored(u)'
    <2>1. \A n \in {0, 1} : slot[at[u]] # Holding(Reply(u), n)
      BY <1>3, FilledSlots
    <2> QED BY <1>0, <1>3, <2>1 DEF Stored
  <1>5. ~OnWire(u)
    <2>1. ASSUME NEW k \in 1 .. Len(wire), wire[k] = Reply(u) PROVE FALSE
      <3>1. PICK w \in Users : Waiting(w) /\ Busy(w) /\ wire[k] = Reply(w)
        BY OnWireOwns
      <3>2. req[w] = req[u]
        BY <2>1, <3>1, ReplyFields
      <3> QED BY <1>2, <3>1, <3>2 DEF IInv, Numbered
    <2> QED BY <2>1 DEF OnWire
  <1>6. \A v \in Users \ {u} : Same(v)
    BY OthersAreSame DEF IInv, SoundStep
  <1>7. \A i : Filling(i)' <=> Filling(i)
    BY <1>0, <1>1, <1>6, FillingKept
  <1>8. \A v \in Users \ {u} : Busy(v) => req[v] # req[u] /\ Order(v) # Order(u)
    BY <1>2, ReplyFields DEF IInv, Numbered
  <1>9. \A v \in Users \ {u} : Apart(v)
    <2>1. ASSUME NEW v \in Users \ {u} PROVE Apart(v)
      <3>1. Alike(v) /\ Reply(v)' = Reply(v) /\ Order(v)' = Order(v)
        BY <1>6, SameIsAlike, SameIs DEF IInv
      <3>2. Waiting(v) => Busy(v)
        BY DEF Waiting, Busy
      <3>3. Waiting(v) => (Ordered(v)' <=> Ordered(v)) /\ (OnWire(v)' <=> OnWire(v))
        BY <1>0, <1>1, <1>8, <3>1, <3>2 DEF Ordered, OnWire
      <3> QED BY <1>0, <1>7, <3>1, <3>3 DEF Apart
    <2> QED BY <2>1
  <1>10. Handles(u)
    <2>1. at[u] \in Slots /\ slot[at[u]].in_use /\ \A v \in Users \ {u} : Owns(v) => at[v] # at[u]
      BY <1>2 DEF IInv, Owners
    <2> QED BY <1>0, <1>2, <1>4, <1>9, <2>1 DEF Handles
  <1>11. \A v \in Users \ {u} : /\ Waiting(v)' <=> Waiting(v)
                                /\ Busy(v)' <=> Busy(v)
                                /\ Order(v)' = Order(v) /\ Reply(v)' = Reply(v) /\ req'[v] = req[v]
    BY <1>9, ApartIs
  <1>12. Addressed'
    <2>1. ASSUME NEW p \in pending', NEW v \in Users, Busy(v)', p.req = req'[v] PROVE Waiting(v)' /\ p = Order(v)'
      <3>1. CASE p = Order(u)
        <4>1. p.req = req[u]
          BY <3>1, ReplyFields
        <4>2. v = u
          BY <1>8, <1>11, <2>1, <4>1
        <4> QED BY <1>2, <1>3, <3>1, <4>2
      <3>2. CASE p \in pending
        <4>1. v # u
          BY <1>0, <1>2, <2>1, <3>2 DEF IInv, Addressed
        <4> QED BY <1>11, <2>1, <3>2, <4>1, SMT DEF IInv, Addressed
      <3> QED BY <1>1, <3>1, <3>2
    <2>2. ASSUME alive', NEW p \in pending' PROVE \E v \in Users : Waiting(v)' /\ p = Order(v)'
      <3>1. CASE p = Order(u)
        BY <1>2, <1>3, <3>1
      <3>2. CASE p \in pending
        <4>1. PICK v \in Users : Waiting(v) /\ p = Order(v)
          BY <1>0, <2>2, <3>2 DEF IInv, Addressed
        <4> QED BY <1>2, <1>11, <4>1
      <3> QED BY <1>1, <3>1, <3>2
    <2>3. ASSUME NEW k \in 1 .. Len(wire) PROVE \E v \in Users : Waiting(v)' /\ wire[k] = Reply(v)'
      <3>1. PICK v \in Users : Waiting(v) /\ wire[k] = Reply(v)
        BY DEF IInv, Addressed
      <3> QED BY <1>2, <1>11, <3>1
    <2>4. \A j, k \in 1 .. Len(wire) : wire[j] = wire[k] => j = k
      BY DEF IInv, Addressed
    <2> QED BY <1>0, <2>1, <2>2, <2>3, <2>4 DEF Addressed
  <1>13. Home(u)' /\ Intent(u)'
    <2>1. Ordered(u)' /\ ~OnWire(u)'
      BY <1>0, <1>1, <1>3, <1>5 DEF Ordered, OnWire
    <2>2. Placed(u)'
      BY <1>0, <1>1, <1>2, <1>3, <1>4, <2>1 DEF Placed
    <2> QED BY <1>0, <1>1, <2>2 DEF Home, Intent
  <1>14. \A v \in Users : Stored(v) => Stored(v)' /\ at'[v] = at[v]
    BY <1>4, <1>9, ApartIs, ApartKeepsHome DEF IInv
  <1>15. \A v \in Users \ {u} : Intent(v)'
    BY <1>0, <1>1, <1>14, OthersIntent DEF SoundStep
  <1> QED BY <1>0, <1>10, <1>12, <1>13, <1>15, HandlesKeeps

(* Thread u does something with its own slot: nothing changes for others.  *)
LEMMA OwnSlot ==
  ASSUME IInv, NEW u \in Users, SoundStep(u), Owns(u), pc[u] # "post", pc'[u] # "post",
         UNCHANGED <<wire, pending>>, \A i \in Slots : i # at[u] => slot'[i] = slot[i]
  PROVE  \A v \in Users \ {u} : Apart(v)
  <1>1. \A v \in Users \ {u} : Same(v)
    BY OthersAreSame DEF IInv
  <1>2. \A i : Filling(i)' <=> Filling(i)
    BY <1>1, FillingKept
  <1>3. \A v \in Users \ {u} : Owns(v) => slot'[at[v]] = slot[at[v]]
    BY DEF IInv, Owners
  <1>4. ASSUME NEW v \in Users \ {u} PROVE Apart(v)
    <2>1. Alike(v) /\ Reply(v)' = Reply(v) /\ Order(v)' = Order(v)
      BY <1>1, SameIsAlike, SameIs DEF IInv
    <2>2. (Ordered(v)' <=> Ordered(v)) /\ (OnWire(v)' <=> OnWire(v))
      BY <2>1 DEF Ordered, OnWire
    <2>3. Filling(at[v])' <=> Filling(at[v])
      <3>1. at'[v] = at[v]
        BY <2>1 DEF Alike
      <3> QED BY ONLY <1>2, <3>1, SMT DEF Filling
    <2> QED BY <1>3, <2>1, <2>2, <2>3 DEF Apart
  <1> QED BY <1>4

(* A thread takes the reply from its slot, in which nobody is writing.     *)
LEMMA ConsumeStep ==
  ASSUME OneBody, IInv, [SoundNext]_vars, NEW u \in Users, Consume(u)
  PROVE  IInv'
  <1>0. /\ pc \in [Users -> Places] /\ message \in [Users -> Messages \cup {Empty}] /\ slot \in [Slots -> SlotStates]
        /\ todo \in [Users -> {"return", "loop", "throw"}] /\ pc[u] = "consume"
        /\ todo' = [todo EXCEPT ![u] = "return"]
        /\ UNCHANGED <<wire, pending, requests, alive, at, req, parts>>
    BY DEF IInv, Tidy, Typed, SlotsTidy, Consume, server
  <1>1. Waiting(u) /\ Owns(u) /\ at[u] \in Slots /\ Reply(u) \in Messages
    BY <1>0, ReplyType DEF Waiting, Owns, IInv, Owners
  <1>2. slot[at[u]] = Holding(Reply(u), 1) /\ slot' = [slot EXCEPT ![at[u]] = Taken]
    BY ConsumeDoes
  <1>3. message' = [message EXCEPT ![u] = Reply(u)] /\ pc' = [pc EXCEPT ![u] = "clear"]
    BY ConsumeDoes
  <1>4. /\ pc'[u] = "clear" /\ todo'[u] = "return" /\ message'[u] = Reply(u) /\ slot'[at[u]] = Taken
        /\ \A i \in Slots : i # at[u] => slot'[i] = slot[i]
    BY <1>0, <1>1, <1>2, <1>3
  <1>5. Waiting(u)' /\ Owns(u)' /\ Returning(u)' /\ Busy(u)' /\ Busy(u)
    BY <1>0, <1>4 DEF Waiting, Owns, Returning, Busy
  <1>6. Reply(u)' = Reply(u) /\ Order(u)' = Order(u)
    BY <1>0 DEF Reply, Order
  <1>7. \A v \in Users \ {u} : Apart(v)
    BY <1>0, <1>1, <1>4, OwnSlot DEF SoundStep
  <1>8. Handles(u)
    <2>1. Taken.in_use /\ \A v \in Users \ {u} : Owns(v) => at[v] # at[u]
      BY <1>1, NewSlots DEF IInv, Owners
    <2> QED BY <1>0, <1>1, <1>4, <1>5, <1>7, <2>1 DEF Handles
  <1>9. Addressed'
    <2>1. \A v \in Users : Waiting(v) => Stays(v)
      BY <1>5, <1>6, <1>7, ApartIs DEF Stays
    <2>2. \A v \in Users : Busy(v)' => Busy(v) /\ req'[v] = req[v]
      BY <1>0, <1>5, <1>7, ApartIs
    <2> QED BY <1>0, <2>1, <2>2, AddressedKept
  <1>10. Placed(u) /\ slot[at[u]] # Taken /\ Stored(u)
    BY <1>1, <1>2, FilledSlots DEF IInv, Home, Stored
  <1>11. Home(u)'
    <2>1. ~Ordered(u)' /\ ~OnWire(u)'
      BY <1>0, <1>6, <1>10 DEF Placed, Ordered, OnWire
    <2>2. ~Stored(u)'
      <3>1. \A n \in {0, 1} : Taken # Holding(Reply(u), n)
        BY <1>1, FilledSlots
      <3> QED BY <1>0, <1>4, <1>6, <3>1 DEF Stored
    <2>3. Placed(u)'
      BY <1>0, <1>4, <1>5, <1>6, <1>10, <2>1, <2>2 DEF Placed
    <2> QED BY <1>4, <2>3 DEF Home
  <1>12. Intent(u)'
    BY <1>4 DEF Intent
  <1>13. \A v \in Users : pc[v] = "post" => header[v].idx # at[u]
    <2>1. Holding(Reply(u), Counted(at[u])) = Holding(Reply(u), 1)
      BY <1>2, <1>10 DEF Placed
    <2>2. Counted(at[u]) # 0
      BY <1>1, <2>1, FilledSlots, SMT
    <2> QED BY <2>2 DEF Counted, Filling
  <1>14. \A v \in Users \ {u} : Intent(v)'
    <2>1. \A v, x \in Users : v # u /\ pc[v] = "post" /\ Stored(x) /\ at[x] = header[v].idx => Stored(x)' /\ at'[x] = at[x]
      BY <1>7, <1>13, ApartIs, ApartKeepsHome DEF IInv
    <2> QED BY <1>0, <1>4, <2>1, OthersIntent DEF SoundStep
  <1> QED BY <1>0, <1>8, <1>9, <1>11, <1>12, <1>14, HandlesKeeps

(* The slot goes back, as new; the reply is in the hands of the thread.    *)
LEMMA ClearStep ==
  ASSUME OneBody, IInv, [SoundNext]_vars, NEW u \in Users, ClearInUse(u)
  PROVE  IInv'
  <1>0. /\ pc \in [Users -> Places] /\ slot \in [Slots -> SlotStates] /\ pc[u] \in {"clear", "clear_own"}
        /\ UNCHANGED <<wire, pending, requests, alive, at, req, parts, message, todo>>
    BY DEF IInv, Tidy, Typed, SlotsTidy, ClearInUse, server, thread
  <1>1. /\ Waiting(u) /\ Owns(u) /\ Returning(u) /\ at[u] \in Slots /\ Reply(u) \in Messages
        /\ slot[at[u]] = Taken /\ slot' = [slot EXCEPT ![at[u]] = FreeSlot]
    BY <1>0, ReplyType, ClearDoes DEF Waiting, IInv, Owners
  <1>2. /\ pc'[u] \in {"free", "notify"} /\ todo[u] = "return" /\ slot'[at[u]] = FreeSlot
        /\ \A i \in Slots : i # at[u] => slot'[i] = slot[i]
    BY <1>0, <1>1 DEF ClearInUse, Goto, Returning
  <1>3. Waiting(u)' /\ ~Owns(u)' /\ Returning(u)' /\ Busy(u)' /\ Busy(u) /\ ~Stored(u)'
    BY <1>0, <1>2 DEF Waiting, Owns, Returning, Busy, Stored
  <1>4. Reply(u)' = Reply(u) /\ Order(u)' = Order(u)
    BY <1>0 DEF Reply, Order
  <1>5. \A v \in Users \ {u} : Apart(v)
    BY <1>0, <1>1, <1>2, OwnSlot DEF SoundStep
  <1>6. Handles(u)
    BY <1>0, <1>2, <1>3, <1>5 DEF Handles
  <1>7. Addressed'
    <2>1. \A v \in Users : Waiting(v) => Stays(v)
      BY <1>3, <1>4, <1>5, ApartIs DEF Stays
    <2>2. \A v \in Users : Busy(v)' => Busy(v) /\ req'[v] = req[v]
      BY <1>0, <1>3, <1>5, ApartIs
    <2> QED BY <1>0, <2>1, <2>2, AddressedKept
  <1>8. Home(u)' /\ Intent(u)'
    <2>1. Placed(u)
      BY <1>1 DEF IInv, Home
    <2>2. ~Ordered(u)' /\ ~OnWire(u)'
      BY <1>0, <1>1, <1>4, <2>1 DEF Placed, Ordered, OnWire
    <2>3. Placed(u)'
      BY <1>0, <1>1, <1>2, <1>3, <1>4, <2>1, <2>2 DEF Placed
    <2> QED BY <1>0, <1>2, <2>3 DEF Home, Intent
  <1>9. ~Stored(u)
    <2>1. \A n \in {0, 1} : Taken # Holding(Reply(u), n)
      BY <1>1, FilledSlots
    <2> QED BY <1>1, <2>1 DEF Stored
  <1>10. \A v \in Users : Stored(v) => Stored(v)' /\ at'[v] = at[v]
    BY <1>5, <1>9, ApartIs, ApartKeepsHome DEF IInv
  <1>11. \A v \in Users \ {u} : Intent(v)'
    BY <1>0, <1>2, <1>10, OthersIntent DEF SoundStep
  <1> QED BY <1>0, <1>6, <1>7, <1>8, <1>11, HandlesKeeps

(* Of what is at the server and on the wire, by one who reads the wire.    *)
LEMMA AddressedRead ==
  ASSUME IInv, UNCHANGED <<pending, alive>>, wire # << >>, wire' = Tail(wire),
         \A v \in Users : Waiting(v) => Stays(v),
         \A v \in Users : Busy(v)' => Busy(v) /\ req'[v] = req[v]
  PROVE  Addressed'
  <1>1. ASSUME NEW p \in pending, NEW v \in Users, Busy(v)', p.req = req'[v]
        PROVE  Waiting(v)' /\ p = Order(v)'
    BY <1>1, SMT DEF IInv, Addressed, Stays
  <1>2. ASSUME alive', NEW p \in pending PROVE \E v \in Users : Waiting(v)' /\ p = Order(v)'
    <2>1. PICK v \in Users : Waiting(v) /\ p = Order(v)
      BY <1>2 DEF IInv, Addressed
    <2> QED BY <2>1 DEF Stays
  <1>3. ASSUME NEW k \in 1 .. Len(wire') PROVE \E v \in Users : Waiting(v)' /\ wire'[k] = Reply(v)'
    <2>1. PICK j \in 1 .. Len(wire) : wire[j] = wire'[k]
      BY WireRead
    <2>2. PICK v \in Users : Waiting(v) /\ wire[j] = Reply(v)
      BY DEF IInv, Addressed
    <2> QED BY <2>1, <2>2 DEF Stays
  <1> QED BY <1>1, <1>2, <1>3, WireRead DEF Addressed

(* The reply to w is at the front and is read: that to v is where it was.  *)
LEMMA OnWireRead ==
  ASSUME IInv, wire # << >>, wire' = Tail(wire), NEW w \in Users, Busy(w), wire[1] = Reply(w),
         NEW v \in Users, Reply(v)' = Reply(v), Busy(v)
  PROVE  OnWire(v)' <=> (v # w /\ OnWire(v))
  <1>1. v # w => Reply(v) # wire[1]
    BY ReplyFields, SMT DEF IInv, Numbered
  <1>2. v = w => Reply(v) = wire[1]
    OBVIOUS
  <1>3. OnWire(v) <=> \E k \in 1 .. Len(wire) : wire[k] = Reply(v)
    BY DEF OnWire
  <1>4. OnWire(v)' <=> \E k \in 1 .. Len(wire') : wire'[k] = Reply(v)
    BY DEF OnWire
  <1>5. (\E k \in 1 .. Len(wire') : wire'[k] = Reply(v)) <=>
           (Reply(v) # wire[1] /\ \E k \in 1 .. Len(wire) : wire[k] = Reply(v))
    BY WireRead
  <1> QED BY ONLY <1>1, <1>2, <1>3, <1>4, <1>5

(* The reader gets its own reply.                                          *)
LEMMA ReadOwnStep ==
  ASSUME OneBody, IInv, [SoundNext]_vars, NEW u \in Users, ReadOwn(u)
  PROVE  IInv'
  <1>0. /\ pc \in [Users -> Places] /\ message \in [Users -> Messages \cup {Empty}]
        /\ todo \in [Users -> {"return", "loop", "throw"}] /\ pc[u] = "read_own"
        /\ UNCHANGED <<pending, requests, alive, at, req, parts>>
    BY DEF IInv, Tidy, Typed, SlotsTidy, ReadOwn, server
  <1>1. OnWire(u) /\ wire # << >> /\ wire[1] = Reply(u) /\ wire' = Tail(wire) /\ slot[at[u]] = Taken /\ slot' = slot
    BY ReadOwnDoes
  <1>2. pc'[u] = "clear_own" /\ todo'[u] = "return" /\ message'[u] = Reply(u)
    BY <1>0, ReadOwnDoes
  <1>3. Waiting(u) /\ Owns(u) /\ Busy(u) /\ at[u] \in Slots /\ Reply(u) \in Messages
    BY <1>0, ReplyType DEF Waiting, Owns, Busy, IInv, Owners
  <1>4. Waiting(u)' /\ Owns(u)' /\ Returning(u)' /\ Busy(u)'
    BY <1>2 DEF Waiting, Owns, Returning, Busy
  <1>5. Reply(u)' = Reply(u) /\ Order(u)' = Order(u)
    BY <1>0 DEF Reply, Order
  <1>6. \A v \in Users \ {u} : Same(v)
    BY OthersAreSame DEF IInv, SoundStep
  <1>7. \A i : Filling(i)' <=> Filling(i)
    BY <1>0, <1>2, <1>6, FillingKept
  <1>8. ASSUME NEW v \in Users \ {u} PROVE Apart(v)
    <2>1. Alike(v) /\ Reply(v)' = Reply(v) /\ Order(v)' = Order(v)
      BY <1>6, SameIsAlike, SameIs DEF IInv
    <2>2. Waiting(v) => (OnWire(v)' <=> OnWire(v))
      BY <1>1, <1>3, <2>1, OnWireRead DEF Waiting, Busy
    <2> QED BY <1>0, <1>1, <1>7, <2>1, <2>2 DEF Apart, Ordered
  <1>9. ~Stored(u) /\ ~Stored(u)'
    <2>1. \A n \in {0, 1} : Taken # Holding(Reply(u), n)
      BY <1>3, FilledSlots
    <2> QED BY <1>0, <1>1, <1>5, <2>1 DEF Stored
  <1>10. Handles(u)
    <2>1. slot[at[u]].in_use /\ \A v \in Users \ {u} : Owns(v) => at[v] # at[u]
      BY <1>3 DEF IInv, Owners
    <2> QED BY <1>0, <1>1, <1>3, <1>8, <1>9, <2>1 DEF Handles
  <1>11. Addressed'
    <2>1. \A v \in Users : Waiting(v) => Stays(v)
      BY <1>4, <1>5, <1>8, ApartIs DEF Stays
    <2>2. \A v \in Users : Busy(v)' => Busy(v) /\ req'[v] = req[v]
      BY <1>0, <1>3, <1>8, ApartIs
    <2> QED BY <1>0, <1>1, <2>1, <2>2, AddressedRead
  <1>12. Home(u)' /\ Intent(u)'
    <2>1. Placed(u)
      BY <1>3 DEF IInv, Home
    <2>2. ~Ordered(u)' /\ ~OnWire(u)'
      <3>1. ~OnWire(u)'
        BY <1>1, <1>3, <1>5, OnWireRead
      <3> QED BY <1>0, <1>1, <1>5, <2>1, <3>1 DEF Placed, Ordered
    <2>3. Placed(u)'
      BY <1>0, <1>1, <1>2, <1>4, <1>5, <1>9, <2>1, <2>2 DEF Placed
    <2> QED BY <1>2, <2>3 DEF Home, Intent
  <1>13. \A v \in Users : Stored(v) => Stored(v)' /\ at'[v] = at[v]
    BY <1>8, <1>9, ApartIs, ApartKeepsHome DEF IInv
  <1>14. \A v \in Users \ {u} : Intent(v)'
    BY <1>0, <1>1, <1>2, <1>13, OthersIntent DEF SoundStep, Reading
  <1> QED BY <1>0, <1>10, <1>11, <1>12, <1>14, HandlesKeeps

(* Only the reader fills slots, one at a time.                             *)
LEMMA FillsOne ==
  ASSUME IInv, NEW u \in Users, pc[u] \in Reading
  PROVE  \A i : Filling(i) <=> pc[u] = "post" /\ header[u].idx = i
  <1>1. \A v \in Users : pc[v] = "post" => v = u
    BY DEF IInv, Readers, Reading
  <1> QED BY <1>1 DEF Filling

(* The reader puts the reply to another thread, w, in the slot of w.       *)
LEMMA ReadStep ==
  ASSUME OneBody, IInv, [SoundNext]_vars, NEW u \in Users, Read(u)
  PROVE  IInv'
  <1>0. /\ pc \in [Users -> Places] /\ pc[u] = "read" /\ pc[u] \in Reading /\ todo[u] = "loop"
        /\ slot \in [Slots -> SlotStates]
        /\ UNCHANGED <<pending, requests, alive, at, req, parts, header, message, todo>>
    BY DEF IInv, Tidy, Typed, SlotsTidy, Read, server, thread, Reading, Intent
  <1>1. wire # << >> /\ wire' = Tail(wire) /\ pc'[u] = "post"
    BY <1>0, ReadDoes, SMT
  <1>2. PICK w \in Users \ {u} :
          /\ Waiting(w) /\ Busy(w) /\ wire[1] = Reply(w) /\ OnWire(w) /\ Owns(w)
          /\ slot[at[w]] = Taken /\ ~Returning(w) /\ at[w] = header[u].idx
          /\ slot' = [slot EXCEPT ![at[w]] = Holding(Reply(w), 0)]
    BY ReadDoes
  <1>3. at[w] \in Slots /\ Reply(w) \in Messages
    BY <1>2, ReplyType DEF IInv, Owners
  <1>4. slot'[at[w]] = Holding(Reply(w), 0) /\ \A i \in Slots : i # at[w] => slot'[i] = slot[i]
    BY <1>0, <1>2, <1>3
  <1>5. \A v \in Users \ {u} : Same(v)
    BY OthersAreSame DEF IInv, SoundStep
  <1>6. \A i : ~Filling(i) /\ (Filling(i)' <=> i = at[w])
    <2>1. \A v \in Users : pc'[v] = "post" <=> v = u
      BY <1>0, <1>1, <1>5 DEF Same, IInv, Readers, Reading
    <2>2. \A i : ~Filling(i)
      BY <1>0, FillsOne
    <2> QED BY <1>0, <1>2, <2>1, <2>2 DEF Filling
  <1>7. Alike(u)
    BY <1>0, <1>1 DEF Alike, Busy, Owns, Waiting, Returning
  <1>8. \A v \in Users : Alike(v) /\ Reply(v)' = Reply(v) /\ Order(v)' = Order(v)
    <2>1. \A v \in Users : Alike(v)
      BY <1>5, <1>7, SameIsAlike DEF IInv
    <2> QED BY <2>1 DEF Alike, Reply, Order
  <1>9. ASSUME NEW v \in Users \ {w} PROVE Apart(v)
    <2>1. Owns(v) => at[v] \in Slots /\ at[v] # at[w]
      BY <1>2 DEF IInv, Owners
    <2>2. Waiting(v) => (OnWire(v)' <=> OnWire(v))
      BY <1>1, <1>2, <1>8, OnWireRead DEF Waiting, Busy
    <2> QED BY <1>0, <1>4, <1>6, <1>8, <2>1, <2>2 DEF Apart, Ordered
  <1>10. Busy(w)' /\ Owns(w)' /\ Waiting(w)' /\ ~Returning(w)' /\ at'[w] = at[w] /\ req'[w] = req[w]
    BY <1>2, <1>8 DEF Alike
  <1>11. Stored(w)'
    BY <1>4, <1>8, <1>10 DEF Stored
  <1>12. Handles(w)
    <2>1. Holding(Reply(w), 0).in_use /\ \A v \in Users \ {w} : Owns(v) => at[v] # at[w]
      BY <1>2, <1>3, FilledSlots DEF IInv, Owners
    <2>2. ~Stored(w)
      <3>1. \A n \in {0, 1} : Taken # Holding(Reply(w), n)
        BY <1>3, FilledSlots
      <3> QED BY <1>2, <3>1 DEF Stored
    <2> QED BY <1>2, <1>3, <1>4, <1>8, <1>9, <1>10, <1>11, <2>1, <2>2 DEF Handles
  <1>13. Addressed'
    <2>1. \A v \in Users : Waiting(v) => Stays(v)
      BY <1>8, AlikeStays
    <2>2. \A v \in Users : Busy(v)' => Busy(v) /\ req'[v] = req[v]
      BY <1>8 DEF Alike
    <2> QED BY <1>0, <1>1, <2>1, <2>2, AddressedRead
  <1>14. Home(w)'
    <2>1. Placed(w)
      BY <1>2 DEF IInv, Home
    <2>2. ~Ordered(w)' /\ ~OnWire(w)'
      <3>1. ~OnWire(w)'
        BY <1>1, <1>2, <1>8, OnWireRead
      <3> QED BY <1>0, <1>2, <1>8, <2>1, <3>1 DEF Placed, Ordered
    <2>3. Counted(at[w])' = 0
      BY <1>0, <1>6 DEF Counted, Filling
    <2>4. pc'[w] # "consume" /\ pc'[w] # "send"
      BY <1>2, <1>3, <1>10, <1>8, FilledSlots DEF Alike, Waiting
    <2>5. Placed(w)'
      BY <1>0, <1>4, <1>8, <1>10, <1>11, <2>1, <2>2, <2>3, <2>4 DEF Placed
    <2> QED BY <2>4, <2>5 DEF Home
  <1>15. Intent(u)'
    BY <1>0, <1>1, <1>2, <1>11 DEF Intent
  <1>16. \A v \in Users \ {u} : Intent(v)'
    <2>1. \A v \in Users : pc[v] # "post"
      BY <1>0 DEF IInv, Readers, Reading
    <2> QED BY <1>0, <1>1, <2>1, OthersIntent DEF SoundStep
  <1> QED BY <1>0, <1>12, <1>13, <1>14, <1>15, <1>16, HandlesKeeps

(* The reader counts the message it has put in the slot of w.              *)
LEMMA PostStep ==
  ASSUME OneBody, IInv, [SoundNext]_vars, NEW u \in Users, Post(u)
  PROVE  IInv'
  <1>0. /\ pc \in [Users -> Places] /\ pc[u] = "post" /\ pc[u] \in Reading /\ slot \in [Slots -> SlotStates]
        /\ todo \in [Users -> {"return", "loop", "throw"}]
        /\ UNCHANGED <<wire, pending, requests, alive, at, req, parts, header, message>>
    BY DEF IInv, Tidy, Typed, SlotsTidy, Post, server, Reading
  <1>1. pc'[u] = "free" /\ todo'[u] = "loop"
    BY <1>0, PostDoes, SMT
  <1>2. PICK w \in Users \ {u} :
          /\ Stored(w) /\ Waiting(w) /\ Owns(w) /\ at[w] = header[u].idx
          /\ slot[at[w]] = Holding(Reply(w), 0)
          /\ slot' = [slot EXCEPT ![at[w]] = Holding(Reply(w), 1)]
    BY PostDoes
  <1>3. at[w] \in Slots /\ Reply(w) \in Messages
    BY <1>2, ReplyType DEF IInv, Owners
  <1>4. slot'[at[w]] = Holding(Reply(w), 1) /\ \A i \in Slots : i # at[w] => slot'[i] = slot[i]
    BY <1>0, <1>2, <1>3
  <1>5. \A v \in Users \ {u} : Same(v)
    BY OthersAreSame DEF IInv, SoundStep
  <1>6. \A i : ~Filling(i)' /\ (Filling(i) <=> i = at[w])
    <2>1. \A v \in Users : pc'[v] # "post"
      BY <1>0, <1>1, <1>5, SMT DEF Same, IInv, Readers, Reading
    <2>2. \A i : Filling(i) <=> i = at[w]
      BY <1>0, <1>2, FillsOne
    <2> QED BY <2>1, <2>2 DEF Filling
  <1>7. Alike(u)
    BY <1>0, <1>1 DEF Alike, Busy, Owns, Waiting, Returning
  <1>8. \A v \in Users : Alike(v) /\ Reply(v)' = Reply(v) /\ Order(v)' = Order(v)
    <2>1. \A v \in Users : Alike(v)
      BY <1>5, <1>7, SameIsAlike DEF IInv
    <2> QED BY <2>1 DEF Alike, Reply, Order
  <1>9. ASSUME NEW v \in Users \ {w} PROVE Apart(v)
    <2>1. Owns(v) => at[v] \in Slots /\ at[v] # at[w]
      BY <1>2 DEF IInv, Owners
    <2> QED BY <1>0, <1>4, <1>6, <1>8, <2>1 DEF Apart, Ordered, OnWire
  <1>10. Busy(w)' /\ Busy(w) /\ Owns(w)' /\ Waiting(w)' /\ at'[w] = at[w] /\ req'[w] = req[w]
    BY <1>2, <1>8 DEF Alike, Waiting, Busy
  <1>11. Stored(w)'
    BY <1>4, <1>8, <1>10 DEF Stored
  <1>12. Handles(w)
    <2>1. Holding(Reply(w), 1).in_use /\ \A v \in Users \ {w} : Owns(v) => at[v] # at[w]
      BY <1>2, <1>3, FilledSlots DEF IInv, Owners
    <2> QED BY <1>2, <1>3, <1>4, <1>8, <1>9, <1>10, <1>11, <2>1 DEF Handles
  <1>13. Addressed'
    BY <1>0, <1>8, AddressedKept, AlikeStays DEF Alike
  <1>14. Home(w)'
    <2>1. Placed(w) /\ slot[at[w]] # Taken
      BY <1>2, <1>3, FilledSlots, SMT DEF IInv, Home
    <2>2. ~Ordered(w)' /\ ~OnWire(w)' /\ ~Returning(w)'
      BY <1>0, <1>2, <1>8, <2>1 DEF Placed, Ordered, OnWire, Alike
    <2>3. Counted(at[w])' = 1
      BY <1>0, <1>6 DEF Counted, Filling
    <2>4. pc'[w] # "send"
      BY <1>10 DEF Waiting
    <2>5. Placed(w)'
      BY <1>0, <1>4, <1>8, <1>10, <1>11, <2>1, <2>2, <2>3 DEF Placed
    <2> QED BY <2>4, <2>5 DEF Home
  <1>15. Intent(u)'
    BY <1>0, <1>1 DEF Intent
  <1>16. \A v \in Users \ {u} : Intent(v)'
    <2>1. \A v \in Users \ {u} : pc[v] # "post"
      BY <1>0 DEF IInv, Readers, Reading
    <2> QED BY <1>0, <1>1, <2>1, OthersIntent DEF SoundStep
  <1> QED BY <1>0, <1>12, <1>13, <1>14, <1>15, <1>16, HandlesKeeps

(* A message that is sent is on the wire, behind the others.               *)
LEMMA WireSent ==
  ASSUME NEW q \in Seq(Messages), NEW m \in Messages, NEW r, r = Append(q, m),
         \A k \in 1 .. Len(q) : q[k] # m, \A j, k \in 1 .. Len(q) : q[j] = q[k] => j = k
  PROVE  /\ \A x : (\E k \in 1 .. Len(r) : r[k] = x) <=> (x = m \/ \E k \in 1 .. Len(q) : q[k] = x)
         /\ \A j, k \in 1 .. Len(r) : r[j] = r[k] => j = k
         /\ r # << >> /\ (q # << >> => r[1] = q[1])
  <1>1. /\ Len(q) \in Nat /\ Len(r) = Len(q) + 1 /\ r[Len(q) + 1] = m /\ r # << >>
        /\ \A k \in 1 .. Len(q) : r[k] = q[k]
    BY SMT
  <1>2. \A k \in 1 .. Len(r) : k \in 1 .. Len(q) \/ k = Len(q) + 1
    BY <1>1, SMT
  <1>3. \A k \in 1 .. Len(q) : k \in 1 .. Len(r)
    BY <1>1, SMT
  <1>4. Len(q) + 1 \in 1 .. Len(r)
    BY <1>1, SMT
  <1>5. \A x : (\E k \in 1 .. Len(r) : r[k] = x) <=> (x = m \/ \E k \in 1 .. Len(q) : q[k] = x)
    BY <1>1, <1>2, <1>3, <1>4
  <1>6. \A j, k \in 1 .. Len(r) : r[j] = r[k] => j = k
    BY <1>1, <1>2, SMT
  <1>7. q # << >> => 1 \in 1 .. Len(q)
    BY SMT
  <1> QED BY <1>1, <1>5, <1>6, <1>7

(* The server answers: the request of w leaves it and the reply comes on.  *)
LEMMA AnswerStep ==
  ASSUME OneBody, IInv, [SoundNext]_vars, Answer
  PROVE  IInv'
  <1>0. alive /\ UNCHANGED <<slot, using, alive, requests, pc, at, req, parts, header, message, todo>>
    BY DEF Answer, thread
  <1>1. PICK w \in Users : /\ Waiting(w) /\ Busy(w) /\ Ordered(w) /\ Owns(w) /\ ~OnWire(w)
                           /\ slot[at[w]] = Taken /\ ~Returning(w)
                           /\ pending' = pending \ {Order(w)} /\ wire' = Append(wire, Reply(w))
    BY AnswerDoes
  <1>2. Reply(w) \in Messages /\ wire \in Seq(Messages) /\ \A j, k \in 1 .. Len(wire) : wire[j] = wire[k] => j = k
    BY <1>1, ReplyType DEF IInv, Tidy, Typed, SlotsTidy, Addressed
  <1>3. /\ \A x : (\E k \in 1 .. Len(wire') : wire'[k] = x) <=> (x = Reply(w) \/ \E k \in 1 .. Len(wire) : wire[k] = x)
        /\ \A j, k \in 1 .. Len(wire') : wire'[j] = wire'[k] => j = k
        /\ wire' # << >> /\ (wire # << >> => wire'[1] = wire[1])
    <2>1. \A k \in 1 .. Len(wire) : wire[k] # Reply(w)
      BY <1>1 DEF OnWire
    <2>2. wire' = Append(wire, Reply(w))
      BY <1>1
    <2>3. DEFINE r == wire'
    <2>4. r = Append(wire, Reply(w))
      BY <2>2
    <2> HIDE DEF r
    <2>5. /\ \A x : (\E k \in 1 .. Len(r) : r[k] = x) <=> (x = Reply(w) \/ \E k \in 1 .. Len(wire) : wire[k] = x)
          /\ \A j, k \in 1 .. Len(r) : r[j] = r[k] => j = k
          /\ r # << >> /\ (wire # << >> => r[1] = wire[1])
      BY ONLY <1>2, <2>1, <2>4, WireSent, SMT
    <2> QED BY <2>5 DEF r
  <1>4. \A v \in Users : Same(v)
    BY <1>0 DEF Same
  <1>5. \A v \in Users : /\ Alike(v) /\ Reply(v)' = Reply(v) /\ Order(v)' = Order(v)
                         /\ Waiting(v)' <=> Waiting(v)
                         /\ Busy(v)' <=> Busy(v)
    BY <1>4, SameIsAlike, SameIs DEF IInv
  <1>6. \A v \in Users \ {w} : Busy(v) => Reply(v) # Reply(w) /\ Order(v) # Order(w)
    BY <1>1, ReplyFields DEF IInv, Numbered
  <1>7. \A i : Filling(i)' <=> Filling(i)
    BY <1>0 DEF Filling
  <1>8. ASSUME NEW v \in Users \ {w} PROVE Apart(v)
    <2>1. Waiting(v) => Reply(v) # Reply(w) /\ Order(v) # Order(w)
      BY <1>6 DEF Waiting, Busy
    <2>2. Waiting(v) => (Ordered(v)' <=> Ordered(v)) /\ (OnWire(v)' <=> OnWire(v))
      BY <1>1, <1>3, <1>5, <2>1, SMT DEF Ordered, OnWire
    <2> QED BY <1>0, <1>5, <1>7, <2>2 DEF Apart
  <1>9. ~Stored(w)
    <2>1. \A n \in {0, 1} : Taken # Holding(Reply(w), n)
      BY <1>2, FilledSlots
    <2> QED BY <1>1, <2>1 DEF Stored
  <1>10. Handles(w)
    <2>1. at[w] \in Slots /\ slot[at[w]].in_use /\ \A v \in Users \ {w} : Owns(v) => at[v] # at[w]
      BY <1>1 DEF IInv, Owners
    <2> QED BY <1>0, <1>1, <1>8, <1>9, <2>1 DEF Handles
  <1>11. Addressed'
    <2>1. ASSUME NEW p \in pending', NEW v \in Users, Busy(v)', p.req = req'[v] PROVE Waiting(v)' /\ p = Order(v)'
      BY <1>0, <1>1, <1>5, <2>1 DEF IInv, Addressed
    <2>2. ASSUME NEW p \in pending' PROVE \E v \in Users : Waiting(v)' /\ p = Order(v)'
      <3>1. p \in pending
        BY <1>1, <2>2
      <3>2. PICK v \in Users : Waiting(v) /\ p = Order(v)
        BY <1>0, <3>1 DEF IInv, Addressed
      <3> QED BY <1>5, <3>2
    <2>3. ASSUME NEW k \in 1 .. Len(wire') PROVE \E v \in Users : Waiting(v)' /\ wire'[k] = Reply(v)'
      <3>1. wire'[k] = Reply(w) \/ \E j \in 1 .. Len(wire) : wire[j] = wire'[k]
        BY <1>3
      <3>2. ASSUME NEW j \in 1 .. Len(wire), wire[j] = wire'[k] PROVE \E v \in Users : Waiting(v)' /\ wire'[k] = Reply(v)'
        BY <1>5, <3>2 DEF IInv, Addressed
      <3> QED BY <1>1, <1>5, <3>1, <3>2
    <2> QED BY <1>3, <2>1, <2>2, <2>3 DEF Addressed
  <1>12. Home(w)'
    <2>1. Placed(w)
      BY <1>1 DEF IInv, Home
    <2>2. OnWire(w)' /\ ~Ordered(w)' /\ (Owns(w)' <=> Owns(w)) /\ (Returning(w)' <=> Returning(w))
      BY <1>1, <1>3, <1>5 DEF OnWire, Ordered, Alike
    <2>3. ~Stored(w)' /\ pc'[w] # "consume" /\ pc'[w] # "send"
      <3>1. Taken # Holding(Reply(w), 1)
        BY <1>2, FilledSlots
      <3> QED BY <1>0, <1>1, <1>5, <1>9, <2>1, <3>1 DEF Stored, Placed, Waiting
    <2>4. Placed(w)'
      BY <1>0, <1>1, <2>1, <2>2, <2>3 DEF Placed
    <2> QED BY <2>3, <2>4 DEF Home
  <1>13. \A v \in Users : Intent(v)'
    <2>1. \A v \in Users : Stored(v) => Stored(v)' /\ at'[v] = at[v]
      BY <1>0, <1>5, <1>9 DEF Stored, Owns
    <2>2. ASSUME NEW v \in Users PROVE Intent(v)'
      <3>1. Intent(v) /\ (pc[v] \in {"read", "read_own"} => wire # << >>)
        BY DEF IInv, Intent
      <3> QED BY <1>0, <1>3, <1>4, <2>1, <3>1, IntentKept
    <2> QED BY <2>2
  <1> QED BY <1>0, <1>10, <1>11, <1>12, <1>13, HandlesKeeps
-----------------------------------------------------------------------------
(* The invariant                                                           *)

(* Another process tests the server, or the server dies.                   *)
LEMMA ElsewhereStep ==
  ASSUME OneBody, IInv, [SoundNext]_vars, Crash \/ Shutdown \/ Probe \/ UNCHANGED vars
  PROVE  IInv'
  <1>1. /\ UNCHANGED <<slot, wire, pending, requests, pc, at, req, parts, header, message, todo>> /\ (alive' => alive)
    BY SMT DEF Crash, Shutdown, Probe, vars, server, thread
  <1>2. \A v \in Users : Same(v)
    BY <1>1 DEF Same
  <1>3. \A v \in Users : Alike(v) /\ Intent(v)
    BY <1>2, SameIsAlike DEF IInv
  <1>4. ASSUME NEW v \in Users PROVE Intent(v)'
    <2>1. Intent(v) /\ (pc[v] \in {"read", "read_own"} => wire # << >>)
      BY <1>3 DEF Intent
    <2>2. \A x \in Users : Stored(x) => Stored(x)' /\ at'[x] = at[x]
      BY <1>1 DEF Stored, Owns, Reply
    <2> QED BY <1>1, <1>2, <2>1, <2>2, IntentKept
  <1>5. \A i : Filling(i)' <=> Filling(i)
    BY <1>1 DEF Filling
  <1> QED BY <1>1, <1>3, <1>4, <1>5, QuietKeeps

(* At first all slots are free and nobody has asked for anything.          *)
LEMMA SessionInit ==
  ASSUME Init
  PROVE  IInv
  <1>1. /\ \A u \in Users : pc[u] = "idle" /\ todo[u] = "loop"
        /\ \A i \in Slots : slot[i] = FreeSlot
        /\ wire = << >> /\ pending = {} /\ requests = 0
    BY DEF Init
  <1>2. FreeSlot \in SlotStates /\ FreeSlot.body = Empty
    BY SlotFields DEF Fields
  <1>3. Tidy
    <2>1. /\ requests \in 0 .. MaxRequests /\ at \in [Users -> 0 .. SlotSize] /\ req \in [Users -> 0 .. requests]
      BY Numbers, SMT DEF Init
    <2>2. wire \in Seq(Messages) /\ parts \in [Users -> Seq(Types)]
      BY SMT DEF Init
    <2>3. slot \in [Slots -> SlotStates] /\ \A i \in Slots : slot[i] = FreeSlot
      BY <1>2 DEF Init
    <2>4. /\ using \in BOOLEAN /\ alive \in BOOLEAN /\ probed \in BOOLEAN /\ pc \in [Users -> Places]
          /\ header \in [Users -> Messages \cup {Empty}] /\ message \in [Users -> Messages \cup {Empty}]
          /\ todo \in [Users -> {"return", "loop", "throw"}]
      BY DEF Init, Places
    <2> QED BY <1>1, <2>1, <2>2, <2>3, <2>4 DEF Tidy, Typed, SlotsTidy
  <1>4. \A u \in Users : ~Busy(u) /\ ~Owns(u) /\ ~Waiting(u)
    BY <1>1 DEF Busy, Owns, Waiting
  <1>5. Readers /\ Owners /\ Numbered
    BY <1>1, <1>4 DEF Readers, Reading, Owners, Numbered
  <1>6. Addressed
    <2>1. 1 .. Len(wire) = {}
      BY <1>1, SMT
    <2> QED BY <1>1, <2>1 DEF Addressed
  <1>7. \A i \in Slots : Shaped(i)
    <2>1. \A i \in Slots : slot[i].body.req <= requests
      BY <1>1, <1>2, Numbers, SMT
    <2> QED BY <1>1, <1>4, <2>1 DEF Shaped
  <1>8. \A u \in Users : Intent(u) /\ Home(u)
    BY <1>1, <1>4 DEF Intent, Home
  <1> QED BY <1>3, <1>5, <1>6, <1>7, <1>8 DEF IInv

(* Every sound step keeps the invariant.                                   *)
LEMMA SoundStepKeeps ==
  ASSUME OneBody, IInv, [SoundNext]_vars
  PROVE  IInv'
  <1>1. ASSUME NEW u \in Users, Begin(u) \/ SoundStep(u) PROVE IInv'
    <2>1. CASE Begin(u) \/ SearchSlot(u) \/ Send(u)
      BY <2>1, BeginStep, SearchStep, SendStep
    <2>2. CASE Consume(u) \/ ClearInUse(u) \/ ReadOwn(u) \/ Read(u) \/ Post(u)
      BY <2>2, ConsumeStep, ClearStep, ReadOwnStep, ReadStep, PostStep
    <2>3. CASE TestPredicate(u) \/ FallAsleep(u) \/ CheckSlot(u) \/ Cas(u) \/ CasFails(u) \/ Await(u) \/ AwaitThrows(u)
      BY <2>3, RestingStep
    <2>4. CASE Catch(u) \/ FreeWire(u) \/ Notify(u)
      BY <2>4, LeavingStep, NotifyStep
    <2> QED BY <1>1, <2>1, <2>2, <2>3, <2>4 DEF SoundStep
  <1> QED BY <1>1, AnswerStep, ElsewhereStep DEF SoundNext

(* A step that takes no stray header is sound: the header of a thread that *)
(* reads is that of a message.                                             *)
LEMMA SoundWithoutStrays ==
  ASSUME IInv, strays \in Nat, [Next]_vars, strays' = strays
  PROVE  [SoundNext]_vars
  <1>1. ASSUME NEW u \in Users, AwaitStray(u) PROVE FALSE
    <2>1. strays' = strays + 1
      BY <1>1 DEF AwaitStray
    <2> QED BY <2>1, SMT
  <1>2. ASSUME NEW u \in Users, ReadOutOfRange(u) PROVE FALSE
    BY <1>2, Fetched DEF ReadOutOfRange
  <1> QED BY <1>1, <1>2 DEF Next, Step, SoundNext, SoundStep

(* The headers that belong to no message are counted, never forgotten.     *)
LEMMA StraysStay ==
  ASSUME strays \in Nat, [Next]_vars
  PROVE  strays' = strays \/ strays' = strays + 1
  <1>1. ASSUME NEW u \in Users, Begin(u) \/ Step(u) PROVE strays' = strays \/ strays' = strays + 1
    BY <1>1 DEF Begin, Step, SearchSlot, Send, TestPredicate, FallAsleep, CheckSlot, Consume, ClearInUse,
       Cas, CasFails, Await, AwaitStray, AwaitThrows, ReadOwn, Read, ReadOutOfRange, Post, Catch, FreeWire, Notify
  <1> QED BY <1>1 DEF Next, Answer, Crash, Shutdown, Probe, vars

(* The invariant, until a header without a message is taken for one.       *)
Sound == strays \in Nat /\ (strays = 0 => IInv)

(* It holds at the beginning.                                              *)
LEMMA SoundAtFirst ==
  ASSUME OneBody, Init
  PROVE  Sound
  BY SessionInit DEF Init, Sound

(* Every step keeps it.                                                    *)
LEMMA SessionNext ==
  ASSUME OneBody, Sound, [Next]_vars
  PROVE  Sound'
  <1>1. strays \in Nat /\ (strays' = strays \/ strays' = strays + 1)
    BY StraysStay DEF Sound
  <1>2. strays' \in Nat /\ (strays' = 0 => strays = 0 /\ strays' = strays)
    BY <1>1, SMT
  <1>3. ASSUME strays' = 0 PROVE IInv'
    BY <1>1, <1>2, <1>3, SoundWithoutStrays, SoundStepKeeps DEF Sound
  <1> QED BY <1>2, <1>3 DEF Sound

(* The reply to a thread is in one place only.                             *)
LEMMA OnePlace ==
  ASSUME IInv, NEW u \in Users, Waiting(u)
  PROVE  /\ Placed(u) /\ Busy(u) /\ at[u] \in Slots /\ req[u] # 0
         /\ \/ Ordered(u) /\ ~OnWire(u) /\ ~Stored(u) /\ ~Returning(u)
            \/ ~Ordered(u) /\ OnWire(u) /\ ~Stored(u) /\ ~Returning(u)
            \/ ~Ordered(u) /\ ~OnWire(u) /\ Stored(u) /\ ~Returning(u)
            \/ ~Ordered(u) /\ ~OnWire(u) /\ ~Stored(u) /\ Returning(u)
  <1>1. Placed(u) /\ Busy(u)
    BY DEF IInv, Home, Waiting, Busy
  <1>2. req[u] # 0
    BY <1>1, SMT DEF IInv, Numbered
  <1>3. at[u] \in Slots
    <2>1. CASE Returning(u)
      <3>1. Reply(u) \in Messages \cup {Empty}
        BY <1>1, <2>1 DEF Placed, IInv, Tidy, Typed, SlotsTidy
      <3>2. Reply(u).type = "RESPONSE_BODY" /\ Empty.type = "none" /\ Reply(u).idx = at[u]
        BY ReplyFields DEF Empty
      <3>3. Reply(u) \in Messages
        BY <3>1, <3>2
      <3> QED BY <3>2, <3>3 DEF Messages
    <2>2. CASE ~Returning(u)
      BY <1>1, <2>2 DEF Placed, Stored, IInv, Owners
    <2> QED BY <2>1, <2>2
  <1>4. Stored(u) => slot[at[u]] # Taken /\ Owns(u)
    BY ReplyType, FilledSlots, SMT DEF Stored
  <1> QED BY <1>1, <1>2, <1>3, <1>4 DEF Placed

(***************************************************************************)
(* The counters of a slot stay in their ranges, and a slot that nobody     *)
(* uses is as new, so that its next owner finds no message of an earlier   *)
(* one: for any threads, slots and requests, until await has returned a    *)
(* header that belongs to no message.                                      *)
(***************************************************************************)
THEOREM SlotsAreLeftClean ==
  ASSUME OneBody
  PROVE  Spec => [](strays = 0 => Typed /\ SlotsTidy)
  <1>1. Init => Sound
    BY SoundAtFirst
  <1>2. Sound /\ [Next]_vars => Sound'
    BY SessionNext
  <1>3. Sound => (strays = 0 => Typed /\ SlotsTidy)
    BY DEF Sound, IInv, Tidy
  <1> QED BY <1>1, <1>2, <1>3, PTL DEF Spec

(***************************************************************************)
(* receive returns the reply to the request of its caller, whoever reads   *)
(* the wire, in whatever order the server answers and whoever gives up,    *)
(* until await has returned a header that belongs to no message.           *)
(***************************************************************************)
THEOREM EachGetsItsOwn ==
  ASSUME OneBody
  PROVE  Spec => []OwnAnswer
  <1>1. Init => Sound
    BY SoundAtFirst
  <1>2. Sound /\ [Next]_vars => Sound'
    BY SessionNext
  <1>3. Sound => OwnAnswer
    <2> SUFFICES ASSUME IInv, NEW u \in Users, Returning(u)
                 PROVE  message[u] = [idx |-> at[u], type |-> Head(parts[u]), req |-> req[u]]
      BY DEF OwnAnswer, Returning, Sound
    <2>1. Placed(u)
      BY DEF IInv, Home, Waiting, Returning
    <2>2. Head(parts[u]) = "RESPONSE_BODY"
      BY <2>1, SMT DEF Placed
    <2> QED BY <2>1, <2>2 DEF Placed, Reply
  <1> QED BY <1>1, <1>2, <1>3, PTL DEF Spec

(* What NothingLost counts, one place after the other.                     *)
LEMMA CountPending ==
  ASSUME IInv, NEW u \in Users, Waiting(u)
  PROVE  (IF \E p \in pending : p.req = req[u]
          THEN Len((CHOOSE p \in pending : p.req = req[u]).types) ELSE 0) = IF Ordered(u) THEN 1 ELSE 0
  <1>1. \A p \in pending : p.req = req[u] => p = Order(u)
    BY DEF IInv, Addressed, Waiting, Busy
  <1>2. Order(u).req = req[u] /\ Order(u).types = <<"RESPONSE_BODY">>
    BY ReplyFields
  <1>3. CASE Ordered(u)
    <2>1. (CHOOSE p \in pending : p.req = req[u]) = Order(u)
      BY <1>1, <1>2, <1>3 DEF Ordered
    <2>2. Len(Order(u).types) = 1
      BY <1>2, SMT
    <2> QED BY <1>2, <1>3, <2>1, <2>2 DEF Ordered
  <1>4. CASE ~Ordered(u)
    BY <1>1, <1>4 DEF Ordered
  <1> QED BY <1>3, <1>4

(* The messages of the wire with the number of u are the reply to u.       *)
LEMMA CountWire ==
  ASSUME IInv, NEW u \in Users, Waiting(u)
  PROVE  Cardinality({k \in DOMAIN wire : wire[k].req = req[u]}) = IF OnWire(u) THEN 1 ELSE 0
  <1> DEFINE K == {k \in DOMAIN wire : wire[k].req = req[u]}
  <1>1. DOMAIN wire = 1 .. Len(wire)
    BY SMT DEF IInv, Tidy, Typed, SlotsTidy
  <1>2. \A k \in 1 .. Len(wire) : wire[k].req = req[u] <=> wire[k] = Reply(u)
    <2>1. ASSUME NEW k \in 1 .. Len(wire), wire[k].req = req[u] PROVE wire[k] = Reply(u)
      <3>1. PICK w \in Users : Waiting(w) /\ Busy(w) /\ wire[k] = Reply(w)
        BY OnWireOwns
      <3>2. req[w] = req[u] /\ Busy(u)
        BY <2>1, <3>1, ReplyFields DEF Waiting, Busy
      <3> QED BY <3>1, <3>2 DEF IInv, Numbered
    <2> QED BY <2>1, ReplyFields
  <1>3. CASE OnWire(u)
    <2>1. PICK k \in 1 .. Len(wire) : wire[k] = Reply(u)
      BY <1>3 DEF OnWire
    <2>2. K = {k}
      <3>1. \A j \in 1 .. Len(wire) : wire[j] = wire[k] => j = k
        BY <2>1 DEF IInv, Addressed
      <3>2. \A j : j \in K <=> j \in 1 .. Len(wire) /\ wire[j] = Reply(u)
        BY <1>1, <1>2
      <3> HIDE DEF K
      <3> QED BY <2>1, <3>1, <3>2
    <2> QED BY <1>3, <2>2, FS_Singleton
  <1>4. CASE ~OnWire(u)
    <2>1. K = {}
      BY <1>1, <1>2, <1>4 DEF OnWire
    <2> QED BY <1>4, <2>1, FS_EmptySet
  <1> QED BY <1>3, <1>4

(* A slot that is another's by now has nothing with the number of u.       *)
LEMMA CountSlot ==
  ASSUME IInv, NEW u \in Users, Waiting(u)
  PROVE  /\ Held(slot[at[u]], req[u]) = IF Stored(u) THEN 1 ELSE 0
         /\ slot[at[u]].consumed = 0
  <1> DEFINE s == slot[at[u]]
  <1>1. at[u] \in Slots /\ req[u] # 0 /\ Busy(u)
    BY OnePlace
  <1>2. Shaped(at[u])
    BY <1>1 DEF IInv
  <1>3. s.consumed = 0 /\ s.body_head = Empty
    BY <1>2, SlotFields, SMTT(30) DEF Shaped, Fields
  <1>4. s.body.req = req[u] <=> Stored(u)
    <2>1. Stored(u) => s.body = Reply(u)
      BY ReplyType, FilledSlots, SMT DEF Stored
    <2> QED BY <1>1, <1>2, <2>1, ReplyFields DEF Shaped
  <1>5. s.body_head.req # req[u]
    BY <1>1, <1>3, Numbers
  <1> HIDE DEF s
  <1>6. CASE Stored(u)
    <2>1. {f \in {"body", "body_head"} : s[f].req = req[u]} = {"body"}
      BY <1>4, <1>5, <1>6
    <2> QED BY <1>3, <1>6, <2>1, FS_Singleton DEF Held, s
  <1>7. CASE ~Stored(u)
    <2>1. {f \in {"body", "body_head"} : s[f].req = req[u]} = {}
      BY <1>4, <1>5, <1>7
    <2> QED BY <1>3, <1>7, <2>1, FS_EmptySet DEF Held, s
  <1> QED BY <1>6, <1>7

(***************************************************************************)
(* The reply to a request is always in exactly one place: at the server,   *)
(* on the wire, in the slot of its thread or in its hands.  None is lost   *)
(* and none is doubled, also when the thread whose reply it is sleeps and  *)
(* another one reads the wire, until await has returned a header that      *)
(* belongs to no message.                                                  *)
(***************************************************************************)
THEOREM NoReplyIsLost ==
  ASSUME OneBody
  PROVE  Spec => []NothingLost
  <1>1. Init => Sound
    BY SoundAtFirst
  <1>2. Sound /\ [Next]_vars => Sound'
    BY SessionNext
  <1>3. Sound => NothingLost
    <2> SUFFICES ASSUME IInv, NEW u \in Users, Waiting(u)
                 PROVE  Len(parts[u]) =
                          (IF \E p \in pending : p.req = req[u]
                           THEN Len((CHOOSE p \in pending : p.req = req[u]).types) ELSE 0)
                          + Cardinality({k \in DOMAIN wire : wire[k].req = req[u]})
                          + Held(slot[at[u]], req[u])
                          - (IF slot[at[u]].consumed = 1 /\ slot[at[u]].body_head # Empty THEN 1 ELSE 0)
                          + InHand(u)
      BY DEF NothingLost, Sound
    <2>1. Len(parts[u]) = 1
      <3>1. parts[u] = <<"RESPONSE_BODY">>
        BY OnePlace DEF Placed
      <3> QED BY <3>1, SMT
    <2>2. InHand(u) = IF Returning(u) THEN 1 ELSE 0
      BY DEF InHand, Returning
    <2>3. (IF slot[at[u]].consumed = 1 /\ slot[at[u]].body_head # Empty THEN 1 ELSE 0) = 0
      BY CountSlot, SMT
    <2>4. (IF Ordered(u) THEN 1 ELSE 0) + (IF OnWire(u) THEN 1 ELSE 0) + (IF Stored(u) THEN 1 ELSE 0) - 0
            + (IF Returning(u) THEN 1 ELSE 0) = 1
      BY OnePlace, SMT
    <2> QED BY <2>1, <2>2, <2>3, <2>4, CountPending, CountWire, CountSlot
  <1> QED BY <1>1, <1>2, <1>3, PTL DEF Spec

=============================================================================
