------------------------ MODULE ConnectionQueueProofs ------------------------
(***************************************************************************)
(* Slots are exclusive, the admin reservation holds and a client gets the  *)
(* session of its own request, for any number of clients and slots.        *)
(***************************************************************************)
EXTENDS ConnectionQueue, FiniteSetTheorems, TLAPS

(* The prover of the leaves that do not name one. *)
USE Zenon

USE ConstantsAssumption

(* The ring has at least one place. *)
LEMMA CapacityPositive == Capacity \in Nat /\ Capacity > 0
  BY SMT DEF Capacity

(* Index stays inside the ring. *)
LEMMA IndexInRing == ASSUME NEW n \in Nat PROVE Index(n) \in Slots
  <1>1. /\ Capacity \in Nat /\ Capacity > 0
    BY CapacityPositive
  <1>2. n % Capacity \in 0 .. Capacity - 1
    BY <1>1, SMT
  <1> QED BY <1>2 DEF Index, Slots

(* Two positions less than a ring apart are different places of the ring. *)
LEMMA IndexDistinct ==
  ASSUME NEW i \in Nat, NEW p \in Nat, i < p, p - i < Capacity
  PROVE  Index(i) # Index(p)
  <1> DEFINE C == Capacity
  <1>1. C \in Nat /\ C > 0
    BY CapacityPositive
  <1> HIDE DEF C
  <1>2. i = C * (i \div C) + (i % C) /\ i \div C \in Int
    BY <1>1, SMT
  <1>3. p = C * (p \div C) + (p % C) /\ p \div C \in Int
    BY <1>1, SMT
  <1>4. SUFFICES ASSUME i % C = p % C PROVE FALSE
    BY DEF Index, C
  <1> DEFINE k == (p \div C) - (i \div C)
  <1>5. k \in Int /\ p - i = C * k
    BY <1>1, <1>2, <1>3, <1>4, SMT
  <1> HIDE DEF k
  <1>6. k <= 0 \/ k >= 1
    BY <1>5, SMT
  <1>7. k <= 0 => C * k <= 0
    BY <1>1, <1>5, SMT
  <1>8. k >= 1 => C * k >= C
    BY <1>1, <1>5, SMT
  <1> QED BY <1>1, <1>5, <1>6, <1>7, <1>8, SMT DEF C

(* A window of the ring without repetitions is no longer than its values allow. *)
LEMMA WindowFits ==
  ASSUME NEW a \in Nat, NEW b \in Nat, NEW S, IsFiniteSet(S), NEW f \in [a .. b - 1 -> S],
         \A i, j \in a .. b - 1 : f[i] = f[j] => i = j
  PROVE  b - a <= Cardinality(S)
  <1>1. /\ IsFiniteSet(a .. b - 1)
        /\ Cardinality(a .. b - 1) = IF a > b - 1 THEN 0 ELSE b - a
    BY FS_Interval, SMT
  <1>2. Cardinality(S) \in Nat
    BY FS_CardinalityType
  <1>3. ~(Cardinality(S) < Cardinality(a .. b - 1))
    BY <1>1, FS_PigeonHole, SMT
  <1> QED BY <1>1, <1>2, <1>3, SMT

(* The slots are as many as the places of the ring. *)
LEMMA SlotsFinite == IsFiniteSet(Slots) /\ Cardinality(Slots) = Capacity
  BY FS_Interval, CapacityPositive, SMT DEF Slots

(***************************************************************************)
(* The inductive invariant.                                                *)
(***************************************************************************)
Bounds ==
  /\ freePushed >= NormalSlots
  /\ NoOverdraft
  /\ reqPoped <= reqPushed
  /\ listener = "requested" => reqPoped < reqPushed

Reserved == freePushed + adminInUse >= freePoped

IInv ==
  /\ QueueTypes
  /\ Bounds
  /\ Reserved
  /\ OneHolderEach
  /\ IsFiniteSet(AdminSids)
  /\ AdminCounted

(* One party holds a slot, so two holders of it are the same. *)
LEMMA OneHolder ==
  ASSUME OneHolderEach, NEW s \in Slots, NEW g \in Holders(s), NEW h \in Holders(s)
  PROVE  g = h
  BY SMT DEF OneHolderEach

(* Handing slot m from the holder g to the holder h keeps slots exclusive. *)
LEMMA HandOver ==
  ASSUME OneHolderEach, NEW m \in Slots, NEW g \in Holders(m), NEW h,
         Holders(m)' = (Holders(m) \ {g}) \cup {h},
         \A s \in Slots : s # m => Holders(s)' = Holders(s)
  PROVE  OneHolderEach'
  <1>1. Slots' = Slots
    BY DEF Slots, Capacity
  <1>2. Holders(m)' = {h}
    BY OneHolder
  <1>3. ASSUME NEW s \in Slots PROVE \E k \in Holders(s)' : Holders(s)' = {k}
    <2>1. CASE s = m
      BY <2>1, <1>2
    <2>2. CASE s # m
      BY <2>2 DEF OneHolderEach
    <2> QED BY <2>1, <2>2
  <1> QED BY <1>1, <1>3 DEF OneHolderEach

(* A step that moves no slot. *)
LEMMA NothingMoved ==
  ASSUME IInv, UNCHANGED <<freeQ, freePushed, freePoped, adminInUse, reqVars, sessions>>,
         \A c \in Clients : pc[c] = "popped" <=> pc'[c] = "popped",
         \A c \in Clients : pc[c] = "popped" => sid'[c] = sid[c],
         listener = "rejecting" <=> listener' = "rejecting",
         listener = "rejecting" => rejected' = rejected
  PROVE  OneHolderEach' /\ SidsOut' = SidsOut
  <1>1. ASSUME NEW s \in Slots PROVE Holders(s)' = Holders(s)
    <2>1. FreeHolders(s)' = FreeHolders(s)
      BY DEF FreeHolders, FreeWindow, Index
    <2>2. ClientHolders(s)' = ClientHolders(s)
      BY DEF ClientHolders
    <2>3. RequestHolders(s)' = RequestHolders(s)
      BY DEF RequestHolders, ReqWindow, Index, reqVars
    <2>4. ListenerHolders(s)' = ListenerHolders(s)
      BY DEF ListenerHolders
    <2>5. SessionHolders(s)' = SessionHolders(s)
      BY DEF SessionHolders
    <2> QED BY <2>1, <2>2, <2>3, <2>4, <2>5 DEF Holders
  <1>2. OneHolderEach'
    BY <1>1 DEF OneHolderEach, IInv
  <1>3. SidsOut' = SidsOut
    <2>1. {sid[c] : c \in {d \in Clients : pc[d] = "popped"}}'
            = {sid[c] : c \in {d \in Clients : pc[d] = "popped"}}
      OBVIOUS
    <2>2. {reqQ[Index(i)] : i \in ReqWindow}' = {reqQ[Index(i)] : i \in ReqWindow}
      BY DEF ReqWindow, Index, reqVars
    <2>3. {r \in {rejected} : listener = "rejecting"}' = {r \in {rejected} : listener = "rejecting"}
      OBVIOUS
    <2>4. {x.sid : x \in sessions}' = {x.sid : x \in sessions}
      OBVIOUS
    <2> QED BY <2>1, <2>2, <2>3, <2>4 DEF SidsOut
  <1> QED BY <1>2, <1>3

(* The sid that a holder other than the free ring stands for. *)
SidOf(h) ==
  CASE h[1] = "client" -> sid[h[2]]
    [] h[1] = "requested" -> reqQ[Index(h[2])]
    [] h[1] = "listener" -> h[2]
    [] h[1] = "session" -> h[2].sid

(* A sid that is out is held by somebody other than the free ring. *)
LEMMA OutHasHolder ==
  ASSUME NEW t \in SidsOut
  PROVE  \E h \in Holders(t.slot) : h[1] # "free" /\ SidOf(h) = t
  <1>1. CASE t \in {sid[c] : c \in {d \in Clients : pc[d] = "popped"}}
    <2>1. PICK c \in Clients : pc[c] = "popped" /\ t = sid[c]
      BY <1>1
    <2>2. <<"client", c>> \in ClientHolders(t.slot)
      BY <2>1 DEF ClientHolders
    <2> QED BY <2>1, <2>2, SMT DEF Holders, SidOf
  <1>2. CASE t \in {reqQ[Index(i)] : i \in ReqWindow}
    <2>1. PICK i \in ReqWindow : t = reqQ[Index(i)]
      BY <1>2
    <2>2. <<"requested", i>> \in RequestHolders(t.slot)
      BY <2>1 DEF RequestHolders
    <2> QED BY <2>1, <2>2, SMT DEF Holders, SidOf
  <1>3. CASE t \in {r \in {rejected} : listener = "rejecting"}
    <2>1. <<"listener", t>> \in ListenerHolders(t.slot)
      BY <1>3 DEF ListenerHolders
    <2> QED BY <2>1, SMT DEF Holders, SidOf
  <1>4. CASE t \in {x.sid : x \in sessions}
    <2>1. PICK x \in sessions : t = x.sid
      BY <1>4
    <2>2. <<"session", x>> \in SessionHolders(t.slot)
      BY <2>1 DEF SessionHolders
    <2> QED BY <2>1, <2>2, SMT DEF Holders, SidOf
  <1> QED BY <1>1, <1>2, <1>3, <1>4 DEF SidsOut

(* Two sids that are out have slots of their own. *)
LEMMA SidsApart ==
  ASSUME OneHolderEach, NEW t \in SidsOut, NEW u \in SidsOut, t.slot \in Slots, t.slot = u.slot
  PROVE  t = u
  <1>1. PICK h \in Holders(t.slot) : SidOf(h) = t
    BY OutHasHolder
  <1>2. PICK g \in Holders(t.slot) : SidOf(g) = u
    BY OutHasHolder
  <1> QED BY <1>1, <1>2, OneHolder

(* The admin requests are no more than the slots that requests have. *)
LEMMA AdminFits ==
  ASSUME OneHolderEach, IsFiniteSet(AdminSids), AdminCounted, NEW S \in SUBSET Slots,
         \A t \in SidsOut : t.slot \in S
  PROVE  adminInUse <= Cardinality(S)
  <1>1. IsFiniteSet(S) /\ Cardinality(S) \in Nat /\ Cardinality(AdminSids) \in Nat
    BY SlotsFinite, FS_Subset, FS_CardinalityType
  <1> DEFINE f == [t \in AdminSids |-> t.slot]
  <1>2. f \in [AdminSids -> S]
    BY DEF AdminSids
  <1>3. \A t, u \in AdminSids : f[t] = f[u] => t = u
    BY SidsApart DEF AdminSids
  <1> HIDE DEF f
  <1>4. ~(Cardinality(S) < Cardinality(AdminSids))
    BY <1>1, <1>2, <1>3, FS_PigeonHole, SMT
  <1> QED BY <1>1, <1>4, SMT DEF AdminCounted

(* The sids that are out are sids. *)
LEMMA OutTypes ==
  ASSUME QueueTypes
  PROVE  SidsOut \subseteq Sids
  <1>1. \A i \in ReqWindow : Index(i) \in Slots
    BY IndexInRing, SMT DEF QueueTypes, ReqWindow
  <1>2. {sid[c] : c \in {d \in Clients : pc[d] = "popped"}} \subseteq Sids
    BY DEF QueueTypes
  <1>3. {reqQ[Index(i)] : i \in ReqWindow} \subseteq Sids
    BY <1>1, SMT DEF QueueTypes
  <1>4. {r \in {rejected} : listener = "rejecting"} \subseteq Sids
    BY DEF QueueTypes
  <1>5. {x.sid : x \in sessions} \subseteq Sids
    BY DEF QueueTypes
  <1> QED BY <1>2, <1>3, <1>4, <1>5 DEF SidsOut

(* Popping the free ring hands the first free slot to the client. *)
LEMMA PopHandsOver ==
  ASSUME IInv, NEW c \in Clients, NEW admin \in BOOLEAN, pc[c] = "idle",
         PopFree(c, admin), freePoped < freePushed + AdminSlots
  PROVE  /\ OneHolderEach'
         /\ sid'[c].admin = admin
         /\ sid'[c] \notin SidsOut
         /\ SidsOut' = SidsOut \cup {sid'[c]}
         /\ adminInUse < Capacity
  <1> USE DEF PopFree, reqVars, serverVars
  <1>0. QueueTypes /\ OneHolderEach /\ Index(freePoped) \in Slots
    BY IndexInRing DEF IInv, QueueTypes
  <1>1. PICK m \in Slots : m = freeQ[Index(freePoped)]
    BY <1>0 DEF QueueTypes
  <1>2. sid'[c].slot = m /\ sid'[c].admin = admin /\ pc'[c] = "popped"
    BY <1>0, <1>1 DEF QueueTypes
  <1>3. \A d \in Clients : d # c => sid'[d] = sid[d] /\ pc'[d] = pc[d]
    BY <1>0 DEF QueueTypes
  <1>4. FreeWindow' = FreeWindow \ {freePoped} /\ freePoped \in FreeWindow
    BY <1>0, SMT DEF QueueTypes, FreeWindow
  <1>5. <<"free", freePoped>> \in Holders(m)
    BY <1>1, <1>4 DEF Holders, FreeHolders
  <1>6. ASSUME NEW s \in Slots
        PROVE  /\ FreeHolders(s)' = FreeHolders(s) \ {<<"free", freePoped>>}
               /\ ClientHolders(s)' = IF s = m THEN ClientHolders(s) \cup {<<"client", c>>}
                                              ELSE ClientHolders(s)
               /\ RequestHolders(s)' = RequestHolders(s)
               /\ ListenerHolders(s)' = ListenerHolders(s)
               /\ SessionHolders(s)' = SessionHolders(s)
    <2>1. FreeHolders(s)' = FreeHolders(s) \ {<<"free", freePoped>>}
      BY <1>4, SMT DEF FreeHolders, Index
    <2>2. ClientHolders(s)' = IF s = m THEN ClientHolders(s) \cup {<<"client", c>>}
                                       ELSE ClientHolders(s)
      BY <1>2, <1>3, SMT DEF ClientHolders
    <2>3. RequestHolders(s)' = RequestHolders(s)
      BY DEF RequestHolders, ReqWindow, Index
    <2>4. ListenerHolders(s)' = ListenerHolders(s) /\ SessionHolders(s)' = SessionHolders(s)
      BY DEF ListenerHolders, SessionHolders
    <2> QED BY <2>1, <2>2, <2>3, <2>4
  <1>7. /\ Holders(m)' = (Holders(m) \ {<<"free", freePoped>>}) \cup {<<"client", c>>}
        /\ \A s \in Slots : s # m => Holders(s)' = Holders(s)
    <2>1. Holders(m)' = (Holders(m) \ {<<"free", freePoped>>}) \cup {<<"client", c>>}
      BY <1>6, SMT DEF Holders, ClientHolders, RequestHolders, ListenerHolders, SessionHolders
    <2>2. ASSUME NEW s \in Slots, s # m PROVE Holders(s)' = Holders(s)
      <3>1. <<"free", freePoped>> \notin FreeHolders(s)
        BY <1>1, <2>2 DEF FreeHolders
      <3> QED BY <3>1, <2>2, <1>6 DEF Holders
    <2> QED BY <2>1, <2>2
  <1>8. OneHolderEach'
    BY <1>0, <1>5, <1>7, HandOver
  <1>9. \A t \in SidsOut : t.slot # m
    <2>1. SUFFICES ASSUME NEW t \in SidsOut, t.slot = m PROVE FALSE
      OBVIOUS
    <2>2. \A h \in Holders(m) : h = <<"free", freePoped>>
      BY <1>0, <1>5, OneHolder
    <2>3. \E h \in Holders(m) : h[1] # "free"
      BY <2>1, OutHasHolder
    <2> QED BY <2>2, <2>3, SMT
  <1>10. SidsOut' = SidsOut \cup {sid'[c]}
    <2>1. {sid[d] : d \in {e \in Clients : pc[e] = "popped"}}'
            = {sid[d] : d \in {e \in Clients : pc[e] = "popped"}} \cup {sid'[c]}
      BY <1>2, <1>3, SMT
    <2>2. {reqQ[Index(i)] : i \in ReqWindow}' = {reqQ[Index(i)] : i \in ReqWindow}
      BY DEF ReqWindow, Index
    <2>3. /\ {r \in {rejected} : listener = "rejecting"}' = {r \in {rejected} : listener = "rejecting"}
          /\ {x.sid : x \in sessions}' = {x.sid : x \in sessions}
      OBVIOUS
    <2> QED BY <2>1, <2>2, <2>3 DEF SidsOut
  <1>11. adminInUse < Capacity
    <2>1. IsFiniteSet(AdminSids) /\ AdminCounted /\ adminInUse \in Nat /\ Capacity \in Nat
      BY <1>0, CapacityPositive, SMT DEF IInv, QueueTypes
    <2>2. \A t \in SidsOut : t.slot \in Slots \ {m}
      BY <1>0, <1>9, OutTypes DEF Sids
    <2>3. adminInUse <= Cardinality(Slots \ {m})
      BY <1>0, <2>1, <2>2, AdminFits
    <2>4. Cardinality(Slots \ {m}) = Capacity - 1
      BY SlotsFinite, FS_RemoveElement
    <2> QED BY <2>1, <2>3, <2>4, SMT
  <1> QED BY <1>2, <1>8, <1>9, <1>10, <1>11

(* The ring of requests takes one more: it wraps but overwrites no entry in use. *)
LEMMA PushRequestHandsOver ==
  ASSUME IInv, NEW c \in Clients, PushRequest(c)
  PROVE  /\ OneHolderEach' /\ SidsOut' = SidsOut
         /\ {reqQ[Index(i)] : i \in ReqWindow}' = {reqQ[Index(i)] : i \in ReqWindow} \cup {sid[c]}
  <1> USE DEF PushRequest, freeVars, serverVars
  <1>0. QueueTypes /\ OneHolderEach /\ reqPoped <= reqPushed
    BY DEF IInv, Bounds
  <1>1. PICK m \in Slots : m = sid[c].slot
    BY <1>0 DEF QueueTypes, Sids
  <1>2. <<"client", c>> \in Holders(m) /\ \A h \in Holders(m) : h = <<"client", c>>
    <2>1. <<"client", c>> \in Holders(m)
      BY <1>1 DEF Holders, ClientHolders
    <2> QED BY <2>1, <1>0, OneHolder
  <1>3. \A i \in ReqWindow : i \in Nat /\ Index(i) \in Slots
    BY <1>0, IndexInRing, SMT DEF QueueTypes, ReqWindow
  <1>4. \A i \in ReqWindow : reqQ[Index(i)].slot \in Slots \ {m}
    <2>1. SUFFICES ASSUME NEW i \in ReqWindow PROVE reqQ[Index(i)].slot \in Slots \ {m}
      OBVIOUS
    <2>2. reqQ[Index(i)].slot \in Slots
      BY <1>0, <1>3 DEF QueueTypes, Sids
    <2>3. <<"requested", i>> \in Holders(reqQ[Index(i)].slot)
      BY DEF Holders, RequestHolders
    <2> QED BY <2>2, <2>3, <1>2
  <1>5. \A i, j \in ReqWindow : reqQ[Index(i)].slot = reqQ[Index(j)].slot => i = j
    <2>1. SUFFICES ASSUME NEW i \in ReqWindow, NEW j \in ReqWindow,
                          reqQ[Index(i)].slot = reqQ[Index(j)].slot
                   PROVE  i = j
      OBVIOUS
    <2>2. PICK s \in Slots : s = reqQ[Index(i)].slot
      BY <1>4
    <2>3. <<"requested", i>> \in Holders(s) /\ <<"requested", j>> \in Holders(s)
      BY <2>1, <2>2 DEF Holders, RequestHolders
    <2>4. <<"requested", i>> = <<"requested", j>>
      BY <2>3, <1>0, OneHolder
    <2> QED BY <2>4
  <1>6. reqPushed - reqPoped < Capacity
    <2> DEFINE f == [i \in reqPoped .. reqPushed - 1 |-> reqQ[Index(i)].slot]
    <2>1. f \in [reqPoped .. reqPushed - 1 -> Slots \ {m}]
      BY <1>4 DEF ReqWindow
    <2>2. \A i, j \in reqPoped .. reqPushed - 1 : f[i] = f[j] => i = j
      BY <1>5 DEF ReqWindow
    <2>3. IsFiniteSet(Slots \ {m}) /\ Cardinality(Slots \ {m}) = Capacity - 1
      BY SlotsFinite, FS_RemoveElement
    <2>4. reqPushed \in Nat /\ reqPoped \in Nat
      BY <1>0 DEF QueueTypes
    <2> HIDE DEF f
    <2>5. reqPushed - reqPoped <= Cardinality(Slots \ {m})
      BY ONLY <2>1, <2>2, <2>3, <2>4, WindowFits
    <2> QED BY <2>3, <2>4, <2>5, CapacityPositive, SMT
  <1>7. \A i \in ReqWindow : Index(i) # Index(reqPushed)
    BY <1>0, <1>6, IndexDistinct, CapacityPositive, SMT DEF QueueTypes, ReqWindow
  <1>8. /\ ReqWindow' = ReqWindow \cup {reqPushed} /\ reqPushed \notin ReqWindow
        /\ reqQ'[Index(reqPushed)] = sid[c]
        /\ \A i \in ReqWindow : reqQ'[Index(i)] = reqQ[Index(i)]
    <2>1. ReqWindow' = ReqWindow \cup {reqPushed} /\ reqPushed \notin ReqWindow
      BY <1>0, SMT DEF QueueTypes, ReqWindow
    <2>2. Index(reqPushed) \in Slots
      BY <1>0, IndexInRing DEF QueueTypes
    <2> QED BY <2>1, <2>2, <1>0, <1>3, <1>7 DEF QueueTypes
  <1>9. \A d \in Clients : pc'[d] = IF d = c THEN "requested" ELSE pc[d]
    BY <1>0 DEF QueueTypes
  <1>10. ASSUME NEW s \in Slots
         PROVE  /\ FreeHolders(s)' = FreeHolders(s)
                /\ ClientHolders(s)' = ClientHolders(s) \ {<<"client", c>>}
                /\ RequestHolders(s)' = IF s = m THEN RequestHolders(s) \cup {<<"requested", reqPushed>>}
                                                 ELSE RequestHolders(s)
                /\ ListenerHolders(s)' = ListenerHolders(s)
                /\ SessionHolders(s)' = SessionHolders(s)
    <2>1. FreeHolders(s)' = FreeHolders(s)
      BY DEF FreeHolders, FreeWindow, Index
    <2>2. ClientHolders(s)' = ClientHolders(s) \ {<<"client", c>>}
      BY <1>9, SMT DEF ClientHolders
    <2>3. RequestHolders(s)' = IF s = m THEN RequestHolders(s) \cup {<<"requested", reqPushed>>}
                                        ELSE RequestHolders(s)
      <3>1. \A i \in ReqWindow' : Index(i)' = Index(i)
        BY DEF Index
      <3> QED BY <1>1, <1>8, <3>1 DEF RequestHolders
    <2>4. ListenerHolders(s)' = ListenerHolders(s) /\ SessionHolders(s)' = SessionHolders(s)
      BY DEF ListenerHolders, SessionHolders
    <2> QED BY <2>1, <2>2, <2>3, <2>4
  <1>11. /\ Holders(m)' = (Holders(m) \ {<<"client", c>>}) \cup {<<"requested", reqPushed>>}
         /\ \A s \in Slots : s # m => Holders(s)' = Holders(s)
    <2>1. Holders(m)' = (Holders(m) \ {<<"client", c>>}) \cup {<<"requested", reqPushed>>}
      BY <1>10, SMT DEF Holders, FreeHolders, RequestHolders, ListenerHolders, SessionHolders
    <2>2. ASSUME NEW s \in Slots, s # m PROVE Holders(s)' = Holders(s)
      <3>1. <<"client", c>> \notin ClientHolders(s)
        BY <1>1, <2>2 DEF ClientHolders
      <3> QED BY <3>1, <2>2, <1>10 DEF Holders
    <2> QED BY <2>1, <2>2
  <1>12. OneHolderEach'
    BY <1>0, <1>2, <1>11, HandOver
  <1>13. {reqQ[Index(i)] : i \in ReqWindow}' = {reqQ[Index(i)] : i \in ReqWindow} \cup {sid[c]}
    BY <1>8 DEF Index
  <1>14. SidsOut' = SidsOut
    <2>1. {sid[d] : d \in {e \in Clients : pc[e] = "popped"}}
            = {sid[d] : d \in {e \in Clients : pc[e] = "popped"}}' \cup {sid[c]}
      BY <1>9
    <2>2. /\ {r \in {rejected} : listener = "rejecting"}' = {r \in {rejected} : listener = "rejecting"}
          /\ {x.sid : x \in sessions}' = {x.sid : x \in sessions}
      OBVIOUS
    <2> QED BY <1>13, <2>1, <2>2 DEF SidsOut
  <1> QED BY <1>12, <1>13, <1>14

(* What accept and reject do to the ring of requests. *)
LEMMA PopRequest ==
  ASSUME IInv, listener = "requested", reqPoped' = reqPoped + 1, UNCHANGED <<reqQ, reqPushed>>
  PROVE  /\ reqPoped \in ReqWindow /\ ReqWindow' = ReqWindow \ {reqPoped}
         /\ Front \in Sids
         /\ <<"requested", reqPoped>> \in Holders(Front.slot)
         /\ \A s \in Slots : RequestHolders(s)' = RequestHolders(s) \ {<<"requested", reqPoped>>}
         /\ {reqQ[Index(i)] : i \in ReqWindow}
              = {reqQ[Index(i)] : i \in ReqWindow}' \cup {Front}
  <1>0. QueueTypes /\ reqPoped < reqPushed
    BY DEF IInv, Bounds
  <1>1. reqPoped \in ReqWindow /\ ReqWindow' = ReqWindow \ {reqPoped}
    BY <1>0, SMT DEF QueueTypes, ReqWindow
  <1>2. Front \in Sids
    BY <1>0, IndexInRing DEF QueueTypes, Front
  <1>3. <<"requested", reqPoped>> \in Holders(Front.slot)
    BY <1>1 DEF Holders, RequestHolders, Front
  <1>4. ASSUME NEW s \in Slots
        PROVE  RequestHolders(s)' = RequestHolders(s) \ {<<"requested", reqPoped>>}
    BY <1>1, SMT DEF RequestHolders, Index
  <1>5. {reqQ[Index(i)] : i \in ReqWindow} = {reqQ[Index(i)] : i \in ReqWindow}' \cup {Front}
    BY <1>1 DEF Front, Index
  <1> QED BY <1>1, <1>2, <1>3, <1>4, <1>5

(* accept hands the slot from the ring of requests to the new session. *)
LEMMA AcceptHandsOver ==
  ASSUME IInv, Accept
  PROVE  OneHolderEach' /\ SidsOut' = SidsOut
  <1> USE DEF Accept, freeVars, clientVars
  <1>0. QueueTypes /\ OneHolderEach
    BY DEF IInv
  <1>1. /\ Front \in Sids
        /\ <<"requested", reqPoped>> \in Holders(Front.slot)
        /\ \A s \in Slots : RequestHolders(s)' = RequestHolders(s) \ {<<"requested", reqPoped>>}
        /\ {reqQ[Index(i)] : i \in ReqWindow}
             = {reqQ[Index(i)] : i \in ReqWindow}' \cup {Front}
    BY PopRequest
  <1>2. PICK m \in Slots : m = Front.slot
    BY <1>1 DEF Sids
  <1>3. PICK x : x = [id |-> nextSession, sid |-> Front]
    OBVIOUS
  <1>4. sessions' = sessions \cup {x} /\ x.sid = Front /\ x.sid.slot = m
    BY <1>2, <1>3
  <1>5. ASSUME NEW s \in Slots
        PROVE  /\ FreeHolders(s)' = FreeHolders(s)
               /\ ClientHolders(s)' = ClientHolders(s)
               /\ ListenerHolders(s)' = ListenerHolders(s)
               /\ SessionHolders(s)' = IF s = m THEN SessionHolders(s) \cup {<<"session", x>>}
                                                ELSE SessionHolders(s)
    <2>1. FreeHolders(s)' = FreeHolders(s) /\ ClientHolders(s)' = ClientHolders(s)
      BY DEF FreeHolders, FreeWindow, Index, ClientHolders
    <2>2. ListenerHolders(s)' = {} /\ ListenerHolders(s) = {}
      BY DEF ListenerHolders
    <2>3. SessionHolders(s)' = IF s = m THEN SessionHolders(s) \cup {<<"session", x>>}
                                        ELSE SessionHolders(s)
      BY <1>4 DEF SessionHolders
    <2> QED BY <2>1, <2>2, <2>3
  <1>6. /\ Holders(m)' = (Holders(m) \ {<<"requested", reqPoped>>}) \cup {<<"session", x>>}
        /\ \A s \in Slots : s # m => Holders(s)' = Holders(s)
    <2>1. Holders(m)' = (Holders(m) \ {<<"requested", reqPoped>>}) \cup {<<"session", x>>}
      <3>1. /\ FreeHolders(m)' = FreeHolders(m)
            /\ ClientHolders(m)' = ClientHolders(m)
            /\ RequestHolders(m)' = RequestHolders(m) \ {<<"requested", reqPoped>>}
            /\ ListenerHolders(m)' = ListenerHolders(m)
            /\ SessionHolders(m)' = SessionHolders(m) \cup {<<"session", x>>}
        BY <1>1, <1>5
      <3>2. <<"requested", reqPoped>> \notin FreeHolders(m) \cup ClientHolders(m) \cup ListenerHolders(m) \cup SessionHolders(m)
        BY DEF FreeHolders, ClientHolders, ListenerHolders, SessionHolders
      <3> QED BY ONLY <3>1, <3>2 DEF Holders
    <2>2. ASSUME NEW s \in Slots, s # m PROVE Holders(s)' = Holders(s)
      <3>1. <<"requested", reqPoped>> \notin RequestHolders(s)
        BY <1>2, <2>2 DEF RequestHolders, Front
      <3>2. /\ FreeHolders(s)' = FreeHolders(s)
            /\ ClientHolders(s)' = ClientHolders(s)
            /\ RequestHolders(s)' = RequestHolders(s)
            /\ ListenerHolders(s)' = ListenerHolders(s)
            /\ SessionHolders(s)' = SessionHolders(s)
        <4>1. RequestHolders(s)' = RequestHolders(s)
          <5>1. RequestHolders(s)' = RequestHolders(s) \ {<<"requested", reqPoped>>}
            BY <1>1
          <5> QED BY ONLY <3>1, <5>1
        <4>2. /\ FreeHolders(s)' = FreeHolders(s) /\ ClientHolders(s)' = ClientHolders(s)
              /\ ListenerHolders(s)' = ListenerHolders(s) /\ SessionHolders(s)' = SessionHolders(s)
          BY <1>5, <2>2
        <4> QED BY <4>1, <4>2
      <3> QED BY ONLY <3>2 DEF Holders
    <2> QED BY <2>1, <2>2
  <1>7. OneHolderEach'
    BY <1>0, <1>1, <1>2, <1>6, HandOver
  <1>8. SidsOut' = SidsOut
    <2>1. {y.sid : y \in sessions}' = {y.sid : y \in sessions} \cup {Front}
      BY <1>4
    <2>2. /\ {r \in {rejected} : listener = "rejecting"} = {}
          /\ {r \in {rejected} : listener = "rejecting"}' = {}
      OBVIOUS
    <2>3. {sid[d] : d \in {e \in Clients : pc[e] = "popped"}}'
            = {sid[d] : d \in {e \in Clients : pc[e] = "popped"}}
      OBVIOUS
    <2> QED BY <1>1, <2>1, <2>2, <2>3 DEF SidsOut
  <1> QED BY <1>7, <1>8

(* reject first takes the slot from the ring of requests. *)
LEMMA RejectHandsOver ==
  ASSUME IInv, Reject
  PROVE  OneHolderEach' /\ SidsOut' = SidsOut
  <1> USE DEF Reject, freeVars, clientVars
  <1>0. QueueTypes /\ OneHolderEach
    BY DEF IInv
  <1>1. /\ Front \in Sids
        /\ <<"requested", reqPoped>> \in Holders(Front.slot)
        /\ \A s \in Slots : RequestHolders(s)' = RequestHolders(s) \ {<<"requested", reqPoped>>}
        /\ {reqQ[Index(i)] : i \in ReqWindow}
             = {reqQ[Index(i)] : i \in ReqWindow}' \cup {Front}
    BY PopRequest
  <1>2. PICK t \in Sids : t = Front
    BY <1>1
  <1>3. PICK m \in Slots : m = t.slot
    BY <1>1, <1>2 DEF Sids
  <1>4. ASSUME NEW s \in Slots
        PROVE  /\ FreeHolders(s)' = FreeHolders(s)
               /\ ClientHolders(s)' = ClientHolders(s)
               /\ ListenerHolders(s) = {}
               /\ ListenerHolders(s)' = IF s = m THEN {<<"listener", t>>} ELSE {}
               /\ SessionHolders(s)' = SessionHolders(s)
    <2>1. FreeHolders(s)' = FreeHolders(s) /\ ClientHolders(s)' = ClientHolders(s)
      BY DEF FreeHolders, FreeWindow, Index, ClientHolders
    <2>2. ListenerHolders(s) = {}
      BY DEF ListenerHolders
    <2>3. ListenerHolders(s)' = IF s = m THEN {<<"listener", t>>} ELSE {}
      BY <1>2, <1>3 DEF ListenerHolders
    <2>4. SessionHolders(s)' = SessionHolders(s)
      BY DEF SessionHolders
    <2> QED BY <2>1, <2>2, <2>3, <2>4
  <1>5. /\ Holders(m)' = (Holders(m) \ {<<"requested", reqPoped>>}) \cup {<<"listener", t>>}
        /\ \A s \in Slots : s # m => Holders(s)' = Holders(s)
    <2>1. Holders(m)' = (Holders(m) \ {<<"requested", reqPoped>>}) \cup {<<"listener", t>>}
      <3>1. /\ FreeHolders(m)' = FreeHolders(m)
            /\ ClientHolders(m)' = ClientHolders(m)
            /\ RequestHolders(m)' = RequestHolders(m) \ {<<"requested", reqPoped>>}
            /\ ListenerHolders(m) = {} /\ ListenerHolders(m)' = {<<"listener", t>>}
            /\ SessionHolders(m)' = SessionHolders(m)
        BY <1>1, <1>4
      <3>2. <<"requested", reqPoped>> \notin FreeHolders(m) \cup ClientHolders(m) \cup SessionHolders(m)
        BY DEF FreeHolders, ClientHolders, SessionHolders
      <3> QED BY ONLY <3>1, <3>2 DEF Holders
    <2>2. ASSUME NEW s \in Slots, s # m PROVE Holders(s)' = Holders(s)
      <3>1. <<"requested", reqPoped>> \notin RequestHolders(s)
        BY <1>2, <1>3, <2>2 DEF RequestHolders, Front
      <3>2. /\ FreeHolders(s)' = FreeHolders(s)
            /\ ClientHolders(s)' = ClientHolders(s)
            /\ RequestHolders(s)' = RequestHolders(s)
            /\ ListenerHolders(s) = {} /\ ListenerHolders(s)' = {}
            /\ SessionHolders(s)' = SessionHolders(s)
        <4>1. RequestHolders(s)' = RequestHolders(s)
          <5>1. RequestHolders(s)' = RequestHolders(s) \ {<<"requested", reqPoped>>}
            BY <1>1
          <5> QED BY ONLY <3>1, <5>1
        <4>2. /\ FreeHolders(s)' = FreeHolders(s) /\ ClientHolders(s)' = ClientHolders(s)
              /\ ListenerHolders(s) = {} /\ ListenerHolders(s)' = {} /\ SessionHolders(s)' = SessionHolders(s)
          BY <1>4, <2>2
        <4> QED BY <4>1, <4>2
      <3> QED BY ONLY <3>2 DEF Holders
    <2> QED BY <2>1, <2>2
  <1>6. OneHolderEach'
    <2>1. <<"requested", reqPoped>> \in Holders(m)
      BY <1>1, <1>2, <1>3
    <2> QED BY <1>0, <1>5, <2>1, HandOver
  <1>7. SidsOut' = SidsOut
    <2>1. /\ {r \in {rejected} : listener = "rejecting"} = {}
          /\ {r \in {rejected} : listener = "rejecting"}' = {Front}
      OBVIOUS
    <2>2. /\ {sid[d] : d \in {e \in Clients : pc[e] = "popped"}}'
               = {sid[d] : d \in {e \in Clients : pc[e] = "popped"}}
          /\ {y.sid : y \in sessions}' = {y.sid : y \in sessions}
      OBVIOUS
    <2> QED BY <1>1, <2>1, <2>2 DEF SidsOut
  <1> QED BY <1>6, <1>7

(* The free ring takes a slot back: it wraps but overwrites no free slot. *)
LEMMA PushFreeRing ==
  ASSUME IInv, NEW t \in Sids, PushFree(t), FreeHolders(t.slot) = {}
  PROVE  \A s \in Slots :
           FreeHolders(s)' = IF s = t.slot
                             THEN FreeHolders(s) \cup {<<"free", freePushed + AdminSlots>>}
                             ELSE FreeHolders(s)
  <1> USE DEF PushFree
  <1> DEFINE p == freePushed + AdminSlots
  <1>0. QueueTypes /\ OneHolderEach /\ freePoped <= p /\ p \in Nat
    BY SMT DEF IInv, Bounds, NoOverdraft, QueueTypes
  <1>1. \A i \in FreeWindow : i \in Nat /\ Index(i) \in Slots
    BY <1>0, IndexInRing, SMT DEF QueueTypes, FreeWindow
  <1>2. \A i \in FreeWindow : freeQ[Index(i)] \in Slots \ {t.slot}
    <2>1. SUFFICES ASSUME NEW i \in FreeWindow PROVE freeQ[Index(i)] \in Slots \ {t.slot}
      OBVIOUS
    <2>2. freeQ[Index(i)] \in Slots
      BY <1>0, <1>1 DEF QueueTypes
    <2>3. freeQ[Index(i)] = t.slot => <<"free", i>> \in FreeHolders(t.slot)
      BY DEF FreeHolders
    <2> QED BY <2>2, <2>3
  <1>3. \A i, j \in FreeWindow : freeQ[Index(i)] = freeQ[Index(j)] => i = j
    <2>1. SUFFICES ASSUME NEW i \in FreeWindow, NEW j \in FreeWindow,
                          freeQ[Index(i)] = freeQ[Index(j)]
                   PROVE  i = j
      OBVIOUS
    <2>2. PICK s \in Slots : s = freeQ[Index(i)]
      BY <1>2
    <2>3. <<"free", i>> \in Holders(s) /\ <<"free", j>> \in Holders(s)
      BY <2>1, <2>2 DEF Holders, FreeHolders
    <2>4. <<"free", i>> = <<"free", j>>
      BY <2>3, <1>0, OneHolder
    <2> QED BY <2>4
  <1>4. p - freePoped < Capacity
    <2> DEFINE f == [i \in freePoped .. p - 1 |-> freeQ[Index(i)]]
               S == Slots \ {t.slot}
    <2>0. FreeWindow = freePoped .. p - 1
      BY <1>0, SMT DEF FreeWindow, QueueTypes
    <2>1. f \in [freePoped .. p - 1 -> S]
      BY <1>2, <2>0
    <2>2. \A i, j \in freePoped .. p - 1 : f[i] = f[j] => i = j
      BY <1>3, <2>0
    <2>3. IsFiniteSet(S) /\ Cardinality(S) = Capacity - 1
      BY SlotsFinite, FS_RemoveElement DEF Sids
    <2>4. p \in Nat /\ freePoped \in Nat
      BY <1>0 DEF QueueTypes
    <2> HIDE DEF f, p, S
    <2>5. p - freePoped <= Cardinality(S)
      BY ONLY <2>1, <2>2, <2>3, <2>4, WindowFits
    <2> QED BY <2>3, <2>4, <2>5, CapacityPositive, SMT
  <1>5. \A i \in FreeWindow : Index(i) # Index(p)
    BY <1>0, <1>4, IndexDistinct, CapacityPositive, SMT DEF QueueTypes, FreeWindow
  <1>6. /\ FreeWindow' = FreeWindow \cup {p} /\ p \notin FreeWindow
        /\ freeQ'[Index(p)] = t.slot
        /\ \A i \in FreeWindow : freeQ'[Index(i)] = freeQ[Index(i)]
    <2>1. FreeWindow' = FreeWindow \cup {p} /\ p \notin FreeWindow
      BY <1>0, SMT DEF QueueTypes, FreeWindow
    <2>2. Index(p) \in Slots
      BY <1>0, IndexInRing
    <2> QED BY <2>1, <2>2, <1>0, <1>1, <1>5 DEF QueueTypes
  <1>7. \A i \in FreeWindow' : Index(i)' = Index(i)
    BY DEF Index
  <1> HIDE DEF p
  <1>8. ASSUME NEW s \in Slots
        PROVE  FreeHolders(s)' = IF s = t.slot THEN FreeHolders(s) \cup {<<"free", p>>}
                                               ELSE FreeHolders(s)
    BY <1>6, <1>7 DEF FreeHolders
  <1> QED BY <1>8 DEF p

(* The end of reject puts the slot back. *)
LEMMA RejectPushHandsOver ==
  ASSUME IInv, RejectPush
  PROVE  OneHolderEach' /\ rejected \in SidsOut /\ SidsOut' = SidsOut \ {rejected}
  <1> USE DEF RejectPush, reqVars, clientVars
  <1>0. QueueTypes /\ OneHolderEach
    BY DEF IInv
  <1>1. PICK t \in Sids : t = rejected
    BY <1>0 DEF QueueTypes
  <1>2. PICK m \in Slots : m = t.slot
    BY <1>1 DEF Sids
  <1>3. /\ <<"listener", t>> \in Holders(m)
        /\ \A h \in Holders(m) : h = <<"listener", t>>
    <2>1. <<"listener", t>> \in Holders(m)
      BY <1>1, <1>2 DEF Holders, ListenerHolders
    <2> QED BY <2>1, <1>0, OneHolder
  <1>4. FreeHolders(m) = {} /\ ClientHolders(m) = {} /\ RequestHolders(m) = {} /\ SessionHolders(m) = {}
    BY <1>3 DEF Holders, FreeHolders, ClientHolders, RequestHolders, SessionHolders
  <1> DEFINE p == freePushed + AdminSlots
  <1>5. \A s \in Slots : FreeHolders(s)' = IF s = m THEN FreeHolders(s) \cup {<<"free", p>>}
                                                    ELSE FreeHolders(s)
    BY <1>1, <1>2, <1>4, PushFreeRing
  <1> HIDE DEF p
  <1>6. ASSUME NEW s \in Slots
        PROVE  /\ ClientHolders(s)' = ClientHolders(s)
               /\ RequestHolders(s)' = RequestHolders(s)
               /\ ListenerHolders(s)' = {}
               /\ ListenerHolders(s) = IF s = m THEN {<<"listener", t>>} ELSE {}
               /\ SessionHolders(s)' = SessionHolders(s)
    <2>1. ClientHolders(s)' = ClientHolders(s) /\ RequestHolders(s)' = RequestHolders(s)
      BY DEF ClientHolders, RequestHolders, ReqWindow, Index
    <2>2. ListenerHolders(s)' = {} /\ SessionHolders(s)' = SessionHolders(s)
      BY DEF ListenerHolders, SessionHolders
    <2>3. ListenerHolders(s) = IF s = m THEN {<<"listener", t>>} ELSE {}
      BY <1>1, <1>2 DEF ListenerHolders
    <2> QED BY <2>1, <2>2, <2>3
  <1>7. /\ Holders(m)' = (Holders(m) \ {<<"listener", t>>}) \cup {<<"free", p>>}
        /\ \A s \in Slots : s # m => Holders(s)' = Holders(s)
    BY <1>4, <1>5, <1>6, SMT DEF Holders
  <1>8. OneHolderEach'
    BY <1>0, <1>3, <1>7, HandOver
  <1>9. /\ t \notin {sid[d] : d \in {e \in Clients : pc[e] = "popped"}}
        /\ t \notin {reqQ[Index(i)] : i \in ReqWindow}
        /\ t \notin {y.sid : y \in sessions}
    <2>1. ASSUME NEW d \in Clients, pc[d] = "popped", t = sid[d] PROVE FALSE
      <3>1. <<"client", d>> \in ClientHolders(m)
        BY <1>2, <2>1 DEF ClientHolders
      <3> QED BY <1>4, <3>1
    <2>2. ASSUME NEW i \in ReqWindow, t = reqQ[Index(i)] PROVE FALSE
      <3>1. <<"requested", i>> \in RequestHolders(m)
        BY <1>2, <2>2 DEF RequestHolders
      <3> QED BY <1>4, <3>1
    <2>3. ASSUME NEW y \in sessions, t = y.sid PROVE FALSE
      <3>1. <<"session", y>> \in SessionHolders(m)
        BY <1>2, <2>3 DEF SessionHolders
      <3> QED BY <1>4, <3>1
    <2> QED BY <2>1, <2>2, <2>3
  <1>10. rejected \in SidsOut /\ SidsOut' = SidsOut \ {rejected}
    <2>1. /\ {r \in {rejected} : listener = "rejecting"} = {t}
          /\ {r \in {rejected} : listener = "rejecting"}' = {}
      BY <1>1
    <2>2. /\ {sid[d] : d \in {e \in Clients : pc[e] = "popped"}}'
               = {sid[d] : d \in {e \in Clients : pc[e] = "popped"}}
          /\ {reqQ[Index(i)] : i \in ReqWindow}' = {reqQ[Index(i)] : i \in ReqWindow}
          /\ {y.sid : y \in sessions}' = {y.sid : y \in sessions}
      BY DEF ReqWindow, Index
    <2> QED BY <1>1, <1>9, <2>1, <2>2 DEF SidsOut
  <1> QED BY <1>8, <1>10

(* disconnect puts the slot of a session back. *)
LEMMA DisconnectHandsOver ==
  ASSUME IInv, NEW x \in sessions, Disconnect(x)
  PROVE  OneHolderEach' /\ x.sid \in SidsOut /\ SidsOut' = SidsOut \ {x.sid}
  <1> USE DEF Disconnect, reqVars, clientVars
  <1>0. QueueTypes /\ OneHolderEach
    BY DEF IInv
  <1>1. PICK t \in Sids : t = x.sid
    BY <1>0 DEF QueueTypes
  <1>2. PICK m \in Slots : m = t.slot
    BY <1>1 DEF Sids
  <1>3. /\ <<"session", x>> \in Holders(m)
        /\ \A h \in Holders(m) : h = <<"session", x>>
    <2>1. <<"session", x>> \in Holders(m)
      BY <1>1, <1>2 DEF Holders, SessionHolders
    <2> QED BY <2>1, <1>0, OneHolder
  <1>4. FreeHolders(m) = {} /\ ClientHolders(m) = {} /\ RequestHolders(m) = {} /\ ListenerHolders(m) = {}
    BY <1>3 DEF Holders, FreeHolders, ClientHolders, RequestHolders, ListenerHolders
  <1> DEFINE p == freePushed + AdminSlots
  <1>5. \A s \in Slots : FreeHolders(s)' = IF s = m THEN FreeHolders(s) \cup {<<"free", p>>}
                                                    ELSE FreeHolders(s)
    BY <1>1, <1>2, <1>4, PushFreeRing
  <1> HIDE DEF p
  <1>6. ASSUME NEW s \in Slots
        PROVE  /\ ClientHolders(s)' = ClientHolders(s)
               /\ RequestHolders(s)' = RequestHolders(s)
               /\ ListenerHolders(s)' = ListenerHolders(s)
               /\ SessionHolders(s)' = SessionHolders(s) \ {<<"session", x>>}
    <2>1. ClientHolders(s)' = ClientHolders(s) /\ RequestHolders(s)' = RequestHolders(s)
      BY DEF ClientHolders, RequestHolders, ReqWindow, Index
    <2>2. ListenerHolders(s)' = ListenerHolders(s)
      BY DEF ListenerHolders
    <2>3. SessionHolders(s)' = SessionHolders(s) \ {<<"session", x>>}
      BY SMT DEF SessionHolders
    <2> QED BY <2>1, <2>2, <2>3
  <1>7. /\ Holders(m)' = (Holders(m) \ {<<"session", x>>}) \cup {<<"free", p>>}
        /\ \A s \in Slots : s # m => Holders(s)' = Holders(s)
    <2>1. Holders(m)' = (Holders(m) \ {<<"session", x>>}) \cup {<<"free", p>>}
      <3>1. /\ FreeHolders(m)' = {<<"free", p>>} /\ ClientHolders(m)' = {}
            /\ RequestHolders(m)' = {} /\ ListenerHolders(m)' = {}
        BY <1>4, <1>5, <1>6
      <3>2. SessionHolders(m)' = SessionHolders(m) \ {<<"session", x>>}
        BY <1>6
      <3> QED BY ONLY <1>4, <3>1, <3>2 DEF Holders
    <2>2. ASSUME NEW s \in Slots, s # m PROVE Holders(s)' = Holders(s)
      <3>1. <<"session", x>> \notin SessionHolders(s)
        BY <1>1, <1>2, <2>2 DEF SessionHolders
      <3> QED BY <3>1, <2>2, <1>5, <1>6 DEF Holders
    <2> QED BY <2>1, <2>2
  <1>8. OneHolderEach'
    BY <1>0, <1>3, <1>7, HandOver
  <1>9. /\ t \notin {sid[d] : d \in {e \in Clients : pc[e] = "popped"}}
        /\ t \notin {reqQ[Index(i)] : i \in ReqWindow}
        /\ t \notin {r \in {rejected} : listener = "rejecting"}
    <2>1. ASSUME NEW d \in Clients, pc[d] = "popped", t = sid[d] PROVE FALSE
      <3>1. <<"client", d>> \in ClientHolders(m)
        BY <1>2, <2>1 DEF ClientHolders
      <3> QED BY <3>1, <1>4
    <2>2. t \notin {reqQ[Index(i)] : i \in ReqWindow}
      BY <1>2, <1>4 DEF RequestHolders
    <2>3. t \in {r \in {rejected} : listener = "rejecting"} => <<"listener", t>> \in ListenerHolders(m)
      BY <1>2 DEF ListenerHolders
    <2> QED BY <1>4, <2>1, <2>2, <2>3
  <1>10. \A y \in sessions : y.sid = t => y = x
    <2>1. SUFFICES ASSUME NEW y \in sessions, y.sid = t PROVE y = x
      OBVIOUS
    <2>2. <<"session", y>> \in Holders(m)
      BY <2>1, <1>2 DEF Holders, SessionHolders
    <2>3. <<"session", y>> = <<"session", x>>
      BY <2>2, <1>3
    <2> QED BY <2>3
  <1>11. x.sid \in SidsOut /\ SidsOut' = SidsOut \ {x.sid}
    <2>1. {y.sid : y \in sessions}' = {y.sid : y \in sessions} \ {t} /\ t \in {y.sid : y \in sessions}
      BY <1>1, <1>10
    <2>2. /\ {sid[d] : d \in {e \in Clients : pc[e] = "popped"}}'
               = {sid[d] : d \in {e \in Clients : pc[e] = "popped"}}
          /\ {reqQ[Index(i)] : i \in ReqWindow}' = {reqQ[Index(i)] : i \in ReqWindow}
          /\ {r \in {rejected} : listener = "rejecting"}' = {r \in {rejected} : listener = "rejecting"}
      BY DEF ReqWindow, Index
    <2> QED BY <1>1, <1>9, <2>1, <2>2 DEF SidsOut
  <1> QED BY <1>8, <1>11

(***************************************************************************)
(* The number of admin slots in use is kept by the three kinds of step.    *)
(***************************************************************************)
LEMMA AdminKept ==
  ASSUME IsFiniteSet(AdminSids), AdminCounted, SidsOut' = SidsOut, UNCHANGED adminInUse
  PROVE  IsFiniteSet(AdminSids)' /\ AdminCounted'
  <1>1. AdminSids' = AdminSids
    BY DEF AdminSids
  <1> QED BY <1>1 DEF AdminCounted

(* A pop adds its sid to those counted. *)
LEMMA AdminTaken ==
  ASSUME IsFiniteSet(AdminSids), AdminCounted, NEW t, t.admin \in BOOLEAN,
         t \notin SidsOut, SidsOut' = SidsOut \cup {t},
         adminInUse' = IF t.admin THEN adminInUse + 1 ELSE adminInUse
  PROVE  IsFiniteSet(AdminSids)' /\ AdminCounted'
  <1>1. CASE t.admin
    <2>1. AdminSids' = AdminSids \cup {t} /\ t \notin AdminSids
      BY <1>1 DEF AdminSids
    <2> QED BY <1>1, <2>1, FS_AddElement DEF AdminCounted
  <1>2. CASE ~t.admin
    <2>1. AdminSids' = AdminSids
      BY <1>2 DEF AdminSids
    <2> QED BY <1>2, <2>1 DEF AdminCounted
  <1> QED BY <1>1, <1>2

(* A push of the free ring takes one sid off the count. *)
LEMMA AdminReturned ==
  ASSUME IsFiniteSet(AdminSids), AdminCounted, adminInUse \in 0 .. 255, NEW t \in Sids,
         t \in SidsOut, SidsOut' = SidsOut \ {t}, PushFree(t)
  PROVE  /\ IsFiniteSet(AdminSids)' /\ AdminCounted'
         /\ adminInUse' \in 0 .. 255
         /\ adminInUse' = adminInUse \/ adminInUse' = adminInUse - 1
  <1>0. Cardinality(AdminSids) \in Nat /\ t.admin \in BOOLEAN
    BY FS_CardinalityType DEF Sids
  <1>1. CASE t.admin
    <2>1. AdminSids' = AdminSids \ {t} /\ t \in AdminSids
      BY <1>1 DEF AdminSids
    <2>2. Cardinality(AdminSids) > 0
      BY <1>0, <2>1, FS_EmptySet, SMT
    <2>3. \A n \in 1 .. 255 : (n - 1) % 256 = n - 1 /\ n - 1 \in 0 .. 255
      BY SMT
    <2>4. adminInUse \in 1 .. 255
      BY <1>0, <2>2, SMT DEF AdminCounted
    <2>5. adminInUse' = adminInUse - 1 /\ adminInUse' \in 0 .. 255
      BY <1>1, <2>3, <2>4 DEF PushFree
    <2>6. Cardinality(AdminSids)' = Cardinality(AdminSids) - 1 /\ IsFiniteSet(AdminSids)'
      BY <2>1, FS_RemoveElement
    <2> QED BY <2>5, <2>6 DEF AdminCounted
  <1>2. CASE ~t.admin
    <2>1. AdminSids' = AdminSids
      BY <1>2 DEF AdminSids
    <2>2. adminInUse' = adminInUse
      BY <1>2 DEF PushFree
    <2> QED BY <1>0, <2>1, <2>2, SMT DEF AdminCounted
  <1> QED BY <1>0, <1>1, <1>2

(***************************************************************************)
(* The invariant is inductive up to the first overdraft.                   *)
(***************************************************************************)
LEMMA InitIInv == Init => IInv
  <1> SUFFICES ASSUME Init PROVE IInv
    OBVIOUS
  <1> USE DEF Init
  <1>0. Capacity \in Nat /\ Capacity > 0 /\ AdminSlots \in Nat /\ Capacity - AdminSlots = NormalSlots
    BY SMT DEF Capacity
  <1>1. QueueTypes
    <2>1. NoSid \in Sids
      BY <1>0, SMT DEF NoSid, Sids, Slots
    <2>2. freeQ \in [Slots -> Slots] /\ freePushed \in Nat /\ freePoped \in Nat /\ adminInUse \in 0 .. 255
      BY <1>0, SMT
    <2>3. element \in [Slots -> Nat \cup {Refused}] /\ got \in [Clients -> Nat \cup {Refused}]
      BY DEF Unanswered
    <2> QED BY <2>1, <2>2, <2>3 DEF QueueTypes
  <1>2. Bounds /\ Reserved
    BY <1>0, SMT DEF Bounds, NoOverdraft, Reserved
  <1>3. FreeWindow = Slots /\ ReqWindow = {}
    BY <1>0, SMT DEF FreeWindow, ReqWindow, Slots
  <1>4. \A s \in Slots : Index(s) = s
    <2> DEFINE C == Capacity
    <2> HIDE DEF C
    <2>1. \A s \in 0 .. C - 1 : s % C = s
      BY <1>0, SMT DEF C
    <2> QED BY <2>1 DEF C, Index, Slots
  <1>5. OneHolderEach
    <2>1. SUFFICES ASSUME NEW s \in Slots PROVE Holders(s) = {<<"free", s>>}
      BY DEF OneHolderEach
    <2>2. FreeHolders(s) = {<<"free", s>>}
      BY <1>3, <1>4 DEF FreeHolders
    <2>3. ClientHolders(s) = {} /\ RequestHolders(s) = {} /\ ListenerHolders(s) = {} /\ SessionHolders(s) = {}
      BY <1>3 DEF ClientHolders, RequestHolders, ListenerHolders, SessionHolders
    <2> QED BY <2>2, <2>3 DEF Holders
  <1>6. AdminSids = {}
    BY <1>3 DEF AdminSids, SidsOut
  <1> QED BY <1>1, <1>2, <1>5, <1>6, FS_EmptySet DEF IInv, AdminCounted

(* try_pop keeps the types. *)
LEMMA PopTypes ==
  ASSUME QueueTypes, NEW c \in Clients, NEW admin \in BOOLEAN, PopFree(c, admin),
         adminInUse' \in 0 .. 255
  PROVE  QueueTypes'
  <1>1. Slots' = Slots /\ Sids' = Sids
    BY DEF Slots, Sids, Capacity
  <1>2. [slot |-> freeQ[Index(freePoped)], admin |-> admin, number |-> freePoped] \in Sids
    BY IndexInRing DEF QueueTypes, Sids
  <1>3. sid' \in [Clients -> Sids]
    BY <1>2 DEF QueueTypes, PopFree
  <1>4. freePoped' \in Nat
    BY SMT DEF QueueTypes, PopFree
  <1>5. pc' \in [Clients -> {"idle", "popped", "requested", "waiting", "answered",
                            "read", "expired", "connected"}]
    BY DEF QueueTypes, PopFree
  <1>6. UNCHANGED <<freeQ, freePushed, reqQ, reqPushed, reqPoped, element, terminate, got,
                    nextSession, listener, rejected, sessions>>
    BY DEF PopFree, reqVars, serverVars
  <1> QED BY ONLY QueueTypes, adminInUse' \in 0 .. 255, <1>1, <1>3, <1>4, <1>5, <1>6 DEF QueueTypes

(* Every step keeps the slots and the count, or overdraws the free ring. *)
LEMMA NextIInv ==
  ASSUME IInv, [Next]_vars
  PROVE  IInv' \/ overdrawn'
  <1> USE DEF vars, freeVars, reqVars, clientVars, serverVars
  <1>0. /\ QueueTypes /\ Bounds /\ Reserved /\ OneHolderEach
        /\ IsFiniteSet(AdminSids) /\ AdminCounted
        /\ AdminSlots \in Nat /\ Slots' = Slots /\ Sids' = Sids
    BY DEF IInv, Slots, Sids, Capacity
  <1>1. ASSUME NEW c \in Clients, Request(c) PROVE IInv' \/ overdrawn'
    <2> USE <1>1 DEF Request
    <2>1. CASE ~(freePoped < freePushed + AdminSlots)
      <3>1. freePoped >= freePushed + AdminSlots
        BY <1>0, <2>1, SMT DEF QueueTypes
      <3> QED BY <3>1 DEF PopFree, Remember
    <2>2. CASE freePoped < freePushed + AdminSlots
      <3>1. OneHolderEach' /\ sid'[c].admin = FALSE /\ sid'[c] \notin SidsOut /\ SidsOut' = SidsOut \cup {sid'[c]}
        BY <2>2, PopHandsOver
      <3>2. IsFiniteSet(AdminSids)' /\ AdminCounted'
        <4>1. PICK t : t = sid'[c]
          OBVIOUS
        <4>2. /\ t.admin \in BOOLEAN /\ t \notin SidsOut /\ SidsOut' = SidsOut \cup {t}
              /\ adminInUse' = IF t.admin THEN adminInUse + 1 ELSE adminInUse
          BY <3>1, <4>1
        <4> QED BY ONLY <1>0, <4>2, AdminTaken, SMT
      <3>3. QueueTypes'
        <4>1. adminInUse' \in 0 .. 255
          BY <1>0 DEF QueueTypes
        <4> QED BY <1>0, <4>1, PopTypes
      <3>4. Bounds' /\ Reserved'
        <4>1. /\ freePoped \in Nat /\ freePushed \in Nat /\ adminInUse \in 0 .. 255
              /\ freePoped' = freePoped + 1
              /\ UNCHANGED <<freePushed, adminInUse, reqPushed, reqPoped, listener>>
              /\ freePushed + adminInUse > freePoped
          BY <1>0 DEF QueueTypes, PopFree, NormalAvailable
        <4> QED BY ONLY <1>0, <2>2, <4>1, SMT DEF Bounds, NoOverdraft, Reserved
      <3> QED BY <3>1, <3>2, <3>3, <3>4 DEF IInv
    <2> QED BY <2>1, <2>2
  <1>2. ASSUME NEW c \in Clients, RequestAdmin(c) PROVE IInv'
    <2> USE <1>2 DEF RequestAdmin
    <2>0. /\ freePoped \in Nat /\ freePushed \in Nat /\ adminInUse \in 0 .. 255
          /\ freePushed >= NormalSlots /\ Capacity = NormalSlots + AdminSlots
      BY <1>0 DEF QueueTypes, Bounds, Capacity
    <2>1. adminInUse <= Capacity
      <3>1. \A t \in SidsOut : t.slot \in Slots
        BY <1>0, OutTypes DEF Sids
      <3>2. adminInUse <= Cardinality(Slots)
        BY <1>0, <3>1, AdminFits
      <3> QED BY <3>2, SlotsFinite
    <2>2. freePoped < freePushed + AdminSlots
      <3>1. freePushed + (AdminSlots - adminInUse) < 0 \/ freePushed + (AdminSlots - adminInUse) > freePoped
        BY DEF AdminAvailable
      <3> QED BY <1>0, <2>0, <2>1, <3>1, SMT
    <2>3. /\ OneHolderEach' /\ sid'[c].admin = TRUE /\ sid'[c] \notin SidsOut
          /\ SidsOut' = SidsOut \cup {sid'[c]} /\ adminInUse < Capacity
      BY <2>2, PopHandsOver
    <2>4. adminInUse' = adminInUse + 1 /\ adminInUse' \in 0 .. 255
      <3>1. \A n \in 0 .. 254 : (n + 1) % 256 = n + 1 /\ n + 1 \in 0 .. 255
        BY SMT
      <3>2. adminInUse \in 0 .. 254
        BY <2>0, <2>3, SMT
      <3>3. adminInUse' = (adminInUse + 1) % 256
        OBVIOUS
      <3> QED BY ONLY <3>1, <3>2, <3>3
    <2>5. IsFiniteSet(AdminSids)' /\ AdminCounted'
      <3>1. PICK t : t = sid'[c]
        OBVIOUS
      <3>2. /\ t.admin \in BOOLEAN /\ t \notin SidsOut /\ SidsOut' = SidsOut \cup {t}
            /\ adminInUse' = IF t.admin THEN adminInUse + 1 ELSE adminInUse
        BY <2>3, <2>4, <3>1
      <3> QED BY ONLY <1>0, <3>2, AdminTaken, SMT
    <2>6. QueueTypes'
      BY <1>0, <2>4, PopTypes
    <2>7. Bounds' /\ Reserved'
      <3>1. /\ freePoped' = freePoped + 1
            /\ UNCHANGED <<freePushed, reqPushed, reqPoped, listener>>
        BY DEF PopFree
      <3> QED BY ONLY <1>0, <2>0, <2>2, <2>4, <3>1, SMT DEF Bounds, NoOverdraft, Reserved
    <2> QED BY <2>3, <2>5, <2>6, <2>7 DEF IInv
  <1>3. ASSUME NEW c \in Clients, PushRequest(c) PROVE IInv'
    <2>1. OneHolderEach' /\ SidsOut' = SidsOut
      BY <1>3, PushRequestHandsOver
    <2>2. IsFiniteSet(AdminSids)' /\ AdminCounted'
      BY <1>0, <1>3, <2>1, AdminKept DEF PushRequest
    <2>3. QueueTypes'
      <3>1. Index(reqPushed) \in Slots /\ sid[c] \in Sids
        BY <1>0, IndexInRing DEF QueueTypes
      <3>2. reqQ' \in [Slots -> Sids] /\ reqPushed' \in Nat
        BY <1>0, <1>3, <3>1, SMT DEF QueueTypes, PushRequest
      <3>3. pc' \in [Clients -> {"idle", "popped", "requested", "waiting", "answered",
                                "read", "expired", "connected"}]
        BY <1>0, <1>3 DEF QueueTypes, PushRequest
      <3>4. UNCHANGED <<freeQ, freePushed, freePoped, adminInUse, reqPoped, element, terminate, sid,
                        got, nextSession, listener, rejected, sessions>>
        BY <1>3 DEF PushRequest
      <3> QED BY ONLY <1>0, <3>2, <3>3, <3>4 DEF QueueTypes
    <2>4. Bounds' /\ Reserved'
      BY <1>0, <1>3, SMT DEF QueueTypes, Bounds, NoOverdraft, Reserved, PushRequest
    <2> QED BY <2>1, <2>2, <2>3, <2>4 DEF IInv
  <1>4. ASSUME NEW c \in Clients,
               EnterWait(c) \/ Wake(c) \/ ReadAnswer(c) \/ TimeOut(c) \/ Reuse(c) \/ Close(c)
        PROVE  IInv'
    <2> USE DEF EnterWait, Wake, ReadAnswer, TimeOut, Reuse, Close, Leave
    <2>1. /\ \A d \in Clients : pc[d] = "popped" <=> pc'[d] = "popped"
          /\ \A d \in Clients : pc[d] = "popped" => sid'[d] = sid[d]
      <3>1. pc[c] # "popped"
        BY <1>4
      <3>2. PICK to : to # "popped" /\ pc' = [pc EXCEPT ![c] = to]
        BY <1>4
      <3>3. sid' = sid \/ sid' = [sid EXCEPT ![c] = NoSid]
        BY <1>4
      <3>4. DOMAIN pc = Clients /\ DOMAIN sid = Clients
        BY <1>0 DEF QueueTypes
      <3> QED BY ONLY <3>1, <3>2, <3>3, <3>4
    <2>2. UNCHANGED <<freeQ, freePushed, freePoped, adminInUse, reqVars, sessions, listener, rejected>>
      BY <1>4
    <2>3. OneHolderEach' /\ SidsOut' = SidsOut
      BY <2>1, <2>2, NothingMoved
    <2>4. IsFiniteSet(AdminSids)' /\ AdminCounted'
      BY <1>0, <2>2, <2>3, AdminKept
    <2>5. NoSid \in Sids
      BY CapacityPositive, SMT DEF NoSid, Sids, Slots
    <2>6. QueueTypes'
      <3>1. element' \in [Slots -> Nat \cup {Refused}]
        <4>1. element' = element \/ element' = [element EXCEPT ![sid[c].slot] = Unanswered]
          BY <1>4
        <4>2. element \in [Slots -> Nat \cup {Refused}] /\ Unanswered \in Nat \cup {Refused}
          BY <1>0 DEF QueueTypes, Unanswered
        <4> QED BY ONLY <4>1, <4>2
      <3>2. pc' \in [Clients -> {"idle", "popped", "requested", "waiting", "answered",
                                "read", "expired", "connected"}]
        BY <1>0, <1>4 DEF QueueTypes
      <3>3. sid' \in [Clients -> Sids]
        BY <1>0, <1>4, <2>5 DEF QueueTypes
      <3>4. got' \in [Clients -> Nat \cup {Refused}]
        <4>1. sid[c].slot \in Slots
          BY <1>0 DEF QueueTypes, Sids
        <4>2. PICK e : e \in {element[sid[c].slot], Unanswered} /\ (got' = got \/ got' = [got EXCEPT ![c] = e])
          BY <1>4
        <4>3. got \in [Clients -> Nat \cup {Refused}] /\ e \in Nat \cup {Refused}
          BY <1>0, <4>1, <4>2, SMT DEF QueueTypes, Unanswered
        <4> QED BY ONLY <4>2, <4>3
      <3>5. terminate' \in BOOLEAN /\ nextSession' \in Nat
        BY <1>0, <1>4 DEF QueueTypes
      <3> QED BY <1>0, <2>2, <3>1, <3>2, <3>3, <3>4, <3>5 DEF QueueTypes
    <2>7. Bounds' /\ Reserved'
      BY <1>0, <2>2 DEF Bounds, NoOverdraft, Reserved
    <2> QED BY <2>3, <2>4, <2>6, <2>7 DEF IInv
  <1>5. ASSUME \/ ListenRequest \/ Doze \/ FallAsleep \/ ListenNothing \/ CheckTerminated
               \/ RequestTerminate \/ NotifyTerminate
        PROVE  IInv'
    <2> USE DEF ListenRequest, Doze, FallAsleep, ListenNothing, CheckTerminated, RequestTerminate,
                NotifyTerminate
    <2>1. /\ UNCHANGED <<freeQ, freePushed, freePoped, adminInUse, reqVars, sessions, rejected, pc, sid>>
          /\ listener = "rejecting" <=> listener' = "rejecting"
      BY <1>5
    <2>2. OneHolderEach' /\ SidsOut' = SidsOut
      BY <2>1, NothingMoved
    <2>3. IsFiniteSet(AdminSids)' /\ AdminCounted'
      BY <1>0, <2>1, <2>2, AdminKept
    <2>4. QueueTypes'
      <3>1. listener' \in {"listening", "requested", "checking", "rejecting", "stopped"}
        BY <1>0, <1>5 DEF QueueTypes
      <3>2. nextSession' \in Nat /\ UNCHANGED <<element, got>>
        <4>1. nextSession' = nextSession \/ nextSession' = nextSession + 1
          BY <1>5
        <4>2. UNCHANGED <<element, got>>
          BY <1>5
        <4> QED BY <1>0, <4>1, <4>2, SMT DEF QueueTypes
      <3>3. terminate' = terminate \/ terminate' = TRUE
        BY <1>5
      <3>4. terminate' \in BOOLEAN
        BY <1>0, <3>3 DEF QueueTypes
      <3> QED BY <1>0, <2>1, <3>1, <3>2, <3>4 DEF QueueTypes
    <2>5. Bounds' /\ Reserved'
      BY <1>0, <1>5 DEF QueueTypes, Bounds, NoOverdraft, Reserved, Pending
    <2> QED BY <2>2, <2>3, <2>4, <2>5 DEF IInv
  <1>6. ASSUME Accept PROVE IInv'
    <2>1. OneHolderEach' /\ SidsOut' = SidsOut
      BY <1>6, AcceptHandsOver
    <2>2. IsFiniteSet(AdminSids)' /\ AdminCounted'
      BY <1>0, <1>6, <2>1, AdminKept DEF Accept
    <2>3. Front \in Sids
      BY <1>6, PopRequest DEF Accept
    <2>4. QueueTypes'
      <3>1. Front.slot \in Slots /\ nextSession \in Nat /\ reqPoped \in Nat
        BY <1>0, <2>3 DEF QueueTypes, Sids
      <3>2. element' \in [Slots -> Nat \cup {Refused}]
        BY <1>0, <1>6, <3>1 DEF QueueTypes, Accept
      <3>3. sessions' \subseteq [id : Nat, sid : Sids]
        BY <1>0, <1>6, <2>3, <3>1, SMT DEF QueueTypes, Accept
      <3>4. reqPoped' \in Nat /\ listener' = "listening"
        BY <1>6, <3>1, SMT DEF Accept
      <3>5. UNCHANGED <<freeQ, freePushed, freePoped, adminInUse, reqQ, reqPushed, terminate, pc, sid,
                        got, nextSession, rejected>>
        BY <1>6 DEF Accept
      <3> QED BY ONLY <1>0, <3>2, <3>3, <3>4, <3>5 DEF QueueTypes
    <2>5. Bounds' /\ Reserved'
      <3>1. /\ reqPoped \in Nat /\ reqPushed \in Nat /\ reqPoped' = reqPoped + 1
            /\ listener = "requested" /\ listener' = "listening"
            /\ UNCHANGED <<freePushed, freePoped, adminInUse, reqPushed>>
        BY <1>0, <1>6 DEF QueueTypes, Accept
      <3> QED BY ONLY <1>0, <3>1, SMT DEF Bounds, NoOverdraft, Reserved
    <2> QED BY <2>1, <2>2, <2>4, <2>5 DEF IInv
  <1>7. ASSUME Reject PROVE IInv'
    <2>1. OneHolderEach' /\ SidsOut' = SidsOut
      BY <1>7, RejectHandsOver
    <2>2. IsFiniteSet(AdminSids)' /\ AdminCounted'
      BY <1>0, <1>7, <2>1, AdminKept DEF Reject
    <2>3. Front \in Sids
      BY <1>7, PopRequest DEF Reject
    <2>4. QueueTypes'
      <3>1. Front.slot \in Slots /\ reqPoped \in Nat
        BY <1>0, <2>3 DEF QueueTypes, Sids
      <3>2. element' \in [Slots -> Nat \cup {Refused}]
        BY <1>0, <1>7, <3>1 DEF QueueTypes, Reject
      <3>3. rejected' \in Sids /\ reqPoped' \in Nat /\ listener' = "rejecting"
        BY <1>7, <2>3, <3>1, SMT DEF Reject
      <3>4. UNCHANGED <<freeQ, freePushed, freePoped, adminInUse, reqQ, reqPushed, terminate, pc, sid,
                        got, nextSession, sessions>>
        BY <1>7 DEF Reject
      <3> QED BY ONLY <1>0, <3>2, <3>3, <3>4 DEF QueueTypes
    <2>5. Bounds' /\ Reserved'
      <3>1. /\ reqPoped \in Nat /\ reqPushed \in Nat /\ reqPoped' = reqPoped + 1
            /\ listener = "requested" /\ listener' = "rejecting"
            /\ UNCHANGED <<freePushed, freePoped, adminInUse, reqPushed>>
        BY <1>0, <1>7 DEF QueueTypes, Reject
      <3> QED BY ONLY <1>0, <3>1, SMT DEF Bounds, NoOverdraft, Reserved
    <2> QED BY <2>1, <2>2, <2>4, <2>5 DEF IInv
  <1>8. ASSUME NEW t \in Sids, t \in SidsOut, SidsOut' = SidsOut \ {t}, PushFree(t),
               OneHolderEach', UNCHANGED <<reqVars, element, terminate, clientVars, nextSession>>,
               rejected' \in Sids, sessions' \subseteq sessions,
               listener' = listener \/ listener' = "listening"
        PROVE  IInv'
    <2>1. /\ IsFiniteSet(AdminSids)' /\ AdminCounted'
          /\ adminInUse' \in 0 .. 255
          /\ adminInUse' = adminInUse \/ adminInUse' = adminInUse - 1
      BY <1>0, <1>8, AdminReturned DEF QueueTypes
    <2>2. QueueTypes'
      <3>1. Index(freePushed + AdminSlots) \in Slots /\ t.slot \in Slots
        <4>1. freePushed + AdminSlots \in Nat
          BY <1>0, SMT DEF QueueTypes
        <4>2. t.slot \in Slots
          BY <1>8 DEF Sids
        <4> QED BY <4>1, <4>2, IndexInRing
      <3>2. freeQ' \in [Slots -> Slots] /\ freePushed' \in Nat /\ freePoped' \in Nat
        <4>1. freeQ \in [Slots -> Slots] /\ freePushed \in Nat /\ freePoped \in Nat
          BY <1>0 DEF QueueTypes
        <4>2. PICK i \in Slots, v \in Slots : freeQ' = [freeQ EXCEPT ![i] = v]
          BY <1>8, <3>1 DEF PushFree
        <4>3. freePushed' = freePushed + 1 /\ freePoped' = freePoped
          BY <1>8 DEF PushFree
        <4> QED BY ONLY <4>1, <4>2, <4>3, SMT
      <3>3. sessions' \subseteq [id : Nat, sid : Sids]
        BY <1>0, <1>8 DEF QueueTypes
      <3>4. listener' \in {"listening", "requested", "checking", "rejecting", "stopped"}
        BY <1>0, <1>8 DEF QueueTypes
      <3>5. UNCHANGED <<reqQ, reqPushed, reqPoped, element, terminate, pc, sid, got, nextSession>>
        BY <1>8 DEF reqVars, clientVars
      <3> QED BY ONLY <1>0, <1>8, <2>1, <3>2, <3>3, <3>4, <3>5 DEF QueueTypes
    <2>3. Bounds' /\ Reserved'
      <3>1. /\ freePoped \in Nat /\ freePushed \in Nat /\ adminInUse \in 0 .. 255
            /\ freePushed' = freePushed + 1
            /\ UNCHANGED <<freePoped, reqPushed, reqPoped>>
        BY <1>0, <1>8 DEF QueueTypes, PushFree
      <3>2. listener' = listener \/ listener' = "listening"
        BY <1>8
      <3>3. Bounds /\ Reserved /\ AdminSlots \in Nat
        BY <1>0
      <3>5. Reserved'
        <4>1. adminInUse' = adminInUse \/ adminInUse' = adminInUse - 1
          BY <2>1
        <4>2. CASE adminInUse' = adminInUse
          BY ONLY <3>1, <3>3, <4>2, SMT DEF Reserved
        <4>3. CASE adminInUse' = adminInUse - 1
          BY ONLY <3>1, <3>3, <4>3, SMT DEF Reserved
        <4> QED BY ONLY <4>1, <4>2, <4>3
      <3>6. Bounds'
        <4>1. (freePushed >= NormalSlots)' /\ NoOverdraft'
          BY ONLY <3>1, <3>3, ConstantsAssumption, SMT DEF Bounds, NoOverdraft
        <4>2. (reqPoped <= reqPushed)' /\ (listener = "requested" => reqPoped < reqPushed)'
          BY ONLY <3>1, <3>2, <3>3 DEF Bounds
        <4> QED BY ONLY <4>1, <4>2 DEF Bounds
      <3> QED BY <3>5, <3>6
    <2> QED BY <1>8, <2>1, <2>2, <2>3 DEF IInv
  <1>9. ASSUME RejectPush PROVE IInv'
    <2>1. OneHolderEach' /\ rejected \in SidsOut /\ SidsOut' = SidsOut \ {rejected}
      BY <1>9, RejectPushHandsOver
    <2>2. PICK t \in Sids : t = rejected
      BY <1>0 DEF QueueTypes
    <2>3. NoSid \in Sids
      BY CapacityPositive, SMT DEF NoSid, Sids, Slots
    <2> QED BY <1>8, <1>9, <2>1, <2>2, <2>3 DEF RejectPush
  <1>10. ASSUME NEW x \in sessions, Disconnect(x) PROVE IInv'
    <2>1. OneHolderEach' /\ x.sid \in SidsOut /\ SidsOut' = SidsOut \ {x.sid}
      BY <1>10, DisconnectHandsOver
    <2>2. x.sid \in Sids /\ rejected \in Sids
      BY <1>0 DEF QueueTypes
    <2>3. PICK t \in Sids : t = x.sid
      BY <2>2
    <2> QED BY <1>8, <1>10, <2>1, <2>2, <2>3 DEF Disconnect
  <1>11. CASE UNCHANGED vars
    <2>1. OneHolderEach' /\ SidsOut' = SidsOut
      BY <1>11, NothingMoved
    <2>2. IsFiniteSet(AdminSids)' /\ AdminCounted'
      BY <1>0, <1>11, <2>1, AdminKept
    <2>3. QueueTypes' /\ Bounds' /\ Reserved'
      BY <1>0, <1>11 DEF QueueTypes, Bounds, NoOverdraft, Reserved
    <2> QED BY <2>1, <2>2, <2>3 DEF IInv
  <1> QED
    BY <1>1, <1>2, <1>3, <1>4, <1>5, <1>6, <1>7, <1>9, <1>10, <1>11
    DEF Next, ClientStep, ListenerStep

(* Once the free ring was overdrawn it is so for ever. *)
LEMMA OverdrawnForGood ==
  ASSUME overdrawn, [Next]_vars
  PROVE  overdrawn'
  <1>1. ASSUME NEW c \in Clients, ClientStep(c) PROVE overdrawn'
    BY <1>1 DEF ClientStep, Request, RequestAdmin, PopFree, Remember, PushRequest, EnterWait, Wake,
                ReadAnswer, TimeOut, Reuse, Close, history
  <1>2. ASSUME ListenerStep PROVE overdrawn'
    BY <1>2 DEF ListenerStep, ListenRequest, Doze, FallAsleep, ListenNothing, CheckTerminated,
                Accept, Reject, RejectPush, history
  <1>3. ASSUME NEW x \in sessions, Disconnect(x) PROVE overdrawn'
    BY <1>3 DEF Disconnect, history
  <1>4. CASE RequestTerminate \/ NotifyTerminate \/ UNCHANGED vars
    BY <1>4 DEF RequestTerminate, NotifyTerminate, vars, history
  <1> QED BY <1>1, <1>2, <1>3, <1>4 DEF Next

(***************************************************************************)
(* Whatever the number of clients and slots: until the free ring is popped *)
(* while it is empty, the rings and counters of connection_queue keep      *)
(* every slot with exactly one holder, and admin_slots_in_use_ is exact.   *)
(***************************************************************************)
THEOREM SlotsAreExclusive ==
  Spec => [](SlotExclusive /\ (overdrawn \/ AdminCounted))
  <1>1. Init => overdrawn \/ IInv
    BY InitIInv
  <1>2. (overdrawn \/ IInv) /\ [Next]_vars => (overdrawn \/ IInv)'
    BY NextIInv, OverdrawnForGood
  <1>3. overdrawn \/ IInv => SlotExclusive /\ (overdrawn \/ AdminCounted)
    BY DEF IInv, SlotExclusive
  <1> QED BY <1>1, <1>2, <1>3, PTL DEF Spec

(***************************************************************************)
(* With one admin slot, the default of ipc_endpoint.admin_sessions, normal *)
(* clients can never take the slot reserved for tgctl, until the free ring *)
(* is overdrawn.                                                           *)
(***************************************************************************)
THEOREM AdminSlotIsReserved ==
  ASSUME AdminSlots = 1
  PROVE  Spec => []AdminReservation
  <1>1. Init => overdrawn \/ IInv
    BY InitIInv
  <1>2. (overdrawn \/ IInv) /\ [Next]_vars => (overdrawn \/ IInv)'
    BY NextIInv, OverdrawnForGood
  <1>3. overdrawn \/ IInv => AdminReservation
    <2>1. ASSUME IInv PROVE adminInUse < AdminSlots => AdminAvailable
      BY <2>1, SMT DEF IInv, Reserved, Bounds, NoOverdraft, QueueTypes, AdminAvailable
    <2> QED BY <2>1 DEF AdminReservation
  <1> QED BY <1>1, <1>2, <1>3, PTL DEF Spec

(* Requests of one kind only. *)
OneKind == AdminClients = Clients \/ AdminClients = {}

(* With one kind, either no admin slot is in use or no normal request comes. *)
LEMMA OneKindStep ==
  ASSUME OneKind, IInv, ~overdrawn, AdminClients = {} => adminInUse = 0, [Next]_vars
  PROVE  ~overdrawn' /\ (AdminClients = {} => adminInUse' = 0)
  <1>1. /\ freePoped \in Nat /\ freePushed \in Nat /\ adminInUse \in 0 .. 255
        /\ freePushed >= NormalSlots /\ Capacity = NormalSlots + AdminSlots
    BY DEF IInv, QueueTypes, Bounds, Capacity
  <1>2. ASSUME NEW c \in Clients, Request(c)
        PROVE  ~overdrawn' /\ (AdminClients = {} => adminInUse' = 0)
    <2>1. adminInUse = 0 /\ adminInUse' = 0
      BY <1>2 DEF OneKind, Request
    <2>2. ~(freePoped >= freePushed + AdminSlots)
      BY <1>1, <1>2, <2>1, SMT DEF Request, NormalAvailable
    <2> QED BY <1>2, <2>1, <2>2 DEF Request, PopFree, Remember
  <1>3. ASSUME NEW c \in Clients, RequestAdmin(c)
        PROVE  ~overdrawn' /\ (AdminClients = {} => adminInUse' = 0)
    <2>1. \A t \in SidsOut : t.slot \in Slots
      BY OutTypes DEF Sids, IInv
    <2>2. adminInUse <= Cardinality(Slots)
      BY <2>1, AdminFits DEF IInv
    <2>3. adminInUse <= Capacity
      BY <2>2, SlotsFinite
    <2>4. freePushed + (AdminSlots - adminInUse) < 0 \/ freePushed + (AdminSlots - adminInUse) > freePoped
      BY <1>3 DEF RequestAdmin, AdminAvailable
    <2>5. ~(freePoped >= freePushed + AdminSlots)
      BY <1>1, <2>3, <2>4, SMT
    <2> QED BY <1>3, <2>5 DEF RequestAdmin, PopFree, Remember
  <1> USE DEF freeVars, history
  <1>4. ASSUME NEW c \in Clients,
               PushRequest(c) \/ EnterWait(c) \/ Wake(c) \/ ReadAnswer(c) \/ TimeOut(c) \/ Reuse(c) \/ Close(c)
        PROVE  ~overdrawn' /\ (AdminClients = {} => adminInUse' = 0)
    <2>1. overdrawn' = overdrawn /\ adminInUse' = adminInUse
      BY <1>4 DEF PushRequest, EnterWait, Wake, ReadAnswer, TimeOut, Reuse, Close
    <2> QED BY <2>1
  <1>5. ASSUME \/ ListenRequest \/ Doze \/ FallAsleep \/ ListenNothing \/ CheckTerminated \/ Accept
               \/ Reject \/ RequestTerminate \/ NotifyTerminate \/ UNCHANGED vars
        PROVE  ~overdrawn' /\ (AdminClients = {} => adminInUse' = 0)
    <2>1. overdrawn' = overdrawn /\ adminInUse' = adminInUse
      BY <1>5 DEF ListenRequest, Doze, FallAsleep, ListenNothing, CheckTerminated, Accept, Reject,
                  RequestTerminate, NotifyTerminate, vars
    <2> QED BY <2>1
  <1>6. ASSUME NEW t \in SidsOut, PushFree(t), UNCHANGED overdrawn
        PROVE  ~overdrawn' /\ (AdminClients = {} => adminInUse' = 0)
    <2>1. SUFFICES ASSUME AdminClients = {} PROVE adminInUse' = 0
      BY <1>6
    <2>2. ~t.admin
      <3>1. AdminSids = {}
        BY <1>1, <2>1, FS_EmptySet DEF IInv, AdminCounted
      <3> QED BY <3>1 DEF AdminSids
    <2> QED BY <1>6, <2>1, <2>2 DEF PushFree
  <1>7. ASSUME RejectPush PROVE ~overdrawn' /\ (AdminClients = {} => adminInUse' = 0)
    <2>1. rejected \in SidsOut
      BY <1>7, RejectPushHandsOver
    <2>2. PushFree(rejected) /\ UNCHANGED overdrawn
      BY <1>7 DEF RejectPush
    <2> QED BY <1>6, <2>1, <2>2
  <1>8. ASSUME NEW x \in sessions, Disconnect(x)
        PROVE  ~overdrawn' /\ (AdminClients = {} => adminInUse' = 0)
    <2>1. x.sid \in SidsOut
      BY <1>8, DisconnectHandsOver
    <2>2. PushFree(x.sid) /\ UNCHANGED overdrawn
      BY <1>8 DEF Disconnect
    <2> QED BY <1>6, <2>1, <2>2
  <1> QED
    BY <1>2, <1>3, <1>4, <1>5, <1>7, <1>8 DEF Next, ClientStep, ListenerStep

(***************************************************************************)
(* When all clients are admin clients, as those of this repository are     *)
(* (connect() calls request_admin), or none is, the free ring is never     *)
(* overdrawn: it takes admin and normal requests together.                 *)
(***************************************************************************)
THEOREM PoolIsNotOverdrawn ==
  ASSUME OneKind
  PROVE  Spec => [](NoOverdraft /\ OneHolderEach)
  <1> DEFINE J == IInv /\ ~overdrawn /\ (AdminClients = {} => adminInUse = 0)
  <1>1. Init => J
    BY InitIInv DEF Init
  <1>2. J /\ [Next]_vars => J'
    BY NextIInv, OneKindStep
  <1>3. J => NoOverdraft /\ OneHolderEach
    BY DEF IInv, Bounds
  <1> QED BY <1>1, <1>2, <1>3, PTL DEF Spec

-----------------------------------------------------------------------------
(***************************************************************************)
(* The answers: a second invariant, on top of the first.                   *)
(***************************************************************************)

(* A client with a sid, and one that is on the way to its answer. *)
Live(c) == pc[c] # "idle"
Answering(c) == pc[c] \in {"requested", "waiting", "answered", "read", "expired"}

(* A request has a number of its own, wherever it has got to. *)
Numbered ==
  /\ \A t \in SidsOut : t.number < freePoped
  /\ \A s, t \in SidsOut : s.number = t.number => s = t
  /\ \A c \in Clients : Live(c) => sid[c].number < freePoped /\ \A t \in SidsOut : t.number = sid[c].number => t = sid[c]
  /\ \A c, d \in Clients : Live(c) /\ Live(d) /\ sid[c].number = sid[d].number => c = d

(* An id that has been given to a session, and where one may appear. *)
Given(n) == n \in Nat \ {0} /\ n <= nextSession /\ (listener = "requested" => n # nextSession)
Known(n) == n \in {Unanswered, Refused} \/ Given(n)
Ids ==
  /\ \A x \in sessions : Given(x.id)
  /\ \A s \in Slots : Known(element[s])
  /\ \A c \in Clients : Known(got[c])
  /\ listener = "requested" => nextSession # 0

(* Nobody else uses the element of the client's slot, or will answer it.   *)
Sole(c) ==
  /\ \A d \in Clients \ {c} : Active(d) => sid[d].slot # sid[c].slot
  /\ \A t \in Requested : t.slot = sid[c].slot => t = sid[c]

(* The request is in the ring and its element is clean. *)
InLine(c) == sid[c] \in Requested /\ element[sid[c].slot] = Unanswered

(* The answer n is that of the client's own request, and nobody else's.    *)
Single(c, n) ==
  /\ Given(n)
  /\ \A x \in sessions : x.id = n <=> x.sid = sid[c]
  /\ \A d \in Clients \ {c} : got[d] # n
  /\ \A s \in Slots : element[s] = n => Active(c) /\ s = sid[c].slot
Mine(c, n) == sid[c] \notin Requested /\ (n = Refused \/ Single(c, n))

(* Where a client that shares its element with nobody has got to. *)
Placed(c) ==
  /\ Active(c) => Sole(c)
  /\ pc[c] = "popped" => element[sid[c].slot] = Unanswered
  /\ pc[c] \in {"requested", "waiting"} => InLine(c) \/ Mine(c, element[sid[c].slot])
  /\ pc[c] = "answered" => Mine(c, element[sid[c].slot])
  /\ pc[c] \in {"read", "connected"} => Mine(c, got[c])
  /\ pc[c] = "connected" => got[c] # Refused

(* A request in the ring, and an element that is not clean, have a client, *)
(* or one has left the slot too early.                                     *)
Awaited == \A t \in Requested : t.slot \in spoiled \/ \E c \in Clients : Answering(c) /\ sid[c] = t
Clean ==
  \A s \in Slots : element[s] # Unanswered =>
      s \in spoiled \/ \E c \in Clients : Answering(c) /\ sid[c].slot = s

(* The invariant of the answers; IInv tells who holds a slot. *)
AInv ==
  /\ Numbered
  /\ Ids
  /\ \A c \in Clients \ disturbed : Placed(c)
  /\ Awaited
  /\ Clean

(* Two holders of a slot are the same, by name. *)
LEMMA Holding ==
  ASSUME IInv
  PROVE  /\ \A x, y \in sessions : x.sid.slot = y.sid.slot => x = y
         /\ \A x \in sessions, t \in Requested : x.sid.slot # t.slot
         /\ \A x \in sessions, c \in Clients : pc[c] = "popped" => x.sid.slot # sid[c].slot
         /\ \A x \in sessions, i \in FreeWindow : freeQ[Index(i)] # x.sid.slot
         /\ \A s, t \in Requested : s.slot = t.slot => s = t
  <1>0. QueueTypes /\ OneHolderEach
    BY DEF IInv
  <1>1. \A x \in sessions : x.sid.slot \in Slots /\ <<"session", x>> \in Holders(x.sid.slot)
    BY <1>0 DEF QueueTypes, Sids, Holders, SessionHolders
  <1>2. \A i \in ReqWindow : <<"requested", i>> \in Holders(reqQ[Index(i)].slot)
    BY DEF Holders, RequestHolders
  <1>3. \A c \in Clients : pc[c] = "popped" => <<"client", c>> \in Holders(sid[c].slot)
    BY DEF Holders, ClientHolders
  <1>4. \A i \in FreeWindow : <<"free", i>> \in Holders(freeQ[Index(i)])
    BY DEF Holders, FreeHolders
  <1>5. ASSUME NEW x \in sessions, NEW g, g \in Holders(x.sid.slot) PROVE g = <<"session", x>>
    BY <1>0, <1>1, <1>5, OneHolder
  <1>6. \A x, y \in sessions : x.sid.slot = y.sid.slot => x = y
    <2>1. SUFFICES ASSUME NEW x \in sessions, NEW y \in sessions, x.sid.slot = y.sid.slot PROVE x = y
      OBVIOUS
    <2>2. <<"session", y>> = <<"session", x>>
      BY <1>1, <1>5, <2>1
    <2> QED BY <2>2
  <1>7. ASSUME NEW x \in sessions, NEW t \in Requested, x.sid.slot = t.slot PROVE FALSE
    <2>1. PICK i \in ReqWindow : t = reqQ[Index(i)]
      BY DEF Requested
    <2>2. <<"requested", i>> = <<"session", x>>
      BY <1>2, <1>5, <1>7, <2>1
    <2> QED BY <2>2
  <1>8. ASSUME NEW x \in sessions, NEW c \in Clients, pc[c] = "popped", x.sid.slot = sid[c].slot PROVE FALSE
    <2>1. <<"client", c>> = <<"session", x>>
      BY <1>3, <1>5, <1>8
    <2> QED BY <2>1
  <1>9. ASSUME NEW x \in sessions, NEW i \in FreeWindow, freeQ[Index(i)] = x.sid.slot PROVE FALSE
    <2>1. <<"free", i>> = <<"session", x>>
      BY <1>4, <1>5, <1>9
    <2> QED BY <2>1
  <1>10. ASSUME NEW s \in Requested, NEW t \in Requested, s.slot = t.slot PROVE s = t
    <2>1. PICK i \in ReqWindow : s = reqQ[Index(i)]
      BY DEF Requested
    <2>2. PICK j \in ReqWindow : t = reqQ[Index(j)]
      BY DEF Requested
    <2>3. Index(i) \in Slots
      BY <1>0, IndexInRing, SMT DEF QueueTypes, ReqWindow
    <2>4. s.slot \in Slots
      BY <1>0, <2>1, <2>3 DEF QueueTypes, Sids
    <2>5. <<"requested", i>> = <<"requested", j>>
      BY <1>0, <1>2, <1>10, <2>1, <2>2, <2>4, OneHolder
    <2> QED BY <2>1, <2>2, <2>5
  <1> QED BY <1>6, <1>7, <1>8, <1>9, <1>10

(* No request gets a number while no slot is popped. *)
LEMMA NumbersKept ==
  ASSUME Numbered, SidsOut' \subseteq SidsOut, UNCHANGED freePoped,
         \A c \in Clients : Live(c)' => Live(c) /\ sid'[c] = sid[c]
  PROVE  Numbered'
  BY DEF Numbered

(* A request that pops a slot gets a new number. *)
LEMMA NumberTaken ==
  ASSUME IInv, Numbered, NEW c \in Clients, sid'[c].number = freePoped, freePoped' = freePoped + 1,
         SidsOut' = SidsOut \cup {sid'[c]},
         \A d \in Clients : d # c => sid'[d] = sid[d] /\ (Live(d)' <=> Live(d))
  PROVE  Numbered'
  <1>1. freePoped \in Nat /\ \A d \in Clients : sid[d].number \in Nat
    BY DEF IInv, QueueTypes, Sids
  <1>2. \A n \in Nat : n < freePoped => n # freePoped /\ n < freePoped'
    BY <1>1, SMT
  <1>3. freePoped < freePoped'
    BY <1>1, SMT
  <1>4. \A t \in SidsOut : t.number < freePoped' /\ t.number # freePoped
    BY <1>2, OutTypes DEF Numbered, IInv, Sids
  <1>5. \A d \in Clients : Live(d) => sid[d].number < freePoped' /\ sid[d].number # freePoped
    BY <1>1, <1>2 DEF Numbered
  <1>6. (\A t \in SidsOut : t.number < freePoped)'
    BY <1>3, <1>4
  <1>7. (\A s, t \in SidsOut : s.number = t.number => s = t)'
    BY <1>4 DEF Numbered
  <1>8. ASSUME NEW d \in Clients, Live(d)'
        PROVE  (sid[d].number < freePoped /\ \A t \in SidsOut : t.number = sid[d].number => t = sid[d])'
    <2>1. CASE d = c
      BY <1>3, <1>4, <2>1
    <2>2. CASE d # c
      BY <1>5, <1>8, <2>2 DEF Numbered
    <2> QED BY <2>1, <2>2
  <1>9. ASSUME NEW d \in Clients, NEW e \in Clients, Live(d)', Live(e)', sid'[d].number = sid'[e].number
        PROVE  d = e
    BY <1>5, <1>9 DEF Numbered
  <1> QED BY <1>6, <1>7, <1>8, <1>9 DEF Numbered

(* The request that the listener takes leaves the ring. *)
LEMMA FrontGone ==
  ASSUME IInv, listener = "requested", reqPoped' = reqPoped + 1, UNCHANGED <<reqQ, reqPushed>>
  PROVE  /\ Front \in Sids /\ Front \in Requested
         /\ Requested' = Requested \ {Front}
  <1>0. QueueTypes /\ OneHolderEach
    BY DEF IInv
  <1>1. /\ reqPoped \in ReqWindow /\ ReqWindow' = ReqWindow \ {reqPoped} /\ Front \in Sids
        /\ <<"requested", reqPoped>> \in Holders(Front.slot)
        /\ Requested = Requested' \cup {Front}
    BY PopRequest DEF Requested
  <1>2. ASSUME NEW i \in ReqWindow', reqQ[Index(i)] = Front PROVE FALSE
    <2>1. i \in ReqWindow /\ i # reqPoped
      BY <1>1
    <2>2. <<"requested", i>> \in Holders(Front.slot)
      BY <1>2, <2>1 DEF Holders, RequestHolders
    <2>3. <<"requested", i>> = <<"requested", reqPoped>>
      BY <1>0, <1>1, <2>2, OneHolder DEF Sids
    <2> QED BY <2>1, <2>3
  <1>3. Requested' = {reqQ[Index(i)] : i \in ReqWindow'}
    BY DEF Requested, Index
  <1> QED BY <1>1, <1>2, <1>3

(* An id is none of the values that are not. *)
LEMMA GivenIsAnswer == \A n : Given(n) => n # Unanswered /\ n # Refused
  BY SMT DEF Given, Unanswered, Refused

(* The next id is none of the values that are not, either. *)
LEMMA Positive == \A n \in Nat : n # 0 => n # Unanswered /\ n # Refused
  BY SMT DEF Unanswered, Refused

(* A given id stays given. *)
LEMMA GivenKept ==
  ASSUME IInv, Ids,
         \/ nextSession' = nextSession /\ (listener' = "requested" => listener = "requested")
         \/ nextSession' = nextSession + 1 /\ listener # "requested"
  PROVE  \A n : Given(n) => Given(n)'
  <1>1. nextSession \in Nat
    BY DEF IInv, QueueTypes
  <1>2. CASE nextSession' = nextSession /\ (listener' = "requested" => listener = "requested")
    BY <1>2 DEF Given
  <1>3. CASE nextSession' = nextSession + 1 /\ listener # "requested"
    <2>1. \A n \in Nat : n <= nextSession => n <= nextSession + 1 /\ n # nextSession + 1
      BY <1>1, SMT
    <2> QED BY <1>3, <2>1 DEF Given
  <1> QED BY <1>2, <1>3

(***************************************************************************)
(* What a step leaves to client c, when it is a step of another one: its   *)
(* element, its place in the ring, and ids of its own.                     *)
(***************************************************************************)
Apart(c) ==
  /\ pc'[c] = pc[c] /\ sid'[c] = sid[c] /\ got'[c] = got[c]
  /\ \A d \in Clients \ {c} :
        Active(c) /\ Active(d)' => sid'[d].slot # sid[c].slot \/ (Active(d) /\ sid'[d] = sid[d])
  /\ \A t \in Requested' :
        t \in Requested \/ (t # sid[c] /\ (Active(c) => t.slot # sid[c].slot))
  /\ Active(c) => element'[sid[c].slot] = element[sid[c].slot]
  /\ Active(c) /\ sid[c] \in Requested => sid[c] \in Requested'
  /\ \A x \in sessions' : x \in sessions \/ (~Given(x.id) /\ x.sid # sid[c])
  /\ \A d \in Clients \ {c} :
        \/ got'[d] = got[d] \/ got'[d] = Unanswered
        \/ Active(d) /\ got'[d] = element[sid[d].slot]
  /\ \A s \in Slots :
        \/ element'[s] = element[s] \/ element'[s] \in {Unanswered, Refused}
        \/ ~Given(element'[s])

(* An answer of one's own stays so. *)
LEMMA StaysMine ==
  ASSUME IInv, NEW c \in Clients, Apart(c), Active(c) => Sole(c), NEW n, Mine(c, n),
         \A k : Given(k) => Given(k)'
  PROVE  Mine(c, n)'
  <1>1. Slots' = Slots /\ (Active(c)' <=> Active(c)) /\ \A d \in Clients : sid[d].slot \in Slots
    BY DEF Slots, Capacity, Apart, Active, IInv, QueueTypes, Sids
  <1>2. sid'[c] \notin Requested'
    BY DEF Apart, Mine
  <1>3. CASE n = Refused
    BY <1>2, <1>3 DEF Mine
  <1>4. CASE Single(c, n)
    <2>1. Given(n) /\ Given(n)' /\ n # Unanswered /\ n # Refused
      BY <1>4, GivenIsAnswer DEF Single
    <2>2. ASSUME NEW x \in sessions' PROVE x.id = n <=> x.sid = sid'[c]
      BY <1>4, <2>1 DEF Single, Apart
    <2>3. ASSUME NEW d \in Clients \ {c} PROVE got'[d] # n
      <3>1. SUFFICES ASSUME Active(d), got'[d] = element[sid[d].slot], got'[d] = n PROVE FALSE
        BY <1>4, <2>1 DEF Single, Apart
      <3>2. Active(c) /\ sid[d].slot = sid[c].slot
        BY <1>1, <1>4, <3>1 DEF Single
      <3> QED BY <3>1, <3>2 DEF Sole
    <2>4. ASSUME NEW s \in Slots, element'[s] = n PROVE Active(c)' /\ s = sid'[c].slot
      BY <1>1, <1>4, <2>1, <2>4 DEF Single, Apart
    <2> QED BY <1>1, <1>2, <2>1, <2>2, <2>3, <2>4 DEF Mine, Single
  <1> QED BY <1>3, <1>4 DEF Mine

(* A client that a step does not concern stays where it is. *)
LEMMA StaysPlaced ==
  ASSUME IInv, NEW c \in Clients, Placed(c), Apart(c), \A k : Given(k) => Given(k)'
  PROVE  Placed(c)'
  <1>1. pc'[c] = pc[c] /\ sid'[c] = sid[c] /\ got'[c] = got[c] /\ (Active(c)' <=> Active(c))
    BY DEF Apart, Active
  <1>2. \A n : Mine(c, n) => Mine(c, n)'
    BY StaysMine DEF Placed
  <1>3. ASSUME Active(c) PROVE Sole(c)'
    <2>1. Sole(c)
      BY <1>3 DEF Placed
    <2>2. \A d \in Clients \ {c} : Active(d)' => sid'[d].slot # sid'[c].slot
      BY <1>1, <1>3, <2>1 DEF Sole, Apart
    <2>3. \A t \in Requested' : t.slot = sid'[c].slot => t = sid'[c]
      BY <1>1, <1>3, <2>1 DEF Sole, Apart
    <2> QED BY <2>2, <2>3 DEF Sole
  <1>4. Active(c) => element'[sid[c].slot] = element[sid[c].slot] /\ (InLine(c) => InLine(c)')
    BY <1>1 DEF Apart, InLine
  <1>5. pc[c] \notin {"idle", "connected"} => Active(c)
    BY DEF Active
  <1>6. (pc[c] = "popped" => element[sid[c].slot] = Unanswered)'
    BY <1>1, <1>4, <1>5 DEF Placed
  <1>7. (pc[c] \in {"requested", "waiting"} => InLine(c) \/ Mine(c, element[sid[c].slot]))'
    <2>1. SUFFICES ASSUME pc[c] \in {"requested", "waiting"}
                   PROVE  InLine(c)' \/ Mine(c, element[sid[c].slot])'
      BY <1>1
    <2>2. Active(c)
      BY <1>5, <2>1
    <2>3. CASE InLine(c)
      BY <1>4, <2>2, <2>3
    <2>4. CASE Mine(c, element[sid[c].slot])
      <3>1. PICK n : n = element[sid[c].slot]
        OBVIOUS
      <3>2. Mine(c, n)' /\ n = element'[sid'[c].slot]
        BY <1>1, <1>2, <1>4, <2>2, <2>4, <3>1
      <3> QED BY <3>2 DEF Mine, Single
    <2> QED BY <2>1, <2>3, <2>4 DEF Placed
  <1>8. (pc[c] = "answered" => Mine(c, element[sid[c].slot]))'
    <2>1. SUFFICES ASSUME pc[c] = "answered" PROVE Mine(c, element[sid[c].slot])'
      BY <1>1
    <2>2. PICK n : n = element[sid[c].slot]
      OBVIOUS
    <2>3. Mine(c, n)' /\ n = element'[sid'[c].slot]
      BY <1>1, <1>2, <1>4, <1>5, <2>1, <2>2 DEF Placed
    <2> QED BY <2>3 DEF Mine, Single
  <1>9. (pc[c] \in {"read", "connected"} => Mine(c, got[c]))'
    <2>1. SUFFICES ASSUME pc[c] \in {"read", "connected"} PROVE Mine(c, got[c])'
      BY <1>1
    <2>2. PICK n : n = got[c]
      OBVIOUS
    <2>3. Mine(c, n)' /\ n = got'[c]
      BY <1>1, <1>2, <2>1, <2>2 DEF Placed
    <2> QED BY <2>3 DEF Mine, Single
  <1> QED BY <1>1, <1>3, <1>6, <1>7, <1>8, <1>9 DEF Placed

(* The ids in elements, and with the clients, of a step that gives none. *)
LEMMA IdsKept ==
  ASSUME IInv, Ids, \A k : Given(k) => Given(k)', sessions' \subseteq sessions,
         \A s \in Slots : element'[s] \in {element[s], Unanswered, Refused},
         \A c \in Clients : got'[c] \in {got[c], Unanswered, element[sid[c].slot]},
         listener' = "requested" => nextSession' # 0
  PROVE  Ids'
  <1>1. Slots' = Slots /\ \A c \in Clients : sid[c].slot \in Slots
    BY DEF Slots, Capacity, IInv, QueueTypes, Sids
  <1>2. \A k : Known(k) => Known(k)'
    BY DEF Known
  <1>3. Known(Unanswered)' /\ Known(Refused)'
    BY DEF Known
  <1>4. ASSUME NEW s \in Slots PROVE Known(element[s])'
    <2>1. PICK k : k = element'[s]
      OBVIOUS
    <2>2. Known(k)'
      BY <1>2, <1>3, <2>1 DEF Ids
    <2> QED BY <2>1, <2>2 DEF Known, Given
  <1>5. ASSUME NEW c \in Clients PROVE Known(got[c])'
    <2>1. PICK k : k = got'[c]
      OBVIOUS
    <2>2. Known(k)'
      BY <1>1, <1>2, <1>3, <2>1 DEF Ids
    <2> QED BY <2>1, <2>2 DEF Known, Given
  <1>6. (\A s \in Slots : Known(element[s]))' /\ (\A c \in Clients : Known(got[c]))'
    BY <1>1, <1>4, <1>5
  <1>7. (\A x \in sessions : Given(x.id))'
    BY DEF Ids, Given
  <1> QED BY <1>6, <1>7 DEF Ids

(* What the step of one client leaves to the others. *)
Alone(c) ==
  /\ \A d \in Clients \ {c} : pc'[d] = pc[d] /\ sid'[d] = sid[d] /\ got'[d] = got[d]
  /\ UNCHANGED <<sessions, nextSession, listener>>

(* A step inside wait() that leaves the rings and the elements alone. *)
LEMMA ClientMoves ==
  ASSUME IInv, AInv, NEW c \in Clients, Alone(c), UNCHANGED <<freePoped, element, disturbed, spoiled>>,
         Requested' = Requested, SidsOut' \subseteq SidsOut,
         Answering(c), Answering(c)', sid'[c] = sid[c], got'[c] \in {got[c], element[sid[c].slot]},
         c \notin disturbed => Placed(c)'
  PROVE  AInv'
  <1>0. /\ Active(c) /\ Slots' = Slots /\ \A d \in Clients : sid'[d] = sid[d]
        /\ \A d \in Clients : (Active(d)' <=> Active(d)) /\ (Answering(d)' <=> Answering(d))
    BY DEF Alone, Active, Answering, Slots, Capacity
  <1>1. Numbered'
    <2>1. \A d \in Clients : Live(d)' => Live(d) /\ sid'[d] = sid[d]
      BY <1>0 DEF Alone, Live, Answering
    <2> QED BY <2>1, NumbersKept DEF AInv
  <1>2. \A k : Given(k) => Given(k)'
    BY DEF Alone, Given
  <1>3. Ids'
    BY <1>2, IdsKept DEF AInv, Alone, Ids
  <1>4. ASSUME NEW d \in Clients \ disturbed', d # c PROVE Placed(d)'
    <2>1. Placed(d)
      BY <1>4 DEF AInv
    <2>2. Apart(d)
      BY <1>0, <1>4 DEF Apart, Alone
    <2> QED BY <1>2, <2>1, <2>2, StaysPlaced
  <1>5. Awaited'
    BY <1>0 DEF AInv, Awaited
  <1>6. Clean'
    BY <1>0 DEF AInv, Clean
  <1> QED BY <1>1, <1>3, <1>4, <1>5, <1>6 DEF AInv

(* EnterWait that goes on, Wake, ReadAnswer and TimeOut. *)
LEMMA WaitingAnswers ==
  ASSUME IInv, AInv, NEW c \in Clients,
         (EnterWait(c) /\ ~terminate) \/ Wake(c) \/ ReadAnswer(c) \/ TimeOut(c)
  PROVE  AInv'
  <1> USE DEF EnterWait, Wake, ReadAnswer, TimeOut, freeVars, reqVars, clientVars, serverVars, history
  <1>0. QueueTypes /\ DOMAIN pc = Clients /\ DOMAIN got = Clients
    BY DEF IInv, QueueTypes
  <1>1. /\ UNCHANGED <<freePoped, freePushed, freeQ, adminInUse, element, disturbed, spoiled, sid, sessions,
                       nextSession, listener, rejected, reqQ, reqPushed, reqPoped>>
        /\ \A d \in Clients \ {c} : pc'[d] = pc[d] /\ got'[d] = got[d]
        /\ got'[c] \in {got[c], element[sid[c].slot]}
    BY <1>0
  <1>2. Answering(c) /\ Answering(c)'
    BY <1>0 DEF Answering
  <1>3. Alone(c)
    BY <1>1 DEF Alone
  <1>4. Requested' = Requested
    BY <1>1 DEF Requested, ReqWindow, Index
  <1>5. SidsOut' = SidsOut
    <2>1. \A d \in Clients : pc[d] = "popped" <=> pc'[d] = "popped"
      BY <1>1, <1>2 DEF Answering
    <2> QED BY <1>1, <2>1, NothingMoved
  <1>6. ASSUME c \notin disturbed PROVE Placed(c)'
    <2>1. Placed(c)
      BY <1>6 DEF AInv
    <2>2. Sole(c)'
      <3>1. Sole(c) /\ \A d \in Clients : Active(d)' <=> Active(d)
        BY <1>1, <1>2, <2>1 DEF Placed, Answering, Active
      <3> QED BY <1>1, <1>4, <3>1 DEF Sole
    <2>3. InLine(c) => InLine(c)'
      BY <1>1, <1>4 DEF InLine
    <2>4. \A n : Mine(c, n) => Mine(c, n)'
      <3>1. SUFFICES ASSUME NEW n, Mine(c, n) PROVE Mine(c, n)'
        OBVIOUS
      <3>2. Active(c) /\ Active(c)' /\ Slots' = Slots
        BY <1>2 DEF Answering, Active, Slots, Capacity
      <3>3. Single(c, n) => Single(c, n)'
        BY <1>1, <3>2 DEF Single, Given
      <3> QED BY <1>1, <1>4, <3>1, <3>3 DEF Mine
    <2>5. PICK e : e = element[sid[c].slot] /\ e = element'[sid'[c].slot]
      BY <1>1
    <2>6. pc'[c] \in {"requested", "waiting"} => InLine(c)' \/ Mine(c, e)'
      BY <1>0, <2>1, <2>3, <2>4, <2>5 DEF Placed
    <2>7. pc'[c] = "answered" => Mine(c, e)'
      BY <1>0, <2>1, <2>4, <2>5 DEF Placed, InLine
    <2>8. pc'[c] \in {"read", "connected"} => Mine(c, e)' /\ got'[c] = e
      BY <1>0, <1>2, <2>1, <2>4, <2>5 DEF Placed, Answering
    <2>9. pc'[c] # "popped" /\ pc'[c] # "connected"
      BY <1>2 DEF Answering
    <2>10. /\ (pc[c] \in {"requested", "waiting"} => InLine(c) \/ Mine(c, element[sid[c].slot]))'
           /\ (pc[c] = "answered" => Mine(c, element[sid[c].slot]))'
           /\ (pc[c] \in {"read", "connected"} => Mine(c, got[c]))'
      BY <2>5, <2>6, <2>7, <2>8 DEF Mine, Single
    <2> QED BY <2>2, <2>9, <2>10 DEF Placed
  <1> QED BY <1>1, <1>2, <1>3, <1>4, <1>5, <1>6, ClientMoves

(* The end of wait(), or of the session: the client is gone from its slot. *)
LEMMA ClientLeaves ==
  ASSUME IInv, AInv, NEW c \in Clients, Alone(c), UNCHANGED freePoped,
         Requested' = Requested, SidsOut' \subseteq SidsOut,
         Live(c), pc'[c] \in {"idle", "connected"}, Live(c)' => sid'[c] = sid[c],
         got'[c] \in {got[c], Unanswered},
         disturbed' \in {disturbed, disturbed \ {c}}, spoiled \subseteq spoiled',
         \A s \in Slots : element'[s] = element[s]
                            \/ (Active(c) /\ s = sid[c].slot /\ element'[s] = Unanswered),
         Active(c) /\ sid[c] \in Requested => sid[c].slot \in spoiled',
         Active(c) /\ element'[sid[c].slot] # Unanswered => sid[c].slot \in spoiled',
         c \notin disturbed' => Placed(c)'
  PROVE  AInv'
  <1>0. /\ Slots' = Slots /\ ~Active(c)' /\ ~Answering(c)' /\ (Answering(c) => Active(c))
        /\ \A d \in Clients \ {c} : (Active(d)' <=> Active(d)) /\ (Answering(d)' <=> Answering(d))
        /\ \A d \in Clients : sid[d].slot \in Slots
    BY DEF Alone, Active, Answering, Slots, Capacity, IInv, QueueTypes, Sids
  <1>1. Numbered'
    <2>1. \A d \in Clients : Live(d)' => Live(d) /\ sid'[d] = sid[d]
      BY DEF Alone, Live
    <2> QED BY <2>1, NumbersKept DEF AInv
  <1>2. \A k : Given(k) => Given(k)'
    BY DEF Alone, Given
  <1>3. Ids'
    <2>1. \A d \in Clients : got'[d] \in {got[d], Unanswered, element[sid[d].slot]}
      BY DEF Alone
    <2>2. \A s \in Slots : element'[s] \in {element[s], Unanswered, Refused}
      OBVIOUS
    <2>3. sessions' \subseteq sessions /\ (listener' = "requested" => nextSession' # 0)
      BY DEF AInv, Ids, Alone
    <2> QED BY <1>2, <2>1, <2>2, <2>3, IdsKept DEF AInv
  <1>4. ASSUME NEW d \in Clients \ disturbed', d # c PROVE Placed(d)'
    <2>1. Placed(d)
      BY <1>4 DEF AInv
    <2>2. Active(d) => element'[sid[d].slot] = element[sid[d].slot]
      BY <1>0, <1>4, <2>1 DEF Placed, Sole
    <2>3. Apart(d)
      BY <1>0, <1>4, <2>2 DEF Apart, Alone
    <2> QED BY <1>2, <2>1, <2>3, StaysPlaced
  <1>5. Awaited'
    <2>1. SUFFICES ASSUME NEW t \in Requested
                   PROVE  t.slot \in spoiled' \/ \E d \in Clients : Answering(d)' /\ sid'[d] = t
      BY DEF Awaited
    <2>2. CASE t.slot \in spoiled
      BY <2>2
    <2>3. ASSUME NEW d \in Clients, Answering(d), sid[d] = t
          PROVE  t.slot \in spoiled' \/ (Answering(d)' /\ sid'[d] = t)
      <3>1. CASE d = c
        BY <1>0, <2>3, <3>1
      <3>2. CASE d # c
        BY <1>0, <2>3, <3>2 DEF Alone
      <3> QED BY <3>1, <3>2
    <2> QED BY <2>1, <2>2, <2>3 DEF AInv, Awaited
  <1>6. Clean'
    <2>1. SUFFICES ASSUME NEW s \in Slots, element'[s] # Unanswered
                   PROVE  s \in spoiled' \/ \E d \in Clients : Answering(d)' /\ sid'[d].slot = s
      BY <1>0 DEF Clean
    <2>2. element[s] # Unanswered
      BY <2>1
    <2>3. CASE s \in spoiled
      BY <2>3
    <2>4. ASSUME NEW d \in Clients, Answering(d), sid[d].slot = s
          PROVE  s \in spoiled' \/ (Answering(d)' /\ sid'[d].slot = s)
      <3>1. CASE d = c
        BY <1>0, <2>1, <2>4, <3>1
      <3>2. CASE d # c
        BY <1>0, <2>4, <3>2 DEF Alone
      <3> QED BY <3>1, <3>2
    <2> QED BY <2>1, <2>2, <2>3, <2>4 DEF AInv, Clean
  <1> QED BY <1>1, <1>3, <1>4, <1>5, <1>6 DEF AInv

(* EnterWait of a terminated server, Reuse and Close. *)
LEMMA LeavingAnswers ==
  ASSUME IInv, AInv, NEW c \in Clients, (EnterWait(c) /\ terminate) \/ Reuse(c) \/ Close(c)
  PROVE  AInv'
  <1> USE DEF EnterWait, Reuse, Close, Leave, freeVars, reqVars, clientVars, serverVars, history
  <1>0. /\ QueueTypes /\ DOMAIN pc = Clients /\ DOMAIN got = Clients /\ DOMAIN sid = Clients
        /\ DOMAIN element = Slots /\ sid[c].slot \in Slots
    BY DEF IInv, QueueTypes, Sids
  <1>1. /\ UNCHANGED <<freePoped, freePushed, freeQ, adminInUse, sessions, nextSession, listener, rejected,
                       reqQ, reqPushed, reqPoped>>
        /\ \A d \in Clients \ {c} : pc'[d] = pc[d] /\ got'[d] = got[d] /\ sid'[d] = sid[d]
        /\ got'[c] \in {got[c], Unanswered}
        /\ pc[c] \in {"requested", "read", "expired", "connected"}
        /\ pc'[c] \in {"idle", "connected"}
        /\ pc'[c] = "connected" => sid'[c] = sid[c]
        /\ disturbed' \in {disturbed, disturbed \ {c}}
    BY <1>0
  <1>2. Alone(c)
    BY <1>1 DEF Alone
  <1>3. Requested' = Requested
    BY <1>1 DEF Requested, ReqWindow, Index
  <1>4. SidsOut' = SidsOut
    <2>1. \A d \in Clients : pc[d] = "popped" <=> pc'[d] = "popped"
      BY <1>1
    <2>2. \A d \in Clients : pc[d] = "popped" => sid'[d] = sid[d]
      BY <1>1
    <2> QED BY <1>1, <2>1, <2>2, NothingMoved
  <1>5. Live(c) /\ (Live(c)' => sid'[c] = sid[c])
    BY <1>1 DEF Live
  <1>6. \A s \in Slots : element'[s] = element[s]
                           \/ (Active(c) /\ s = sid[c].slot /\ element'[s] = Unanswered)
    BY <1>0 DEF Active
  <1>7. spoiled \subseteq spoiled' /\ (Active(c) /\ sid[c] \in Requested => sid[c].slot \in spoiled')
    <2>1. CASE EnterWait(c) /\ terminate
      BY <2>1
    <2>2. CASE Reuse(c)
      BY <2>2
    <2>3. CASE Close(c)
      BY <2>3 DEF Active
    <2> QED BY <2>1, <2>2, <2>3
  <1>8. Active(c) /\ element'[sid[c].slot] # Unanswered => sid[c].slot \in spoiled'
    BY <1>0 DEF Active
  <1>9. ASSUME c \notin disturbed' PROVE Placed(c)'
    <2>1. CASE pc'[c] = "idle"
      BY <2>1 DEF Placed, Active
    <2>2. CASE pc'[c] = "connected"
      <3>1. /\ Reuse(c) /\ pc[c] = "read" /\ got[c] # Refused /\ disturbed' = disturbed
            /\ sid' = sid /\ got' = got /\ element' = [element EXCEPT ![sid[c].slot] = Unanswered]
        BY <1>0, <1>1, <2>2
      <3>2. PICK n : n = got[c]
        OBVIOUS
      <3>3. sid[c] \notin Requested /\ Single(c, n)
        BY <1>9, <3>1, <3>2 DEF AInv, Placed, Mine
      <3>4. n # Unanswered
        BY <3>3, GivenIsAnswer DEF Single
      <3>5. ASSUME NEW s \in Slots, element'[s] = n PROVE FALSE
        <4>1. s # sid[c].slot
          BY <1>0, <3>1, <3>4, <3>5
        <4>2. element[s] = n
          BY <1>0, <3>1, <3>5, <4>1
        <4> QED BY <3>3, <4>1, <4>2 DEF Single
      <3>6. Single(c, n)'
        <4>1. Given(n)' /\ Slots' = Slots
          BY <1>1, <3>3 DEF Single, Given, Slots, Capacity
        <4>2. (\A x \in sessions : x.id = n <=> x.sid = sid[c])' /\ (\A d \in Clients \ {c} : got[d] # n)'
          BY <1>1, <3>1, <3>3 DEF Single
        <4> QED BY <3>5, <4>1, <4>2 DEF Single
      <3>7. (Mine(c, got[c]) /\ got[c] # Refused)'
        BY <1>3, <3>1, <3>2, <3>3, <3>6 DEF Mine, Single
      <3> QED BY <2>2, <3>7 DEF Placed, Active
    <2> QED BY <1>1, <2>1, <2>2
  <1> QED BY <1>1, <1>2, <1>3, <1>4, <1>5, <1>6, <1>7, <1>8, <1>9, ClientLeaves

(* try_pop: a slot that somebody still uses is shared, others are clean. *)
LEMMA PopAnswers ==
  ASSUME IInv, AInv, NEW c \in Clients, NEW admin \in BOOLEAN, pc[c] = "idle", PopFree(c, admin),
         freePoped < freePushed + AdminSlots
  PROVE  AInv'
  <1>0. /\ QueueTypes /\ DOMAIN pc = Clients /\ DOMAIN sid = Clients /\ Slots' = Slots
        /\ \A d \in Clients : sid[d].slot \in Slots
    BY DEF IInv, QueueTypes, Slots, Capacity, Sids
  <1>1. PICK m \in Slots : m = freeQ[Index(freePoped)]
    BY <1>0, IndexInRing DEF QueueTypes
  <1>2. /\ sid'[c].slot = m /\ sid'[c].number = freePoped /\ pc'[c] = "popped" /\ freePoped' = freePoped + 1
        /\ \A d \in Clients \ {c} : pc'[d] = pc[d] /\ sid'[d] = sid[d]
        /\ UNCHANGED <<got, element, sessions, nextSession, listener, spoiled, reqQ, reqPushed, reqPoped>>
    BY <1>0, <1>1 DEF PopFree, Remember, reqVars, serverVars
  <1>3. disturbed' = disturbed \cup Sharing(c, m) \cup {d \in {c} : Sharing(c, m) # {} \/ m \in spoiled}
    BY <1>1 DEF PopFree, Remember
  <1>4. Requested' = Requested
    BY <1>2 DEF Requested, ReqWindow, Index
  <1>5. SidsOut' = SidsOut \cup {sid'[c]}
    BY PopHandsOver
  <1>6. \A d \in Clients \ {c} : /\ Active(d)' <=> Active(d)
                                 /\ Answering(d)' <=> Answering(d)
                                 /\ Live(d)' <=> Live(d)
    BY <1>2 DEF Active, Answering, Live
  <1>7. ~Active(c) /\ ~Answering(c) /\ Active(c)'
    BY <1>2 DEF Active, Answering
  <1>8. Numbered'
    BY <1>2, <1>5, <1>6, NumberTaken DEF AInv
  <1>9. \A k : Given(k) => Given(k)'
    BY <1>2 DEF Given
  <1>10. Ids'
    BY <1>2, <1>9, IdsKept DEF AInv, Ids
  <1>11. ASSUME NEW d \in Clients \ disturbed', d # c PROVE Placed(d)'
    <2>1. Placed(d) /\ d \notin Sharing(c, m)
      BY <1>3, <1>11 DEF AInv
    <2>2. Active(d) => sid'[c].slot # sid[d].slot
      BY <1>2, <1>11, <2>1 DEF Sharing
    <2>3. Apart(d)
      <3>1. \A e \in Clients \ {d} :
              Active(d) /\ Active(e)' => sid'[e].slot # sid[d].slot \/ (Active(e) /\ sid'[e] = sid[e])
        BY <1>2, <1>6, <2>2
      <3> QED BY <1>2, <1>4, <1>11, <3>1 DEF Apart
    <2> QED BY <1>9, <2>1, <2>3, StaysPlaced
  <1>12. ASSUME c \notin disturbed' PROVE Placed(c)'
    <2>1. Sharing(c, m) = {} /\ m \notin spoiled
      BY <1>3, <1>12
    <2>2. element[m] = Unanswered
      <3>1. \A d \in Clients : Answering(d) => sid[d].slot # m
        BY <1>7, <2>1 DEF Sharing, Answering, Active
      <3> QED BY <1>1, <2>1, <3>1 DEF AInv, Clean
    <2>3. \A t \in Requested : t.slot # m
      <3>1. freePoped \in FreeWindow
        BY <1>0, SMT DEF QueueTypes, FreeWindow
      <3>2. <<"free", freePoped>> \in Holders(m)
        BY <1>1, <3>1 DEF Holders, FreeHolders
      <3>3. \A h \in Holders(m) : h = <<"free", freePoped>>
        BY <3>2, OneHolder DEF IInv
      <3>4. \A t \in Requested : \E h \in Holders(t.slot) : h[1] # "free"
        BY OutHasHolder DEF Requested, SidsOut
      <3> QED BY <3>3, <3>4, SMT
    <2>4. Sole(c)'
      <3>1. \A d \in Clients \ {c} : Active(d)' => sid'[d].slot # sid'[c].slot
        BY <1>2, <1>6, <2>1 DEF Sharing
      <3>2. \A t \in Requested' : t.slot # sid'[c].slot
        BY <1>2, <1>4, <2>3
      <3> QED BY <3>1, <3>2 DEF Sole
    <2>5. element'[sid'[c].slot] = Unanswered
      BY <1>2, <2>2
    <2> QED BY <1>2, <2>4, <2>5 DEF Placed
  <1>13. Awaited'
    <2>1. SUFFICES ASSUME NEW t \in Requested
                   PROVE  t.slot \in spoiled \/ \E d \in Clients : Answering(d)' /\ sid'[d] = t
      BY <1>2, <1>4 DEF Awaited
    <2> QED BY <1>2, <1>6, <1>7 DEF AInv, Awaited
  <1>14. Clean'
    <2>1. SUFFICES ASSUME NEW s \in Slots, element[s] # Unanswered
                   PROVE  s \in spoiled \/ \E d \in Clients : Answering(d)' /\ sid'[d].slot = s
      BY <1>0, <1>2 DEF Clean
    <2> QED BY <1>2, <1>6, <1>7, <2>1 DEF AInv, Clean
  <1> QED BY <1>8, <1>10, <1>11, <1>12, <1>13, <1>14 DEF AInv

(* q_requested_.push: the request of a client gets in line. *)
LEMMA PushAnswers ==
  ASSUME IInv, AInv, NEW c \in Clients, PushRequest(c)
  PROVE  AInv'
  <1>0. /\ QueueTypes /\ DOMAIN pc = Clients /\ Slots' = Slots
    BY DEF IInv, QueueTypes, Slots, Capacity
  <1>1. /\ pc[c] = "popped" /\ pc'[c] = "requested" /\ sid' = sid /\ got' = got
        /\ \A d \in Clients \ {c} : pc'[d] = pc[d]
        /\ UNCHANGED <<freePoped, sessions, nextSession, listener, element, disturbed, spoiled>>
    BY <1>0 DEF PushRequest, freeVars, serverVars, history
  <1>2. Requested' = Requested \cup {sid[c]} /\ SidsOut' = SidsOut
    BY PushRequestHandsOver DEF Requested
  <1>3. /\ \A d \in Clients : (Active(d)' <=> Active(d)) /\ (Live(d)' <=> Live(d))
        /\ \A d \in Clients : Answering(d) => Answering(d)'
        /\ Active(c) /\ Live(c) /\ Answering(c)'
    BY <1>1 DEF Active, Live, Answering
  <1>4. Numbered'
    BY <1>1, <1>2, <1>3, NumbersKept DEF AInv
  <1>5. \A k : Given(k) => Given(k)'
    BY <1>1 DEF Given
  <1>6. Ids'
    BY <1>1, <1>5, IdsKept DEF AInv, Ids
  <1>7. ASSUME NEW d \in Clients \ disturbed', d # c PROVE Placed(d)'
    <2>1. Placed(d)
      BY <1>1, <1>7 DEF AInv
    <2>2. Live(d) => sid[c] # sid[d]
      BY <1>3, <1>7 DEF AInv, Numbered
    <2>3. CASE pc[d] = "idle"
      BY <1>1, <1>7, <2>3 DEF Placed, Active
    <2>4. CASE pc[d] # "idle"
      <3>1. sid[c] # sid[d] /\ (Active(d) => sid[c].slot # sid[d].slot)
        BY <1>3, <1>7, <2>1, <2>2, <2>4 DEF Live, Placed, Sole
      <3>2. Apart(d)
        BY <1>1, <1>2, <1>3, <1>7, <3>1 DEF Apart
      <3> QED BY <1>5, <2>1, <3>2, StaysPlaced
    <2> QED BY <2>3, <2>4
  <1>8. ASSUME c \notin disturbed' PROVE Placed(c)'
    <2>1. Sole(c) /\ element[sid[c].slot] = Unanswered
      BY <1>1, <1>3, <1>8 DEF AInv, Placed
    <2>2. Sole(c)'
      BY <1>1, <1>2, <1>3, <2>1 DEF Sole
    <2>3. InLine(c)'
      BY <1>1, <1>2, <2>1 DEF InLine
    <2> QED BY <1>1, <2>2, <2>3 DEF Placed
  <1>9. Awaited'
    BY <1>1, <1>2, <1>3 DEF AInv, Awaited
  <1>10. Clean'
    BY <1>0, <1>1, <1>3 DEF AInv, Clean
  <1> QED BY <1>4, <1>6, <1>7, <1>8, <1>9, <1>10 DEF AInv

(* Steps of the server that touch neither the elements nor the requests. *)
LEMMA ServerMoves ==
  ASSUME IInv, AInv, UNCHANGED <<pc, sid, got, element, disturbed, spoiled, freePoped>>,
         Requested' = Requested, SidsOut' \subseteq SidsOut, sessions' \subseteq sessions,
         \/ nextSession' = nextSession /\ (listener' = "requested" => listener = "requested")
         \/ nextSession' = nextSession + 1 /\ listener # "requested"
  PROVE  AInv'
  <1>0. /\ \A d \in Clients : (Active(d)' <=> Active(d)) /\ (Live(d)' <=> Live(d))
        /\ \A d \in Clients : Answering(d)' <=> Answering(d)
        /\ Slots' = Slots
    BY DEF Active, Live, Answering, Slots, Capacity
  <1>1. Numbered'
    BY <1>0, NumbersKept DEF AInv
  <1>2. \A k : Given(k) => Given(k)'
    BY GivenKept DEF AInv
  <1>3. Ids'
    <2>1. listener' = "requested" => nextSession' # 0
      <3>1. nextSession \in Nat
        BY DEF IInv, QueueTypes
      <3>2. nextSession + 1 # 0
        BY <3>1, SMT
      <3> QED BY <3>2 DEF AInv, Ids
    <2> QED BY <1>2, <2>1, IdsKept DEF AInv
  <1>4. ASSUME NEW d \in Clients \ disturbed' PROVE Placed(d)'
    <2>1. Placed(d)
      BY <1>4 DEF AInv
    <2>2. Apart(d)
      BY <1>0 DEF Apart
    <2> QED BY <1>2, <2>1, <2>2, StaysPlaced
  <1>5. Awaited' /\ Clean'
    BY <1>0 DEF AInv, Awaited, Clean
  <1> QED BY <1>1, <1>3, <1>4, <1>5 DEF AInv

(* The listener's other steps, disconnect and request_terminate. *)
LEMMA ServerAnswers ==
  ASSUME IInv, AInv,
         \/ ListenRequest \/ Doze \/ FallAsleep \/ ListenNothing \/ CheckTerminated \/ RejectPush
         \/ RequestTerminate \/ NotifyTerminate \/ UNCHANGED vars
         \/ \E x \in sessions : Disconnect(x)
  PROVE  AInv'
  <1> USE DEF freeVars, reqVars, clientVars, serverVars, history, PushFree
  <1>1. CASE \/ ListenRequest \/ Doze \/ FallAsleep \/ ListenNothing \/ CheckTerminated
             \/ RequestTerminate \/ NotifyTerminate \/ UNCHANGED vars
    <2> USE DEF ListenRequest, Doze, FallAsleep, ListenNothing, CheckTerminated, RequestTerminate,
                NotifyTerminate, vars
    <2>1. UNCHANGED <<pc, sid, got, element, disturbed, spoiled, freePoped, freeQ, freePushed, adminInUse,
                      reqQ, reqPushed, reqPoped, sessions, rejected>>
      BY <1>1
    <2>2. /\ \/ nextSession' = nextSession /\ (listener' = "requested" => listener = "requested")
             \/ nextSession' = nextSession + 1 /\ listener # "requested"
          /\ listener = "rejecting" <=> listener' = "rejecting"
      BY <1>1
    <2>3. Requested' = Requested
      BY <2>1 DEF Requested, ReqWindow, Index
    <2>4. SidsOut' = SidsOut
      BY <2>1, <2>2, NothingMoved
    <2> QED BY <2>1, <2>2, <2>3, <2>4, ServerMoves
  <1>2. CASE RejectPush
    <2>1. /\ UNCHANGED <<pc, sid, got, element, disturbed, spoiled, freePoped, reqQ, reqPushed, reqPoped,
                         sessions, nextSession>>
          /\ listener' = "listening"
      BY <1>2 DEF RejectPush
    <2>2. Requested' = Requested
      BY <2>1 DEF Requested, ReqWindow, Index
    <2>3. SidsOut' \subseteq SidsOut
      BY <1>2, RejectPushHandsOver
    <2> QED BY <2>1, <2>2, <2>3, ServerMoves
  <1>3. ASSUME NEW x \in sessions, Disconnect(x) PROVE AInv'
    <2>1. /\ UNCHANGED <<pc, sid, got, element, disturbed, spoiled, freePoped, reqQ, reqPushed, reqPoped,
                         nextSession, listener>>
          /\ sessions' \subseteq sessions
      BY <1>3 DEF Disconnect
    <2>2. Requested' = Requested
      BY <2>1 DEF Requested, ReqWindow, Index
    <2>3. SidsOut' \subseteq SidsOut
      BY <1>3, DisconnectHandsOver
    <2> QED BY <2>1, <2>2, <2>3, ServerMoves
  <1> QED BY <1>1, <1>2, <1>3

(* accept and reject: the front of the ring gets its answer a. *)
LEMMA FrontAnswered ==
  ASSUME IInv, AInv, listener = "requested", listener' # "requested",
         reqPoped' = reqPoped + 1, SidsOut' = SidsOut,
         UNCHANGED <<reqQ, reqPushed, pc, sid, got, disturbed, spoiled, freePoped, nextSession>>,
         NEW a, element' = [element EXCEPT ![Front.slot] = a],
         \/ a = Refused /\ sessions' = sessions
         \/ a = nextSession /\ sessions' = sessions \cup {[id |-> nextSession, sid |-> Front]}
  PROVE  AInv'
  <1>0. /\ QueueTypes /\ DOMAIN element = Slots /\ Slots' = Slots /\ nextSession \in Nat /\ nextSession # 0
        /\ \A d \in Clients : sid[d].slot \in Slots
        /\ \A d \in Clients : (Active(d)' <=> Active(d)) /\ (Live(d)' <=> Live(d))
        /\ \A d \in Clients : Answering(d)' <=> Answering(d)
    BY DEF IInv, QueueTypes, Slots, Capacity, Sids, Active, Live, Answering, AInv, Ids
  <1>1. Front \in Sids /\ Front \in Requested /\ Requested' = Requested \ {Front} /\ Front.slot \in Slots
    BY FrontGone DEF Sids
  <1>2. /\ element'[Front.slot] = a
        /\ \A s \in Slots \ {Front.slot} : element'[s] = element[s]
    BY <1>0, <1>1
  <1>3. Numbered'
    BY <1>0, NumbersKept DEF AInv
  <1>4. \A k : Given(k) => Given(k)' /\ k # nextSession
    BY DEF Given
  <1>5. Given(nextSession)'
    <2>1. nextSession <= nextSession
      BY <1>0, SMT
    <2> QED BY <1>0, <2>1 DEF Given
  <1>6. Known(a)'
    <2>1. a = Refused \/ a = nextSession
      OBVIOUS
    <2>2. Known(Refused)' /\ Known(nextSession)'
      BY <1>5 DEF Known, Given
    <2> QED BY <2>1, <2>2 DEF Known, Given
  <1>7. Ids'
    <2>1. \A k : Known(k) => Known(k)'
      BY <1>4 DEF Known
    <2>2. ASSUME NEW s \in Slots PROVE Known(element[s])'
      <3>1. CASE s = Front.slot
        BY <1>2, <1>6, <3>1 DEF Known, Given
      <3>2. CASE s # Front.slot
        <4>1. PICK k : k = element[s] /\ k = element'[s]
          BY <1>2, <3>2
        <4>2. Known(k)'
          BY <2>1, <4>1 DEF AInv, Ids
        <4> QED BY <4>1, <4>2 DEF Known, Given
      <3> QED BY <3>1, <3>2
    <2>3. ASSUME NEW c \in Clients PROVE Known(got[c])'
      BY <2>1 DEF AInv, Ids, Known, Given
    <2>4. ASSUME NEW x \in sessions' PROVE Given(x.id)'
      <3>1. CASE x \in sessions
        BY <1>4, <3>1 DEF AInv, Ids
      <3>2. CASE x = [id |-> nextSession, sid |-> Front]
        BY <1>5, <3>2 DEF Given
      <3> QED BY <3>1, <3>2
    <2> QED BY <1>0, <2>2, <2>3, <2>4 DEF Ids
  <1>8. ASSUME NEW d \in Clients \ disturbed', sid[d] # Front PROVE Placed(d)'
    <2>1. Placed(d)
      BY <1>8 DEF AInv
    <2>2. Active(d) => Front.slot # sid[d].slot
      BY <1>1, <1>8, <2>1 DEF Placed, Sole
    <2>3. \A x \in sessions' : x \in sessions \/ (~Given(x.id) /\ x.sid # sid[d])
      <3>1. PICK y : y = [id |-> nextSession, sid |-> Front]
        OBVIOUS
      <3>2. ~Given(y.id) /\ y.sid # sid[d]
        BY <1>4, <1>8, <3>1
      <3>3. sessions' = sessions \/ sessions' = sessions \cup {y}
        BY <3>1
      <3> QED BY <3>2, <3>3
    <2>4. \A s \in Slots : \/ element'[s] = element[s] \/ element'[s] \in {Unanswered, Refused}
                           \/ ~Given(element'[s])
      BY <1>2, <1>4
    <2>5. Apart(d)
      BY <1>0, <1>1, <1>2, <1>8, <2>2, <2>3, <2>4 DEF Apart
    <2> QED BY <1>4, <2>1, <2>5, StaysPlaced
  <1>9. ASSUME NEW d \in Clients \ disturbed', sid[d] = Front PROVE Placed(d)'
    <2>0. Placed(d)
      BY <1>9 DEF AInv
    <2>1. CASE Active(d)
      <3>1. Sole(d) /\ Sole(d)'
        BY <1>0, <1>1, <1>9, <2>0, <2>1 DEF Placed, Sole
      <3>2. \A n : ~Mine(d, n)
        BY <1>1, <1>9 DEF Mine
      <3>3. pc[d] # "answered" /\ pc[d] # "read" /\ pc[d] # "connected"
        BY <2>0, <3>2 DEF Placed
      <3>4. pc[d] # "popped"
        <4>1. SUFFICES ASSUME pc[d] = "popped" PROVE FALSE
          OBVIOUS
        <4>2. PICK i \in ReqWindow : reqQ[Index(i)] = sid[d]
          BY <1>1, <1>9 DEF Requested
        <4>3. <<"requested", i>> \in Holders(sid[d].slot) /\ <<"client", d>> \in Holders(sid[d].slot)
          BY <4>1, <4>2 DEF Holders, RequestHolders, ClientHolders
        <4>4. <<"requested", i>> = <<"client", d>>
          BY <1>0, <4>3, OneHolder DEF IInv
        <4> QED BY <4>4
      <3>5. Mine(d, a)'
        <4>1. sid'[d] \notin Requested'
          BY <1>1, <1>9
        <4>2. CASE a = Refused
          BY <4>1, <4>2 DEF Mine
        <4>3. CASE a = nextSession /\ sessions' = sessions \cup {[id |-> nextSession, sid |-> Front]}
          <5>1. ASSUME NEW x \in sessions' PROVE x.id = a <=> x.sid = sid'[d]
            <6>1. CASE x \in sessions
              <7>1. x.id # nextSession
                BY <1>4, <6>1 DEF AInv, Ids
              <7>2. x.sid # Front
                BY <1>1, <6>1, Holding
              <7> QED BY <1>9, <4>3, <7>1, <7>2
            <6>2. CASE x = [id |-> nextSession, sid |-> Front]
              BY <1>9, <4>3, <6>2
            <6> QED BY <4>3, <6>1, <6>2
          <5>2. \A e \in Clients \ {d} : got'[e] # a
            <6>1. \A e \in Clients : got[e] # nextSession
              BY <1>0, <1>4, Positive DEF AInv, Ids, Known
            <6> QED BY <4>3, <6>1
          <5>3. ASSUME NEW s \in Slots, element'[s] = a PROVE Active(d)' /\ s = sid'[d].slot
            <6>1. element[s] # nextSession
              BY <1>0, <1>4, Positive DEF AInv, Ids, Known
            <6> QED BY <1>0, <1>2, <1>9, <2>1, <4>3, <5>3, <6>1
          <5>4. Given(a)'
            BY <1>5, <4>3 DEF Given
          <5> QED BY <1>0, <4>1, <5>1, <5>2, <5>3, <5>4 DEF Mine, Single
        <4> QED BY <4>2, <4>3
      <3>6. element'[sid'[d].slot] = a
        BY <1>2, <1>9
      <3>7. Mine(d, element[sid[d].slot])'
        BY <3>5, <3>6 DEF Mine, Single
      <3> QED BY <3>1, <3>3, <3>4, <3>7 DEF Placed
    <2>2. CASE pc[d] = "idle"
      BY <2>2 DEF Placed, Active
    <2>3. CASE pc[d] = "connected"
      BY <1>1, <1>9, <2>0, <2>3 DEF Placed, Mine
    <2> QED BY <2>1, <2>2, <2>3 DEF Active
  <1>10. Awaited'
    BY <1>0, <1>1 DEF AInv, Awaited
  <1>11. Clean'
    <2>1. SUFFICES ASSUME NEW s \in Slots, element'[s] # Unanswered
                   PROVE  s \in spoiled \/ \E d \in Clients : Answering(d) /\ sid[d].slot = s
      BY <1>0 DEF Clean
    <2>2. CASE s = Front.slot
      BY <1>1, <2>2 DEF AInv, Awaited
    <2>3. CASE s # Front.slot
      BY <1>2, <2>1, <2>3 DEF AInv, Clean
    <2> QED BY <2>2, <2>3
  <1> QED BY <1>3, <1>7, <1>8, <1>9, <1>10, <1>11 DEF AInv

(* Nobody has an answer at the start. *)
LEMMA InitAInv == Init => AInv
  <1> SUFFICES ASSUME Init PROVE AInv
    OBVIOUS
  <1> USE DEF Init
  <1>1. ReqWindow = {}
    BY SMT DEF ReqWindow
  <1>2. Requested = {} /\ SidsOut = {}
    BY <1>1 DEF Requested, SidsOut
  <1>3. Numbered
    BY <1>2 DEF Numbered, Live
  <1>4. Ids
    BY DEF Ids, Known
  <1>5. \A c \in Clients : Placed(c)
    BY DEF Placed, Active
  <1>6. Awaited /\ Clean
    BY <1>2 DEF Awaited, Clean
  <1> QED BY <1>3, <1>4, <1>5, <1>6 DEF AInv

(* Every step keeps the answers, or overdraws the free ring. *)
LEMMA NextAInv ==
  ASSUME IInv, AInv, [Next]_vars
  PROVE  AInv' \/ overdrawn'
  <1>1. ASSUME NEW c \in Clients, NEW admin \in BOOLEAN, pc[c] = "idle", PopFree(c, admin)
        PROVE  AInv' \/ overdrawn'
    <2>1. CASE freePoped < freePushed + AdminSlots
      BY <1>1, <2>1, PopAnswers
    <2>2. CASE ~(freePoped < freePushed + AdminSlots)
      <3>1. freePoped >= freePushed + AdminSlots
        BY <2>2, SMT DEF IInv, QueueTypes
      <3> QED BY <1>1, <3>1 DEF PopFree, Remember
    <2> QED BY <2>1, <2>2
  <1>2. ASSUME NEW c \in Clients, ClientStep(c) PROVE AInv' \/ overdrawn'
    <2>1. CASE Request(c) \/ RequestAdmin(c)
      BY <1>1, <2>1 DEF Request, RequestAdmin
    <2>2. CASE PushRequest(c)
      BY <2>2, PushAnswers
    <2>3. CASE EnterWait(c) \/ Wake(c) \/ ReadAnswer(c) \/ TimeOut(c) \/ Reuse(c) \/ Close(c)
      BY <2>3, WaitingAnswers, LeavingAnswers
    <2> QED BY <1>2, <2>1, <2>2, <2>3 DEF ClientStep
  <1>3. ASSUME Accept PROVE AInv'
    <2>1. SidsOut' = SidsOut
      BY <1>3, AcceptHandsOver
    <2>2. PICK a : a = nextSession
      OBVIOUS
    <2>3. /\ listener = "requested" /\ listener' # "requested" /\ reqPoped' = reqPoped + 1
          /\ UNCHANGED <<reqQ, reqPushed, pc, sid, got, disturbed, spoiled, freePoped, nextSession>>
          /\ element' = [element EXCEPT ![Front.slot] = a]
          /\ a = nextSession /\ sessions' = sessions \cup {[id |-> nextSession, sid |-> Front]}
      BY <1>3, <2>2 DEF Accept, freeVars, clientVars, history
    <2> QED BY <2>1, <2>3, FrontAnswered
  <1>4. ASSUME Reject PROVE AInv'
    <2>1. SidsOut' = SidsOut
      BY <1>4, RejectHandsOver
    <2>2. PICK a : a = Refused
      OBVIOUS
    <2>3. /\ listener = "requested" /\ listener' # "requested" /\ reqPoped' = reqPoped + 1
          /\ UNCHANGED <<reqQ, reqPushed, pc, sid, got, disturbed, spoiled, freePoped, nextSession>>
          /\ element' = [element EXCEPT ![Front.slot] = a]
          /\ a = Refused /\ sessions' = sessions
      BY <1>4, <2>2 DEF Reject, freeVars, clientVars, history
    <2> QED BY <2>1, <2>3, FrontAnswered
  <1>5. CASE \/ ListenRequest \/ Doze \/ FallAsleep \/ ListenNothing \/ CheckTerminated \/ RejectPush
             \/ RequestTerminate \/ NotifyTerminate \/ UNCHANGED vars
             \/ \E x \in sessions : Disconnect(x)
    BY <1>5, ServerAnswers
  <1> QED BY <1>2, <1>3, <1>4, <1>5 DEF Next, ListenerStep

(***************************************************************************)
(* Whatever the server rejects or ends, whenever it terminates and         *)
(* whoever gives up waiting: connection_queue::wait returns to a client    *)
(* the session of its own request, unless its slot was handed out while    *)
(* its element was still in use, or after a client had left it to a late   *)
(* answer.                                                                 *)
(***************************************************************************)
THEOREM AnswersAreOwn == Spec => []OwnAnswer
  <1> DEFINE J == overdrawn \/ (IInv /\ AInv)
  <1>1. Init => J
    BY InitIInv, InitAInv
  <1>2. J /\ [Next]_vars => J'
    BY NextIInv, NextAInv, OverdrawnForGood
  <1>3. J => OwnAnswer
    <2>1. SUFFICES ASSUME IInv, AInv, NEW c \in Clients \ disturbed, pc[c] = "connected"
                   PROVE  /\ got[c] \notin {Unanswered, Refused}
                          /\ \A x \in sessions : got[c] = x.id <=> sid[c].number = x.sid.number
                          /\ \A d \in Clients \ {c} : got[c] # got[d]
      BY DEF OwnAnswer
    <2>2. Single(c, got[c])
      BY <2>1 DEF AInv, Placed, Mine
    <2>3. got[c] \notin {Unanswered, Refused}
      BY <2>2, GivenIsAnswer DEF Single
    <2>4. ASSUME NEW x \in sessions PROVE x.sid = sid[c] <=> x.sid.number = sid[c].number
      <3>1. x.sid \in SidsOut
        BY DEF SidsOut
      <3> QED BY <2>1, <3>1 DEF AInv, Numbered, Live
    <2> QED BY <2>2, <2>3, <2>4 DEF Single
  <1> QED BY <1>1, <1>2, <1>3, PTL DEF Spec
=============================================================================
