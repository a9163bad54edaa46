----------------------- MODULE SimpleWireChannelProofs -----------------------
(***************************************************************************)
(* Proofs about SimpleWire, continued: the steps of the reader and of the  *)
(* signal, and with them the theorems on the contents of the ring, for     *)
(* every capacity, header size and length of the messages.  The ring is    *)
(* never over- or underrun, a view shows its message, and the wire         *)
(* implements MessageChannel.                                              *)
(***************************************************************************)
EXTENDS SimpleWireProofs

(* The prover of the leaves that do not name one. *)
USE Zenon

(* The reader. *)

(* What the steps of the reader leave alone.                               *)
LEMMA ReaderFrame ==
  ASSUME TypeOK, ReaderStep \/ Expire
  PROVE  /\ UNCHANGED <<buf, pushed, sent, wlen, woff, mark, spc>>
         /\ wpc' = wpc \/ (wpc = "asleep" /\ wpc' = "woken")
         /\ flags \ {"terminate"} \subseteq flags' /\ flags' \subseteq flags
         /\ poped' \in Nat /\ poped <= poped'
  <1>0. poped \in Nat /\ needDispose \in Nat /\ Part \in Nat /\ HeaderSize \in Nat
    BY Numbers
  <1>1. /\ UNCHANGED <<buf, pushed, sent, wlen, woff, mark, spc>>
        /\ wpc' = wpc \/ (wpc = "asleep" /\ wpc' = "woken")
        /\ flags \ {"terminate"} \subseteq flags' /\ flags' \subseteq flags
    BY DEF ReaderStep, LoadFlags, CheckStored, WaitToRead, TestMessage, ReaderWakes, Expire, Read,
           Payload, Dispose, Pop, LookForWriter, NotifyWriter, WakeWriter, TestPart, ReadMore,
           ReadDummy, ringVars, writerVars
  <1>2. \/ poped' = poped
        \/ poped' = poped + needDispose
        \/ poped' = poped + HeaderSize
        \/ poped' = poped + Part + (IF FirstPart THEN HeaderSize ELSE 0)
    BY DEF ReaderStep, LoadFlags, CheckStored, WaitToRead, TestMessage, ReaderWakes, Expire, Read,
           Payload, Dispose, Pop, LookForWriter, NotifyWriter, TestPart, ReadMore,
           ReadDummy, ringVars
  <1>3. poped' \in Nat /\ poped <= poped'
    BY <1>0, <1>2, SMT
  <1> QED BY <1>1, <1>3

(* What there is of the message that the reader is at. *)
LEMMA CurrentThere ==
  ASSUME TypeOK, Laid, Contents, Len(delivered) <= Len(sent), Current <= Len(sent)
  PROVE  /\ Current \in 1 .. Len(sent)
         /\ sent[Current].at \in Nat /\ sent[Current].length \in Nat /\ sent[Current].length \in Lengths
         /\ Size(Current) \in Nat /\ Size(Current) = HeaderSize + sent[Current].length
         /\ sent[Current].at + MinOf(Size(Current), Capacity) <= pushed
         /\ \A k \in 0 .. Size(Current) - 1 :
               poped <= sent[Current].at + k /\ sent[Current].at + k < pushed
               => buf[Index(sent[Current].at + k)] = <<Current, k>>
  <1>1. Current \in 1 .. Len(sent)
    BY SentTypes, SMT DEF Current, TypeOK
  <1> QED BY <1>1, Places DEF Laid, Contents

(* A header is found exactly where a message begins. *)
LEMMA HeaderThere ==
  ASSUME TypeOK, Laid, Contents, ReaderPlace, poped <= pushed, pushed <= poped + Capacity,
         rpc \in Between, Stored >= HeaderSize
  PROVE  /\ Current <= Len(sent) /\ poped = sent[Current].at
         /\ HeaderAt(poped) = [msg |-> Current, length |-> sent[Current].length]
  <1> DEFINE C == Current
  <1>0. /\ pushed \in Nat /\ poped \in Nat /\ HeaderSize \in Nat /\ HeaderSize > 0 /\ Capacity \in Nat
        /\ HeaderSize < Capacity /\ Len(delivered) <= Len(sent) /\ Len(sent) \in Nat
        /\ buf \in [0 .. Capacity - 1 -> Bytes]
    BY Numbers, SentTypes DEF ReaderPlace, TypeOK
  <1>1. Stored = pushed - poped
    BY StoredIs
  <1>2. poped + HeaderSize <= pushed
    BY <1>0, <1>1, SMT
  <1>3. C <= Len(sent) /\ poped = sent[C].at
    <2>1. poped = IF C <= Len(sent) THEN sent[C].at ELSE Total
      BY DEF ReaderPlace
    <2>2. pushed <= Total /\ Total \in Nat
      BY Places
    <2>3. ~(C <= Len(sent)) => FALSE
      BY <1>0, <1>2, <2>1, <2>2, SMT
    <2> QED BY <2>1, <2>3
  <1>4. /\ C \in 1 .. Len(sent) /\ sent[C].length \in Nat /\ Size(C) \in Nat
        /\ Size(C) = HeaderSize + sent[C].length
        /\ \A k \in 0 .. Size(C) - 1 :
              poped <= poped + k /\ poped + k < pushed => buf[Index(poped + k)] = <<C, k>>
    BY <1>0, <1>3, CurrentThere
  <1> HIDE DEF C
  <1>5. ASSUME NEW k \in 1 .. HeaderSize PROVE buf[Index(poped + (k - 0 - 1))] = <<C, k - 1>>
    <2>1. k - 1 \in 0 .. Size(C) - 1 /\ poped <= poped + (k - 1) /\ poped + (k - 1) < pushed
          /\ k - 0 - 1 = k - 1
      BY <1>0, <1>2, <1>4, SMT
    <2> QED BY <1>4, <2>1
  <1> DEFINE t == [k \in 1 .. HeaderSize |-> <<0, 0>>]
             bytes == ReadFromBuffer(t, 0, Index(poped), HeaderSize)
  <1>6. Fetched(bytes, t, HeaderSize, 0, poped, HeaderSize)
    <2>1. t \in [1 .. HeaderSize -> Bytes]
      BY DEF Bytes
    <2>2. HeaderSize \in 0 .. Capacity /\ 0 \in Nat
      BY <1>0, SMT
    <2> HIDE DEF t
    <2> QED BY <1>0, <2>1, <2>2, ReadSpec
  <1>7. HeaderAt(poped) = LET m == bytes[1][1] IN
                          IF m \in DOMAIN sent /\ \A k \in 1 .. HeaderSize : bytes[k] = <<m, k - 1>>
                          THEN [msg |-> m, length |-> sent[m].length] ELSE NoHeader
    BY DEF HeaderAt
  <1> HIDE DEF bytes, t
  <1>8. ASSUME NEW k \in 1 .. HeaderSize PROVE bytes[k] = <<C, k - 1>>
    <2>1. 0 < k /\ k <= 0 + HeaderSize
      BY <1>0, SMT
    <2>2. bytes[k] = buf[Index(poped + (k - 0 - 1))]
      BY <1>6, <2>1 DEF Fetched
    <2> QED BY <1>5, <2>2
  <1>9. bytes[1][1] = C
    <2>1. 1 \in 1 .. HeaderSize
      BY <1>0, SMT
    <2> QED BY <1>8, <2>1, SMT
  <1>10. C \in DOMAIN sent
    BY <1>4, SentTypes
  <1> QED BY <1>3, <1>7, <1>8, <1>9, <1>10 DEF C

(* Inside a message, when nothing is copied. *)
Reading == Inside \ {"header", "viewing", "pop"}

(* A reader that moves on inside a message, having read nothing, keeps its *)
(* place.                                                                  *)
LEMMA InsideHeld ==
  ASSUME ReaderPlace, rpc \in Reading, rpc' \in Reading,
         UNCHANGED <<sent, pushed, poped, delivered, header, rlen, top>>,
         rpc' \notin {"look", "notify"} => rlen > 0,
         rpc' = "r_copy" => poped + Part <= pushed
  PROVE  ReaderPlace'
  <1>1. Current' = Current /\ Got' = Got /\ FirstPart' = FirstPart /\ Part' = Part
    BY DEF Current, Got, FirstPart, Part, MinOf
  <1>2. \A n : Copied(n)' = Copied(n)
    BY DEF Copied, Shows, Current
  <1>3. /\ rpc' \in Inside /\ rpc' \notin Between
        /\ rpc' \notin {"header", "viewing", "pop", "interrupted"}
        /\ rpc' \in {"r_lock", "r_testing", "r_asleep", "r_woken", "r_copy"} => rpc' \notin {"look", "notify"}
        /\ rpc \in Inside /\ rpc \notin {"header", "viewing", "pop"}
    BY DEF Reading, Inside, Between
  <1>4. /\ Len(delivered) <= Len(sent) /\ Current <= Len(sent)
        /\ header = [msg |-> Current, length |-> sent[Current].length]
        /\ rlen <= header.length /\ DOMAIN top = 1 .. header.length
        /\ poped = sent[Current].at + HeaderSize + Got /\ Copied(Got)
        /\ rlen > 0 => ~FirstPart
    BY <1>3 DEF ReaderPlace
  <1> QED BY <1>1, <1>2, <1>3, <1>4 DEF ReaderPlace

(* The bytes of the message from offset o on, where the reader fetches them. *)
LEMMA FetchedBytes ==
  ASSUME TypeOK, Laid, Contents, Len(delivered) <= Len(sent), Current <= Len(sent),
         NEW t, NEW r, NEW l \in Nat, l = sent[Current].length, NEW o \in 0 .. l, NEW n \in Nat,
         NEW p \in Nat, p = sent[Current].at + HeaderSize + o, NEW j \in Nat, j = o + n,
         Fetched(r, t, l, o, p, n), poped <= p, p + n <= pushed, j <= l, Shows(t, o)
  PROVE  Shows(r, j)
  <1> DEFINE C == Current
             a == sent[C].at
  <1>1. /\ a \in Nat /\ HeaderSize \in Nat /\ pushed \in Nat /\ poped \in Nat
        /\ Size(C) = HeaderSize + l /\ poped <= p /\ p + n <= pushed
        /\ \A k \in 0 .. Size(C) - 1 :
              poped <= a + k /\ a + k < pushed => buf[Index(a + k)] = <<C, k>>
    BY CurrentThere, Numbers
  <1>2. Fetched(r, t, l, o, p, n) /\ \A k \in 1 .. o : t[k] = <<C, HeaderSize + (k - 1)>>
    BY DEF Shows
  <1>p. p = a + HeaderSize + o
    OBVIOUS
  <1>t. p \in Nat /\ o \in Nat /\ n \in Nat /\ l \in Nat
    BY SMT
  <1> HIDE DEF C, a
  <1>3. ASSUME NEW k \in 1 .. o + n PROVE r[k] = <<C, HeaderSize + (k - 1)>>
    <2>1. CASE k <= o
      <3>1. k \in 1 .. l /\ ~(o < k /\ k <= o + n) /\ k \in 1 .. o
        BY <2>1, SMT
      <3>2. r[k] = t[k]
        BY <1>2, <3>1 DEF Fetched
      <3> QED BY <1>2, <3>1, <3>2
    <2>2. CASE ~(k <= o)
      <3> DEFINE i == HeaderSize + (k - 1)
      <3>t. k \in Nat /\ o < k /\ k <= o + n /\ o + n <= l /\ k > 0
        BY <2>2, SMT
      <3>1. k \in 1 .. l /\ o < k /\ k <= o + n
        BY <2>2, SMT
      <3>2. r[k] = buf[Index(p + (k - o - 1))]
        BY <1>2, <3>1 DEF Fetched
      <3>3. p + (k - o - 1) = a + i
        BY ONLY <1>1, <1>p, <1>t, <3>t, SMT
      <3>4. i \in 0 .. Size(C) - 1 /\ poped <= a + i /\ a + i < pushed
        BY ONLY <1>1, <1>p, <1>t, <3>t, SMT
      <3>5. buf[Index(a + i)] = <<C, i>>
        BY <1>1, <3>4
      <3> QED BY <3>2, <3>3, <3>5
    <2> QED BY <2>1, <2>2
  <1> QED BY <1>3 DEF C, Shows

(* The first part of a message is what was sent.                           *)
LEMMA ReadFirstHolds ==
  ASSUME TypeOK, Laid, Contents, ReaderPlace, rpc = "header", ReadFirst,
         UNCHANGED <<sent, pushed, poped, delivered, header>>
  PROVE  ReaderPlace'
  <1> DEFINE C == Current
             l == header.length
             n == MinOf(l, MaxPayloadLength)
  <1>1. /\ Len(delivered) <= Len(sent) /\ C <= Len(sent) /\ poped = sent[C].at
        /\ header = [msg |-> C, length |-> sent[C].length]
    BY DEF ReaderPlace, Inside
  <1>2. /\ sent[C].at \in Nat /\ sent[C].length \in Nat /\ Size(C) = HeaderSize + sent[C].length
        /\ sent[C].at + MinOf(Size(C), Capacity) <= pushed
    BY <1>1, CurrentThere
  <1>3. /\ HeaderSize \in Nat /\ HeaderSize < Capacity /\ Capacity \in Nat /\ pushed \in Nat /\ poped \in Nat
        /\ l \in Nat /\ l = sent[C].length
    BY <1>1, Numbers
  <1>4. n \in Nat /\ n <= l /\ HeaderSize + n = MinOf(Size(C), Capacity)
    BY <1>2, <1>3, SMT DEF MinOf, MaxPayloadLength
  <1>5. poped + n + HeaderSize <= pushed
    <2>1. sent[C].at + (HeaderSize + n) <= pushed
      BY <1>2, <1>4
    <2> QED BY <1>1, <1>2, <1>3, <1>4, <2>1, SMT
  <1>6. Fetched(top', Blank(l), l, 0, poped + HeaderSize, n)
    BY FirstSpec
  <1>7. rlen' = l /\ rpc' = "pop" /\ Current' = C /\ Got' = 0 /\ FirstPart' /\ Part' = n
    <2>1. rlen' = l /\ rpc' = "pop" /\ header' = header /\ Current' = C
      BY DEF ReadFirst, Current
    <2> QED BY <1>3, <2>1, SMT DEF Got, FirstPart, Part
  <1> HIDE DEF n, l, C
  <1>8. Shows(top', n)
    <2>1. /\ 0 \in 0 .. l /\ n = 0 + n /\ poped + HeaderSize \in Nat
          /\ poped + HeaderSize = poped + HeaderSize + 0
          /\ poped <= poped + HeaderSize /\ (poped + HeaderSize) + n <= pushed
      BY <1>3, <1>4, <1>5, SMT
    <2>2. Shows(Blank(l), 0)
      BY SMT DEF Shows
    <2> QED BY <1>1, <1>3, <1>4, <1>6, <2>1, <2>2, FetchedBytes DEF C
  <1>9. DOMAIN top' = 1 .. l
    BY <1>6 DEF Fetched
  <1>10. 0 + n = n /\ sent[C].at + 0 = sent[C].at /\ l <= l
    BY <1>2, <1>3, <1>4, SMT
  <1>12. Copied(Got + Part)'
    BY <1>7, <1>8, <1>10 DEF Copied, Shows, C
  <1> QED BY <1>1, <1>5, <1>7, <1>9, <1>10, <1>12 DEF ReaderPlace, Between, Inside, C, l

(* A view does not wrap: the whole message is behind its beginning. *)
LEMMA ViewSpec ==
  ASSUME TypeOK, Laid, Contents, ReaderPlace, rpc = "viewing"
  PROVE  /\ poped + Size(Current) <= pushed
         /\ View \in [1 .. header.length -> Bytes] /\ Shows(View, header.length)
         /\ header = [msg |-> Current, length |-> sent[Current].length]
         /\ Current \in 1 .. Len(sent)
  <1> DEFINE C == Current
             l == header.length
             p == poped + HeaderSize
             i == Index(p)
  <1>1. /\ Len(delivered) <= Len(sent) /\ C <= Len(sent) /\ poped = sent[C].at
        /\ header = [msg |-> C, length |-> sent[C].length]
        /\ Index(poped + HeaderSize) < Index(poped + Size(C))
        /\ l <= MaxPayloadLength
    BY DEF ReaderPlace, Inside
  <1>2. /\ sent[C].at \in Nat /\ sent[C].length \in Nat /\ Size(C) = HeaderSize + sent[C].length
        /\ sent[C].at + MinOf(Size(C), Capacity) <= pushed /\ C \in 1 .. Len(sent)
        /\ \A k \in 0 .. Size(C) - 1 :
              poped <= poped + k /\ poped + k < pushed => buf[Index(poped + k)] = <<C, k>>
    BY <1>1, CurrentThere
  <1>3. /\ HeaderSize \in Nat /\ HeaderSize < Capacity /\ Capacity \in Nat /\ pushed \in Nat /\ poped \in Nat
        /\ l \in Nat /\ l = sent[C].length /\ HeaderSize > 0
    BY <1>1, Numbers
  <1>4. l < Capacity /\ HeaderSize + l <= Capacity
    BY <1>1, <1>3, SMT DEF MaxPayloadLength
  <1>5. Size(C) = HeaderSize + l /\ MinOf(Size(C), Capacity) = HeaderSize + l
    BY <1>2, <1>3, <1>4, SMT DEF MinOf
  <1>6. poped + (HeaderSize + l) <= pushed
    BY <1>1, <1>2, <1>5
  <1>7. i \in 0 .. Capacity - 1 /\ p \in Nat
    BY <1>3, IndexInRing, SMT
  <1>8. i < Index(p + l)
    <2>1. p + l = poped + (HeaderSize + l)
      BY <1>3, SMT
    <2> QED BY <1>1, <1>5, <2>1
  <1>v. View = [k \in 1 .. l |-> LET j == i + k - 1 IN IF j < Capacity THEN buf[j] ELSE <<0, 0>>]
    BY DEF View
  <1>p. p = poped + HeaderSize
    OBVIOUS
  <1> HIDE DEF i, l, C, p
  <1>9. Index(p + l) = IF i + l < Capacity THEN i + l ELSE i + l - Capacity
    <2>1. l \in 0 .. Capacity - 1
      BY <1>3, <1>4, SMT
    <2> QED BY <1>7, <2>1, IndexPlus DEF i
  <1>10. i + l < Capacity
    BY <1>3, <1>4, <1>7, <1>8, <1>9, SMT
  <1>11. ASSUME NEW k \in 1 .. l PROVE View[k] = <<C, HeaderSize + (k - 1)>>
    <2> DEFINE o == HeaderSize + (k - 1)
    <2>1. i + k - 1 < Capacity /\ i + (k - 1) < Capacity /\ i + k - 1 = i + (k - 1) /\ k - 1 \in 0 .. Capacity - 1
      BY <1>3, <1>4, <1>7, <1>10, SMT
    <2>2. View[k] = buf[i + (k - 1)]
      BY <1>v, <2>1
    <2>3. Index(p + (k - 1)) = i + (k - 1)
      BY <1>7, <2>1, IndexPlus DEF i
    <2>4. p + (k - 1) = poped + o
      BY <1>3, <1>p, SMT
    <2>5. o \in 0 .. Size(C) - 1 /\ poped <= poped + o /\ poped + o < pushed
      BY <1>3, <1>5, <1>6, SMT
    <2>6. buf[Index(poped + o)] = <<C, o>>
      BY <1>2, <2>5
    <2> QED BY <2>2, <2>3, <2>4, <2>6
  <1>12. View \in [1 .. l -> Bytes]
    <2>1. C \in Nat
      BY <1>2, SMT
    <2>2. \A k \in 1 .. l : <<C, HeaderSize + (k - 1)>> \in Bytes
      BY <1>3, <2>1, SMT DEF Bytes
    <2>3. View = [k \in 1 .. l |-> View[k]]
      BY <1>v
    <2> QED BY <1>11, <2>2, <2>3
  <1>13. poped + Size(C) <= pushed
    BY <1>5, <1>6
  <1> QED BY <1>1, <1>2, <1>11, <1>12, <1>13 DEF C, l, Shows

(* dispose: the view of a message that lies in one piece is that message.  *)
LEMMA DisposeHolds ==
  ASSUME TypeOK, Laid, Contents, ReaderPlace, Dispose
  PROVE  ReaderPlace' /\ poped' <= pushed
  <1> DEFINE C == Current
             l == header.length
  <1>1. /\ rpc = "viewing" /\ top' = View /\ rlen' = 0 /\ poped' = poped + needDispose /\ rpc' = "look"
        /\ UNCHANGED <<sent, pushed, delivered, header>>
    BY DEF Dispose, writerVars
  <1>2. /\ Len(delivered) <= Len(sent) /\ C <= Len(sent) /\ poped = sent[C].at
        /\ needDispose = Size(C)
    BY <1>1 DEF ReaderPlace, Inside
  <1>3. /\ poped + Size(C) <= pushed /\ View \in [1 .. l -> Bytes] /\ Shows(View, l)
        /\ header = [msg |-> C, length |-> sent[C].length]
    BY <1>1, ViewSpec
  <1>4. l \in Nat /\ l = sent[C].length /\ Size(C) = HeaderSize + l /\ HeaderSize \in Nat /\ sent[C].at \in Nat
    BY <1>2, <1>3, CurrentThere, Numbers
  <1>5. Current' = C /\ Got' = l /\ (rlen' > 0 => ~FirstPart')
    <2>1. Current' = C /\ Got' = l - 0
      BY <1>1 DEF Current, Got
    <2> QED BY <1>1, <1>4, <2>1, SMT
  <1>6. poped' = sent[C].at + HeaderSize + l
    BY <1>1, <1>2, <1>4, SMT
  <1>7. Copied(Got)'
    BY <1>1, <1>3, <1>5 DEF Copied, Shows
  <1>8. rlen' <= l /\ DOMAIN top' = 1 .. l
    BY <1>1, <1>3, <1>4, SMT
  <1>9. poped' <= pushed
    BY <1>1, <1>2, <1>3
  <1> HIDE DEF C
  <1> QED BY <1>1, <1>2, <1>3, <1>5, <1>6, <1>7, <1>8, <1>9 DEF ReaderPlace, Inside, Between

(* Popping a part leaves the reader behind it, inside the message or at    *)
(* its end.                                                                *)
LEMMA PopHolds ==
  ASSUME TypeOK, Laid, Contents, ReaderPlace, Pop
  PROVE  ReaderPlace' /\ poped' <= pushed
  <1> DEFINE C == Current
             l == header.length
             a == sent[C].at
             P == poped + Part + (IF FirstPart THEN HeaderSize ELSE 0)
  <1>1. /\ rpc = "pop" /\ rpc' = "look" /\ poped' = P /\ rlen' = rlen - Part
        /\ UNCHANGED <<sent, pushed, delivered, header, top>>
    BY DEF Pop, writerVars
  <1>2. /\ Len(delivered) <= Len(sent) /\ C <= Len(sent)
        /\ header = [msg |-> C, length |-> sent[C].length]
        /\ rlen <= l /\ DOMAIN top = 1 .. l
        /\ poped = a + (IF FirstPart THEN 0 ELSE HeaderSize + Got)
        /\ P <= pushed /\ Copied(Got + Part)
    BY <1>1 DEF ReaderPlace, Inside
  <1>3. /\ a \in Nat /\ l \in Nat /\ HeaderSize \in Nat /\ rlen \in Nat /\ Part \in Nat /\ poped \in Nat
        /\ Part <= rlen /\ (rlen > 0 => Part > 0)
    BY <1>2, CurrentThere, Numbers, PieceType
  <1>4. Current' = C /\ Got' = l - (rlen - Part) /\ Got = l - rlen /\ (FirstPart <=> rlen = l)
        /\ (FirstPart' <=> rlen - Part = l)
    BY <1>1 DEF Current, Got, FirstPart
  <1> DEFINE f == FirstPart
             g == Got
             h == Part
  <1>5. f \in BOOLEAN
    BY DEF FirstPart
  <1>6. /\ P = poped + h + (IF f THEN HeaderSize ELSE 0)
        /\ poped = a + (IF f THEN 0 ELSE HeaderSize + g) /\ h \in Nat /\ g = l - rlen /\ (f <=> rlen = l)
        /\ h <= rlen /\ (rlen > 0 => h > 0)
    BY <1>2, <1>3, <1>4
  <1> HIDE DEF f, g, h, P, a, C
  <1>7. l - (rlen - h) = g + h /\ P = a + HeaderSize + (g + h)
        /\ rlen - h <= l /\ (rlen - h > 0 => rlen - h # l) /\ rlen - h \in Nat
    <2>0. rlen <= l /\ rlen \in Nat /\ l \in Nat /\ a \in Nat /\ h \in Nat /\ HeaderSize \in Nat
      BY <1>2, <1>3, <1>6
    <2>1. CASE f
      <3>1. P = poped + h + HeaderSize /\ poped = a + 0 /\ g = l - rlen /\ rlen = l /\ h <= rlen
            /\ (rlen > 0 => h > 0)
        BY <1>6, <2>1
      <3> QED BY ONLY <2>0, <3>1, SMT
    <2>2. CASE ~f
      <3>1. P = poped + h + 0 /\ poped = a + (HeaderSize + g) /\ g = l - rlen /\ rlen # l /\ h <= rlen
        BY <1>6, <2>2
      <3> HIDE DEF l
      <3>2. rlen < l
        BY ONLY <2>0, <3>1, SMT
      <3>3. g \in Nat
        BY ONLY <2>0, <3>1, SMT
      <3>4. P = a + HeaderSize + (g + h)
        BY ONLY <2>0, <3>1, <3>3, SMT
      <3>5. l - (rlen - h) = g + h /\ rlen - h <= l /\ (rlen - h > 0 => rlen - h # l) /\ rlen - h \in Nat
        BY ONLY <2>0, <3>1, <3>2, SMT
      <3> QED BY <3>4, <3>5
    <2> QED BY <1>5, <2>1, <2>2
  <1>8. Got' = Got + Part /\ poped' = a + HeaderSize + Got' /\ rlen' <= l /\ (rlen' > 0 => ~FirstPart')
    BY <1>1, <1>4, <1>7 DEF g, h
  <1>9. Copied(Got)'
    BY <1>1, <1>2, <1>4, <1>8 DEF Copied, Shows, C
  <1>10. poped' <= pushed
    BY <1>1, <1>2
  <1> QED BY <1>1, <1>2, <1>4, <1>8, <1>9, <1>10 DEF ReaderPlace, Inside, Between, a, C

(* The message is complete, and the reader is where the next one begins. *)
LEMMA DeliverHolds ==
  ASSUME TypeOK, Laid, Contents, ReaderPlace, rpc \in {"look", "notify"}, rlen = 0,
         delivered' = Append(delivered, top), rpc' = "idle", UNCHANGED <<sent, poped>>
  PROVE  /\ ReaderPlace' /\ Current \in 1 .. Len(sent) /\ Len(delivered') = Current
         /\ header.msg # 0 /\ top = PayloadOf(Current)
  <1> DEFINE C == Current
             N == Len(sent)
             l == header.length
  <1>1. /\ Len(delivered) <= N /\ C <= N
        /\ header = [msg |-> C, length |-> sent[C].length]
        /\ poped = sent[C].at + HeaderSize + Got /\ Copied(Got)
        /\ DOMAIN top = 1 .. l
    BY DEF ReaderPlace, Inside
  <1>2. /\ C \in 1 .. N /\ sent[C].at \in Nat /\ sent[C].length \in Nat
        /\ Size(C) = HeaderSize + sent[C].length /\ N \in Nat /\ HeaderSize \in Nat
    BY <1>1, CurrentThere, SentTypes, Numbers
  <1>3. Got = sent[C].length /\ l = sent[C].length
    BY <1>1, <1>2, SMT DEF Got
  <1>4. poped = EndOf(C)
    BY <1>1, <1>2, <1>3, SMT DEF EndOf
  <1>5. Len(delivered') = C /\ Current' = C + 1
    <2>1. Len(delivered') = Len(delivered) + 1
      BY SMT DEF TypeOK
    <2> QED BY <2>1 DEF Current
  <1>6. Total' = Total
    BY DEF Total, EndOf, Size
  <1>7. poped = IF C + 1 <= N THEN sent[C + 1].at ELSE Total
    <2>1. CASE C + 1 <= N
      <3>1. C + 1 \in 1 .. N
        BY <1>2, <2>1, SMT
      <3>2. sent[C + 1].at = EndOf(C)
        BY <1>2, <3>1 DEF Laid
      <3> QED BY <1>4, <2>1, <3>2
    <2>2. CASE ~(C + 1 <= N)
      <3>1. C = N /\ sent # <<>>
        BY <1>2, <2>2, SMT
      <3> QED BY <1>4, <2>2, <3>1 DEF Total
    <2> QED BY <2>1, <2>2
  <1>8. top = PayloadOf(C)
    <2>1. top \in Seq(Bytes)
      BY DEF TypeOK
    <2>2. top = [k \in 1 .. l |-> top[k]]
      BY <1>1, <2>1, SMT
    <2>3. \A k \in 1 .. l : top[k] = <<C, HeaderSize + (k - 1)>>
      BY <1>1, <1>3 DEF Copied, Shows
    <2> QED BY <1>3, <2>2, <2>3 DEF PayloadOf
  <1>9. header.msg # 0
    BY <1>1, <1>2, SMT
  <1>10. C <= N
    BY <1>1
  <1> HIDE DEF C
  <1>11. ReaderPlace'
    BY <1>5, <1>6, <1>7, <1>10 DEF ReaderPlace, Between, Inside
  <1> QED BY <1>2, <1>5, <1>8, <1>9, <1>11 DEF C

(* A further part is appended to what was read before.                     *)
LEMMA ReadMoreHolds ==
  ASSUME TypeOK, Laid, Contents, ReaderPlace, ReadMore PROVE ReaderPlace'
  <1> DEFINE C == Current
             l == header.length
             o == header.length - rlen
             n == Part
  <1>1. /\ rpc = "r_copy" /\ rpc' = "pop" /\ top' = ReadFromBuffer(top, o, Index(poped), n)
        /\ UNCHANGED <<sent, pushed, poped, delivered, header, rlen>>
    BY DEF ReadMore, ringVars, writerVars
  <1>2. /\ Len(delivered) <= Len(sent) /\ C <= Len(sent)
        /\ header = [msg |-> C, length |-> sent[C].length]
        /\ rlen <= l /\ DOMAIN top = 1 .. l /\ rlen > 0 /\ ~FirstPart
        /\ poped = sent[C].at + HeaderSize + Got /\ Copied(Got)
        /\ poped + n <= pushed
    BY <1>1 DEF ReaderPlace, Inside
  <1>3. /\ l \in Nat /\ l = sent[C].length /\ HeaderSize \in Nat /\ sent[C].at \in Nat /\ rlen \in Nat
        /\ n \in Nat /\ n <= rlen /\ poped \in Nat /\ pushed \in Nat /\ n \in 0 .. Capacity
    BY <1>2, CurrentThere, Numbers, PieceType
  <1>4. o \in 0 .. l /\ Got = o /\ o + n <= l /\ o + n \in Nat
    <2>1. o = l - rlen /\ Got = o /\ rlen <= l
      BY <1>2 DEF Got
    <2>2. l \in Nat /\ rlen \in Nat /\ n \in Nat /\ n <= rlen
      BY <1>3
    <2> HIDE DEF o, n, l
    <2>3. o \in 0 .. l /\ o + n <= l /\ o + n \in Nat
      BY ONLY <2>1, <2>2, SMT
    <2> QED BY <2>1, <2>3
  <1>5. top \in [1 .. l -> Bytes] /\ buf \in [0 .. Capacity - 1 -> Bytes] /\ o \in Nat
    <2>1. top \in Seq(Bytes) /\ buf \in [0 .. Capacity - 1 -> Bytes]
      BY DEF TypeOK
    <2>2. top \in [1 .. l -> Bytes]
      <3>1. DOMAIN top = 1 .. l
        BY <1>2
      <3>2. l \in Nat
        BY <1>3
      <3> HIDE DEF l
      <3> QED BY ONLY <2>1, <3>1, <3>2, SMT
    <2>3. o \in Nat
      BY <1>3, <1>4, SMT
    <2> QED BY <2>1, <2>2, <2>3
  <1> HIDE DEF o, n, l, C
  <1>6. Fetched(top', top, l, o, poped, n)
    BY <1>1, <1>3, <1>5, ReadSpec
  <1>7. Shows(top', o + n)
    <2> DEFINE j == o + n
    <2>1. /\ j \in Nat /\ j = o + n /\ j <= l /\ Shows(top, o) /\ poped = sent[C].at + HeaderSize + o
          /\ poped <= poped
      BY <1>2, <1>3, <1>4, SMT DEF Copied
    <2> HIDE DEF j
    <2>2. Shows(top', j)
      BY <1>2, <1>3, <1>4, <1>6, <2>1, FetchedBytes DEF C
    <2> QED BY <2>2 DEF j
  <1>8. Current' = C /\ Got' = Got /\ FirstPart' = FirstPart /\ Part' = n
    BY <1>1 DEF Current, Got, FirstPart, Part, MinOf, C, n
  <1>9. Copied(Got + Part)'
    BY <1>1, <1>4, <1>7, <1>8 DEF Copied, Shows, C
  <1>10. poped + n + 0 <= pushed /\ poped = sent[C].at + (HeaderSize + Got)
    <2> DEFINE a == sent[C].at
    <2>1. /\ a \in Nat /\ HeaderSize \in Nat /\ Got \in Nat /\ poped = a + HeaderSize + Got
          /\ n \in Nat /\ poped + n <= pushed
      BY <1>2, <1>3, <1>4, <1>5
    <2> HIDE DEF a
    <2>2. poped + n + 0 <= pushed /\ poped = a + (HeaderSize + Got)
      BY ONLY <2>1, SMT
    <2> QED BY <2>2 DEF a
  <1>11. DOMAIN top' = 1 .. l
    BY <1>6 DEF Fetched
  <1>12. ReaderPlace'
    BY <1>1, <1>2, <1>8, <1>9, <1>10, <1>11 DEF ReaderPlace, Between, Inside, C, l
  <1> QED BY <1>12

(* payload: the view lies in the ring, or the message is read in parts.    *)
LEMMA PayloadHolds ==
  ASSUME ShortViews, TypeOK, Laid, Contents, ReaderPlace, Payload PROVE ReaderPlace'
  <1>1. /\ rpc = "header" /\ UsePayload /\ UNCHANGED <<sent, pushed, poped, delivered, header>>
    BY DEF Payload, ringVars, writerVars
  <1>2. CASE Index(poped + HeaderSize) < Index(poped + HeaderSize + header.length)
    <2> DEFINE C == Current
    <2>1. needDispose' = HeaderSize + header.length /\ rpc' = "viewing"
      BY <1>2 DEF Payload
    <2>2. /\ Len(delivered) <= Len(sent) /\ C <= Len(sent) /\ poped = sent[C].at
          /\ header = [msg |-> C, length |-> sent[C].length]
      BY <1>1 DEF ReaderPlace, Inside
    <2>3. /\ header.length \in Lengths /\ Size(C) = HeaderSize + header.length
          /\ header.length \in Nat /\ HeaderSize \in Nat /\ poped \in Nat
      BY <2>2, CurrentThere, Numbers
    <2>4. header.length <= MaxPayloadLength
      BY <1>1, <2>3 DEF ShortViews
    <2>5. poped + HeaderSize + header.length = poped + Size(C)
      BY <2>3, SMT
    <2>6. Current' = C /\ Size(Current)' = Size(C)
      BY <1>1 DEF Current, Size
    <2>7. Index(poped + HeaderSize) < Index(poped + Size(C))
      BY <1>2, <2>5
    <2> HIDE DEF C
    <2> QED BY <1>1, <2>1, <2>2, <2>3, <2>4, <2>6, <2>7 DEF ReaderPlace, Inside, Between, Index
  <1>3. CASE ~(Index(poped + HeaderSize) < Index(poped + HeaderSize + header.length))
    <2>1. ReadFirst
      BY <1>3 DEF Payload
    <2> QED BY <1>1, <2>1, ReadFirstHolds
  <1> QED BY <1>2, <1>3

(* A step of the reader, unless it reads after a dummy header. *)
LEMMA ReaderSteps ==
  ASSUME ShortViews, TypeOK, Laid, Sound, ~DummyRead, ReaderStep \/ Expire
  PROVE  \/ ReaderPlace' /\ poped' <= pushed
         \/ ReadDummy /\ header.msg = 0 /\ DummyRead' /\ rlen' = 0 /\ UNCHANGED <<header, delivered>>
  <1>0. Contents /\ ReaderPlace /\ poped <= pushed /\ pushed <= poped + Capacity
    BY DEF Sound
  <1>n. poped \in Nat /\ pushed \in Nat /\ Part \in Nat /\ rlen \in Nat /\ HeaderSize \in Nat
    BY Numbers
  <1>1. CASE LoadFlags \/ TestMessage \/ Expire
    <2>1. rpc \in Between /\ rpc' \in Between \ {"interrupted"} /\ UNCHANGED <<sent, poped, delivered>>
      BY <1>1 DEF LoadFlags, TestMessage, Expire, Between, ringVars, writerVars
    <2> QED BY <1>0, <2>1, BetweenHeld
  <1>2. CASE CheckStored
    <2>1. rpc = "stored" /\ rpc \in Between /\ UNCHANGED <<sent, poped, pushed, delivered>>
      BY <1>2 DEF CheckStored, Between, ringVars, writerVars
    <2>2. CASE rpc' = "header"
      <3>1. Stored >= HeaderSize /\ header' = HeaderAt(poped)
        BY <1>2, <2>2 DEF CheckStored
      <3>2. /\ Current <= Len(sent) /\ poped = sent[Current].at
            /\ HeaderAt(poped) = [msg |-> Current, length |-> sent[Current].length]
        BY <1>0, <2>1, <3>1, HeaderThere
      <3>3. Current' = Current /\ Len(delivered) <= Len(sent)
        BY <1>0, <2>1 DEF Current, ReaderPlace
      <3>4. ReaderPlace'
        BY <2>1, <2>2, <3>1, <3>2, <3>3 DEF ReaderPlace, Between, Inside
      <3> QED BY <1>0, <2>1, <3>4
    <2>3. CASE rpc' # "header"
      <3>1. rpc' \in Between /\ (rpc' = "interrupted" => header' = NoHeader)
        BY <1>2, <2>3 DEF CheckStored, Between
      <3> QED BY <1>0, <2>1, <3>1, BetweenHeld
    <2> QED BY <2>2, <2>3
  <1>3. CASE WaitToRead \/ ReaderWakes
    <2>1. /\ rpc \in {"lock", "woken", "r_lock", "r_woken"}
          /\ rpc' = IF rpc \in {"lock", "woken"} THEN "testing" ELSE "r_testing"
          /\ UNCHANGED <<sent, poped, pushed, delivered, header, rlen, top>>
      BY <1>3 DEF WaitToRead, ReaderWakes, ringVars, writerVars
    <2>2. CASE rpc \in {"lock", "woken"}
      <3>1. rpc \in Between /\ rpc' \in Between /\ rpc' # "interrupted"
        BY <2>1, <2>2 DEF Between
      <3> QED BY <1>0, <2>1, <3>1, BetweenHeld
    <2>3. CASE rpc \in {"r_lock", "r_woken"}
      <3>1. rpc \in Reading /\ rpc' \in Reading /\ rpc' = "r_testing" /\ rlen > 0
        BY <1>0, <2>1, <2>3 DEF Reading, Inside, ReaderPlace
      <3>2. ReaderPlace'
        BY <1>0, <2>1, <3>1, InsideHeld
      <3> QED BY <1>0, <2>1, <3>2
    <2> QED BY <2>1, <2>2, <2>3
  <1>4. CASE Read
    <2>1. /\ rpc = "header" /\ ReadFirst
          /\ UNCHANGED <<sent, poped, pushed, delivered, header>>
      BY <1>4 DEF Read, ringVars, writerVars
    <2> QED BY <1>0, <2>1, ReadFirstHolds
  <1>5. CASE Payload
    <2>1. poped' = poped
      BY <1>5 DEF Payload, ringVars
    <2> QED BY <1>0, <1>5, <2>1, PayloadHolds
  <1>6. CASE Dispose
    BY <1>0, <1>6, DisposeHolds
  <1>7. CASE Pop
    BY <1>0, <1>7, PopHolds
  <1>8. CASE LookForWriter \/ NotifyWriter
    <2>1. /\ rpc \in {"look", "notify"} /\ UNCHANGED <<sent, poped, pushed, header, rlen>>
          /\ AfterPop \/ (rpc' = "notify" /\ UNCHANGED <<top, delivered>>)
      BY <1>8 DEF LookForWriter, NotifyWriter, ringVars, writerVars
    <2>2. header.msg # 0
      BY <2>1 DEF DummyRead
    <2>3. rpc \in Reading
      BY <2>1 DEF Reading, Inside
    <2>4. CASE rpc' = "notify" /\ UNCHANGED <<top, delivered>>
      <3>1. rpc' \in Reading /\ rpc' \in {"look", "notify"} /\ rpc' # "r_copy"
        BY <2>4 DEF Reading, Inside
      <3>2. ReaderPlace'
        BY <1>0, <2>1, <2>3, <2>4, <3>1, InsideHeld
      <3> QED BY <1>0, <2>1, <3>2
    <2>5. CASE rlen > 0 /\ rpc' = "r_lock" /\ UNCHANGED <<top, delivered>>
      <3>1. rpc' \in Reading /\ rpc' # "r_copy"
        BY <2>5 DEF Reading, Inside
      <3>2. ReaderPlace'
        BY <1>0, <2>1, <2>3, <2>5, <3>1, InsideHeld
      <3> QED BY <1>0, <2>1, <3>2
    <2>6. CASE rlen = 0 /\ delivered' = Append(delivered, top) /\ rpc' = "idle"
      <3>1. ReaderPlace'
        BY <1>0, <2>1, <2>6, DeliverHolds
      <3> QED BY <1>0, <2>1, <3>1
    <2> QED BY <2>1, <2>2, <2>4, <2>5, <2>6 DEF AfterPop
  <1>9. CASE TestPart
    <2>1. /\ rpc = "r_testing" /\ rpc' \in {"r_copy", "r_asleep"} /\ (rpc' = "r_copy" => Stored >= Part)
          /\ UNCHANGED <<sent, poped, pushed, delivered, header, rlen, top>>
      BY <1>9 DEF TestPart, ringVars, writerVars
    <2>2. rpc \in Reading /\ rpc' \in Reading /\ rpc' \notin {"look", "notify"} /\ rlen > 0
      BY <1>0, <2>1 DEF Reading, Inside, ReaderPlace
    <2>3. Stored = pushed - poped
      BY <1>0, StoredIs
    <2>4. Stored >= Part => poped + Part <= pushed
      BY <1>n, <2>3, SMT
    <2>5. ReaderPlace'
      BY <1>0, <2>1, <2>2, <2>4, InsideHeld
    <2> QED BY <1>0, <2>1, <2>5
  <1>10. CASE ReadMore
    <2>1. poped' = poped
      BY <1>10 DEF ReadMore, ringVars
    <2> QED BY <1>0, <1>10, <2>1, ReadMoreHolds
  <1>11. CASE ReadDummy
    <2>1. header = NoHeader /\ header' = header /\ rpc' = "look" /\ rlen' = 0 /\ delivered' = delivered
      BY <1>0, <1>11 DEF ReadDummy, ReaderPlace
    <2> QED BY <1>11, <2>1 DEF DummyRead, NoHeader
  <1> QED BY <1>1, <1>2, <1>3, <1>4, <1>5, <1>6, <1>7, <1>8, <1>9, <1>10, <1>11 DEF ReaderStep

-----------------------------------------------------------------------------
(* The inductive invariant. *)

(* A dummy that was read for a flag leaves the reader as it is.            *)
LEMMA DummyStays ==
  ASSUME DummyRead, rlen = 0, header.msg = 0, ReaderStep \/ Expire
  PROVE  DummyRead' /\ UNCHANGED <<rlen, header, delivered>>
  <1>1. LookForWriter \/ NotifyWriter
    BY DEF DummyRead, ReaderStep, LoadFlags, CheckStored, WaitToRead, TestMessage, ReaderWakes, Expire,
           Read, Payload, Dispose, Pop, TestPart, ReadMore, ReadDummy
  <1>2. UNCHANGED <<rlen, header>> /\ (AfterPop \/ (rpc' = "notify" /\ UNCHANGED delivered))
    BY <1>1 DEF LookForWriter, NotifyWriter
  <1>3. AfterPop => rpc' = "over" /\ UNCHANGED delivered
    BY SMT DEF AfterPop
  <1> QED BY <1>2, <1>3 DEF DummyRead

(* Only ReadDummy makes the reader read after a dummy header. *)
LEMMA DummyOnly ==
  ASSUME TypeOK', ReaderPlace', ~DummyRead, ReaderStep \/ Expire PROVE ~DummyRead'
  <1>1. ASSUME DummyRead' PROVE FALSE
    <2>1. rpc' # "over"
      <3>1. CASE rpc' = "over"
        <4>1. AfterPop /\ UNCHANGED header /\ rpc \in {"look", "notify"}
          BY <3>1 DEF ReaderStep, LoadFlags, CheckStored, WaitToRead, TestMessage, ReaderWakes,
               Expire, Read, Payload, ReadFirst, Dispose, Pop, LookForWriter, NotifyWriter,
               TestPart, ReadMore, ReadDummy
        <4> QED BY <3>1, <4>1 DEF AfterPop, DummyRead
      <3> QED BY <3>1
    <2>2. rpc' \in {"look", "notify"} /\ header'.msg = 0
      BY <1>1, <2>1 DEF DummyRead
    <2>3. header'.msg = Current'
      BY <2>2, SMT DEF ReaderPlace, Inside
    <2>4. Current' \in Nat /\ Current' > 0
      BY SMT DEF Current, TypeOK
    <2> QED BY <2>2, <2>3, <2>4, SMT
  <1> QED BY <1>1

(* Waking somebody up reads no dummy.                                      *)
LEMMA AwokenDummy ==
  ASSUME Awoken, UNCHANGED header PROVE DummyRead' = DummyRead
  BY DEF Awoken, DummyRead

(* The flags and their marks. *)
LEMMA MarkedHeld ==
  ASSUME TypeOK, Marked, UNCHANGED <<mark, spc>>, Len(sent') \in Nat, Len(sent) <= Len(sent'),
         flags \ {"terminate"} \subseteq flags',
         seen' \cup flags' \subseteq seen \cup flags, seen' \subseteq ReaderFlags
  PROVE  Marked'
  <1>1. \A f \in Flags : mark[f] \in Int /\ mark[f] <= Len(sent) /\ Len(sent) \in Nat
    BY SentTypes, SMT DEF Marked, TypeOK
  <1>2. \A f \in Flags : mark[f] <= Len(sent')
    BY <1>1, SMT
  <1>3. \A f \in Flags : f \in flags /\ f # "terminate" => f \in flags'
    OBVIOUS
  <1> QED BY <1>2, <1>3 DEF Marked, ReaderFlags

(* The mark of a flag is set by the time the flag is.                      *)
LEMMA MarkedSignal ==
  ASSUME TypeOK, Marked, NEW s \in Signals, Raise(s) \/ SignalWriter(s) \/ SignalReader(s)
  PROVE  Marked'
  <1>0. Len(sent) \in Nat /\ mark \in [Flags -> Nat \cup {-1}] /\ Flag(s) \in Flags
    BY SentTypes DEF TypeOK, Flag, Flags, Signals
  <1>1. \A t \in Signals : spc[t] # "idle" => spc'[t] # "idle"
    BY DEF Raise, SignalWriter, SignalReader, AfterWriter, TypeOK
  <1>2. UNCHANGED <<sent, seen>>
    BY DEF Raise, SignalWriter, SignalReader, writerVars, readerVars
  <1>3. CASE Raise(s)
    <2>1. flags' = flags \cup {Flag(s)} /\ spc'[s] # "idle"
      BY <1>3 DEF Raise, TypeOK
    <2>2. CASE Flag(s) \in flags
      <3>1. mark' = mark /\ flags' = flags
        BY <1>3, <2>1, <2>2 DEF Raise
      <3> QED BY <1>1, <1>2, <3>1 DEF Marked, ReaderFlags
    <2>3. CASE Flag(s) \notin flags
      <3>1. mark' = [mark EXCEPT ![Flag(s)] = Len(sent)]
        BY <1>3, <2>3 DEF Raise
      <3>2. mark'[Flag(s)] = Len(sent) /\ \A f \in Flags : f # Flag(s) => mark'[f] = mark[f]
        BY <1>0, <3>1
      <3>3. \A f \in seen' \cup flags' : mark'[f] # -1
        <4>1. \A f \in seen \cup flags : mark[f] # -1 /\ f \in Flags
          BY DEF Marked, TypeOK
        <4> QED BY <1>0, <1>2, <2>1, <3>2, <4>1, SMT
      <3>4. \A f \in Flags : mark'[f] <= Len(sent)
        BY <1>0, <3>2, SMT DEF Marked
      <3>5. ASSUME NEW f \in Flags, mark'[f] # -1
            PROVE  IF f = "terminate" THEN \A t \in Signals : Flag(t) = f => spc'[t] # "idle"
                                      ELSE f \in flags'
        <4>1. CASE f = Flag(s)
          <5>1. f = "terminate" => \A t \in Signals : Flag(t) = f => t = s
            BY <4>1 DEF Flag, Signals
          <5> QED BY <2>1, <4>1, <5>1
        <4>2. CASE f # Flag(s)
          BY <1>1, <2>1, <3>2, <3>5, <4>2 DEF Marked
        <4> QED BY <4>1, <4>2
      <3> QED BY <1>2, <3>3, <3>4, <3>5 DEF Marked, ReaderFlags
    <2> QED BY <2>2, <2>3
  <1>4. CASE SignalWriter(s) \/ SignalReader(s)
    <2>1. UNCHANGED <<mark, flags>>
      BY <1>4 DEF SignalWriter, SignalReader
    <2> QED BY <1>1, <1>2, <2>1 DEF Marked, ReaderFlags
  <1> QED BY <1>3, <1>4

(* The inductive invariant holds at first,                                 *)
LEMMA InitIInv == Init => IInv
  <1> SUFFICES ASSUME Init PROVE IInv
    OBVIOUS
  <1>0. HeaderSize \in Nat /\ Capacity \in Nat /\ Capacity > HeaderSize /\ HeaderSize > 0
    BY WireAssumption, SMT
  <1>1. TypeOK
    <2>1. buf \in [0 .. Capacity - 1 -> Bytes]
      BY <1>0 DEF Init, Bytes
    <2>2. header \in [msg : Nat, length : Nat]
      BY DEF Init, NoHeader
    <2>3. spc \in [Signals -> {"idle", "look_w", "notify_w", "look_r", "notify_r", "done"}]
          /\ mark \in [Flags -> Nat \cup {-1}]
      BY DEF Init
    <2>4. top \in Seq(Bytes) /\ sent \in Seq([at : Nat, length : Nat]) /\ delivered \in Seq(Seq(Bytes))
      BY SMT DEF Init
    <2> QED BY <2>1, <2>2, <2>3, <2>4 DEF Init, TypeOK
  <1>2. /\ sent = <<>> /\ delivered = <<>> /\ Len(sent) = 0 /\ Len(delivered) = 0 /\ pushed = 0
        /\ poped = 0 /\ flags = {} /\ seen = {} /\ wpc = "idle" /\ rpc = "idle" /\ 1 .. 0 = {}
        /\ \A f \in Flags : mark[f] = -1
    BY SMT DEF Init
  <1>3. Total = 0 /\ Laid
    BY <1>2 DEF Total, Laid
  <1>4. WriterPlace
    BY <1>2, <1>3 DEF WriterPlace, Writing
  <1>5. Marked
    BY <1>2, SMT DEF Marked
  <1>6. Contents /\ HasRoom
    BY <1>2 DEF Contents, HasRoom
  <1>7. ReaderPlace
    <2>1. Current = 1 /\ ~(Current <= Len(sent)) /\ Len(delivered) <= Len(sent)
      BY <1>2, SMT DEF Current
    <2> QED BY <1>2, <1>3, <2>1 DEF ReaderPlace, Between, Inside
  <1>8. ~DummyRead
    BY <1>2 DEF DummyRead
  <1>9. poped <= pushed /\ pushed <= poped + Capacity /\ Len(delivered) <= Len(sent)
    BY <1>0, <1>2, SMT
  <1> QED BY <1>1, <1>3, <1>4, <1>5, <1>6, <1>7, <1>8, <1>9 DEF IInv, Streams, Sound

(* after every step of the writer,                                         *)
LEMMA WriterIInv ==
  ASSUME IInv, (\E l \in Lengths : Write(l)) \/ WriterStep
  PROVE  IInv'
  <1>0. /\ Streams /\ TypeOK /\ Laid /\ WriterPlace /\ Marked /\ Len(delivered) <= Len(sent)
        /\ DummyRead => rlen = 0 /\ header.msg = 0
        /\ ~DummyRead => Sound
    BY DEF IInv, Streams
  <1>n. Len(sent) \in Nat /\ Len(delivered) \in Nat
    BY <1>0, SentTypes, SMT DEF TypeOK
  <1>1. TypeOK'
    BY <1>0, WriterTypes
  <1>2. CASE QuietWriterStep
    <2>1. /\ UNCHANGED <<buf, pushed, poped, sent, flags, mark, spc, seen>>
          /\ UNCHANGED <<delivered, header, rlen, top, needDispose>>
          /\ Awoken /\ wpc' # "push"
      BY <1>2, QuietWriterFrame
    <2>2. Laid' /\ WriterPlace'
      BY <1>0, <1>2, <2>1, LaidHeld, QuietWriterPlace
    <2>3. Marked'
      BY <1>0, <1>n, <2>1, MarkedHeld DEF Marked
    <2>4. DummyRead' = DummyRead
      BY <2>1, AwokenDummy
    <2>5. ASSUME Sound PROVE Sound'
      <3>1. poped <= pushed /\ pushed <= poped + Capacity /\ HasRoom /\ Contents /\ ReaderPlace
        BY <2>5 DEF Sound
      <3>2. HasRoom'
        BY <1>0, <1>2, <3>1, QuietWriterRoom
      <3>3. ReaderPlace'
        BY <2>1, <3>1, ReaderHeld
      <3>4. Contents'
        BY <2>1, <3>1 DEF Contents, Size
      <3> QED BY <2>1, <3>1, <3>2, <3>3, <3>4 DEF Sound
    <2> QED BY <1>0, <1>1, <2>1, <2>2, <2>3, <2>4, <2>5 DEF IInv, Streams
  <1>3. CASE Copy
    <2>1. /\ UNCHANGED <<pushed, poped, sent, flags, mark, spc, seen, wlen, woff>>
          /\ UNCHANGED <<delivered, header, rlen, top, needDispose, rpc>>
          /\ wpc = "copy" /\ wpc' = "push"
      BY <1>3 DEF Copy, readerVars
    <2>2. Laid'
      BY <1>0, <2>1, LaidHeld
    <2>3. Marked'
      BY <1>0, <1>n, <2>1, MarkedHeld DEF Marked
    <2>4. DummyRead' = DummyRead
      BY <2>1 DEF DummyRead
    <2>5. WriterPlace'
      <3>1. Total' = Total /\ Midway' = Midway
        BY <2>1 DEF Total, Midway, EndOf, Size
      <3> QED BY <1>0, <2>1, <3>1 DEF WriterPlace, Writing
    <2>6. Sound => Sound'
      BY <1>0, <1>3, CopyHolds
    <2> QED BY <1>0, <1>1, <2>1, <2>2, <2>3, <2>4, <2>5, <2>6 DEF IInv, Streams
  <1>4. CASE Push
    <2>1. /\ UNCHANGED <<poped, flags, mark, spc, seen>>
          /\ UNCHANGED <<delivered, header, rlen, rpc>>
          /\ wpc = "push" /\ wpc' = "look" /\ pushed' = pushed + Piece
      BY <1>4 DEF Push, readerVars
    <2>2. Laid' /\ WriterPlace'
      BY <1>0, <1>4, PushLaid, PushPlace
    <2>3. Len(sent') \in Nat /\ Len(sent) <= Len(sent') /\ pushed <= pushed'
      BY <1>0, <1>4, PushKeeps
    <2>4. Marked'
      BY <1>0, <2>1, <2>3, MarkedHeld DEF Marked
    <2>5. DummyRead' = DummyRead
      BY <2>1 DEF DummyRead
    <2>6. Len(delivered') <= Len(sent')
      BY <1>0, <1>n, <2>1, <2>3, SMT
    <2>7. ASSUME Sound PROVE Sound'
      <3>1. poped <= pushed /\ HasRoom /\ Contents /\ ReaderPlace
        BY <2>7 DEF Sound
      <3>2. pushed + Piece <= poped + Capacity
        BY <2>1, <3>1 DEF HasRoom
      <3>3. HasRoom'
        BY <2>1 DEF HasRoom
      <3>4. Contents' /\ ReaderPlace'
        BY <1>0, <1>4, <3>1, PushContents, PushReader
      <3>5. poped <= pushed'
        <4>1. poped \in Nat /\ pushed \in Nat /\ pushed' \in Nat
          BY <1>0, <1>1 DEF TypeOK
        <4> QED BY <2>3, <3>1, <4>1, SMT
      <3>6. pushed' <= poped' + Capacity /\ poped' <= pushed'
        BY <2>1, <3>2, <3>5
      <3> QED BY <3>3, <3>4, <3>6 DEF Sound
    <2> QED BY <1>0, <1>1, <2>1, <2>2, <2>4, <2>5, <2>6, <2>7 DEF IInv, Streams
  <1> QED BY <1>2, <1>3, <1>4 DEF WriterStep, QuietWriterStep

(* of the reader,                                                          *)
LEMMA ReaderIInv ==
  ASSUME ShortViews, IInv, ReaderStep \/ Expire
  PROVE  IInv'
  <1>0. /\ Streams /\ TypeOK /\ Laid /\ WriterPlace /\ Marked /\ Len(delivered) <= Len(sent)
        /\ DummyRead => rlen = 0 /\ header.msg = 0
        /\ ~DummyRead => Sound
    BY DEF IInv, Streams
  <1>1. TypeOK'
    BY <1>0, ReaderTypes DEF Sound
  <1>2. /\ UNCHANGED <<buf, pushed, sent, wlen, woff, mark, spc>>
        /\ wpc' = wpc \/ (wpc = "asleep" /\ wpc' = "woken")
        /\ flags \ {"terminate"} \subseteq flags' /\ flags' \subseteq flags
        /\ poped' \in Nat /\ poped <= poped'
    BY <1>0, ReaderFrame
  <1>3. "closed" \in flags => "closed" \in flags'
    BY <1>2
  <1>4. Laid' /\ WriterPlace'
    BY <1>0, <1>2, <1>3, LaidHeld, WriterHeld
  <1>5. Marked'
    <2>1. seen' \subseteq ReaderFlags /\ seen' \subseteq seen \cup flags
      <3>1. seen' = seen \/ seen' = flags \cap ReaderFlags
        BY DEF ReaderStep, LoadFlags, CheckStored, WaitToRead, TestMessage, ReaderWakes, Expire, Read,
               Payload, Dispose, Pop, LookForWriter, NotifyWriter, TestPart, ReadMore, ReadDummy
      <3> QED BY <1>0, <3>1 DEF Marked
    <2>2. Len(sent') \in Nat /\ Len(sent) <= Len(sent')
      BY <1>0, <1>2, SentTypes, SMT
    <2>3. seen' \cup flags' \subseteq seen \cup flags
      BY <1>2, <2>1
    <2> QED BY <1>0, <1>2, <2>1, <2>2, <2>3, MarkedHeld
  <1>6. CASE DummyRead
    <2>1. DummyRead' /\ UNCHANGED <<rlen, header, delivered>>
      BY <1>0, <1>6, DummyStays
    <2> QED BY <1>0, <1>1, <1>2, <1>4, <1>5, <1>6, <2>1 DEF IInv, Streams
  <1>7. CASE ~DummyRead
    <2>0. /\ HasRoom /\ Contents /\ poped <= pushed /\ pushed <= poped + Capacity /\ Sound
          /\ poped \in Nat /\ pushed \in Nat /\ Capacity \in Nat
      BY <1>0, <1>7, Numbers DEF Sound
    <2>1. CASE ReaderPlace' /\ poped' <= pushed
      <3>1. HasRoom'
        BY <1>0, <1>2, <1>3, <2>0, RoomHeld, SMT
      <3>2. Contents'
        BY <1>0, <1>2, <2>0, ContentsHeld, SMT
      <3>3. pushed' <= poped' + Capacity /\ poped' <= pushed'
        <4>1. pushed <= poped' + Capacity
          <5> DEFINE b == poped'
          <5>1. /\ b \in Nat /\ poped \in Nat /\ pushed \in Nat /\ Capacity \in Nat /\ poped <= b
                /\ pushed <= poped + Capacity
            BY <1>2, <2>0
          <5> HIDE DEF b
          <5>2. pushed <= b + Capacity
            BY ONLY <5>1, SMT
          <5> QED BY <5>2 DEF b
        <4> QED BY <1>2, <2>1, <4>1
      <3>4. Sound'
        BY <2>1, <3>1, <3>2, <3>3 DEF Sound
      <3>5. Len(delivered') <= Len(sent')
        BY <2>1 DEF ReaderPlace
      <3>6. DummyRead' => rlen' = 0 /\ header'.msg = 0
        BY <1>1, <1>7, <2>1, DummyOnly
      <3> QED BY <1>1, <1>4, <1>5, <3>4, <3>5, <3>6 DEF IInv, Streams
    <2>2. CASE ReadDummy /\ header.msg = 0 /\ DummyRead' /\ rlen' = 0 /\ UNCHANGED <<header, delivered>>
      BY <1>0, <1>1, <1>2, <1>4, <1>5, <2>2 DEF IInv, Streams
    <2> QED BY <1>0, <1>7, <2>0, <2>1, <2>2, ReaderSteps
  <1> QED BY <1>6, <1>7

(* and of whoever raises a flag,                                           *)
LEMMA SignalIInv ==
  ASSUME IInv, NEW s \in Signals, Raise(s) \/ SignalWriter(s) \/ SignalReader(s)
  PROVE  IInv'
  <1>0. /\ Streams /\ TypeOK /\ Laid /\ WriterPlace /\ Marked /\ Len(delivered) <= Len(sent)
        /\ DummyRead => rlen = 0 /\ header.msg = 0
        /\ ~DummyRead => Sound
    BY DEF IInv, Streams
  <1>1. TypeOK' /\ Marked'
    BY <1>0, SignalTypes, MarkedSignal
  <1>2. /\ UNCHANGED <<buf, pushed, poped, sent, wlen, woff, delivered, header, rlen, top, needDispose>>
        /\ Awoken /\ (wpc' = wpc \/ (wpc = "asleep" /\ wpc' = "woken"))
        /\ "closed" \in flags => "closed" \in flags'
    BY DEF Raise, SignalWriter, SignalReader, WakeWriter, WakeReader, Awoken, ringVars, writerVars,
           readerVars
  <1>3. Laid' /\ WriterPlace'
    BY <1>0, <1>2, LaidHeld, WriterHeld
  <1>4. DummyRead' = DummyRead
    BY <1>2, AwokenDummy
  <1>5. ASSUME Sound PROVE Sound'
    <2>1. /\ poped <= pushed /\ pushed <= poped + Capacity /\ HasRoom /\ Contents /\ ReaderPlace
          /\ poped' \in Int /\ poped' >= poped
      BY <1>0, <1>2, <1>5, Numbers, SMT DEF Sound
    <2>2. HasRoom' /\ Contents'
      BY <1>0, <1>2, <2>1, RoomHeld, ContentsHeld
    <2>3. ReaderPlace'
      BY <1>2, <2>1, ReaderHeld
    <2> QED BY <1>2, <2>1, <2>2, <2>3 DEF Sound
  <1> QED BY <1>0, <1>1, <1>2, <1>3, <1>4, <1>5 DEF IInv, Streams

(* and so after every step.                                                *)
LEMMA NextIInv ==
  ASSUME ShortViews, IInv, [Next]_vars PROVE IInv'
  <1>1. CASE Next
    BY <1>1, WriterIInv, ReaderIInv, SignalIInv DEF Next
  <1>2. CASE UNCHANGED vars
    <2>1. /\ UNCHANGED <<buf, pushed, poped, waitForWrite, waitForRead, mutex, flags, wpc, wlen, woff>>
          /\ UNCHANGED <<sent, rpc, seen, header, rlen, top, needDispose, delivered, spc, mark>>
      BY <1>2 DEF vars, ringVars, writerVars, readerVars
    <2>2. TypeOK' = TypeOK /\ Laid' = Laid /\ DummyRead' = DummyRead /\ Marked' = Marked
      BY <2>1 DEF TypeOK, Laid, EndOf, Size, DummyRead, Marked
    <2>3. WriterPlace' = WriterPlace /\ HasRoom' = HasRoom /\ Contents' = Contents
      BY <2>1 DEF WriterPlace, Total, EndOf, Size, Midway, HasRoom, Piece, MinOf, Contents
    <2>4. ReaderPlace => ReaderPlace'
      BY <2>1, ReaderHeld DEF Awoken
    <2> QED BY <2>1, <2>2, <2>3, <2>4 DEF IInv, Streams, Sound
  <1> QED BY <1>1, <1>2

(* The ring buffer of a wire is never over- or underrun, for every size of *)
(* the ring, of the header and of the messages: Bounded of SimpleWire.     *)
THEOREM RingIsBounded ==
  ASSUME ShortViews PROVE Spec => []Bounded
  <1>1. IInv => Bounded
    BY DEF IInv, Streams, Sound, Bounded
  <1>2. Init => IInv
    BY InitIInv
  <1>3. IInv /\ [Next]_vars => IInv'
    BY NextIInv
  <1> QED BY <1>1, <1>2, <1>3, PTL DEF Spec

(* A view that payload() has given out shows the bytes of its message,     *)
(* whatever the writer does: ViewIntact of SimpleWire.                     *)
THEOREM ViewsAreIntact ==
  ASSUME ShortViews PROVE Spec => []ViewIntact
  <1>1. IInv => ViewIntact
    <2> SUFFICES ASSUME IInv, rpc = "viewing" PROVE View = PayloadOf(header.msg)
      BY DEF ViewIntact
    <2>1. TypeOK /\ Laid /\ Contents /\ ReaderPlace
      BY DEF IInv, Streams, Sound, DummyRead
    <2>2. /\ View \in [1 .. header.length -> Bytes] /\ Shows(View, header.length)
          /\ header = [msg |-> Current, length |-> sent[Current].length]
      BY <2>1, ViewSpec
    <2>3. View = [k \in 1 .. header.length |-> View[k]]
      BY <2>2
    <2> QED BY <2>2, <2>3 DEF Shows, PayloadOf
  <1>2. Init => IInv
    BY InitIInv
  <1>3. IInv /\ [Next]_vars => IInv'
    BY NextIInv
  <1> QED BY <1>1, <1>2, <1>3, PTL DEF Spec

-----------------------------------------------------------------------------
(* The wire implements MessageChannel.  What the channel sees of it: *)

Accepted == [m \in DOMAIN sent |-> PayloadOf(m)]
Cuts == {mark[f] : f \in ReaderFlags} \ {-1}
Ended == rpc = "interrupted" \/ DummyRead

(* the payloads of the messages q, as a sequence *)
LEMMA PayloadSeq ==
  ASSUME NEW q \in Seq([at : Nat, length : Nat]), NEW A,
         A = [m \in DOMAIN q |-> [k \in 1 .. q[m].length |-> <<m, HeaderSize + (k - 1)>>]]
  PROVE  /\ A \in Seq(Seq(Bytes)) /\ Len(A) = Len(q) /\ DOMAIN A = 1 .. Len(q)
         /\ \A m \in 1 .. Len(q) : A[m] = [k \in 1 .. q[m].length |-> <<m, HeaderSize + (k - 1)>>]
  <1> DEFINE P(m) == [k \in 1 .. q[m].length |-> <<m, HeaderSize + (k - 1)>>]
             S == [at : Nat, length : Nat]
             T == Seq(Bytes)
  <1>0. HeaderSize \in Nat
    BY WireAssumption
  <1>1. DOMAIN q = 1 .. Len(q) /\ Len(q) \in Nat /\ \A m \in 1 .. Len(q) : q[m].length \in Nat
    <2>1. q \in Seq(S)
      OBVIOUS
    <2> HIDE DEF S
    <2>2. DOMAIN q = 1 .. Len(q) /\ Len(q) \in Nat /\ \A m \in 1 .. Len(q) : q[m] \in S
      BY <2>1, SeqElements
    <2> QED BY <2>2 DEF S
  <1>2. ASSUME NEW m \in 1 .. Len(q) PROVE P(m) \in T
    <2> DEFINE l == q[m].length
    <2>1. l \in Nat /\ m \in Nat
      BY <1>1, SMT
    <2>2. P(m) = [k \in 1 .. l |-> <<m, HeaderSize + (k - 1)>>]
      OBVIOUS
    <2> HIDE DEF l, P
    <2>3. \A k \in 1 .. l : <<m, HeaderSize + (k - 1)>> \in Bytes
      BY <1>0, <2>1, SMT DEF Bytes
    <2>4. P(m) \in [1 .. l -> Bytes]
      BY <2>2, <2>3
    <2> QED BY <2>1, <2>4, IsSequence
  <1>3. A = [m \in 1 .. Len(q) |-> P(m)]
    BY <1>1
  <1> HIDE DEF T, P
  <1>4. A \in [1 .. Len(q) -> T]
    BY <1>2, <1>3
  <1>5. A \in Seq(T) /\ Len(A) = Len(q)
    BY <1>1, <1>4, IsSequence
  <1>6. DOMAIN A = 1 .. Len(q) /\ \A m \in 1 .. Len(q) : A[m] = P(m)
    BY <1>3
  <1> QED BY <1>5, <1>6 DEF T, P

(* A step that neither sends nor delivers is none of the channel.          *)
LEMMA ChannelStutters ==
  ASSUME UNCHANGED <<sent, delivered, mark>>, Ended' = Ended
  PROVE  UNCHANGED Channel!vars
  <1>1. Accepted' = Accepted
    BY DEF Accepted, PayloadOf
  <1>2. Cuts' = Cuts
    BY DEF Cuts, ReaderFlags
  <1> QED BY <1>1, <1>2 DEF Channel!vars, Accepted, Cuts, Ended

(* The steps of the writer: a message is accepted with its first piece.    *)
LEMMA WriterChannel ==
  ASSUME IInv, IInv', (\E l \in Lengths : Write(l)) \/ WriterStep
  PROVE  [Channel!Next]_(Channel!vars)
  <1>0. TypeOK /\ TypeOK' /\ WriterPlace
    BY DEF IInv, Streams
  <1>1. CASE QuietWriterStep
    <2>1. UNCHANGED <<sent, delivered, mark, header>> /\ Awoken
      BY <1>1, QuietWriterFrame
    <2>2. DummyRead' = DummyRead
      BY <2>1, AwokenDummy
    <2>3. Ended' = Ended
      BY <2>1, <2>2 DEF Ended, Awoken
    <2> QED BY <2>1, <2>3, ChannelStutters
  <1>2. CASE Copy \/ (Push /\ woff # 0)
    <2>1. UNCHANGED <<sent, delivered, mark, header, rpc>>
      BY <1>2 DEF Copy, Push, readerVars
    <2>2. Ended' = Ended
      BY <2>1 DEF Ended, DummyRead
    <2> QED BY <2>1, <2>2, ChannelStutters
  <1>3. CASE Push /\ woff = 0
    <2>1. UNCHANGED <<delivered, mark, header, rpc>>
      BY <1>3 DEF Push, readerVars
    <2>2. Ended' = Ended /\ Cuts' = Cuts
      BY <2>1 DEF Ended, DummyRead, Cuts, ReaderFlags
    <2>3. Len(sent') = Len(sent) + 1 /\ Len(sent) \in Nat
          /\ \A m \in 1 .. Len(sent) : sent'[m] = sent[m]
      BY <1>0, <1>3, FirstPush, SentTypes
    <2>4. \A m \in 1 .. Len(sent) : PayloadOf(m)' = PayloadOf(m) /\ m \in 1 .. Len(sent')
      BY <2>3, SMT DEF PayloadOf
    <2>5. /\ Accepted' \in Seq(Seq(Bytes)) /\ Len(Accepted') = Len(sent')
          /\ \A m \in 1 .. Len(sent') : Accepted'[m] = PayloadOf(m)'
      <3>1. sent' \in Seq([at : Nat, length : Nat])
        BY <1>0 DEF TypeOK
      <3>2. Accepted' = [m \in DOMAIN sent' |-> [k \in 1 .. sent'[m].length |-> <<m, HeaderSize + (k - 1)>>]]
        BY DEF Accepted, PayloadOf
      <3> QED BY <3>1, <3>2, PayloadSeq DEF PayloadOf
    <2>6. /\ Len(Accepted) = Len(sent) /\ DOMAIN Accepted = 1 .. Len(sent)
          /\ \A m \in 1 .. Len(sent) : Accepted[m] = PayloadOf(m)
      <3>1. sent \in Seq([at : Nat, length : Nat])
        BY <1>0 DEF TypeOK
      <3>2. Accepted = [m \in DOMAIN sent |-> [k \in 1 .. sent[m].length |-> <<m, HeaderSize + (k - 1)>>]]
        BY DEF Accepted, PayloadOf
      <3> QED BY <3>1, <3>2, PayloadSeq DEF PayloadOf
    <2>7. Len(Accepted') = Len(Accepted) + 1
      BY <2>3, <2>5, <2>6
    <2>8. \A m \in DOMAIN Accepted : Accepted'[m] = Accepted[m]
      BY <2>4, <2>5, <2>6
    <2>9. Channel!Send
      BY <2>1, <2>2, <2>5, <2>7, <2>8 DEF Channel!Send, Accepted, Cuts, Ended
    <2> QED BY <2>9 DEF Channel!Next
  <1> QED BY <1>1, <1>2, <1>3 DEF WriterStep, QuietWriterStep

(* A reader that finds no header has received all that was published. *)
LEMMA NothingThere ==
  ASSUME TypeOK, Laid, Sound, rpc \in Between, ~(Stored >= HeaderSize)
  PROVE  Len(delivered) = Len(sent)
  <1>0. /\ Contents /\ ReaderPlace /\ poped <= pushed /\ pushed <= poped + Capacity
        /\ Len(delivered) <= Len(sent)
    BY DEF Sound, ReaderPlace
  <1>1. /\ pushed \in Nat /\ poped \in Nat /\ HeaderSize \in Nat /\ Capacity \in Nat
        /\ HeaderSize < Capacity /\ Len(sent) \in Nat /\ Len(delivered) \in Nat
    BY Numbers, SentTypes, SMT DEF TypeOK
  <1>2. CASE Current <= Len(sent)
    <2>1. poped = sent[Current].at
      BY <1>0, <1>2 DEF ReaderPlace
    <2>2. /\ Size(Current) \in Nat /\ Size(Current) = HeaderSize + sent[Current].length
          /\ sent[Current].length \in Nat
          /\ sent[Current].at + MinOf(Size(Current), Capacity) <= pushed
      BY <1>0, <1>2, CurrentThere
    <2>3. MinOf(Size(Current), Capacity) >= HeaderSize /\ MinOf(Size(Current), Capacity) \in Nat
      BY <1>1, <2>2, SMT DEF MinOf
    <2> DEFINE z == MinOf(Size(Current), Capacity)
    <2>4. z \in Nat /\ z >= HeaderSize /\ poped + z <= pushed
      BY <2>1, <2>2, <2>3
    <2> HIDE DEF z
    <2>5. pushed - poped >= HeaderSize
      BY <1>1, <2>4, SMT
    <2>6. Stored = pushed - poped
      BY <1>0, StoredIs
    <2> QED BY <2>5, <2>6
  <1>3. CASE ~(Current <= Len(sent))
    BY <1>0, <1>1, <1>3, SMT DEF Current
  <1> QED BY <1>2, <1>3

(* The steps of the reader: a message is delivered, or the channel ends.   *)
LEMMA ReaderChannel ==
  ASSUME ShortViews, IInv, IInv', ReaderStep \/ Expire
  PROVE  [Channel!Next]_(Channel!vars)
  <1>0. /\ TypeOK /\ TypeOK' /\ Laid /\ Marked
        /\ DummyRead => rlen = 0 /\ header.msg = 0
        /\ ~DummyRead => Sound
    BY DEF IInv, Streams
  <1>1. UNCHANGED <<sent, mark>>
    BY <1>0, ReaderFrame
  <1>c. Accepted' = Accepted /\ Cuts' = Cuts
    BY <1>1 DEF Accepted, PayloadOf, Cuts, ReaderFlags
  <1>2. CASE DummyRead
    <2>1. DummyRead' /\ UNCHANGED delivered
      BY <1>0, <1>2, DummyStays
    <2> QED BY <1>1, <1>2, <2>1, ChannelStutters DEF Ended
  <1>3. CASE ~DummyRead /\ rpc = "interrupted"
    <2>1. ReadDummy
      BY <1>3 DEF ReaderStep, LoadFlags, CheckStored, WaitToRead, TestMessage, ReaderWakes, Expire,
                  Read, Payload, Dispose, Pop, LookForWriter, NotifyWriter, TestPart, ReadMore
    <2>2. header = NoHeader
      BY <1>0, <1>3 DEF Sound, ReaderPlace
    <2>3. DummyRead' /\ UNCHANGED delivered
      BY <2>1, <2>2 DEF ReadDummy, DummyRead, NoHeader
    <2> QED BY <1>1, <1>3, <2>3, ChannelStutters DEF Ended
  <1>4. CASE ~DummyRead /\ rpc # "interrupted"
    <2>0. Contents /\ ReaderPlace /\ Sound
      BY <1>0, <1>4 DEF Sound
    <2>1. ReaderPlace'
      BY <1>0, <1>4, <2>0, ReaderSteps DEF ReadDummy
    <2>2. ~DummyRead'
      BY <1>0, <1>4, <2>1, DummyOnly
    <2>3. CASE rpc' = "interrupted"
      <3>1. rpc = "stored" /\ Stored < HeaderSize /\ seen # {} /\ UNCHANGED delivered
        BY <2>3 DEF ReaderStep, LoadFlags, CheckStored, WaitToRead, TestMessage, ReaderWakes, Expire,
                    Read, ReadFirst, Payload, Dispose, Pop, LookForWriter, NotifyWriter, AfterPop,
                    TestPart, ReadMore, ReadDummy
      <3>2. ~(Stored >= HeaderSize)
        <4>1. Stored \in Int /\ HeaderSize \in Int
          <5>1. Stored = pushed - poped
            BY <1>0, <2>0, StoredIs DEF Sound
          <5> QED BY <1>0, <5>1, Numbers, SMT
        <4> QED BY <3>1, <4>1, SMT
      <3>3. Len(delivered) = Len(sent)
        BY <1>0, <2>0, <3>1, <3>2, NothingThere DEF Between
      <3>4. PICK f \in seen : TRUE
        BY <3>1
      <3>5. f \in ReaderFlags /\ f \in Flags /\ mark[f] # -1 /\ mark[f] <= Len(sent)
        BY <1>0 DEF Marked, TypeOK
      <3>6. mark[f] \in Cuts /\ mark[f] <= Len(delivered)
        BY <3>3, <3>5 DEF Cuts
      <3>7. ~Ended /\ Ended'
        BY <1>4, <2>3 DEF Ended
      <3>8. Channel!End
        BY <1>c, <3>1, <3>6, <3>7 DEF Channel!End, Accepted, Cuts, Ended
      <3> QED BY <3>8 DEF Channel!Next
    <2>4. CASE rpc' # "interrupted"
      <3>1. ~Ended /\ ~Ended'
        BY <1>4, <2>2, <2>4 DEF Ended
      <3>2. CASE delivered' = delivered
        <4>1. Ended' = Ended
          BY <3>1 DEF Ended, DummyRead
        <4> QED BY <1>1, <3>2, <4>1, ChannelStutters
      <3>3. CASE delivered' # delivered
        <4>1. /\ rpc \in {"look", "notify"} /\ rlen = 0 /\ rpc' = "idle"
              /\ delivered' = Append(delivered, top) /\ UNCHANGED <<sent, poped>>
          BY <3>3 DEF ReaderStep, LoadFlags, CheckStored, WaitToRead, TestMessage, ReaderWakes, Expire,
                    Read, Payload, Dispose, Pop, LookForWriter, NotifyWriter, AfterPop,
                    TestPart, ReadMore, ReadDummy, ringVars, writerVars
        <4>2. Current \in 1 .. Len(sent) /\ top = PayloadOf(Current)
          BY <1>0, <2>0, <4>1, DeliverHolds
        <4>3. /\ Len(Accepted) = Len(sent) /\ Accepted[Current] = PayloadOf(Current)
          <5>1. sent \in Seq([at : Nat, length : Nat])
            BY <1>0 DEF TypeOK
          <5>2. Accepted = [m \in DOMAIN sent |->
                               [k \in 1 .. sent[m].length |-> <<m, HeaderSize + (k - 1)>>]]
            BY DEF Accepted, PayloadOf
          <5> QED BY <4>2, <5>1, <5>2, PayloadSeq DEF PayloadOf
        <4>4. Len(delivered) < Len(Accepted) /\ delivered' = Append(delivered, Accepted[Len(delivered) + 1])
          <5>1. Len(delivered) \in Nat /\ Len(sent) \in Nat
            <6>1. delivered \in Seq(Seq(Bytes)) /\ TypeOK
              BY <1>0 DEF TypeOK
            <6> QED BY <6>1, SentTypes, SMT
          <5>2. Current = Len(delivered) + 1
            BY DEF Current
          <5> QED BY <4>1, <4>2, <4>3, <5>1, <5>2, SMT
        <4>5. Channel!Receive
          BY <1>c, <3>1, <4>4 DEF Channel!Receive, Accepted, Cuts, Ended
        <4> QED BY <4>5 DEF Channel!Next
      <3> QED BY <3>2, <3>3
    <2> QED BY <2>3, <2>4
  <1> QED BY <1>2, <1>3, <1>4

(* A flag raised is a cut of the channel.                                  *)
LEMMA SignalChannel ==
  ASSUME IInv, NEW s \in Signals, Raise(s) \/ SignalWriter(s) \/ SignalReader(s)
  PROVE  [Channel!Next]_(Channel!vars)
  <1>0. TypeOK /\ Marked
    BY DEF IInv, Streams
  <1>1. UNCHANGED <<sent, delivered, header>> /\ Awoken
    BY DEF Raise, SignalWriter, SignalReader, WakeReader, Awoken, writerVars, readerVars
  <1>2. DummyRead' = DummyRead
    BY <1>1, AwokenDummy
  <1>3. Ended' = Ended
    BY <1>1, <1>2 DEF Ended, Awoken
  <1>4. CASE mark' = mark
    BY <1>1, <1>3, <1>4, ChannelStutters
  <1>5. CASE mark' # mark
    <2> DEFINE g == Flag(s)
    <2>1. /\ spc[s] = "idle" /\ g \notin flags /\ mark' = [mark EXCEPT ![g] = Len(sent)]
      BY <1>5 DEF Raise, SignalWriter, SignalReader
    <2>2. g \in Flags /\ mark \in [Flags -> Nat \cup {-1}] /\ Len(sent) \in Nat /\ ReaderFlags \subseteq Flags
      BY <1>0, SentTypes DEF Flag, Flags, Signals, TypeOK, ReaderFlags
    <2>3. mark[g] = -1
      BY <1>0, <2>1, <2>2 DEF Marked
    <2>4. mark'[g] = Len(sent) /\ \A f \in Flags : f # g => mark'[f] = mark[f]
      BY <2>1, <2>2
    <2>a. Accepted' = Accepted
      BY <1>1 DEF Accepted, PayloadOf
    <2> HIDE DEF g
    <2>5. CASE g \in ReaderFlags
      <3>1. Cuts' = Cuts \cup {Len(sent)}
        <4>1. Cuts' = {mark'[f] : f \in ReaderFlags} \ {-1}
          BY DEF Cuts, ReaderFlags
        <4>2. Len(sent) # -1
          BY <2>2, SMT
        <4> QED BY <2>2, <2>3, <2>4, <2>5, <4>1, <4>2 DEF Cuts
      <3>2. Len(Accepted) = Len(sent)
        <4>1. sent \in Seq([at : Nat, length : Nat])
          BY <1>0 DEF TypeOK
        <4>2. Accepted = [m \in DOMAIN sent |->
                             [k \in 1 .. sent[m].length |-> <<m, HeaderSize + (k - 1)>>]]
          BY DEF Accepted, PayloadOf
        <4> QED BY <4>1, <4>2, PayloadSeq
      <3>3. Channel!Cut
        BY <1>1, <1>3, <2>a, <3>1, <3>2 DEF Channel!Cut, Accepted, Cuts, Ended
      <3> QED BY <3>3 DEF Channel!Next
    <2>6. CASE g \notin ReaderFlags
      <3>1. Cuts' = Cuts
        <4>1. \A f \in ReaderFlags : mark'[f] = mark[f]
          BY <2>2, <2>4, <2>6
        <4>2. Cuts' = {mark'[f] : f \in ReaderFlags} \ {-1}
          BY DEF Cuts, ReaderFlags
        <4> QED BY <4>1, <4>2 DEF Cuts
      <3> QED BY <1>1, <1>3, <2>a, <3>1 DEF Channel!vars, Accepted, Cuts, Ended
    <2> QED BY <2>5, <2>6
  <1> QED BY <1>4, <1>5

(* The wire is a channel: messages arrive whole, once and in order, and    *)
(* the reader ends only behind what was written before it was told to, for *)
(* every size of the ring and of the messages: IsChannel of SimpleWire.    *)
THEOREM WireIsAChannel ==
  ASSUME ShortViews PROVE Spec => IsChannel
  <1>1. Init => Channel!Init
    <2> SUFFICES ASSUME Init PROVE Channel!Init
      OBVIOUS
    <2>1. Accepted = <<>>
      BY SMT DEF Init, Accepted
    <2>2. Cuts = {}
      <3>1. \A f \in ReaderFlags : mark[f] = -1
        BY DEF Init, ReaderFlags, Flags
      <3> QED BY <3>1 DEF Cuts
    <2>3. ~Ended /\ delivered = <<>>
      BY DEF Init, Ended, DummyRead
    <2> QED BY <2>1, <2>2, <2>3 DEF Channel!Init, Accepted, Cuts, Ended
  <1>2. IInv /\ IInv' /\ [Next]_vars => [Channel!Next]_(Channel!vars)
    <2> SUFFICES ASSUME IInv, IInv', [Next]_vars PROVE [Channel!Next]_(Channel!vars)
      OBVIOUS
    <2>1. CASE Next
      BY <2>1, WriterChannel, ReaderChannel, SignalChannel DEF Next
    <2>2. CASE UNCHANGED vars
      <3>1. UNCHANGED <<sent, delivered, mark>> /\ Ended' = Ended
        BY <2>2 DEF vars, writerVars, readerVars, Ended, DummyRead
      <3> QED BY <3>1, ChannelStutters
    <2> QED BY <2>1, <2>2
  <1>3. Init => IInv
    BY InitIInv
  <1>4. IInv /\ [Next]_vars => IInv'
    BY NextIInv
  <1> QED BY <1>1, <1>2, <1>3, <1>4, PTL DEF Spec, IsChannel, Channel!Spec
=============================================================================
