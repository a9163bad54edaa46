-------------------------- MODULE SimpleWireProofs --------------------------
(***************************************************************************)
(* Proofs about SimpleWire, for every capacity, header size and length of  *)
(* the messages: no wake-up is lost, the types are kept, and what a step   *)
(* of the writer leaves of the invariants IInv and WInv.  The steps of the *)
(* reader and the theorems on the contents are in SimpleWireChannelProofs. *)
(***************************************************************************)
EXTENDS SimpleWire, TLAPS

(* The prover of the leaves that do not name one. *)
USE Zenon

(***************************************************************************)
(* payload() gives out a view of the ring, so that a wire that is read     *)
(* with it takes only messages that fit into the ring with their header.   *)
(***************************************************************************)
ShortViews == UsePayload => \A l \in Lengths : l <= MaxPayloadLength

Size(m) == HeaderSize + sent[m].length
EndOf(m) == sent[m].at + Size(m)

(* where the next message will begin *)
Total == IF sent = <<>> THEN 0 ELSE EndOf(Len(sent))

(* The messages lie one behind the other, and of the last one at least the *)
(* first piece is there.                                                   *)
Laid ==
    /\ \A m, n \in 1 .. Len(sent) : m < n => EndOf(m) <= sent[n].at
    /\ \A m, n \in 1 .. Len(sent) : n = m + 1 => sent[n].at = EndOf(m)
    /\ \A m \in 1 .. Len(sent) : sent[m].length \in Lengths
    /\ sent = <<>> => pushed = 0
    /\ sent # <<>> =>
          /\ sent[1].at = 0
          /\ sent[Len(sent)].at + MinOf(Size(Len(sent)), Capacity) <= pushed
          /\ pushed <= EndOf(Len(sent))

Writing == {"room", "lock", "testing", "asleep", "woken", "check", "copy", "push"}

(* in the middle of the last message *)
Midway ==
    /\ sent # <<>>
    /\ woff >= HeaderSize /\ woff + wlen = Size(Len(sent))
    /\ pushed = sent[Len(sent)].at + woff

(* How far the writer is with its message.  A close makes it leave one     *)
(* that it has begun, and then it begins no other.                         *)
WriterPlace ==
    /\ wpc = "idle" => pushed = Total \/ "closed" \in flags
    /\ wpc \in Writing /\ woff = 0 =>
          /\ wlen >= HeaderSize /\ wlen - HeaderSize \in Lengths
          /\ pushed = Total \/ ("closed" \in flags /\ wpc \in {"room", "check"})
    /\ wpc \in Writing /\ woff # 0 => wlen > 0 /\ Midway
    /\ wpc \in {"look", "notify"} => Midway

(* A side that waits has raised its flag. *)
Waiting ==
    /\ rpc \in {"testing", "asleep", "woken", "r_testing", "r_asleep", "r_woken"} => waitForRead
    /\ wpc \in {"testing", "asleep", "woken"} => waitForWrite

(* When a flag is up it has a mark, at most once. *)
Marked ==
    /\ seen \subseteq ReaderFlags /\ \A f \in seen \cup flags : mark[f] # -1
    /\ \A f \in Flags : mark[f] <= Len(sent)
    /\ \A f \in Flags : mark[f] # -1 =>
          IF f = "terminate" THEN \A s \in Signals : Flag(s) = f => spc[s] # "idle" ELSE f \in flags

(* The writer copies only into room: the room it has found only grows. *)
HasRoom ==
    \/ wpc = "check" /\ "closed" \notin flags
    \/ wpc \in {"copy", "push"}
    => pushed + Piece <= poped + Capacity

(* What is in the ring: of every message the bytes that were published and *)
(* not yet popped, and the piece that is about to be published.            *)
Contents ==
    /\ \A m \in 1 .. Len(sent) : \A k \in 0 .. Size(m) - 1 :
          poped <= sent[m].at + k /\ sent[m].at + k < pushed
          => buf[Index(sent[m].at + k)] = <<m, k>>
    /\ wpc = "push" => \A k \in 0 .. Piece - 1 :
          buf[Index(pushed + k)] = <<IF woff = 0 THEN Len(sent) + 1 ELSE Len(sent), woff + k>>

Between == {"idle", "stored", "lock", "testing", "asleep", "woken", "interrupted"}
Inside == {"header", "viewing", "pop", "look", "notify", "r_lock", "r_testing", "r_asleep",
           "r_woken", "r_copy"}

(* the message that the reader has not yet received, and how much of it *)
Current == Len(delivered) + 1
Got == header.length - rlen

(* the first n bytes of the payload of the message are in t, or in the     *)
(* buffer of the reader                                                    *)
Shows(t, n) == \A k \in 1 .. n : t[k] = <<Current, HeaderSize + (k - 1)>>
Copied(n) == Shows(top, n)

(* How far the reader is with its message. *)
ReaderPlace ==
    /\ Len(delivered) <= Len(sent)
    /\ rpc \in Between =>
          poped = IF Current <= Len(sent) THEN sent[Current].at ELSE Total
    /\ rpc = "interrupted" => header = NoHeader
    /\ rpc \in Inside =>
          /\ Current <= Len(sent)
          /\ header = [msg |-> Current, length |-> sent[Current].length]
    /\ rpc \in {"header", "viewing"} => poped = sent[Current].at
    /\ rpc = "viewing" =>
          /\ needDispose = Size(Current)
          /\ Index(poped + HeaderSize) < Index(poped + Size(Current))
          /\ header.length <= MaxPayloadLength
    /\ rpc \in Inside \ {"header", "viewing"} =>
          rlen <= header.length /\ DOMAIN top = 1 .. header.length
    /\ rpc = "pop" =>
          /\ poped = sent[Current].at + (IF FirstPart THEN 0 ELSE HeaderSize + Got)
          /\ poped + Part + (IF FirstPart THEN HeaderSize ELSE 0) <= pushed
          /\ Copied(Got + Part)
    /\ rpc \in Inside \ {"header", "viewing", "pop"} =>
          /\ poped = sent[Current].at + HeaderSize + Got /\ Copied(Got)
          /\ rlen > 0 => ~FirstPart
    /\ rpc \in {"r_lock", "r_testing", "r_asleep", "r_woken", "r_copy"} => rlen > 0
    /\ rpc = "r_copy" => poped + Part <= pushed

(* What holds as long as the reader has not read after a dummy header. *)
Sound ==
    /\ poped <= pushed /\ pushed <= poped + Capacity
    /\ HasRoom
    /\ Contents
    /\ ReaderPlace

Streams == TypeOK /\ Laid /\ WriterPlace /\ Marked /\ Len(delivered) <= Len(sent)
IInv ==
    /\ Streams
    /\ DummyRead => rlen = 0 /\ header.msg = 0
    /\ ~DummyRead => Sound

Spans == [at : Int, length : Int]

(* Types, as far as the comparisons of the waiting sides need them. *)
Integral ==
    /\ pushed \in Int /\ poped \in Int /\ wlen \in Int /\ rlen \in Int /\ needDispose \in Int
    /\ header.length \in Int
    /\ sent \in Seq(Spans)

WInv ==
    /\ Integral
    /\ spc \in [Signals -> {"idle", "look_w", "notify_w", "look_r", "notify_r", "done"}]
    /\ Waiting
    /\ NoLostWakeup

-----------------------------------------------------------------------------

(* Domain and elements of a sequence.                                      *)
LEMMA SeqElements ==
  ASSUME NEW S, NEW q \in Seq(S)
  PROVE  DOMAIN q = 1 .. Len(q) /\ Len(q) \in Nat /\ \A i \in DOMAIN q : q[i] \in S
  BY SMT

(* What Append adds to one.                                                *)
LEMMA SeqAppend ==
  ASSUME NEW S, NEW q \in Seq(S), NEW e \in S
  PROVE  /\ Append(q, e) \in Seq(S)
         /\ Len(Append(q, e)) = Len(q) + 1
         /\ \A i \in 1 .. Len(q) : Append(q, e)[i] = q[i]
         /\ Append(q, e)[Len(q) + 1] = e
  BY SMT

(* The positions of the ring. *)

(* index() stays inside the ring.                                          *)
LEMMA IndexInRing == ASSUME NEW p \in Nat PROVE Index(p) \in 0 .. Capacity - 1
  BY WireAssumption, SMT DEF Index

(* Two positions less than a ring apart are different places of the ring. *)
LEMMA IndexDistinct ==
  ASSUME NEW p \in Nat, NEW q \in Nat, p < q, q - p < Capacity
  PROVE  Index(p) # Index(q)
  <1> DEFINE C == Capacity
             a == p \div C
             b == q \div C
  <1>0. C \in Nat /\ C > 0
    BY WireAssumption, SMT
  <1>1. a \in Int /\ p = C * a + (p % C)
    BY <1>0, SMT
  <1>2. b \in Int /\ q = C * b + (q % C)
    BY <1>0, SMT
  <1>3. SUFFICES ASSUME p % C = q % C PROVE FALSE
    BY DEF Index
  <1> HIDE DEF a, b, C
  <1>4. q - p = C * (b - a)
    BY <1>0, <1>1, <1>2, <1>3, SMT
  <1>5. b - a <= 0 => C * (b - a) <= 0
    BY <1>0, <1>1, <1>2, SMT
  <1>6. b - a >= 1 => C * (b - a) >= C
    BY <1>0, <1>1, <1>2, SMT
  <1> QED BY <1>0, <1>1, <1>2, <1>4, <1>5, <1>6, SMT DEF C

(* Where a position behind p lies in the ring. *)
LEMMA IndexPlus ==
  ASSUME NEW p \in Nat, NEW k \in 0 .. Capacity - 1
  PROVE  Index(p + k) = IF Index(p) + k < Capacity THEN Index(p) + k
                                                   ELSE Index(p) + k - Capacity
  <1> DEFINE C == Capacity
             a == p \div C
             b == (p + k) \div C
             r == p % C
             s == (p + k) % C
  <1>0. C \in Nat /\ C > 0
    BY WireAssumption, SMT
  <1>1. a \in Int /\ r \in 0 .. C - 1 /\ p = C * a + r
    BY <1>0, SMT
  <1>2. b \in Int /\ s \in 0 .. C - 1 /\ p + k = C * b + s
    BY <1>0, SMT
  <1>3. SUFFICES s = IF r + k < C THEN r + k ELSE r + k - C
    BY DEF Index
  <1> HIDE DEF a, b, r, s, C
  <1>4. k \in 0 .. C - 1
    BY DEF C
  <1>5. C * (b - a) = r + k - s
    BY <1>0, <1>1, <1>2, <1>4, SMT
  <1>6. b - a <= -1 => C * (b - a) <= -C
    BY <1>0, <1>1, <1>2, SMT
  <1>7. b - a >= 2 => C * (b - a) >= 2 * C
    BY <1>0, <1>1, <1>2, SMT
  <1>8. b - a = 0 \/ b - a = 1
    BY <1>0, <1>1, <1>2, <1>4, <1>5, <1>6, <1>7, SMT
  <1>9. C * (b - a) = 0 \/ C * (b - a) = C
    BY <1>0, <1>8, SMT
  <1> QED BY <1>0, <1>1, <1>2, <1>4, <1>5, <1>9, SMT

(* w is b but for the n bytes of message m from offset o at position p. *)
Written(w, b, p, m, o, n) ==
    /\ w \in [0 .. Capacity - 1 -> Bytes]
    /\ \A k \in 0 .. n - 1 : w[Index(p + k)] = <<m, o + k>>
    /\ \A j \in 0 .. Capacity - 1 : (\A k \in 0 .. n - 1 : j # Index(p + k)) => w[j] = b[j]

(* r is t, of length l, but for n bytes from position p behind place o. *)
Fetched(r, t, l, o, p, n) ==
    /\ r \in [1 .. l -> Bytes]
    /\ \A k \in 1 .. l : o < k /\ k <= o + n => r[k] = buf[Index(p + (k - o - 1))]
    /\ \A k \in 1 .. l : ~(o < k /\ k <= o + n) => r[k] = t[k]

(* write_in_buffer puts the bytes into their places and leaves the others. *)
LEMMA WriteSpec ==
  ASSUME NEW b \in [0 .. Capacity - 1 -> Bytes], NEW p \in Nat, NEW m \in Nat, NEW o \in Nat,
         NEW n \in 0 .. Capacity, NEW w, w = WriteInBuffer(b, Index(p), m, o, n)
  PROVE  Written(w, b, p, m, o, n)
  <1> DEFINE at == Index(p)
             v == WriteInBuffer(b, at, m, o, n)
             Hit(j) == IF at <= j THEN j - at ELSE j + Capacity - at
  <1>0. Capacity \in Nat /\ at \in 0 .. Capacity - 1
    BY WireAssumption, IndexInRing
  <1>w. w = v
    OBVIOUS
  <1> HIDE DEF at
  <1>1. /\ DOMAIN v = 0 .. Capacity - 1 /\ v = [j \in 0 .. Capacity - 1 |-> v[j]]
        /\ \A j \in 0 .. Capacity - 1 :
              v[j] = IF Hit(j) < n THEN <<m, o + Hit(j)>> ELSE b[j]
    <2>0. DOMAIN b = 0 .. Capacity - 1
      OBVIOUS
    <2>1. CASE Capacity >= at + n
      <3>1. v = [j \in 0 .. Capacity - 1 |->
                    IF at <= j /\ j < at + n THEN <<m, o + (j - at)>> ELSE b[j]]
        BY <2>0, <2>1 DEF WriteInBuffer
      <3>2. \A j \in 0 .. Capacity - 1 : (at <= j /\ j < at + n) <=> Hit(j) < n
        BY <1>0, <2>1, SMT
      <3>3. \A j \in 0 .. Capacity - 1 : at <= j => Hit(j) = j - at
        BY <1>0
      <3> HIDE DEF v, Hit
      <3> QED BY <3>1, <3>2, <3>3
    <2>2. CASE ~(Capacity >= at + n)
      <3> DEFINE first == Capacity - at
      <3>1. v = [j \in 0 .. Capacity - 1 |->
                    IF at <= j THEN <<m, o + (j - at)>>
                    ELSE IF j < n - first THEN <<m, o + (first + j)>>
                    ELSE b[j]]
        BY <2>0, <2>2 DEF WriteInBuffer
      <3>2. \A j \in 0 .. Capacity - 1 : at <= j => Hit(j) = j - at /\ Hit(j) < n
        BY <1>0, <2>2, SMT
      <3>3. \A j \in 0 .. Capacity - 1 : ~(at <= j) => Hit(j) = first + j
        BY <1>0, SMT
      <3>4. \A j \in 0 .. Capacity - 1 : ~(at <= j) => (Hit(j) < n <=> j < n - first)
        BY <1>0, <3>3, SMT
      <3> HIDE DEF v, Hit, first
      <3> QED BY <3>1, <3>2, <3>3, <3>4
    <2> QED BY <2>1, <2>2
  <1> HIDE DEF v
  <1>3. \A j \in 0 .. Capacity - 1 : Hit(j) \in 0 .. Capacity - 1
    BY <1>0, SMT
  <1>4. v \in [0 .. Capacity - 1 -> Bytes]
    <2>1. \A j \in 0 .. Capacity - 1 : v[j] \in Bytes
      BY <1>1, <1>3, SMT DEF Bytes
    <2> QED BY <2>1, <1>1
  <1>5. ASSUME NEW k \in 0 .. n - 1 PROVE v[Index(p + k)] = <<m, o + k>>
    <2>1. k \in 0 .. Capacity - 1
      BY <1>0, SMT
    <2>2. Index(p + k) = IF at + k < Capacity THEN at + k ELSE at + k - Capacity
      BY <2>1, IndexPlus DEF at
    <2>3. Index(p + k) \in 0 .. Capacity - 1 /\ Hit(Index(p + k)) = k
      BY <1>0, <2>1, <2>2, SMT
    <2> QED BY <1>1, <2>3, SMT
  <1>6. ASSUME NEW j \in 0 .. Capacity - 1, \A k \in 0 .. n - 1 : j # Index(p + k)
        PROVE  v[j] = b[j]
    <2>1. Index(p + Hit(j)) = IF at + Hit(j) < Capacity THEN at + Hit(j) ELSE at + Hit(j) - Capacity
      BY <1>3, IndexPlus DEF at
    <2>2. Index(p + Hit(j)) = j
      BY <1>0, <2>1, SMT
    <2>3. Hit(j) \notin 0 .. n - 1
      BY <1>6, <2>2
    <2> QED BY <1>0, <1>1, <1>3, <2>3, SMT
  <1> QED BY <1>w, <1>4, <1>5, <1>6 DEF Written

(* read_from_buffer fetches the bytes from their places. *)
LEMMA ReadSpec ==
  ASSUME buf \in [0 .. Capacity - 1 -> Bytes], NEW l \in Nat, NEW t \in [1 .. l -> Bytes],
         NEW o \in Nat, NEW p \in Nat, NEW n \in 0 .. Capacity,
         NEW r, r = ReadFromBuffer(t, o, Index(p), n)
  PROVE  Fetched(r, t, l, o, p, n)
  <1> DEFINE at == Index(p)
             From(k) == LET j == at + (k - o - 1) IN IF j < Capacity THEN j ELSE j - Capacity
  <1>0. Capacity \in Nat /\ at \in 0 .. Capacity - 1
    BY WireAssumption, IndexInRing
  <1> HIDE DEF at
  <1>1. /\ r = [k \in 1 .. l |-> r[k]]
        /\ \A k \in 1 .. l : r[k] = IF o < k /\ k <= o + n THEN buf[From(k)] ELSE t[k]
    <2>1. DOMAIN t = 1 .. l
      OBVIOUS
    <2>2. CASE Capacity >= at + n
      <3>1. r = [k \in 1 .. l |-> IF o < k /\ k <= o + n THEN buf[at + (k - o - 1)] ELSE t[k]]
        BY <2>1, <2>2 DEF ReadFromBuffer, at
      <3>2. \A k \in 1 .. l : o < k /\ k <= o + n => From(k) = at + (k - o - 1)
        BY <1>0, <2>2, SMT
      <3> HIDE DEF From
      <3> QED BY <3>1, <3>2
    <2>3. CASE ~(Capacity >= at + n)
      <3> DEFINE first == Capacity - at
      <3>1. r = [k \in 1 .. l |-> IF o < k /\ k <= o + first THEN buf[at + (k - o - 1)]
                                  ELSE IF o + first < k /\ k <= o + n THEN buf[k - o - 1 - first]
                                  ELSE t[k]]
        BY <2>1, <2>3 DEF ReadFromBuffer, at
      <3>2. \A k \in 1 .. l : o < k /\ k <= o + first => From(k) = at + (k - o - 1) /\ k <= o + n
        BY <1>0, <2>3, SMT
      <3>3. \A k \in 1 .. l : o + first < k /\ k <= o + n =>
               From(k) = k - o - 1 - first /\ o < k /\ ~(k <= o + first)
        BY <1>0, <2>3, SMT
      <3>4. \A k \in 1 .. l : o < k /\ k <= o + n /\ ~(k <= o + first) => o + first < k
        BY <1>0, SMT
      <3> HIDE DEF From, first
      <3> QED BY <3>1, <3>2, <3>3, <3>4
    <2> QED BY <2>2, <2>3
  <1>2. ASSUME NEW k \in 1 .. l, o < k, k <= o + n
        PROVE  Index(p + (k - o - 1)) = From(k) /\ From(k) \in 0 .. Capacity - 1
    <2> DEFINE i == k - o - 1
    <2>1. i \in 0 .. Capacity - 1
      BY <1>0, <1>2, SMT
    <2>2. From(k) = IF at + i < Capacity THEN at + i ELSE at + i - Capacity
      BY <1>0, <2>1, SMT
    <2> HIDE DEF i, From
    <2>3. Index(p + i) = IF at + i < Capacity THEN at + i ELSE at + i - Capacity
      BY <2>1, IndexPlus DEF at
    <2>4. From(k) \in 0 .. Capacity - 1
      BY <1>0, <2>1, <2>2, SMT
    <2> QED BY <2>2, <2>3, <2>4 DEF i
  <1>3. \A k \in 1 .. l : r[k] \in Bytes
    BY <1>1, <1>2
  <1> QED BY <1>1, <1>2, <1>3 DEF Fetched

-----------------------------------------------------------------------------
(* Wake-ups. *)

(* Whatever bytes a header is read from, its length is a number.           *)
LEMMA HeaderIntegral ==
  ASSUME sent \in Seq(Spans), NEW p PROVE HeaderAt(p).length \in Int
  <1> DEFINE bytes == ReadFromBuffer([k \in 1 .. HeaderSize |-> <<0, 0>>], 0, Index(p), HeaderSize)
             m == bytes[1][1]
             good == m \in DOMAIN sent /\ \A k \in 1 .. HeaderSize : bytes[k] = <<m, k - 1>>
  <1>1. HeaderAt(p) = IF good THEN [msg |-> m, length |-> sent[m].length] ELSE NoHeader
    BY DEF HeaderAt
  <1> HIDE DEF bytes, m
  <1>2. m \in DOMAIN sent => sent[m] \in Spans
    BY SeqElements
  <1> QED BY <1>1, <1>2, SMT DEF NoHeader, Spans

(* What the writer and the reader compare are numbers.                     *)
LEMMA Compared ==
  ASSUME Integral PROVE Stored \in Int /\ Room \in Int /\ Piece \in Int /\ Part \in Int
  <1>1. Word \in Nat /\ Word > 0 /\ Capacity \in Int /\ HeaderSize \in Int
    BY WireAssumption, SMT
  <1>2. Stored \in Int
    BY <1>1, SMT DEF Integral, Stored
  <1>3. Room \in Int
    BY <1>1, <1>2, SMT DEF Room
  <1>4. Piece \in Int /\ Part \in Int
    BY <1>1, SMT DEF Integral, Piece, Part, MinOf, MaxPayloadLength
  <1> QED BY <1>2, <1>3, <1>4

(* A step that leaves alone what the sides compare. *)
LEMMA SameNumbers ==
  ASSUME Integral, UNCHANGED <<pushed, poped, wlen, rlen, header, needDispose, sent>>
  PROVE  Integral' /\ UNCHANGED <<Stored, Room, Piece, Part>>
  BY DEF Integral, Stored, Room, Piece, Part, FirstPart

(* Steps of the writer. *)
LEMMA WriterWakeups ==
  ASSUME WInv, WriterStep \/ \E l \in Lengths : Write(l)
  PROVE  WInv'
  <1> USE DEF WInv, Waiting, NoLostWakeup, ringVars, writerVars, readerVars
  <1>0. Stored \in Int /\ Room \in Int /\ Piece \in Int /\ Part \in Int
    BY Compared
  <1>1. CASE \E l \in Lengths : Write(l)
    <2>1. PICK l \in Lengths : Write(l)
      BY <1>1
    <2>2. Integral'
      BY <2>1, WireAssumption, SMT DEF Write, Integral
    <2>3. UNCHANGED <<Stored, Part>>
      BY <2>1 DEF Write, Stored, Part, FirstPart
    <2> QED BY <2>1, <2>2, <2>3 DEF Write
  <1>2. CASE CheckRoom \/ WaitToWrite \/ TestRoom \/ WriterWakes \/ Copy \/ LookForReader
    <2>1. Integral' /\ UNCHANGED <<Stored, Room, Piece, Part>>
      BY <1>2, SameNumbers DEF CheckRoom, WaitToWrite, TestRoom, WriterWakes, Copy, LookForReader
    <2>2. CASE CheckRoom
      BY <2>1, <2>2 DEF CheckRoom
    <2>3. CASE WaitToWrite
      BY <2>1, <2>3 DEF WaitToWrite
    <2>4. CASE TestRoom
      <3>1. CASE wpc' = "check"
        BY <2>1, <2>4, <3>1 DEF TestRoom
      <3>2. CASE Room < Piece /\ "closed" \notin flags /\ wpc' = "asleep" /\ UNCHANGED waitForWrite
        <4>1. ~(Room >= Piece)
          BY <1>0, <3>2, SMT
        <4> QED BY <2>1, <2>4, <3>2, <4>1 DEF TestRoom
      <3> QED BY <2>4, <3>1, <3>2 DEF TestRoom
    <2>5. CASE WriterWakes
      BY <2>1, <2>5 DEF WriterWakes
    <2>6. CASE Copy
      BY <2>1, <2>6 DEF Copy
    <2>7. CASE LookForReader
      BY <2>1, <2>7 DEF LookForReader, AfterPush
    <2> QED BY <1>2, <2>2, <2>3, <2>4, <2>5, <2>6, <2>7
  <1>3. CASE CheckClosed
    <2>1. Integral'
      BY <1>3, SMT DEF CheckClosed, Integral
    <2>2. UNCHANGED <<Stored, Part>>
      BY <1>3 DEF CheckClosed, Stored, Part, FirstPart
    <2> QED BY <1>3, <2>1, <2>2 DEF CheckClosed
  <1>4. CASE Push
    <2>1. pushed' \in Int /\ wlen' \in Int
      BY <1>0, <1>4, SMT DEF Push, Integral
    <2>2. sent' \in Seq(Spans)
      <3>1. [at |-> pushed, length |-> wlen - HeaderSize] \in Spans
        BY WireAssumption, SMT DEF Integral, Spans
      <3>2. sent' = Append(sent, [at |-> pushed, length |-> wlen - HeaderSize]) \/ sent' = sent
        BY <1>4 DEF Push
      <3> HIDE DEF WInv
      <3>3. sent \in Seq(Spans)
        BY DEF WInv, Integral
      <3> QED BY <3>1, <3>2, <3>3, SeqAppend
    <2>3. Integral'
      BY <1>4, <2>1, <2>2 DEF Push, Integral
    <2> QED BY <1>4, <2>3 DEF Push
  <1>5. CASE NotifyReader
    <2>1. Integral' /\ UNCHANGED <<Stored, Room, Piece, Part>>
      BY <1>5, SameNumbers DEF NotifyReader
    <2> QED BY <1>5, <2>1 DEF NotifyReader, AfterPush, WakeReader
  <1> QED BY <1>1, <1>2, <1>3, <1>4, <1>5 DEF WriterStep

(* Steps of the reader. *)
LEMMA ReaderWakeups ==
  ASSUME WInv, ReaderStep \/ Expire
  PROVE  WInv'
  <1> USE DEF WInv, Waiting, NoLostWakeup, ringVars, writerVars, readerVars
  <1>0. Stored \in Int /\ Room \in Int /\ Piece \in Int /\ Part \in Int
    BY Compared
  <1>1. CASE LoadFlags \/ WaitToRead \/ TestMessage \/ ReaderWakes \/ TestPart \/ ReadMore
             \/ LookForWriter \/ NotifyWriter \/ Expire
    <2>1. Integral' /\ UNCHANGED <<Stored, Room, Piece, Part>>
      BY <1>1, SameNumbers DEF LoadFlags, WaitToRead, TestMessage, ReaderWakes, TestPart, ReadMore,
                               LookForWriter, NotifyWriter, Expire
    <2>2. CASE LoadFlags
      BY <2>1, <2>2 DEF LoadFlags
    <2>3. CASE WaitToRead
      BY <2>1, <2>3 DEF WaitToRead
    <2>4. CASE TestMessage
      <3>1. CASE rpc' = "idle"
        BY <2>1, <2>4, <3>1 DEF TestMessage
      <3>2. CASE Stored < HeaderSize /\ flags \cap ReaderFlags = {} /\ rpc' = "asleep"
                 /\ UNCHANGED waitForRead
        <4>1. ~(Stored >= HeaderSize)
          BY <1>0, <3>2, WireAssumption, SMT
        <4> QED BY <2>1, <2>4, <3>2, <4>1 DEF TestMessage
      <3> QED BY <2>4, <3>1, <3>2 DEF TestMessage
    <2>5. CASE ReaderWakes
      BY <2>1, <2>5 DEF ReaderWakes
    <2>6. CASE TestPart
      <3>1. CASE rpc' = "r_copy"
        BY <2>1, <2>6, <3>1 DEF TestPart
      <3>2. CASE Stored < Part /\ rpc' = "r_asleep" /\ UNCHANGED waitForRead
        <4>1. ~(Stored >= Part)
          BY <1>0, <3>2, SMT
        <4> QED BY <2>1, <2>6, <3>2, <4>1 DEF TestPart
      <3> QED BY <2>6, <3>1, <3>2 DEF TestPart
    <2>7. CASE ReadMore
      BY <2>1, <2>7 DEF ReadMore
    <2>8. CASE LookForWriter
      BY <2>1, <2>8 DEF LookForWriter, AfterPop
    <2>9. CASE NotifyWriter
      BY <2>1, <2>9 DEF NotifyWriter, AfterPop, WakeWriter
    <2>10. CASE Expire
      BY <2>1, <2>10 DEF Expire
    <2> QED BY <1>1, <2>2, <2>3, <2>4, <2>5, <2>6, <2>7, <2>8, <2>9, <2>10
  <1>2. CASE CheckStored
    <2>1. HeaderAt(poped).length \in Int
      BY HeaderIntegral DEF Integral
    <2>2. Integral'
      BY <1>2, <2>1, SMT DEF CheckStored, Integral, NoHeader
    <2>3. UNCHANGED <<Room, Piece>>
      BY <1>2 DEF CheckStored, Room, Stored, Piece
    <2> QED BY <1>2, <2>2, <2>3 DEF CheckStored
  <1>3. CASE Read \/ Payload
    <2>1. Integral'
      BY <1>3, WireAssumption, SMT DEF Read, Payload, ReadFirst, Integral
    <2>2. UNCHANGED <<Room, Piece>>
      BY <1>3 DEF Read, Payload, ReadFirst, Room, Stored, Piece
    <2> QED BY <1>3, <2>1, <2>2 DEF Read, Payload, ReadFirst
  <1>4. CASE Dispose
    <2>1. Integral'
      BY <1>4, SMT DEF Dispose, Integral
    <2> QED BY <1>4, <2>1 DEF Dispose
  <1>5. CASE Pop
    <2>1. Integral'
      BY <1>0, <1>5, WireAssumption, SMT DEF Pop, Integral
    <2> QED BY <1>5, <2>1 DEF Pop
  <1>6. CASE ReadDummy
    <2>1. Integral'
      BY <1>6, WireAssumption, SMT DEF ReadDummy, Integral
    <2> QED BY <1>6, <2>1 DEF ReadDummy
  <1> QED BY <1>1, <1>2, <1>3, <1>4, <1>5, <1>6 DEF ReaderStep

(* Steps of a thread that raises a signal. *)
LEMMA SignalWakeups ==
  ASSUME WInv, NEW s \in Signals, Raise(s) \/ SignalWriter(s) \/ SignalReader(s)
  PROVE  WInv'
  <1> USE DEF WInv, Waiting, NoLostWakeup, ringVars, writerVars, readerVars
  <1>0. Integral' /\ UNCHANGED <<Stored, Room, Piece, Part>>
    BY SameNumbers DEF Raise, SignalWriter, SignalReader
  <1>1. CASE Raise(s)
    BY <1>0, <1>1 DEF Raise
  <1>2. CASE SignalWriter(s)
    BY <1>0, <1>2 DEF SignalWriter, WakeWriter, AfterWriter
  <1>3. CASE SignalReader(s)
    BY <1>0, <1>3 DEF SignalReader, WakeReader
  <1> QED BY <1>1, <1>2, <1>3

(***************************************************************************)
(* No wake-up is lost: a side that sleeps although it could go on will be  *)
(* notified, for every capacity and every length of the messages, although *)
(* the flags are looked at without the mutex (simple_wire::write, read,    *)
(* dispose, and the signals of the two wires).                             *)
(***************************************************************************)
THEOREM NoWakeupIsLost == Spec => []NoLostWakeup
  <1>1. Init => WInv
    BY SMT DEF Init, WInv, Integral, Waiting, NoLostWakeup, NoHeader
  <1>2. WInv /\ [Next]_vars => WInv'
    <2> SUFFICES ASSUME WInv, [Next]_vars PROVE WInv'
      OBVIOUS
    <2>1. CASE UNCHANGED vars
      BY <2>1 DEF WInv, Integral, Waiting, NoLostWakeup, vars, ringVars, writerVars, readerVars,
                  Stored, Room, Piece, Part, FirstPart
    <2>2. CASE Next
      BY <2>2, WriterWakeups, ReaderWakeups, SignalWakeups DEF Next
    <2> QED BY <2>1, <2>2
  <1>3. WInv => NoLostWakeup
    BY DEF WInv
  <1> QED BY <1>1, <1>2, <1>3, PTL DEF Spec

-----------------------------------------------------------------------------
(* The types. *)

(* The places and lengths of the messages sent.                            *)
LEMMA SentTypes ==
  ASSUME TypeOK
  PROVE  /\ Len(sent) \in Nat /\ DOMAIN sent = 1 .. Len(sent)
         /\ \A m \in 1 .. Len(sent) : sent[m].at \in Nat /\ sent[m].length \in Nat
  <1> DEFINE S == [at : Nat, length : Nat]
  <1>1. sent \in Seq(S)
    BY DEF TypeOK
  <1> HIDE DEF S
  <1>2. Len(sent) \in Nat /\ DOMAIN sent = 1 .. Len(sent) /\ \A m \in 1 .. Len(sent) : sent[m] \in S
    BY <1>1, SeqElements
  <1> QED BY <1>2 DEF S

(* What HeaderAt makes of the bytes at p is a header. *)
LEMMA HeaderType ==
  ASSUME TypeOK, NEW p PROVE HeaderAt(p) \in [msg : Nat, length : Nat]
  <1> DEFINE bytes == ReadFromBuffer([k \in 1 .. HeaderSize |-> <<0, 0>>], 0, Index(p), HeaderSize)
             m == bytes[1][1]
             good == m \in DOMAIN sent /\ \A k \in 1 .. HeaderSize : bytes[k] = <<m, k - 1>>
  <1>1. HeaderAt(p) = IF good THEN [msg |-> m, length |-> sent[m].length] ELSE NoHeader
    BY DEF HeaderAt
  <1> HIDE DEF bytes, m
  <1>2. m \in DOMAIN sent => m \in Nat /\ sent[m].length \in Nat
    BY SentTypes, SMT
  <1> QED BY <1>1, <1>2, SMT DEF NoHeader

(* A piece copied fits in the ring and is part of what is left to copy.    *)
LEMMA PieceType ==
  ASSUME TypeOK
  PROVE  /\ Piece \in 0 .. Capacity /\ Piece <= wlen /\ (wlen > 0 => Piece > 0)
         /\ Part \in 0 .. Capacity /\ Part <= rlen /\ (rlen > 0 => Part > 0)
  BY WireAssumption, SMT DEF TypeOK, Piece, Part, MinOf, MaxPayloadLength

(* The counters are natural numbers.                                       *)
LEMMA Numbers ==
  ASSUME TypeOK
  PROVE  /\ pushed \in Nat /\ poped \in Nat /\ wlen \in Nat /\ woff \in Nat /\ rlen \in Nat
         /\ needDispose \in Nat /\ header.msg \in Nat /\ header.length \in Nat
         /\ HeaderSize \in Nat /\ HeaderSize > 0 /\ Capacity \in Nat /\ HeaderSize < Capacity
         /\ Piece \in Nat /\ Part \in Nat
  BY WireAssumption, PieceType, SMT DEF TypeOK

(* The bytes that Copy puts into the ring. *)
LEMMA CopySpec ==
  ASSUME TypeOK, WriterPlace, Copy
  PROVE  Written(buf', buf, pushed, IF woff = 0 THEN Len(sent) + 1 ELSE Len(sent), woff, Piece)
  <1> DEFINE H == HeaderSize
             N == Len(sent)
  <1>0. /\ Capacity \in Nat /\ H \in Nat /\ H > 0 /\ H < Capacity
        /\ buf \in [0 .. Capacity - 1 -> Bytes] /\ pushed \in Nat /\ woff \in Nat /\ N \in Nat
        /\ Piece \in 0 .. Capacity
    BY WireAssumption, SentTypes, PieceType, SMT DEF TypeOK
  <1>1. CASE woff = 0
    <2> DEFINE b == WriteInBuffer(buf, Index(pushed), N + 1, 0, H)
    <2>1. buf' = WriteInBuffer(b, Index(pushed + H), N + 1, H, Piece - H)
      BY <1>1 DEF Copy
    <2>2. Piece >= H
      BY <1>0, <1>1, SMT DEF Copy, WriterPlace, Writing, Piece, MinOf, TypeOK
    <2>3. N + 1 \in Nat /\ H \in 0 .. Capacity /\ Piece - H \in 0 .. Capacity /\ pushed + H \in Nat
      BY <1>0, <2>2, SMT
    <2> HIDE DEF H, N
    <2>4a. Written(b, buf, pushed, N + 1, 0, H)
      BY <1>0, <2>3, WriteSpec
    <2> HIDE DEF b
    <2>4. /\ b \in [0 .. Capacity - 1 -> Bytes]
          /\ \A k \in 0 .. H - 1 : b[Index(pushed + k)] = <<N + 1, 0 + k>>
          /\ \A j \in 0 .. Capacity - 1 :
                (\A k \in 0 .. H - 1 : j # Index(pushed + k)) => b[j] = buf[j]
      BY <2>4a DEF Written
    <2>5a. Written(buf', b, pushed + H, N + 1, H, Piece - H)
      BY <2>1, <2>3, <2>4, WriteSpec, <1>0
    <2>5. /\ buf' \in [0 .. Capacity - 1 -> Bytes]
          /\ \A k \in 0 .. (Piece - H) - 1 : buf'[Index((pushed + H) + k)] = <<N + 1, H + k>>
          /\ \A j \in 0 .. Capacity - 1 :
                (\A k \in 0 .. (Piece - H) - 1 : j # Index((pushed + H) + k)) => buf'[j] = b[j]
      BY <2>5a DEF Written
    <2>6. ASSUME NEW k \in 0 .. Piece - 1 PROVE buf'[Index(pushed + k)] = <<N + 1, k>>
      <3>1. CASE k < H
        <4>1. ASSUME NEW i \in 0 .. (Piece - H) - 1 PROVE Index(pushed + k) # Index((pushed + H) + i)
          <5>1. pushed + k \in Nat /\ (pushed + H) + i \in Nat /\ pushed + k < (pushed + H) + i
                /\ ((pushed + H) + i) - (pushed + k) < Capacity
            BY <1>0, <3>1, <4>1, SMT
          <5> QED BY <5>1, IndexDistinct
        <4>2. pushed + k \in Nat /\ k \in 0 .. H - 1
          BY <1>0, <3>1, SMT
        <4>3. Index(pushed + k) \in 0 .. Capacity - 1
          BY <4>2, IndexInRing
        <4>4. buf'[Index(pushed + k)] = b[Index(pushed + k)]
          BY <2>5, <4>1, <4>3
        <4>5. b[Index(pushed + k)] = <<N + 1, 0 + k>> /\ 0 + k = k
          BY <2>4, <4>2, SMT
        <4> QED BY <4>4, <4>5
      <3>2. CASE k >= H
        <4>1. k - H \in 0 .. (Piece - H) - 1 /\ (pushed + H) + (k - H) = pushed + k /\ H + (k - H) = k
          BY <1>0, <3>2, SMT
        <4>2. buf'[Index((pushed + H) + (k - H))] = <<N + 1, H + (k - H)>>
          BY <2>5, <4>1
        <4> QED BY <4>1, <4>2
      <3> QED BY <1>0, <3>1, <3>2, SMT
    <2>7. ASSUME NEW j \in 0 .. Capacity - 1, \A k \in 0 .. Piece - 1 : j # Index(pushed + k)
          PROVE  buf'[j] = buf[j]
      <3>1. ASSUME NEW k \in 0 .. (Piece - H) - 1 PROVE j # Index((pushed + H) + k)
        <4>1. H + k \in 0 .. Piece - 1 /\ pushed + (H + k) = (pushed + H) + k
          BY <1>0, SMT
        <4>2. j # Index(pushed + (H + k))
          BY <2>7, <4>1
        <4> QED BY <4>1, <4>2
      <3>2. \A k \in 0 .. H - 1 : k \in 0 .. Piece - 1
        BY <1>0, <2>2, SMT
      <3>3. \A k \in 0 .. H - 1 : j # Index(pushed + k)
        BY <2>7, <3>2
      <3> QED BY <2>4, <2>5, <3>1, <3>3
    <2>8. \A k \in 0 .. Piece - 1 : woff + k = k
      BY <1>0, <1>1, SMT
    <2> QED BY <1>1, <2>5, <2>6, <2>7, <2>8 DEF N, Written
  <1>2. CASE woff # 0
    <2>1. buf' = WriteInBuffer(buf, Index(pushed), N, woff, Piece)
      BY <1>2 DEF Copy
    <2> HIDE DEF N
    <2>2. Written(buf', buf, pushed, N, woff, Piece)
      BY <1>0, <2>1, WriteSpec
    <2> QED BY <1>2, <2>2 DEF N
  <1> QED BY <1>1, <1>2

(* All that a step of the wire changes in its types, when the ring, the    *)
(* messages and the buffer of the reader have theirs.                      *)
LEMMA WriterTypes ==
  ASSUME Streams, (\E l \in Lengths : Write(l)) \/ WriterStep
  PROVE  TypeOK'
  <1>0. TypeOK /\ WriterPlace
    BY DEF Streams
  <1> USE <1>0 DEF ringVars, writerVars, readerVars
  <1>1. ASSUME NEW l \in Lengths, Write(l) PROVE TypeOK'
    BY <1>1, WireAssumption, SMT DEF Write, TypeOK
  <1>2. CASE CheckRoom
    BY <1>2 DEF CheckRoom, TypeOK
  <1>3. CASE WaitToWrite
    BY <1>3 DEF WaitToWrite, TypeOK
  <1>4. CASE TestRoom
    BY <1>4 DEF TestRoom, TypeOK
  <1>5. CASE WriterWakes
    BY <1>5 DEF WriterWakes, TypeOK
  <1>6. CASE CheckClosed
    BY <1>6, SMT DEF CheckClosed, TypeOK
  <1>7. CASE Copy
    <2>1. buf' \in [0 .. Capacity - 1 -> Bytes]
      BY <1>7, CopySpec DEF Written
    <2> QED BY <1>7, <2>1 DEF Copy, TypeOK
  <1>8. CASE Push
    <2> DEFINE S == [at : Nat, length : Nat]
    <2>1. pushed' \in Nat /\ woff' \in Nat /\ wlen' \in Nat
      <3>1. pushed' = pushed + Piece /\ woff' = woff + Piece /\ wlen' = wlen - Piece
        BY <1>8 DEF Push
      <3>2. pushed \in Nat /\ woff \in Nat /\ wlen \in Nat
        BY DEF TypeOK
      <3>3. Piece \in Nat /\ Piece <= wlen
        BY PieceType, WireAssumption, SMT
      <3> QED BY ONLY <3>1, <3>2, <3>3, SMT
    <2>2. woff = 0 => [at |-> pushed, length |-> wlen - HeaderSize] \in S
      BY <1>8, WireAssumption DEF Push, WriterPlace, Writing, TypeOK
    <2>3. sent \in Seq(S)
      BY DEF TypeOK
    <2> HIDE DEF S
    <2>4. sent' \in Seq(S)
      BY <1>8, <2>2, <2>3, SeqAppend DEF Push
    <2>5. sent' \in Seq([at : Nat, length : Nat])
      BY <2>4 DEF S
    <2> QED BY <1>8, <2>1, <2>5 DEF Push, TypeOK
  <1>9. CASE LookForReader
    BY <1>9 DEF LookForReader, AfterPush, TypeOK
  <1>10. CASE NotifyReader
    BY <1>10 DEF NotifyReader, AfterPush, WakeReader, TypeOK
  <1> QED BY <1>1, <1>2, <1>3, <1>4, <1>5, <1>6, <1>7, <1>8, <1>9, <1>10 DEF WriterStep

(* A buffer before anything is read into it.                               *)
LEMMA BlankSpec ==
  ASSUME NEW n \in Nat
  PROVE  Blank(n) \in [1 .. n -> Bytes]
  BY DEF Blank, Bytes

(* What ReadFirst reads, behind the header. *)
LEMMA FirstSpec ==
  ASSUME TypeOK, ReadFirst
  PROVE  Fetched(top', Blank(header.length), header.length, 0, poped + HeaderSize,
                 MinOf(header.length, MaxPayloadLength))
  <1>1. header.length \in Nat /\ poped + HeaderSize \in Nat
        /\ MinOf(header.length, MaxPayloadLength) \in 0 .. Capacity
    BY WireAssumption, SMT DEF TypeOK, MinOf, MaxPayloadLength
  <1>2. buf \in [0 .. Capacity - 1 -> Bytes]
    BY DEF TypeOK
  <1>3. top' = ReadFromBuffer(Blank(header.length), 0, Index(poped + HeaderSize),
                              MinOf(header.length, MaxPayloadLength))
    BY DEF ReadFirst
  <1> QED BY <1>1, <1>2, <1>3, BlankSpec, ReadSpec

(* A function from 1 .. n is a sequence. *)
LEMMA IsSequence ==
  ASSUME NEW n \in Nat, NEW S, NEW t \in [1 .. n -> S] PROVE t \in Seq(S) /\ Len(t) = n
  BY SMT

(* The first part of a message is read into a sequence of bytes.           *)
LEMMA TopType ==
  ASSUME TypeOK, ReadFirst
  PROVE  top' \in Seq(Bytes) /\ rlen' \in Nat /\ rpc' = "pop" /\ needDispose' = needDispose
  <1>1. top' \in [1 .. header.length -> Bytes] /\ header.length \in Nat
    BY FirstSpec DEF Fetched, TypeOK
  <1> QED BY <1>1, IsSequence DEF ReadFirst

(* The steps of the reader keep the type invariant,                        *)
LEMMA ReaderTypes ==
  ASSUME Streams, ReaderStep \/ Expire, ~DummyRead => ReaderPlace
  PROVE  TypeOK'
  <1>0. TypeOK
    BY DEF Streams
  <1> USE <1>0 DEF ringVars, writerVars, readerVars
  <1>1. CASE LoadFlags
    BY <1>1 DEF LoadFlags, TypeOK
  <1>2. CASE CheckStored
    <2>1. header' \in [msg : Nat, length : Nat]
      <3>1. NoHeader \in [msg : Nat, length : Nat]
        BY DEF NoHeader
      <3>2. HeaderAt(poped) \in [msg : Nat, length : Nat]
        BY HeaderType
      <3> QED BY <1>2, <3>1, <3>2 DEF CheckStored, TypeOK
    <2> QED BY <1>2, <2>1, SMT DEF CheckStored, TypeOK
  <1>3. CASE WaitToRead
    BY <1>3 DEF WaitToRead, TypeOK
  <1>4. CASE TestMessage
    BY <1>4 DEF TestMessage, TypeOK
  <1>5. CASE ReaderWakes
    BY <1>5 DEF ReaderWakes, TypeOK
  <1>6. CASE Read
    <2>1. ReadFirst
      BY <1>6 DEF Read
    <2> QED BY <1>6, <2>1, TopType DEF Read, TypeOK
  <1>7. CASE Payload
    <2>1. CASE Index(poped + HeaderSize) < Index(poped + HeaderSize + header.length)
      <3>1. needDispose' = HeaderSize + header.length /\ rpc' = "viewing" /\ UNCHANGED <<rlen, top>>
        BY <1>7, <2>1 DEF Payload
      <3>2. needDispose' \in Nat
        BY <3>1, WireAssumption, SMT DEF TypeOK
      <3> QED BY <1>7, <3>1, <3>2 DEF Payload, TypeOK
    <2>2. CASE ~(Index(poped + HeaderSize) < Index(poped + HeaderSize + header.length))
      <3>1. ReadFirst
        BY <1>7, <2>2 DEF Payload
      <3> QED BY <1>7, <3>1, TopType DEF Payload, TypeOK
    <2> QED BY <2>1, <2>2
  <1>8. CASE Dispose
    <2>1. top' \in Seq(Bytes)
      <3> DEFINE i == Index(poped + HeaderSize)
                 byte(k) == LET j == i + k - 1 IN IF j < Capacity THEN buf[j] ELSE <<0, 0>>
      <3>0. poped + HeaderSize \in Nat /\ Capacity \in Nat
        BY WireAssumption, SMT DEF TypeOK
      <3>1. header.length \in Nat /\ buf \in [0 .. Capacity - 1 -> Bytes] /\ i \in Nat
        BY <3>0, IndexInRing, SMT DEF TypeOK
      <3>v. View = [k \in 1 .. header.length |-> byte(k)]
        BY DEF View
      <3> HIDE DEF i
      <3>b. ASSUME NEW k \in 1 .. header.length PROVE byte(k) \in Bytes
        <4>1. i + k - 1 < Capacity => i + k - 1 \in 0 .. Capacity - 1
          BY <3>0, <3>1, SMT
        <4>2. <<0, 0>> \in Bytes
          BY DEF Bytes
        <4> QED BY <3>1, <4>1, <4>2
      <3>2. View \in [1 .. header.length -> Bytes]
        BY <3>v, <3>b
      <3> QED BY <1>8, <3>1, <3>2, IsSequence DEF Dispose
    <2> QED BY <1>8, <2>1, SMT DEF Dispose, TypeOK
  <1>9. CASE Pop
    <2>1. poped' \in Nat /\ rlen' \in Nat
      <3>1. /\ poped' = poped + Part + (IF FirstPart THEN HeaderSize ELSE 0)
            /\ rlen' = rlen - Part
        BY <1>9 DEF Pop
      <3>2. poped \in Nat /\ rlen \in Nat /\ HeaderSize \in Nat
        BY WireAssumption DEF TypeOK
      <3>3. Part \in Nat /\ Part <= rlen
        BY PieceType, WireAssumption, SMT
      <3> QED BY ONLY <3>1, <3>2, <3>3, SMT
    <2> QED BY <1>9, <2>1 DEF Pop, TypeOK
  <1>10. ASSUME AfterPop, UNCHANGED <<rlen, header>>
         PROVE  /\ delivered' \in Seq(Seq(Bytes)) /\ top' \in Seq(Bytes)
                /\ rpc' \in {"r_lock", "idle", "over"}
    <2>1. delivered \in Seq(Seq(Bytes)) /\ top \in Seq(Bytes) /\ <<>> \in Seq(Bytes)
      BY SMT DEF TypeOK
    <2> DEFINE T == Seq(Bytes)
    <2>2. delivered \in Seq(T) /\ top \in T /\ <<>> \in T
      BY <2>1
    <2> HIDE DEF T
    <2>3. delivered' \in Seq(T) /\ top' \in T /\ rpc' \in {"r_lock", "idle", "over"}
      BY <1>10, <2>2, SeqAppend DEF AfterPop
    <2> QED BY <2>3 DEF T
  <1>11. CASE LookForWriter
    BY <1>10, <1>11 DEF LookForWriter, TypeOK
  <1>12. CASE NotifyWriter
    BY <1>10, <1>12 DEF NotifyWriter, WakeWriter, TypeOK
  <1>13. CASE TestPart
    BY <1>13 DEF TestPart, TypeOK
  <1>14. CASE ReadMore
    <2>1. top' \in Seq(Bytes)
      <3>1. rlen <= header.length /\ DOMAIN top = 1 .. header.length
        BY <1>14 DEF ReadMore, ReaderPlace, Inside, DummyRead
      <3>2. /\ header.length \in Nat /\ poped \in Nat /\ header.length - rlen \in Nat
            /\ Part \in 0 .. Capacity /\ buf \in [0 .. Capacity - 1 -> Bytes]
            /\ top \in [1 .. header.length -> Bytes]
        BY <3>1, PieceType, SMT DEF TypeOK
      <3>3. Fetched(top', top, header.length, header.length - rlen, poped, Part)
        BY <1>14, <3>2, ReadSpec DEF ReadMore
      <3> QED BY <3>2, <3>3, IsSequence DEF Fetched
    <2> QED BY <1>14, <2>1 DEF ReadMore, TypeOK
  <1>15. CASE ReadDummy
    BY <1>15, WireAssumption, SMT DEF ReadDummy, TypeOK
  <1>16. CASE Expire
    BY <1>16 DEF Expire, TypeOK
  <1> QED BY <1>1, <1>2, <1>3, <1>4, <1>5, <1>6, <1>7, <1>8, <1>9, <1>11, <1>12, <1>13, <1>14,
             <1>15, <1>16 DEF ReaderStep

(* and so do those of whoever raises a flag.                               *)
LEMMA SignalTypes ==
  ASSUME Streams, NEW s \in Signals, Raise(s) \/ SignalWriter(s) \/ SignalReader(s)
  PROVE  TypeOK'
  <1>0. TypeOK
    BY DEF Streams
  <1> USE <1>0 DEF ringVars, writerVars, readerVars
  <1>1. Flag(s) \in Flags
    BY DEF Flag, Flags, Signals
  <1>2. CASE Raise(s)
    <2>1. Len(sent) \in Nat
      BY SentTypes
    <2>2. mark' \in [Flags -> Nat \cup {-1}] /\ flags' \subseteq Flags
      BY <1>1, <1>2, <2>1 DEF Raise, TypeOK
    <2>3. spc' \in [Signals -> {"idle", "look_w", "notify_w", "look_r", "notify_r", "done"}]
      BY <1>2 DEF Raise, TypeOK
    <2> QED BY <1>2, <2>2, <2>3, SMT DEF Raise, TypeOK
  <1>3. CASE SignalWriter(s)
    <2>1. spc' \in [Signals -> {"idle", "look_w", "notify_w", "look_r", "notify_r", "done"}]
      BY <1>3 DEF SignalWriter, AfterWriter, TypeOK
    <2>2. wpc' = wpc \/ wpc' = "woken"
      BY <1>3 DEF SignalWriter, WakeWriter
    <2> QED BY <1>3, <2>1, <2>2, SMT DEF SignalWriter, TypeOK
  <1>4. CASE SignalReader(s)
    <2>1. spc' \in [Signals -> {"idle", "look_w", "notify_w", "look_r", "notify_r", "done"}]
      BY <1>4 DEF SignalReader, TypeOK
    <2>2. rpc' = rpc \/ rpc' = "woken" \/ rpc' = "r_woken"
      BY <1>4 DEF SignalReader, WakeReader
    <2> QED BY <1>4, <2>1, <2>2, SMT DEF SignalReader, TypeOK
  <1> QED BY <1>2, <1>3, <1>4

-----------------------------------------------------------------------------
(* What a step leaves as it is. *)

(* The counters as long as the ring is neither over- nor underrun. *)
LEMMA StoredIs ==
  ASSUME TypeOK, poped <= pushed, pushed <= poped + Capacity
  PROVE  Stored = pushed - poped /\ Room = (poped + Capacity) - pushed
  <1>1. pushed - poped \in 0 .. Capacity /\ Capacity \in Nat /\ Word \in Nat /\ Word > Capacity
    BY WireAssumption, SMT DEF TypeOK
  <1>2. (pushed - poped) % Word = pushed - poped
    BY <1>1, SMT
  <1>3. (Capacity - (pushed - poped)) \in 0 .. Capacity
    BY <1>1, SMT
  <1>4. (Capacity - (pushed - poped)) % Word = Capacity - (pushed - poped)
    BY <1>1, <1>3, SMT
  <1>5. Capacity - (pushed - poped) = (poped + Capacity) - pushed
    BY <1>1, SMT DEF TypeOK
  <1> QED BY <1>2, <1>4, <1>5 DEF Stored, Room

(* The invariant of the messages sent holds on while nothing is sent or    *)
(* pushed,                                                                 *)
LEMMA LaidHeld ==
  ASSUME Laid, UNCHANGED <<sent, pushed>> PROVE Laid'
  BY DEF Laid, EndOf, Size

(* that of the writer while it does not move but is woken,                 *)
LEMMA WriterHeld ==
  ASSUME WriterPlace, UNCHANGED <<sent, pushed, wlen, woff>>,
         wpc' = wpc \/ (wpc = "asleep" /\ wpc' = "woken"),
         "closed" \in flags => "closed" \in flags'
  PROVE  WriterPlace'
  <1>1. Total' = Total /\ Midway' = Midway
    BY DEF Total, Midway, EndOf, Size
  <1>2. (wpc' \in Writing <=> wpc \in Writing) /\ (wpc' = "idle" <=> wpc = "idle")
        /\ (wpc' \in {"look", "notify"} <=> wpc \in {"look", "notify"})
        /\ (wpc \in {"room", "check"} => wpc' \in {"room", "check"})
    BY DEF Writing
  <1> QED BY <1>1, <1>2 DEF WriterPlace, Writing

(* its room while the reader only frees more,                              *)
LEMMA RoomHeld ==
  ASSUME HasRoom, UNCHANGED <<pushed, wlen>>, poped' \in Int /\ poped' >= poped, TypeOK,
         wpc' = wpc \/ (wpc = "asleep" /\ wpc' = "woken"),
         "closed" \in flags => "closed" \in flags'
  PROVE  HasRoom'
  <1>1. Piece' = Piece
    BY DEF Piece, MinOf
  <1>2. pushed \in Int /\ Piece \in Int /\ poped \in Int /\ Capacity \in Int
    BY PieceType, WireAssumption, SMT DEF TypeOK
  <1>3. CASE (wpc' = "check" /\ "closed" \notin flags') \/ wpc' \in {"copy", "push"}
    <2>1. pushed + Piece <= poped + Capacity
      BY <1>3 DEF HasRoom
    <2>2. pushed + Piece <= poped' + Capacity
      <3> DEFINE a == pushed + Piece
                 b == poped'
                 c == poped
      <3>1. a \in Int /\ b \in Int /\ c \in Int /\ Capacity \in Int /\ c <= b /\ a <= c + Capacity
        BY <1>2, <2>1, SMT
      <3> HIDE DEF a, b, c
      <3>2. a <= b + Capacity
        BY <3>1, SMT
      <3> QED BY <3>2 DEF a, b
    <2>3. pushed' + Piece' <= poped' + Capacity
      BY <1>1, <2>2
    <2> QED BY <2>3 DEF HasRoom
  <1> QED BY <1>3 DEF HasRoom

(* the bytes while nobody writes any,                                      *)
LEMMA ContentsHeld ==
  ASSUME Contents, TypeOK, UNCHANGED <<buf, sent, pushed, wlen, woff>>,
         poped' \in Int /\ poped' >= poped, wpc' = "push" => wpc = "push"
  PROVE  Contents'
  <1>1. Piece' = Piece
    BY DEF Piece, MinOf
  <1>2. ASSUME NEW m \in 1 .. Len(sent), NEW k \in 0 .. Size(m) - 1,
               poped' <= sent[m].at + k, sent[m].at + k < pushed
        PROVE  buf[Index(sent[m].at + k)] = <<m, k>>
    <2>0. sent[m].at \in Int /\ sent[m].length \in Int /\ Size(m) \in Int
      BY SentTypes, WireAssumption, SMT DEF Size
    <2>1. poped <= sent[m].at + k
      <3>1. poped' <= sent[m].at + k /\ poped' >= poped
        BY <1>2
      <3>2. poped \in Int /\ poped' \in Int /\ k \in Int
        BY SMT DEF TypeOK
      <3> QED BY ONLY <2>0, <3>1, <3>2, SMT
    <2> QED BY <1>2, <2>1 DEF Contents
  <1>3. \A m : Size(m)' = Size(m)
    BY DEF Size
  <1> QED BY <1>1, <1>2, <1>3 DEF Contents

Awoken == rpc' = rpc \/ (rpc = "asleep" /\ rpc' = "woken") \/ (rpc = "r_asleep" /\ rpc' = "r_woken")

(* and that of the reader while it does not move but is woken.             *)
LEMMA ReaderHeld ==
  ASSUME ReaderPlace, Awoken,
         UNCHANGED <<sent, pushed, poped, delivered, header, rlen, top, needDispose>>
  PROVE  ReaderPlace'
  <1>1. Total' = Total /\ Current' = Current /\ Got' = Got /\ FirstPart' = FirstPart /\ Part' = Part
    BY DEF Total, EndOf, Size, Current, Got, FirstPart, Part, MinOf
  <1>2. \A n : Copied(n)' = Copied(n) /\ Size(n)' = Size(n)
    BY DEF Copied, Shows, Current, Size
  <1>3. /\ rpc' \in Between <=> rpc \in Between
        /\ rpc' \in Inside <=> rpc \in Inside
        /\ rpc' \in Inside \ {"header", "viewing"} <=> rpc \in Inside \ {"header", "viewing"}
        /\ rpc' \in Inside \ {"header", "viewing", "pop"} <=> rpc \in Inside \ {"header", "viewing", "pop"}
        /\ rpc' \in {"r_lock", "r_testing", "r_asleep", "r_woken", "r_copy"}
             <=> rpc \in {"r_lock", "r_testing", "r_asleep", "r_woken", "r_copy"}
        /\ rpc' \in {"header", "viewing"} <=> rpc \in {"header", "viewing"}
        /\ rpc' = "interrupted" <=> rpc = "interrupted"
        /\ rpc' = "viewing" <=> rpc = "viewing"
        /\ rpc' = "pop" <=> rpc = "pop"
        /\ rpc' = "r_copy" <=> rpc = "r_copy"
    BY DEF Awoken, Between, Inside
  <1> QED BY <1>1, <1>2, <1>3 DEF ReaderPlace, Index

(* Between two messages only the place counts. *)
LEMMA BetweenHeld ==
  ASSUME ReaderPlace, rpc \in Between, rpc' \in Between,
         rpc' = "interrupted" => header' = NoHeader,
         UNCHANGED <<sent, poped, delivered>>
  PROVE  ReaderPlace'
  <1>1. Total' = Total /\ Current' = Current
    BY DEF Total, EndOf, Size, Current
  <1>2. rpc' \notin Inside
    BY DEF Between, Inside
  <1>3. rpc' \notin {"header", "viewing", "pop", "r_lock", "r_testing", "r_asleep", "r_woken", "r_copy"}
    BY DEF Between
  <1> QED BY <1>1, <1>2, <1>3 DEF ReaderPlace

-----------------------------------------------------------------------------
(* The writer. *)

(* The writer's own steps that publish nothing. *)
QuietWriterStep ==
    \/ \E l \in Lengths : Write(l)
    \/ CheckRoom \/ WaitToWrite \/ TestRoom \/ WriterWakes \/ CheckClosed
    \/ LookForReader \/ NotifyReader

(* What the steps of the writer leave alone that neither copy nor push,    *)
LEMMA QuietWriterFrame ==
  ASSUME QuietWriterStep
  PROVE  /\ UNCHANGED <<buf, pushed, poped, sent, flags, mark, spc, seen>>
         /\ UNCHANGED <<delivered, header, rlen, top, needDispose>>
         /\ Awoken /\ wpc' # "push"
  BY DEF QuietWriterStep, Write, CheckRoom, WaitToWrite, TestRoom, WriterWakes, CheckClosed,
         LookForReader, NotifyReader, WakeReader, AfterPush, Awoken, ringVars, writerVars, readerVars

(* and that they keep the place of the writer.                             *)
LEMMA QuietWriterPlace ==
  ASSUME TypeOK, Laid, WriterPlace, QuietWriterStep
  PROVE  WriterPlace'
  <1>0. /\ sent' = sent /\ pushed' = pushed /\ flags' = flags
        /\ HeaderSize \in Nat /\ HeaderSize > 0 /\ wlen \in Nat /\ woff \in Nat
    BY QuietWriterFrame, WireAssumption, SMT DEF TypeOK
  <1>1. Total' = Total
    BY <1>0 DEF Total, EndOf, Size
  <1>m. wlen' = wlen /\ woff' = woff => Midway' = Midway
    BY <1>0 DEF Midway, EndOf, Size
  <1>2. ASSUME NEW l \in Lengths, Write(l) PROVE WriterPlace'
    <2>1. wpc = "idle" /\ wpc' = "room" /\ woff' = 0 /\ wlen' = l + HeaderSize
      BY <1>2 DEF Write
    <2>2. l \in Nat
      BY WireAssumption
    <2>3. wlen' >= HeaderSize /\ wlen' - HeaderSize \in Lengths
      BY <1>0, <2>1, <2>2, SMT
    <2>4. pushed = Total \/ "closed" \in flags
      BY <2>1 DEF WriterPlace
    <2> QED BY <1>0, <1>1, <2>1, <2>3, <2>4 DEF WriterPlace, Writing
  <1>3. CASE CheckRoom
    <2>1. wpc = "room" /\ wpc' \in {"lock", "check"} /\ wlen' = wlen /\ woff' = woff
          /\ (wpc' = "lock" => "closed" \notin flags)
      BY <1>3 DEF CheckRoom
    <2> QED BY <1>0, <1>1, <1>m, <2>1 DEF WriterPlace, Writing
  <1>4. CASE WaitToWrite
    <2>1. wpc = "lock" /\ wpc' = "testing" /\ wlen' = wlen /\ woff' = woff
      BY <1>4 DEF WaitToWrite
    <2> QED BY <1>0, <1>1, <1>m, <2>1 DEF WriterPlace, Writing
  <1>5. CASE TestRoom
    <2>1. wpc = "testing" /\ wpc' \in {"check", "asleep"} /\ wlen' = wlen /\ woff' = woff
      BY <1>5 DEF TestRoom
    <2> QED BY <1>0, <1>1, <1>m, <2>1 DEF WriterPlace, Writing
  <1>6. CASE WriterWakes
    <2>1. wpc = "woken" /\ wpc' = "testing" /\ wlen' = wlen /\ woff' = woff
      BY <1>6 DEF WriterWakes
    <2> QED BY <1>0, <1>1, <1>m, <2>1 DEF WriterPlace, Writing
  <1>7. CASE CheckClosed
    <2>1. CASE "closed" \in flags
      <3>1. wpc' = "idle"
        BY <1>7, <2>1 DEF CheckClosed
      <3> QED BY <1>0, <2>1, <3>1 DEF WriterPlace, Writing
    <2>2. CASE "closed" \notin flags
      <3>1. wpc = "check" /\ wpc' = "copy" /\ wlen' = wlen /\ woff' = woff
        BY <1>7, <2>2 DEF CheckClosed
      <3> QED BY <1>0, <1>1, <1>m, <2>2, <3>1 DEF WriterPlace, Writing
    <2> QED BY <2>1, <2>2
  <1>8. CASE LookForReader \/ NotifyReader
    <2>1. wpc \in {"look", "notify"} /\ wlen' = wlen /\ woff' = woff
          /\ wpc' \in {"notify", AfterPush}
      BY <1>8 DEF LookForReader, NotifyReader
    <2>2. Midway /\ Midway'
      BY <1>m, <2>1 DEF WriterPlace
    <2>3. CASE wlen > 0
      <3>1. wpc' \in {"notify", "room"}
        BY <2>1, <2>3 DEF AfterPush
      <3>2. woff # 0
        BY <1>0, <2>2, SMT DEF Midway
      <3> QED BY <1>0, <2>1, <2>2, <2>3, <3>1, <3>2 DEF WriterPlace, Writing
    <2>4. CASE wlen = 0
      <3>1. wpc' \in {"notify", "idle"}
        BY <2>1, <2>4, SMT DEF AfterPush
      <3>2. pushed = Total
        <4> DEFINE N == Len(sent)
        <4>1. sent # <<>> /\ woff + wlen = Size(N) /\ pushed = sent[N].at + woff
          BY <2>2 DEF Midway
        <4>2. woff + wlen = woff
          BY <1>0, <2>4, SMT
        <4> QED BY <4>1, <4>2 DEF Total, EndOf
      <3> QED BY <1>0, <1>1, <2>2, <3>1, <3>2 DEF WriterPlace, Writing
    <2> QED BY <1>0, <2>3, <2>4, SMT
  <1> QED BY <1>2, <1>3, <1>4, <1>5, <1>6, <1>7, <1>8 DEF QuietWriterStep

(* The room that the writer has found. *)
LEMMA QuietWriterRoom ==
  ASSUME TypeOK, poped <= pushed, pushed <= poped + Capacity, HasRoom, QuietWriterStep
  PROVE  HasRoom'
  <1>0. pushed' = pushed /\ poped' = poped /\ flags' = flags
    BY QuietWriterFrame
  <1>1. wlen' = wlen => Piece' = Piece
    BY DEF Piece, MinOf
  <1>2. /\ pushed \in Int /\ Piece \in Int /\ poped \in Int /\ Capacity \in Int
        /\ Room \in Int /\ Room = (poped + Capacity) - pushed
    BY PieceType, StoredIs, WireAssumption, SMT DEF TypeOK
  <1>3. Piece <= Room => pushed + Piece <= poped + Capacity
    BY <1>2, SMT
  <1>4. ~(Piece > Room) => Piece <= Room
    BY <1>2, SMT
  <1>5. Room >= Piece => Piece <= Room
    BY <1>2
  <1>6. ASSUME wpc' \in {"check", "copy"}, wpc' = "check" => "closed" \notin flags
        PROVE  wlen' = wlen /\ pushed + Piece <= poped + Capacity
    <2>1. CASE CheckRoom
      BY <1>3, <1>4, <1>6, <2>1 DEF CheckRoom
    <2>2. CASE TestRoom
      BY <1>3, <1>5, <1>6, <2>2 DEF TestRoom
    <2>3. CASE CheckClosed
      BY <1>6, <2>3 DEF CheckClosed, HasRoom
    <2> QED BY <1>6, <2>1, <2>2, <2>3 DEF QuietWriterStep, Write, WaitToWrite, WriterWakes,
                  LookForReader, NotifyReader, AfterPush
  <1>7. wpc' # "push"
    BY QuietWriterFrame
  <1>8. CASE (wpc' = "check" /\ "closed" \notin flags') \/ wpc' \in {"copy", "push"}
    BY <1>0, <1>1, <1>6, <1>7, <1>8 DEF HasRoom
  <1> QED BY <1>8 DEF HasRoom

(* The messages lie one after another, none beyond what was pushed or is   *)
(* being written.                                                          *)
LEMMA Places ==
  ASSUME TypeOK, Laid
  PROVE  /\ Total \in Nat /\ pushed <= Total /\ Len(sent) \in Nat
         /\ sent = <<>> <=> Len(sent) = 0
         /\ \A m \in 1 .. Len(sent) :
               /\ sent[m].at \in Nat /\ sent[m].length \in Nat
               /\ Size(m) \in Nat /\ Size(m) = HeaderSize + sent[m].length
               /\ EndOf(m) \in Nat /\ EndOf(m) = sent[m].at + Size(m) /\ EndOf(m) <= Total
               /\ sent[m].at + MinOf(Size(m), Capacity) <= pushed
  <1> DEFINE N == Len(sent)
  <1>1. N \in Nat /\ HeaderSize \in Nat /\ Capacity \in Nat /\ pushed \in Nat /\ (sent = <<>> <=> N = 0)
    BY WireAssumption, SentTypes, SMT DEF TypeOK
  <1>2. \A m \in 1 .. N : sent[m].at \in Nat /\ sent[m].length \in Nat
    BY SentTypes
  <1>3. \A m \in 1 .. N : /\ Size(m) \in Nat /\ Size(m) = HeaderSize + sent[m].length
                          /\ EndOf(m) \in Nat /\ EndOf(m) = sent[m].at + Size(m)
    BY <1>1, <1>2, SMT DEF Size, EndOf
  <1>4. CASE N = 0
    BY <1>1, <1>4, SMT DEF Total, Laid
  <1>5. CASE N # 0
    <2>1. N \in 1 .. N /\ sent # <<>>
      BY <1>1, <1>5, SMT
    <2>2. Total = EndOf(N) /\ Total \in Nat
      BY <1>3, <2>1 DEF Total
    <2>3. sent[N].at + MinOf(Size(N), Capacity) <= pushed /\ pushed <= Total
      BY <2>1, <2>2 DEF Laid
    <2>4. ASSUME NEW m \in 1 .. N
          PROVE  EndOf(m) <= Total /\ sent[m].at + MinOf(Size(m), Capacity) <= pushed
      <3>1. CASE m = N
        BY <1>3, <2>2, <2>3, <3>1, SMT
      <3>2. CASE m # N
        <4>1. m < N
          BY <1>1, <3>2, SMT
        <4>2. EndOf(m) <= sent[N].at
          BY <2>1, <4>1 DEF Laid
        <4>3. /\ EndOf(m) \in Nat /\ sent[N].at \in Nat /\ Size(N) \in Nat /\ Size(m) \in Nat
              /\ EndOf(m) = sent[m].at + Size(m) /\ sent[m].at \in Nat /\ EndOf(N) = sent[N].at + Size(N)
          BY <1>2, <1>3, <2>1
        <4>4. EndOf(m) <= Total
          BY <2>2, <4>2, <4>3, SMT
        <4>5. MinOf(Size(m), Capacity) \in Nat /\ MinOf(Size(m), Capacity) <= Size(m)
              /\ MinOf(Size(N), Capacity) \in Nat
          BY <1>1, <4>3, SMT DEF MinOf
        <4>6. sent[m].at + MinOf(Size(m), Capacity) <= pushed
          <5> DEFINE a == sent[m].at
                     b == sent[N].at
                     c == MinOf(Size(m), Capacity)
                     d == MinOf(Size(N), Capacity)
          <5>1. /\ a \in Nat /\ b \in Nat /\ c \in Nat /\ d \in Nat /\ c <= Size(m) /\ Size(m) \in Nat
                /\ a + Size(m) <= b /\ b + d <= pushed /\ pushed \in Nat
            BY <1>1, <2>3, <4>2, <4>3, <4>5
          <5> HIDE DEF a, b, c, d
          <5>2. a + c <= pushed
            BY <5>1, SMT
          <5> QED BY <5>2 DEF a, c
        <4> QED BY <4>4, <4>6
      <3> QED BY <3>1, <3>2
    <2> QED BY <1>1, <1>2, <1>3, <2>2, <2>3, <2>4
  <1> QED BY <1>4, <1>5

(* Copying a piece keeps the invariant: it goes where the ring has room.   *)
LEMMA CopyHolds ==
  ASSUME Streams, Sound, Copy PROVE Sound'
  <1>0. TypeOK /\ Laid /\ WriterPlace /\ HasRoom /\ Contents /\ ReaderPlace
    BY DEF Streams, Sound
  <1>1. /\ UNCHANGED <<sent, pushed, poped, delivered, header, rlen, top, needDispose, wlen, woff, rpc>>
        /\ wpc = "copy" /\ wpc' = "push"
    BY DEF Copy, readerVars
  <1>2. Piece' = Piece /\ \A m : Size(m)' = Size(m)
    BY <1>1 DEF Piece, MinOf, Size
  <1>3. ReaderPlace'
    BY <1>0, <1>1, ReaderHeld DEF Awoken
  <1>4. pushed + Piece <= poped + Capacity
    BY <1>0, <1>1 DEF HasRoom
  <1>5. HasRoom'
    BY <1>1, <1>2, <1>4 DEF HasRoom
  <1> DEFINE M == IF woff = 0 THEN Len(sent) + 1 ELSE Len(sent)
  <1>6. Written(buf', buf, pushed, M, woff, Piece)
    BY <1>0, CopySpec
  <1>7. ASSUME NEW m \in 1 .. Len(sent), NEW k \in 0 .. Size(m) - 1,
               poped <= sent[m].at + k, sent[m].at + k < pushed
        PROVE  buf'[Index(sent[m].at + k)] = <<m, k>>
    <2> DEFINE q == sent[m].at + k
    <2>0. sent[m].at \in Nat /\ k \in Nat
      BY <1>0, Places, SMT
    <2>1. /\ q \in Nat /\ pushed \in Nat /\ poped \in Nat /\ Piece \in Nat /\ Capacity \in Nat
          /\ poped <= q /\ q < pushed
      <3>1. pushed \in Nat /\ poped \in Nat /\ Piece \in Nat /\ Capacity \in Nat
        BY <1>0, Numbers
      <3>2. q \in Nat
        BY <2>0, SMT
      <3>3. poped <= q /\ q < pushed
        BY <1>7
      <3> QED BY <3>1, <3>2, <3>3
    <2>2. buf[Index(q)] = <<m, k>>
      BY <1>0, <1>7 DEF Contents
    <2> HIDE DEF q
    <2>3. ASSUME NEW j \in 0 .. Piece - 1 PROVE Index(q) # Index(pushed + j)
      <3>1. pushed + j \in Nat /\ q < pushed + j /\ (pushed + j) - q < Capacity
        BY <1>4, <2>1, SMT
      <3> QED BY <2>1, <3>1, IndexDistinct
    <2>4. Index(q) \in 0 .. Capacity - 1
      BY <2>1, IndexInRing
    <2>5. buf'[Index(q)] = buf[Index(q)]
      BY <1>6, <2>3, <2>4 DEF Written
    <2> QED BY <2>2, <2>5 DEF q
  <1>8. Contents'
    BY <1>1, <1>2, <1>6, <1>7 DEF Contents, Written
  <1> QED BY <1>1, <1>3, <1>5, <1>8 DEF Sound

(* The first piece of a message. *)
LEMMA FirstPush ==
  ASSUME TypeOK, WriterPlace, Push, woff = 0
  PROVE  LET N == Len(sent) IN
         /\ Len(sent') = N + 1 /\ sent' # <<>>
         /\ \A m \in 1 .. N : sent'[m] = sent[m] /\ Size(m)' = Size(m) /\ EndOf(m)' = EndOf(m)
         /\ sent'[N + 1].at = pushed /\ sent'[N + 1].length = wlen - HeaderSize
         /\ sent'[N + 1].length \in Lengths
         /\ \A n : n = N + 1 => Size(n)' = wlen /\ EndOf(n)' = pushed + wlen
         /\ pushed = Total
  <1> DEFINE N == Len(sent)
             e == [at |-> pushed, length |-> wlen - HeaderSize]
             S == [at : Nat, length : Nat]
  <1>1. wlen \in Nat /\ HeaderSize \in Nat /\ pushed \in Nat /\ N \in Nat
    BY WireAssumption, SentTypes DEF TypeOK
  <1>2. wlen >= HeaderSize /\ wlen - HeaderSize \in Lengths /\ pushed = Total
    BY DEF Push, WriterPlace, Writing
  <1>3. e \in S /\ sent \in Seq(S) /\ e.at = pushed /\ e.length = wlen - HeaderSize
    BY <1>1, <1>2, SMT DEF TypeOK
  <1>4. sent' = Append(sent, e)
    BY DEF Push
  <1> HIDE DEF e, S
  <1>5. /\ Len(sent') = N + 1 /\ sent' \in Seq(S)
        /\ \A m \in 1 .. N : sent'[m] = sent[m]
        /\ sent'[N + 1] = e
    BY <1>3, <1>4, SeqAppend, SMT
  <1>6. sent' # <<>>
    BY <1>1, <1>5, SMT
  <1>7. ASSUME NEW n, n = N + 1 PROVE Size(n)' = wlen /\ EndOf(n)' = pushed + wlen
    <2>1. Size(n)' = HeaderSize + e.length
      BY <1>5, <1>7 DEF Size
    <2>2. EndOf(n)' = e.at + Size(n)'
      BY <1>5, <1>7 DEF EndOf
    <2> QED BY <1>1, <1>3, <2>1, <2>2, SMT
  <1>8. \A m \in 1 .. N : Size(m)' = Size(m) /\ EndOf(m)' = EndOf(m)
    BY <1>5 DEF Size, EndOf
  <1> QED BY <1>2, <1>3, <1>5, <1>6, <1>7, <1>8

(* push: the piece becomes part of the stream; the messages sent are laid  *)
(* out as before,                                                          *)
LEMMA PushLaid ==
  ASSUME TypeOK, Laid, WriterPlace, Push PROVE Laid'
  <1> DEFINE N == Len(sent)
             P == pushed + Piece
  <1>0. /\ pushed \in Nat /\ wlen \in Nat /\ Piece \in Nat /\ Capacity \in Nat /\ N \in Nat
        /\ pushed' = P /\ P \in Nat
    <2>1. pushed \in Nat /\ wlen \in Nat /\ Piece \in Nat /\ Capacity \in Nat /\ N \in Nat
      BY Numbers, SentTypes
    <2>2. pushed' = P
      BY DEF Push
    <2> QED BY <2>1, <2>2, SMT
  <1>1. CASE woff = 0
    <2>1. /\ Len(sent') = N + 1 /\ sent' # <<>>
          /\ \A m \in 1 .. N : sent'[m] = sent[m] /\ Size(m)' = Size(m) /\ EndOf(m)' = EndOf(m)
          /\ sent'[N + 1].at = pushed
          /\ sent'[N + 1].length \in Lengths
          /\ \A n : n = N + 1 => Size(n)' = wlen /\ EndOf(n)' = pushed + wlen
          /\ pushed = Total
      BY <1>1, FirstPush
    <2>2. \A m \in 1 .. N : EndOf(m) <= Total
      BY Places
    <2>3. N > 0 => Total = EndOf(N)
      BY <1>0, SMT DEF Total
    <2> HIDE DEF N
    <2>4. ASSUME NEW m \in 1 .. N + 1, NEW n \in 1 .. N + 1, m < n
          PROVE  EndOf(m)' <= sent'[n].at
      <3>1. m \in 1 .. N
        BY <1>0, <2>4, SMT
      <3>2. CASE n = N + 1
        BY <2>1, <2>2, <3>1, <3>2
      <3>3. CASE n # N + 1
        <4>1. n \in 1 .. N
          BY <1>0, <3>3, SMT
        <4>2. EndOf(m) <= sent[n].at
          BY <2>4, <3>1, <4>1 DEF Laid, N
        <4> QED BY <2>1, <3>1, <4>1, <4>2
      <3> QED BY <3>2, <3>3
    <2>5. ASSUME NEW m \in 1 .. N + 1, NEW n \in 1 .. N + 1, n = m + 1
          PROVE  sent'[n].at = EndOf(m)'
      <3>1. m \in 1 .. N
        BY <1>0, <2>5, SMT
      <3>2. CASE n = N + 1
        <4>1. m = N /\ N > 0
          BY <1>0, <2>5, <3>1, <3>2, SMT
        <4> QED BY <2>1, <2>3, <3>1, <3>2, <4>1
      <3>3. CASE n # N + 1
        <4>1. n \in 1 .. N
          BY <1>0, <3>3, SMT
        <4>2. sent[n].at = EndOf(m)
          BY <2>5, <3>1, <4>1 DEF Laid, N
        <4> QED BY <2>1, <3>1, <4>1, <4>2
      <3> QED BY <3>2, <3>3
    <2>6. \A m \in 1 .. N + 1 : sent'[m].length \in Lengths
      <3>1. \A m \in 1 .. N : sent[m].length \in Lengths
        BY DEF Laid, N
      <3> QED BY <1>0, <2>1, <3>1, SMT
    <2>7. sent'[1].at = 0
      <3>1. CASE N = 0
        <4>1. Total = 0
          BY <3>1, Places DEF Total, N
        <4> QED BY <2>1, <3>1, <4>1, SMT
      <3>2. CASE N # 0
        <4>1. sent # <<>> /\ 1 \in 1 .. N
          BY <1>0, <3>2, SMT DEF N
        <4> QED BY <2>1, <4>1 DEF Laid
      <3> QED BY <3>1, <3>2
    <2>8. ASSUME NEW n, n = N + 1
          PROVE  sent'[n].at + MinOf(Size(n)', Capacity) <= P /\ P <= EndOf(n)'
      <3>1. sent'[n].at = pushed /\ Size(n)' = wlen /\ EndOf(n)' = pushed + wlen
        BY <2>1, <2>8
      <3>2. MinOf(wlen, Capacity) = Piece
        BY DEF Piece
      <3>3. Piece <= wlen
        BY PieceType
      <3>4. pushed + Piece <= pushed + wlen
        BY <1>0, <3>3, SMT
      <3>5. pushed + Piece <= P
        BY <1>0, SMT
      <3> QED BY <3>1, <3>2, <3>4, <3>5
    <2>9. /\ sent'[Len(sent')].at + MinOf(Size(Len(sent))', Capacity) <= pushed'
          /\ pushed' <= EndOf(Len(sent))'
      BY <1>0, <2>1, <2>8
    <2> QED BY <2>1, <2>4, <2>5, <2>6, <2>7, <2>9 DEF Laid
  <1>2. CASE woff # 0
    <2>1. sent' = sent
      BY <1>2 DEF Push
    <2>2. \A m : Size(m)' = Size(m) /\ EndOf(m)' = EndOf(m)
      BY <2>1 DEF Size, EndOf
    <2>3. Midway
      BY <1>2 DEF Push, WriterPlace, Writing
    <2>4. /\ sent # <<>> /\ woff \in Nat /\ woff + wlen = Size(N) /\ pushed = sent[N].at + woff
          /\ N \in 1 .. N /\ Piece <= wlen
      BY <1>0, <2>3, PieceType, Numbers, Places, SMT DEF Midway
    <2>5. /\ sent[N].at \in Nat /\ Size(N) \in Nat /\ EndOf(N) = sent[N].at + Size(N)
          /\ sent[N].at + MinOf(Size(N), Capacity) <= pushed
      BY <2>4, Places
    <2>6. P <= EndOf(N)
      <3> DEFINE a == sent[N].at
                 z == Size(N)
      <3>1. /\ a \in Nat /\ z \in Nat /\ woff \in Nat /\ wlen \in Nat /\ Piece \in Nat
            /\ Piece <= wlen /\ woff + wlen = z /\ P = a + woff + Piece /\ EndOf(N) = a + z
        BY <1>0, <2>4, <2>5
      <3> HIDE DEF a, z, P, N
      <3> QED BY <3>1, SMT
    <2>7. MinOf(Size(N), Capacity) \in Nat
      BY <1>0, <2>5 DEF MinOf
    <2>8. sent[N].at + MinOf(Size(N), Capacity) <= P
      BY <1>0, <2>5, <2>7, SMT
    <2>9. /\ \A m, n \in 1 .. N : m < n => EndOf(m)' <= sent'[n].at
          /\ \A m, n \in 1 .. N : n = m + 1 => sent'[n].at = EndOf(m)'
          /\ \A m \in 1 .. N : sent'[m].length \in Lengths
          /\ sent'[1].at = 0
      BY <2>1, <2>2, <2>4 DEF Laid
    <2> QED BY <1>0, <2>1, <2>2, <2>4, <2>6, <2>8, <2>9 DEF Laid
  <1> QED BY <1>1, <1>2

(* the writer is behind the piece,                                         *)
LEMMA PushPlace ==
  ASSUME TypeOK, Laid, WriterPlace, Push PROVE WriterPlace'
  <1> DEFINE N == Len(sent)
  <1>0. /\ pushed \in Nat /\ wlen \in Nat /\ woff \in Nat /\ Piece \in Nat /\ Capacity \in Nat
        /\ HeaderSize \in Nat /\ HeaderSize < Capacity /\ Piece <= wlen
        /\ pushed' = pushed + Piece /\ woff' = woff + Piece /\ wlen' = wlen - Piece
        /\ wpc' = "look"
    BY Numbers, PieceType DEF Push
  <1>1. CASE woff = 0
    <2>1. /\ Len(sent') = N + 1 /\ sent' # <<>> /\ sent'[N + 1].at = pushed
          /\ \A n : n = N + 1 => Size(n)' = wlen
      BY <1>1, FirstPush
    <2>2. wlen >= HeaderSize
      BY <1>1 DEF Push, WriterPlace, Writing
    <2>3. Piece >= HeaderSize
      BY <1>0, <2>2, SMT DEF Piece, MinOf
    <2>4. woff' >= HeaderSize /\ woff' + wlen' = wlen /\ pushed' = pushed + woff'
      BY <1>0, <1>1, <2>3, SMT
    <2>5. Midway'
      BY <2>1, <2>4 DEF Midway
    <2> QED BY <1>0, <2>5 DEF WriterPlace, Writing
  <1>2. CASE woff # 0
    <2>1. Midway /\ sent' = sent
      BY <1>2 DEF Push, WriterPlace, Writing
    <2>2. \A m : Size(m)' = Size(m)
      BY <2>1 DEF Size
    <2>3. sent # <<>> /\ woff >= HeaderSize /\ woff + wlen = Size(N) /\ pushed = sent[N].at + woff
          /\ sent[N].at \in Nat
      BY <2>1, Places, SMT DEF Midway
    <2>4. woff' >= HeaderSize /\ woff' + wlen' = woff + wlen /\ pushed' = sent[N].at + woff'
      BY <1>0, <2>3, SMT
    <2>5. Midway'
      BY <2>1, <2>2, <2>3, <2>4 DEF Midway
    <2> QED BY <1>0, <2>5 DEF WriterPlace, Writing
  <1> QED BY <1>1, <1>2

(* A publication leaves the messages before it as they are. *)
LEMMA PushKeeps ==
  ASSUME TypeOK, Laid, WriterPlace, Push
  PROVE  /\ Len(sent') \in Nat /\ Len(sent) <= Len(sent')
         /\ \A m \in 1 .. Len(sent) : sent'[m] = sent[m] /\ Size(m)' = Size(m)
         /\ pushed' \in Nat /\ pushed <= pushed'
  <1>0. Len(sent) \in Nat /\ pushed \in Nat /\ Piece \in Nat
    BY Numbers, SentTypes
  <1>1. pushed' = pushed + Piece
    BY DEF Push
  <1>2. CASE woff = 0
    <2>1. Len(sent') = Len(sent) + 1
          /\ \A m \in 1 .. Len(sent) : sent'[m] = sent[m] /\ Size(m)' = Size(m)
      BY <1>2, FirstPush
    <2> QED BY <1>0, <1>1, <2>1, SMT
  <1>3. CASE woff # 0
    <2>1. sent' = sent
      BY <1>3 DEF Push
    <2>2. \A m : Size(m)' = Size(m)
      BY <2>1 DEF Size
    <2> QED BY <1>0, <1>1, <2>1, <2>2, SMT
  <1> QED BY <1>2, <1>3

(* the ring holds its bytes,                                               *)
LEMMA PushContents ==
  ASSUME TypeOK, Laid, WriterPlace, Contents, Push PROVE Contents'
  <1> DEFINE N == Len(sent)
             M == IF woff = 0 THEN N + 1 ELSE N
  <1>0. /\ pushed \in Nat /\ wlen \in Nat /\ woff \in Nat /\ Piece \in Nat /\ N \in Nat /\ poped \in Nat
        /\ HeaderSize \in Nat
    BY Numbers, SentTypes
  <1>1. wpc = "push" /\ wpc' = "look" /\ pushed' = pushed + Piece /\ UNCHANGED <<buf, poped>>
    BY DEF Push
  <1>2. \A j \in 0 .. Piece - 1 : buf[Index(pushed + j)] = <<M, woff + j>>
    BY <1>1 DEF Contents
  <1>3. SUFFICES ASSUME NEW m \in 1 .. Len(sent'), NEW k \in 0 .. Size(m)' - 1,
                        poped <= sent'[m].at + k, sent'[m].at + k < pushed'
                 PROVE  buf[Index(sent'[m].at + k)] = <<m, k>>
    BY <1>1 DEF Contents
  <1>4. ASSUME m \in 1 .. N
        PROVE  /\ sent'[m].at = sent[m].at /\ Size(m)' = Size(m) /\ sent[m].at \in Nat
               /\ Size(m) \in Nat /\ k \in Nat /\ k < Size(m) /\ EndOf(m) = sent[m].at + Size(m)
    BY <1>4, PushKeeps, Places, SMT
  <1>5. ASSUME m \in 1 .. N, sent[m].at + k < pushed
        PROVE  buf[Index(sent'[m].at + k)] = <<m, k>>
    <2>1. k \in 0 .. Size(m) - 1 /\ poped <= sent[m].at + k
      BY <1>3, <1>4, <1>5
    <2> QED BY <1>4, <1>5, <2>1 DEF Contents
  <1>6. CASE woff = 0
    <2>1. /\ Len(sent') = N + 1 /\ sent'[N + 1].at = pushed /\ pushed = Total
          /\ \A n : n = N + 1 => Size(n)' = wlen
      BY <1>6, FirstPush
    <2>2. CASE m \in 1 .. N
      <3>1. EndOf(m) <= pushed
        BY <2>1, <2>2, Places
      <3>2. sent[m].at + k < pushed
        BY <1>0, <1>4, <2>2, <3>1, SMT
      <3> QED BY <1>5, <2>2, <3>2
    <2>3. CASE m \notin 1 .. N
      <3>1. m = N + 1
        BY <1>0, <2>1, <2>3, SMT
      <3>2. sent'[m].at = pushed /\ k \in Nat
        BY <1>0, <2>1, <3>1, SMT
      <3>3. k \in 0 .. Piece - 1 /\ woff + k = k
        BY <1>0, <1>1, <1>3, <1>6, <3>2, SMT
      <3> QED BY <1>2, <1>6, <3>1, <3>2, <3>3
    <2> QED BY <2>2, <2>3
  <1>7. CASE woff # 0
    <2>1. sent' = sent /\ Midway
      BY <1>7 DEF Push, WriterPlace, Writing
    <2>2. m \in 1 .. N /\ N \in 1 .. N
      BY <1>0, <2>1, SMT
    <2>3. /\ sent[N].at \in Nat /\ pushed = sent[N].at + woff
          /\ sent'[m].at = sent[m].at /\ sent[m].at \in Nat /\ Size(m) \in Nat /\ k \in Nat /\ k < Size(m)
          /\ EndOf(m) = sent[m].at + Size(m)
      BY <1>4, <2>1, <2>2, Places DEF Midway
    <2>4. CASE sent[m].at + k < pushed
      BY <1>5, <2>2, <2>4
    <2>5. CASE ~(sent[m].at + k < pushed)
      <3>1. m = N
        <4>1. m < N => EndOf(m) <= sent[N].at
          BY <2>2 DEF Laid
        <4>2. m < N => sent[m].at + k < pushed
          BY <1>0, <2>3, <4>1, SMT
        <4> QED BY <1>0, <2>2, <2>5, <4>2, SMT
      <3> DEFINE a == sent[N].at
                 j == k - woff
      <3>2. /\ a \in Nat /\ pushed = a + woff /\ a + k \in Nat /\ ~(a + k < pushed)
            /\ a + k < pushed + Piece /\ k \in Nat /\ sent'[m].at = a
        BY <1>1, <1>3, <2>3, <2>5, <3>1, SMT
      <3> HIDE DEF a
      <3>3. j \in 0 .. Piece - 1 /\ pushed + j = a + k /\ woff + j = k
        BY <1>0, <3>2, SMT
      <3>4. buf[Index(pushed + j)] = <<N, woff + j>>
        BY <1>2, <1>7, <3>3
      <3> QED BY <3>1, <3>2, <3>3, <3>4
    <2> QED BY <2>4, <2>5
  <1> QED BY <1>6, <1>7

(* and the reader is where it was.                                         *)
LEMMA PushReader ==
  ASSUME TypeOK, Laid, WriterPlace, ReaderPlace, Push PROVE ReaderPlace'
  <1> DEFINE N == Len(sent)
             C == Current
  <1>0. /\ UNCHANGED <<poped, rpc, header, rlen, top, needDispose, delivered>>
    BY DEF Push, readerVars
  <1>1. /\ Current' = C /\ Got' = Got /\ FirstPart' = FirstPart /\ Part' = Part
        /\ \A n : Copied(n)' = Copied(n)
    BY <1>0 DEF Current, Got, FirstPart, Part, MinOf, Copied, Shows
  <1>2. /\ Len(sent') \in Nat /\ N <= Len(sent') /\ N \in Nat /\ pushed \in Nat
        /\ \A m \in 1 .. N : sent'[m] = sent[m] /\ Size(m)' = Size(m)
        /\ pushed' \in Nat /\ pushed <= pushed'
    BY PushKeeps, SentTypes, Numbers
  <1>3. C \in Nat /\ C > 0 /\ C <= N + 1 /\ Len(delivered) \in Nat /\ Len(delivered) <= N /\ C = Len(delivered) + 1
    <2>1. delivered \in Seq(Seq(Bytes)) /\ Len(delivered) <= N
      BY DEF ReaderPlace, TypeOK
    <2> QED BY ONLY <1>2, <2>1, SMT DEF Current
  <1>4. C <= N => C \in 1 .. N /\ C <= Len(sent') /\ sent'[C] = sent[C] /\ Size(Current)' = Size(C)
    BY <1>1, <1>2, <1>3, SMT DEF Size
  <1>5. ASSUME rpc \in Between
        PROVE  poped = IF C <= Len(sent') THEN sent'[C].at ELSE Total'
    <2>1. poped = IF C <= N THEN sent[C].at ELSE Total
      BY <1>5 DEF ReaderPlace
    <2>2. CASE C <= N
      BY <1>4, <2>1, <2>2
    <2>3. CASE ~(C <= N) /\ woff = 0
      <3>1. Len(sent') = N + 1 /\ sent'[N + 1].at = pushed /\ pushed = Total
        BY <2>3, FirstPush
      <3>2. C = N + 1
        BY <1>2, <1>3, <2>3, SMT
      <3> QED BY <1>2, <2>1, <2>3, <3>1, <3>2, SMT
    <2>4. CASE ~(C <= N) /\ woff # 0
      <3>1. sent' = sent
        BY <2>4 DEF Push
      <3>2. Total' = Total
        BY <3>1 DEF Total, EndOf, Size
      <3> QED BY <2>1, <2>4, <3>1, <3>2
    <2> QED BY <2>2, <2>3, <2>4
  <1>6. Len(delivered') <= Len(sent')
    BY <1>0, <1>2, <1>3, SMT
  <1>7. rpc \in Inside => C <= N
    BY DEF ReaderPlace
  <1>8. ASSUME NEW x \in Nat, x <= pushed PROVE x <= pushed'
    BY <1>2, <1>8, SMT
  <1>9. rpc = "pop" => poped + Part + (IF FirstPart THEN HeaderSize ELSE 0) <= pushed'
    <2>1. poped + Part + (IF FirstPart THEN HeaderSize ELSE 0) \in Nat
      BY Numbers, SMT
    <2> QED BY <1>8, <2>1 DEF ReaderPlace
  <1>10. rpc = "r_copy" => poped + Part <= pushed'
    <2>1. poped + Part \in Nat
      BY Numbers, SMT
    <2> QED BY <1>8, <2>1 DEF ReaderPlace
  <1>11. /\ rpc \in {"header", "viewing"} => rpc \in Inside
         /\ rpc \in {"pop", "r_lock", "r_testing", "r_asleep", "r_woken", "r_copy"} => rpc \in Inside
    BY DEF Inside
  <1> QED BY <1>0, <1>1, <1>4, <1>5, <1>6, <1>7, <1>9, <1>10, <1>11 DEF ReaderPlace, Index

=============================================================================
