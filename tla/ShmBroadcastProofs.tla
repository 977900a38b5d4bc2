-------------------------- MODULE ShmBroadcastProofs --------------------------
(***************************************************************************)
(* The message queue for any set of readers, any number of blocks and any  *)
(* number of messages: nobody reads a block that is being filled, and the  *)
(* ring with its socket is a broadcast channel.                            *)
(***************************************************************************)
EXTENDS ShmBroadcast, TLAPS

\* The block message p + 1 goes into: the writer and the readers walk the ring
\* by (current_idx + 1) % max_chunks.
Slot(p) == p % MaxChunks

ReaderPCs == {"idle", "first", "second", "wait", "poll", "read", "pass", "passBig",
              "recv", "dead"}
ReadingPCs == {"read", "pass", "passBig"}
FillingPCs == {"fill", "filling", "reset"}

RingTypeOK ==
    /\ scenario \in Scenarios
    /\ written \in [Blocks -> {0, 1}]
    /\ flag \in [Blocks -> [Readers -> {0, 1}]]
    /\ data \in [Blocks -> Nat]
    /\ sent \in Nat
    /\ rpc \in [Readers -> ReaderPCs]
    /\ ridx \in [Readers -> Blocks]
    /\ blocked \in [Readers -> BOOLEAN]
    /\ handed \in [Readers -> Nat]
    /\ passed \in [Readers -> Nat]
    /\ socket \in [Readers -> Seq(Nat)]

\* Both sides are where their counts say, a reader at most one lap behind.
Positions ==
    /\ widx = Slot(sent)
    /\ \A r \in Readers : /\ ridx[r] = Slot(passed[r])
                          /\ passed[r] <= sent
                          /\ sent <= passed[r] + MaxChunks

\* The block of message p + 1 holds it, and its flags say who has passed it.
Holds(p) ==
    /\ written[Slot(p)] = 1
    /\ data[Slot(p)] = p + 1
    /\ \A r \in Readers : flag[Slot(p)][r] = 1 <=> passed[r] > p

\* The last lap is in the ring, but for the block the writer is at; that block
\* holds the oldest message of the lap or is free.
LastLap == \A p \in Nat : (p < sent /\ sent < p + MaxChunks) => Holds(p)
AtWriter ==
    \/ /\ written[widx] = 0
       /\ \A r \in Readers : sent < passed[r] + MaxChunks
    \/ \E p \in Nat : sent = p + MaxChunks /\ Holds(p)
NeverWritten == \A p \in Nat : (sent <= p /\ p < MaxChunks) => written[Slot(p)] = 0

\* What the writer has done of a message it is writing.
Filling ==
    /\ wpc \in FillingPCs => written[widx] = 0
    /\ wpc = "reset" => /\ data[widx] = sent + 1
                        /\ \A r \in Readers : r \notin resets => flag[widx][r] = 0

\* A reader that found its read flag 0 is behind the writer or will find the
\* block not written; one that found the block readable is behind the writer.
Found ==
    \A r \in Readers :
        /\ rpc[r] = "second" /\ ~blocked[r] => passed[r] < sent \/ written[widx] = 0
        /\ rpc[r] \in ReadingPCs => passed[r] < sent

RingInv == RingTypeOK /\ Positions /\ LastLap /\ AtWriter /\ NeverWritten /\ Filling /\ Found

\* The message a reader was handed last, against the blocks it has passed.
Handed(r) ==
    /\ rpc[r] \notin {"pass", "recv"} => handed[r] = passed[r]
    /\ rpc[r] = "pass" => handed[r] = passed[r] + 1
    /\ rpc[r] = "passBig" => passed[r] + 1 \in Big
    /\ rpc[r] = "recv" => handed[r] + 1 = passed[r] /\ passed[r] \in Big

\* The socket of a reader holds, in order, the big messages that were sent and
\* that it was not handed yet; the last one may be missing while the writer is
\* between the ring and the socket, or died there.
InSocket(r) ==
    \A i \in 1 .. Len(socket[r]) :
        /\ socket[r][i] \in Big /\ handed[r] < socket[r][i] /\ socket[r][i] <= sent
        /\ wpc = "send" => socket[r][i] < sent
InOrder(r) ==
    \A i, j \in 1 .. Len(socket[r]) : i < j => socket[r][i] < socket[r][j]
NoneMissing(r) ==
    \A m \in Big :
        (handed[r] < m /\ m <= sent /\ (m = sent => wpc \notin {"send", "dead"}))
            => \E i \in 1 .. Len(socket[r]) : socket[r][i] = m
Sending(r) == wpc = "send" => sent \in Big /\ handed[r] < sent

SocketOf(r) == InSocket(r) /\ InOrder(r) /\ NoneMissing(r) /\ Sending(r)
SocketInv == "recv" \notin TimesOut => \A r \in Readers : Handed(r) /\ SocketOf(r)

-----------------------------------------------------------------------------
(* The ring of indices.                                                    *)

\* Division with remainder.
LEMMA ModEuclid ==
    ASSUME NEW x \in Nat, NEW d \in Nat \ {0}
    PROVE  x \div d \in Nat /\ x % d \in 0 .. d - 1 /\ x = (x \div d) * d + (x % d)
BY SMT

\* The remainder is the only one.
LEMMA ModUnique ==
    ASSUME NEW x \in Nat, NEW q \in Nat, NEW d \in Nat \ {0}, NEW s \in 0 .. d - 1,
           x = q * d + s
    PROVE  x % d = s
BY SMT

\* Two multiples are at least the divisor apart.
LEMMA MultiplesApart ==
    ASSUME NEW a \in Nat, NEW b \in Nat, NEW d \in Nat \ {0}, a < b
    PROVE  a * d + d <= b * d
BY SMT

\* A product of naturals is one, and so is the next multiple.
LEMMA MulFacts ==
    ASSUME NEW a \in Nat, NEW d \in Nat
    PROVE  a * d \in Nat /\ (a + 1) * d = a * d + d
BY SMT

\* A slot is a block.
LEMMA SlotBlock == \A p \in Nat : Slot(p) \in Blocks
<1> TAKE p \in Nat
<1>1. p % MaxChunks \in 0 .. MaxChunks - 1
  BY ShmAssumption, ModEuclid
<1> QED BY <1>1 DEF Slot, Blocks

\* Walking the ring by one block is walking the messages by one.
LEMMA SlotFollowing == \A p \in Nat : Following(Slot(p)) = Slot(p + 1)
<1> TAKE p \in Nat
<1> DEFINE d == MaxChunks
           q == p \div d
           s == p % d
           u == q * d
<1>1. d \in Nat \ {0}
  BY ShmAssumption
<1>2. q \in Nat /\ s \in 0 .. d - 1 /\ p = u + s
  BY <1>1, ModEuclid
<1>3. u \in Nat /\ (q + 1) * d = u + d
  BY <1>1, <1>2, MulFacts
<1>4. Following(Slot(p)) = (s + 1) % d /\ Slot(p + 1) = (p + 1) % d
  BY DEF Following, Slot
<1>5. CASE s + 1 < d
  <2>1. (s + 1) % d = s + 1
    BY <1>1, <1>2, <1>5, ModUnique, 0 * d = 0, s + 1 = 0 * d + (s + 1)
  <2>2. p + 1 = q * d + (s + 1) /\ s + 1 \in 0 .. d - 1
    <3> HIDE DEF s, u
    <3>1. p + 1 = u + (s + 1) /\ s + 1 \in 0 .. d - 1
      BY <1>1, <1>2, <1>3, <1>5
    <3> QED BY <3>1 DEF u
  <2>3. (p + 1) % d = s + 1
    <3>1. p + 1 \in Nat
      OBVIOUS
    <3> HIDE DEF q, s
    <3> QED BY <1>1, <1>2, <2>2, <3>1, ModUnique
  <2> QED BY <1>4, <2>1, <2>3
<1>6. CASE s + 1 = d
  <2>1. (s + 1) % d = 0
    <3>1. d = 1 * d + 0
      BY <1>1
    <3>2. d % d = 0
      BY <1>1, <3>1, ModUnique
    <3> QED BY <1>6, <3>2
  <2>2. p + 1 = (q + 1) * d + 0
    <3> HIDE DEF s, u
    <3> QED BY <1>1, <1>2, <1>3, <1>6
  <2>3. (p + 1) % d = 0
    BY <1>1, <1>2, <2>2, ModUnique
  <2> QED BY <1>4, <2>1, <2>3
<1> QED
  <2> HIDE DEF s, d
  <2> QED BY <1>1, <1>2, <1>5, <1>6

\* A lap later the block is the same.
LEMMA SlotLap == \A p \in Nat : Slot(p + MaxChunks) = Slot(p)
<1> TAKE p \in Nat
<1> DEFINE d == MaxChunks
           q == p \div d
           s == p % d
           u == q * d
<1>1. d \in Nat \ {0}
  BY ShmAssumption
<1>2. q \in Nat /\ s \in 0 .. d - 1 /\ p = u + s
  BY <1>1, ModEuclid
<1>3. u \in Nat /\ (q + 1) * d = u + d
  BY <1>1, <1>2, MulFacts
<1>4. p + d = (q + 1) * d + s
  <2> HIDE DEF s, u
  <2> QED BY <1>1, <1>2, <1>3
<1>5. (p + d) % d = s
  <2>1. p + d \in Nat /\ q + 1 \in Nat
    BY <1>1, <1>2
  <2> HIDE DEF q, s
  <2> QED BY <1>1, <1>2, <1>4, <2>1, ModUnique
<1> QED BY <1>5 DEF Slot

\* Within a lap no block is met twice.
LEMMA SlotDistinct ==
    ASSUME NEW p \in Nat, NEW q \in Nat, p < q, q < p + MaxChunks
    PROVE  Slot(p) # Slot(q)
<1> DEFINE d == MaxChunks
           a == p \div d
           b == q \div d
           u == a * d
           v == b * d
<1> SUFFICES ASSUME p % d = q % d PROVE FALSE
  BY DEF Slot
<1>1. d \in Nat \ {0}
  BY ShmAssumption
<1> DEFINE s == p % d
<1>2. a \in Nat /\ b \in Nat /\ s \in Nat /\ p = u + s /\ q = v + s
  <2>1. a \in Nat /\ s \in 0 .. d - 1 /\ p = u + s
    BY <1>1, ModEuclid
  <2>2. b \in Nat /\ q % d \in 0 .. d - 1 /\ q = v + (q % d)
    BY <1>1, ModEuclid
  <2> QED BY <1>1, <2>1, <2>2
<1>3. u \in Nat /\ v \in Nat
  BY <1>1, <1>2, MulFacts
<1>4. a < b => u + d <= v
  BY <1>1, <1>2, MultiplesApart
<1>5. b < a => v + d <= u
  BY <1>1, <1>2, MultiplesApart
<1>6. a = b => u = v
  OBVIOUS
<1> HIDE DEF a, b, u, v, s
<1> QED BY <1>1, <1>2, <1>3, <1>4, <1>5, <1>6

-----------------------------------------------------------------------------
(* The ring.                                                               *)

RingLaps == Positions /\ LastLap /\ AtWriter /\ NeverWritten

\* The queue starts empty and free.
LEMMA InitRing ==
    ASSUME Init
    PROVE  RingInv
<1>1. RingTypeOK
  <2>1. /\ written \in [Blocks -> {0, 1}] /\ flag \in [Blocks -> [Readers -> {0, 1}]]
        /\ data \in [Blocks -> Nat]
    BY DEF Init
  <2>2. /\ handed \in [Readers -> Nat] /\ passed \in [Readers -> Nat]
        /\ sent \in Nat
    BY DEF Init
  <2>4. rpc \in [Readers -> ReaderPCs]
    BY Zenon DEF Init, ReaderPCs
  <2>6. blocked \in [Readers -> BOOLEAN]
    BY Zenon DEF Init
  <2>5. socket \in [Readers -> Seq(Nat)]
    <3>1. << >> \in Seq(Nat)
      OBVIOUS
    <3> QED BY <3>1, Zenon DEF Init
  <2>3. ridx \in [Readers -> Blocks]
    BY ShmAssumption DEF Init, Blocks
  <2> QED BY <2>1, <2>2, <2>3, <2>4, <2>5, <2>6 DEF Init, RingTypeOK
<1>2. Slot(0) = 0
  <2>1. 0 = 0 * MaxChunks + 0
    BY ShmAssumption
  <2>2. 0 % MaxChunks = 0
    BY <2>1, ShmAssumption, ModUnique
  <2> QED BY <2>2 DEF Slot
<1>3. Positions
  BY <1>2, ShmAssumption DEF Init, Positions
<1>4. LastLap
  BY DEF Init, LastLap
<1>5. AtWriter
  BY <1>2, ShmAssumption, SlotBlock DEF Init, AtWriter
<1>6. NeverWritten
  BY SlotBlock DEF Init, NeverWritten
<1>7. Filling /\ Found
  BY DEF Init, Filling, Found, FillingPCs, ReadingPCs
<1> QED BY <1>1, <1>3, <1>4, <1>5, <1>6, <1>7 DEF RingInv

\* A step that leaves the ring and the places of both sides alone.
LEMMA LapsFrame ==
    ASSUME RingLaps, UNCHANGED <<written, flag, data, widx, sent, ridx, passed>>
    PROVE  RingLaps'
<1>1. Positions'
  BY DEF RingLaps, Positions
<1>2. LastLap' /\ AtWriter' /\ NeverWritten'
  BY DEF RingLaps, LastLap, AtWriter, NeverWritten, Holds
<1> QED BY <1>1, <1>2 DEF RingLaps

\* The block of the writer and the blocks of the last lap are different ones.
LEMMA OtherBlock ==
    ASSUME RingTypeOK, Positions, NEW p \in Nat, p < sent, sent < p + MaxChunks
    PROVE  Slot(p) # widx /\ Slot(p) \in Blocks
BY SlotDistinct, SlotBlock DEF RingTypeOK, Positions

\* A block that is not marked as written holds no message.
LEMMA FreeAtWriter ==
    ASSUME RingTypeOK, RingLaps, written[widx] = 0
    PROVE  \A r \in Readers : sent < passed[r] + MaxChunks
<1>1. ASSUME NEW p \in Nat, sent = p + MaxChunks, Holds(p) PROVE FALSE
  <2>1. Slot(p) = widx
    BY <1>1, SlotLap DEF RingLaps, Positions
  <2> QED BY <1>1, <2>1 DEF Holds
<1> QED BY <1>1 DEF RingLaps, AtWriter

\* A step of the writer that only changes a block it has taken.
LEMMA LapsAtWriter ==
    ASSUME RingTypeOK, RingLaps, widx \in Blocks,
           \A r \in Readers : sent < passed[r] + MaxChunks,
           UNCHANGED <<widx, sent, ridx, passed>>,
           written'[widx] = 0,
           \A b \in Blocks : b # widx => /\ written'[b] = written[b]
                                         /\ data'[b] = data[b]
                                         /\ flag'[b] = flag[b]
    PROVE  RingLaps'
<1>1. Positions'
  BY DEF RingLaps, Positions
<1>2. LastLap'
  <2> SUFFICES ASSUME NEW p \in Nat, p < sent, sent < p + MaxChunks
               PROVE  Holds(p)'
    BY DEF LastLap
  <2>1. Holds(p)
    BY DEF RingLaps, LastLap
  <2>2. Slot(p) # widx /\ Slot(p) \in Blocks
    BY OtherBlock DEF RingLaps
  <2> QED BY <2>1, <2>2 DEF Holds
<1>3. AtWriter'
  BY DEF AtWriter
<1>4. NeverWritten'
  BY SlotBlock DEF NeverWritten, RingLaps
<1> QED BY <1>1, <1>2, <1>3, <1>4 DEF RingLaps

\* Steps of the writer that touch neither the ring nor its place.
LEMMA WriterOutsideRing ==
    ASSUME RingInv, Enqueue \/ WriteTimeout \/ SendMultipart \/ Notify \/ WriterEnds
    PROVE  RingInv'
<1> USE DEF Enqueue, WriteTimeout, SendMultipart, Notify, WriterEnds, ring, reader, signals
<1>1. RingTypeOK'
  <2>1. CASE SendMultipart
    <3>1. socket' \in [Readers -> Seq(Nat)]
      BY <2>1 DEF RingInv, RingTypeOK
    <3> QED BY <2>1, <3>1 DEF RingInv, RingTypeOK
  <2> QED BY <2>1 DEF RingInv, RingTypeOK
<1>2. RingLaps'
  BY LapsFrame DEF RingInv, RingLaps
<1>3. Filling' /\ Found'
  BY DEF RingInv, Filling, Found, FillingPCs
<1> QED BY <1>1, <1>2, <1>3 DEF RingInv, RingLaps

\* acquire_write takes a block only when every reader has passed what it held.
LEMMA AcquireRing ==
    ASSUME RingInv, Acquire
    PROVE  RingInv'
<1> USE DEF Acquire, reader, signals
<1>0. widx \in Blocks
  BY SlotBlock DEF RingInv, RingTypeOK, Positions
<1>1. RingTypeOK'
  BY <1>0 DEF RingInv, RingTypeOK
<1>2. \A r \in Readers : sent < passed[r] + MaxChunks
  <2>1. ASSUME NEW p \in Nat, sent = p + MaxChunks, Holds(p), NEW r \in Readers
        PROVE  sent < passed[r] + MaxChunks
    <3>1. Slot(p) = widx
      BY <2>1, SlotLap DEF RingInv, Positions
    <3>2. flag[widx][r] = 1
      BY <2>1, <3>1 DEF FreeToWrite, Holds
    <3>3. passed[r] > p
      BY <2>1, <3>1, <3>2 DEF Holds
    <3> QED BY <2>1, <3>3, ShmAssumption DEF RingInv, RingTypeOK
  <2> QED BY <2>1 DEF RingInv, AtWriter
<1>3. RingLaps'
  BY <1>0, <1>2, LapsAtWriter DEF RingInv, RingLaps, RingTypeOK
<1>4. Filling' /\ Found'
  BY <1>0 DEF RingInv, RingTypeOK, Filling, Found, FillingPCs
<1> QED BY <1>1, <1>3, <1>4 DEF RingInv, RingLaps

\* Filling the block and resetting its read flags.
LEMMA FillRing ==
    ASSUME RingInv, Fill \/ Filled \/ \E r \in Readers : ResetFlag(r)
    PROVE  RingInv'
<1> USE DEF Fill, Filled, ResetFlag, reader, signals
<1>0. widx \in Blocks /\ written[widx] = 0
  BY SlotBlock DEF RingInv, RingTypeOK, Positions, Filling, FillingPCs
<1>1. RingTypeOK'
  <2>1. CASE Fill \/ Filled
    <3>1. sent + 1 \in Nat
      BY DEF RingInv, RingTypeOK
    <3>2. data' \in [Blocks -> Nat]
      <4>1. CASE Fill
        BY <1>0, <4>1 DEF RingInv, RingTypeOK
      <4>2. CASE Filled
        BY <1>0, <4>2, <3>1 DEF RingInv, RingTypeOK
      <4> QED BY <2>1, <4>1, <4>2
    <3> QED BY <2>1, <3>2 DEF RingInv, RingTypeOK
  <2>2. CASE \E r \in Readers : ResetFlag(r)
    <3> PICK r \in Readers : ResetFlag(r)
      BY <2>2
    <3>1. [flag[widx] EXCEPT ![r] = 0] \in [Readers -> {0, 1}]
      BY <1>0 DEF RingInv, RingTypeOK
    <3>2. flag' = [flag EXCEPT ![widx] = [flag[widx] EXCEPT ![r] = 0]]
      BY <1>0 DEF RingInv, RingTypeOK
    <3>3. flag' \in [Blocks -> [Readers -> {0, 1}]]
      BY <3>1, <3>2 DEF RingInv, RingTypeOK
    <3> QED BY <3>3 DEF RingInv, RingTypeOK
  <2> QED BY <2>1, <2>2
<1>2. \A b \in Blocks : b # widx => /\ written'[b] = written[b]
                                    /\ data'[b] = data[b]
                                    /\ flag'[b] = flag[b]
  <2>1. CASE Fill \/ Filled
    BY <2>1 DEF RingInv, RingTypeOK
  <2>2. CASE \E r \in Readers : ResetFlag(r)
    BY <2>2 DEF RingInv, RingTypeOK
  <2> QED BY <2>1, <2>2
<1>3. RingLaps'
  <2>1. \A r \in Readers : sent < passed[r] + MaxChunks
    BY <1>0, FreeAtWriter DEF RingInv, RingLaps
  <2> QED BY <1>0, <1>2, <2>1, LapsAtWriter DEF RingInv, RingLaps
<1>4. Filling'
  <2>1. CASE Fill \/ Filled
    BY <1>0, <2>1 DEF RingInv, RingTypeOK, Filling, FillingPCs
  <2>2. CASE \E r \in Readers : ResetFlag(r)
    BY <1>0, <2>2 DEF RingInv, RingTypeOK, Filling, FillingPCs
  <2> QED BY <2>1, <2>2
<1>5. Found'
  BY DEF RingInv, Found
<1> QED BY <1>1, <1>3, <1>4, <1>5 DEF RingInv, RingLaps

\* Publishing: the block joins the last lap, and the next one is the oldest of
\* it or was never written.
LEMMA PublishRing ==
    ASSUME RingInv, Publish
    PROVE  RingInv'
<1> USE DEF Publish, reader, signals
<1>0. widx \in Blocks /\ written[widx] = 0 /\ sent \in Nat /\ widx = Slot(sent)
  BY SlotBlock DEF RingInv, RingTypeOK, Positions, Filling, FillingPCs
<1>1. RingTypeOK'
  BY <1>0 DEF RingInv, RingTypeOK
<1>2. \A r \in Readers : passed[r] \in Nat /\ sent < passed[r] + MaxChunks
  BY <1>0, FreeAtWriter DEF RingInv, RingLaps, RingTypeOK
<1>3. Positions'
  <2>1. widx' = Slot(sent')
    BY <1>0, SlotFollowing
  <2> QED BY <1>0, <1>2, <2>1, ShmAssumption DEF RingInv, Positions
<1>4. ASSUME NEW p \in Nat, p = sent PROVE Holds(p)'
  <2>1. written'[Slot(p)] = 1
    BY <1>0, <1>4 DEF RingInv, RingTypeOK
  <2>2. data'[Slot(p)] = p + 1
    BY <1>0, <1>4 DEF RingInv, Filling
  <2>3. \A r \in Readers : flag'[Slot(p)][r] = 0 /\ ~(passed'[r] > p)
    BY <1>0, <1>2, <1>4 DEF RingInv, Filling, Positions
  <2> QED BY <2>1, <2>2, <2>3 DEF Holds
<1>5. ASSUME NEW p \in Nat, p <= sent, sent < p + MaxChunks PROVE Holds(p)'
  <2>1. CASE p = sent
    BY <1>4, <2>1
  <2>2. CASE p < sent
    <3>1. Holds(p)
      BY <1>5, <2>2 DEF RingInv, LastLap
    <3>2. Slot(p) # widx /\ Slot(p) \in Blocks
      BY <1>5, <2>2, OtherBlock DEF RingInv
    <3> QED BY <3>1, <3>2 DEF Holds, RingInv, RingTypeOK
  <2> QED BY <1>0, <1>5, <2>1, <2>2
<1>6. LastLap'
  BY <1>0, <1>5, ShmAssumption DEF LastLap
<1>7. AtWriter'
  <2>1. CASE sent + 1 < MaxChunks
    <3>1. written[Slot(sent + 1)] = 0
      BY <1>0, <2>1 DEF RingInv, NeverWritten
    <3>2. Slot(sent) # Slot(sent + 1) /\ Slot(sent + 1) \in Blocks
      <4>1. sent + 1 \in Nat /\ sent < sent + 1 /\ sent + 1 < sent + MaxChunks
        BY <1>0, <2>1, ShmAssumption
      <4> QED BY <1>0, <4>1, SlotDistinct, SlotBlock
    <3>3. written'[widx'] = 0
      BY <1>0, <3>1, <3>2, SlotFollowing DEF RingInv, RingTypeOK
    <3> QED BY <1>0, <1>2, <2>1, <3>3, ShmAssumption DEF AtWriter
  <2>2. CASE ~(sent + 1 < MaxChunks)
    <3>0. \E p \in Nat : sent + 1 = p + MaxChunks
      <4>1. /\ sent + 1 - MaxChunks \in Nat
            /\ sent + 1 = (sent + 1 - MaxChunks) + MaxChunks
        BY <1>0, <2>2, ShmAssumption
      <4> QED BY <4>1, Zenon
    <3> PICK p \in Nat : sent + 1 = p + MaxChunks
      BY <3>0
    <3>1. p <= sent /\ sent < p + MaxChunks
      BY <1>0, <2>2, ShmAssumption
    <3>2. Holds(p)'
      BY <3>1, <1>5
    <3> QED BY <3>1, <3>2 DEF AtWriter
  <2> QED BY <2>1, <2>2
<1>8. NeverWritten'
  <2> SUFFICES ASSUME NEW p \in Nat, sent + 1 <= p, p < MaxChunks
               PROVE  written'[Slot(p)] = 0
    BY DEF NeverWritten
  <2>1. written[Slot(p)] = 0
    BY <1>0 DEF RingInv, NeverWritten
  <2>2. Slot(p) # Slot(sent) /\ Slot(p) \in Blocks
    BY <1>0, SlotDistinct, SlotBlock, ShmAssumption
  <2> QED BY <1>0, <2>1, <2>2 DEF RingInv, RingTypeOK
<1>9. Filling'
  BY DEF Filling, FillingPCs
<1>10. Found'
  BY <1>0, <1>2 DEF RingInv, Found, Positions
<1> QED BY <1>1, <1>3, <1>6, <1>7, <1>8, <1>9, <1>10 DEF RingInv

\* What a reader at its place finds there: the next message when the writer is
\* ahead, and a block it must not read when it has caught up.
LEMMA AtReader ==
    ASSUME RingInv, NEW r \in Readers
    PROVE  /\ ridx[r] = Slot(passed[r]) /\ ridx[r] \in Blocks /\ passed[r] \in Nat
           /\ passed[r] < sent => Holds(passed[r])
           /\ ~(passed[r] < sent) =>
                /\ passed[r] = sent /\ ridx[r] = widx
                /\ flag[widx][r] = 1 \/ written[widx] = 0
<1>1. ridx[r] = Slot(passed[r]) /\ ridx[r] \in Blocks /\ passed[r] \in Nat /\ sent \in Nat
  BY SlotBlock DEF RingInv, RingTypeOK, Positions
<1>2. passed[r] <= sent /\ sent <= passed[r] + MaxChunks
  BY DEF RingInv, Positions
<1>3. ASSUME passed[r] < sent PROVE Holds(passed[r])
  <2>1. CASE sent < passed[r] + MaxChunks
    BY <1>1, <1>3, <2>1 DEF RingInv, LastLap
  <2>2. CASE sent = passed[r] + MaxChunks
    <3>1. PICK p \in Nat : sent = p + MaxChunks /\ Holds(p)
      BY <1>1, <2>2, ShmAssumption DEF RingInv, AtWriter
    <3>2. p = passed[r]
      BY <1>1, <2>2, <3>1, ShmAssumption
    <3> QED BY <3>1, <3>2
  <2> QED BY <1>1, <1>2, <2>1, <2>2, ShmAssumption
<1>4. ASSUME ~(passed[r] < sent)
      PROVE  /\ passed[r] = sent /\ ridx[r] = widx
             /\ flag[widx][r] = 1 \/ written[widx] = 0
  <2>1. passed[r] = sent /\ ridx[r] = widx
    BY <1>1, <1>2, <1>4 DEF RingInv, Positions
  <2>2. ASSUME NEW p \in Nat, sent = p + MaxChunks, Holds(p)
        PROVE  flag[widx][r] = 1
    <3>1. Slot(p) = widx /\ passed[r] > p
      BY <1>1, <2>1, <2>2, SlotLap, ShmAssumption DEF RingInv, Positions
    <3> QED BY <2>2, <3>1 DEF Holds
  <2> QED BY <2>1, <2>2 DEF RingInv, AtWriter
<1> QED BY <1>1, <1>3, <1>4

\* Steps of a reader that leave its flag and its place alone.
LEMMA ReaderOutsideRing ==
    ASSUME RingInv, NEW r \in Readers,
           \/ Dequeue(r) \/ LoadFirst(r) \/ LoadSecond(r) \/ Spin(r) \/ GoIdle(r)
           \/ Poll(r) \/ Read(r) \/ RecvMultipart(r)
           \/ ReadTimeout(r) \/ RecvTimeout(r) \/ Shutdown(r)
    PROVE  RingInv'
<1> USE DEF Dequeue, LoadFirst, LoadSecond, Spin, GoIdle, Poll, Read, RecvMultipart,
            ReadTimeout, RecvTimeout, Shutdown, Awake, Go, ring, writer, reader, signals
<1>0. UNCHANGED <<scenario, written, flag, data, wpc, widx, resets, sent, ridx, passed>>
  OBVIOUS
<1>1. RingLaps' /\ Filling'
  <2>1. RingLaps'
    BY <1>0, LapsFrame DEF RingInv, RingLaps
  <2>2. Filling'
    BY <1>0 DEF RingInv, Filling
  <2> QED BY <2>1, <2>2
<1>2. rpc' \in [Readers -> ReaderPCs]
  BY DEF RingInv, RingTypeOK, ReaderPCs
<1>3. blocked' \in [Readers -> BOOLEAN]
  <2>1. CASE LoadFirst(r)
    <3>1. Says(r, FirstLoaded) \in BOOLEAN
      BY Zenon DEF Says, FirstLoaded
    <3> QED BY <2>1, <3>1 DEF RingInv, RingTypeOK
  <2> QED BY <2>1 DEF RingInv, RingTypeOK
<1>4. handed' \in [Readers -> Nat] /\ socket' \in [Readers -> Seq(Nat)]
  <2>1. CASE Read(r)
    <3>1. data[ridx[r]] \in Nat
      BY AtReader DEF RingInv, RingTypeOK
    <3> QED BY <2>1, <3>1 DEF RingInv, RingTypeOK
  <2>2. CASE RecvMultipart(r)
    <3>1. socket[r] \in Seq(Nat)
      BY DEF RingInv, RingTypeOK
    <3>2. Head(socket[r]) \in Nat /\ Tail(socket[r]) \in Seq(Nat)
      BY <2>2, <3>1
    <3> QED BY <2>2, <3>2 DEF RingInv, RingTypeOK
  <2> QED BY <2>1, <2>2 DEF RingInv, RingTypeOK
<1>5. Found'
  <2> SUFFICES ASSUME NEW q \in Readers
               PROVE  /\ rpc'[q] = "second" /\ ~blocked'[q] => passed[q] < sent \/ written[widx] = 0
                      /\ rpc'[q] \in ReadingPCs => passed[q] < sent
    BY <1>0 DEF Found
  <2>0. /\ rpc[q] = "second" /\ ~blocked[q] => passed[q] < sent \/ written[widx] = 0
        /\ rpc[q] \in ReadingPCs => passed[q] < sent
    BY DEF RingInv, Found
  <2>1. CASE q # r
    <3>1. rpc'[q] = rpc[q] /\ blocked'[q] = blocked[q]
      BY <2>1 DEF RingInv, RingTypeOK
    <3> QED BY <2>0, <3>1
  <2>2. CASE q = r /\ LoadFirst(r)
    <3>1. rpc'[r] = "second" /\ blocked'[r] = (flag[ridx[r]][r] = 1)
      BY <2>2 DEF RingInv, RingTypeOK, Says, FirstLoaded
    <3>2. ~blocked'[r] => passed[r] < sent \/ written[widx] = 0
      BY <3>1, AtReader
    <3> QED BY <2>2, <3>1, <3>2 DEF ReadingPCs
  <2>3. CASE q = r /\ LoadSecond(r)
    <3>1. rpc'[r] = "read" => ~blocked[r] /\ ~(written[ridx[r]] = 0)
      BY <2>3 DEF RingInv, RingTypeOK, Says, FirstLoaded
    <3>2. rpc'[r] = "read" => passed[r] < sent
      BY <2>0, <2>3, <3>1, AtReader
    <3>3. rpc'[r] \in {"read", "wait"}
      BY <2>3 DEF RingInv, RingTypeOK
    <3> QED BY <2>3, <3>2, <3>3 DEF ReadingPCs
  <2>4. CASE q = r /\ Read(r)
    <3>1. rpc'[r] \in {"pass", "passBig"} /\ rpc[r] = "read"
      BY <2>4 DEF RingInv, RingTypeOK
    <3> QED BY <2>0, <2>4, <3>1 DEF ReadingPCs
  <2>5. CASE q = r /\ Shutdown(r)
    BY <2>0, <2>5
  <2>6. CASE q = r /\ (Dequeue(r) \/ Spin(r) \/ GoIdle(r) \/ Poll(r) \/ RecvMultipart(r)
                       \/ ReadTimeout(r) \/ RecvTimeout(r))
    <3>1. rpc'[r] \in {"first", "dead", "poll", "idle"}
      BY <2>6 DEF RingInv, RingTypeOK
    <3> QED BY <2>6, <3>1 DEF ReadingPCs
  <2> QED BY <2>1, <2>2, <2>3, <2>4, <2>5, <2>6
<1>6. RingTypeOK'
  BY <1>0, <1>2, <1>3, <1>4 DEF RingInv, RingTypeOK
<1> QED BY <1>1, <1>5, <1>6 DEF RingInv, RingLaps

\* A reader passes a block: the flag and the count move together.
LEMMA MarkReadRing ==
    ASSUME RingInv, NEW r \in Readers, MarkRead(r)
    PROVE  RingInv'
<1> USE DEF MarkRead, Go, writer, signals
<1>0. /\ ridx[r] = Slot(passed[r]) /\ ridx[r] \in Blocks /\ passed[r] \in Nat
      /\ passed[r] < sent /\ Holds(passed[r]) /\ sent \in Nat
  <2>1. passed[r] < sent
    BY DEF RingInv, Found, ReadingPCs
  <2> QED BY <2>1, AtReader DEF RingInv, RingTypeOK
<1>1. /\ rpc' \in [Readers -> ReaderPCs]
      /\ passed' \in [Readers -> Nat]
      /\ ridx' = [ridx EXCEPT ![r] = Slot(passed[r] + 1)]
  <2>1. rpc' \in [Readers -> ReaderPCs]
    BY DEF RingInv, RingTypeOK, ReaderPCs
  <2>2. passed' \in [Readers -> Nat]
    BY <1>0 DEF RingInv, RingTypeOK
  <2>3. Following(ridx[r]) = Slot(passed[r] + 1)
    BY <1>0, SlotFollowing
  <2>4. ridx' = [ridx EXCEPT ![r] = Following(ridx[r])]
    BY DEF RingInv, RingTypeOK
  <2> QED BY <2>1, <2>2, <2>3, <2>4
<1>2. /\ flag' = [flag EXCEPT ![ridx[r]] = [flag[ridx[r]] EXCEPT ![r] = 1]]
      /\ flag' \in [Blocks -> [Readers -> {0, 1}]]
  <2>1. [flag[ridx[r]] EXCEPT ![r] = 1] \in [Readers -> {0, 1}]
    BY <1>0 DEF RingInv, RingTypeOK
  <2>2. flag' = [flag EXCEPT ![ridx[r]] = [flag[ridx[r]] EXCEPT ![r] = 1]]
    BY <1>0 DEF RingInv, RingTypeOK
  <2> QED BY <2>1, <2>2 DEF RingInv, RingTypeOK
<1>3. /\ ridx' \in [Readers -> Blocks]
      /\ ridx'[r] = Slot(passed[r] + 1) /\ passed'[r] = passed[r] + 1
      /\ \A q \in Readers : q # r => ridx'[q] = ridx[q] /\ passed'[q] = passed[q]
  <2>1. Slot(passed[r] + 1) \in Blocks
    BY <1>0, SlotBlock
  <2> QED BY <1>0, <1>1, <2>1 DEF RingInv, RingTypeOK
<1>4. RingTypeOK'
  BY <1>1, <1>2, <1>3 DEF RingInv, RingTypeOK
<1>5. Positions'
  <2>1. widx' = Slot(sent')
    BY DEF RingInv, Positions
  <2>2. ASSUME NEW q \in Readers
        PROVE  ridx'[q] = Slot(passed'[q]) /\ passed'[q] <= sent /\ sent <= passed'[q] + MaxChunks
    <3>1. CASE q = r
      BY <1>0, <1>3, <3>1, ShmAssumption DEF RingInv, Positions
    <3>2. CASE q # r
      BY <1>3, <3>2 DEF RingInv, Positions
    <3> QED BY <3>1, <3>2
  <2> QED BY <2>1, <2>2 DEF Positions
<1>6. ASSUME NEW p \in Nat, p < sent, sent <= p + MaxChunks, Holds(p) PROVE Holds(p)'
  <2>0. Slot(p) \in Blocks
    BY SlotBlock
  <2>1. CASE p = passed[r]
    <3>1. /\ flag'[Slot(p)][r] = 1
          /\ \A q \in Readers : q # r => flag'[Slot(p)][q] = flag[Slot(p)][q]
      BY <1>0, <1>2, <2>1 DEF RingInv, RingTypeOK
    <3>2. passed'[r] > p
      BY <1>0, <1>3, <2>1
    <3>3. \A q \in Readers : flag'[Slot(p)][q] = 1 <=> passed'[q] > p
      BY <1>3, <1>6, <3>1, <3>2 DEF Holds
    <3> QED BY <1>6, <3>3 DEF Holds
  <2>2. CASE p # passed[r]
    <3>1. Slot(p) # Slot(passed[r])
      <4>1. sent <= passed[r] + MaxChunks
        BY DEF RingInv, Positions
      <4>2. CASE p < passed[r]
        BY <1>0, <1>6, <4>2, SlotDistinct, ShmAssumption
      <4>3. CASE passed[r] < p
        BY <1>0, <1>6, <4>1, <4>3, SlotDistinct, ShmAssumption
      <4> QED BY <1>0, <2>2, <4>2, <4>3
    <3>2. flag'[Slot(p)] = flag[Slot(p)]
      BY <1>0, <1>2, <2>0, <3>1 DEF RingInv, RingTypeOK
    <3>3. passed'[r] > p <=> passed[r] > p
      BY <1>0, <1>3, <2>2
    <3>4. \A q \in Readers : flag'[Slot(p)][q] = 1 <=> passed'[q] > p
      BY <1>3, <1>6, <3>2, <3>3 DEF Holds
    <3> QED BY <1>6, <3>4 DEF Holds
  <2> QED BY <2>1, <2>2
<1>7. LastLap'
  BY <1>0, <1>6, ShmAssumption DEF RingInv, LastLap
<1>8. AtWriter'
  <2>1. ASSUME NEW p \in Nat, sent = p + MaxChunks, Holds(p) PROVE AtWriter'
    <3>1. p < sent /\ sent <= p + MaxChunks
      BY <1>0, <2>1, ShmAssumption
    <3>2. Holds(p)'
      BY <1>6, <2>1, <3>1
    <3> QED BY <2>1, <3>2 DEF AtWriter
  <2>2. ASSUME written[widx] = 0, \A q \in Readers : sent < passed[q] + MaxChunks
        PROVE  AtWriter'
    <3>1. \A q \in Readers : sent < passed'[q] + MaxChunks
      BY <1>0, <1>3, <2>2, ShmAssumption DEF RingInv, RingTypeOK
    <3> QED BY <2>2, <3>1 DEF AtWriter
  <2> QED BY <2>1, <2>2 DEF RingInv, AtWriter
<1>9. NeverWritten'
  BY DEF RingInv, NeverWritten
<1>10. Filling'
  <2>1. wpc \in FillingPCs => ridx[r] # widx
    BY <1>0 DEF RingInv, Filling, Holds
  <2>2. \A b \in Blocks : b # ridx[r] => flag'[b] = flag[b]
    BY <1>2 DEF RingInv, RingTypeOK
  <2>3. widx \in Blocks
    BY <1>0, SlotBlock DEF RingInv, Positions
  <2> QED BY <2>1, <2>2, <2>3 DEF RingInv, Filling, FillingPCs
<1>11. Found'
  <2>1. rpc'[r] \in {"idle", "recv"} /\ \A q \in Readers : q # r => rpc'[q] = rpc[q]
    BY DEF RingInv, RingTypeOK
  <2> QED BY <1>3, <2>1 DEF RingInv, Found, ReadingPCs
<1> QED BY <1>4, <1>5, <1>7, <1>8, <1>9, <1>10, <1>11 DEF RingInv

\* The ring invariant is inductive.
LEMMA NextRing ==
    ASSUME RingInv, [Next]_vars
    PROVE  RingInv'
<1>1. ASSUME NEW r \in Readers, ReaderStep(r) \/ ReadTimeout(r) \/ RecvTimeout(r) \/ Shutdown(r)
      PROVE  RingInv'
  BY <1>1, ReaderOutsideRing, MarkReadRing DEF ReaderStep
<1>2. ASSUME WriterStep PROVE RingInv'
  BY <1>2, WriterOutsideRing, AcquireRing, FillRing, PublishRing DEF WriterStep
<1>3. ASSUME UNCHANGED vars PROVE RingInv'
  <2>1. RingLaps'
    BY <1>3, LapsFrame DEF vars, ring, writer, reader, RingInv, RingLaps
  <2>2. RingTypeOK' /\ Filling' /\ Found'
    BY <1>3 DEF vars, ring, writer, reader, signals, RingInv, RingTypeOK, Filling, Found
  <2> QED BY <2>1, <2>2 DEF RingInv, RingLaps
<1> QED BY <1>1, <1>2, <1>3, WriterOutsideRing DEF Next

\* A reader on a block the writer is filling would be a lap behind, and then the
\* block could not have been free.
LEMMA RingExcludes ==
    ASSUME RingInv
    PROVE  NobodyReadsWhatIsWritten
<1> SUFFICES ASSUME wpc \in FillingPCs, NEW r \in Readers, rpc[r] \in ReadingPCs,
                    ridx[r] = widx
             PROVE  FALSE
  BY DEF NobodyReadsWhatIsWritten, FillingPCs, ReadingPCs
<1>1. passed[r] < sent /\ written[widx] = 0
  BY DEF RingInv, Found, Filling
<1> QED BY <1>1, AtReader DEF Holds

\* Whatever the number of readers, blocks and messages, and whichever waits time
\* out or the writer dies: no block is filled by acquire_write while a reader is
\* between finding it readable and marking it read.
THEOREM NobodyReadsWhatIsWrittenHolds == Spec => []NobodyReadsWhatIsWritten
<1>1. Init => RingInv
  BY InitRing
<1>2. RingInv /\ [Next]_vars => RingInv'
  BY NextRing
<1>3. RingInv => NobodyReadsWhatIsWritten
  BY RingExcludes
<1> QED BY <1>1, <1>2, <1>3, PTL DEF Spec

-----------------------------------------------------------------------------
(* The socket, and the queue as a channel.                                 *)

\* A step that leaves the socket and the last message of a reader alone, and
\* does not bring the writer to, or past, the send.
LEMMA SocketFrame ==
    ASSUME NEW r \in Readers, SocketOf(r), UNCHANGED <<scenario, sent>>,
           handed'[r] = handed[r], socket'[r] = socket[r],
           wpc' = "send" => wpc = "send",
           wpc \in {"send", "dead"} => wpc' \in {"send", "dead"}
    PROVE  SocketOf(r)'
<1>1. InSocket(r)' /\ InOrder(r)' /\ Sending(r)'
  BY DEF SocketOf, InSocket, InOrder, Sending, Big
<1>2. NoneMissing(r)'
  BY DEF SocketOf, NoneMissing, Big
<1> QED BY <1>1, <1>2 DEF SocketOf

\* The types of what the socket invariant is about.
LEMMA SocketTypes ==
    ASSUME RingTypeOK, NEW r \in Readers
    PROVE  /\ handed[r] \in Nat /\ passed[r] \in Nat /\ sent \in Nat
           /\ socket[r] \in Seq(Nat) /\ Len(socket[r]) \in Nat
           /\ \A i \in 1 .. Len(socket[r]) : socket[r][i] \in Nat
           /\ Big \subseteq Nat
<1>1. Big \subseteq Nat
  BY ShmAssumption DEF RingTypeOK, Big
<1>2. socket[r] \in Seq(Nat)
  BY DEF RingTypeOK
<1> QED BY <1>1, <1>2 DEF RingTypeOK

\* The writer, but for the publication and the send.
LEMMA WriterSocket ==
    ASSUME RingInv, SocketInv,
           \/ Enqueue \/ Acquire \/ WriteTimeout \/ Fill \/ Filled \/ Notify \/ WriterEnds
           \/ \E r \in Readers : ResetFlag(r)
    PROVE  SocketInv'
<1> USE DEF Enqueue, Acquire, WriteTimeout, Fill, Filled, Notify, WriterEnds, ResetFlag,
            ring, reader, signals
<1> SUFFICES ASSUME "recv" \notin TimesOut, NEW r \in Readers
             PROVE  Handed(r)' /\ SocketOf(r)'
  BY DEF SocketInv, TimesOut
<1>1. Handed(r) /\ SocketOf(r)
  BY DEF SocketInv
<1>2. Handed(r)'
  BY <1>1 DEF Handed, Big
<1>3. SocketOf(r)'
  BY <1>1, SocketFrame
<1> QED BY <1>2, <1>3

\* A publication: a big message is not in the socket yet.
LEMMA PublishSocket ==
    ASSUME RingInv, SocketInv, Publish
    PROVE  SocketInv'
<1> USE DEF Publish, reader, signals
<1> SUFFICES ASSUME "recv" \notin TimesOut, NEW r \in Readers
             PROVE  Handed(r)' /\ SocketOf(r)'
  BY DEF SocketInv, TimesOut
<1>0. Handed(r) /\ SocketOf(r)
  BY DEF SocketInv
<1>1. /\ handed[r] \in Nat /\ passed[r] \in Nat /\ sent \in Nat
      /\ \A i \in 1 .. Len(socket[r]) : socket[r][i] \in Nat
      /\ Big \subseteq Nat
  BY SocketTypes DEF RingInv
<1>2. Handed(r)'
  BY <1>0 DEF Handed, Big
<1>3. InSocket(r)' /\ InOrder(r)'
  <2>1. InOrder(r)'
    BY <1>0 DEF SocketOf, InOrder
  <2>2. ASSUME NEW i \in 1 .. Len(socket[r])
        PROVE  socket[r][i] \in Big /\ handed[r] < socket[r][i] /\ socket[r][i] < sent + 1
    <3>1. socket[r][i] \in Big /\ handed[r] < socket[r][i] /\ socket[r][i] <= sent
      BY <1>0 DEF SocketOf, InSocket
    <3> QED BY <1>1, <3>1
  <2>3. InSocket(r)'
    BY <1>1, <2>2 DEF InSocket, Big
  <2> QED BY <2>1, <2>3
<1>4. NoneMissing(r)'
  <2> SUFFICES ASSUME NEW m \in Big, handed[r] < m, m <= sent + 1,
                      m = sent + 1 => wpc' \notin {"send", "dead"}
               PROVE  \E i \in 1 .. Len(socket[r]) : socket[r][i] = m
    BY DEF NoneMissing, Big
  <2>1. m <= sent
    BY <1>1
  <2> QED BY <1>0, <2>1 DEF SocketOf, NoneMissing
<1>5. handed[r] <= sent
  <2>1. passed[r] <= sent /\ (rpc[r] = "pass" => passed[r] < sent)
    BY DEF RingInv, Positions, Found, ReadingPCs
  <2> QED BY <1>0, <1>1, <2>1 DEF Handed
<1>6. Sending(r)'
  BY <1>1, <1>5 DEF Sending, Big
<1> QED BY <1>2, <1>3, <1>4, <1>6 DEF SocketOf

\* The send: the message is the newest, so the socket stays in order.
LEMMA SendSocket ==
    ASSUME RingInv, SocketInv, SendMultipart
    PROVE  SocketInv'
<1> USE DEF SendMultipart, reader
<1> SUFFICES ASSUME "recv" \notin TimesOut, NEW r \in Readers
             PROVE  Handed(r)' /\ SocketOf(r)'
  BY DEF SocketInv, TimesOut
<1>0. Handed(r) /\ SocketOf(r)
  BY DEF SocketInv
<1>1. /\ handed[r] \in Nat /\ passed[r] \in Nat /\ sent \in Nat
      /\ socket[r] \in Seq(Nat) /\ Len(socket[r]) \in Nat
      /\ \A i \in 1 .. Len(socket[r]) : socket[r][i] \in Nat
      /\ Big \subseteq Nat
  BY SocketTypes DEF RingInv
<1>2. /\ Len(socket'[r]) = Len(socket[r]) + 1
      /\ \A i \in 1 .. Len(socket[r]) : socket'[r][i] = socket[r][i]
      /\ socket'[r][Len(socket[r]) + 1] = sent
  BY <1>1 DEF RingInv, RingTypeOK
<1>3. Handed(r)'
  BY <1>0 DEF Handed, Big
<1>4. Sending(r)' /\ sent \in Big /\ handed[r] < sent
  BY <1>0 DEF SocketOf, Sending, Big
<1>5. InSocket(r)'
  <2> SUFFICES ASSUME NEW i \in 1 .. Len(socket[r]) + 1
               PROVE  /\ socket'[r][i] \in Big /\ handed[r] < socket'[r][i]
                      /\ socket'[r][i] <= sent
    BY <1>2 DEF InSocket, Big
  <2>1. CASE i \in 1 .. Len(socket[r])
    BY <1>0, <1>2, <2>1 DEF SocketOf, InSocket
  <2>2. CASE i = Len(socket[r]) + 1
    BY <1>1, <1>2, <1>4, <2>2
  <2> QED BY <1>1, <2>1, <2>2
<1>6. InOrder(r)'
  <2> SUFFICES ASSUME NEW i \in 1 .. Len(socket[r]) + 1, NEW j \in 1 .. Len(socket[r]) + 1,
                      i < j
               PROVE  socket'[r][i] < socket'[r][j]
    BY <1>2 DEF InOrder
  <2>0. i \in 1 .. Len(socket[r])
    BY <1>1
  <2>1. CASE j \in 1 .. Len(socket[r])
    BY <1>0, <1>2, <2>0, <2>1 DEF SocketOf, InOrder
  <2>2. CASE j = Len(socket[r]) + 1
    BY <1>0, <1>1, <1>2, <2>0, <2>2 DEF SocketOf, InSocket
  <2> QED BY <1>1, <2>1, <2>2
<1>7. NoneMissing(r)'
  <2> SUFFICES ASSUME NEW m \in Big, handed[r] < m, m <= sent
               PROVE  \E i \in 1 .. Len(socket'[r]) : socket'[r][i] = m
    BY DEF NoneMissing, Big
  <2>1. CASE m = sent
    BY <1>1, <1>2, <2>1
  <2>2. CASE m # sent
    <3>1. PICK i \in 1 .. Len(socket[r]) : socket[r][i] = m
      BY <1>0, <2>2 DEF SocketOf, NoneMissing
    <3>2. i \in 1 .. Len(socket'[r]) /\ socket'[r][i] = m
      BY <1>1, <1>2, <3>1
    <3> QED BY <3>2
  <2> QED BY <2>1, <2>2
<1> QED BY <1>3, <1>4, <1>5, <1>6, <1>7 DEF SocketOf

\* The steps of a reader concern no other reader's socket.
LEMMA OtherReaders ==
    ASSUME RingInv, SocketInv, "recv" \notin TimesOut, NEW r \in Readers,
           ReaderStep(r) \/ ReadTimeout(r) \/ RecvTimeout(r) \/ Shutdown(r),
           NEW q \in Readers, q # r
    PROVE  Handed(q)' /\ SocketOf(q)'
<1> USE DEF ReaderStep, Dequeue, LoadFirst, LoadSecond, Spin, GoIdle, Poll, Read, MarkRead,
            RecvMultipart, ReadTimeout, RecvTimeout, Shutdown, Awake, Go,
            ring, writer, reader, signals
<1>1. /\ UNCHANGED <<scenario, sent, wpc>>
      /\ rpc'[q] = rpc[q] /\ passed'[q] = passed[q]
      /\ handed'[q] = handed[q] /\ socket'[q] = socket[q]
  BY DEF RingInv, RingTypeOK
<1>2. Handed(q) /\ SocketOf(q)
  BY DEF SocketInv
<1>3. Handed(q)'
  BY <1>1, <1>2 DEF Handed, Big
<1>4. SocketOf(q)'
  BY <1>1, <1>2, SocketFrame
<1> QED BY <1>3, <1>4

\* A reader before it has found a message, and one that passes a block.
LEMMA ReaderSocket ==
    ASSUME RingInv, SocketInv, "recv" \notin TimesOut, NEW r \in Readers,
           \/ Dequeue(r) \/ LoadFirst(r) \/ LoadSecond(r) \/ Spin(r) \/ GoIdle(r)
           \/ Poll(r) \/ MarkRead(r) \/ ReadTimeout(r) \/ RecvTimeout(r) \/ Shutdown(r)
    PROVE  Handed(r)' /\ SocketOf(r)'
<1> USE DEF Dequeue, LoadFirst, LoadSecond, Spin, GoIdle, Poll, MarkRead,
            ReadTimeout, RecvTimeout, Shutdown, Awake, Go, ring, writer, reader, signals
<1>1. UNCHANGED <<scenario, sent, wpc, handed, socket>>
  OBVIOUS
<1>2. Handed(r) /\ SocketOf(r)
  BY DEF SocketInv
<1>3. SocketOf(r)'
  BY <1>1, <1>2, SocketFrame
<1>4. Handed(r)'
  <2>1. CASE MarkRead(r)
    <3>1. handed[r] \in Nat /\ passed[r] \in Nat /\ passed'[r] = passed[r] + 1
      BY <2>1 DEF RingInv, RingTypeOK
    <3>2. \/ rpc[r] = "pass" /\ rpc'[r] = "idle"
          \/ rpc[r] = "passBig" /\ rpc'[r] = "recv"
      BY <2>1 DEF RingInv, RingTypeOK
    <3> QED BY <1>1, <1>2, <3>1, <3>2 DEF Handed, Big
  <2>2. CASE Shutdown(r)
    BY <1>2, <2>2 DEF Handed, Big
  <2>3. CASE Dequeue(r) \/ LoadFirst(r) \/ LoadSecond(r) \/ Spin(r) \/ GoIdle(r)
             \/ Poll(r) \/ ReadTimeout(r)
    <3>1. /\ rpc[r] \notin {"pass", "recv"}
          /\ rpc'[r] \notin {"pass", "passBig", "recv"}
          /\ passed'[r] = passed[r]
      BY <2>3 DEF RingInv, RingTypeOK
    <3> QED BY <1>1, <1>2, <3>1 DEF Handed
  <2> QED BY <2>1, <2>2, <2>3
<1> QED BY <1>3, <1>4

\* A message read from the ring is the next one, or announces one of the socket.
LEMMA ReadSocket ==
    ASSUME RingInv, SocketInv, "recv" \notin TimesOut, NEW r \in Readers, Read(r)
    PROVE  /\ Handed(r)' /\ SocketOf(r)'
           /\ handed'[r] \in {handed[r], handed[r] + 1} /\ handed[r] < sent
<1> USE DEF Read, Go, ring, writer, signals
<1>0. Handed(r) /\ SocketOf(r)
  BY DEF SocketInv
<1>1. /\ handed[r] \in Nat /\ passed[r] \in Nat /\ sent \in Nat
      /\ \A i \in 1 .. Len(socket[r]) : socket[r][i] \in Nat
      /\ Big \subseteq Nat
  BY SocketTypes DEF RingInv
<1>2. passed[r] < sent /\ handed[r] = passed[r]
  BY <1>0 DEF RingInv, Found, ReadingPCs, Handed
<1>3. data[ridx[r]] = passed[r] + 1
  BY <1>2, AtReader DEF Holds
<1>4. CASE passed[r] + 1 \in Big
  <2>1. rpc'[r] = "passBig" /\ handed' = handed
    BY <1>3, <1>4 DEF RingInv, RingTypeOK
  <2>2. SocketOf(r)'
    BY <1>0, <2>1, SocketFrame
  <2>3. Handed(r)'
    BY <1>2, <1>4, <2>1 DEF Handed, Big
  <2> QED BY <1>2, <2>1, <2>2, <2>3
<1>5. CASE passed[r] + 1 \notin Big
  <2>1. rpc'[r] = "pass" /\ handed'[r] = passed[r] + 1
    BY <1>3, <1>5 DEF RingInv, RingTypeOK
  <2>2. Handed(r)'
    BY <2>1 DEF Handed
  <2>3. InSocket(r)'
    <3> SUFFICES ASSUME NEW i \in 1 .. Len(socket[r])
                 PROVE  passed[r] + 1 < socket[r][i]
      BY <1>0, <2>1 DEF SocketOf, InSocket, Big
    <3>1. socket[r][i] \in Big /\ handed[r] < socket[r][i] /\ socket[r][i] \in Nat
      BY <1>0, <1>1 DEF SocketOf, InSocket
    <3>2. socket[r][i] # passed[r] + 1
      BY <1>5, <3>1
    <3> QED BY <1>1, <1>2, <3>1, <3>2
  <2>4. InOrder(r)'
    BY <1>0 DEF SocketOf, InOrder
  <2>5. NoneMissing(r)'
    <3> SUFFICES ASSUME NEW m \in Big, passed[r] + 1 < m, m <= sent,
                        m = sent => wpc \notin {"send", "dead"}
                 PROVE  \E i \in 1 .. Len(socket[r]) : socket[r][i] = m
      BY <2>1 DEF NoneMissing, Big
    <3>1. handed[r] < m
      BY <1>1, <1>2
    <3> QED BY <1>0, <3>1 DEF SocketOf, NoneMissing
  <2>6. Sending(r)'
    <3> SUFFICES ASSUME wpc = "send"
                 PROVE  sent \in Big /\ passed[r] + 1 < sent
      BY <2>1 DEF Sending, Big
    <3>1. sent \in Big
      BY <1>0 DEF SocketOf, Sending
    <3>2. passed[r] + 1 # sent
      BY <1>5, <3>1
    <3> QED BY <1>1, <1>2, <3>1, <3>2
  <2> QED BY <1>2, <2>1, <2>2, <2>3, <2>4, <2>5, <2>6 DEF SocketOf
<1> QED BY <1>4, <1>5

\* The first message of the socket is the one the passed block announced.
LEMMA RecvSocket ==
    ASSUME RingInv, SocketInv, "recv" \notin TimesOut, NEW r \in Readers, RecvMultipart(r)
    PROVE  /\ Handed(r)' /\ SocketOf(r)'
           /\ handed'[r] = handed[r] + 1 /\ handed[r] < sent
<1> USE DEF RecvMultipart, Go, ring, writer
<1>0. Handed(r) /\ SocketOf(r)
  BY DEF SocketInv
<1>1. /\ handed[r] \in Nat /\ passed[r] \in Nat /\ sent \in Nat
      /\ socket[r] \in Seq(Nat) /\ Len(socket[r]) \in Nat
      /\ \A i \in 1 .. Len(socket[r]) : socket[r][i] \in Nat
      /\ Big \subseteq Nat
  BY SocketTypes DEF RingInv
<1> DEFINE s == socket[r]
           t == socket'[r]
<1>2. /\ Len(s) >= 1 /\ handed'[r] = s[1] /\ rpc'[r] = "idle"
      /\ Len(t) = Len(s) - 1 /\ \A i \in 1 .. Len(t) : t[i] = s[i + 1]
  <2>1. handed'[r] = Head(s) /\ t = Tail(s) /\ rpc'[r] = "idle" /\ s # << >>
    BY DEF RingInv, RingTypeOK
  <2> HIDE DEF t
  <2> QED BY <1>1, <2>1
<1>3. handed[r] + 1 = passed[r] /\ passed[r] \in Big /\ passed[r] <= sent
  BY <1>0 DEF Handed, RingInv, Positions
<1>4. 1 \in 1 .. Len(s) /\ s[1] \in Big /\ handed[r] < s[1] /\ s[1] <= sent
  BY <1>0, <1>1, <1>2 DEF SocketOf, InSocket
<1>5. s[1] = passed[r]
  <2>1. CASE passed[r] = sent
    BY <1>1, <1>3, <1>4, <2>1
  <2>2. CASE passed[r] < sent
    <3>0. handed[r] < passed[r] /\ passed[r] <= sent /\ passed[r] # sent
      BY <1>1, <1>3, <2>2
    <3>1. PICK i \in 1 .. Len(s) : s[i] = passed[r]
      BY <1>0, <1>3, <3>0, Zenon DEF SocketOf, NoneMissing
    <3>2. i # 1 => s[1] < s[i]
      BY <1>0, <1>1, <1>4, <3>1 DEF SocketOf, InOrder
    <3> QED BY <1>1, <1>3, <1>4, <3>1, <3>2
  <2> QED BY <1>1, <1>3, <2>1, <2>2
<1> HIDE DEF t
<1>6. \A i \in 1 .. Len(t) : i + 1 \in 1 .. Len(s)
  BY <1>1, <1>2
<1>7. Handed(r)'
  BY <1>2, <1>5 DEF Handed
<1>8. InSocket(r)'
  <2> SUFFICES ASSUME NEW i \in 1 .. Len(t)
               PROVE  /\ t[i] \in Big /\ s[1] < t[i] /\ t[i] <= sent
                      /\ wpc = "send" => t[i] < sent
    BY <1>2 DEF InSocket, Big, t
  <2>1. i + 1 \in 1 .. Len(s) /\ t[i] = s[i + 1] /\ 1 < i + 1
    BY <1>1, <1>2, <1>6
  <2> QED BY <1>0, <1>4, <2>1 DEF SocketOf, InSocket, InOrder
<1>9. InOrder(r)'
  <2> SUFFICES ASSUME NEW i \in 1 .. Len(t), NEW j \in 1 .. Len(t), i < j
               PROVE  t[i] < t[j]
    BY DEF InOrder, t
  <2>1. i + 1 \in 1 .. Len(s) /\ j + 1 \in 1 .. Len(s) /\ i + 1 < j + 1
    BY <1>1, <1>2, <1>6
  <2>2. s[i + 1] < s[j + 1]
    BY <1>0, <2>1 DEF SocketOf, InOrder
  <2> QED BY <1>2, <2>2
<1>10. NoneMissing(r)'
  <2> SUFFICES ASSUME NEW m \in Big, s[1] < m, m <= sent,
                      m = sent => wpc \notin {"send", "dead"}
               PROVE  \E i \in 1 .. Len(t) : t[i] = m
    BY <1>2 DEF NoneMissing, Big, t
  <2>1. PICK i \in 1 .. Len(s) : s[i] = m
    BY <1>0, <1>1, <1>3, <1>5 DEF SocketOf, NoneMissing
  <2>2. i - 1 \in 1 .. Len(t) /\ (i - 1) + 1 = i
    BY <1>1, <1>2, <1>4, <2>1
  <2>3. t[i - 1] = m
    BY <1>2, <2>1, <2>2
  <2> QED BY <2>2, <2>3
<1>11. Sending(r)'
  <2> SUFFICES ASSUME wpc = "send" PROVE sent \in Big /\ s[1] < sent
    BY <1>2 DEF Sending, Big
  <2> QED BY <1>0, <1>4 DEF SocketOf, Sending, InSocket
<1> QED BY <1>1, <1>2, <1>3, <1>5, <1>7, <1>8, <1>9, <1>10, <1>11 DEF SocketOf

\* The whole invariant is inductive.
LEMMA NextSocket ==
    ASSUME RingInv, SocketInv, [Next]_vars
    PROVE  SocketInv'
<1>1. ASSUME NEW r \in Readers, ReaderStep(r) \/ ReadTimeout(r) \/ RecvTimeout(r) \/ Shutdown(r)
      PROVE  SocketInv'
  <2>0. scenario' = scenario
    BY <1>1 DEF ReaderStep, Dequeue, LoadFirst, LoadSecond, Spin, GoIdle, Poll, Read,
                MarkRead, RecvMultipart, ReadTimeout, RecvTimeout, Shutdown
  <2> SUFFICES ASSUME "recv" \notin TimesOut, NEW q \in Readers
               PROVE  Handed(q)' /\ SocketOf(q)'
    BY <2>0 DEF SocketInv, TimesOut
  <2>1. CASE q # r
    BY <1>1, <2>1, OtherReaders
  <2>2. CASE q = r
    BY <1>1, <2>2, ReaderSocket, ReadSocket, RecvSocket DEF ReaderStep
  <2> QED BY <2>1, <2>2
<1>2. ASSUME WriterStep PROVE SocketInv'
  BY <1>2, WriterSocket, PublishSocket, SendSocket DEF WriterStep
<1>3. ASSUME UNCHANGED vars PROVE SocketInv'
  <2> SUFFICES ASSUME "recv" \notin TimesOut, NEW q \in Readers
               PROVE  Handed(q)' /\ SocketOf(q)'
    BY <1>3 DEF SocketInv, TimesOut, vars
  <2>1. Handed(q) /\ SocketOf(q)
    BY DEF SocketInv
  <2>2. SocketOf(q)'
    BY <1>3, <2>1, SocketFrame DEF vars, writer, reader, signals
  <2>3. Handed(q)'
    BY <1>3, <2>1 DEF Handed, Big, vars, reader
  <2> QED BY <2>2, <2>3
<1> QED BY <1>1, <1>2, <1>3, WriterSocket DEF Next

\* Nothing was sent, handed or put into a socket.
LEMMA InitSocket ==
    ASSUME Init
    PROVE  SocketInv
<1> SUFFICES ASSUME NEW r \in Readers PROVE Handed(r) /\ SocketOf(r)
  BY DEF SocketInv
<1>1. Handed(r)
  BY DEF Init, Handed
<1>2. InSocket(r) /\ InOrder(r) /\ Sending(r)
  BY DEF Init, InSocket, InOrder, Sending
<1>3. NoneMissing(r)
  <2>1. Big \subseteq Nat
    BY InitRing, ShmAssumption DEF RingInv, RingTypeOK, Big
  <2> QED BY <2>1 DEF Init, NoneMissing
<1> QED BY <1>1, <1>2, <1>3 DEF SocketOf

\* Every step of the queue is a step of the channel or none: a publication sends,
\* marking a block passes it, a message from the ring or the socket is received.
LEMMA StepOfChannel ==
    ASSUME RingInv, SocketInv, [Next]_vars, "recv" \notin TimesOut
    PROVE  [Channel!Next]_<<sent, passed, handed>>
<1> USE DEF ring, writer, reader, signals
<1>1. ASSUME Publish PROVE Channel!Next
  <2>1. \A r \in Readers : sent < passed[r] + MaxChunks
    BY <1>1, FreeAtWriter DEF Publish, RingInv, RingLaps, Filling, FillingPCs
  <2>2. Channel!Send
    BY <1>1, <2>1 DEF Publish, Channel!Send
  <2> QED BY <2>2 DEF Channel!Next
<1>2. ASSUME WriterStep \/ WriteTimeout \/ WriterEnds, ~Publish
      PROVE  UNCHANGED <<sent, passed, handed>>
  BY <1>2 DEF WriterStep, Enqueue, Acquire, WriteTimeout, Fill, Filled, SendMultipart,
              Notify, WriterEnds, ResetFlag
<1>3. ASSUME NEW r \in Readers, MarkRead(r) PROVE Channel!Next
  <2>1. passed[r] < sent
    BY <1>3 DEF MarkRead, RingInv, Found, ReadingPCs
  <2>2. Channel!Pass(r)
    BY <1>3, <2>1 DEF MarkRead, Channel!Pass
  <2> QED BY <2>2 DEF Channel!Next
<1>4. ASSUME NEW r \in Readers, Read(r) \/ RecvMultipart(r)
      PROVE  [Channel!Next]_<<sent, passed, handed>>
  <2>1. handed'[r] \in {handed[r], handed[r] + 1} /\ handed[r] < sent
    BY <1>4, ReadSocket, RecvSocket
  <2>2. /\ UNCHANGED <<sent, passed>>
        /\ handed' = handed \/ handed' = [handed EXCEPT ![r] = handed'[r]]
    <3>1. CASE Read(r)
      BY <3>1 DEF Read, RingInv, RingTypeOK
    <3>2. CASE RecvMultipart(r)
      BY <3>2 DEF RecvMultipart, RingInv, RingTypeOK
    <3> QED BY <1>4, <3>1, <3>2
  <2>3. CASE handed'[r] = handed[r]
    <3>1. handed' = handed
      BY <2>2, <2>3 DEF RingInv, RingTypeOK
    <3> QED BY <2>2, <3>1
  <2>4. CASE handed'[r] = handed[r] + 1 /\ handed' # handed
    <3>1. Channel!Receive(r)
      BY <2>1, <2>2, <2>4 DEF Channel!Receive
    <3> QED BY <3>1 DEF Channel!Next
  <2> QED BY <2>1, <2>2, <2>3, <2>4
<1>5. ASSUME NEW r \in Readers,
             \/ Dequeue(r) \/ LoadFirst(r) \/ LoadSecond(r) \/ Spin(r) \/ GoIdle(r)
             \/ Poll(r) \/ ReadTimeout(r) \/ RecvTimeout(r) \/ Shutdown(r)
      PROVE  UNCHANGED <<sent, passed, handed>>
  BY <1>5 DEF Dequeue, LoadFirst, LoadSecond, Spin, GoIdle, Poll, ReadTimeout,
              RecvTimeout, Shutdown
<1>6. ASSUME UNCHANGED vars PROVE UNCHANGED <<sent, passed, handed>>
  BY <1>6 DEF vars
<1> QED BY <1>1, <1>2, <1>3, <1>4, <1>5, <1>6 DEF Next, ReaderStep, WriterStep

\* For any readers, blocks and messages, and for any interleaving of the loads
\* and stores of shared memory, the queue implements the broadcast channel: every
\* reader is handed every message once, whole and in order, unless the wait for
\* the socket times out after the block was passed.
THEOREM QueueIsAChannelHolds == Spec => QueueIsAChannel
<1>1. Init => RingInv /\ SocketInv
  BY InitRing, InitSocket
<1>2. RingInv /\ SocketInv /\ [Next]_vars => (RingInv /\ SocketInv)'
  BY NextRing, NextSocket
<1>3. RingInv /\ SocketInv /\ [Next]_vars
        => [Channel!Next \/ "recv" \in TimesOut]_<<sent, passed, handed>>
  BY StepOfChannel
<1>4. Init => Channel!Init
  BY DEF Init, Channel!Init
<1> QED BY <1>1, <1>2, <1>3, <1>4, PTL DEF Spec, QueueIsAChannel
===============================================================================
