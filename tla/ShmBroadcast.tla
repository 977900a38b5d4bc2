---------------------------- MODULE ShmBroadcast ----------------------------
(***************************************************************************)
(* The message queue between the engine process and its workers,           *)
(* src/vllm/vllm/distributed/device_communicators/shm_broadcast.py: a ring *)
(* of blocks in shared memory with a written flag and a read flag per      *)
(* reader, a socket for messages that do not fit, and a wake-up socket for *)
(* readers that stopped spinning.                                          *)
(*                                                                         *)
(* Every load and store of shared memory is a step of its own, but for the *)
(* writer's look at a block, whose flags only become more favourable; the  *)
(* fences make memory sequentially consistent.  Message m is the m-th one  *)
(* sent; a block that is being filled holds 0.  The connection is set up,  *)
(* and remote readers, who only use a socket, are left out.                *)
(***************************************************************************)
EXTENDS Integers, Sequences, FiniteSets

CONSTANTS
    Readers,       \* local readers
    MaxChunks,     \* blocks of the ring
    MaxMsgs,       \* messages the writer sends (bound)
    Scenarios      \* what the messages are and what may go wrong

ASSUME ShmAssumption ==
    /\ MaxChunks \in Nat \ {0}
    /\ MaxMsgs \in Nat
    /\ \A s \in Scenarios :
        /\ s.big \subseteq Nat
        /\ s.timesOut \subseteq {"write", "read", "recv"}
        /\ s.mayDie \in BOOLEAN

Blocks == 0 .. MaxChunks - 1

VARIABLES
    scenario,   \* chosen at the start and kept
    written,    \* written flag of a block
    flag,       \* read flags of a block
    data,       \* message in a block
    wpc, widx,  \* the writer: where it is, and its current_idx
    resets,     \* read flags the writer has yet to reset
    sent,       \* messages published
    rpc, ridx,  \* a reader: where it is, and its current_idx
    blocked,    \* what a reader saw of the flag it loaded first
    handed,     \* message the reader was handed last
    passed,     \* blocks the reader has passed
    socket,     \* messages in the socket of a reader
    ping,       \* wake-up waiting for a reader, at most one
    cancelled   \* shutting_down of a reader

ring == <<written, flag, data>>
writer == <<wpc, widx, resets, sent>>
reader == <<rpc, ridx, blocked, handed, passed>>
signals == <<socket, ping, cancelled>>
vars == <<scenario, ring, writer, reader, signals>>

Big == scenario.big              \* messages that go through the socket
TimesOut == scenario.timesOut    \* waits that can time out: "write", "read", "recv"
MayDie == scenario.mayDie        \* whether the process of the writer can end

Following(i) == (i + 1) % MaxChunks

-----------------------------------------------------------------------------
(* The writer: enqueue and acquire_write.                                  *)

Enqueue ==
    /\ wpc = "idle" /\ sent < MaxMsgs
    /\ wpc' = "check"
    /\ UNCHANGED <<scenario, ring, widx, resets, sent, reader, signals>>

\* Mutant: one reader is enough.
FreeForSome(b) == written[b] = 0 \/ \E r \in Readers : flag[b][r] = 1

\* A block is free when it was never written or every reader has read it.
FreeToWrite(b) == written[b] = 0 \/ \A r \in Readers : flag[b][r] = 1

Acquire ==
    /\ wpc = "check" /\ FreeToWrite(widx)
    /\ written' = [written EXCEPT ![widx] = 0]
    /\ wpc' = "fill"
    /\ UNCHANGED <<scenario, flag, data, widx, resets, sent, reader, signals>>

\* The block is in use and the timeout is over: the message is not sent.
WriteTimeout ==
    /\ "write" \in TimesOut
    /\ wpc = "check" /\ ~FreeToWrite(widx)
    /\ wpc' = "idle"
    /\ UNCHANGED <<scenario, ring, widx, resets, sent, reader, signals>>

Fill ==
    /\ wpc = "fill"
    /\ data' = [data EXCEPT ![widx] = 0]
    /\ wpc' = "filling"
    /\ UNCHANGED <<scenario, written, flag, widx, resets, sent, reader, signals>>

Filled ==
    /\ wpc = "filling"
    /\ data' = [data EXCEPT ![widx] = sent + 1]
    /\ resets' = Readers
    /\ wpc' = "reset"
    /\ UNCHANGED <<scenario, written, flag, widx, sent, reader, signals>>

ResetFlag(r) ==
    /\ wpc = "reset" /\ r \in resets
    /\ flag' = [flag EXCEPT ![widx][r] = 0]
    /\ resets' = resets \ {r}
    /\ UNCHANGED <<scenario, written, data, wpc, widx, sent, reader, signals>>

Publish ==
    /\ wpc = "reset" /\ resets = {}
    /\ written' = [written EXCEPT ![widx] = 1]
    /\ sent' = sent + 1
    /\ widx' = Following(widx)
    /\ wpc' = IF sent + 1 \in Big THEN "send" ELSE "notify"
    /\ UNCHANGED <<scenario, flag, data, resets, reader, signals>>

SendMultipart ==
    /\ wpc = "send"
    /\ socket' = [r \in Readers |-> Append(socket[r], sent)]
    /\ wpc' = "notify"
    /\ UNCHANGED <<scenario, ring, widx, resets, sent, reader, ping, cancelled>>

\* SNDHWM and CONFLATE are one: a ping is kept or already there.
Notify ==
    /\ wpc = "notify"
    /\ ping' = [r \in Readers |-> 1]
    /\ wpc' = "idle"
    /\ UNCHANGED <<scenario, ring, widx, resets, sent, reader, socket, cancelled>>

\* The engine process dies, or stops using the queue; the workers see their
\* death pipe close.
WriterEnds ==
    /\ MayDie /\ wpc # "dead"
    /\ wpc' = "dead"
    /\ UNCHANGED <<scenario, ring, widx, resets, sent, reader, signals>>

-----------------------------------------------------------------------------
(* A reader: dequeue, acquire_read and SpinCondition.wait.                 *)

Go(r, to) == rpc' = [rpc EXCEPT ![r] = to]

\* The caller asks for the next message.
Dequeue(r) ==
    /\ rpc[r] = "idle"
    /\ Go(r, "first")
    /\ UNCHANGED <<scenario, ring, writer, ridx, blocked, handed, passed, signals>>

\* Mutant: the flags loaded the other way round.
FirstLoadedSwapped == "written"

\* The read flag is loaded before the written flag.
FirstLoaded == "flag"

Says(r, f) ==
    IF f = "flag" THEN flag[ridx[r]][r] = 1 ELSE written[ridx[r]] = 0

LoadFirst(r) ==
    /\ rpc[r] = "first"
    /\ blocked' = [blocked EXCEPT ![r] = Says(r, FirstLoaded)]
    /\ Go(r, "second")
    /\ UNCHANGED <<scenario, ring, writer, ridx, handed, passed, signals>>

LoadSecond(r) ==
    /\ rpc[r] = "second"
    /\ LET other == IF FirstLoaded = "flag" THEN "written" ELSE "flag" IN
       Go(r, IF blocked[r] \/ Says(r, other) THEN "wait" ELSE "read")
    /\ UNCHANGED <<scenario, ring, writer, ridx, blocked, handed, passed, signals>>

\* After the wait, or a spin, shutting_down is looked at and then the flags.
Awake(r) == Go(r, IF cancelled[r] THEN "dead" ELSE "first")

Spin(r) ==
    /\ rpc[r] = "wait"
    /\ Awake(r)
    /\ UNCHANGED <<scenario, ring, writer, ridx, blocked, handed, passed, signals>>

\* Mutant: a wake-up that came before the poll is thrown away.
DropsPing(r) ==
    /\ rpc[r] = "wait"
    /\ Go(r, "poll")
    /\ ping' = [ping EXCEPT ![r] = 0]
    /\ UNCHANGED <<scenario, ring, writer, ridx, blocked, handed, passed, socket, cancelled>>

\* After a second without a message the reader polls.
GoIdle(r) ==
    /\ rpc[r] = "wait"
    /\ Go(r, "poll")
    /\ UNCHANGED <<scenario, ring, writer, ridx, blocked, handed, passed, signals>>

\* Mutant: the cancellation is not polled.
OnlyPings(r) ==
    /\ rpc[r] = "poll" /\ ping[r] = 1
    /\ ping' = [ping EXCEPT ![r] = 0]
    /\ Awake(r)
    /\ UNCHANGED <<scenario, ring, writer, ridx, blocked, handed, passed, socket, cancelled>>

\* A cancellation leaves the ping where it is.
Poll(r) ==
    /\ rpc[r] = "poll"
    /\ ping[r] = 1 \/ cancelled[r]
    /\ ping' = IF cancelled[r] THEN ping ELSE [ping EXCEPT ![r] = 0]
    /\ Awake(r)
    /\ UNCHANGED <<scenario, ring, writer, ridx, blocked, handed, passed, socket, cancelled>>

\* A read with a timeout gives up and leaves everything as it was.
ReadTimeout(r) ==
    /\ "read" \in TimesOut
    /\ rpc[r] \in {"wait", "poll"}
    /\ Go(r, "idle")
    /\ UNCHANGED <<scenario, ring, writer, ridx, blocked, handed, passed, signals>>

\* The message is unpickled in place.
Read(r) ==
    /\ rpc[r] = "read"
    /\ LET m == data[ridx[r]] IN
       IF m \in Big
       THEN Go(r, "passBig") /\ UNCHANGED handed
       ELSE /\ Go(r, "pass")
            /\ handed' = [handed EXCEPT ![r] = m]
    /\ UNCHANGED <<scenario, ring, writer, ridx, blocked, passed, signals>>

MarkRead(r) ==
    /\ rpc[r] \in {"pass", "passBig"}
    /\ flag' = [flag EXCEPT ![ridx[r]][r] = 1]
    /\ ridx' = [ridx EXCEPT ![r] = Following(@)]
    /\ passed' = [passed EXCEPT ![r] = @ + 1]
    /\ Go(r, IF rpc[r] = "pass" THEN "idle" ELSE "recv")
    /\ UNCHANGED <<scenario, written, data, writer, blocked, handed, signals>>

RecvMultipart(r) ==
    /\ rpc[r] = "recv" /\ socket[r] # << >>
    /\ handed' = [handed EXCEPT ![r] = Head(socket[r])]
    /\ socket' = [socket EXCEPT ![r] = Tail(@)]
    /\ Go(r, "idle")
    /\ UNCHANGED <<scenario, ring, writer, ridx, blocked, passed, ping, cancelled>>

\* The block is passed, its message still to come.
RecvTimeout(r) ==
    /\ "recv" \in TimesOut
    /\ rpc[r] = "recv" /\ socket[r] = << >>
    /\ Go(r, "idle")
    /\ UNCHANGED <<scenario, ring, writer, ridx, blocked, handed, passed, signals>>

\* shutdown, from the thread of the reader's process that watches the pipe.
Shutdown(r) ==
    /\ wpc = "dead" /\ ~cancelled[r]
    /\ cancelled' = [cancelled EXCEPT ![r] = TRUE]
    /\ UNCHANGED <<scenario, ring, writer, reader, socket, ping>>

-----------------------------------------------------------------------------
Init ==
    /\ scenario \in Scenarios
    /\ written = [b \in Blocks |-> 0]
    /\ flag = [b \in Blocks |-> [r \in Readers |-> 0]]
    /\ data = [b \in Blocks |-> 0]
    /\ wpc = "idle" /\ widx = 0 /\ resets = {} /\ sent = 0
    /\ rpc = [r \in Readers |-> "idle"]
    /\ ridx = [r \in Readers |-> 0]
    /\ blocked = [r \in Readers |-> FALSE]
    /\ handed = [r \in Readers |-> 0]
    /\ passed = [r \in Readers |-> 0]
    /\ socket = [r \in Readers |-> << >>]
    /\ ping = [r \in Readers |-> 0]
    /\ cancelled = [r \in Readers |-> FALSE]

WriterStep ==
    \/ Enqueue \/ Acquire \/ Fill \/ Filled \/ Publish \/ SendMultipart \/ Notify
    \/ \E r \in Readers : ResetFlag(r)
ReaderStep(r) ==
    \/ Dequeue(r) \/ LoadFirst(r) \/ LoadSecond(r) \/ Spin(r) \/ GoIdle(r)
    \/ Poll(r) \/ Read(r) \/ MarkRead(r) \/ RecvMultipart(r)

Next ==
    \/ WriterStep \/ WriteTimeout \/ WriterEnds
    \/ \E r \in Readers : ReaderStep(r) \/ ReadTimeout(r) \/ RecvTimeout(r) \/ Shutdown(r)

\* Every process and the thread on the pipe are scheduled; nothing obliges a
\* timeout or the writer to end.
Fairness ==
    /\ WF_vars(WriterStep)
    /\ \A r \in Readers : WF_vars(ReaderStep(r)) /\ WF_vars(Shutdown(r))
Spec == Init /\ [][Next]_vars /\ Fairness

-----------------------------------------------------------------------------
(* Properties.                                                             *)

\* The ring and the socket are a broadcast channel: no message is lost,
\* repeated, torn or handed out of order, under any interleaving of loads and
\* stores and any timeout of a write or of a read of the ring.  A timeout of
\* the read of the socket, where the block is already passed, breaks it.
Channel == INSTANCE BroadcastChannel WITH got <- handed, Capacity <- MaxChunks
QueueIsAChannel ==
    Channel!Init /\ [][Channel!Next \/ "recv" \in TimesOut]_<<sent, passed, handed>>

\* A block is never filled while a reader is between finding it readable and
\* marking it read.
NobodyReadsWhatIsWritten ==
    wpc \in {"fill", "filling", "reset"} =>
        \A r \in Readers : rpc[r] \in {"read", "pass", "passBig"} => ridx[r] # widx

\* Every published message reaches every reader, also one that has gone idle,
\* as long as the writer lives: no wake-up is lost.
Delivered ==
    \A r \in Readers : \A m \in 1 .. MaxMsgs :
        (sent >= m /\ "recv" \notin TimesOut) ~> (handed[r] >= m \/ wpc = "dead")

\* When the process of the writer ends, at whatever point of a write, every
\* reader stops, idle or not, if no message goes through the socket.
OrphansExit ==
    \A r \in Readers : (wpc = "dead" /\ Big = {}) ~> rpc[r] = "dead"
=============================================================================
