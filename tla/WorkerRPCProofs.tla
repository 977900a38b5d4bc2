-------------------------- MODULE WorkerRPCProofs --------------------------
(***************************************************************************)
(* Whose answer a call gets, for any number of workers, of calls and of    *)
(* batches in flight, and for every fault the model knows.                 *)
(***************************************************************************)
EXTENDS WorkerRPC, TLAPS

-----------------------------------------------------------------------------
(* What is under way to and from one worker: the answers R it sent, the    *)
(* outputs P its thread has to copy, the call k it executes, the calls C   *)
(* it has not received.                                                    *)

Under(R, P, k, C, x) ==
    \/ \E i \in 1 .. Len(R) : R[i].for = x
    \/ \E i \in 1 .. Len(P) : P[i].for = x
    \/ k # 0 /\ k = x
    \/ \E i \in 1 .. Len(C) : C[i] = x

\* The calls it has executed among them.
Outputs(R, P, x) ==
    \/ \E i \in 1 .. Len(R) : R[i].for = x
    \/ \E i \in 1 .. Len(P) : P[i].for = x

\* They are in the order of the calls, each once.
Ordered(R, P, k, C) ==
    /\ \A i \in 1 .. Len(R) : \A j \in 1 .. i - 1 : R[j].for < R[i].for
    /\ \A i \in 1 .. Len(P) : \A j \in 1 .. i - 1 : P[j].for < P[i].for
    /\ \A i \in 1 .. Len(C) : \A j \in 1 .. i - 1 : C[j] < C[i]
    /\ \A i \in 1 .. Len(R) :
        /\ \A j \in 1 .. Len(P) : R[i].for < P[j].for
        /\ k # 0 => R[i].for < k
        /\ \A j \in 1 .. Len(C) : R[i].for < C[j]
    /\ \A i \in 1 .. Len(P) :
        /\ k # 0 => P[i].for < k
        /\ \A j \in 1 .. Len(C) : P[i].for < C[j]
    /\ k # 0 => \A j \in 1 .. Len(C) : k < C[j]

UnderWay(w, x) == Under(resp[w], copying[w], work[w], cmd[w], x)

-----------------------------------------------------------------------------
(* The invariant.                                                          *)

Outs == [for : Nat, ok : BOOLEAN]

RPCTypeOK ==
    /\ scenario \in Scenarios
    /\ call \in Seq(Kinds)
    /\ status \in Seq({"none", "value", "error"}) /\ Len(status) = Len(call)
    /\ answers \in Seq(Seq(Nat)) /\ Len(answers) = Len(call)
    /\ queues \in Seq(Seq(Ranks)) /\ Len(queues) = Len(call)
    /\ futures \in Seq(Nat) /\ batches \in Seq(Nat)
    /\ epc \in {"idle", "send", "take", "wait", "dead"}
    /\ goal \in Nat /\ reading \in Nat
    /\ left \in Seq(Ranks)
    /\ cmd \in [Ranks -> Seq(Nat)]
    /\ work \in [Ranks -> Nat]
    /\ copying \in [Ranks -> Seq(Outs)]
    /\ copier \in [Ranks -> BOOLEAN]
    /\ resp \in [Ranks -> Seq(Outs)]
    /\ alive \in [Ranks -> BOOLEAN]
    /\ monitor \in {Stages[i] : i \in 1 .. 7}

\* Where a read stands: the ranks yet to be heard are the last of the call's
\* response queues.
Reading ==
    reading # 0 =>
        /\ epc = "wait" /\ reading \in Calls /\ status[reading] = "none"
        /\ Len(queues[reading]) = Len(answers[reading]) + Len(left)
        /\ \A j \in 1 .. Len(left) : left[j] = queues[reading][Len(answers[reading]) + j]

\* A call reads the queues of the ranks that answer it, or none when they are
\* gone.
SeesAll(c) == queues[c] = AnsweredBy(call[c])
QueuesSeen ==
    \A c \in Calls :
        /\ queues[c] = << >> \/ SeesAll(c)
        /\ Len(answers[c]) <= Len(queues[c])

\* A call that is being made has left no trace yet.
JustMade ==
    epc \in {"send", "take"} =>
        /\ Len(call) > 0 /\ reading = 0
        /\ status[Len(call)] = "none"
        /\ answers[Len(call)] = << >> /\ queues[Len(call)] = << >>
        /\ \A i \in 1 .. Len(futures) : futures[i] # Len(call)

FuturesInOrder ==
    /\ \A i \in 1 .. Len(futures) : futures[i] \in Calls /\ status[futures[i]] = "none"
    /\ \A i \in 1 .. Len(futures) : \A j \in 1 .. i - 1 : futures[j] < futures[i]
    /\ \A i \in 1 .. Len(batches) : batches[i] \in Calls
    /\ epc = "wait" => goal \in Calls

\* Calls are read in their order.
ReadInOrder ==
    \A c \in Calls : answers[c] # << >> =>
        /\ status[c] # "none" \/ reading = c
        /\ reading # 0 => c <= reading
        /\ \A i \in 1 .. Len(futures) : c < futures[i]

ReadingFirst == reading # 0 => \A i \in 1 .. Len(futures) : reading < futures[i]

\* A call nobody has finished is waiting for its turn, or is the last one.
Unfinished ==
    \A c \in Calls : status[c] = "none" =>
        \/ \E i \in 1 .. Len(futures) : futures[i] = c
        \/ reading = c
        \/ epc \in {"send", "take"} /\ c = Len(call)
        \/ epc = "wait" /\ c = Len(call) /\ goal = c
        \/ epc = "dead"

EngineInv ==
    /\ Reading /\ QueuesSeen /\ JustMade /\ FuturesInOrder
    /\ ReadInOrder /\ ReadingFirst /\ Unfinished

Sent(c) == c \in Calls /\ (epc = "send" => c < Len(call))

StreamsOrdered == \A w \in Ranks : Ordered(resp[w], copying[w], work[w], cmd[w])
StreamsSent == \A w \in Ranks : \A x \in Nat : UnderWay(w, x) => Sent(x)

\* Only a rank that is asked to answers.
StreamsAnswered ==
    \A w \in Ranks :
        /\ \A x \in Nat : Outputs(resp[w], copying[w], x) => Answers(w, x)
        /\ ~Async => copying[w] = << >>
        /\ ~copier[w] => Async

TakenFrom(w, x) ==
    \E c \in Calls : \E i \in 1 .. Len(answers[c]) : queues[c][i] = w /\ answers[c][i] = x

\* What was taken of a rank is older than what is under way.
TakenOlder ==
    \A w \in Ranks : \A x, y \in Nat : TakenFrom(w, x) /\ UnderWay(w, y) => x < y

\* As long as a call is not finished, its answer is under way, was taken or
\* passed, or will never come.
NoneSkipped ==
    \A w \in Ranks : \A c \in Calls :
        status[c] = "none" /\ Sent(c) /\ Answers(w, c) =>
            \/ UnderWay(w, c)
            \/ \E x \in Nat : TakenFrom(w, x) /\ c <= x
            \/ ~copier[w] /\ \A i \in 1 .. Len(resp[w]) : resp[w][i].for < c

StreamInv == StreamsOrdered /\ StreamsSent /\ StreamsAnswered /\ TakenOlder /\ NoneSkipped

\* Ranks whose answers stay in step with the calls.
InStep(w) == Faults = {} \/ (Faults = {"raise"} /\ w = 0)

Healthy ==
    Faults \subseteq {"raise"} =>
        /\ monitor = "watch"
        /\ \A w \in Ranks : alive[w] /\ copier[w]
        /\ \A c \in Calls : SeesAll(c) \/ (c = Len(call) /\ epc \in {"send", "take"})

NoFailure ==
    Faults = {} => \A w \in Ranks :
        /\ \A i \in 1 .. Len(resp[w]) : resp[w][i].ok
        /\ \A i \in 1 .. Len(copying[w]) : copying[w][i].ok

\* The answer of a rank in step is only under way until its call takes it.
NoneLeftOver ==
    \A w \in Ranks : InStep(w) => \A x \in Calls :
        UnderWay(w, x) /\ Answers(w, x) =>
            /\ status[x] = "none"
            /\ x = reading => \E j \in 1 .. Len(left) : left[j] = w

OwnInv == Healthy /\ NoFailure /\ NoneLeftOver

RPCInv == RPCTypeOK /\ EngineInv /\ StreamInv /\ AnswersInOrder /\ OwnInv /\ AnswersAreOwn

-----------------------------------------------------------------------------
(* Streams: what each step of a worker does to them.                       *)

\* Facts of the first and last elements of a sequence.
LEMMA TailFacts ==
    ASSUME NEW T, NEW s \in Seq(T), s # << >>
    PROVE  /\ Tail(s) \in Seq(T) /\ Len(Tail(s)) = Len(s) - 1 /\ Len(s) \in Nat \ {0}
           /\ \A i \in 1 .. Len(Tail(s)) : i + 1 \in 1 .. Len(s) /\ Tail(s)[i] = s[i + 1]
           /\ 1 \in 1 .. Len(s) /\ Head(s) = s[1] /\ s[1] \in T
           /\ \A i \in 1 .. Len(s) : i = 1 \/ (i - 1 \in 1 .. Len(Tail(s)) /\ s[i] = Tail(s)[i - 1])
  OBVIOUS

LEMMA AppendFacts ==
    ASSUME NEW T, NEW s \in Seq(T), NEW e \in T
    PROVE  /\ Append(s, e) \in Seq(T) /\ Len(Append(s, e)) = Len(s) + 1 /\ Len(s) \in Nat
           /\ \A i \in 1 .. Len(s) : i \in 1 .. Len(Append(s, e)) /\ Append(s, e)[i] = s[i]
           /\ Append(s, e)[Len(s) + 1] = e
           /\ Len(s) + 1 \in 1 .. Len(Append(s, e))
           /\ \A i \in 1 .. Len(Append(s, e)) : i \in 1 .. Len(s) \/ i = Len(s) + 1
  OBVIOUS

\* A worker receives a call.
LEMMA StreamReceive ==
    ASSUME NEW R \in Seq(Outs), NEW P \in Seq(Outs), NEW C \in Seq(Nat), C # << >>,
           Ordered(R, P, 0, C), Head(C) # 0
    PROVE  /\ Ordered(R, P, Head(C), Tail(C))
           /\ \A x : Under(R, P, Head(C), Tail(C), x) <=> Under(R, P, 0, C, x)
  <1>1. /\ Tail(C) \in Seq(Nat) /\ Len(Tail(C)) = Len(C) - 1 /\ Len(C) \in Nat \ {0}
        /\ \A i \in 1 .. Len(Tail(C)) : i + 1 \in 1 .. Len(C) /\ Tail(C)[i] = C[i + 1]
        /\ 1 \in 1 .. Len(C) /\ Head(C) = C[1] /\ C[1] \in Nat
        /\ \A i \in 1 .. Len(C) : i = 1 \/ (i - 1 \in 1 .. Len(Tail(C)) /\ C[i] = Tail(C)[i - 1])
    BY TailFacts, Zenon
  <1>2. Ordered(R, P, Head(C), Tail(C))
    BY <1>1 DEF Ordered, Outs
  <1>3. ASSUME NEW x PROVE Under(R, P, Head(C), Tail(C), x) <=> Under(R, P, 0, C, x)
    <2>1. (\E i \in 1 .. Len(C) : C[i] = x) <=> (Head(C) = x \/ \E i \in 1 .. Len(Tail(C)) : Tail(C)[i] = x)
      BY <1>1
    <2> QED  BY <2>1 DEF Under, Outputs
  <1> QED  BY <1>2, <1>3

\* A worker that is not to answer drops the call it executed.
LEMMA StreamDrop ==
    ASSUME NEW R \in Seq(Outs), NEW P \in Seq(Outs), NEW k \in Nat, NEW C \in Seq(Nat),
           Ordered(R, P, k, C), k # 0
    PROVE  /\ Ordered(R, P, 0, C)
           /\ \A x : Under(R, P, 0, C, x) => Under(R, P, k, C, x)
           /\ \A x : Under(R, P, k, C, x) => Under(R, P, 0, C, x) \/ x = k
  BY DEF Ordered, Under

\* A worker puts the output of the call it executed in its queue.
LEMMA StreamAnswer ==
    ASSUME NEW R \in Seq(Outs), NEW k \in Nat, NEW C \in Seq(Nat), NEW ok \in BOOLEAN,
           Ordered(R, << >>, k, C), k # 0
    PROVE  /\ Ordered(Append(R, [for |-> k, ok |-> ok]), << >>, 0, C)
           /\ \A x : Under(Append(R, [for |-> k, ok |-> ok]), << >>, 0, C, x)
                     <=> Under(R, << >>, k, C, x)
           /\ \A x : Outputs(Append(R, [for |-> k, ok |-> ok]), << >>, x)
                     <=> Outputs(R, << >>, x) \/ x = k
  <1> DEFINE a == [for |-> k, ok |-> ok]
             Ra == Append(R, a)
  <1>0. a \in Outs /\ a.for = k  BY DEF Outs
  <1> HIDE DEF a
  <1>1. /\ Ra \in Seq(Outs) /\ Len(Ra) = Len(R) + 1 /\ Len(R) \in Nat
        /\ \A i \in 1 .. Len(R) : i \in 1 .. Len(Ra) /\ Ra[i] = R[i]
        /\ Ra[Len(R) + 1] = a
        /\ Len(R) + 1 \in 1 .. Len(Ra)
        /\ \A i \in 1 .. Len(Ra) : i \in 1 .. Len(R) \/ i = Len(R) + 1
    BY <1>0, AppendFacts, Zenon
  <1> HIDE DEF Ra
  <1>2. Ordered(Ra, << >>, 0, C)
    <2>1. \A i \in 1 .. Len(Ra) : \A j \in 1 .. i - 1 : Ra[j].for < Ra[i].for
      BY <1>0, <1>1 DEF Ordered
    <2>3. \A i \in 1 .. Len(C) : \A j \in 1 .. i - 1 : C[j] < C[i]
      BY <1>0, <1>1 DEF Ordered
    <2>6. \A i \in 1 .. Len(Ra) : \A j \in 1 .. Len(C) : Ra[i].for < C[j]
      BY <1>0, <1>1 DEF Ordered
    <2> QED  BY <2>1, <2>3, <2>6 DEF Ordered
  <1>3. ASSUME NEW x
        PROVE  /\ Under(Ra, << >>, 0, C, x) <=> Under(R, << >>, k, C, x)
               /\ Outputs(Ra, << >>, x) <=> Outputs(R, << >>, x) \/ x = k
    <2>1. (\E i \in 1 .. Len(Ra) : Ra[i].for = x) <=> (k = x \/ \E i \in 1 .. Len(R) : R[i].for = x)
      BY <1>0, <1>1
    <2> QED  BY <2>1 DEF Under, Outputs
  <1> QED  BY <1>2, <1>3 DEF Ra, a

\* A worker hands the output of the call it executed to its thread.
LEMMA StreamHand ==
    ASSUME NEW R \in Seq(Outs), NEW P \in Seq(Outs), NEW k \in Nat, NEW C \in Seq(Nat),
           NEW ok \in BOOLEAN, Ordered(R, P, k, C), k # 0
    PROVE  /\ Ordered(R, Append(P, [for |-> k, ok |-> ok]), 0, C)
           /\ \A x : Under(R, Append(P, [for |-> k, ok |-> ok]), 0, C, x) <=> Under(R, P, k, C, x)
           /\ \A x : Outputs(R, Append(P, [for |-> k, ok |-> ok]), x) <=> Outputs(R, P, x) \/ x = k
  <1> DEFINE a == [for |-> k, ok |-> ok]
             Pa == Append(P, a)
  <1>0. a \in Outs /\ a.for = k  BY DEF Outs
  <1> HIDE DEF a
  <1>1. /\ Pa \in Seq(Outs) /\ Len(Pa) = Len(P) + 1 /\ Len(P) \in Nat
        /\ \A i \in 1 .. Len(P) : i \in 1 .. Len(Pa) /\ Pa[i] = P[i]
        /\ Pa[Len(P) + 1] = a
        /\ Len(P) + 1 \in 1 .. Len(Pa)
        /\ \A i \in 1 .. Len(Pa) : i \in 1 .. Len(P) \/ i = Len(P) + 1
    BY <1>0, AppendFacts, Zenon
  <1> HIDE DEF Pa
  <1>2. Ordered(R, Pa, 0, C)
    <2>1. \A i \in 1 .. Len(R) : \A j \in 1 .. i - 1 : R[j].for < R[i].for
      BY <1>0, <1>1 DEF Ordered
    <2>2. \A i \in 1 .. Len(Pa) : \A j \in 1 .. i - 1 : Pa[j].for < Pa[i].for
      <3>1. SUFFICES ASSUME NEW i \in 1 .. Len(Pa), NEW j \in 1 .. i - 1
                     PROVE  Pa[j].for < Pa[i].for
        OBVIOUS
      <3>2. j \in 1 .. Len(P) /\ Pa[j] = P[j]  BY <1>0, <1>1
      <3>3. CASE i \in 1 .. Len(P)
        <4>1. Pa[i] = P[i]  BY <3>3, <1>0, <1>1
        <4>2. P[j].for < P[i].for  BY <3>3 DEF Ordered
        <4> QED  BY <3>2, <4>1, <4>2
      <3>4. CASE i = Len(P) + 1
        <4>1. Pa[i] = a  BY <3>4, <1>0, <1>1
        <4>2. P[j].for < a.for  BY <3>2, <1>0, <1>1 DEF Ordered
        <4> QED  BY <3>2, <4>1, <4>2
      <3> QED  BY <3>3, <3>4, <1>0, <1>1
    <2>3. \A i \in 1 .. Len(C) : \A j \in 1 .. i - 1 : C[j] < C[i]
      BY <1>0, <1>1 DEF Ordered
    <2>4. \A i \in 1 .. Len(R) : \A j \in 1 .. Len(Pa) : R[i].for < Pa[j].for
      BY <1>0, <1>1 DEF Ordered
    <2>6. \A i \in 1 .. Len(R) : \A j \in 1 .. Len(C) : R[i].for < C[j]
      BY <1>0, <1>1 DEF Ordered
    <2>8. \A i \in 1 .. Len(Pa) : \A j \in 1 .. Len(C) : Pa[i].for < C[j]
      BY <1>0, <1>1 DEF Ordered
    <2> QED  BY <2>1, <2>2, <2>3, <2>4, <2>6, <2>8 DEF Ordered
  <1>3. ASSUME NEW x
        PROVE  /\ Under(R, Pa, 0, C, x) <=> Under(R, P, k, C, x)
               /\ Outputs(R, Pa, x) <=> Outputs(R, P, x) \/ x = k
    <2>1. (\E i \in 1 .. Len(Pa) : Pa[i].for = x) <=> (k = x \/ \E i \in 1 .. Len(P) : P[i].for = x)
      BY <1>0, <1>1
    <2> QED  BY <2>1 DEF Under, Outputs
  <1> QED  BY <1>2, <1>3 DEF Pa, a

\* The thread loses the output it was to copy.
LEMMA StreamLose ==
    ASSUME NEW R \in Seq(Outs), NEW P \in Seq(Outs), NEW k \in Nat, NEW C \in Seq(Nat),
           Ordered(R, P, k, C), P # << >>
    PROVE  /\ Ordered(R, Tail(P), k, C)
           /\ \A x : Under(R, Tail(P), k, C, x) => Under(R, P, k, C, x)
           /\ \A x : Under(R, P, k, C, x) => Under(R, Tail(P), k, C, x) \/ x = Head(P).for
           /\ \A i \in 1 .. Len(R) : R[i].for < Head(P).for
           /\ \A x : Outputs(R, Tail(P), x) => Outputs(R, P, x)
  <1>1. /\ Tail(P) \in Seq(Outs) /\ Len(Tail(P)) = Len(P) - 1 /\ Len(P) \in Nat \ {0}
        /\ \A i \in 1 .. Len(Tail(P)) : i + 1 \in 1 .. Len(P) /\ Tail(P)[i] = P[i + 1]
        /\ 1 \in 1 .. Len(P) /\ Head(P) = P[1] /\ P[1] \in Outs
        /\ \A i \in 1 .. Len(P) : i = 1 \/ (i - 1 \in 1 .. Len(Tail(P)) /\ P[i] = Tail(P)[i - 1])
    BY TailFacts, Zenon
  <1>2. Ordered(R, Tail(P), k, C)
    <2>1. ASSUME NEW i \in 1 .. Len(Tail(P)), NEW j \in 1 .. i - 1 PROVE Tail(P)[j].for < Tail(P)[i].for
      <3>1. i + 1 \in 1 .. Len(P) /\ Tail(P)[i] = P[i + 1]  BY <1>1
      <3>2. j \in 1 .. Len(Tail(P)) /\ j + 1 \in 1 .. (i + 1) - 1  BY <1>1
      <3>3. Tail(P)[j] = P[j + 1]  BY <1>1, <3>2
      <3>4. P[j + 1].for < P[i + 1].for  BY <3>1, <3>2 DEF Ordered
      <3> QED  BY <3>1, <3>3, <3>4
    <2>2. ASSUME NEW i \in 1 .. Len(Tail(P))
          PROVE  /\ \A j \in 1 .. Len(R) : R[j].for < Tail(P)[i].for
                 /\ k # 0 => Tail(P)[i].for < k
                 /\ \A j \in 1 .. Len(C) : Tail(P)[i].for < C[j]
      <3>1. i + 1 \in 1 .. Len(P) /\ Tail(P)[i] = P[i + 1]  BY <1>1
      <3> QED  BY <3>1 DEF Ordered
    <2> QED  BY <2>1, <2>2 DEF Ordered
  <1>3. \A i \in 1 .. Len(R) : R[i].for < Head(P).for
    BY <1>1 DEF Ordered
  <1>4. ASSUME NEW x
        PROVE  (\E i \in 1 .. Len(P) : P[i].for = x)
               <=> (Head(P).for = x \/ \E i \in 1 .. Len(Tail(P)) : Tail(P)[i].for = x)
    BY <1>1
  <1> QED  BY <1>2, <1>3, <1>4 DEF Under, Outputs

\* The thread copies an output.
LEMMA StreamCopy ==
    ASSUME NEW R \in Seq(Outs), NEW P \in Seq(Outs), NEW k \in Nat, NEW C \in Seq(Nat),
           Ordered(R, P, k, C), P # << >>
    PROVE  /\ Ordered(Append(R, Head(P)), Tail(P), k, C)
           /\ \A x : Under(Append(R, Head(P)), Tail(P), k, C, x) <=> Under(R, P, k, C, x)
           /\ \A x : Outputs(Append(R, Head(P)), Tail(P), x) <=> Outputs(R, P, x)
  <1> DEFINE a == Head(P)
             Ra == Append(R, a)
             Pt == Tail(P)
  <1>1. /\ Pt \in Seq(Outs) /\ Len(Pt) = Len(P) - 1 /\ Len(P) \in Nat \ {0}
        /\ \A i \in 1 .. Len(Pt) : i + 1 \in 1 .. Len(P) /\ Pt[i] = P[i + 1]
        /\ 1 \in 1 .. Len(P) /\ a = P[1] /\ P[1] \in Outs
        /\ \A i \in 1 .. Len(P) : i = 1 \/ (i - 1 \in 1 .. Len(Pt) /\ P[i] = Pt[i - 1])
    BY TailFacts, Zenon
  <1> HIDE DEF a, Pt
  <1>2. /\ Ra \in Seq(Outs) /\ Len(Ra) = Len(R) + 1 /\ Len(R) \in Nat
        /\ \A i \in 1 .. Len(R) : i \in 1 .. Len(Ra) /\ Ra[i] = R[i]
        /\ Ra[Len(R) + 1] = a
        /\ Len(R) + 1 \in 1 .. Len(Ra)
        /\ \A i \in 1 .. Len(Ra) : i \in 1 .. Len(R) \/ i = Len(R) + 1
    <2>1. a \in Outs  BY <1>1, Zenon
    <2> QED  BY <2>1, AppendFacts, Zenon
  <1> HIDE DEF Ra
  <1>3. Ordered(Ra, Pt, k, C)
    <2>1. \A i \in 1 .. Len(Ra) : \A j \in 1 .. i - 1 : Ra[j].for < Ra[i].for
      <3>1. SUFFICES ASSUME NEW i \in 1 .. Len(Ra), NEW j \in 1 .. i - 1
                     PROVE  Ra[j].for < Ra[i].for
        OBVIOUS
      <3>2. j \in 1 .. Len(R) /\ Ra[j] = R[j]  BY <1>1, <1>2
      <3>3. CASE i \in 1 .. Len(R)
        <4>1. Ra[i] = R[i]  BY <3>3, <1>1, <1>2
        <4>2. R[j].for < R[i].for  BY <3>3 DEF Ordered
        <4> QED  BY <3>2, <4>1, <4>2
      <3>4. CASE i = Len(R) + 1
        <4>1. Ra[i] = a  BY <3>4, <1>1, <1>2
        <4>2. R[j].for < a.for  BY <3>2, <1>1, <1>2 DEF Ordered
        <4> QED  BY <3>2, <4>1, <4>2
      <3> QED  BY <3>3, <3>4, <1>1, <1>2
    <2>2. \A i \in 1 .. Len(Pt) : \A j \in 1 .. i - 1 : Pt[j].for < Pt[i].for
      <3>1. SUFFICES ASSUME NEW i \in 1 .. Len(Pt), NEW j \in 1 .. i - 1
                     PROVE  Pt[j].for < Pt[i].for
        OBVIOUS
      <3>2. i + 1 \in 1 .. Len(P) /\ Pt[i] = P[i + 1]  BY <1>1
      <3>3. j \in 1 .. Len(Pt) /\ j + 1 \in 1 .. (i + 1) - 1  BY <1>1
      <3>4. Pt[j] = P[j + 1]  BY <3>3, <1>1
      <3>5. P[j + 1].for < P[i + 1].for  BY <3>2, <3>3 DEF Ordered
      <3> QED  BY <3>2, <3>4, <3>5
    <2>3. \A i \in 1 .. Len(C) : \A j \in 1 .. i - 1 : C[j] < C[i]
      BY <1>1, <1>2 DEF Ordered
    <2>4. \A i \in 1 .. Len(Ra) : \A j \in 1 .. Len(Pt) : Ra[i].for < Pt[j].for
      <3>1. SUFFICES ASSUME NEW i \in 1 .. Len(Ra), NEW j \in 1 .. Len(Pt)
                     PROVE  Ra[i].for < Pt[j].for
        OBVIOUS
      <3>2. j + 1 \in 1 .. Len(P) /\ Pt[j] = P[j + 1] /\ 1 \in 1 .. (j + 1) - 1  BY <1>1
      <3>3. CASE i \in 1 .. Len(R)
        <4>1. Ra[i] = R[i]  BY <3>3, <1>2
        <4>2. R[i].for < P[j + 1].for  BY <3>2, <3>3 DEF Ordered
        <4> QED  BY <3>2, <4>1, <4>2
      <3>4. CASE i = Len(R) + 1
        <4>1. Ra[i] = P[1]  BY <3>4, <1>1, <1>2
        <4>2. P[1].for < P[j + 1].for  BY <3>2 DEF Ordered
        <4> QED  BY <3>2, <4>1, <4>2
      <3> QED  BY <3>3, <3>4, <1>2
    <2>5. \A i \in 1 .. Len(Ra) : k # 0 => Ra[i].for < k
      BY <1>1, <1>2 DEF Ordered
    <2>6. \A i \in 1 .. Len(Ra) : \A j \in 1 .. Len(C) : Ra[i].for < C[j]
      BY <1>1, <1>2 DEF Ordered
    <2>7. \A i \in 1 .. Len(Pt) : k # 0 => Pt[i].for < k
      BY <1>1, <1>2 DEF Ordered
    <2>8. \A i \in 1 .. Len(Pt) : \A j \in 1 .. Len(C) : Pt[i].for < C[j]
      BY <1>1, <1>2 DEF Ordered
    <2>9. k # 0 => \A j \in 1 .. Len(C) : k < C[j]
      BY <1>1, <1>2 DEF Ordered
    <2> QED  BY <2>1, <2>2, <2>3, <2>4, <2>5, <2>6, <2>7, <2>8, <2>9 DEF Ordered
  <1>4. ASSUME NEW x
        PROVE  (\E i \in 1 .. Len(P) : P[i].for = x)
               <=> (a.for = x \/ \E i \in 1 .. Len(Pt) : Pt[i].for = x)
    BY <1>1
  <1>5. ASSUME NEW x
        PROVE  (\E i \in 1 .. Len(Ra) : Ra[i].for = x)
               <=> (a.for = x \/ \E i \in 1 .. Len(R) : R[i].for = x)
    BY <1>2
  <1> QED  BY <1>3, <1>4, <1>5 DEF Under, Outputs, Ra, Pt, a

\* The executor takes an answer: what stays is younger.
LEMMA StreamTake ==
    ASSUME NEW R \in Seq(Outs), NEW P \in Seq(Outs), NEW k \in Nat, NEW C \in Seq(Nat),
           Ordered(R, P, k, C), R # << >>
    PROVE  /\ Ordered(Tail(R), P, k, C)
           /\ \A x : Under(Tail(R), P, k, C, x) => Under(R, P, k, C, x) /\ Head(R).for < x
           /\ \A x : Under(R, P, k, C, x) => Under(Tail(R), P, k, C, x) \/ x = Head(R).for
           /\ Under(R, P, k, C, Head(R).for) /\ Outputs(R, P, Head(R).for)
           /\ \A x : Outputs(Tail(R), P, x) => Outputs(R, P, x)
  <1>1. /\ Tail(R) \in Seq(Outs) /\ Len(Tail(R)) = Len(R) - 1 /\ Len(R) \in Nat \ {0}
        /\ \A i \in 1 .. Len(Tail(R)) : i + 1 \in 1 .. Len(R) /\ Tail(R)[i] = R[i + 1]
        /\ 1 \in 1 .. Len(R) /\ Head(R) = R[1] /\ R[1] \in Outs
        /\ \A i \in 1 .. Len(R) : i = 1 \/ (i - 1 \in 1 .. Len(Tail(R)) /\ R[i] = Tail(R)[i - 1])
    BY TailFacts, Zenon
  <1>2. Ordered(Tail(R), P, k, C)
    <2>1. ASSUME NEW i \in 1 .. Len(Tail(R)), NEW j \in 1 .. i - 1 PROVE Tail(R)[j].for < Tail(R)[i].for
      <3>1. i + 1 \in 1 .. Len(R) /\ Tail(R)[i] = R[i + 1]  BY <1>1
      <3>2. j \in 1 .. Len(Tail(R)) /\ j + 1 \in 1 .. (i + 1) - 1  BY <1>1
      <3>3. Tail(R)[j] = R[j + 1]  BY <1>1, <3>2
      <3>4. R[j + 1].for < R[i + 1].for  BY <3>1, <3>2 DEF Ordered
      <3> QED  BY <3>1, <3>3, <3>4
    <2>2. ASSUME NEW i \in 1 .. Len(Tail(R))
          PROVE  /\ \A j \in 1 .. Len(P) : Tail(R)[i].for < P[j].for
                 /\ k # 0 => Tail(R)[i].for < k
                 /\ \A j \in 1 .. Len(C) : Tail(R)[i].for < C[j]
      <3>1. i + 1 \in 1 .. Len(R) /\ Tail(R)[i] = R[i + 1]  BY <1>1
      <3> QED  BY <3>1 DEF Ordered
    <2> QED  BY <2>1, <2>2 DEF Ordered
  <1>3. ASSUME NEW x
        PROVE  (\E i \in 1 .. Len(R) : R[i].for = x)
               <=> (Head(R).for = x \/ \E i \in 1 .. Len(Tail(R)) : Tail(R)[i].for = x)
    BY <1>1
  <1>4. ASSUME NEW x, Under(Tail(R), P, k, C, x) PROVE Head(R).for < x
    <2>1. CASE \E i \in 1 .. Len(Tail(R)) : Tail(R)[i].for = x
      BY <2>1, <1>1 DEF Ordered
    <2>2. CASE ~\E i \in 1 .. Len(Tail(R)) : Tail(R)[i].for = x
      BY <2>2, <1>1, <1>4 DEF Ordered, Under
    <2> QED  BY <2>1, <2>2
  <1>5. Under(R, P, k, C, Head(R).for) /\ Outputs(R, P, Head(R).for)
    BY <1>1 DEF Under, Outputs
  <1> QED  BY <1>2, <1>3, <1>4, <1>5 DEF Under, Outputs

\* The executor sends a call younger than all.
LEMMA StreamSend ==
    ASSUME NEW R \in Seq(Outs), NEW P \in Seq(Outs), NEW k \in Nat, NEW C \in Seq(Nat),
           NEW n \in Nat, Ordered(R, P, k, C), \A x \in Nat : Under(R, P, k, C, x) => x < n
    PROVE  /\ Ordered(R, P, k, Append(C, n))
           /\ \A x : Under(R, P, k, Append(C, n), x) <=> Under(R, P, k, C, x) \/ x = n
  <1> DEFINE Cn == Append(C, n)
  <1>1. /\ Cn \in Seq(Nat) /\ Len(Cn) = Len(C) + 1 /\ Len(C) \in Nat
        /\ \A i \in 1 .. Len(C) : i \in 1 .. Len(Cn) /\ Cn[i] = C[i]
        /\ Cn[Len(C) + 1] = n
        /\ Len(C) + 1 \in 1 .. Len(Cn)
        /\ \A i \in 1 .. Len(Cn) : i \in 1 .. Len(C) \/ i = Len(C) + 1
    BY AppendFacts, Zenon
  <1> HIDE DEF Cn
  <1>2. /\ \A i \in 1 .. Len(R) : R[i].for \in Nat
        /\ \A i \in 1 .. Len(P) : P[i].for \in Nat
        /\ \A i \in 1 .. Len(C) : C[i] \in Nat
    <2>1. ASSUME NEW s \in Seq(Outs), NEW i \in 1 .. Len(s) PROVE s[i].for \in Nat
      <3>1. s[i] \in Outs  OBVIOUS
      <3> QED  BY <3>1 DEF Outs
    <2> QED  BY <2>1
  <1>3. /\ \A i \in 1 .. Len(R) : R[i].for < n
        /\ \A i \in 1 .. Len(P) : P[i].for < n
        /\ k # 0 => k < n
        /\ \A i \in 1 .. Len(C) : C[i] < n
    BY <1>2 DEF Under
  <1>4. Ordered(R, P, k, Cn)
    <2>1. \A i \in 1 .. Len(R) : \A j \in 1 .. i - 1 : R[j].for < R[i].for
      BY <1>1, <1>3 DEF Ordered
    <2>2. \A i \in 1 .. Len(P) : \A j \in 1 .. i - 1 : P[j].for < P[i].for
      BY <1>1, <1>3 DEF Ordered
    <2>3. \A i \in 1 .. Len(Cn) : \A j \in 1 .. i - 1 : Cn[j] < Cn[i]
      <3>1. SUFFICES ASSUME NEW i \in 1 .. Len(Cn), NEW j \in 1 .. i - 1
                     PROVE  Cn[j] < Cn[i]
        OBVIOUS
      <3>2. j \in 1 .. Len(C) /\ Cn[j] = C[j]
        <4>1. j \in 1 .. Len(C)
          <5>1. Len(Cn) = Len(C) + 1 /\ Len(C) \in Nat  BY <1>1
          <5> QED  BY <5>1
        <4> QED  BY <4>1, <1>1, Zenon
      <3>3. CASE i \in 1 .. Len(C)
        <4>1. Cn[i] = C[i]  BY <3>3, <1>1, <1>3
        <4>2. C[j] < C[i]  BY <3>3 DEF Ordered
        <4> QED  BY <3>2, <4>1, <4>2
      <3>4. CASE i = Len(C) + 1
        <4>1. Cn[i] = n  BY <3>4, <1>1, <1>3
        <4>2. C[j] < n  BY <3>2, <1>1, <1>3 DEF Ordered
        <4> QED  BY <3>2, <4>1, <4>2
      <3> QED  BY <3>3, <3>4, <1>1, <1>3
    <2>4. \A i \in 1 .. Len(R) : \A j \in 1 .. Len(P) : R[i].for < P[j].for
      BY <1>1, <1>3 DEF Ordered
    <2>5. \A i \in 1 .. Len(R) : k # 0 => R[i].for < k
      BY <1>1, <1>3 DEF Ordered
    <2>6. \A i \in 1 .. Len(R) : \A j \in 1 .. Len(Cn) : R[i].for < Cn[j]
      BY <1>1, <1>3 DEF Ordered
    <2>7. \A i \in 1 .. Len(P) : k # 0 => P[i].for < k
      BY <1>1, <1>3 DEF Ordered
    <2>8. \A i \in 1 .. Len(P) : \A j \in 1 .. Len(Cn) : P[i].for < Cn[j]
      BY <1>1, <1>3 DEF Ordered
    <2>9. k # 0 => \A j \in 1 .. Len(Cn) : k < Cn[j]
      BY <1>1, <1>3 DEF Ordered
    <2> QED  BY <2>1, <2>2, <2>3, <2>4, <2>5, <2>6, <2>7, <2>8, <2>9 DEF Ordered
  <1>5. ASSUME NEW x
        PROVE  (\E i \in 1 .. Len(Cn) : Cn[i] = x) <=> (n = x \/ \E i \in 1 .. Len(C) : C[i] = x)
    BY <1>1
  <1> QED  BY <1>4, <1>5 DEF Under, Cn

-----------------------------------------------------------------------------
(* Ranks, stages and scenarios.                                            *)

\* A call is answered by distinct ranks, rank 0 first if it is one of them.
LEMMA AnsweredFacts ==
    ASSUME NEW k
    PROVE  /\ AnsweredBy(k) \in Seq(Ranks) /\ Len(AnsweredBy(k)) \in Nat \ {0}
           /\ \A i, j \in 1 .. Len(AnsweredBy(k)) : AnsweredBy(k)[i] = AnsweredBy(k)[j] => i = j
           /\ \A i \in 1 .. Len(AnsweredBy(k)) : AnsweredBy(k)[i] = 0 => i = 1
  <1>1. World \in Nat \ {0} /\ Output \in Ranks  BY RPCAssumption DEF Ranks
  <1>2. CASE AnsweredBy(k) = AllRanks
    BY <1>1, <1>2 DEF AllRanks, Ranks
  <1>3. CASE AnsweredBy(k) = <<Output>>
    BY <1>1, <1>3
  <1> QED  BY <1>2, <1>3 DEF AnsweredBy

LEMMA StageNumbers ==
    /\ StageNumber("watch") = 1 /\ StageNumber("failed") = 2 /\ StageNumber("cancelled") = 4
    /\ StageNumber("noRpc") = 5 /\ StageNumber("noResponses") = 6
    /\ \A i \in 1 .. 7 : StageNumber(Stages[i]) = i
  <1>1. DOMAIN Stages = 1 .. 7 /\ \A i, j \in 1 .. 7 : Stages[i] = Stages[j] => i = j
    BY DEF Stages
  <1>2. ASSUME NEW i \in 1 .. 7 PROVE StageNumber(Stages[i]) = i
    <2> DEFINE n == StageNumber(Stages[i])
    <2>1. n \in DOMAIN Stages /\ Stages[n] = Stages[i]
      BY <1>1, Zenon DEF StageNumber
    <2> QED  BY <1>1, <2>1
  <1>3. /\ Stages[1] = "watch" /\ Stages[2] = "failed" /\ Stages[4] = "cancelled"
        /\ Stages[5] = "noRpc" /\ Stages[6] = "noResponses"
    BY DEF Stages
  <1>4. /\ 1 \in 1 .. 7 /\ 2 \in 1 .. 7 /\ 4 \in 1 .. 7 /\ 5 \in 1 .. 7 /\ 6 \in 1 .. 7
    OBVIOUS
  <1> QED  BY <1>2, <1>3, <1>4

\* While no worker has died, the executor works.
LEMMA WatchFacts ==
    ASSUME monitor = "watch"
    PROVE  ~Reached("failed") /\ ~Reached("cancelled") /\ ~Reached("noRpc") /\ ~Reached("noResponses")
  BY StageNumbers DEF Reached

-----------------------------------------------------------------------------
(* Types.                                                                  *)

LEMMA InitTypes == ASSUME Init PROVE RPCTypeOK
  <1>1. "watch" \in {Stages[i] : i \in 1 .. 7}
    <2>1. Stages[1] = "watch" /\ 1 \in 1 .. 7  BY DEF Stages
    <2> QED  BY <2>1
  <1>2. /\ copier \in [Ranks -> BOOLEAN] /\ alive \in [Ranks -> BOOLEAN]
    BY Zenon DEF Init
  <1>3. /\ cmd \in [Ranks -> Seq(Nat)] /\ work \in [Ranks -> Nat]
    BY DEF Init
  <1>4. /\ copying \in [Ranks -> Seq(Outs)] /\ resp \in [Ranks -> Seq(Outs)]
    BY DEF Init
  <1>5. /\ call \in Seq(Kinds) /\ status \in Seq({"none", "value", "error"})
        /\ Len(status) = Len(call) /\ Len(answers) = Len(call) /\ Len(queues) = Len(call)
        /\ futures \in Seq(Nat) /\ batches \in Seq(Nat) /\ left \in Seq(Ranks)
        /\ answers \in Seq(Seq(Nat)) /\ queues \in Seq(Seq(Ranks))
    BY DEF Init
  <1> QED  BY <1>1, <1>2, <1>3, <1>4, <1>5 DEF Init, RPCTypeOK

EngineTypes ==
    /\ call \in Seq(Kinds)
    /\ status \in Seq({"none", "value", "error"}) /\ Len(status) = Len(call)
    /\ answers \in Seq(Seq(Nat)) /\ Len(answers) = Len(call)
    /\ queues \in Seq(Seq(Ranks)) /\ Len(queues) = Len(call)
    /\ futures \in Seq(Nat) /\ batches \in Seq(Nat)
    /\ epc \in {"idle", "send", "take", "wait", "dead"}
    /\ goal \in Nat /\ reading \in Nat
    /\ left \in Seq(Ranks)

WorkerTypes ==
    /\ cmd \in [Ranks -> Seq(Nat)]
    /\ work \in [Ranks -> Nat]
    /\ copying \in [Ranks -> Seq(Outs)]
    /\ copier \in [Ranks -> BOOLEAN]
    /\ resp \in [Ranks -> Seq(Outs)]
    /\ alive \in [Ranks -> BOOLEAN]

\* An update keeps a sequence one.
LEMMA SeqUpdate ==
    ASSUME NEW T, NEW s \in Seq(T), NEW i \in Nat, NEW e \in T
    PROVE  [s EXCEPT ![i] = e] \in Seq(T) /\ Len([s EXCEPT ![i] = e]) = Len(s)
  <1>1. Len(s) \in Nat /\ DOMAIN s = 1 .. Len(s)  OBVIOUS
  <1>2. \A j \in 1 .. Len(s) : [s EXCEPT ![i] = e][j] \in T  BY <1>1
  <1>3. [s EXCEPT ![i] = e] \in [1 .. Len(s) -> T]  BY <1>1, <1>2
  <1> QED  BY <1>1, <1>3

LEMMA FinishTypes ==
    ASSUME RPCTypeOK, NEW s \in {"value", "error"}, Finish(s)
    PROVE  /\ status' \in Seq({"none", "value", "error"}) /\ Len(status') = Len(status)
           /\ reading' \in Nat /\ left' \in Seq(Ranks)
  <1> DEFINE T == {"none", "value", "error"}
  <1>1. /\ status' = [status EXCEPT ![reading] = s] /\ reading' = 0 /\ left' = << >>
        /\ status \in Seq(T) /\ s \in T
    BY DEF RPCTypeOK, Finish
  <1>2. reading \in Nat  BY DEF RPCTypeOK
  <1> HIDE DEF T
  <1>3. /\ status' \in Seq(T) /\ Len(status') = Len(status)
    BY <1>1, <1>2, SeqUpdate
  <1> QED  BY <1>1, <1>3 DEF T

\* The steps of the engine keep its types.
LEMMA EngineKeepsTypes ==
    ASSUME RPCTypeOK, EngineInv, EngineStep \/ ReadGivesUp \/ \E k \in Kinds : Call(k)
    PROVE  EngineTypes'
  <1> USE DEF RPCTypeOK, EngineTypes
  <1>1. ASSUME NEW k \in Kinds, Call(k) PROVE EngineTypes'
    <2>1. CASE UNCHANGED <<call, status, answers, queues>>
      BY <1>1, <2>1 DEF Call, AfterError
    <2>2. CASE /\ call' = Append(call, k)
               /\ status' = Append(status, "none")
               /\ answers' = Append(answers, << >>)
               /\ queues' = Append(queues, << >>)
      <3>1. call' \in Seq(Kinds) /\ Len(call') = Len(call) + 1  BY <2>2
      <3>2. status' \in Seq({"none", "value", "error"}) /\ Len(status') = Len(status) + 1
        BY <2>2
      <3>3. answers' \in Seq(Seq(Nat)) /\ Len(answers') = Len(answers) + 1
        <4>1. << >> \in Seq(Nat)  OBVIOUS
        <4> QED  BY <2>2, <4>1, AppendFacts
      <3>4. queues' \in Seq(Seq(Ranks)) /\ Len(queues') = Len(queues) + 1
        <4>1. << >> \in Seq(Ranks)  OBVIOUS
        <4> QED  BY <2>2, <4>1, AppendFacts
      <3> QED  BY <1>1, <3>1, <3>2, <3>3, <3>4 DEF Call
    <2> QED  BY <1>1, <2>1, <2>2 DEF Call
  <1>2. CASE Send
    <2>1. status' \in Seq({"none", "value", "error"}) /\ Len(status') = Len(status)
      <3> DEFINE T == {"none", "value", "error"}
      <3>1. status \in Seq(T) /\ "error" \in T /\ This \in Nat  BY DEF This
      <3>2. UNCHANGED status \/ status' = [status EXCEPT ![This] = "error"]  BY <1>2 DEF Send
      <3> HIDE DEF T, RPCTypeOK, EngineTypes
      <3>3. CASE UNCHANGED status  BY <3>1, <3>3 DEF T
      <3>4. CASE status' = [status EXCEPT ![This] = "error"]
        <4>1. status' \in Seq(T) /\ Len(status') = Len(status)  BY <3>1, <3>4, SeqUpdate
        <4> QED  BY <4>1 DEF T
      <3> QED  BY <3>2, <3>3, <3>4
    <2>2. /\ epc' \in {"take", "idle", "dead"}
          /\ UNCHANGED <<call, answers, queues, futures, batches, goal, reading, left>>
      BY <1>2 DEF Send, AfterError
    <2> QED  BY <2>1, <2>2
  <1>3. CASE TakeQueues
    <2>1. AnsweredBy(call[This]) \in Seq(Ranks)  BY AnsweredFacts
    <2>2. queues' \in Seq(Seq(Ranks)) /\ Len(queues') = Len(queues)
      <3>1. << >> \in Seq(Ranks)  OBVIOUS
      <3>2. UNCHANGED queues \/ \E s \in Seq(Ranks) : queues' = [queues EXCEPT ![This] = s]
        BY <1>3, <2>1, <3>1 DEF TakeQueues
      <3>3. queues \in Seq(Seq(Ranks)) /\ This \in Nat  BY DEF This
      <3>4. CASE UNCHANGED queues  BY <3>3, <3>4
      <3>5. ASSUME NEW s \in Seq(Ranks), queues' = [queues EXCEPT ![This] = s]
            PROVE  queues' \in Seq(Seq(Ranks)) /\ Len(queues') = Len(queues)
        <4> HIDE DEF RPCTypeOK, EngineTypes
        <4> QED  BY <3>3, <3>5, SeqUpdate
      <3> QED  BY <3>2, <3>4, <3>5
    <2>3. This \in Nat  BY DEF This
    <2>4. futures' \in Seq(Nat) /\ batches' \in Seq(Nat) /\ goal' \in Nat
      <3>1. futures' = futures \/ futures' = Append(futures, This)  BY <1>3 DEF TakeQueues
      <3>2. batches' = batches \/ batches' = Append(batches, This)  BY <1>3 DEF TakeQueues
      <3>3. goal' = goal \/ goal' = This  BY <1>3 DEF TakeQueues
      <3>4. futures \in Seq(Nat) /\ batches \in Seq(Nat) /\ goal \in Nat  OBVIOUS
      <3>5. \A s \in Seq(Nat) : Append(s, This) \in Seq(Nat)  BY <2>3
      <3> QED  BY <2>3, <3>1, <3>2, <3>3, <3>4, <3>5, Zenon
    <2>5. epc' \in {"idle", "send", "take", "wait", "dead"}  BY <1>3 DEF TakeQueues
    <2>6. UNCHANGED <<call, status, answers, reading, left>>  BY <1>3 DEF TakeQueues
    <2> QED  BY <2>2, <2>4, <2>5, <2>6
  <1>4. CASE AskResult
    BY <1>4 DEF AskResult
  <1>5. CASE StartReading
    <2>1. reading' \in Nat /\ futures' \in Seq(Nat)
      <3>1. CASE futures # << >>
        <4>1. Head(futures) \in Nat /\ Tail(futures) \in Seq(Nat)  BY <3>1
        <4> QED  BY <1>5, <3>1, <4>1 DEF StartReading
      <3>2. CASE futures = << >>  BY <1>5, <3>2 DEF StartReading
      <3> QED  BY <3>1, <3>2
    <2>2. reading' \in Calls
      <3>1. CASE futures # << >>
        <4>1. 1 \in 1 .. Len(futures)  BY <3>1
        <4>2. futures[1] \in Calls
          <5> HIDE DEF RPCTypeOK, EngineTypes
          <5> QED  BY <4>1 DEF EngineInv, FuturesInOrder
        <4> QED  BY <1>5, <3>1, <4>2 DEF StartReading
      <3>2. CASE futures = << >>
        BY <1>5, <3>2 DEF StartReading, EngineInv, FuturesInOrder
      <3> QED  BY <3>1, <3>2
    <2>3. left' \in Seq(Ranks)  BY <1>5, <2>2 DEF StartReading, Calls
    <2> QED  BY <1>5, <2>1, <2>3 DEF StartReading
  <1>6. CASE ReadAnswer
    <2> DEFINE w == Head(left)
               a == Head(resp[w])
    <2>1. w \in Ranks  BY <1>6 DEF ReadAnswer
    <2>2. a \in Outs  BY <1>6, <2>1 DEF ReadAnswer
    <2>3. a.for \in Nat  BY <2>2 DEF Outs
    <2>4. answers' = [answers EXCEPT ![reading] = Append(@, a.for)]  BY <1>6 DEF ReadAnswer
    <2> HIDE DEF a
    <2>5. answers' \in Seq(Seq(Nat)) /\ Len(answers') = Len(answers)
      <3>1. reading \in 1 .. Len(answers)  BY <1>6 DEF ReadAnswer, EngineInv, Reading, Calls
      <3>2. Append(answers[reading], a.for) \in Seq(Nat)  BY <2>3, <3>1
      <3>3. answers' = [answers EXCEPT ![reading] = Append(answers[reading], a.for)]
        BY <2>4
      <3> QED  BY <3>2, <3>3, SeqUpdate
    <2>6. /\ status' \in Seq({"none", "value", "error"}) /\ Len(status') = Len(status)
          /\ reading' \in Nat /\ left' \in Seq(Ranks)
      <3>1. CASE Finish("error")  BY <3>1, FinishTypes
      <3>2. CASE left' = Tail(left) /\ UNCHANGED <<status, reading>>  BY <1>6, <3>2 DEF ReadAnswer
      <3> QED  BY <1>6, <3>1, <3>2 DEF ReadAnswer
    <2> QED  BY <1>6, <2>5, <2>6 DEF ReadAnswer
  <1>7. CASE AllRead
    <2>1. Finish("error") \/ Finish("value")  BY <1>7 DEF AllRead
    <2> QED  BY <1>7, <2>1, FinishTypes DEF AllRead
  <1>8. CASE ReadGivesUp
    <2>1. Finish("error")  BY <1>8 DEF ReadGivesUp
    <2> QED  BY <1>8, <2>1, FinishTypes DEF ReadGivesUp
  <1>9. CASE Resume
    BY <1>9 DEF Resume, AfterError
  <1>10. CASE ExecutorFailed
    BY <1>10 DEF ExecutorFailed
  <1> QED  BY <1>1, <1>2, <1>3, <1>4, <1>5, <1>6, <1>7, <1>8, <1>9, <1>10 DEF EngineStep

\* The steps of the workers, and the two of the engine that use their queues,
\* keep the types of these.
LEMMA WorkersKeepTypes ==
    ASSUME RPCTypeOK, [Next]_vars
    PROVE  WorkerTypes'
  <1> USE DEF RPCTypeOK, WorkerTypes
  <1>1. CASE UNCHANGED workers
    BY <1>1 DEF workers
  <1>2. CASE Send
    <2>1. This \in Nat  BY DEF This
    <2>2. \A w \in Ranks : Append(cmd[w], This) \in Seq(Nat)  BY <2>1
    <2>3. cmd' \in [Ranks -> Seq(Nat)]  BY <1>2, <2>2 DEF Send
    <2> QED  BY <1>2, <2>3 DEF Send
  <1>3. CASE ReadAnswer
    <2>1. resp' \in [Ranks -> Seq(Outs)]  BY <1>3 DEF ReadAnswer
    <2> QED  BY <1>3, <2>1 DEF ReadAnswer
  <1>4. CASE MonitorStep
    <2>1. alive' \in [Ranks -> BOOLEAN]  BY <1>4, Zenon DEF MonitorStep
    <2> QED  BY <1>4, <2>1 DEF MonitorStep
  <1>5. ASSUME NEW w \in Ranks, Receive(w) PROVE WorkerTypes'
    <2>1. work' \in [Ranks -> Nat]  BY <1>5 DEF Receive
    <2>2. cmd' \in [Ranks -> Seq(Nat)]  BY <1>5 DEF Receive
    <2> QED  BY <1>5, <2>1, <2>2 DEF Receive
  <1>6. ASSUME NEW w \in Ranks, NEW ok \in BOOLEAN, Execute(w, ok) PROVE WorkerTypes'
    <2> DEFINE out == [for |-> work[w], ok |-> ok]
    <2>1. out \in Outs  BY DEF Outs
    <2> HIDE DEF out
    <2>2. work' \in [Ranks -> Nat]  BY <1>6 DEF Execute
    <2>3. copying' = copying \/ copying' = [copying EXCEPT ![w] = Append(@, out)]
      BY <1>6, Zenon DEF Execute, out
    <2>4. resp' = resp \/ resp' = [resp EXCEPT ![w] = Append(@, out)]
      BY <1>6, Zenon DEF Execute, out
    <2>5. copying' \in [Ranks -> Seq(Outs)]
      <3>1. copying \in [Ranks -> Seq(Outs)]  OBVIOUS
      <3>2. Append(copying[w], out) \in Seq(Outs)  BY <2>1, <3>1
      <3>3. CASE copying' = copying  BY <3>1, <3>3
      <3>4. CASE copying' = [copying EXCEPT ![w] = Append(@, out)]
        <4> HIDE DEF RPCTypeOK, WorkerTypes
        <4> QED  BY <3>1, <3>2, <3>4
      <3> QED  BY <2>3, <3>3, <3>4
    <2>6. resp' \in [Ranks -> Seq(Outs)]
      <3>1. resp \in [Ranks -> Seq(Outs)]  OBVIOUS
      <3>2. Append(resp[w], out) \in Seq(Outs)  BY <2>1, <3>1
      <3>3. CASE resp' = resp  BY <3>1, <3>3
      <3>4. CASE resp' = [resp EXCEPT ![w] = Append(@, out)]
        <4> HIDE DEF RPCTypeOK, WorkerTypes
        <4> QED  BY <3>1, <3>2, <3>4
      <3> QED  BY <2>4, <3>3, <3>4
    <2> QED  BY <1>6, <2>2, <2>5, <2>6 DEF Execute
  <1>7. ASSUME NEW w \in Ranks, CopyOutput(w) PROVE WorkerTypes'
    <2>1. Head(copying[w]) \in Outs /\ Tail(copying[w]) \in Seq(Outs)  BY <1>7 DEF CopyOutput
    <2>2. resp' \in [Ranks -> Seq(Outs)]  BY <1>7, <2>1 DEF CopyOutput
    <2>3. copying' \in [Ranks -> Seq(Outs)]  BY <1>7, <2>1 DEF CopyOutput
    <2> QED  BY <1>7, <2>2, <2>3 DEF CopyOutput
  <1>8. ASSUME NEW w \in Ranks, CopyRaises(w) PROVE WorkerTypes'
    <2>1. Tail(copying[w]) \in Seq(Outs)  BY <1>8 DEF CopyRaises
    <2>2. copying' \in [Ranks -> Seq(Outs)]  BY <1>8, <2>1 DEF CopyRaises
    <2>3. copier' \in [Ranks -> BOOLEAN]  BY <1>8, Zenon DEF CopyRaises
    <2> QED  BY <1>8, <2>2, <2>3 DEF CopyRaises
  <1>9. ASSUME NEW w \in Ranks, Die(w) PROVE WorkerTypes'
    <2>1. alive' \in [Ranks -> BOOLEAN]  BY <1>9, Zenon DEF Die
    <2> QED  BY <1>9, <2>1 DEF Die
  <1>10. CASE \/ TakeQueues \/ AskResult \/ StartReading \/ AllRead \/ ReadGivesUp \/ Resume
              \/ ExecutorFailed \/ \E k \in Kinds : Call(k)
    BY <1>1, <1>10 DEF TakeQueues, AskResult, StartReading, AllRead, ReadGivesUp, Resume,
                       ExecutorFailed, Call
  <1>11. CASE UNCHANGED vars
    BY <1>1, <1>11 DEF vars
  <1> QED
    BY <1>2, <1>3, <1>4, <1>5, <1>6, <1>7, <1>8, <1>9, <1>10, <1>11
    DEF Next, EngineStep, WorkerStep

LEMMA TypesStep ==
    ASSUME RPCTypeOK, EngineInv, [Next]_vars
    PROVE  RPCTypeOK'
  <1>1. WorkerTypes'  BY WorkersKeepTypes
  <1>2. EngineTypes'
    <2>1. CASE EngineStep \/ ReadGivesUp \/ \E k \in Kinds : Call(k)
      BY <2>1, EngineKeepsTypes
    <2>2. CASE UNCHANGED engine
      BY <2>2 DEF engine, RPCTypeOK, EngineTypes
    <2>3. CASE MonitorStep \/ \E w \in Ranks : WorkerStep(w) \/ Execute(w, FALSE) \/ CopyOutput(w) \/ CopyRaises(w) \/ Die(w)
      BY <2>2, <2>3 DEF MonitorStep, WorkerStep, Receive, Execute, CopyOutput, CopyRaises, Die
    <2>4. CASE UNCHANGED vars
      BY <2>2, <2>4 DEF vars
    <2> QED  BY <2>1, <2>3, <2>4 DEF Next
  <1>3. scenario' = scenario
    BY DEF Next, EngineStep, WorkerStep, vars, Call, Send, TakeQueues, AskResult, StartReading,
           ReadAnswer, AllRead, ReadGivesUp, Resume, ExecutorFailed, Receive, Execute, CopyOutput,
           CopyRaises, Die, MonitorStep
  <1>4. monitor' = monitor \/ MonitorStep
    BY DEF Next, EngineStep, WorkerStep, vars, Call, Send, TakeQueues, AskResult, StartReading,
           ReadAnswer, AllRead, ReadGivesUp, Resume, ExecutorFailed, Receive, Execute, CopyOutput,
           CopyRaises, Die
  <1>5. monitor' \in {Stages[i] : i \in 1 .. 7}
    <2>1. PICK i \in 1 .. 7 : monitor = Stages[i]  BY DEF RPCTypeOK
    <2>2. CASE MonitorStep
      <3>1. Stages[7] = "told"  BY DEF Stages
      <3>2. i # 7 /\ StageNumber(monitor) = i  BY <2>1, <2>2, <3>1, StageNumbers DEF MonitorStep
      <3>3. monitor' = Stages[i + 1] /\ i + 1 \in 1 .. 7  BY <2>2, <3>2 DEF MonitorStep
      <3> QED  BY <3>3
    <2> QED  BY <2>1, <2>2, <1>4
  <1> QED  BY <1>1, <1>2, <1>3, <1>5 DEF WorkerTypes, EngineTypes, RPCTypeOK

-----------------------------------------------------------------------------
(* The engine reads the calls in their order.                              *)

\* Who answers a call depends on its kind alone.
LEMMA SameRanks ==
    ASSUME scenario' = scenario, NEW c, call'[c] = call[c]
    PROVE  /\ \A w : Answers(w, c)' <=> Answers(w, c)
           /\ queues'[c] = queues[c] => (SeesAll(c)' <=> SeesAll(c))
  BY DEF Answers, AnsweredBy, OneReply, Aggregated, SeesAll, Contains

LEMMA AnswersMeans ==
    ASSUME NEW w, NEW c
    PROVE  Answers(w, c) <=> \E i \in 1 .. Len(AnsweredBy(call[c])) : AnsweredBy(call[c])[i] = w
  <1>1. AnsweredBy(call[c]) \in Seq(Ranks)  BY AnsweredFacts
  <1> QED  BY <1>1 DEF Answers, Contains

LEMMA EngineSame ==
    ASSUME EngineInv, UNCHANGED <<scenario, engine>>
    PROVE  EngineInv'
  <1> USE DEF engine, Calls
  <1>1. QueuesSeen'
    BY SameRanks DEF EngineInv, QueuesSeen
  <1>2. Reading' /\ JustMade' /\ FuturesInOrder'
    BY DEF EngineInv, Reading, JustMade, FuturesInOrder
  <1>3. ReadInOrder' /\ ReadingFirst' /\ Unfinished'
    BY DEF EngineInv, ReadInOrder, ReadingFirst, Unfinished
  <1> QED  BY <1>1, <1>2, <1>3 DEF EngineInv

\* A new call is added to the others.
LEMMA NewCall ==
    ASSUME RPCTypeOK, NEW k \in Kinds, Call(k), epc' = "send"
    PROVE  /\ Len(call') = Len(call) + 1 /\ Len(call) \in Nat
           /\ \A c \in Calls : /\ call'[c] = call[c] /\ status'[c] = status[c]
                               /\ answers'[c] = answers[c] /\ queues'[c] = queues[c]
           /\ call'[Len(call')] = k /\ status'[Len(call')] = "none"
           /\ answers'[Len(call')] = << >> /\ queues'[Len(call')] = << >>
           /\ epc = "idle" /\ epc' = "send"
           /\ UNCHANGED <<scenario, futures, batches, goal, reading, left, workers, monitor>>
  <1>1. /\ call' = Append(call, k) /\ status' = Append(status, "none")
        /\ answers' = Append(answers, << >>) /\ queues' = Append(queues, << >>)
        /\ epc = "idle" /\ epc' = "send"
        /\ UNCHANGED <<scenario, futures, batches, goal, reading, left, workers, monitor>>
    BY DEF Call, AfterError
  <1>2. /\ call \in Seq(Kinds) /\ status \in Seq({"none", "value", "error"})
        /\ answers \in Seq(Seq(Nat)) /\ queues \in Seq(Seq(Ranks))
        /\ Len(status) = Len(call) /\ Len(answers) = Len(call) /\ Len(queues) = Len(call)
    BY DEF RPCTypeOK
  <1>3. /\ Len(call') = Len(call) + 1 /\ Len(call) \in Nat /\ call'[Len(call) + 1] = k
        /\ \A c \in 1 .. Len(call) : call'[c] = call[c]
    BY <1>1, <1>2
  <1>4. /\ status'[Len(call) + 1] = "none"
        /\ \A c \in 1 .. Len(call) : status'[c] = status[c]
    BY <1>1, <1>2
  <1>5. /\ answers'[Len(call) + 1] = << >>
        /\ \A c \in 1 .. Len(call) : answers'[c] = answers[c]
    BY <1>1, <1>2
  <1>6. /\ queues'[Len(call) + 1] = << >>
        /\ \A c \in 1 .. Len(call) : queues'[c] = queues[c]
    BY <1>1, <1>2
  <1> QED  BY <1>1, <1>3, <1>4, <1>5, <1>6 DEF Calls

\* A call that fails before it is made.
LEMMA CallFails ==
    ASSUME NEW k \in Kinds, Call(k), epc' # "send"
    PROVE  /\ epc = "idle" /\ epc' \in {"idle", "dead"} /\ Reached("failed")
           /\ UNCHANGED <<scenario, call, status, answers, queues, futures, batches, goal, reading, left,
                          workers, monitor>>
  BY DEF Call, AfterError

\* A call that fails as it is sent: its caller gets an error, the workers
\* nothing.
LEMMA SendFails ==
    ASSUME RPCTypeOK, EngineInv, Send, epc' # "take"
    PROVE  /\ epc = "send" /\ epc' \in {"idle", "dead"} /\ Reached("noRpc")
           /\ Len(call) \in Calls /\ status'[Len(call)] = "error"
           /\ \A c \in Calls : c # Len(call) => status'[c] = status[c]
           /\ UNCHANGED <<scenario, call, answers, queues, futures, batches, goal, reading, left,
                          workers, monitor>>
  <1>1. /\ epc = "send" /\ epc' \in {"idle", "dead"} /\ Reached("noRpc")
        /\ status' = [status EXCEPT ![Len(call)] = "error"]
        /\ UNCHANGED <<scenario, call, answers, queues, futures, batches, goal, reading, left,
                       workers, monitor>>
    BY DEF Send, AfterError, This, workers
  <1>2. Len(call) \in Calls
    <2>1. Len(call) \in Nat  BY DEF RPCTypeOK
    <2> QED  BY <1>1, <2>1 DEF EngineInv, JustMade, Calls
  <1>3. DOMAIN status = Calls
    <2>1. status \in Seq({"none", "value", "error"}) /\ Len(status) = Len(call)  BY DEF RPCTypeOK
    <2> QED  BY <2>1 DEF Calls
  <1> QED  BY <1>1, <1>2, <1>3

LEMMA EngineDead ==
    ASSUME EngineInv, reading = 0, epc' = "dead",
           UNCHANGED <<scenario, call, status, answers, queues, futures, batches, goal, reading, left>>
    PROVE  EngineInv'
  <1> USE DEF Calls
  <1>1. QueuesSeen'  BY SameRanks DEF EngineInv, QueuesSeen
  <1>2. Reading' /\ JustMade' /\ FuturesInOrder'
    BY DEF EngineInv, Reading, JustMade, FuturesInOrder
  <1>3. ReadInOrder' /\ ReadingFirst' /\ Unfinished'
    BY DEF EngineInv, ReadInOrder, ReadingFirst, Unfinished
  <1> QED  BY <1>1, <1>2, <1>3 DEF EngineInv

LEMMA EngineCall ==
    ASSUME RPCTypeOK, EngineInv, NEW k \in Kinds, Call(k)
    PROVE  EngineInv'
  <1>0. reading = 0  BY DEF Call, EngineInv, Reading
  <1>1. CASE epc' # "send"
    <2>1. /\ epc = "idle" /\ epc' \in {"idle", "dead"}
          /\ UNCHANGED <<scenario, call, status, answers, queues, futures, batches, goal, reading, left>>
      BY <1>1, CallFails
    <2>2. CASE epc' = "dead"  BY <1>0, <2>1, <2>2, EngineDead
    <2>3. CASE epc' = "idle"  BY <2>1, <2>3, EngineSame DEF engine
    <2> QED  BY <2>1, <2>2, <2>3
  <1>2. CASE epc' = "send"
    <2> DEFINE n == Len(call)
    <2>1. /\ Len(call') = n + 1 /\ n \in Nat
          /\ \A c \in Calls : /\ call'[c] = call[c] /\ status'[c] = status[c]
                              /\ answers'[c] = answers[c] /\ queues'[c] = queues[c]
          /\ status'[n + 1] = "none" /\ answers'[n + 1] = << >> /\ queues'[n + 1] = << >>
          /\ epc = "idle" /\ epc' = "send"
          /\ UNCHANGED <<scenario, futures, batches, goal, reading, left>>
      BY <1>2, NewCall
    <2>2. Calls' = Calls \cup {n + 1} /\ n + 1 \notin Calls
      BY <2>1 DEF Calls
    <2>3. \A i \in 1 .. Len(futures) : futures[i] \in Calls  BY DEF EngineInv, FuturesInOrder
    <2>4. Reading' /\ ReadingFirst'  BY <1>0, <2>1 DEF Reading, ReadingFirst
    <2>5. QueuesSeen'
      BY <2>1, <2>2, SameRanks DEF EngineInv, QueuesSeen
    <2>6. JustMade'  BY <1>0, <2>1, <2>2, <2>3 DEF JustMade
    <2>7. FuturesInOrder'  BY <2>1, <2>2 DEF EngineInv, FuturesInOrder
    <2>8. ReadInOrder'  BY <1>0, <2>1, <2>2 DEF EngineInv, ReadInOrder
    <2>9. Unfinished'
      <3>1. SUFFICES ASSUME NEW c \in Calls', status'[c] = "none"
                     PROVE  \/ \E i \in 1 .. Len(futures) : futures[i] = c
                            \/ c = Len(call')
        BY <2>1 DEF Unfinished
      <3>2. CASE c \in Calls
        <4>1. status[c] = "none" /\ reading # c /\ epc = "idle"  BY <1>0, <2>1, <3>1, <3>2 DEF Calls
        <4> QED  BY <3>2, <4>1 DEF EngineInv, Unfinished
      <3> QED  BY <2>1, <2>2, <3>2
    <2> QED  BY <2>4, <2>5, <2>6, <2>7, <2>8, <2>9 DEF EngineInv
  <1> QED  BY <1>1, <1>2

LEMMA EngineSend ==
    ASSUME RPCTypeOK, EngineInv, Send
    PROVE  EngineInv'
  <1>2. reading = 0  BY DEF Send, EngineInv, JustMade
  <1>3. CASE epc' # "take"
    <2>1. /\ epc = "send" /\ epc' \in {"idle", "dead"}
          /\ Len(call) \in Calls /\ status'[Len(call)] = "error"
          /\ \A c \in Calls : c # Len(call) => status'[c] = status[c]
          /\ UNCHANGED <<scenario, call, answers, queues, futures, batches, goal, reading, left>>
      BY <1>3, SendFails
    <2>2. Calls' = Calls  BY <2>1 DEF Calls
    <2>3. \A i \in 1 .. Len(futures) : futures[i] # Len(call)  BY <2>1 DEF EngineInv, JustMade
    <2>4. QueuesSeen'  BY <2>1, <2>2, SameRanks DEF EngineInv, QueuesSeen
    <2>5. Reading' /\ JustMade' /\ ReadingFirst'
      BY <1>2, <2>1 DEF Reading, JustMade, ReadingFirst
    <2>6. FuturesInOrder'  BY <2>1, <2>2, <2>3 DEF EngineInv, FuturesInOrder
    <2>7. ReadInOrder'  BY <1>2, <2>1, <2>2 DEF EngineInv, ReadInOrder
    <2>8. Unfinished'  BY <1>2, <2>1, <2>2 DEF EngineInv, Unfinished
    <2> QED  BY <2>4, <2>5, <2>6, <2>7, <2>8 DEF EngineInv
  <1>4. CASE epc' = "take"
    <2>0. /\ epc = "send"
          /\ UNCHANGED <<scenario, call, status, answers, queues, futures, batches, goal, reading, left>>
      BY <1>4 DEF Send, AfterError
    <2>1. QueuesSeen'  BY <2>0, SameRanks DEF EngineInv, QueuesSeen, Calls
    <2>2. Reading' /\ JustMade' /\ FuturesInOrder'
      BY <1>2, <1>4, <2>0 DEF EngineInv, Reading, JustMade, FuturesInOrder, Calls
    <2>3. ReadInOrder' /\ ReadingFirst' /\ Unfinished'
      BY <1>2, <1>4, <2>0 DEF EngineInv, ReadInOrder, ReadingFirst, Unfinished, Calls
    <2> QED  BY <2>1, <2>2, <2>3 DEF EngineInv
  <1> QED  BY <1>3, <1>4

\* The response queues of a call, and its future if it is a step.
LEMMA QueuesTaken ==
    ASSUME RPCTypeOK, EngineInv, TakeQueues, epc' # "dead"
    PROVE  /\ epc = "take" /\ Len(call) \in Calls /\ Len(queues') = Len(call)
           /\ queues'[Len(call)] = << >> \/ queues'[Len(call)] = AnsweredBy(call[Len(call)])
           /\ ~Reached("noResponses") => queues'[Len(call)] = AnsweredBy(call[Len(call)])
           /\ \A c \in Calls : c # Len(call) => queues'[c] = queues[c]
           /\ \/ epc' = "idle" /\ futures' = Append(futures, Len(call))
                 /\ batches' = Append(batches, Len(call)) /\ goal' = goal
              \/ epc' = "wait" /\ goal' = Len(call) /\ UNCHANGED <<futures, batches>>
           /\ UNCHANGED <<scenario, call, status, answers, reading, left, workers, monitor>>
  <1>1. Len(call) \in Calls /\ epc = "take"
    <2>1. Len(call) \in Nat  BY DEF RPCTypeOK
    <2> QED  BY <2>1 DEF TakeQueues, EngineInv, JustMade, Calls
  <1>2. PICK s : /\ queues' = [queues EXCEPT ![Len(call)] = s]
                 /\ s = << >> \/ s = AnsweredBy(call[Len(call)])
                 /\ ~Reached("noResponses") => s = AnsweredBy(call[Len(call)])
    BY DEF TakeQueues, This
  <1>3. queues \in Seq(Seq(Ranks)) /\ Len(queues) = Len(call) /\ Len(call) \in Nat
    BY DEF RPCTypeOK
  <1>4. /\ DOMAIN queues = Calls /\ DOMAIN queues' = Calls
    BY <1>2, <1>3 DEF Calls
  <1>5. queues'[Len(call)] = s /\ \A c \in Calls : c # Len(call) => queues'[c] = queues[c]
    BY <1>1, <1>2, <1>4
  <1>6. s \in Seq(Ranks)
    <2>1. << >> \in Seq(Ranks) /\ AnsweredBy(call[Len(call)]) \in Seq(Ranks)  BY AnsweredFacts
    <2> QED  BY <1>2, <2>1
  <1>7. Len(queues') = Len(call)
    BY <1>2, <1>3, <1>6, SeqUpdate
  <1>8. /\ \/ epc' = "idle" /\ futures' = Append(futures, Len(call))
              /\ batches' = Append(batches, Len(call)) /\ goal' = goal
           \/ epc' = "wait" /\ goal' = Len(call) /\ UNCHANGED <<futures, batches>>
        /\ UNCHANGED <<scenario, call, status, answers, reading, left, workers, monitor>>
    BY DEF TakeQueues, This
  <1> QED  BY <1>1, <1>2, <1>5, <1>7, <1>8

LEMMA EngineTake ==
    ASSUME RPCTypeOK, EngineInv, TakeQueues
    PROVE  EngineInv'
  <1>0. reading = 0 /\ epc = "take"  BY DEF TakeQueues, EngineInv, JustMade
  <1>1. CASE epc' = "dead"
    <2>1. UNCHANGED <<scenario, call, status, answers, queues, futures, batches, goal, reading, left>>
      BY <1>1 DEF TakeQueues
    <2> QED  BY <1>0, <1>1, <2>1, EngineDead
  <1>2. CASE epc' # "dead"
    <2> DEFINE n == Len(call)
    <2>1. /\ n \in Calls /\ Len(queues') = n
          /\ queues'[n] = << >> \/ queues'[n] = AnsweredBy(call[n])
          /\ \A c \in Calls : c # n => queues'[c] = queues[c]
          /\ \/ epc' = "idle" /\ futures' = Append(futures, n) /\ batches' = Append(batches, n)
                /\ goal' = goal
             \/ epc' = "wait" /\ goal' = n /\ UNCHANGED <<futures, batches>>
          /\ UNCHANGED <<scenario, call, status, answers, reading, left>>
      BY <1>2, QueuesTaken
    <2>2. Calls' = Calls /\ n \in Nat \ {0} /\ \A c \in Calls : c \in Nat /\ c <= n
      BY <2>1 DEF Calls
    <2>3. status[n] = "none" /\ answers[n] = << >>  BY <1>0 DEF EngineInv, JustMade
    <2>4. Reading' /\ ReadingFirst' /\ JustMade'
      BY <1>0, <2>1 DEF Reading, ReadingFirst, JustMade
    <2>5. QueuesSeen'
      <3>1. SUFFICES ASSUME NEW c \in Calls
                     PROVE  /\ queues'[c] = << >> \/ SeesAll(c)'
                            /\ Len(answers[c]) <= Len(queues'[c])
        BY <2>1, <2>2 DEF QueuesSeen
      <3>2. CASE c = n
        <4>1. queues'[n] \in Seq(Ranks)
          <5>1. << >> \in Seq(Ranks) /\ AnsweredBy(call[n]) \in Seq(Ranks)  BY AnsweredFacts
          <5> QED  BY <2>1, <5>1
        <4>2. queues'[n] = AnsweredBy(call[n]) => SeesAll(n)'
          BY <2>1 DEF SeesAll, AnsweredBy, OneReply, Aggregated
        <4>3. Len(answers[n]) = 0 /\ Len(queues'[n]) \in Nat  BY <2>3, <4>1
        <4> QED  BY <2>1, <3>2, <4>2, <4>3
      <3>3. CASE c # n
        <4>1. queues'[c] = queues[c] /\ call'[c] = call[c] /\ scenario' = scenario  BY <2>1, <3>3
        <4> QED  BY <4>1, SameRanks DEF EngineInv, QueuesSeen
      <3> QED  BY <3>2, <3>3
    <2>6. CASE epc' = "wait"
      <3>1. goal' = n /\ UNCHANGED <<futures, batches>>  BY <2>1, <2>6
      <3>2. FuturesInOrder'  BY <2>1, <2>2, <3>1 DEF EngineInv, FuturesInOrder
      <3>3. ReadInOrder'  BY <1>0, <2>1, <2>2, <3>1 DEF EngineInv, ReadInOrder
      <3>4. Unfinished'
        BY <1>0, <2>1, <2>2, <2>6, <3>1 DEF EngineInv, Unfinished
      <3> QED  BY <2>4, <2>5, <3>2, <3>3, <3>4 DEF EngineInv
    <2>7. CASE epc' = "idle"
      <3>1. futures' = Append(futures, n) /\ batches' = Append(batches, n)  BY <2>1, <2>7
      <3>2. futures \in Seq(Nat) /\ batches \in Seq(Nat)  BY DEF RPCTypeOK
      <3>3. /\ Len(futures') = Len(futures) + 1 /\ Len(futures) \in Nat
            /\ \A i \in 1 .. Len(futures) : futures'[i] = futures[i]
            /\ futures'[Len(futures) + 1] = n
            /\ \A i \in 1 .. Len(futures') : i \in 1 .. Len(futures) \/ i = Len(futures) + 1
        BY <2>2, <3>1, <3>2
      <3>4. \A i \in 1 .. Len(batches') : batches'[i] = n \/ (i \in 1 .. Len(batches) /\ batches'[i] = batches[i])
        BY <2>2, <3>1, <3>2
      <3>5. \A i \in 1 .. Len(futures) : futures[i] \in Calls /\ futures[i] < n
        <4>1. \A i \in 1 .. Len(futures) : futures[i] \in Calls /\ futures[i] # n
          BY <1>0 DEF EngineInv, FuturesInOrder, JustMade
        <4> QED  BY <2>2, <4>1
      <3>6. FuturesInOrder'
        <4>1. \A i \in 1 .. Len(futures') : futures'[i] \in Calls' /\ status'[futures'[i]] = "none"
          BY <2>1, <2>2, <2>3, <3>3, <3>5 DEF EngineInv, FuturesInOrder
        <4>2. \A i \in 1 .. Len(futures') : \A j \in 1 .. i - 1 : futures'[j] < futures'[i]
          <5>1. SUFFICES ASSUME NEW i \in 1 .. Len(futures'), NEW j \in 1 .. i - 1
                         PROVE  futures'[j] < futures'[i]
            OBVIOUS
          <5>2. j \in 1 .. Len(futures)  BY <3>3
          <5>3. CASE i \in 1 .. Len(futures)
            <6>1. futures[j] < futures[i]  BY <5>3 DEF EngineInv, FuturesInOrder
            <6> QED  BY <3>3, <5>2, <5>3, <6>1
          <5>4. CASE i = Len(futures) + 1  BY <3>3, <3>5, <5>2, <5>4
          <5> QED  BY <3>3, <5>3, <5>4
        <4>3. \A i \in 1 .. Len(batches') : batches'[i] \in Calls
          BY <2>1, <3>4 DEF EngineInv, FuturesInOrder
        <4> QED  BY <2>2, <2>7, <4>1, <4>2, <4>3 DEF FuturesInOrder
      <3>7. ReadInOrder'
        <4>1. SUFFICES ASSUME NEW c \in Calls, answers[c] # << >>
                       PROVE  /\ status[c] # "none" \/ reading = c
                              /\ \A i \in 1 .. Len(futures') : c < futures'[i]
          BY <1>0, <2>1, <2>2 DEF ReadInOrder
        <4>2. c < n  BY <2>2, <2>3, <4>1
        <4>3. /\ status[c] # "none" \/ reading = c
              /\ \A i \in 1 .. Len(futures) : c < futures[i]
          BY <4>1 DEF EngineInv, ReadInOrder
        <4> QED  BY <3>3, <4>2, <4>3
      <3>8. Unfinished'
        <4>1. SUFFICES ASSUME NEW c \in Calls, status[c] = "none"
                       PROVE  \/ \E i \in 1 .. Len(futures') : futures'[i] = c
                              \/ reading' = c
          BY <2>1, <2>2 DEF Unfinished
        <4>2. CASE c = n
          <5>1. Len(futures) + 1 \in 1 .. Len(futures')  BY <3>3
          <5> QED  BY <3>3, <4>2, <5>1
        <4>3. CASE c # n
          <5>1. \/ \E i \in 1 .. Len(futures) : futures[i] = c
                \/ reading = c
            BY <1>0, <4>1, <4>3 DEF EngineInv, Unfinished
          <5>2. \A i \in 1 .. Len(futures) : i \in 1 .. Len(futures')  BY <3>3
          <5> QED  BY <2>1, <3>3, <5>1, <5>2
        <4> QED  BY <4>2, <4>3
      <3> QED  BY <2>4, <2>5, <3>6, <3>7, <3>8 DEF EngineInv
    <2> QED  BY <2>1, <2>6, <2>7
  <1> QED  BY <1>1, <1>2

LEMMA EngineAsk ==
    ASSUME RPCTypeOK, EngineInv, AskResult
    PROVE  EngineInv'
  <1>1. /\ epc = "idle" /\ epc' = "wait" /\ goal' = Head(batches) /\ batches' = Tail(batches)
        /\ batches # << >>
        /\ UNCHANGED <<scenario, call, status, answers, queues, futures, reading, left>>
    BY DEF AskResult
  <1>2. reading = 0  BY <1>1 DEF EngineInv, Reading
  <1>3. batches \in Seq(Nat)  BY DEF RPCTypeOK
  <1>4. /\ 1 \in 1 .. Len(batches) /\ Head(batches) = batches[1]
        /\ \A i \in 1 .. Len(batches') : i + 1 \in 1 .. Len(batches) /\ batches'[i] = batches[i + 1]
    BY <1>1, <1>3, TailFacts
  <1>5. QueuesSeen'  BY <1>1, SameRanks DEF EngineInv, QueuesSeen, Calls
  <1>6. Reading' /\ JustMade' /\ ReadingFirst'
    BY <1>1, <1>2 DEF Reading, JustMade, ReadingFirst
  <1>7. FuturesInOrder'
    BY <1>1, <1>4 DEF EngineInv, FuturesInOrder, Calls
  <1>8. ReadInOrder' /\ Unfinished'
    BY <1>1, <1>2 DEF EngineInv, ReadInOrder, Unfinished, Calls
  <1> QED  BY <1>5, <1>6, <1>7, <1>8 DEF EngineInv

LEMMA EngineResume ==
    ASSUME EngineInv, Resume \/ ExecutorFailed
    PROVE  EngineInv'
  <1>1. /\ epc' \in {"idle", "dead"} /\ epc \in {"wait", "idle"} /\ reading = 0
        /\ epc = "wait" => status[goal] # "none"
        /\ UNCHANGED <<scenario, call, status, answers, queues, futures, batches, goal, reading, left>>
    BY DEF Resume, AfterError, ExecutorFailed, EngineInv, Reading
  <1>2. QueuesSeen'  BY <1>1, SameRanks DEF EngineInv, QueuesSeen, Calls
  <1>3. Reading' /\ JustMade' /\ FuturesInOrder'
    BY <1>1 DEF EngineInv, Reading, JustMade, FuturesInOrder, Calls
  <1>4. ReadInOrder' /\ ReadingFirst' /\ Unfinished'
    BY <1>1 DEF EngineInv, ReadInOrder, ReadingFirst, Unfinished, Calls
  <1> QED  BY <1>2, <1>3, <1>4 DEF EngineInv

\* The call that is read next is the oldest one not finished.
LEMMA NextRead ==
    ASSUME RPCTypeOK, EngineInv, StartReading
    PROVE  /\ reading' \in Calls /\ status[reading'] = "none" /\ answers[reading'] = << >>
           /\ \A c \in Calls : answers[c] # << >> => c < reading'
           /\ futures' \in Seq(Nat)
           /\ \A i \in 1 .. Len(futures') : \E j \in 1 .. Len(futures) : futures'[i] = futures[j]
           /\ \A i \in 1 .. Len(futures') : \A j \in 1 .. i - 1 : futures'[j] < futures'[i]
           /\ \A i \in 1 .. Len(futures') : reading' < futures'[i]
           /\ \A i \in 1 .. Len(futures) :
                futures[i] = reading' \/ \E j \in 1 .. Len(futures') : futures'[j] = futures[i]
           /\ left' = queues[reading'] /\ epc = "wait" /\ reading = 0
           /\ UNCHANGED <<scenario, call, status, answers, queues, batches, epc, goal, workers, monitor>>
  <1>1. /\ left' = queues[reading'] /\ epc = "wait" /\ reading = 0 /\ status[goal] = "none"
        /\ UNCHANGED <<scenario, call, status, answers, queues, batches, epc, goal, workers, monitor>>
    BY DEF StartReading
  <1>2. futures \in Seq(Nat) /\ Len(call) \in Nat  BY DEF RPCTypeOK
  <1>3. CASE futures # << >>
    <2>1. reading' = futures[1] /\ futures' = Tail(futures)  BY <1>2, <1>3 DEF StartReading
    <2>2. /\ futures' \in Seq(Nat) /\ Len(futures') = Len(futures) - 1 /\ Len(futures) \in Nat \ {0}
          /\ \A i \in 1 .. Len(futures') : i + 1 \in 1 .. Len(futures) /\ futures'[i] = futures[i + 1]
          /\ 1 \in 1 .. Len(futures)
          /\ \A i \in 1 .. Len(futures) : i = 1 \/ (i - 1 \in 1 .. Len(futures') /\ futures[i] = futures'[i - 1])
      BY <1>2, <1>3, <2>1, TailFacts, Zenon
    <2>3. reading' \in Calls  BY <2>1, <2>2 DEF EngineInv, FuturesInOrder
    <2>4. \A c \in Calls : answers[c] # << >> => c < reading'
      BY <2>1, <2>2 DEF EngineInv, ReadInOrder
    <2>5. answers[reading'] = << >>
      <3>1. ~(reading' < reading')  BY <2>3 DEF Calls
      <3> QED  BY <2>3, <2>4, <3>1
    <2>6. status[reading'] = "none"
      BY <2>1, <2>2 DEF EngineInv, FuturesInOrder
    <2>7. \A i \in 1 .. Len(futures') : \A j \in 1 .. i - 1 : futures'[j] < futures'[i]
      <3>1. SUFFICES ASSUME NEW i \in 1 .. Len(futures'), NEW j \in 1 .. i - 1
                     PROVE  futures'[j] < futures'[i]
        OBVIOUS
      <3>2. i + 1 \in 1 .. Len(futures) /\ j + 1 \in 1 .. (i + 1) - 1 /\ j \in 1 .. Len(futures')
        BY <2>2
      <3>3. futures[j + 1] < futures[i + 1]  BY <3>2 DEF EngineInv, FuturesInOrder
      <3> QED  BY <2>2, <3>2, <3>3
    <2>8. \A i \in 1 .. Len(futures') : reading' < futures'[i]
      <3>1. SUFFICES ASSUME NEW i \in 1 .. Len(futures') PROVE reading' < futures'[i]
        OBVIOUS
      <3>2. i + 1 \in 1 .. Len(futures) /\ 1 \in 1 .. (i + 1) - 1 /\ futures'[i] = futures[i + 1]
        BY <2>2
      <3>3. futures[1] < futures[i + 1]  BY <3>2 DEF EngineInv, FuturesInOrder
      <3> QED  BY <2>1, <3>2, <3>3
    <2>9. /\ \A i \in 1 .. Len(futures') : \E j \in 1 .. Len(futures) : futures'[i] = futures[j]
          /\ \A i \in 1 .. Len(futures) :
                futures[i] = reading' \/ \E j \in 1 .. Len(futures') : futures'[j] = futures[i]
      BY <2>1, <2>2
    <2> QED  BY <1>1, <2>2, <2>3, <2>4, <2>5, <2>6, <2>7, <2>8, <2>9
  <1>4. CASE futures = << >>
    <2>1. reading' = goal /\ futures' = futures  BY <1>4 DEF StartReading
    <2>2. goal \in Calls  BY <1>1 DEF EngineInv, FuturesInOrder
    <2>3. goal = Len(call)
      <3>1. goal # 0  BY <2>2 DEF Calls
      <3>2. ~\E i \in 1 .. Len(futures) : futures[i] = goal  BY <1>4
      <3> QED  BY <1>1, <2>2, <3>1, <3>2 DEF EngineInv, Unfinished
    <2>4. answers[goal] = << >>
      <3>1. reading # goal  BY <1>1, <2>2 DEF Calls
      <3> QED  BY <1>1, <2>2, <3>1 DEF EngineInv, ReadInOrder
    <2>5. \A c \in Calls : answers[c] # << >> => c < reading'
      BY <1>2, <2>1, <2>3, <2>4 DEF Calls
    <2>6. /\ \A i \in 1 .. Len(futures') : FALSE
          /\ \A i \in 1 .. Len(futures) : FALSE
      BY <1>4, <2>1
    <2> QED  BY <1>1, <1>2, <2>1, <2>2, <2>4, <2>5, <2>6
  <1> QED  BY <1>3, <1>4

LEMMA EngineStart ==
    ASSUME RPCTypeOK, EngineInv, StartReading
    PROVE  EngineInv'
  <1>1. /\ reading' \in Calls /\ status[reading'] = "none" /\ answers[reading'] = << >>
        /\ \A c \in Calls : answers[c] # << >> => c < reading'
        /\ futures' \in Seq(Nat)
        /\ \A i \in 1 .. Len(futures') : \E j \in 1 .. Len(futures) : futures'[i] = futures[j]
        /\ \A i \in 1 .. Len(futures') : \A j \in 1 .. i - 1 : futures'[j] < futures'[i]
        /\ \A i \in 1 .. Len(futures') : reading' < futures'[i]
        /\ \A i \in 1 .. Len(futures) :
             futures[i] = reading' \/ \E j \in 1 .. Len(futures') : futures'[j] = futures[i]
        /\ left' = queues[reading'] /\ epc = "wait" /\ reading = 0
        /\ UNCHANGED <<scenario, call, status, answers, queues, batches, epc, goal>>
    BY NextRead
  <1>2. Calls' = Calls  BY <1>1 DEF Calls
  <1>3. Reading'
    <2>1. queues[reading'] \in Seq(Ranks)  BY <1>1 DEF RPCTypeOK, Calls
    <2>2. Len(answers[reading']) = 0 /\ Len(left') \in Nat  BY <1>1, <2>1
    <2>3. Len(queues[reading']) = Len(answers[reading']) + Len(left')  BY <1>1, <2>2
    <2>4. \A j \in 1 .. Len(left') : left'[j] = queues[reading'][Len(answers[reading']) + j]
      BY <1>1, <2>2
    <2> QED  BY <1>1, <1>2, <2>3, <2>4 DEF Reading
  <1>4. QueuesSeen'  BY <1>1, <1>2, SameRanks DEF EngineInv, QueuesSeen
  <1>5. JustMade' /\ ReadingFirst'  BY <1>1 DEF JustMade, ReadingFirst
  <1>6. FuturesInOrder'
    <2>1. \A i \in 1 .. Len(futures) : futures[i] \in Calls /\ status[futures[i]] = "none"
      BY DEF EngineInv, FuturesInOrder
    <2>2. \A i \in 1 .. Len(futures') : futures'[i] \in Calls' /\ status'[futures'[i]] = "none"
      BY <1>1, <1>2, <2>1
    <2>3. (\A i \in 1 .. Len(batches) : batches[i] \in Calls)' /\ goal' \in Calls'
      BY <1>1, <1>2 DEF EngineInv, FuturesInOrder
    <2> QED  BY <1>1, <2>2, <2>3 DEF FuturesInOrder
  <1>7. ReadInOrder'
    <2>1. SUFFICES ASSUME NEW c \in Calls, answers[c] # << >>
                   PROVE  /\ status[c] # "none" \/ reading' = c
                          /\ c <= reading'
                          /\ \A i \in 1 .. Len(futures') : c < futures'[i]
      BY <1>1, <1>2 DEF ReadInOrder
    <2>2. c \in Nat /\ reading' \in Nat /\ c # 0  BY <1>1 DEF Calls
    <2>3. c < reading'  BY <1>1, <2>1
    <2>4. /\ status[c] # "none"
          /\ \A i \in 1 .. Len(futures) : c < futures[i]
      BY <1>1, <2>1, <2>2 DEF EngineInv, ReadInOrder
    <2> QED  BY <1>1, <2>2, <2>3, <2>4
  <1>8. Unfinished'
    <2>1. SUFFICES ASSUME NEW c \in Calls, status[c] = "none"
                   PROVE  \/ \E i \in 1 .. Len(futures') : futures'[i] = c
                          \/ reading' = c
                          \/ c = Len(call) /\ goal = c
      BY <1>1, <1>2 DEF Unfinished
    <2>2. c # 0  BY DEF Calls
    <2>3. \/ \E i \in 1 .. Len(futures) : futures[i] = c
          \/ c = Len(call) /\ goal = c
      BY <1>1, <2>1, <2>2 DEF EngineInv, Unfinished
    <2> QED  BY <1>1, <2>3
  <1> QED  BY <1>3, <1>4, <1>5, <1>6, <1>7, <1>8 DEF EngineInv

LEMMA Finished ==
    ASSUME RPCTypeOK, EngineInv, NEW s \in {"value", "error"}, Finish(s), reading # 0
    PROVE  /\ reading \in Calls /\ status'[reading] = s /\ s # "none"
           /\ \A c \in Calls : c # reading => status'[c] = status[c]
           /\ reading' = 0 /\ left' = << >>
  <1>1. reading \in Calls  BY DEF EngineInv, Reading
  <1>2. /\ status' = [status EXCEPT ![reading] = s] /\ reading' = 0 /\ left' = << >> /\ s # "none"
    BY DEF Finish
  <1>3. DOMAIN status = Calls
    <2>1. status \in Seq({"none", "value", "error"}) /\ Len(status) = Len(call)  BY DEF RPCTypeOK
    <2> QED  BY <2>1 DEF Calls
  <1> QED  BY <1>1, <1>2, <1>3

LEMMA EngineFinish ==
    ASSUME RPCTypeOK, EngineInv, NEW s \in {"value", "error"}, Finish(s), reading # 0,
           UNCHANGED <<scenario, call, answers, queues, futures, batches, epc, goal>>
    PROVE  EngineInv'
  <1>1. /\ reading \in Calls /\ status'[reading] = s /\ s # "none"
        /\ \A c \in Calls : c # reading => status'[c] = status[c]
        /\ reading' = 0 /\ left' = << >>
    BY Finished
  <1>2. Calls' = Calls /\ epc = "wait"  BY DEF Calls, EngineInv, Reading
  <1>3. QueuesSeen'  BY <1>2, SameRanks DEF EngineInv, QueuesSeen
  <1>4. Reading' /\ JustMade' /\ ReadingFirst'
    BY <1>1, <1>2 DEF Reading, JustMade, ReadingFirst
  <1>5. FuturesInOrder'
    <2>1. \A i \in 1 .. Len(futures) : futures[i] \in Calls /\ status[futures[i]] = "none" /\ futures[i] # reading
      BY <1>1 DEF EngineInv, FuturesInOrder, ReadingFirst, Calls
    <2> QED  BY <1>1, <1>2, <2>1 DEF EngineInv, FuturesInOrder
  <1>6. ReadInOrder'
    BY <1>1, <1>2 DEF EngineInv, ReadInOrder
  <1>7. Unfinished'
    BY <1>1, <1>2 DEF EngineInv, Unfinished
  <1> QED  BY <1>3, <1>4, <1>5, <1>6, <1>7 DEF EngineInv

\* The oldest answer of the next rank goes to the call that is read.
LEMMA AnswerTaken ==
    ASSUME RPCTypeOK, EngineInv, ReadAnswer
    PROVE  LET w == Head(left)
               a == Head(resp[w]) IN
           /\ reading \in Calls /\ status[reading] = "none" /\ epc = "wait" /\ reading # 0
           /\ left # << >> /\ w = left[1] /\ w \in Ranks /\ resp[w] # << >> /\ a \in Outs
           /\ Len(answers[reading]) \in Nat
           /\ Len(answers[reading]) + 1 \in 1 .. Len(queues[reading])
           /\ queues[reading][Len(answers[reading]) + 1] = w
           /\ SeesAll(reading)
           /\ answers'[reading] = Append(answers[reading], a.for)
           /\ Len(answers') = Len(call)
           /\ \A c \in Calls : c # reading => answers'[c] = answers[c]
           /\ resp' = [resp EXCEPT ![w] = Tail(@)]
           /\ \/ ~a.ok /\ Finish("error")
              \/ a.ok /\ left' = Tail(left) /\ UNCHANGED <<status, reading>>
           /\ UNCHANGED <<scenario, call, queues, futures, batches, epc, goal,
                          cmd, work, copying, copier, alive, monitor>>
  <1> DEFINE w == Head(left)
             a == Head(resp[w])
             n == Len(answers[reading])
  <1>1. /\ reading # 0 /\ left # << >> /\ resp[w] # << >>
        /\ resp' = [resp EXCEPT ![w] = Tail(@)]
        /\ answers' = [answers EXCEPT ![reading] = Append(@, a.for)]
        /\ \/ ~a.ok /\ Finish("error")
           \/ a.ok /\ left' = Tail(left) /\ UNCHANGED <<status, reading>>
        /\ UNCHANGED <<scenario, call, queues, futures, batches, epc, goal,
                       cmd, work, copying, copier, alive, monitor>>
    BY DEF ReadAnswer, EndsReading
  <1>2. /\ epc = "wait" /\ reading \in Calls /\ status[reading] = "none"
        /\ Len(queues[reading]) = n + Len(left)
        /\ \A j \in 1 .. Len(left) : left[j] = queues[reading][n + j]
    BY <1>1 DEF EngineInv, Reading
  <1>3. /\ left \in Seq(Ranks) /\ answers \in Seq(Seq(Nat)) /\ Len(answers) = Len(call)
        /\ queues \in Seq(Seq(Ranks)) /\ Len(queues) = Len(call) /\ resp \in [Ranks -> Seq(Outs)]
    BY DEF RPCTypeOK
  <1>4. w = left[1] /\ w \in Ranks /\ 1 \in 1 .. Len(left) /\ Len(left) \in Nat \ {0}
    BY <1>1, <1>3
  <1>5. n \in Nat /\ answers[reading] \in Seq(Nat)  BY <1>2, <1>3 DEF Calls
  <1>6. n + 1 \in 1 .. Len(queues[reading]) /\ queues[reading][n + 1] = w
    BY <1>2, <1>4, <1>5
  <1>7. SeesAll(reading)
    <2>1. queues[reading] # << >>  BY <1>2, <1>6
    <2> QED  BY <1>2, <2>1 DEF EngineInv, QueuesSeen
  <1>8. a \in Outs
    <2>1. resp[w] \in Seq(Outs)  BY <1>3, <1>4
    <2> QED  BY <1>1, <2>1
  <1>9. DOMAIN answers = Calls  BY <1>3 DEF Calls
  <1> HIDE DEF a
  <1>10. /\ answers'[reading] = Append(answers[reading], a.for)
         /\ \A c \in Calls : c # reading => answers'[c] = answers[c]
    BY <1>1, <1>2, <1>9
  <1>11. Len(answers') = Len(call)
    <2>1. a.for \in Nat  BY <1>8 DEF Outs
    <2>2. Append(answers[reading], a.for) \in Seq(Nat)  BY <1>5, <2>1
    <2>3. answers' = [answers EXCEPT ![reading] = Append(answers[reading], a.for)]  BY <1>1
    <2>4. reading \in Nat  BY <1>2 DEF Calls
    <2> QED  BY <1>3, <2>2, <2>3, <2>4, SeqUpdate
  <1> QED  BY <1>1, <1>2, <1>4, <1>5, <1>6, <1>7, <1>8, <1>10, <1>11 DEF a

LEMMA EngineRead ==
    ASSUME RPCTypeOK, EngineInv, ReadAnswer
    PROVE  EngineInv'
  <1> DEFINE w == Head(left)
             a == Head(resp[w])
             n == Len(answers[reading])
  <1>1. /\ reading \in Calls /\ status[reading] = "none" /\ epc = "wait" /\ reading # 0
        /\ left # << >> /\ n \in Nat
        /\ n + 1 \in 1 .. Len(queues[reading])
        /\ SeesAll(reading)
        /\ answers'[reading] = Append(answers[reading], a.for)
        /\ \A c \in Calls : c # reading => answers'[c] = answers[c]
        /\ \/ Finish("error")
           \/ left' = Tail(left) /\ UNCHANGED <<status, reading>>
        /\ UNCHANGED <<scenario, call, queues, futures, batches, epc, goal>>
    BY AnswerTaken
  <1> HIDE DEF a
  <1>2. Calls' = Calls  BY <1>1 DEF Calls
  <1>3. answers[reading] \in Seq(Nat) /\ left \in Seq(Ranks) /\ queues[reading] \in Seq(Ranks)
    <2>1. /\ answers \in Seq(Seq(Nat)) /\ Len(answers) = Len(call) /\ left \in Seq(Ranks)
          /\ queues \in Seq(Seq(Ranks)) /\ Len(queues) = Len(call)
      BY DEF RPCTypeOK
    <2>2. reading \in 1 .. Len(call)  BY <1>1 DEF Calls
    <2>3. answers[reading] \in Seq(Nat)  BY <2>1, <2>2
    <2>4. queues[reading] \in Seq(Ranks)  BY <2>1, <2>2
    <2> QED  BY <2>1, <2>3, <2>4
  <1>4. Len(answers'[reading]) = n + 1 /\ answers'[reading] # << >>  BY <1>1, <1>3
  <1>5. QueuesSeen'
    <2>1. SUFFICES ASSUME NEW c \in Calls
                   PROVE  /\ queues[c] = << >> \/ SeesAll(c)
                          /\ Len(answers'[c]) <= Len(queues[c])
      BY <1>1, <1>2, SameRanks DEF QueuesSeen
    <2>2. CASE c = reading  BY <1>1, <1>3, <1>4, <2>2
    <2>3. CASE c # reading  BY <1>1, <2>3 DEF EngineInv, QueuesSeen
    <2> QED  BY <2>2, <2>3
  <1>6. CASE Finish("error")
    <2>1. /\ status'[reading] = "error"
          /\ \A c \in Calls : c # reading => status'[c] = status[c]
          /\ reading' = 0 /\ left' = << >>
      BY <1>1, <1>6, Finished
    <2>2. Reading' /\ JustMade' /\ ReadingFirst'
      BY <1>1, <2>1 DEF Reading, JustMade, ReadingFirst
    <2>3. \A i \in 1 .. Len(futures) : futures[i] \in Calls /\ status[futures[i]] = "none" /\ reading < futures[i]
      BY <1>1 DEF EngineInv, FuturesInOrder, ReadingFirst
    <2>4. FuturesInOrder'
      <3>1. \A i \in 1 .. Len(futures) : futures[i] # reading  BY <1>1, <2>3 DEF Calls
      <3> QED  BY <1>1, <1>2, <2>1, <2>3, <3>1 DEF EngineInv, FuturesInOrder
    <2>5. ReadInOrder'
      BY <1>1, <1>2, <2>1, <2>3 DEF EngineInv, ReadInOrder
    <2>6. Unfinished'
      BY <1>1, <1>2, <2>1 DEF EngineInv, Unfinished
    <2> QED  BY <1>5, <2>2, <2>4, <2>5, <2>6 DEF EngineInv
  <1>7. CASE left' = Tail(left) /\ UNCHANGED <<status, reading>>
    <2>1. /\ Len(left') = Len(left) - 1 /\ Len(left) \in Nat \ {0}
          /\ \A i \in 1 .. Len(left') : i + 1 \in 1 .. Len(left) /\ left'[i] = left[i + 1]
      BY <1>1, <1>3, <1>7, TailFacts
    <2>2. /\ Len(queues[reading]) = n + Len(left)
          /\ \A j \in 1 .. Len(left) : left[j] = queues[reading][n + j]
      BY <1>1 DEF EngineInv, Reading
    <2>3. Len(queues[reading]) = (n + 1) + Len(left')  BY <1>1, <2>1, <2>2
    <2>4. \A j \in 1 .. Len(left') : left'[j] = queues[reading][(n + 1) + j]
      <3>1. SUFFICES ASSUME NEW j \in 1 .. Len(left') PROVE left'[j] = queues[reading][(n + 1) + j]
        OBVIOUS
      <3>2. left'[j] = queues[reading][n + (j + 1)]  BY <2>1, <2>2
      <3>3. ASSUME NEW m \in Nat PROVE (m + 1) + j = m + (j + 1)  BY <2>1
      <3>4. (n + 1) + j = n + (j + 1)  BY <1>1, <3>3
      <3> QED  BY <3>2, <3>4
    <2>5. Reading'
      BY <1>1, <1>2, <1>4, <1>7, <2>3, <2>4 DEF Reading
    <2>6. JustMade' /\ ReadingFirst' /\ FuturesInOrder' /\ Unfinished'
      BY <1>1, <1>2, <1>7 DEF EngineInv, JustMade, ReadingFirst, FuturesInOrder, Unfinished
    <2>7. ReadInOrder'
      <3>1. reading <= reading /\ \A i \in 1 .. Len(futures) : reading < futures[i]
        BY <1>1 DEF EngineInv, ReadingFirst, Calls
      <3> QED  BY <1>1, <1>2, <1>7, <3>1 DEF EngineInv, ReadInOrder
    <2> QED  BY <1>5, <2>5, <2>6, <2>7 DEF EngineInv
  <1> QED  BY <1>1, <1>6, <1>7

LEMMA EngineInvStep ==
    ASSUME RPCTypeOK, EngineInv, [Next]_vars
    PROVE  EngineInv'
  <1>1. CASE AllRead
    <2>1. /\ reading # 0 /\ \E s \in {"value", "error"} : Finish(s)
          /\ UNCHANGED <<scenario, call, answers, queues, futures, batches, epc, goal>>
      BY <1>1 DEF AllRead
    <2> QED  BY <2>1, EngineFinish
  <1>2. CASE ReadGivesUp
    <2>1. /\ reading # 0 /\ Finish("error")
          /\ UNCHANGED <<scenario, call, answers, queues, futures, batches, epc, goal>>
      BY <1>2 DEF ReadGivesUp
    <2> QED  BY <2>1, EngineFinish
  <1>3. CASE MonitorStep \/ \E w \in Ranks : WorkerStep(w) \/ Execute(w, FALSE) \/ CopyOutput(w) \/ CopyRaises(w) \/ Die(w)
    <2>1. UNCHANGED <<scenario, engine>>
      BY <1>3 DEF MonitorStep, WorkerStep, Receive, Execute, CopyOutput, CopyRaises, Die
    <2> QED  BY <2>1, EngineSame
  <1>4. CASE UNCHANGED vars
    <2>1. UNCHANGED <<scenario, engine>>  BY <1>4 DEF vars
    <2> QED  BY <2>1, EngineSame
  <1> QED
    BY <1>1, <1>2, <1>3, <1>4, EngineCall, EngineSend, EngineTake, EngineAsk, EngineStart,
       EngineRead, EngineResume
    DEF Next, EngineStep

-----------------------------------------------------------------------------
(* What is under way between the executor and the workers.                 *)

\* Steps that move nothing.
LEMMA StreamFrame ==
    ASSUME StreamInv, epc' # "send", epc = "send" => status'[Len(call)] # "none",
           \A c \in Calls : status'[c] = "none" => status[c] = "none",
           UNCHANGED <<scenario, call, answers, cmd, work, copying, copier, resp>>,
           \A c \in Calls : \A i \in 1 .. Len(answers[c]) : queues'[c][i] = queues[c][i]
    PROVE  StreamInv'
  <1> USE DEF Calls
  <1>1. StreamsOrdered'  BY DEF StreamInv, StreamsOrdered
  <1>2. \A w \in Ranks, x \in Nat : UnderWay(w, x)' <=> UnderWay(w, x)  BY DEF UnderWay
  <1>3. \A w \in Ranks, x \in Nat : TakenFrom(w, x)' <=> TakenFrom(w, x)  BY DEF TakenFrom
  <1>4. \A x \in Nat : Sent(x) => Sent(x)'  BY DEF Sent
  <1>5. StreamsSent'  BY <1>2, <1>4 DEF StreamInv, StreamsSent
  <1>6. ASSUME NEW w \in Ranks, NEW x PROVE Answers(w, x)' <=> Answers(w, x)
    BY SameRanks
  <1>7. StreamsAnswered'  BY <1>6 DEF StreamInv, StreamsAnswered, Async
  <1>8. TakenOlder'  BY <1>2, <1>3 DEF StreamInv, TakenOlder
  <1>9. NoneSkipped'
    <2>1. SUFFICES ASSUME NEW w \in Ranks, NEW c \in Calls, status'[c] = "none", Answers(w, c)
                   PROVE  \/ UnderWay(w, c)
                          \/ \E x \in Nat : TakenFrom(w, x) /\ c <= x
                          \/ ~copier[w] /\ \A i \in 1 .. Len(resp[w]) : resp[w][i].for < c
      BY <1>2, <1>3, <1>6 DEF NoneSkipped
    <2>2. status[c] = "none"  BY <2>1
    <2>3. Sent(c)
      <3>1. epc = "send" => c # Len(call)  BY <2>1
      <3> QED  BY <3>1 DEF Sent
    <2> QED  BY <2>1, <2>2, <2>3 DEF StreamInv, NoneSkipped
  <1> QED  BY <1>1, <1>5, <1>7, <1>8, <1>9 DEF StreamInv

\* Steps of one worker.
LEMMA StreamWorker ==
    ASSUME StreamInv, NEW w \in Ranks,
           UNCHANGED <<scenario, call, status, answers, queues, epc>>,
           \A v \in Ranks \ {w} : /\ cmd'[v] = cmd[v] /\ work'[v] = work[v]
                                  /\ copying'[v] = copying[v] /\ resp'[v] = resp[v]
                                  /\ copier'[v] = copier[v],
           Ordered(resp'[w], copying'[w], work'[w], cmd'[w]),
           \A x \in Nat : UnderWay(w, x)' => UnderWay(w, x),
           \A x \in Nat : UnderWay(w, x) /\ Answers(w, x) =>
               \/ UnderWay(w, x)'
               \/ ~copier'[w] /\ \A i \in 1 .. Len(resp'[w]) : resp'[w][i].for < x,
           \A x \in Nat : Outputs(resp'[w], copying'[w], x) => Answers(w, x),
           ~Async => copying'[w] = << >>, ~copier'[w] => Async,
           ~copier[w] => ~copier'[w] /\ resp'[w] = resp[w]
    PROVE  StreamInv'
  <1>0. ASSUME NEW v \in Ranks, v # w
        PROVE  /\ cmd'[v] = cmd[v] /\ work'[v] = work[v]
               /\ copying'[v] = copying[v] /\ resp'[v] = resp[v] /\ copier'[v] = copier[v]
    BY <1>0
  <1>1. StreamsOrdered'
    <2>1. SUFFICES ASSUME NEW v \in Ranks PROVE Ordered(resp'[v], copying'[v], work'[v], cmd'[v])
      BY DEF StreamsOrdered
    <2>2. CASE v # w
      <3>1. Ordered(resp[v], copying[v], work[v], cmd[v])  BY DEF StreamInv, StreamsOrdered
      <3> QED  BY <1>0, <2>2, <3>1, Zenon
    <2> QED  BY <2>2
  <1>2. ASSUME NEW v \in Ranks, NEW x \in Nat, v # w PROVE UnderWay(v, x)' <=> UnderWay(v, x)
    BY <1>0, <1>2 DEF UnderWay
  <1>3. \A v \in Ranks, x \in Nat : UnderWay(v, x)' => UnderWay(v, x)
    BY <1>2
  <1>4. \A v \in Ranks, x \in Nat : TakenFrom(v, x)' <=> TakenFrom(v, x)  BY DEF TakenFrom, Calls
  <1>5. \A x \in Nat : Sent(x)' <=> Sent(x)  BY DEF Sent, Calls
  <1>6. StreamsSent'  BY <1>3, <1>5 DEF StreamInv, StreamsSent
  <1>7. ASSUME NEW v \in Ranks, NEW x PROVE Answers(v, x)' <=> Answers(v, x)
    BY SameRanks
  <1>8. StreamsAnswered'
    <2>1. SUFFICES ASSUME NEW v \in Ranks
                   PROVE  /\ \A x \in Nat : Outputs(resp'[v], copying'[v], x) => Answers(v, x)
                          /\ ~Async => copying'[v] = << >>
                          /\ ~copier'[v] => Async
      BY <1>7 DEF StreamsAnswered, Async
    <2>2. CASE v # w
      <3>1. resp'[v] = resp[v] /\ copying'[v] = copying[v] /\ copier'[v] = copier[v]  BY <1>0, <2>2
      <3> QED  BY <3>1 DEF StreamInv, StreamsAnswered
    <2> QED  BY <2>2
  <1>9. TakenOlder'  BY <1>3, <1>4 DEF StreamInv, TakenOlder
  <1>10. NoneSkipped'
    <2>1. SUFFICES ASSUME NEW v \in Ranks, NEW c \in Calls, status[c] = "none", Sent(c), Answers(v, c)
                   PROVE  \/ UnderWay(v, c)'
                          \/ \E x \in Nat : TakenFrom(v, x) /\ c <= x
                          \/ ~copier'[v] /\ \A i \in 1 .. Len(resp'[v]) : resp'[v][i].for < c
      <3>1. \A c \in Calls : c \in Nat  BY DEF Calls
      <3> QED  BY <1>4, <1>5, <1>7, <3>1 DEF NoneSkipped, Calls
    <2>2. c \in Nat  BY DEF Calls
    <2>3. \/ UnderWay(v, c)
          \/ \E x \in Nat : TakenFrom(v, x) /\ c <= x
          \/ ~copier[v] /\ \A i \in 1 .. Len(resp[v]) : resp[v][i].for < c
      BY <2>1 DEF StreamInv, NoneSkipped
    <2>4. CASE v # w
      <3>1. resp'[v] = resp[v] /\ copier'[v] = copier[v]  BY <1>0, <2>4
      <3> QED  BY <1>2, <2>2, <2>3, <2>4, <3>1
    <2>5. CASE v = w
      <3>1. CASE UnderWay(w, c)  BY <2>1, <2>2, <2>5, <3>1
      <3>2. CASE ~copier[w] /\ \A i \in 1 .. Len(resp[w]) : resp[w][i].for < c  BY <2>5, <3>2
      <3> QED  BY <2>3, <2>5, <3>1, <3>2
    <2> QED  BY <2>4, <2>5
  <1> QED  BY <1>1, <1>6, <1>8, <1>9, <1>10 DEF StreamInv

LEMMA StreamCall ==
    ASSUME RPCTypeOK, EngineInv, StreamInv, NEW k \in Kinds, Call(k)
    PROVE  StreamInv'
  <1>1. CASE epc' # "send"
    <2>1. /\ epc = "idle"
          /\ UNCHANGED <<scenario, call, status, answers, queues, cmd, work, copying, copier, resp>>
      BY <1>1, CallFails DEF workers
    <2> QED  BY <1>1, <2>1, StreamFrame
  <1>2. CASE epc' = "send"
    <2> DEFINE n == Len(call)
    <2>1. /\ Len(call') = n + 1 /\ n \in Nat
          /\ \A c \in Calls : /\ call'[c] = call[c] /\ status'[c] = status[c]
                              /\ answers'[c] = answers[c] /\ queues'[c] = queues[c]
          /\ answers'[n + 1] = << >>
          /\ epc = "idle" /\ epc' = "send" /\ scenario' = scenario
          /\ UNCHANGED <<cmd, work, copying, copier, resp>>
      BY <1>2, NewCall DEF workers
    <2>2. Calls' = Calls \cup {n + 1} /\ \A c \in Calls : c \in Nat /\ c < n + 1
      BY <2>1 DEF Calls
    <2>3. StreamsOrdered'  BY <2>1 DEF StreamInv, StreamsOrdered
    <2>4. \A w \in Ranks, x \in Nat : UnderWay(w, x)' <=> UnderWay(w, x)  BY <2>1 DEF UnderWay
    <2>5. \A x \in Nat : Sent(x)' <=> x \in Calls
      BY <2>1, <2>2 DEF Sent
    <2>6. \A x \in Calls : Sent(x)  BY <2>1 DEF Sent
    <2>7. \A x \in Nat : Sent(x) => x \in Calls  BY DEF Sent
    <2>8. \A w \in Ranks, x \in Nat : TakenFrom(w, x)' <=> TakenFrom(w, x)
      <3>1. Len(answers'[n + 1]) = 0  BY <2>1
      <3> QED  BY <2>1, <2>2, <3>1 DEF TakenFrom
    <2>9. StreamsSent'  BY <2>4, <2>5, <2>7 DEF StreamInv, StreamsSent
    <2>10. \A w \in Ranks, x \in Calls : Answers(w, x)' <=> Answers(w, x)  BY <2>1, SameRanks
    <2>11. StreamsAnswered'
      <3>1. SUFFICES ASSUME NEW w \in Ranks
                     PROVE  /\ \A x \in Nat : Outputs(resp[w], copying[w], x) => Answers(w, x)'
                            /\ ~Async => copying[w] = << >>
                            /\ ~copier[w] => Async
        BY <2>1 DEF StreamsAnswered, Async
      <3>2. ASSUME NEW x \in Nat, Outputs(resp[w], copying[w], x) PROVE Answers(w, x)'
        <4>1. UnderWay(w, x)  BY <3>2 DEF UnderWay, Under, Outputs
        <4>2. x \in Calls  BY <2>7, <4>1 DEF StreamInv, StreamsSent
        <4> QED  BY <2>10, <3>2, <4>2 DEF StreamInv, StreamsAnswered
      <3> QED  BY <3>2 DEF StreamInv, StreamsAnswered
    <2>12. TakenOlder'  BY <2>4, <2>8 DEF StreamInv, TakenOlder
    <2>13. NoneSkipped'
      <3>1. SUFFICES ASSUME NEW w \in Ranks, NEW c \in Calls, status[c] = "none", Answers(w, c)
                     PROVE  \/ UnderWay(w, c)
                            \/ \E x \in Nat : TakenFrom(w, x) /\ c <= x
                            \/ ~copier[w] /\ \A i \in 1 .. Len(resp[w]) : resp[w][i].for < c
        <4>1. \A c \in Calls' : c \in Nat  BY <2>1, <2>2
        <4> QED  BY <2>1, <2>4, <2>5, <2>8, <2>10, <4>1 DEF NoneSkipped
      <3> QED  BY <2>1, <2>6, <3>1 DEF StreamInv, NoneSkipped
    <2> QED  BY <2>3, <2>9, <2>11, <2>12, <2>13 DEF StreamInv
  <1> QED  BY <1>1, <1>2

LEMMA StreamSame ==
    ASSUME StreamInv,
           UNCHANGED <<scenario, call, status, answers, queues, epc, cmd, work, copying, copier, resp>>
    PROVE  StreamInv'
  <1>1. StreamsOrdered'  BY DEF StreamInv, StreamsOrdered
  <1>2. \A w \in Ranks, x \in Nat : UnderWay(w, x)' <=> UnderWay(w, x)  BY DEF UnderWay
  <1>3. \A w \in Ranks, x \in Nat : TakenFrom(w, x)' <=> TakenFrom(w, x)  BY DEF TakenFrom, Calls
  <1>4. \A x \in Nat : Sent(x) <=> Sent(x)'  BY DEF Sent, Calls
  <1>5. StreamsSent'  BY <1>2, <1>4 DEF StreamInv, StreamsSent
  <1>6. ASSUME NEW w \in Ranks, NEW x PROVE Answers(w, x)' <=> Answers(w, x)
    BY SameRanks
  <1>7. StreamsAnswered'  BY <1>6 DEF StreamInv, StreamsAnswered, Async
  <1>8. TakenOlder'  BY <1>2, <1>3 DEF StreamInv, TakenOlder
  <1>9. NoneSkipped'  BY <1>2, <1>3, <1>4, <1>6 DEF StreamInv, NoneSkipped, Calls
  <1> QED  BY <1>1, <1>5, <1>7, <1>8, <1>9 DEF StreamInv

\* What a rank has under way, or has given, is older than a call being made.
LEMMA TakenBefore ==
    ASSUME RPCTypeOK, EngineInv, AnswersInOrder, epc = "send",
           NEW w \in Ranks, NEW x \in Nat, TakenFrom(w, x)
    PROVE  x < Len(call)
  <1>1. PICK c \in Calls : \E i \in 1 .. Len(answers[c]) : answers[c][i] = x
    BY DEF TakenFrom
  <1>2. x <= c  BY <1>1 DEF AnswersInOrder
  <1>3. c # Len(call)
    <2>1. answers[Len(call)] = << >>  BY DEF EngineInv, JustMade
    <2> QED  BY <1>1, <2>1
  <1>4. Len(call) \in Nat /\ c \in 1 .. Len(call)  BY DEF RPCTypeOK, Calls
  <1> QED  BY <1>2, <1>3, <1>4

LEMMA StreamSending ==
    ASSUME RPCTypeOK, EngineInv, StreamInv, AnswersInOrder, Send
    PROVE  StreamInv'
  <1>1. CASE epc' # "take"
    <2>1. /\ epc' # "send" /\ status'[Len(call)] # "none"
          /\ \A c \in Calls : status'[c] = "none" => status[c] = "none"
          /\ UNCHANGED <<scenario, call, answers, queues, cmd, work, copying, copier, resp>>
      BY <1>1, SendFails DEF workers
    <2> QED  BY <2>1, StreamFrame
  <1>2. CASE epc' = "take"
    <2> DEFINE n == Len(call)
    <2>1. /\ epc = "send" /\ epc' = "take" /\ UNCHANGED status
          /\ \A w \in Ranks : cmd'[w] = Append(cmd[w], n)
          /\ UNCHANGED <<scenario, call, answers, queues, work, copying, copier, resp>>
      BY <1>2 DEF Send, AfterError, This
    <2>2. n \in Nat \ {0} /\ n \in Calls
      <3>1. n \in Nat  BY DEF RPCTypeOK
      <3> QED  BY <2>1, <3>1 DEF EngineInv, JustMade, Calls
    <2>3. \A x \in Nat : Sent(x) <=> x \in Calls /\ x < n  BY <2>1 DEF Sent
    <2>4. \A x \in Nat : Sent(x)' <=> x \in Calls  BY <2>1 DEF Sent, Calls
    <2>5. ASSUME NEW w \in Ranks
          PROVE  /\ Ordered(resp[w], copying[w], work[w], Append(cmd[w], n))
                 /\ \A x : UnderWay(w, x)' <=> UnderWay(w, x) \/ x = n
      <3>1. /\ resp[w] \in Seq(Outs) /\ copying[w] \in Seq(Outs) /\ work[w] \in Nat
            /\ cmd[w] \in Seq(Nat) /\ n \in Nat
        BY <2>2 DEF RPCTypeOK
      <3>2. Ordered(resp[w], copying[w], work[w], cmd[w])  BY DEF StreamInv, StreamsOrdered
      <3>3. \A x \in Nat : Under(resp[w], copying[w], work[w], cmd[w], x) => x < n
        BY <2>3 DEF StreamInv, StreamsSent, UnderWay
      <3>4. /\ Ordered(resp[w], copying[w], work[w], Append(cmd[w], n))
            /\ \A x : Under(resp[w], copying[w], work[w], Append(cmd[w], n), x)
                      <=> Under(resp[w], copying[w], work[w], cmd[w], x) \/ x = n
        BY <3>1, <3>2, <3>3, StreamSend
      <3>5. \A x : UnderWay(w, x)' <=> Under(resp[w], copying[w], work[w], Append(cmd[w], n), x)
        BY <2>1 DEF UnderWay
      <3> QED  BY <3>4, <3>5 DEF UnderWay
    <2>6. StreamsOrdered'  BY <2>1, <2>5 DEF StreamsOrdered
    <2>7. \A w \in Ranks, x \in Nat : TakenFrom(w, x)' <=> TakenFrom(w, x)
      BY <2>1 DEF TakenFrom, Calls
    <2>8. StreamsSent'
      BY <2>2, <2>3, <2>4, <2>5 DEF StreamInv, StreamsSent
    <2>9. \A w \in Ranks : \A x : Answers(w, x)' <=> Answers(w, x)  BY <2>1, SameRanks
    <2>10. StreamsAnswered'  BY <2>1, <2>9 DEF StreamInv, StreamsAnswered, Async
    <2>11. TakenOlder'
      <3>1. SUFFICES ASSUME NEW w \in Ranks, NEW x \in Nat, NEW y \in Nat,
                            TakenFrom(w, x), UnderWay(w, y) \/ y = n
                     PROVE  x < y
        BY <2>5, <2>7 DEF TakenOlder
      <3>2. CASE UnderWay(w, y)  BY <3>1, <3>2 DEF StreamInv, TakenOlder
      <3>3. CASE y = n  BY <2>1, <3>1, <3>3, TakenBefore
      <3> QED  BY <3>1, <3>2, <3>3
    <2>12. NoneSkipped'
      <3>1. SUFFICES ASSUME NEW w \in Ranks, NEW c \in Calls, status[c] = "none", Answers(w, c)
                     PROVE  \/ UnderWay(w, c) \/ c = n
                            \/ \E x \in Nat : TakenFrom(w, x) /\ c <= x
                            \/ ~copier[w] /\ \A i \in 1 .. Len(resp[w]) : resp[w][i].for < c
        BY <2>1, <2>5, <2>7, <2>9 DEF NoneSkipped, Calls
      <3>2. c # n => Sent(c)  BY <2>2, <2>3 DEF Calls
      <3> QED  BY <2>1, <3>1, <3>2 DEF StreamInv, NoneSkipped
    <2> QED  BY <2>6, <2>8, <2>10, <2>11, <2>12 DEF StreamInv
  <1> QED  BY <1>1, <1>2

\* Steps of the engine that neither send nor take.
LEMMA StreamEngine ==
    ASSUME RPCTypeOK, EngineInv, StreamInv,
           TakeQueues \/ AskResult \/ StartReading \/ AllRead \/ ReadGivesUp \/ Resume \/ ExecutorFailed
    PROVE  StreamInv'
  <1>1. CASE TakeQueues /\ epc' # "dead"
    <2>1. /\ epc = "take" /\ epc' # "send"
          /\ \A c \in Calls : c # Len(call) => queues'[c] = queues[c]
          /\ UNCHANGED <<scenario, call, status, answers, workers>>
      BY <1>1, QueuesTaken DEF TakeQueues
    <2>2. Len(answers[Len(call)]) = 0
      <3>1. answers[Len(call)] = << >>  BY <2>1 DEF EngineInv, JustMade
      <3> QED  BY <3>1
    <2>3. \A c \in Calls : \A i \in 1 .. Len(answers[c]) : queues'[c][i] = queues[c][i]
      BY <2>1, <2>2
    <2> QED  BY <2>1, <2>3, StreamFrame DEF workers
  <1>2. CASE TakeQueues /\ epc' = "dead"
    <2>1. /\ epc = "take" /\ UNCHANGED <<scenario, call, status, answers, queues, workers>>
      BY <1>2 DEF TakeQueues
    <2> QED  BY <1>2, <2>1, StreamFrame DEF workers
  <1>3. CASE AskResult \/ StartReading \/ AllRead \/ ReadGivesUp \/ Resume \/ ExecutorFailed
    <2>1. /\ epc \in {"idle", "wait"} /\ epc' \in {"idle", "wait", "dead"}
          /\ UNCHANGED <<scenario, call, answers, queues, workers>>
      BY <1>3 DEF AskResult, StartReading, AllRead, ReadGivesUp, Resume, AfterError,
                  ExecutorFailed, EngineInv, Reading
    <2>2. \A c \in Calls : status'[c] = "none" => status[c] = "none"
      <3>1. CASE UNCHANGED status  BY <3>1
      <3>2. CASE reading # 0 /\ \E s \in {"value", "error"} : Finish(s)  BY <3>2, Finished
      <3> QED  BY <1>3, <3>1, <3>2 DEF AskResult, StartReading, AllRead, ReadGivesUp, Resume, ExecutorFailed
    <2> QED  BY <2>1, <2>2, StreamFrame DEF workers
  <1> QED  BY <1>1, <1>2, <1>3

\* An answer that is taken.
LEMMA TakenAfter ==
    ASSUME RPCTypeOK, EngineInv, ReadAnswer, NEW v \in Ranks, NEW x \in Nat
    PROVE  TakenFrom(v, x)' <=> TakenFrom(v, x) \/ (v = Head(left) /\ x = Head(resp[Head(left)]).for)
  <1> DEFINE w == Head(left)
             a == Head(resp[w])
             r == reading
             n == Len(answers[r])
             ans == answers'[r]
  <1>1. /\ r \in Calls /\ n \in Nat /\ queues[r][n + 1] = w
        /\ ans = Append(answers[r], a.for) /\ a \in Outs
        /\ \A c \in Calls : c # r => answers'[c] = answers[c]
        /\ UNCHANGED <<call, queues>>
    BY AnswerTaken
  <1>2. a.for \in Nat  BY <1>1 DEF Outs
  <1>3. answers[r] \in Seq(Nat)
    <2>1. answers \in Seq(Seq(Nat)) /\ Len(answers) = Len(call)  BY DEF RPCTypeOK
    <2> QED  BY <1>1, <2>1 DEF Calls
  <1> HIDE DEF a, w
  <1>4. /\ Len(ans) = n + 1 /\ ans[n + 1] = a.for
        /\ \A i \in 1 .. n : ans[i] = answers[r][i]
    BY <1>1, <1>2, <1>3
  <1>5. (\E i \in 1 .. Len(ans) : queues[r][i] = v /\ ans[i] = x)
        <=> \/ \E i \in 1 .. n : queues[r][i] = v /\ answers[r][i] = x
            \/ v = w /\ x = a.for
    <2> HIDE DEF ans, n
    <2>1. 1 .. Len(ans) = (1 .. n) \cup {n + 1}  BY <1>1, <1>4
    <2> QED  BY <1>1, <1>4, <2>1
  <1>6. Calls' = Calls  BY <1>1 DEF Calls
  <1>7. ASSUME NEW c \in Calls, c # r
        PROVE  (\E i \in 1 .. Len(answers'[c]) : queues[c][i] = v /\ answers'[c][i] = x)
               <=> \E i \in 1 .. Len(answers[c]) : queues[c][i] = v /\ answers[c][i] = x
    BY <1>1, <1>7
  <1>8. TakenFrom(v, x)' <=> \E c \in Calls : \E i \in 1 .. Len(answers'[c]) : queues[c][i] = v /\ answers'[c][i] = x
    BY <1>1, <1>6 DEF TakenFrom
  <1> QED  BY <1>1, <1>5, <1>7, <1>8 DEF TakenFrom, a, w

LEMMA StreamRead ==
    ASSUME RPCTypeOK, EngineInv, StreamInv, ReadAnswer
    PROVE  StreamInv'
  <1>0. PICK w, a : w = Head(left) /\ a = Head(resp[w])  OBVIOUS
  <1>1. /\ w \in Ranks /\ resp[w] # << >> /\ a \in Outs /\ epc = "wait"
        /\ resp' = [resp EXCEPT ![w] = Tail(@)]
        /\ UNCHANGED <<scenario, call, queues, epc, cmd, work, copying, copier>>
    BY <1>0, AnswerTaken
  <1>2. a.for \in Nat  BY <1>1 DEF Outs
  <1>3. /\ resp \in [Ranks -> Seq(Outs)] /\ resp[w] \in Seq(Outs) /\ copying[w] \in Seq(Outs)
        /\ work[w] \in Nat /\ cmd[w] \in Seq(Nat)
    BY <1>1 DEF RPCTypeOK
  <1>4. resp'[w] = Tail(resp[w]) /\ \A v \in Ranks : v # w => resp'[v] = resp[v]
    BY <1>1, <1>3
  <1>5. \A v \in Ranks, x \in Nat : TakenFrom(v, x)' <=> TakenFrom(v, x) \/ (v = w /\ x = a.for)
    BY <1>0, TakenAfter
  <1>6. /\ Ordered(resp'[w], copying[w], work[w], cmd[w])
        /\ \A x : Under(resp'[w], copying[w], work[w], cmd[w], x) => UnderWay(w, x) /\ a.for < x
        /\ \A x : UnderWay(w, x) => Under(resp'[w], copying[w], work[w], cmd[w], x) \/ x = a.for
        /\ \A x : Outputs(resp'[w], copying[w], x) => Outputs(resp[w], copying[w], x)
    <2>1. Ordered(resp[w], copying[w], work[w], cmd[w])  BY <1>1 DEF StreamInv, StreamsOrdered
    <2>2. /\ Ordered(Tail(resp[w]), copying[w], work[w], cmd[w])
          /\ \A x : Under(Tail(resp[w]), copying[w], work[w], cmd[w], x)
                    => Under(resp[w], copying[w], work[w], cmd[w], x) /\ a.for < x
          /\ \A x : Under(resp[w], copying[w], work[w], cmd[w], x)
                    => Under(Tail(resp[w]), copying[w], work[w], cmd[w], x) \/ x = a.for
          /\ \A x : Outputs(Tail(resp[w]), copying[w], x) => Outputs(resp[w], copying[w], x)
      BY <1>0, <1>1, <1>3, <2>1, StreamTake
    <2> QED  BY <1>4, <2>2 DEF UnderWay
  <1>7. \A x : UnderWay(w, x)' <=> Under(resp'[w], copying[w], work[w], cmd[w], x)
    BY <1>1 DEF UnderWay
  <1>8. ASSUME NEW v \in Ranks, v # w
        PROVE  \A x : UnderWay(v, x)' <=> UnderWay(v, x)
    BY <1>1, <1>4, <1>8 DEF UnderWay
  <1>9. \A v \in Ranks : \A x : UnderWay(v, x)' => UnderWay(v, x)
    BY <1>6, <1>7, <1>8
  <1>10. StreamsOrdered'
    <2>1. SUFFICES ASSUME NEW v \in Ranks PROVE Ordered(resp'[v], copying[v], work[v], cmd[v])
      BY <1>1 DEF StreamsOrdered
    <2>2. CASE v # w
      <3>1. resp'[v] = resp[v]  BY <1>4, <2>2
      <3>2. Ordered(resp[v], copying[v], work[v], cmd[v])  BY DEF StreamInv, StreamsOrdered
      <3> QED  BY <3>1, <3>2, Zenon
    <2> QED  BY <1>6, <2>2
  <1>11. \A x \in Nat : Sent(x)' <=> Sent(x)  BY <1>1 DEF Sent, Calls
  <1>12. StreamsSent'  BY <1>9, <1>11 DEF StreamInv, StreamsSent
  <1>13. \A v \in Ranks : \A x : Answers(v, x)' <=> Answers(v, x)  BY <1>1, SameRanks
  <1>14. StreamsAnswered'
    <2>1. SUFFICES ASSUME NEW v \in Ranks
                   PROVE  /\ \A x \in Nat : Outputs(resp'[v], copying[v], x) => Answers(v, x)
                          /\ ~Async => copying[v] = << >>
                          /\ ~copier[v] => Async
      BY <1>1, <1>13 DEF StreamsAnswered, Async
    <2>2. \A x : Outputs(resp'[v], copying[v], x) => Outputs(resp[v], copying[v], x)
      BY <1>4, <1>6
    <2> QED  BY <2>2 DEF StreamInv, StreamsAnswered
  <1>15. TakenOlder'
    <2>1. SUFFICES ASSUME NEW v \in Ranks, NEW x \in Nat, NEW y \in Nat,
                          TakenFrom(v, x) \/ (v = w /\ x = a.for), UnderWay(v, y)'
                   PROVE  x < y
      BY <1>5 DEF TakenOlder
    <2>2. CASE TakenFrom(v, x)  BY <1>9, <2>1, <2>2 DEF StreamInv, TakenOlder
    <2>3. CASE v = w /\ x = a.for  BY <1>6, <1>7, <2>1, <2>3
    <2> QED  BY <2>1, <2>2, <2>3
  <1>16. NoneSkipped'
    <2>0. \A c \in Calls : status'[c] = "none" => status[c] = "none"
      <3>1. reading # 0 /\ (Finish("error") \/ UNCHANGED status)  BY DEF ReadAnswer
      <3> QED  BY <3>1, Finished
    <2>1. SUFFICES ASSUME NEW v \in Ranks, NEW c \in Calls, status[c] = "none", Sent(c), Answers(v, c)
                   PROVE  \/ UnderWay(v, c)'
                          \/ \E x \in Nat : TakenFrom(v, x)' /\ c <= x
                          \/ ~copier[v] /\ \A i \in 1 .. Len(resp'[v]) : resp'[v][i].for < c
      <3>1. \A c \in Calls : c \in Nat  BY DEF Calls
      <3> QED  BY <1>1, <1>11, <1>13, <2>0, <3>1 DEF NoneSkipped, Calls
    <2>2. c \in Nat /\ c <= c  BY DEF Calls
    <2>3. \/ UnderWay(v, c)
          \/ \E x \in Nat : TakenFrom(v, x) /\ c <= x
          \/ ~copier[v] /\ \A i \in 1 .. Len(resp[v]) : resp[v][i].for < c
      BY <1>1, <2>1 DEF StreamInv, NoneSkipped
    <2>4. CASE UnderWay(v, c)
      <3>1. UnderWay(v, c)' \/ (v = w /\ c = a.for)  BY <1>6, <1>7, <1>8, <2>4
      <3>2. CASE v = w /\ c = a.for
        <4>1. TakenFrom(v, a.for)'  BY <1>2, <1>5, <3>2
        <4> QED  BY <1>2, <2>2, <3>2, <4>1
      <3> QED  BY <3>1, <3>2
    <2>5. CASE \E x \in Nat : TakenFrom(v, x) /\ c <= x
      BY <1>5, <2>5
    <2>6. CASE ~copier[v] /\ \A i \in 1 .. Len(resp[v]) : resp[v][i].for < c
      <3>1. \A i \in 1 .. Len(resp'[v]) : \E j \in 1 .. Len(resp[v]) : resp'[v][i] = resp[v][j]
        <4>1. CASE v = w
          <5>1. \A i \in 1 .. Len(Tail(resp[w])) : i + 1 \in 1 .. Len(resp[w]) /\ Tail(resp[w])[i] = resp[w][i + 1]
            BY <1>1, <1>3, TailFacts, Zenon
          <5> QED  BY <1>4, <4>1, <5>1
        <4> QED  BY <1>4, <4>1
      <3> QED  BY <2>6, <3>1
    <2> QED  BY <2>3, <2>4, <2>5, <2>6
  <1> QED  BY <1>10, <1>12, <1>14, <1>15, <1>16 DEF StreamInv

\* The queues of one worker, and what it is about to execute.
LEMMA WorkerFacts ==
    ASSUME RPCTypeOK, StreamInv, NEW w \in Ranks
    PROVE  /\ resp[w] \in Seq(Outs) /\ copying[w] \in Seq(Outs) /\ work[w] \in Nat
           /\ cmd[w] \in Seq(Nat) /\ Async \in BOOLEAN
           /\ Ordered(resp[w], copying[w], work[w], cmd[w])
           /\ \A x \in Nat : Outputs(resp[w], copying[w], x) => Answers(w, x)
           /\ ~Async => copying[w] = << >>
           /\ ~copier[w] => Async
           /\ cmd[w] # << >> => Head(cmd[w]) # 0
  <1>1. /\ resp[w] \in Seq(Outs) /\ copying[w] \in Seq(Outs) /\ work[w] \in Nat
        /\ cmd[w] \in Seq(Nat)
    BY DEF RPCTypeOK
  <1>2. Async \in BOOLEAN  BY RPCAssumption DEF RPCTypeOK, Async
  <1>3. ASSUME cmd[w] # << >> PROVE Head(cmd[w]) # 0
    <2>1. Head(cmd[w]) = cmd[w][1] /\ cmd[w][1] \in Nat /\ 1 \in 1 .. Len(cmd[w])  BY <1>1, <1>3
    <2>2. UnderWay(w, cmd[w][1])  BY <2>1 DEF UnderWay, Under
    <2>3. cmd[w][1] \in Calls  BY <2>1, <2>2 DEF StreamInv, StreamsSent, Sent
    <2> QED  BY <2>1, <2>3 DEF Calls
  <1> QED  BY <1>1, <1>2, <1>3 DEF StreamInv, StreamsOrdered, StreamsAnswered

LEMMA StreamReceives ==
    ASSUME RPCTypeOK, StreamInv, NEW w \in Ranks, Receive(w)
    PROVE  /\ StreamInv'
           /\ \A v \in Ranks : \A x \in Nat : UnderWay(v, x)' <=> UnderWay(v, x)
  <1>1. /\ work[w] = 0 /\ cmd[w] # << >>
        /\ work' = [work EXCEPT ![w] = Head(cmd[w])] /\ cmd' = [cmd EXCEPT ![w] = Tail(@)]
        /\ UNCHANGED <<scenario, call, status, answers, queues, epc, copying, copier, resp>>
    BY DEF Receive, engine
  <1>2. /\ resp[w] \in Seq(Outs) /\ copying[w] \in Seq(Outs) /\ work[w] \in Nat
        /\ cmd[w] \in Seq(Nat)
        /\ Ordered(resp[w], copying[w], work[w], cmd[w])
        /\ \A x \in Nat : Outputs(resp[w], copying[w], x) => Answers(w, x)
        /\ ~Async => copying[w] = << >>
        /\ ~copier[w] => Async
        /\ Head(cmd[w]) # 0
    BY <1>1, WorkerFacts
  <1>3. /\ work'[w] = Head(cmd[w]) /\ cmd'[w] = Tail(cmd[w])
        /\ \A v \in Ranks : v # w => work'[v] = work[v] /\ cmd'[v] = cmd[v]
    BY <1>1 DEF RPCTypeOK
  <1>4. /\ Ordered(resp[w], copying[w], work'[w], cmd'[w])
        /\ \A x : Under(resp[w], copying[w], work'[w], cmd'[w], x)
                  <=> Under(resp[w], copying[w], work[w], cmd[w], x)
    <2>1. Ordered(resp[w], copying[w], 0, cmd[w])  BY <1>1, <1>2
    <2>2. /\ Ordered(resp[w], copying[w], Head(cmd[w]), Tail(cmd[w]))
          /\ \A x : Under(resp[w], copying[w], Head(cmd[w]), Tail(cmd[w]), x)
                    <=> Under(resp[w], copying[w], 0, cmd[w], x)
      BY <1>1, <1>2, <2>1, StreamReceive, Zenon
    <2> QED  BY <1>1, <1>3, <2>2
  <1>5. \A x \in Nat : UnderWay(w, x)' <=> UnderWay(w, x)
    BY <1>1, <1>4 DEF UnderWay
  <1>6. StreamInv'
    BY <1>1, <1>2, <1>3, <1>4, <1>5, StreamWorker
  <1>7. ASSUME NEW v \in Ranks, v # w PROVE \A x : UnderWay(v, x)' <=> UnderWay(v, x)
    BY <1>1, <1>3, <1>7 DEF UnderWay
  <1> QED  BY <1>5, <1>6, <1>7

LEMMA StreamExecutes ==
    ASSUME RPCTypeOK, StreamInv, NEW w \in Ranks, NEW ok \in BOOLEAN, Execute(w, ok)
    PROVE  /\ StreamInv'
           /\ \A v \in Ranks : \A x \in Nat : UnderWay(v, x)' => UnderWay(v, x)
  <1>0. PICK k : k = work[w]  OBVIOUS
  <1> DEFINE out == [for |-> k, ok |-> ok]
  <1>1. /\ k # 0 /\ work' = [work EXCEPT ![w] = 0]
        /\ \/ ~Answers(w, k) /\ UNCHANGED <<copying, resp>>
           \/ Answers(w, k) /\ Async /\ copying' = [copying EXCEPT ![w] = Append(@, out)] /\ resp' = resp
           \/ Answers(w, k) /\ ~Async /\ resp' = [resp EXCEPT ![w] = Append(@, out)] /\ copying' = copying
        /\ UNCHANGED <<scenario, call, status, answers, queues, epc, cmd, copier>>
    BY <1>0, Zenon DEF Execute, engine
  <1>2. /\ resp[w] \in Seq(Outs) /\ copying[w] \in Seq(Outs) /\ k \in Nat
        /\ cmd[w] \in Seq(Nat)
        /\ Ordered(resp[w], copying[w], k, cmd[w])
        /\ \A x \in Nat : Outputs(resp[w], copying[w], x) => Answers(w, x)
        /\ ~Async => copying[w] = << >>
        /\ ~copier[w] => Async
    BY <1>0, <1>1, WorkerFacts
  <1>3. work'[w] = 0 /\ \A v \in Ranks : v # w => work'[v] = work[v]
    BY <1>1 DEF RPCTypeOK
  <1>4. copying \in [Ranks -> Seq(Outs)] /\ resp \in [Ranks -> Seq(Outs)]  BY DEF RPCTypeOK
  <1> HIDE DEF out
  <1>5. \A v \in Ranks : v # w => copying'[v] = copying[v] /\ resp'[v] = resp[v]
    BY <1>1, <1>4
  <1>6. /\ Ordered(resp'[w], copying'[w], 0, cmd[w])
        /\ \A x : Under(resp'[w], copying'[w], 0, cmd[w], x) => Under(resp[w], copying[w], k, cmd[w], x)
        /\ \A x : Under(resp[w], copying[w], k, cmd[w], x) /\ Answers(w, x)
                  => Under(resp'[w], copying'[w], 0, cmd[w], x)
        /\ \A x \in Nat : Outputs(resp'[w], copying'[w], x) => Answers(w, x)
        /\ ~Async => copying'[w] = << >>
        /\ ~copier[w] => resp'[w] = resp[w]
    <2>1. CASE ~Answers(w, k) /\ UNCHANGED <<copying, resp>>
      <3>1. /\ Ordered(resp[w], copying[w], 0, cmd[w])
            /\ \A x : Under(resp[w], copying[w], 0, cmd[w], x) => Under(resp[w], copying[w], k, cmd[w], x)
            /\ \A x : Under(resp[w], copying[w], k, cmd[w], x)
                      => Under(resp[w], copying[w], 0, cmd[w], x) \/ x = k
        BY <1>1, <1>2, StreamDrop
      <3> QED  BY <1>2, <2>1, <3>1
    <2>2. CASE Answers(w, k) /\ Async /\ copying' = [copying EXCEPT ![w] = Append(@, out)] /\ resp' = resp
      <3>1. copying'[w] = Append(copying[w], out)  BY <1>4, <2>2
      <3>2. /\ Ordered(resp[w], Append(copying[w], out), 0, cmd[w])
            /\ \A x : Under(resp[w], Append(copying[w], out), 0, cmd[w], x)
                      <=> Under(resp[w], copying[w], k, cmd[w], x)
            /\ \A x : Outputs(resp[w], Append(copying[w], out), x)
                      <=> Outputs(resp[w], copying[w], x) \/ x = k
        BY <1>1, <1>2, StreamHand DEF out
      <3> QED  BY <1>2, <2>2, <3>1, <3>2
    <2>3. CASE Answers(w, k) /\ ~Async /\ resp' = [resp EXCEPT ![w] = Append(@, out)] /\ copying' = copying
      <3>1. resp'[w] = Append(resp[w], out)  BY <1>4, <2>3
      <3>2. copying[w] = << >>  BY <1>2, <2>3
      <3>3. Ordered(resp[w], << >>, k, cmd[w])  BY <1>2, <3>2, Zenon
      <3>4. /\ Ordered(Append(resp[w], out), << >>, 0, cmd[w])
            /\ \A x : Under(Append(resp[w], out), << >>, 0, cmd[w], x)
                      <=> Under(resp[w], << >>, k, cmd[w], x)
            /\ \A x : Outputs(Append(resp[w], out), << >>, x)
                      <=> Outputs(resp[w], << >>, x) \/ x = k
        BY <1>1, <1>2, <3>3, StreamAnswer DEF out
      <3> QED  BY <1>2, <2>3, <3>1, <3>2, <3>4
    <2> QED  BY <1>1, <2>1, <2>2, <2>3
  <1>7. /\ \A x \in Nat : UnderWay(w, x)' => UnderWay(w, x)
        /\ \A x \in Nat : UnderWay(w, x) /\ Answers(w, x) => UnderWay(w, x)'
    BY <1>0, <1>1, <1>3, <1>6 DEF UnderWay
  <1>8. StreamInv'
    <2>1. /\ \A v \in Ranks \ {w} : /\ cmd'[v] = cmd[v] /\ work'[v] = work[v]
                                    /\ copying'[v] = copying[v] /\ resp'[v] = resp[v]
                                    /\ copier'[v] = copier[v]
          /\ Ordered(resp'[w], copying'[w], work'[w], cmd'[w])
      BY <1>1, <1>3, <1>5, <1>6
    <2> QED  BY <1>1, <1>2, <1>6, <1>7, <2>1, StreamWorker
  <1>9. ASSUME NEW v \in Ranks, v # w PROVE \A x : UnderWay(v, x)' <=> UnderWay(v, x)
    BY <1>1, <1>3, <1>5, <1>9 DEF UnderWay
  <1> QED  BY <1>7, <1>8, <1>9

LEMMA StreamCopies ==
    ASSUME RPCTypeOK, StreamInv, NEW w \in Ranks, CopyOutput(w)
    PROVE  /\ StreamInv'
           /\ \A v \in Ranks : \A x \in Nat : UnderWay(v, x)' <=> UnderWay(v, x)
  <1>1. /\ copier[w] /\ copying[w] # << >>
        /\ resp' = [resp EXCEPT ![w] = Append(@, Head(copying[w]))]
        /\ copying' = [copying EXCEPT ![w] = Tail(@)]
        /\ UNCHANGED <<scenario, call, status, answers, queues, epc, cmd, work, copier>>
    BY DEF CopyOutput, engine
  <1>2. /\ resp[w] \in Seq(Outs) /\ copying[w] \in Seq(Outs) /\ work[w] \in Nat
        /\ cmd[w] \in Seq(Nat)
        /\ Ordered(resp[w], copying[w], work[w], cmd[w])
        /\ \A x \in Nat : Outputs(resp[w], copying[w], x) => Answers(w, x)
        /\ ~Async => copying[w] = << >>
    BY <1>1, WorkerFacts
  <1>3. copying \in [Ranks -> Seq(Outs)] /\ resp \in [Ranks -> Seq(Outs)]  BY DEF RPCTypeOK
  <1>4. /\ resp'[w] = Append(resp[w], Head(copying[w])) /\ copying'[w] = Tail(copying[w])
        /\ \A v \in Ranks : v # w => resp'[v] = resp[v] /\ copying'[v] = copying[v]
    BY <1>1, <1>3
  <1>5. /\ Ordered(resp'[w], copying'[w], work[w], cmd[w])
        /\ \A x : Under(resp'[w], copying'[w], work[w], cmd[w], x)
                  <=> Under(resp[w], copying[w], work[w], cmd[w], x)
        /\ \A x : Outputs(resp'[w], copying'[w], x) <=> Outputs(resp[w], copying[w], x)
    <2>1. /\ Ordered(Append(resp[w], Head(copying[w])), Tail(copying[w]), work[w], cmd[w])
          /\ \A x : Under(Append(resp[w], Head(copying[w])), Tail(copying[w]), work[w], cmd[w], x)
                    <=> Under(resp[w], copying[w], work[w], cmd[w], x)
          /\ \A x : Outputs(Append(resp[w], Head(copying[w])), Tail(copying[w]), x)
                    <=> Outputs(resp[w], copying[w], x)
      BY <1>1, <1>2, StreamCopy, Zenon
    <2>2. resp'[w] = Append(resp[w], Head(copying[w])) /\ copying'[w] = Tail(copying[w])
      BY <1>4
    <2> QED  BY <2>1, <2>2, Zenon
  <1>6. \A x \in Nat : UnderWay(w, x)' <=> UnderWay(w, x)
    BY <1>1, <1>5 DEF UnderWay
  <1>7. Async  BY <1>1, <1>2
  <1>8. StreamInv'
    BY <1>1, <1>2, <1>4, <1>5, <1>6, <1>7, StreamWorker
  <1>9. ASSUME NEW v \in Ranks, v # w PROVE \A x : UnderWay(v, x)' <=> UnderWay(v, x)
    BY <1>1, <1>4, <1>9 DEF UnderWay
  <1> QED  BY <1>6, <1>8, <1>9

LEMMA StreamLoses ==
    ASSUME RPCTypeOK, StreamInv, NEW w \in Ranks, CopyRaises(w)
    PROVE  StreamInv'
  <1>1. /\ copier[w] /\ copying[w] # << >>
        /\ copier' = [copier EXCEPT ![w] = FALSE]
        /\ copying' = [copying EXCEPT ![w] = Tail(@)]
        /\ UNCHANGED <<scenario, call, status, answers, queues, epc, cmd, work, resp>>
    BY DEF CopyRaises, engine
  <1>2. /\ resp[w] \in Seq(Outs) /\ copying[w] \in Seq(Outs) /\ work[w] \in Nat
        /\ cmd[w] \in Seq(Nat)
        /\ Ordered(resp[w], copying[w], work[w], cmd[w])
        /\ \A x \in Nat : Outputs(resp[w], copying[w], x) => Answers(w, x)
        /\ ~Async => copying[w] = << >>
        /\ Async \in BOOLEAN
    BY <1>1, WorkerFacts
  <1>3. copying \in [Ranks -> Seq(Outs)] /\ copier \in [Ranks -> BOOLEAN]  BY DEF RPCTypeOK
  <1>4. /\ copying'[w] = Tail(copying[w])
        /\ \A v \in Ranks : v # w => copying'[v] = copying[v]
    BY <1>1, <1>3
  <1>5. /\ ~copier'[w]
        /\ \A v \in Ranks : v # w => copier'[v] = copier[v]
    BY <1>1, <1>3
  <1>6. /\ Ordered(resp[w], copying'[w], work[w], cmd[w])
        /\ \A x : Under(resp[w], copying'[w], work[w], cmd[w], x)
                  => Under(resp[w], copying[w], work[w], cmd[w], x)
        /\ \A x : Under(resp[w], copying[w], work[w], cmd[w], x)
                  => Under(resp[w], copying'[w], work[w], cmd[w], x) \/ x = Head(copying[w]).for
        /\ \A i \in 1 .. Len(resp[w]) : resp[w][i].for < Head(copying[w]).for
        /\ \A x : Outputs(resp[w], copying'[w], x) => Outputs(resp[w], copying[w], x)
    <2>1. /\ Ordered(resp[w], Tail(copying[w]), work[w], cmd[w])
          /\ \A x : Under(resp[w], Tail(copying[w]), work[w], cmd[w], x)
                    => Under(resp[w], copying[w], work[w], cmd[w], x)
          /\ \A x : Under(resp[w], copying[w], work[w], cmd[w], x)
                    => Under(resp[w], Tail(copying[w]), work[w], cmd[w], x) \/ x = Head(copying[w]).for
          /\ \A i \in 1 .. Len(resp[w]) : resp[w][i].for < Head(copying[w]).for
          /\ \A x : Outputs(resp[w], Tail(copying[w]), x) => Outputs(resp[w], copying[w], x)
      BY <1>1, <1>2, StreamLose, Zenon
    <2>2. copying'[w] = Tail(copying[w])  BY <1>4
    <2> QED  BY <2>1, <2>2, Zenon
  <1>7. \A x \in Nat : UnderWay(w, x)' => UnderWay(w, x)
    BY <1>1, <1>6 DEF UnderWay
  <1>8. \A x \in Nat : UnderWay(w, x) =>
            UnderWay(w, x)' \/ \A i \in 1 .. Len(resp'[w]) : resp'[w][i].for < x
    BY <1>1, <1>6 DEF UnderWay
  <1>9. Async  BY <1>1, <1>2
  <1>10. \A v \in Ranks \ {w} : /\ cmd'[v] = cmd[v] /\ work'[v] = work[v]
                                /\ copying'[v] = copying[v] /\ resp'[v] = resp[v]
                                /\ copier'[v] = copier[v]
    BY <1>1, <1>4, <1>5
  <1> QED  BY <1>1, <1>2, <1>5, <1>6, <1>7, <1>8, <1>9, <1>10, StreamWorker

LEMMA StreamInvStep ==
    ASSUME RPCTypeOK, EngineInv, StreamInv, AnswersInOrder, [Next]_vars
    PROVE  StreamInv'
  <1>1. CASE MonitorStep \/ (\E w \in Ranks : Die(w)) \/ UNCHANGED vars
    <2>1. UNCHANGED <<scenario, call, status, answers, queues, epc, cmd, work, copying, copier, resp>>
      BY <1>1 DEF MonitorStep, Die, vars, engine, workers
    <2> QED  BY <2>1, StreamSame
  <1>2. ASSUME NEW w \in Ranks, WorkerStep(w) \/ Execute(w, FALSE) \/ CopyOutput(w) \/ CopyRaises(w)
        PROVE  StreamInv'
    BY <1>2, StreamReceives, StreamExecutes, StreamCopies, StreamLoses DEF WorkerStep
  <1>3. CASE (\E k \in Kinds : Call(k)) \/ Send \/ ReadAnswer
    BY <1>3, StreamCall, StreamSending, StreamRead
  <1>4. CASE TakeQueues \/ AskResult \/ StartReading \/ AllRead \/ ReadGivesUp \/ Resume \/ ExecutorFailed
    BY <1>4, StreamEngine
  <1> QED  BY <1>1, <1>2, <1>3, <1>4 DEF Next, EngineStep

-----------------------------------------------------------------------------
(* No call is given the answer to a later one, nor one out of order.       *)

\* The answer a call takes: of a rank that answers it, and not of a later call.
LEMMA HeadNotLater ==
    ASSUME RPCTypeOK, EngineInv, StreamInv, AnswersInOrder, ReadAnswer,
           NEW w, NEW a, w = Head(left), a = Head(resp[w])
    PROVE  /\ Answers(w, reading) /\ UnderWay(w, a.for) /\ a.for \in Nat /\ Answers(w, a.for)
           /\ a.for <= reading
           /\ copier[w] => UnderWay(w, reading)
  <1> DEFINE r == reading
             n == Len(answers[r])
  <1>1. /\ r \in Calls /\ epc = "wait" /\ w \in Ranks /\ resp[w] # << >> /\ a \in Outs
        /\ n \in Nat /\ n + 1 \in 1 .. Len(queues[r]) /\ queues[r][n + 1] = w
        /\ queues[r] = AnsweredBy(call[r])
    BY AnswerTaken DEF SeesAll
  <1>2. a.for \in Nat /\ r \in Nat  BY <1>1 DEF Outs, Calls
  <1>3. Answers(w, r)  BY <1>1, AnswersMeans
  <1>4. /\ resp[w] \in Seq(Outs) /\ copying[w] \in Seq(Outs) /\ work[w] \in Nat
        /\ cmd[w] \in Seq(Nat)
        /\ Ordered(resp[w], copying[w], work[w], cmd[w])
        /\ \A x \in Nat : Outputs(resp[w], copying[w], x) => Answers(w, x)
    BY <1>1, WorkerFacts
  <1>5. /\ \A x : UnderWay(w, x) => a.for < x \/ x = a.for
        /\ UnderWay(w, a.for) /\ Outputs(resp[w], copying[w], a.for)
    <2>1. /\ \A x : Under(Tail(resp[w]), copying[w], work[w], cmd[w], x) => a.for < x
          /\ \A x : Under(resp[w], copying[w], work[w], cmd[w], x)
                    => Under(Tail(resp[w]), copying[w], work[w], cmd[w], x) \/ x = a.for
          /\ Under(resp[w], copying[w], work[w], cmd[w], a.for)
          /\ Outputs(resp[w], copying[w], a.for)
      BY <1>1, <1>4, StreamTake
    <2> QED  BY <2>1 DEF UnderWay
  <1>6. \/ UnderWay(w, r)
        \/ \E x \in Nat : TakenFrom(w, x) /\ r <= x
        \/ ~copier[w] /\ \A i \in 1 .. Len(resp[w]) : resp[w][i].for < r
    <2>1. Sent(r)  BY <1>1 DEF Sent
    <2>2. status[r] = "none"  BY <1>1 DEF EngineInv, Reading, Calls
    <2> QED  BY <1>1, <1>3, <2>1, <2>2 DEF StreamInv, NoneSkipped
  <1>7. ASSUME NEW x \in Nat, TakenFrom(w, x), r <= x PROVE FALSE
    <2>1. PICK d \in Calls : \E i \in 1 .. Len(answers[d]) : queues[d][i] = w /\ answers[d][i] = x
      BY <1>7 DEF TakenFrom
    <2>2. PICK i \in 1 .. Len(answers[d]) : queues[d][i] = w /\ answers[d][i] = x
      BY <2>1
    <2>3. x <= d  BY <2>2 DEF AnswersInOrder
    <2>4. d <= r
      <3>1. r # 0  BY <1>1 DEF Calls
      <3>2. answers[d] # << >>  BY <2>2
      <3> QED  BY <3>1, <3>2 DEF EngineInv, ReadInOrder
    <2>5. d = r  BY <1>2, <1>7, <2>3, <2>4 DEF Calls
    <2>6. i \in 1 .. Len(queues[r]) /\ i # n + 1  BY <1>1, <2>2, <2>5
    <2> QED  BY <1>1, <2>2, <2>5, <2>6, AnsweredFacts
  <1>8. a.for <= r
    <2>1. CASE UnderWay(w, r)  BY <1>2, <1>5, <2>1
    <2>2. CASE \A i \in 1 .. Len(resp[w]) : resp[w][i].for < r
      <3>1. 1 \in 1 .. Len(resp[w]) /\ a = resp[w][1]  BY <1>1, <1>4
      <3> QED  BY <1>2, <2>2, <3>1
    <2> QED  BY <1>6, <1>7, <2>1, <2>2
  <1> QED  BY <1>2, <1>3, <1>4, <1>5, <1>6, <1>7, <1>8

LEMMA OrderFrame ==
    ASSUME AnswersInOrder, UNCHANGED <<call, answers>>,
           \A c \in Calls : \A i \in 1 .. Len(answers[c]) : queues'[c][i] = queues[c][i]
    PROVE  AnswersInOrder'
  <1>1. SUFFICES ASSUME NEW c \in Calls, NEW i \in 1 .. Len(answers[c])
                 PROVE  /\ answers[c][i] <= c
                        /\ \A d \in 1 .. c - 1 : \A j \in 1 .. Len(answers[d]) :
                               queues'[d][j] = queues'[c][i] => answers[d][j] < answers[c][i]
    BY DEF AnswersInOrder, Calls
  <1>2. \A d \in 1 .. c - 1 : d \in Calls  BY DEF Calls
  <1> QED  BY <1>2 DEF AnswersInOrder

LEMMA OrderRead ==
    ASSUME RPCTypeOK, EngineInv, StreamInv, AnswersInOrder, ReadAnswer
    PROVE  AnswersInOrder'
  <1> DEFINE r == reading
             n == Len(answers[r])
             ans == answers'[r]
  <1>0. PICK w, a : w = Head(left) /\ a = Head(resp[w])  OBVIOUS
  <1>1. /\ r \in Calls /\ r # 0 /\ n \in Nat /\ w \in Ranks /\ queues[r][n + 1] = w
        /\ ans = Append(answers[r], a.for)
        /\ \A c \in Calls : c # r => answers'[c] = answers[c]
        /\ UNCHANGED <<call, queues>>
    BY <1>0, AnswerTaken
  <1>2. a.for <= r /\ a.for \in Nat /\ UnderWay(w, a.for)  BY <1>0, HeadNotLater
  <1>3. answers[r] \in Seq(Nat)
    <2>1. answers \in Seq(Seq(Nat)) /\ Len(answers) = Len(call)  BY DEF RPCTypeOK
    <2> QED  BY <1>1, <2>1 DEF Calls
  <1>4. /\ Len(ans) = n + 1 /\ ans[n + 1] = a.for
        /\ \A i \in 1 .. n : ans[i] = answers[r][i]
    BY <1>1, <1>2, <1>3
  <1> HIDE DEF ans, n
  <1>5. SUFFICES ASSUME NEW c \in Calls, NEW i \in 1 .. Len(answers'[c])
                 PROVE  /\ answers'[c][i] <= c
                        /\ \A d \in 1 .. c - 1 : \A j \in 1 .. Len(answers'[d]) :
                               queues[d][j] = queues[c][i] => answers'[d][j] < answers'[c][i]
    BY <1>1 DEF AnswersInOrder, Calls
  <1>6. CASE c # r
    <2>1. answers'[c] = answers[c] /\ answers[c] # << >>  BY <1>1, <1>5, <1>6
    <2>2. c <= r  BY <1>1, <2>1 DEF EngineInv, ReadInOrder
    <2>3. \A d \in 1 .. c - 1 : d \in Calls /\ d # r  BY <1>1, <2>2 DEF Calls
    <2> QED  BY <1>1, <2>1, <2>3 DEF AnswersInOrder
  <1>7. CASE c = r
    <2>1. \A d \in 1 .. r - 1 : d \in Calls /\ d # r  BY <1>1 DEF Calls
    <2>2. CASE i \in 1 .. n
      <3>1. i \in 1 .. Len(answers[r])  BY <2>2 DEF n
      <3>2. answers'[r][i] = answers[r][i]  BY <1>4, <2>2 DEF ans
      <3> QED  BY <1>1, <1>7, <2>1, <3>1, <3>2 DEF AnswersInOrder
    <2>3. CASE i = n + 1
      <3>1. answers'[c][i] = a.for /\ queues[c][i] = w  BY <1>1, <1>4, <1>7, <2>3 DEF ans
      <3>2. ASSUME NEW d \in 1 .. r - 1, NEW j \in 1 .. Len(answers[d]), queues[d][j] = w
            PROVE  answers[d][j] < a.for
        <4>1. answers[d][j] \in Nat
          <5>1. answers \in Seq(Seq(Nat)) /\ Len(answers) = Len(call)  BY DEF RPCTypeOK
          <5>2. d \in 1 .. Len(answers)  BY <2>1, <5>1 DEF Calls
          <5>3. answers[d] \in Seq(Nat)  BY <5>1, <5>2
          <5> QED  BY <5>3
        <4>2. TakenFrom(w, answers[d][j])  BY <2>1, <3>2 DEF TakenFrom
        <4> QED  BY <1>1, <1>2, <4>1, <4>2 DEF StreamInv, TakenOlder
      <3> QED  BY <1>1, <1>2, <1>7, <2>1, <3>1, <3>2
    <2>4. i \in 1 .. n \/ i = n + 1  BY <1>1, <1>4, <1>7 DEF ans
    <2> QED  BY <2>2, <2>3, <2>4
  <1> QED  BY <1>6, <1>7

LEMMA OrderStep ==
    ASSUME RPCTypeOK, EngineInv, StreamInv, AnswersInOrder, [Next]_vars
    PROVE  AnswersInOrder'
  <1>1. CASE ReadAnswer  BY <1>1, OrderRead
  <1>2. ASSUME NEW k \in Kinds, Call(k), epc' = "send" PROVE AnswersInOrder'
    <2> DEFINE n == Len(call)
    <2>1. /\ Len(call') = n + 1 /\ n \in Nat
          /\ \A c \in Calls : answers'[c] = answers[c] /\ queues'[c] = queues[c]
          /\ answers'[n + 1] = << >>
      BY <1>2, NewCall
    <2>2. Calls' = Calls \cup {n + 1} /\ Len(answers'[n + 1]) = 0  BY <2>1 DEF Calls
    <2>3. \A c \in Calls : \A d \in 1 .. c - 1 : d \in Calls  BY DEF Calls
    <2>4. SUFFICES ASSUME NEW c \in Calls, NEW i \in 1 .. Len(answers[c])
                   PROVE  /\ answers[c][i] <= c
                          /\ \A d \in 1 .. c - 1 : \A j \in 1 .. Len(answers[d]) :
                                 queues[d][j] = queues[c][i] => answers[d][j] < answers[c][i]
      <3>1. ASSUME NEW c \in Calls', NEW i \in 1 .. Len(answers'[c]) PROVE c \in Calls
        BY <2>2, <3>1
      <3> QED  BY <2>1, <2>3, <3>1 DEF AnswersInOrder
    <2> QED  BY DEF AnswersInOrder
  <1>3. CASE TakeQueues /\ epc' # "dead"
    <2>1. /\ epc = "take" /\ UNCHANGED <<call, answers>>
          /\ \A c \in Calls : c # Len(call) => queues'[c] = queues[c]
      BY <1>3, QueuesTaken
    <2>2. Len(answers[Len(call)]) = 0
      <3>1. answers[Len(call)] = << >>  BY <2>1 DEF EngineInv, JustMade
      <3> QED  BY <3>1
    <2> QED  BY <2>1, <2>2, OrderFrame
  <1>4. CASE UNCHANGED <<call, answers, queues>>
    BY <1>4, OrderFrame
  <1>5. CASE (\E k \in Kinds : Call(k) /\ epc' # "send") \/ (TakeQueues /\ epc' = "dead")
    BY <1>4, <1>5 DEF Call, TakeQueues
  <1>6. CASE \/ Send \/ AskResult \/ StartReading \/ AllRead \/ ReadGivesUp \/ Resume
             \/ ExecutorFailed
    BY <1>4, <1>6 DEF Send, AskResult, StartReading, AllRead, ReadGivesUp, Resume, ExecutorFailed
  <1>7. CASE \/ MonitorStep \/ UNCHANGED vars
             \/ \E w \in Ranks : WorkerStep(w) \/ Execute(w, FALSE) \/ CopyOutput(w) \/ CopyRaises(w) \/ Die(w)
    BY <1>4, <1>7 DEF MonitorStep, vars, engine, WorkerStep, Receive, Execute, CopyOutput,
                      CopyRaises, Die
  <1> QED  BY <1>1, <1>2, <1>3, <1>5, <1>6, <1>7 DEF Next, EngineStep

-----------------------------------------------------------------------------
(* A rank in step answers the call that is read.                           *)

LEMMA HeadIsOwn ==
    ASSUME RPCTypeOK, EngineInv, StreamInv, AnswersInOrder, NoneLeftOver, ReadAnswer,
           NEW w, NEW a, w = Head(left), a = Head(resp[w]), InStep(w)
    PROVE  a.for = reading
  <1>1. /\ UnderWay(w, a.for) /\ a.for \in Nat /\ Answers(w, a.for) /\ a.for <= reading
    BY HeadNotLater
  <1>2. w \in Ranks /\ reading \in Calls /\ epc = "wait"  BY AnswerTaken
  <1>3. a.for \in Calls  BY <1>1, <1>2 DEF StreamInv, StreamsSent, Sent
  <1>4. status[a.for] = "none"  BY <1>1, <1>2, <1>3 DEF NoneLeftOver
  <1>5. \A i \in 1 .. Len(futures) : futures[i] # a.for
    <2>1. reading # 0  BY <1>2 DEF Calls
    <2>2. \A i \in 1 .. Len(futures) : reading < futures[i] /\ futures[i] \in Calls
      BY <2>1 DEF EngineInv, ReadingFirst, FuturesInOrder
    <2> QED  BY <1>1, <1>2, <2>2 DEF Calls
  <1>6. reading = a.for \/ a.for = Len(call)
    BY <1>2, <1>3, <1>4, <1>5 DEF EngineInv, Unfinished
  <1> QED  BY <1>1, <1>2, <1>6 DEF Calls

\* Whether faults may happen is settled at the start.
LEMMA ScenarioKept ==
    ASSUME [Next]_vars
    PROVE  scenario' = scenario /\ Faults' = Faults /\ \A w : InStep(w)' <=> InStep(w)
  <1>1. scenario' = scenario
    BY DEF Next, EngineStep, WorkerStep, vars, Call, Send, TakeQueues, AskResult, StartReading,
           ReadAnswer, AllRead, ReadGivesUp, Resume, ExecutorFailed, Receive, Execute, CopyOutput,
           CopyRaises, Die, MonitorStep
  <1> QED  BY <1>1 DEF Faults, InStep

LEMMA HealthyStep ==
    ASSUME RPCTypeOK, EngineInv, Healthy, [Next]_vars
    PROVE  Healthy'
  <1>1. scenario' = scenario /\ Faults' = Faults  BY ScenarioKept
  <1>2. SUFFICES ASSUME Faults \subseteq {"raise"}
                 PROVE  /\ monitor' = "watch"
                        /\ \A w \in Ranks : alive'[w] /\ copier'[w]
                        /\ \A c \in Calls' : SeesAll(c)' \/ (c = Len(call') /\ epc' \in {"send", "take"})
    BY <1>1 DEF Healthy
  <1>3. /\ monitor = "watch"
        /\ \A w \in Ranks : alive[w] /\ copier[w]
        /\ \A c \in Calls : SeesAll(c) \/ (c = Len(call) /\ epc \in {"send", "take"})
    BY <1>2 DEF Healthy
  <1>4. ~Reached("failed") /\ ~Reached("cancelled") /\ ~Reached("noRpc") /\ ~Reached("noResponses")
    BY <1>3, WatchFacts
  <1>5. "death" \notin Faults /\ "thread" \notin Faults  BY <1>2
  <1>6. UNCHANGED <<monitor, alive, copier>>
    <2>1. ~MonitorStep  BY <1>3 DEF MonitorStep
    <2>2. \A w \in Ranks : ~Die(w) /\ ~CopyRaises(w)  BY <1>5 DEF Die, CopyRaises
    <2> QED
      BY <2>1, <2>2 DEF Next, EngineStep, WorkerStep, vars, workers, Call, Send, TakeQueues, AskResult,
           StartReading, ReadAnswer, AllRead, ReadGivesUp, Resume, ExecutorFailed, Receive, Execute,
           CopyOutput
  <1>7. \A c \in Calls' : SeesAll(c)' \/ (c = Len(call') /\ epc' \in {"send", "take"})
    <2>1. ASSUME NEW k \in Kinds, Call(k)
          PROVE  \A c \in Calls' : SeesAll(c)' \/ (c = Len(call') /\ epc' \in {"send", "take"})
      <3>1. epc' = "send"  BY <1>4, <2>1 DEF Call
      <3>2. /\ Len(call') = Len(call) + 1 /\ Len(call) \in Nat /\ epc = "idle" /\ epc' = "send"
            /\ \A c \in Calls : call'[c] = call[c] /\ queues'[c] = queues[c]
        BY <2>1, <3>1, NewCall
      <3>3. \A c \in Calls' : c \in Calls \/ c = Len(call')  BY <3>2 DEF Calls
      <3> QED  BY <1>1, <1>3, <3>2, <3>3, SameRanks
    <2>2. CASE TakeQueues
      <3>1. epc' # "dead"  BY <1>4, <2>2 DEF TakeQueues
      <3>2. /\ queues'[Len(call)] = AnsweredBy(call[Len(call)]) /\ call' = call
            /\ \A c \in Calls : c # Len(call) => queues'[c] = queues[c]
        BY <1>4, <2>2, <3>1, QueuesTaken
      <3>3. ASSUME NEW c \in Calls, c # Len(call) PROVE SeesAll(c)'
        BY <1>1, <1>3, <3>2, <3>3, SameRanks
      <3>4. ASSUME NEW c \in Calls, c = Len(call) PROVE SeesAll(c)'
        <4>1. queues'[c] = AnsweredBy(call'[c])  BY <3>2, <3>4
        <4> QED  BY <1>1, <4>1 DEF SeesAll, AnsweredBy, OneReply, Aggregated
      <3> QED  BY <3>2, <3>3, <3>4 DEF Calls
    <2>3. CASE Send
      <3>1. epc' = "take" /\ UNCHANGED <<call, queues>>  BY <1>4, <2>3 DEF Send
      <3> QED  BY <1>1, <1>3, <3>1, SameRanks DEF Calls
    <2>4. CASE UNCHANGED <<call, queues>> /\ (epc' = epc \/ epc \notin {"send", "take"})
      BY <1>1, <1>3, <2>4, SameRanks DEF Calls
    <2>5. CASE \/ AskResult \/ StartReading \/ ReadAnswer \/ AllRead \/ ReadGivesUp \/ Resume
               \/ ExecutorFailed
      BY <2>4, <2>5 DEF AskResult, StartReading, ReadAnswer, AllRead, ReadGivesUp, Resume,
                        ExecutorFailed
    <2>6. CASE \/ MonitorStep \/ UNCHANGED vars
               \/ \E w \in Ranks : WorkerStep(w) \/ Execute(w, FALSE) \/ CopyOutput(w) \/ CopyRaises(w) \/ Die(w)
      BY <2>4, <2>6 DEF MonitorStep, vars, engine, WorkerStep, Receive, Execute, CopyOutput,
                        CopyRaises, Die
    <2> QED  BY <2>1, <2>2, <2>3, <2>5, <2>6 DEF Next, EngineStep
  <1> QED  BY <1>3, <1>6, <1>7

LEMMA NoFailureStep ==
    ASSUME RPCTypeOK, EngineInv, NoFailure, [Next]_vars
    PROVE  NoFailure'
  <1>1. SUFFICES ASSUME Faults = {}
                 PROVE  \A w \in Ranks : /\ \A i \in 1 .. Len(resp'[w]) : resp'[w][i].ok
                                         /\ \A i \in 1 .. Len(copying'[w]) : copying'[w][i].ok
    BY ScenarioKept DEF NoFailure
  <1>2. \A w \in Ranks : /\ \A i \in 1 .. Len(resp[w]) : resp[w][i].ok
                         /\ \A i \in 1 .. Len(copying[w]) : copying[w][i].ok
    BY <1>1 DEF NoFailure
  <1>3. copying \in [Ranks -> Seq(Outs)] /\ resp \in [Ranks -> Seq(Outs)]  BY DEF RPCTypeOK
  <1>4. CASE UNCHANGED <<resp, copying>>  BY <1>2, <1>4
  <1>5. ASSUME NEW s \in Seq(Outs), NEW a \in Outs, a.ok, \A i \in 1 .. Len(s) : s[i].ok
        PROVE  \A i \in 1 .. Len(Append(s, a)) : Append(s, a)[i].ok
    <2>1. \A i \in 1 .. Len(Append(s, a)) :
            (i \in 1 .. Len(s) /\ Append(s, a)[i] = s[i]) \/ Append(s, a)[i] = a
      OBVIOUS
    <2> QED  BY <1>5, <2>1
  <1>6. ASSUME NEW s \in Seq(Outs), s # << >>, \A i \in 1 .. Len(s) : s[i].ok
        PROVE  /\ \A i \in 1 .. Len(Tail(s)) : Tail(s)[i].ok
               /\ Head(s) \in Outs /\ Head(s).ok
    <2>1. /\ \A i \in 1 .. Len(Tail(s)) : i + 1 \in 1 .. Len(s) /\ Tail(s)[i] = s[i + 1]
          /\ 1 \in 1 .. Len(s) /\ Head(s) = s[1] /\ s[1] \in Outs
      BY <1>6, TailFacts, Zenon
    <2> QED  BY <1>6, <2>1
  <1>7. CASE ReadAnswer
    <2>1. PICK w \in Ranks : resp[w] # << >> /\ resp' = [resp EXCEPT ![w] = Tail(@)] /\ copying' = copying
      BY <1>7, AnswerTaken
    <2>2. resp'[w] = Tail(resp[w]) /\ \A v \in Ranks : v # w => resp'[v] = resp[v]
      BY <1>3, <2>1
    <2>3. \A i \in 1 .. Len(resp'[w]) : resp'[w][i].ok  BY <1>2, <1>3, <1>6, <2>1, <2>2
    <2> QED  BY <1>2, <2>1, <2>2, <2>3
  <1>8. ASSUME NEW w \in Ranks, NEW ok \in BOOLEAN, Execute(w, ok)
        PROVE  \A v \in Ranks : /\ \A i \in 1 .. Len(resp'[v]) : resp'[v][i].ok
                                /\ \A i \in 1 .. Len(copying'[v]) : copying'[v][i].ok
    <2> DEFINE out == [for |-> work[w], ok |-> ok]
    <2>1. work[w] \in Nat  BY DEF RPCTypeOK
    <2>2. ok  BY <1>1, <1>8 DEF Execute
    <2>3. out \in Outs /\ out.ok  BY <2>1, <2>2 DEF Outs
    <2>4. copying' = copying \/ copying' = [copying EXCEPT ![w] = Append(@, out)]
      BY <1>8, Zenon DEF Execute
    <2>5. resp' = resp \/ resp' = [resp EXCEPT ![w] = Append(@, out)]
      BY <1>8, Zenon DEF Execute
    <2> HIDE DEF out
    <2>6. \A v \in Ranks : \A i \in 1 .. Len(resp'[v]) : resp'[v][i].ok
      <3>1. CASE resp' = [resp EXCEPT ![w] = Append(@, out)]
        <4>1. resp'[w] = Append(resp[w], out) /\ \A v \in Ranks : v # w => resp'[v] = resp[v]
          BY <1>3, <3>1
        <4>2. \A i \in 1 .. Len(resp'[w]) : resp'[w][i].ok  BY <1>2, <1>3, <1>5, <2>3, <4>1
        <4> QED  BY <1>2, <4>1, <4>2
      <3> QED  BY <1>2, <2>5, <3>1
    <2>7. \A v \in Ranks : \A i \in 1 .. Len(copying'[v]) : copying'[v][i].ok
      <3>1. CASE copying' = [copying EXCEPT ![w] = Append(@, out)]
        <4>1. copying'[w] = Append(copying[w], out) /\ \A v \in Ranks : v # w => copying'[v] = copying[v]
          BY <1>3, <3>1
        <4>2. \A i \in 1 .. Len(copying'[w]) : copying'[w][i].ok  BY <1>2, <1>3, <1>5, <2>3, <4>1
        <4> QED  BY <1>2, <4>1, <4>2
      <3> QED  BY <1>2, <2>4, <3>1
    <2> QED  BY <2>6, <2>7
  <1>9. ASSUME NEW w \in Ranks, CopyOutput(w)
        PROVE  \A v \in Ranks : /\ \A i \in 1 .. Len(resp'[v]) : resp'[v][i].ok
                                /\ \A i \in 1 .. Len(copying'[v]) : copying'[v][i].ok
    <2>1. /\ copying[w] # << >>
          /\ resp' = [resp EXCEPT ![w] = Append(@, Head(copying[w]))]
          /\ copying' = [copying EXCEPT ![w] = Tail(@)]
      BY <1>9 DEF CopyOutput
    <2>2. /\ resp'[w] = Append(resp[w], Head(copying[w])) /\ copying'[w] = Tail(copying[w])
          /\ \A v \in Ranks : v # w => resp'[v] = resp[v] /\ copying'[v] = copying[v]
      BY <1>3, <2>1
    <2>3. resp[w] \in Seq(Outs) /\ copying[w] \in Seq(Outs)  BY <1>3
    <2>4. /\ \A i \in 1 .. Len(copying'[w]) : copying'[w][i].ok
          /\ Head(copying[w]) \in Outs /\ Head(copying[w]).ok
      BY <1>2, <1>6, <2>1, <2>2, <2>3
    <2>5. \A i \in 1 .. Len(resp'[w]) : resp'[w][i].ok  BY <1>2, <1>5, <2>2, <2>3, <2>4
    <2> QED  BY <1>2, <2>2, <2>4, <2>5
  <1>10. \A w \in Ranks : ~CopyRaises(w)  BY <1>1 DEF CopyRaises
  <1>11. CASE \/ Send \/ TakeQueues \/ AskResult \/ StartReading \/ AllRead \/ ReadGivesUp \/ Resume
              \/ ExecutorFailed \/ \E k \in Kinds : Call(k)
    BY <1>4, <1>11 DEF Send, TakeQueues, AskResult, StartReading, AllRead, ReadGivesUp, Resume,
                       ExecutorFailed, Call, workers
  <1>12. CASE MonitorStep \/ UNCHANGED vars \/ \E w \in Ranks : Receive(w) \/ Die(w)
    BY <1>4, <1>12 DEF MonitorStep, vars, workers, Receive, Die
  <1> QED
    BY <1>7, <1>8, <1>9, <1>10, <1>11, <1>12 DEF Next, EngineStep, WorkerStep

\* Steps that put nothing under way and finish no call.
LEMMA LeftOverFrame ==
    ASSUME NoneLeftOver, UNCHANGED <<scenario, call, status, reading, left>>,
           \A w \in Ranks : InStep(w) => \A x \in Nat : UnderWay(w, x)' => UnderWay(w, x)
    PROVE  NoneLeftOver'
  <1>1. Calls' = Calls /\ \A x \in Calls : x \in Nat  BY DEF Calls
  <1>2. \A w : InStep(w)' <=> InStep(w)  BY DEF InStep, Faults
  <1>3. \A w, x : Answers(w, x)' <=> Answers(w, x)  BY SameRanks
  <1> QED  BY <1>1, <1>2, <1>3 DEF NoneLeftOver

\* The answer a call takes leaves none of its own behind.
LEMMA LeftOverRead ==
    ASSUME RPCTypeOK, EngineInv, StreamInv, AnswersInOrder, NoFailure, NoneLeftOver, ReadAnswer
    PROVE  NoneLeftOver'
  <1>0. PICK v, a, r : v = Head(left) /\ a = Head(resp[v]) /\ r = reading  OBVIOUS
  <1> DEFINE n == Len(answers[r])
  <1>1. /\ r \in Calls /\ r # 0 /\ epc = "wait"
        /\ left # << >> /\ v = left[1] /\ v \in Ranks /\ resp[v] # << >> /\ a \in Outs
        /\ n \in Nat /\ queues[r] = AnsweredBy(call[r])
        /\ resp' = [resp EXCEPT ![v] = Tail(@)]
        /\ \/ ~a.ok /\ Finish("error")
           \/ a.ok /\ left' = Tail(left) /\ UNCHANGED <<status, reading>>
        /\ UNCHANGED <<scenario, call, cmd, work, copying>>
    BY <1>0, AnswerTaken DEF SeesAll
  <1>2. /\ Len(queues[r]) = n + Len(left) /\ left \in Seq(Ranks) /\ Len(left) \in Nat
        /\ \A j \in 1 .. Len(left) : left[j] = queues[r][n + j]
    BY <1>0, <1>1 DEF EngineInv, Reading, RPCTypeOK
  <1>3. resp \in [Ranks -> Seq(Outs)] /\ a.for \in Nat  BY <1>1 DEF RPCTypeOK, Outs
  <1>4. resp'[v] = Tail(resp[v]) /\ \A u \in Ranks : u # v => resp'[u] = resp[u]
    BY <1>1, <1>3
  <1>5. \A x : UnderWay(v, x)' => UnderWay(v, x) /\ a.for < x
    <2>1. /\ resp[v] \in Seq(Outs) /\ copying[v] \in Seq(Outs) /\ work[v] \in Nat
          /\ cmd[v] \in Seq(Nat) /\ Ordered(resp[v], copying[v], work[v], cmd[v])
      BY <1>1, WorkerFacts
    <2>2. \A x : Under(Tail(resp[v]), copying[v], work[v], cmd[v], x)
                 => Under(resp[v], copying[v], work[v], cmd[v], x) /\ a.for < x
      BY <1>0, <1>1, <2>1, StreamTake
    <2> QED  BY <1>1, <1>4, <2>2 DEF UnderWay
  <1>6. \A w \in Ranks : w # v => \A x : UnderWay(w, x)' => UnderWay(w, x)
    BY <1>1, <1>4 DEF UnderWay
  <1>7. SUFFICES ASSUME NEW w \in Ranks, InStep(w), NEW x \in Calls, UnderWay(w, x)', Answers(w, x)
                 PROVE  /\ status'[x] = "none"
                        /\ x = reading' => \E j \in 1 .. Len(left') : left'[j] = w
    <2>1. Calls' = Calls  BY <1>1 DEF Calls
    <2>2. \A u : InStep(u)' <=> InStep(u)  BY <1>1 DEF InStep, Faults
    <2>3. \A u, x : Answers(u, x)' <=> Answers(u, x)  BY <1>1, SameRanks
    <2> QED  BY <2>1, <2>2, <2>3 DEF NoneLeftOver
  <1>8. UnderWay(w, x) /\ x \in Nat /\ x # 0  BY <1>5, <1>6, <1>7 DEF Calls
  <1>9. /\ status[x] = "none"
        /\ x = r => \E j \in 1 .. Len(left) : left[j] = w
    BY <1>0, <1>7, <1>8 DEF NoneLeftOver
  <1>10. x = r => w # v
    <2>1. SUFFICES ASSUME x = r, w = v PROVE FALSE  OBVIOUS
    <2>2. a.for = r
      <3>1. v = Head(left) /\ a = Head(resp[v]) /\ InStep(v)  BY <1>0, <1>7, <2>1
      <3> QED  BY <1>0, <3>1, HeadIsOwn
    <2>3. a.for < x  BY <1>5, <1>7, <2>1
    <2> QED  BY <1>3, <1>8, <2>1, <2>2, <2>3
  <1>11. CASE ~a.ok /\ Finish("error")
    <2>1. /\ reading' = 0
          /\ \A c \in Calls : c # r => status'[c] = status[c]
      BY <1>0, <1>1, <1>11, Finished
    <2>2. x # r
      <3>1. SUFFICES ASSUME x = r PROVE FALSE  OBVIOUS
      <3>2. Faults # {}
        <4>1. 1 \in 1 .. Len(resp[v]) /\ a = resp[v][1]  BY <1>0, <1>1, <1>3
        <4> QED  BY <1>1, <1>11, <4>1 DEF NoFailure
      <3>3. w = 0  BY <1>7, <3>2 DEF InStep
      <3>4. PICK j \in 1 .. Len(left) : left[j] = 0  BY <1>9, <3>1, <3>3
      <3>5. n + j \in 1 .. Len(queues[r]) /\ queues[r][n + j] = 0  BY <1>1, <1>2, <3>4
      <3>6. n + j = 1  BY <1>1, <3>5, AnsweredFacts
      <3>7. j = 1
        <4>1. ASSUME NEW m \in Nat, m + j = 1 PROVE j = 1  BY <1>2, <4>1
        <4> QED  BY <1>1, <3>6, <4>1
      <3> QED  BY <1>1, <1>10, <3>1, <3>3, <3>4, <3>7
    <2> QED  BY <1>7, <1>8, <1>9, <2>1, <2>2
  <1>12. CASE left' = Tail(left) /\ UNCHANGED <<status, reading>>
    <2>1. ASSUME x = r PROVE \E j \in 1 .. Len(left') : left'[j] = w
      <3>1. PICK j \in 1 .. Len(left) : left[j] = w  BY <1>9, <2>1
      <3>2. j # 1  BY <1>1, <1>10, <2>1, <3>1
      <3>3. j - 1 \in 1 .. Len(left') /\ left[j] = left'[j - 1]
        <4>1. \A i \in 1 .. Len(left) : i = 1 \/ (i - 1 \in 1 .. Len(Tail(left)) /\ left[i] = Tail(left)[i - 1])
          BY <1>1, <1>2, TailFacts, Zenon
        <4> QED  BY <1>12, <3>2, <4>1
      <3> QED  BY <3>1, <3>3
    <2> QED  BY <1>0, <1>9, <1>12, <2>1
  <1> QED  BY <1>1, <1>11, <1>12

LEMMA LeftOverStep ==
    ASSUME RPCTypeOK, EngineInv, StreamInv, AnswersInOrder, OwnInv, [Next]_vars
    PROVE  NoneLeftOver'
  <1> USE DEF OwnInv
  <1>1. CASE ReadAnswer  BY <1>1, LeftOverRead
  <1>2. ASSUME NEW k \in Kinds, Call(k), epc' = "send" PROVE NoneLeftOver'
    <2>1. /\ Len(call') = Len(call) + 1 /\ Len(call) \in Nat /\ scenario' = scenario
          /\ \A c \in Calls : call'[c] = call[c] /\ status'[c] = status[c]
          /\ UNCHANGED <<reading, left, cmd, work, copying, resp>>
      BY <1>2, NewCall DEF workers
    <2>2. \A w : InStep(w)' <=> InStep(w)  BY <2>1 DEF InStep, Faults
    <2>3. \A w : \A x : UnderWay(w, x)' <=> UnderWay(w, x)  BY <2>1 DEF UnderWay
    <2>4. \A w : \A x \in Calls : Answers(w, x)' <=> Answers(w, x)  BY <2>1, SameRanks
    <2>5. SUFFICES ASSUME NEW w \in Ranks, InStep(w), NEW x \in Calls', UnderWay(w, x), Answers(w, x)'
                   PROVE  /\ status'[x] = "none"
                          /\ x = reading => \E j \in 1 .. Len(left) : left[j] = w
      BY <2>1, <2>2, <2>3 DEF NoneLeftOver
    <2>6. x \in Calls
      <3>1. x \in Nat  BY <2>1 DEF Calls
      <3> QED  BY <2>5, <3>1 DEF StreamInv, StreamsSent, Sent
    <2> QED  BY <2>1, <2>4, <2>5, <2>6 DEF NoneLeftOver
  <1>3. CASE Send /\ epc' = "take"
    <2>1. /\ epc = "send" /\ \A w \in Ranks : cmd'[w] = Append(cmd[w], Len(call))
          /\ UNCHANGED <<scenario, call, status, reading, left, work, copying, resp>>
      BY <1>3 DEF Send, AfterError, This
    <2>2. reading = 0 /\ status[Len(call)] = "none"  BY <2>1 DEF EngineInv, JustMade
    <2>3. ASSUME NEW w \in Ranks, NEW x, UnderWay(w, x)' PROVE UnderWay(w, x) \/ x = Len(call)
      <3>1. cmd[w] \in Seq(Nat) /\ Len(call) \in Nat  BY DEF RPCTypeOK
      <3>2. \A i \in 1 .. Len(cmd'[w]) : (i \in 1 .. Len(cmd[w]) /\ cmd'[w][i] = cmd[w][i]) \/ cmd'[w][i] = Len(call)
        BY <2>1, <3>1
      <3> QED  BY <2>1, <2>3, <3>2 DEF UnderWay, Under
    <2>4. \A w : InStep(w)' <=> InStep(w)  BY <2>1 DEF InStep, Faults
    <2>5. \A w, x : Answers(w, x)' <=> Answers(w, x)  BY <2>1, SameRanks
    <2>6. SUFFICES ASSUME NEW w \in Ranks, InStep(w), NEW x \in Calls, UnderWay(w, x)', Answers(w, x)
                   PROVE  status[x] = "none" /\ x # 0
      BY <2>1, <2>2, <2>4, <2>5 DEF NoneLeftOver, Calls
    <2> QED  BY <2>2, <2>3, <2>6 DEF NoneLeftOver, Calls
  <1>4. CASE StartReading
    <2>1. /\ reading' \in Calls /\ left' = queues[reading'] /\ epc = "wait"
          /\ UNCHANGED <<scenario, call, status, workers>>
      BY <1>4, NextRead
    <2>2. \A w : \A x : UnderWay(w, x)' <=> UnderWay(w, x)  BY <2>1 DEF UnderWay, workers
    <2>3. \A w : InStep(w)' <=> InStep(w)  BY <2>1 DEF InStep, Faults
    <2>4. \A w, x : Answers(w, x)' <=> Answers(w, x)  BY <2>1, SameRanks
    <2>5. SUFFICES ASSUME NEW w \in Ranks, InStep(w), NEW x \in Calls, UnderWay(w, x), Answers(w, x)
                   PROVE  /\ status[x] = "none"
                          /\ x = reading' => \E j \in 1 .. Len(left') : left'[j] = w
      BY <2>1, <2>2, <2>3, <2>4 DEF NoneLeftOver, Calls
    <2>6. ASSUME x = reading' PROVE \E j \in 1 .. Len(left') : left'[j] = w
      <3>1. Faults \subseteq {"raise"}  BY <2>5 DEF InStep
      <3>2. queues[x] = AnsweredBy(call[x])  BY <2>1, <3>1 DEF Healthy, SeesAll
      <3> QED  BY <2>1, <2>5, <2>6, <3>2, AnswersMeans
    <2> QED  BY <2>5, <2>6 DEF NoneLeftOver
  <1>5. CASE AllRead
    <2>1. /\ reading # 0 /\ left = << >> /\ \E s \in {"value", "error"} : Finish(s)
          /\ UNCHANGED <<scenario, call, workers>>
      BY <1>5 DEF AllRead
    <2>2. /\ \A c \in Calls : c # reading => status'[c] = status[c]
          /\ reading' = 0
      BY <2>1, Finished
    <2>3. \A w : \A x : UnderWay(w, x)' <=> UnderWay(w, x)  BY <2>1 DEF UnderWay, workers
    <2>4. \A w : InStep(w)' <=> InStep(w)  BY <2>1 DEF InStep, Faults
    <2>5. \A w, x : Answers(w, x)' <=> Answers(w, x)  BY <2>1, SameRanks
    <2>6. SUFFICES ASSUME NEW w \in Ranks, InStep(w), NEW x \in Calls, UnderWay(w, x), Answers(w, x)
                   PROVE  status'[x] = "none" /\ x # 0
      BY <2>1, <2>2, <2>3, <2>4, <2>5 DEF NoneLeftOver, Calls
    <2>7. x # reading
      <3>1. ~\E j \in 1 .. Len(left) : left[j] = w  BY <2>1
      <3> QED  BY <2>6, <3>1 DEF NoneLeftOver
    <2> QED  BY <2>2, <2>6, <2>7 DEF NoneLeftOver, Calls
  <1>6. CASE ReadGivesUp
    <2>1. ~(Faults \subseteq {"raise"})
      <3>1. SUFFICES ASSUME Faults \subseteq {"raise"} PROVE FALSE  OBVIOUS
      <3>2. ~Reached("cancelled")  BY <3>1, WatchFacts DEF Healthy
      <3> QED  BY <1>6, <3>1, <3>2 DEF ReadGivesUp
    <2>2. \A w : ~InStep(w)  BY <2>1 DEF InStep
    <2>3. \A w : InStep(w)' <=> InStep(w)  BY ScenarioKept
    <2> QED  BY <2>2, <2>3 DEF NoneLeftOver
  <1>7. CASE \/ \E k \in Kinds : Call(k) /\ epc' # "send"
             \/ TakeQueues \/ AskResult \/ Resume \/ ExecutorFailed
             \/ MonitorStep \/ UNCHANGED vars \/ \E w \in Ranks : Die(w)
    <2>1. UNCHANGED <<scenario, call, status, reading, left, cmd, work, copying, resp>>
      BY <1>7 DEF Call, TakeQueues, AskResult, Resume, ExecutorFailed, MonitorStep, vars,
                  engine, workers, Die
    <2>2. \A w : \A x : UnderWay(w, x)' <=> UnderWay(w, x)  BY <2>1 DEF UnderWay
    <2> QED  BY <2>1, <2>2, LeftOverFrame
  <1>8. ASSUME NEW w \in Ranks, Receive(w) \/ CopyOutput(w) \/ \E ok \in BOOLEAN : Execute(w, ok)
        PROVE  NoneLeftOver'
    <2>1. \A v \in Ranks : \A x \in Nat : UnderWay(v, x)' => UnderWay(v, x)
      BY <1>8, StreamReceives, StreamExecutes, StreamCopies
    <2>2. UNCHANGED <<scenario, call, status, reading, left>>
      BY <1>8 DEF Receive, CopyOutput, Execute, engine
    <2> QED  BY <2>1, <2>2, LeftOverFrame
  <1>9. ASSUME NEW w \in Ranks, CopyRaises(w) PROVE NoneLeftOver'
    <2>1. \A v : ~InStep(v)  BY <1>9 DEF CopyRaises, InStep
    <2>2. \A v : InStep(v)' <=> InStep(v)  BY ScenarioKept
    <2> QED  BY <2>1, <2>2 DEF NoneLeftOver
  <1>10. CASE Send /\ epc' # "take"
    <2>1. Reached("noRpc")  BY <1>10, SendFails
    <2>2. ~(Faults \subseteq {"raise"})  BY <2>1, WatchFacts DEF Healthy
    <2>3. \A w : ~InStep(w)  BY <2>2 DEF InStep
    <2>4. \A w : InStep(w)' <=> InStep(w)  BY ScenarioKept
    <2> QED  BY <2>3, <2>4 DEF NoneLeftOver
  <1> QED
    BY <1>1, <1>2, <1>3, <1>4, <1>5, <1>6, <1>7, <1>8, <1>9, <1>10 DEF Next, EngineStep, WorkerStep

\* Steps that take no answer.
LEMMA OwnFrame ==
    ASSUME AnswersAreOwn, UNCHANGED <<scenario, call, answers>>,
           \A c \in Calls : \A i \in 1 .. Len(answers[c]) : queues'[c][i] = queues[c][i]
    PROVE  AnswersAreOwn'
  BY DEF AnswersAreOwn, Calls, Faults

LEMMA OwnRead ==
    ASSUME RPCTypeOK, EngineInv, StreamInv, AnswersInOrder, NoneLeftOver, AnswersAreOwn, ReadAnswer
    PROVE  AnswersAreOwn'
  <1> DEFINE r == reading
             n == Len(answers[r])
             ans == answers'[r]
  <1>0. PICK w, a : w = Head(left) /\ a = Head(resp[w])  OBVIOUS
  <1>1. /\ r \in Calls /\ n \in Nat /\ queues[r][n + 1] = w /\ a \in Outs
        /\ ans = Append(answers[r], a.for)
        /\ \A c \in Calls : c # r => answers'[c] = answers[c]
        /\ UNCHANGED <<scenario, call, queues>>
    BY <1>0, AnswerTaken
  <1>2. a.for \in Nat  BY <1>1 DEF Outs
  <1>3. answers[r] \in Seq(Nat)
    <2>1. answers \in Seq(Seq(Nat)) /\ Len(answers) = Len(call)  BY DEF RPCTypeOK
    <2> QED  BY <1>1, <2>1 DEF Calls
  <1>4. /\ Len(ans) = n + 1 /\ ans[n + 1] = a.for
        /\ \A i \in 1 .. n : ans[i] = answers[r][i]
    BY <1>1, <1>2, <1>3
  <1> HIDE DEF ans, n
  <1>5. SUFFICES ASSUME NEW c \in Calls, NEW i \in 1 .. Len(answers'[c]),
                        Faults = {} \/ (Faults = {"raise"} /\ queues[c][i] = 0)
                 PROVE  answers'[c][i] = c
    BY <1>1 DEF AnswersAreOwn, Calls, Faults
  <1>6. CASE c # r
    <2>1. answers'[c] = answers[c]  BY <1>1, <1>6
    <2> QED  BY <1>5, <2>1 DEF AnswersAreOwn
  <1>7. CASE c = r
    <2>1. CASE i \in 1 .. n
      <3>1. i \in 1 .. Len(answers[r])  BY <2>1 DEF n
      <3>2. answers'[r][i] = answers[r][i]  BY <1>4, <2>1 DEF ans
      <3> QED  BY <1>5, <1>7, <3>1, <3>2 DEF AnswersAreOwn
    <2>2. CASE i = n + 1
      <3>1. answers'[c][i] = a.for /\ queues[c][i] = w  BY <1>1, <1>4, <1>7, <2>2 DEF ans
      <3>2. InStep(w)  BY <1>5, <3>1 DEF InStep
      <3> QED  BY <1>0, <1>7, <3>1, <3>2, HeadIsOwn
    <2>3. i \in 1 .. n \/ i = n + 1  BY <1>1, <1>4, <1>7 DEF ans
    <2> QED  BY <2>1, <2>2, <2>3
  <1> QED  BY <1>6, <1>7

LEMMA OwnStep ==
    ASSUME RPCTypeOK, EngineInv, StreamInv, AnswersInOrder, NoneLeftOver, AnswersAreOwn, [Next]_vars
    PROVE  AnswersAreOwn'
  <1>0. scenario' = scenario /\ Faults' = Faults  BY ScenarioKept
  <1>1. CASE ReadAnswer  BY <1>1, OwnRead
  <1>2. ASSUME NEW k \in Kinds, Call(k), epc' = "send" PROVE AnswersAreOwn'
    <2>1. /\ Len(call') = Len(call) + 1 /\ Len(call) \in Nat
          /\ \A c \in Calls : answers'[c] = answers[c] /\ queues'[c] = queues[c]
          /\ answers'[Len(call) + 1] = << >>
      BY <1>2, NewCall
    <2>2. \A c \in Calls' : c \in Calls \/ c = Len(call) + 1  BY <2>1 DEF Calls
    <2>3. Len(answers'[Len(call) + 1]) = 0  BY <2>1
    <2>4. ASSUME NEW c \in Calls', NEW i \in 1 .. Len(answers'[c]) PROVE c \in Calls
      BY <2>2, <2>3, <2>4
    <2> QED  BY <1>0, <2>1, <2>4 DEF AnswersAreOwn
  <1>3. CASE TakeQueues /\ epc' # "dead"
    <2>1. /\ epc = "take" /\ UNCHANGED <<call, answers>>
          /\ \A c \in Calls : c # Len(call) => queues'[c] = queues[c]
      BY <1>3, QueuesTaken
    <2>2. Len(answers[Len(call)]) = 0
      <3>1. answers[Len(call)] = << >>  BY <2>1 DEF EngineInv, JustMade
      <3> QED  BY <3>1
    <2> QED  BY <1>0, <2>1, <2>2, OwnFrame
  <1>4. CASE UNCHANGED <<call, answers, queues>>
    BY <1>0, <1>4, OwnFrame
  <1>5. CASE (\E k \in Kinds : Call(k) /\ epc' # "send") \/ (TakeQueues /\ epc' = "dead")
    BY <1>4, <1>5 DEF Call, TakeQueues
  <1>6. CASE \/ Send \/ AskResult \/ StartReading \/ AllRead \/ ReadGivesUp \/ Resume
             \/ ExecutorFailed
    BY <1>4, <1>6 DEF Send, AskResult, StartReading, AllRead, ReadGivesUp, Resume, ExecutorFailed
  <1>7. CASE \/ MonitorStep \/ UNCHANGED vars
             \/ \E w \in Ranks : WorkerStep(w) \/ Execute(w, FALSE) \/ CopyOutput(w) \/ CopyRaises(w) \/ Die(w)
    BY <1>4, <1>7 DEF MonitorStep, vars, engine, WorkerStep, Receive, Execute, CopyOutput,
                      CopyRaises, Die
  <1> QED  BY <1>1, <1>2, <1>3, <1>5, <1>6, <1>7 DEF Next, EngineStep

-----------------------------------------------------------------------------
(* The theorems.                                                           *)

LEMMA RPCInit == ASSUME Init PROVE RPCInv
  <1>1. RPCTypeOK  BY InitTypes
  <1>2. /\ Len(call) = 0 /\ Calls = {} /\ Len(futures) = 0 /\ Len(batches) = 0
        /\ reading = 0 /\ epc = "idle"
    BY DEF Init, Calls
  <1>3. EngineInv
    BY <1>2 DEF EngineInv, Reading, QueuesSeen, JustMade, FuturesInOrder, ReadInOrder,
                ReadingFirst, Unfinished
  <1>4. \A w \in Ranks : /\ Len(resp[w]) = 0 /\ Len(copying[w]) = 0 /\ Len(cmd[w]) = 0
                         /\ copying[w] = << >> /\ work[w] = 0 /\ copier[w] /\ alive[w]
    BY DEF Init
  <1>5. \A w \in Ranks : \A x : ~UnderWay(w, x) /\ ~Outputs(resp[w], copying[w], x)
    BY <1>4 DEF UnderWay, Under, Outputs
  <1>6. StreamsOrdered  BY <1>4 DEF StreamsOrdered, Ordered
  <1>7. StreamInv
    BY <1>2, <1>4, <1>5, <1>6
    DEF StreamInv, StreamsSent, StreamsAnswered, TakenOlder, NoneSkipped
  <1>8. OwnInv
    BY <1>2, <1>4, <1>5 DEF Init, OwnInv, Healthy, NoFailure, NoneLeftOver
  <1>9. AnswersInOrder /\ AnswersAreOwn  BY <1>2 DEF AnswersInOrder, AnswersAreOwn
  <1> QED  BY <1>1, <1>3, <1>7, <1>8, <1>9 DEF RPCInv

LEMMA RPCStep == ASSUME RPCInv, [Next]_vars PROVE RPCInv'
  <1>1. /\ RPCTypeOK /\ EngineInv /\ StreamInv /\ AnswersInOrder
        /\ OwnInv /\ Healthy /\ NoFailure /\ NoneLeftOver /\ AnswersAreOwn
    BY DEF RPCInv, OwnInv
  <1>2. RPCTypeOK'  BY <1>1, TypesStep
  <1>3. EngineInv'  BY <1>1, EngineInvStep
  <1>4. StreamInv'  BY <1>1, StreamInvStep
  <1>5. AnswersInOrder'  BY <1>1, OrderStep
  <1>6. OwnInv'  BY <1>1, HealthyStep, NoFailureStep, LeftOverStep DEF OwnInv
  <1>7. AnswersAreOwn'  BY <1>1, OwnStep
  <1> QED  BY <1>2, <1>3, <1>4, <1>5, <1>6, <1>7 DEF RPCInv

\* The invariant holds of every execution, whatever fails.
THEOREM RPCInvariant == Spec => []RPCInv
  <1>1. Init => RPCInv  BY RPCInit
  <1>2. RPCInv /\ [Next]_vars => RPCInv'  BY RPCStep
  <1> QED  BY <1>1, <1>2, PTL DEF Spec

\* collective_rpc and FutureWrapper.result give no call the answer to a later
\* one, and give out the answers of a rank in the order of the calls, each
\* once: with calls that raise, deadlines that pass, a copying thread that
\* ends and workers that die, in any combination.
THEOREM AnswersInOrderHolds == Spec => []AnswersInOrder
  <1>1. RPCInv => AnswersInOrder  BY DEF RPCInv
  <1> QED  BY <1>1, RPCInvariant, PTL

\* As long as nothing fails a call gets the answers of its own ranks to that
\* very call, though answers carry no number; and when calls raise on some
\* ranks, the answer of rank 0 is still that of the call it is given to.
THEOREM AnswersAreOwnHolds == Spec => []AnswersAreOwn
  <1>1. RPCInv => AnswersAreOwn  BY DEF RPCInv
  <1> QED  BY <1>1, RPCInvariant, PTL
===============================================================================
