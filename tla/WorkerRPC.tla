------------------------------ MODULE WorkerRPC ------------------------------
(***************************************************************************)
(* Calls of the engine to its workers,                                     *)
(* src/vllm/vllm/v1/executor/multiproc_executor.py: one queue broadcasts   *)
(* the calls, every worker answers in a queue of its own, and the executor *)
(* takes the answers in the order it made the calls.  Answers carry no     *)
(* number: which call one belongs to is known by its place alone.          *)
(*                                                                         *)
(* Queues are the channels ShmBroadcast implements and do not fill up.     *)
(* Call c is the c-th one.  "step" is a call that returns a future, "now"  *)
(* a blocking call answered by one rank, without a deadline, "utility" a   *)
(* blocking call of a client answered by all ranks, whose failure the      *)
(* engine survives.                                                        *)
(***************************************************************************)
EXTENDS Naturals, Sequences, SequencesExt

CONSTANTS
    World,       \* number of workers
    Output,      \* rank that answers steps
    MaxFutures,  \* batches in flight, batch_queue_size
    Scenarios    \* how the executor is set up and what may go wrong

Ranks == 0 .. World - 1

ASSUME RPCAssumption ==
    /\ World \in Nat /\ Output \in Ranks
    /\ MaxFutures \in Nat
    /\ \A s \in Scenarios :
        /\ s.aggregated \in BOOLEAN /\ s.async \in BOOLEAN
        /\ s.maxCalls \in Nat
        /\ s.faults \subseteq {"raise", "timeout", "thread", "death"}

Kinds == {"step", "now", "utility"}

VARIABLES
    scenario,  \* chosen at the start and kept
    call,      \* kinds of the calls made
    status,    \* what the caller of each got: "none", "value", "error"
    answers,   \* calls whose answers were taken for each
    queues,    \* response queues each call saw
    futures,   \* futures_queue, oldest first
    batches,   \* futures the engine has not asked for, oldest first
    epc,       \* where the engine is
    goal,      \* call the engine waits for
    reading,   \* call whose get_response runs, or 0
    left,      \* ranks it has yet to hear from
    cmd,       \* calls on their way to a worker
    work,      \* call a worker executes, or 0
    copying,   \* outputs waiting for the thread of a worker
    copier,    \* whether that thread runs
    resp,      \* answers on their way to the executor
    alive,     \* workers
    monitor    \* how far the executor's monitor thread is

engine == <<call, status, answers, queues, futures, batches, epc, goal, reading, left>>
workers == <<cmd, work, copying, copier, resp, alive>>
vars == <<scenario, engine, workers, monitor>>

Aggregated == scenario.aggregated  \* whether all ranks answer steps, for a KV connector
Async == scenario.async            \* whether a thread of the worker copies the outputs
MaxCalls == scenario.maxCalls      \* calls the engine makes (bound)
Faults == scenario.faults          \* what can go wrong: "raise", "timeout", "thread", "death"

-----------------------------------------------------------------------------
(* Ranks that answer a call, in the order of their queues.                 *)

AllRanks == [i \in 1 .. World |-> i - 1]
OneReply(k) == k = "now" \/ (k = "step" /\ ~Aggregated)
AnsweredBy(k) == IF OneReply(k) THEN <<Output>> ELSE AllRanks

(* The monitor thread, after a worker died: is_failed, then shutdown.      *)
Stages == <<"watch", "failed", "terminated", "cancelled", "noRpc", "noResponses", "told">>
StageNumber(s) == CHOOSE i \in DOMAIN Stages : Stages[i] = s
Reached(s) == StageNumber(monitor) >= StageNumber(s)

-----------------------------------------------------------------------------
(* The engine and collective_rpc.                                          *)

\* An error ends the engine, but _invoke_utility_method reports it to the client.
AfterError(k) == IF k = "utility" THEN "idle" ELSE "dead"

\* is_failed is looked at first.
Call(k) ==
    /\ epc = "idle" /\ Len(call) < MaxCalls
    /\ k = "step" => Len(batches) < MaxFutures
    /\ IF Reached("failed")
       THEN epc' = AfterError(k) /\ UNCHANGED <<call, status, answers, queues>>
       ELSE /\ epc' = "send"
            /\ call' = Append(call, k)
            /\ status' = Append(status, "none")
            /\ answers' = Append(answers, << >>)
            /\ queues' = Append(queues, << >>)
    /\ UNCHANGED <<scenario, futures, batches, goal, reading, left, workers, monitor>>

This == Len(call)

\* rpc_broadcast_mq may be gone by now.
Send ==
    /\ epc = "send"
    /\ IF Reached("noRpc")
       THEN /\ epc' = AfterError(call[This])
            /\ status' = [status EXCEPT ![This] = "error"]
            /\ UNCHANGED cmd
       ELSE /\ epc' = "take"
            /\ cmd' = [w \in Ranks |-> Append(cmd[w], This)]
            /\ UNCHANGED status
    /\ UNCHANGED <<scenario, call, answers, queues, futures, batches, goal, reading, left,
                   work, copying, copier, resp, alive, monitor>>

\* The response queues are looked up after the call is sent.
TakeQueues ==
    /\ epc = "take"
    /\ LET k == call[This]
           seen == IF Reached("noResponses") THEN << >> ELSE AnsweredBy(k) IN
       IF Reached("noResponses") /\ OneReply(k)
       THEN epc' = "dead" /\ UNCHANGED <<queues, futures, batches, goal>>
       ELSE /\ queues' = [queues EXCEPT ![This] = seen]
            /\ IF k = "step"
               THEN /\ epc' = "idle"
                    /\ futures' = Append(futures, This)
                    /\ batches' = Append(batches, This)
                    /\ UNCHANGED goal
               ELSE epc' = "wait" /\ goal' = This /\ UNCHANGED <<futures, batches>>
    /\ UNCHANGED <<scenario, call, status, answers, reading, left, workers, monitor>>

\* FutureWrapper.result for the oldest batch.
AskResult ==
    /\ epc = "idle" /\ batches # << >>
    /\ epc' = "wait"
    /\ goal' = Head(batches)
    /\ batches' = Tail(batches)
    /\ UNCHANGED <<scenario, call, status, answers, queues, futures, reading, left, workers, monitor>>

\* Mutant: the newest future first.
StartReadingNewest ==
    /\ epc = "wait" /\ reading = 0 /\ status[goal] = "none"
    /\ IF futures # << >>
       THEN reading' = Last(futures) /\ futures' = Front(futures)
       ELSE reading' = goal /\ UNCHANGED futures
    /\ left' = queues[reading']
    /\ UNCHANGED <<scenario, call, status, answers, queues, batches, epc, goal, workers, monitor>>

\* The next get_response: futures are drained in order, oldest first, up to
\* the one waited for, or all of them before a blocking call.
StartReading ==
    /\ epc = "wait" /\ reading = 0 /\ status[goal] = "none"
    /\ IF futures # << >>
       THEN reading' = Head(futures) /\ futures' = Tail(futures)
       ELSE reading' = goal /\ UNCHANGED futures
    /\ left' = queues[reading']
    /\ UNCHANGED <<scenario, call, status, answers, queues, batches, epc, goal, workers, monitor>>

Finish(s) ==
    /\ status' = [status EXCEPT ![reading] = s]
    /\ reading' = 0 /\ left' = << >>

\* A failing answer ends get_response at once.
EndsReading(ok) == ~ok

ReadAnswer ==
    /\ reading # 0 /\ left # << >>
    /\ LET w == Head(left)
           a == Head(resp[w]) IN
       /\ resp[w] # << >>
       /\ resp' = [resp EXCEPT ![w] = Tail(@)]
       /\ answers' = [answers EXCEPT ![reading] = Append(@, a.for)]
       /\ IF EndsReading(a.ok)
          THEN Finish("error")
          ELSE left' = Tail(left) /\ UNCHANGED <<status, reading>>
    /\ UNCHANGED <<scenario, call, queues, futures, batches, epc, goal,
                   cmd, work, copying, copier, alive, monitor>>

\* The aggregator fails on an empty list; a utility returns it.
AllRead ==
    /\ reading # 0 /\ left = << >>
    /\ Finish(IF call[reading] = "step" /\ queues[reading] = << >> THEN "error" ELSE "value")
    /\ UNCHANGED <<scenario, call, answers, queues, futures, batches, epc, goal, workers, monitor>>

\* Mutant: a queue that is shut down goes on being waited for.
OnlyAtDeadline ==
    /\ reading # 0 /\ left # << >> /\ resp[Head(left)] = << >>
    /\ "timeout" \in Faults /\ call[reading] # "now"
    /\ Finish("error")
    /\ UNCHANGED <<scenario, call, answers, queues, futures, batches, epc, goal, workers, monitor>>

\* The deadline passes, or the queue is shut down, while it is empty.
ReadGivesUp ==
    /\ reading # 0 /\ left # << >> /\ resp[Head(left)] = << >>
    /\ ("timeout" \in Faults /\ call[reading] # "now") \/ Reached("cancelled")
    /\ Finish("error")
    /\ UNCHANGED <<scenario, call, answers, queues, futures, batches, epc, goal, workers, monitor>>

\* The engine goes on with the result, or with the error.
Resume ==
    /\ epc = "wait" /\ reading = 0 /\ status[goal] # "none"
    /\ epc' = IF status[goal] = "value" THEN "idle" ELSE AfterError(call[goal])
    /\ UNCHANGED <<scenario, call, status, answers, queues, futures, batches, goal, reading, left,
                   workers, monitor>>

\* The failure callback leaves a request that ends the engine.
ExecutorFailed ==
    /\ epc = "idle" /\ monitor = "told"
    /\ epc' = "dead"
    /\ UNCHANGED <<scenario, call, status, answers, queues, futures, batches, goal, reading, left,
                   workers, monitor>>

-----------------------------------------------------------------------------
(* A worker: worker_busy_loop and the thread that copies outputs.          *)

Receive(w) ==
    /\ alive[w] /\ work[w] = 0 /\ cmd[w] # << >>
    /\ work' = [work EXCEPT ![w] = Head(cmd[w])]
    /\ cmd' = [cmd EXCEPT ![w] = Tail(@)]
    /\ UNCHANGED <<scenario, engine, copying, copier, resp, alive, monitor>>

\* Every rank executes a call; the ones with an output rank are answered by it.
Answers(w, c) == Contains(AnsweredBy(call[c]), w)

Execute(w, ok) ==
    /\ alive[w] /\ work[w] # 0
    /\ ok \/ "raise" \in Faults
    /\ work' = [work EXCEPT ![w] = 0]
    /\ LET out == [for |-> work[w], ok |-> ok] IN
       IF ~Answers(w, work[w])
       THEN UNCHANGED <<copying, resp>>
       ELSE IF Async
       THEN copying' = [copying EXCEPT ![w] = Append(@, out)] /\ UNCHANGED resp
       ELSE resp' = [resp EXCEPT ![w] = Append(@, out)] /\ UNCHANGED copying
    /\ UNCHANGED <<scenario, engine, cmd, copier, alive, monitor>>

CopyOutput(w) ==
    /\ alive[w] /\ copier[w] /\ copying[w] # << >>
    /\ resp' = [resp EXCEPT ![w] = Append(@, Head(copying[w]))]
    /\ copying' = [copying EXCEPT ![w] = Tail(@)]
    /\ UNCHANGED <<scenario, engine, cmd, work, copier, alive, monitor>>

\* get_output of a step raises: nothing in the thread catches it.
CopyRaises(w) ==
    /\ "thread" \in Faults
    /\ alive[w] /\ copier[w] /\ copying[w] # << >>
    /\ Head(copying[w]).ok /\ call[Head(copying[w]).for] = "step"
    /\ copier' = [copier EXCEPT ![w] = FALSE]
    /\ copying' = [copying EXCEPT ![w] = Tail(@)]
    /\ UNCHANGED <<scenario, engine, cmd, work, resp, alive, monitor>>

Die(w) ==
    /\ "death" \in Faults /\ alive[w]
    /\ alive' = [alive EXCEPT ![w] = FALSE]
    /\ UNCHANGED <<scenario, engine, cmd, work, copying, copier, resp, monitor>>

-----------------------------------------------------------------------------
(* The monitor thread of the executor, woken by the first dead worker.     *)

MonitorStep ==
    /\ monitor # "told"
    /\ monitor = "watch" => \E w \in Ranks : ~alive[w]
    /\ monitor' = Stages[StageNumber(monitor) + 1]
    /\ alive' = IF monitor' = "terminated" THEN [w \in Ranks |-> FALSE] ELSE alive
    /\ UNCHANGED <<scenario, engine, cmd, work, copying, copier, resp>>

-----------------------------------------------------------------------------
Init ==
    /\ scenario \in Scenarios
    /\ call = << >> /\ status = << >> /\ answers = << >> /\ queues = << >>
    /\ futures = << >> /\ batches = << >>
    /\ epc = "idle" /\ goal = 0 /\ reading = 0 /\ left = << >>
    /\ cmd = [w \in Ranks |-> << >>]
    /\ work = [w \in Ranks |-> 0]
    /\ copying = [w \in Ranks |-> << >>]
    /\ copier = [w \in Ranks |-> TRUE]
    /\ resp = [w \in Ranks |-> << >>]
    /\ alive = [w \in Ranks |-> TRUE]
    /\ monitor = "watch"

\* A step always has a deadline, VLLM_EXECUTE_MODEL_TIMEOUT_SECONDS.
MustGiveUp == Reached("cancelled") \/ (reading # 0 /\ call[reading] = "step")
EngineStep ==
    \/ Send \/ TakeQueues \/ AskResult \/ StartReading \/ ReadAnswer \/ AllRead
    \/ (MustGiveUp /\ ReadGivesUp) \/ Resume \/ ExecutorFailed
WorkerStep(w) == Receive(w) \/ Execute(w, TRUE)

Next ==
    \/ EngineStep \/ ReadGivesUp \/ MonitorStep
    \/ \E k \in Kinds : Call(k)
    \/ \E w \in Ranks : WorkerStep(w) \/ Execute(w, FALSE) \/ CopyOutput(w) \/ CopyRaises(w) \/ Die(w)

\* Processes and threads that run are scheduled; nothing obliges a call or a
\* fault.
Fairness ==
    /\ WF_vars(EngineStep) /\ WF_vars(MonitorStep)
    /\ \A w \in Ranks : WF_vars(WorkerStep(w)) /\ WF_vars(CopyOutput(w))
Spec == Init /\ [][Next]_vars /\ Fairness

-----------------------------------------------------------------------------
(* Properties.                                                             *)

Calls == 1 .. Len(call)

\* As long as nothing fails, a call is given answers to that call, never
\* those of another.  When calls raise on some rank, the answers of rank 0
\* still are, since every call it answers hears it first; those of a rank
\* that is heard after a failure are left in its queue for the next call.
AnswersAreOwn ==
    \A c \in Calls : \A i \in 1 .. Len(answers[c]) :
        Faults = {} \/ (Faults = {"raise"} /\ queues[c][i] = 0) => answers[c][i] = c

\* Whatever goes wrong, no call is given the answer to a later one, and the
\* answers of a rank are given out in the order of the calls, each once.
AnswersInOrder ==
    \A c \in Calls : \A i \in 1 .. Len(answers[c]) :
        /\ answers[c][i] <= c
        /\ \A d \in 1 .. c - 1 : \A j \in 1 .. Len(answers[d]) :
               queues[d][j] = queues[c][i] => answers[d][j] < answers[c][i]

\* The engine never waits for ever, also when workers die at any moment.
EveryWaitEnds == (epc = "wait" /\ Faults \subseteq {"death"}) ~> epc # "wait"
=============================================================================
