-------------------------------- MODULE Pool --------------------------------
(***************************************************************************)
(* The Chromium pool of internal/browser/pool.go: request goroutines call  *)
(* Convert, one worker goroutine per slot takes jobs from a shared bounded *)
(* channel, and main starts the pool, drains it and closes it.  Browsers   *)
(* die, connections drop and request contexts end at any moment.           *)
(*                                                                         *)
(* A request is one call of Convert.  Documents, options and PDF bytes are *)
(* abstracted to the outcome of the conversion: "ok", "err" (a browser or  *)
(* protocol failure) or "ctx" (the request's context ended).               *)
(***************************************************************************)
EXTENDS Integers, Sequences, FiniteSets

CONSTANTS Requests,        \* calls of Convert, each made at most once
          NoJob,           \* a worker that holds no job
          Size,            \* PoolConfig.Size
          QueueDepth,      \* PoolConfig.QueueDepth, 0 or less means Size * 4
          MaxConversions   \* PoolConfig.MaxConversions, 0 means unlimited

ASSUME PoolAssumption ==
  /\ IsFiniteSet(Requests)
  /\ NoJob \notin Requests
  /\ Size \in Nat \ {0}
  /\ QueueDepth \in Int
  /\ MaxConversions \in Nat

VARIABLES
  boot, booted,             \* NewPool: its progress, and the slots it has appended
  closer, killIdx,          \* Close: its progress, and the slot it kills next
  drain, wg,                \* Drain: its progress, and the WaitGroup it waits on
  drained,                  \* history: the calls begun before that Wait returned
  pc, ctxDone, result, ret, \* per request: control, context, result channel, return value
  queue, queueGauge,        \* p.queue and gopress_pool_queue_size
  freeGauge,                \* gopress_pool_free_instances
  fallos,                   \* p.fallosSeguidos
  streak,                   \* history: requests that failed since the last success
  wpc, job, outcome,        \* per worker: control, pj, and the err of inst.Convert
  consecutiveFails,         \* per worker: failed restarts in a row
  proc, closed, conversions \* per slot, its instance: process, client.done, count

lifecycle  == <<boot, booted, closer, killIdx, drain, drained>>
callerVars == <<pc, ctxDone, ret>>
sickness   == <<fallos, streak>>
counters   == <<queueGauge, freeGauge, sickness>>
workerVars == <<wpc, job, outcome, consecutiveFails>>
instVars   == <<proc, closed, conversions>>
callVars   == <<wg, callerVars, result, queue, counters>>
vars       == <<lifecycle, callVars, workerVars, instVars>>

Slots == 1 .. Size
queueCap == IF QueueDepth <= 0 THEN Size * 4 ELSE QueueDepth
maxFallosSeguidos == 3

\* p.shutdown is stored first, then p.done is closed, then p.mu is taken.
shutdown   == closer # "open"
doneClosed == closer \in {"signalled", "killing", "reaping", "closed"}
muHeld     == closer \in {"killing", "reaping"}

Outcomes == {"ok", "err", "ctx"}
\* A worker's label is the statement it comes to next.
Serving    == {"uncount", "occupy", "convert", "answered", "deliver"}   \* an unanswered job
Restarting == {"kill", "reap", "start", "install"}                      \* inside restart
WorkerLabels == {"off", "recv", "finish", "release", "decide", "backoff", "exited"}
                  \cup Serving \cup Restarting
\* "killed" by the pool; "reaped" when a Wait has collected its exit status.
ProcStates == {"none", "up", "died", "killed", "reaped"}

Queued(r) == \E i \in 1 .. Len(queue) : queue[i] = r

Init ==
  /\ boot = "booting" /\ booted = 0
  /\ closer = "open" /\ killIdx = 0
  /\ drain = "idle" /\ wg = 0 /\ drained = {}
  /\ pc = [r \in Requests |-> "idle"]
  /\ ctxDone = [r \in Requests |-> FALSE]
  /\ ret = [r \in Requests |-> "none"]
  /\ result = [r \in Requests |-> "none"]
  /\ queue = << >>
  /\ queueGauge = 0 /\ freeGauge = 0 /\ fallos = 0 /\ streak = {}
  /\ wpc = [s \in Slots |-> "off"]
  /\ job = [s \in Slots |-> NoJob]
  /\ outcome = [s \in Slots |-> "none"]
  /\ consecutiveFails = [s \in Slots |-> 0]
  /\ proc = [s \in Slots |-> "none"]
  /\ closed = [s \in Slots |-> FALSE]
  /\ conversions = [s \in Slots |-> 0]

-----------------------------------------------------------------------------
(* NewPool *)

\* Mutant: the loop runs once too often.
BootsOneMore ==
  /\ boot = "booting" /\ booted <= Size
  /\ booted' = booted + 1
  /\ proc' = [proc EXCEPT ![booted + 1] = "up"]
  /\ wpc' = [wpc EXCEPT ![booted + 1] = "recv"]
  /\ UNCHANGED <<boot, closer, killIdx, drain, drained, callVars, job, outcome,
                 consecutiveFails, closed, conversions>>

\* One turn of the loop: newInstance succeeds, the slot is appended and its
\* worker started.
BootSlot ==
  /\ boot = "booting" /\ booted < Size
  /\ booted' = booted + 1
  /\ proc' = [proc EXCEPT ![booted + 1] = "up"]
  /\ wpc' = [wpc EXCEPT ![booted + 1] = "recv"]
  /\ UNCHANGED <<boot, closer, killIdx, drain, drained, callVars, job, outcome,
                 consecutiveFails, closed, conversions>>

\* Mutant: NewPool returns the error without calling Close.
ForgetsBooted ==
  /\ boot = "booting" /\ booted < Size
  /\ boot' = "failed"
  /\ UNCHANGED <<booted, closer, killIdx, drain, drained, callVars, workerVars, instVars>>

\* newInstance fails, having killed what it started; NewPool calls Close.
BootFails ==
  /\ boot = "booting" /\ booted < Size
  /\ boot' = "aborting"
  /\ closer' = "flagged"
  /\ UNCHANGED <<booted, killIdx, drain, drained, callVars, workerVars, instVars>>

BootReady ==
  /\ boot = "booting" /\ booted = Size
  /\ boot' = "ready"
  /\ freeGauge' = Size
  /\ UNCHANGED <<booted, closer, killIdx, drain, drained, wg, callerVars, result, queue,
                 queueGauge, sickness, workerVars, instVars>>

BootReturnsError ==
  /\ boot = "aborting" /\ closer = "closed"
  /\ boot' = "failed"
  /\ UNCHANGED <<booted, closer, killIdx, drain, drained, callVars, workerVars, instVars>>

-----------------------------------------------------------------------------
(* Convert, in a request's goroutine *)

Call(r) ==
  /\ boot = "ready" /\ pc[r] = "idle"
  /\ pc' = [pc EXCEPT ![r] = "check"]
  /\ wg' = wg + 1
  /\ UNCHANGED <<lifecycle, ctxDone, ret, result, queue, counters, workerVars, instVars>>

\* The early returns: wg.Done() and an error, nothing queued.
Refuse(r, err) ==
  /\ pc' = [pc EXCEPT ![r] = "returned"]
  /\ ret' = [ret EXCEPT ![r] = err]
  /\ wg' = wg - 1
  /\ UNCHANGED <<lifecycle, ctxDone, result, queue, counters, workerVars, instVars>>

Return(r, value) ==
  /\ pc' = [pc EXCEPT ![r] = "returned"]
  /\ ret' = [ret EXCEPT ![r] = value]
  /\ UNCHANGED <<lifecycle, wg, ctxDone, result, queue, counters, workerVars, instVars>>

\* Mutant: the early return forgets wg.Done().
ForgetsDone(r) == pc[r] = "check" /\ shutdown /\ Return(r, "full")

RefuseShutdown(r) == pc[r] = "check" /\ shutdown /\ Refuse(r, "full")

PassCheck(r) ==
  /\ pc[r] = "check" /\ ~shutdown
  /\ pc' = [pc EXCEPT ![r] = "select"]
  /\ UNCHANGED <<lifecycle, wg, ctxDone, ret, result, queue, counters, workerVars, instVars>>

\* The select picks any case that is ready, and default only when none is.
QueueHasRoom == Len(queue) < queueCap

Enqueue(r) ==
  /\ pc[r] = "select" /\ QueueHasRoom
  /\ queue' = Append(queue, r)
  /\ pc' = [pc EXCEPT ![r] = "gauge"]
  /\ UNCHANGED <<lifecycle, wg, ctxDone, ret, result, counters, workerVars, instVars>>

RefuseDone(r) == pc[r] = "select" /\ doneClosed /\ Refuse(r, "full")

RefuseCtx(r) == pc[r] = "select" /\ ctxDone[r] /\ Refuse(r, "ctx")

RefuseFull(r) ==
  /\ pc[r] = "select" /\ ~QueueHasRoom /\ ~doneClosed /\ ~ctxDone[r]
  /\ Refuse(r, "full")

\* telemetry.PoolQueueSize.Inc(), after the send.
CountQueued(r) ==
  /\ pc[r] = "gauge"
  /\ pc' = [pc EXCEPT ![r] = "wait"]
  /\ queueGauge' = queueGauge + 1
  /\ UNCHANGED <<lifecycle, wg, ctxDone, ret, result, queue, freeGauge, sickness, workerVars, instVars>>

\* Mutant: the error of the result is dropped.
DropsError(r) == pc[r] = "wait" /\ result[r] # "none" /\ Return(r, "ok")

TakeResult(r) == pc[r] = "wait" /\ result[r] # "none" /\ Return(r, result[r])

\* Mutants: the caller that leaves calls wg.Done(), or takes its job off the gauge.
LeavesDone(r) == pc[r] = "wait" /\ ctxDone[r] /\ Refuse(r, "ctx")

LeavesGauge(r) ==
  /\ pc[r] = "wait" /\ ctxDone[r]
  /\ pc' = [pc EXCEPT ![r] = "returned"] /\ ret' = [ret EXCEPT ![r] = "ctx"]
  /\ queueGauge' = queueGauge - 1
  /\ UNCHANGED <<lifecycle, wg, ctxDone, result, queue, freeGauge, sickness, workerVars, instVars>>

GiveUp(r) == pc[r] = "wait" /\ ctxDone[r] /\ Return(r, "ctx")

-----------------------------------------------------------------------------
(* What the world does: clients leave, browsers die, main gets a signal *)

\* The client disconnects, or the handler has returned (net/http).
CtxEnds(r) ==
  /\ pc[r] # "idle" /\ ~ctxDone[r]
  /\ pc[r] = "returned" => Queued(r) \/ \E s \in Slots : job[s] = r   \* else nobody looks
  /\ ctxDone' = [ctxDone EXCEPT ![r] = TRUE]
  /\ UNCHANGED <<lifecycle, wg, pc, ret, result, queue, counters, workerVars, instVars>>

\* A crash, or exec.CommandContext killing the process once lifeCtx is cancelled;
\* the cancelled context also makes newInstance fail, as it may at any time.
BrowserDies(s) ==
  /\ proc[s] = "up"
  /\ proc' = [proc EXCEPT ![s] = "died"]
  /\ UNCHANGED <<lifecycle, callVars, workerVars, closed, conversions>>

\* The client's readLoop ends and closes client.done.
ConnectionDrops(s) ==
  /\ proc[s] # "none" /\ ~closed[s]
  /\ closed' = [closed EXCEPT ![s] = TRUE]
  /\ UNCHANGED <<lifecycle, callVars, workerVars, proc, conversions>>

-----------------------------------------------------------------------------
(* worker and restart, in a slot's goroutine *)

Goto(s, label) == wpc' = [wpc EXCEPT ![s] = label]

\* The queue case of the select.
Receive(s) ==
  /\ wpc[s] = "recv" /\ queue # << >>
  /\ job' = [job EXCEPT ![s] = Head(queue)]
  /\ queue' = Tail(queue)
  /\ Goto(s, "uncount")
  /\ UNCHANGED <<lifecycle, wg, callerVars, result, counters, outcome, consecutiveFails, instVars>>

\* telemetry.PoolQueueSize.Dec() and telemetry.PoolFreeInstances.Dec().
CountTaken(s) ==
  /\ wpc[s] = "uncount"
  /\ queueGauge' = queueGauge - 1
  /\ Goto(s, "occupy")
  /\ UNCHANGED <<lifecycle, wg, callerVars, result, queue, freeGauge, sickness,
                 job, outcome, consecutiveFails, instVars>>

Occupy(s) ==
  /\ wpc[s] = "occupy"
  /\ freeGauge' = freeGauge - 1
  /\ Goto(s, "convert")
  /\ UNCHANGED <<lifecycle, wg, callerVars, result, queue, queueGauge, sickness,
                 job, outcome, consecutiveFails, instVars>>

\* Mutants: the stopping worker empties the queue; the loop has no done case.
EmptiesQueue(s) ==
  /\ wpc[s] = "recv" /\ doneClosed
  /\ queue' = << >>
  /\ Goto(s, "exited")
  /\ UNCHANGED <<lifecycle, wg, callerVars, result, counters, job, outcome,
                 consecutiveFails, instVars>>
NeverStops(s) == FALSE

WorkerStops(s) ==
  /\ wpc[s] = "recv" /\ doneClosed
  /\ Goto(s, "exited")
  /\ UNCHANGED <<lifecycle, callVars, job, outcome, consecutiveFails, instVars>>

\* Mutant: a success does not clear the count.
NeverClears(o) == IF o = "err" THEN fallos + 1 ELSE fallos

\* The switch on err: a success clears the count, a client that left is no failure.
Tally(o) == CASE o = "ok"  -> 0
              [] o = "ctx" -> fallos
              [] o = "err" -> fallos + 1

\* The PDF is in the channel of the command that prints, where the end of the
\* connection no longer touches it.
LastAnswer(s) ==
  /\ wpc[s] = "convert" /\ proc[s] = "up" /\ ~closed[s]
  /\ Goto(s, "answered")
  /\ UNCHANGED <<lifecycle, callVars, job, outcome, consecutiveFails, instVars>>

\* inst.Convert returns: a PDF counts towards the quota; any step of the protocol
\* may fail; every wait for the browser ends with the context.
ConvertReturns(s) ==
  /\ wpc[s] \in {"convert", "answered"}
  /\ \E o \in Outcomes :
       /\ o = "ok" => wpc[s] = "answered"
       /\ o = "ctx" => ctxDone[job[s]]
       /\ outcome' = [outcome EXCEPT ![s] = o]
       /\ conversions' = IF o = "ok" THEN [conversions EXCEPT ![s] = @ + 1] ELSE conversions
       /\ fallos' = Tally(o)
       /\ streak' = CASE o = "ok"  -> {}
                       [] o = "ctx" -> streak
                       [] o = "err" -> streak \cup {job[s]}
  /\ Goto(s, "deliver")
  /\ UNCHANGED <<lifecycle, wg, callerVars, result, queue, queueGauge, freeGauge, job,
                 consecutiveFails, proc, closed>>

\* Mutant: a failed conversion is logged and not delivered.
DropsFailures(s) ==
  /\ wpc[s] = "deliver" /\ result[job[s]] = "none"
  /\ result' = IF outcome[s] = "err" THEN result ELSE [result EXCEPT ![job[s]] = outcome[s]]
  /\ job' = [job EXCEPT ![s] = NoJob]
  /\ outcome' = [outcome EXCEPT ![s] = "none"]
  /\ Goto(s, "finish")
  /\ UNCHANGED <<lifecycle, wg, callerVars, queue, counters, consecutiveFails, instVars>>

\* pj.result <- jobResult{...}: the channel has room for one result.
Deliver(s) ==
  /\ wpc[s] = "deliver" /\ result[job[s]] = "none"
  /\ result' = [result EXCEPT ![job[s]] = outcome[s]]
  /\ job' = [job EXCEPT ![s] = NoJob]
  /\ outcome' = [outcome EXCEPT ![s] = "none"]
  /\ Goto(s, "finish")
  /\ UNCHANGED <<lifecycle, wg, callerVars, queue, counters, consecutiveFails, instVars>>

\* p.wg.Done(), and then telemetry.PoolFreeInstances.Inc().
Finish(s) ==
  /\ wpc[s] = "finish"
  /\ wg' = wg - 1
  /\ Goto(s, "release")
  /\ UNCHANGED <<lifecycle, callerVars, result, queue, counters,
                 job, outcome, consecutiveFails, instVars>>

Release(s) ==
  /\ wpc[s] = "release"
  /\ freeGauge' = freeGauge + 1
  /\ Goto(s, "decide")
  /\ UNCHANGED <<lifecycle, wg, callerVars, result, queue, queueGauge, sickness,
                 job, outcome, consecutiveFails, instVars>>

HasCrashed(s)   == closed[s]
\* Mutant: the quota allows one conversion too many.
QuotaOffByOne(s) == HasCrashed(s) \/ (MaxConversions > 0 /\ conversions[s] > MaxConversions)
NeedsRestart(s) == HasCrashed(s) \/ (MaxConversions > 0 /\ conversions[s] >= MaxConversions)

Decide(s) ==
  /\ wpc[s] = "decide"
  /\ Goto(s, IF NeedsRestart(s) /\ ~shutdown THEN "kill" ELSE "recv")
  /\ UNCHANGED <<lifecycle, callVars, job, outcome, consecutiveFails, instVars>>

\* Instance.Close on what slot s holds: the connection is closed and the process is
\* sent its signal.  Then Kill waits for the process, unless it had been waited for
\* already, when the signal fails and Kill returns.
CloseInstance(s) ==
  /\ closed' = [closed EXCEPT ![s] = TRUE]
  /\ proc' = [proc EXCEPT ![s] = IF @ = "up" THEN "killed" ELSE @]

\* cmd.Wait returns: the process has ended, and its exit status is collected.  Of two
\* concurrent ones the second finds that Wait was already called, or waits for ever:
\* see Robbed.
WaitEnds(s) ==
  /\ proc[s] \in {"died", "killed", "reaped"}
  /\ proc' = [proc EXCEPT ![s] = "reaped"]

\* Mutant: the old process is signalled and not waited for.
KeepsProcess(s) ==
  /\ wpc[s] = "kill"
  /\ CloseInstance(s)
  /\ Goto(s, "start")
  /\ UNCHANGED <<lifecycle, callVars, job, outcome, consecutiveFails, conversions>>

KillOld(s) ==
  /\ wpc[s] = "kill"
  /\ CloseInstance(s)
  /\ Goto(s, IF proc[s] = "reaped" THEN "start" ELSE "reap")
  /\ UNCHANGED <<lifecycle, callVars, job, outcome, consecutiveFails, conversions>>

ReapOld(s) ==
  /\ wpc[s] = "reap" /\ WaitEnds(s)
  /\ Goto(s, "start")
  /\ UNCHANGED <<lifecycle, callVars, job, outcome, consecutiveFails, closed, conversions>>

\* newInstance succeeds: the process is up, its endpoint answered, the WebSocket
\* is dialled.
Started(s) ==
  /\ wpc[s] = "start"
  /\ Goto(s, "install")
  /\ UNCHANGED <<lifecycle, callVars, job, outcome, consecutiveFails, instVars>>

\* Mutant: the new instance never reaches the slot.
ForgetsAssignment(s) ==
  /\ wpc[s] = "install" /\ ~muHeld
  /\ consecutiveFails' = [consecutiveFails EXCEPT ![s] = 0]
  /\ Goto(s, "recv")
  /\ UNCHANGED <<lifecycle, callVars, job, outcome, instVars>>

\* s.inst = inst under p.mu, and consecutiveFails = 0.
Install(s) ==
  /\ wpc[s] = "install" /\ ~muHeld
  /\ proc' = [proc EXCEPT ![s] = "up"]
  /\ closed' = [closed EXCEPT ![s] = FALSE]
  /\ conversions' = [conversions EXCEPT ![s] = 0]
  /\ consecutiveFails' = [consecutiveFails EXCEPT ![s] = 0]
  /\ Goto(s, "recv")
  /\ UNCHANGED <<lifecycle, callVars, job, outcome>>

\* Mutants: a dead slot still counts as free; a failed restart ends the worker.
KeepsGauge(s) ==
  /\ wpc[s] = "start"
  /\ consecutiveFails' = [consecutiveFails EXCEPT ![s] = @ + 1]
  /\ Goto(s, "backoff")
  /\ UNCHANGED <<lifecycle, wg, callerVars, result, queue, counters,
                 job, outcome, proc, closed, conversions>>
GivesUpSlot(s) ==
  /\ wpc[s] = "start"
  /\ freeGauge' = freeGauge - 1
  /\ consecutiveFails' = [consecutiveFails EXCEPT ![s] = @ + 1]
  /\ Goto(s, "exited")
  /\ UNCHANGED <<lifecycle, wg, callerVars, result, queue, queueGauge, sickness,
                 job, outcome, proc, closed, conversions>>

\* newInstance fails, having killed what it started; the slot is dead and its
\* worker backs off.
RestartFails(s) ==
  /\ wpc[s] = "start"
  /\ freeGauge' = freeGauge - 1
  /\ consecutiveFails' = [consecutiveFails EXCEPT ![s] = @ + 1]
  /\ Goto(s, "backoff")
  /\ UNCHANGED <<lifecycle, wg, callerVars, result, queue, queueGauge, sickness,
                 job, outcome, proc, closed, conversions>>

BackoffExpires(s) ==
  /\ wpc[s] = "backoff"
  /\ Goto(s, "recv")
  /\ UNCHANGED <<lifecycle, callVars, job, outcome, consecutiveFails, instVars>>

BackoffStops(s) ==
  /\ wpc[s] = "backoff" /\ doneClosed
  /\ Goto(s, "exited")
  /\ UNCHANGED <<lifecycle, callVars, job, outcome, consecutiveFails, instVars>>

Health == fallos < maxFallosSeguidos /\ \E s \in 1 .. booted : ~HasCrashed(s)

-----------------------------------------------------------------------------
(* Close and Drain *)

BeginClose ==
  /\ boot = "ready" /\ closer = "open"
  /\ closer' = "flagged"
  /\ UNCHANGED <<boot, booted, killIdx, drain, drained, callVars, workerVars, instVars>>

CloseDone ==
  /\ closer = "flagged"
  /\ closer' = "signalled"
  /\ UNCHANGED <<boot, booted, killIdx, drain, drained, callVars, workerVars, instVars>>

CloseLocks ==
  /\ closer = "signalled"
  /\ closer' = "killing" /\ killIdx' = 1
  /\ UNCHANGED <<boot, booted, drain, drained, callVars, workerVars, instVars>>

CloseSlot ==
  /\ closer = "killing" /\ killIdx <= booted
  /\ CloseInstance(killIdx)
  /\ \/ proc[killIdx] = "reaped" /\ killIdx' = killIdx + 1 /\ UNCHANGED closer
     \/ proc[killIdx] # "reaped" /\ closer' = "reaping" /\ UNCHANGED killIdx
  /\ UNCHANGED <<boot, booted, drain, drained, callVars, workerVars, conversions>>

\* Close waits for the process with p.mu held.
CloseWaits ==
  /\ closer = "reaping" /\ WaitEnds(killIdx)
  /\ closer' = "killing" /\ killIdx' = killIdx + 1
  /\ UNCHANGED <<boot, booted, drain, drained, callVars, workerVars, closed, conversions>>

CloseReturns ==
  /\ closer = "killing" /\ killIdx > booted
  /\ closer' = "closed"
  /\ UNCHANGED <<boot, booted, killIdx, drain, drained, callVars, workerVars, instVars>>

DrainGoes(to) ==
  /\ drain' = to
  /\ UNCHANGED <<boot, booted, closer, killIdx, callVars, workerVars, instVars>>

BeginDrain == boot = "ready" /\ drain = "idle" /\ DrainGoes("waiting") /\ UNCHANGED drained

\* In Drain's helper goroutine wg.Wait returns and done is closed, which Drain may
\* see later, or never when it has left at its deadline.
WaitReturns ==
  /\ wg = 0
  /\ \/ /\ drain = "waiting" /\ DrainGoes("waited")
        /\ drained' = {r \in Requests : pc[r] # "idle"}
     \/ drain = "left" /\ DrainGoes("idle") /\ UNCHANGED drained

DrainDone == drain = "waited" /\ DrainGoes("idle") /\ drained' = {}

DrainExpires ==
  \/ drain = "waiting" /\ DrainGoes("left") /\ UNCHANGED drained
  \/ drain = "waited" /\ DrainGoes("idle") /\ drained' = {}

-----------------------------------------------------------------------------
Booting == BootSlot \/ BootFails \/ BootReady \/ BootReturnsError

Caller(r) ==
  \/ Call(r) \/ PassCheck(r) \/ RefuseShutdown(r)
  \/ Enqueue(r) \/ RefuseDone(r) \/ RefuseCtx(r) \/ RefuseFull(r)
  \/ CountQueued(r) \/ TakeResult(r) \/ GiveUp(r)

Worker(s) ==
  \/ Receive(s) \/ WorkerStops(s) \/ CountTaken(s) \/ Occupy(s)
  \/ LastAnswer(s) \/ ConvertReturns(s) \/ Deliver(s) \/ Finish(s) \/ Release(s)
  \/ Decide(s) \/ KillOld(s) \/ ReapOld(s) \/ Started(s) \/ Install(s) \/ RestartFails(s)
  \/ BackoffExpires(s) \/ BackoffStops(s)

Closing == CloseDone \/ CloseLocks \/ CloseSlot \/ CloseWaits \/ CloseReturns

Draining == BeginDrain \/ WaitReturns \/ DrainDone \/ DrainExpires

World ==
  \/ \E r \in Requests : CtxEnds(r)
  \/ \E s \in Slots : BrowserDies(s) \/ ConnectionDrops(s)

\* Nothing is left to do: main exits.
Terminated ==
  /\ boot = "failed" \/ (closer = "closed" /\ \A r \in Requests : pc[r] = "returned")
  /\ \A s \in Slots : wpc[s] \in {"off", "exited"}
  /\ UNCHANGED vars

Next ==
  \/ Booting \/ BeginClose \/ Closing \/ Draining \/ World
  \/ \E r \in Requests : Caller(r)
  \/ \E s \in Slots : Worker(s)
  \/ Terminated

Spec == Init /\ [][Next]_vars

(***************************************************************************)
(* Fairness: the Go scheduler runs every goroutine that can step, timers   *)
(* fire, a killed process ends, drainCtx has a deadline, and net/http ends *)
(* the context of a request whose handler returned.  Nothing makes a call  *)
(* arrive, a browser die, or the calls below return.                       *)
(***************************************************************************)
\* Stuck in a conversion, or in the deferred close of its tab: send (cdp/client.go)
\* waits for the answer until its context ends, and conn.Write, which has no deadline,
\* for a browser that does not read.
Hung(s) == wpc[s] \in {"convert", "answered"} /\ (~ctxDone[job[s]] \/ proc[s] = "up")

\* newInstance: the dial and the handshake have no deadline but the pool's context.
Starting(s) == wpc[s] = "start"

\* In cmd.Wait after another has collected the exit status.
Robbed(s)   == wpc[s] = "reap" /\ proc[s] = "reaped"
CloseRobbed == closer = "reaping" /\ proc[killIdx] = "reaped"

CallerProceeds(r) == pc[r] # "idle" /\ Caller(r)

WorkerProceeds(s) == ~Hung(s) /\ ~Starting(s) /\ ~Robbed(s) /\ Worker(s)

FairSpec ==
  /\ Spec
  /\ WF_vars(~CloseRobbed /\ Closing) /\ WF_vars(WaitReturns) /\ WF_vars(DrainDone \/ DrainExpires)
  /\ \A r \in Requests : /\ WF_vars(CallerProceeds(r))
                         /\ WF_vars(pc[r] = "returned" /\ CtxEnds(r))
  /\ \A s \in Slots : WF_vars(WorkerProceeds(s))

\* The same system when every client eventually hangs up and no worker is stuck.
ImpatientSpec ==
  FairSpec /\ (\A r \in Requests : WF_vars(CtxEnds(r))) /\ \A s \in Slots : WF_vars(Worker(s))

-----------------------------------------------------------------------------
(* Properties *)

TypeOK ==
  /\ boot \in {"booting", "ready", "aborting", "failed"} /\ booted \in 0 .. Size
  /\ closer \in {"open", "flagged", "signalled", "killing", "reaping", "closed"}
  /\ killIdx \in 0 .. Size + 1
  /\ drain \in {"idle", "waiting", "waited", "left"} /\ wg \in Int
  /\ drained \subseteq Requests /\ streak \subseteq Requests
  /\ pc \in [Requests -> {"idle", "check", "select", "gauge", "wait", "returned"}]
  /\ ctxDone \in [Requests -> BOOLEAN]
  /\ ret \in [Requests -> Outcomes \cup {"none", "full"}]
  /\ result \in [Requests -> Outcomes \cup {"none"}]
  /\ queue \in Seq(Requests)
  /\ queueGauge \in Int /\ freeGauge \in Int /\ fallos \in Nat
  /\ wpc \in [Slots -> WorkerLabels]
  /\ job \in [Slots -> Requests \cup {NoJob}]
  /\ outcome \in [Slots -> Outcomes \cup {"none"}]
  /\ consecutiveFails \in [Slots -> Nat]
  /\ proc \in [Slots -> ProcStates]
  /\ closed \in [Slots -> BOOLEAN]
  /\ conversions \in [Slots -> Nat]

Count(S, P(_)) == Cardinality({x \in S : P(x)})

\* An accepted job is queued once, held by one worker, or answered: however
\* enqueueing, cancelling, restarting and closing interleave, no job is lost
\* by the pool, run twice or answered twice, and none is run that Convert
\* refused.
EachJobInOnePlace ==
  \A r \in Requests :
    LET InQueue(i) == queue[i] = r
        Holds(s)   == job[s] = r
        places == Count(1 .. Len(queue), InQueue) + Count(Slots, Holds)
                    + (IF result[r] = "none" THEN 0 ELSE 1)
    IN  /\ places <= 1
        /\ pc[r] \in {"gauge", "wait"} => places = 1
        /\ pc[r] \in {"idle", "check", "select"} \/ ret[r] = "full" => places = 0

\* The WaitGroup that Drain waits on counts the calls before their select, the
\* queued jobs and the jobs in a worker's hands up to its wg.Done(): it never
\* goes negative (a panic) and lets no job go unwaited for.  Jobs that Close strands
\* in the queue stay in it, so that a Drain after a Close waits for its deadline.
WaitGroupExact ==
  LET Entering(r)  == pc[r] \in {"check", "select"}
      Working(s)   == wpc[s] \in Serving \cup {"finish"}
  IN  wg = Count(Requests, Entering) + Len(queue) + Count(Slots, Working)

\* When Drain reports success the calls that were made before its wg.Wait returned
\* are over for the pool: none is about to be queued, is queued, or is in a worker's
\* hands.  (A call made between that return and Drain's own may be.)
DrainLosesNothing ==
  drain = "waited" =>
    \A r \in drained :
      /\ pc[r] \notin {"check", "select"} /\ ~Queued(r)
      /\ \A s \in Slots : wpc[s] \in Serving => job[s] # r

\* gopress_pool_queue_size is off the channel's length by the senders that have not
\* counted their job yet and the workers that have not uncounted the one they took,
\* and by nothing else: it returns to zero with the queue.
QueueGaugeExact ==
  LET Uncounted(r) == pc[r] = "gauge"
      Taken(s)     == wpc[s] = "uncount"
  IN  queueGauge + Count(Requests, Uncounted) = Len(queue) + Count(Slots, Taken)

\* gopress_pool_free_instances promises no more instances than there are workers
\* without a job, but for those that have just taken one and are two statements from
\* saying so; a worker that backs off from a failed restart is not promised.
FreeGaugeNeverOverstates ==
  LET Unoccupied(s) == wpc[s] \notin {"convert", "answered", "deliver", "finish", "release",
                                      "backoff"}
  IN  boot = "ready" => freeGauge <= Count(Slots, Unoccupied)

\* A restart never runs two browsers on one debugging port: while newInstance runs,
\* whoever else was killing the old process, it has ended and was waited for.
OneBrowserPerPort == \A s \in Slots : wpc[s] \in {"start", "install"} => proc[s] = "reaped"

\* While the pool is open no live browser serves beyond its quota.
QuotaRespected ==
  \A s \in Slots :
    MaxConversions > 0 /\ ~shutdown /\ conversions[s] >= MaxConversions
        /\ wpc[s] \in Serving \ {"deliver"}
      => closed[s]

\* A slot holds a browser the pool killed only while it is being replaced,
\* after a replacement failed, or once Close has begun.
KilledForAReason ==
  \A s \in Slots :
    proc[s] \in {"killed", "reaped"} =>
      shutdown \/ wpc[s] \in Restarting \/ consecutiveFails[s] > 0

\* The pool calls itself sick only when three conversions failed in a browser with
\* no success between them, or every instance has crashed: load shedding and clients
\* that leave never count, nor does what failed before the last success.
SickForAReason ==
  boot = "ready" /\ ~Health =>
    Cardinality(streak) >= maxFallosSeguidos \/ \A s \in Slots : closed[s]

\* When NewPool fails half way, the browsers it had started have ended and were
\* waited for.
FailedBootLeavesNoBrowser ==
  boot = "failed" => \A s \in Slots : proc[s] \in {"none", "reaped"}

\* A queued job is starved only by Close, or by every worker being stuck, in a
\* conversion whose client will not leave or whose browser does not read, or in the
\* start of a browser.
QueueMoves ==
  \A r \in Requests :
    <>[]Queued(r) => <>[](doneClosed \/ \A s \in Slots : Hung(s) \/ Starting(s))

\* A call of Convert waits for ever only if its client stays, on a closed pool,
\* behind workers that are all stuck, or on the stuck conversion of its own job: a
\* failed restart, a crash or another caller that leaves never strands it.
CallersReturn ==
  \A r \in Requests :
    <>[](pc[r] \in {"check", "select", "gauge", "wait"}) =>
      <>[](/\ ~ctxDone[r]
           /\ \/ doneClosed \/ \A s \in Slots : Hung(s) \/ Starting(s)
              \/ \E s \in Slots : job[s] = r /\ Hung(s))

\* Once Close has begun, it returns and every worker exits, but for a worker stuck in
\* a conversion or in the start of a browser, and for one thing more: when Close and a
\* worker kill the same browser, the one whose Wait the other robbed may stay, and if
\* that is Close, a worker with a new browser waits for its mutex.
CloseReaps ==
  <>[]shutdown =>
    <>[](/\ closer = "closed" \/ CloseRobbed
         /\ \A s \in 1 .. booted :
              \/ wpc[s] = "exited" \/ Hung(s) \/ Starting(s) \/ Robbed(s)
              \/ wpc[s] = "install" /\ CloseRobbed)

\* The pool is a conversion service: a bounded line served first come, first
\* served by at most Size browsers, each accepted request served once, and each
\* answer the outcome of the request's own conversion.
Service == INSTANCE ConversionService WITH
  Capacity <- queueCap, Servers <- Size,
  line <- queue, serving <- {job[s] : s \in {t \in Slots : wpc[t] \in Serving}},
  outcome <- result, answer <- ret
ServiceSpec == Service!Spec

-----------------------------------------------------------------------------
(* What comments of the code say and the code does not do *)

\* pool.go:202 "Close shuts down all Chromium instances."
NoBrowserOutlivesClose ==
  closer = "closed" /\ (\A s \in Slots : wpc[s] = "exited") => \A s \in Slots : proc[s] # "up"

\* pool.go:181 "The job is already queued; the worker will still process it and
\* call wg.Done()."
QueuedJobIsProcessed == \A r \in Requests : pc[r] = "wait" ~> result[r] # "none"
=============================================================================
