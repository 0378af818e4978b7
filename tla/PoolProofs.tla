------------------------------ MODULE PoolProofs ------------------------------
(***************************************************************************)
(* Proofs about Pool for every number of requests, slots and queue places. *)
(***************************************************************************)
EXTENDS Pool, TLAPS

\* The steps of a Close, main's or a failed NewPool's; every other leaves it where it is.
LEMMA CloserSteps ==
  [Next]_vars => BootFails \/ BeginClose \/ Closing \/ UNCHANGED <<closer, killIdx>>
<1> USE DEF lifecycle
<1>1. Booting => BootFails \/ UNCHANGED <<closer, killIdx>>
  BY DEF Booting, BootSlot, BootReady, BootReturnsError
<1>2. Draining \/ World => UNCHANGED <<closer, killIdx>>
  BY DEF Draining, BeginDrain, WaitReturns, DrainDone, DrainExpires, DrainGoes, World, CtxEnds,
         BrowserDies, ConnectionDrops
<1>3. ASSUME NEW r \in Requests PROVE Caller(r) => UNCHANGED <<closer, killIdx>>
  BY DEF Caller, Call, PassCheck, RefuseShutdown, Enqueue, RefuseDone, RefuseCtx,
         RefuseFull, CountQueued, TakeResult, GiveUp, Refuse, Return
<1>4. ASSUME NEW s \in Slots PROVE Worker(s) => UNCHANGED <<closer, killIdx>>
  BY DEF Worker, Receive, CountTaken, Occupy, WorkerStops, LastAnswer, ConvertReturns, Deliver,
         Finish, Release, Decide, KillOld, ReapOld, Started, Install, RestartFails,
         BackoffExpires, BackoffStops
<1>5. Terminated \/ UNCHANGED vars => UNCHANGED <<closer, killIdx>>
  BY DEF Terminated, vars
<1> QED
  BY <1>1, <1>2, <1>3, <1>4, <1>5 DEF Next

\* Only a turn of NewPool's loop adds a slot.
LEMMA BootedSteps == [Next]_vars => BootSlot \/ UNCHANGED booted
<1> USE DEF lifecycle
<1>1. Booting \/ BeginClose \/ Closing => BootSlot \/ UNCHANGED booted
  BY DEF Booting, BootFails, BootReady, BootReturnsError, BeginClose, Closing, CloseDone,
         CloseLocks, CloseSlot, CloseWaits, CloseReturns
<1>2. Draining \/ World => UNCHANGED booted
  BY DEF Draining, BeginDrain, WaitReturns, DrainDone, DrainExpires, DrainGoes, World, CtxEnds,
         BrowserDies, ConnectionDrops
<1>3. ASSUME NEW r \in Requests PROVE Caller(r) => UNCHANGED booted
  BY DEF Caller, Call, PassCheck, RefuseShutdown, Enqueue, RefuseDone, RefuseCtx,
         RefuseFull, CountQueued, TakeResult, GiveUp, Refuse, Return
<1>4. ASSUME NEW s \in Slots PROVE Worker(s) => UNCHANGED booted
  BY DEF Worker, Receive, CountTaken, Occupy, WorkerStops, LastAnswer, ConvertReturns, Deliver,
         Finish, Release, Decide, KillOld, ReapOld, Started, Install, RestartFails,
         BackoffExpires, BackoffStops
<1>5. Terminated \/ UNCHANGED vars => UNCHANGED booted
  BY DEF Terminated, vars
<1> QED
  BY <1>1, <1>2, <1>3, <1>4, <1>5 DEF Next

\* Close waits only for the process of a slot that NewPool has appended.
KillInv ==
  /\ booted \in 0 .. Size /\ killIdx \in 0 .. Size + 1
  /\ closer = "killing" => killIdx \in 1 .. Size + 1
  /\ closer = "reaping" => killIdx \in 1 .. booted

\* It holds at all times.
LEMMA KillInvAlways == Spec => []KillInv
<1> USE PoolAssumption DEF PoolAssumption, KillInv
<1>1. Init => KillInv
  BY DEF Init
<1>2. ASSUME KillInv, [Next]_vars PROVE KillInv'
  <2>0. KillInv
    BY <1>2
  <2>1. CASE BootSlot
    BY <2>0, <2>1 DEF BootSlot
  <2>2. CASE UNCHANGED <<booted, closer, killIdx>>
    BY <2>0, <2>2
  <2>3. CASE BootFails \/ BeginClose
    BY <2>0, <2>3 DEF BootFails, BeginClose
  <2>4. CASE Closing
    BY <2>0, <2>4 DEF Closing, CloseDone, CloseLocks, CloseSlot, CloseWaits, CloseReturns
  <2> QED
    BY <1>2, <2>1, <2>2, <2>3, <2>4, CloserSteps, BootedSteps
<1> QED
  BY <1>1, <1>2, PTL DEF Spec

\* The steps that touch a slot; every other step leaves workers and instances alone.
LEMMA SlotSteps ==
  [Next]_vars =>
    \/ BootSlot \/ CloseSlot \/ CloseWaits
    \/ \E s \in Slots : BrowserDies(s) \/ ConnectionDrops(s) \/ Worker(s)
    \/ UNCHANGED <<workerVars, instVars>>
<1>1. Booting \/ BeginClose \/ Closing =>
        BootSlot \/ CloseSlot \/ CloseWaits \/ UNCHANGED <<workerVars, instVars>>
  BY DEF Booting, BootFails, BootReady, BootReturnsError, BeginClose, Closing, CloseDone,
         CloseLocks, CloseReturns
<1>2. Draining => UNCHANGED <<workerVars, instVars>>
  BY DEF Draining, BeginDrain, WaitReturns, DrainDone, DrainExpires, DrainGoes
<1>3. ASSUME NEW r \in Requests
      PROVE CtxEnds(r) \/ Caller(r) => UNCHANGED <<workerVars, instVars>>
  BY DEF CtxEnds, Caller, Call, PassCheck, RefuseShutdown, Enqueue, RefuseDone, RefuseCtx,
         RefuseFull, CountQueued, TakeResult, GiveUp, Refuse, Return
<1>4. Terminated \/ UNCHANGED vars => UNCHANGED <<workerVars, instVars>>
  BY DEF Terminated, vars
<1> QED
  BY <1>1, <1>2, <1>3, <1>4 DEF Next, World

\* A worker that serves holds a job.
JobsHeld == \A s \in Slots : wpc[s] \in Serving => job[s] \in Requests

\* No step makes one serve without.
LEMMA JobsHeldStep == ASSUME TypeOK, JobsHeld, [Next]_vars PROVE JobsHeld'
<1> USE DEF JobsHeld, Serving
<1>0. /\ JobsHeld /\ queue \in Seq(Requests) /\ job \in [Slots -> Requests \cup {NoJob}]
      /\ wpc \in [Slots -> WorkerLabels]
  BY DEF TypeOK
<1>1. CASE BootSlot
  BY <1>0, <1>1 DEF BootSlot
<1>2. CASE CloseSlot \/ CloseWaits \/ UNCHANGED <<workerVars, instVars>>
  BY <1>0, <1>2 DEF CloseSlot, CloseWaits, workerVars
<1>3. ASSUME NEW s \in Slots, BrowserDies(s) \/ ConnectionDrops(s) PROVE JobsHeld'
  BY <1>0, <1>3 DEF BrowserDies, ConnectionDrops, workerVars
<1>4. ASSUME NEW s \in Slots, Worker(s) PROVE JobsHeld'
  <2>1. CASE Receive(s)
    BY <1>0, <2>1 DEF Receive, Goto
  <2>2. CASE CountTaken(s) \/ Occupy(s) \/ LastAnswer(s) \/ ConvertReturns(s)
    BY <1>0, <2>2 DEF CountTaken, Occupy, LastAnswer, ConvertReturns, Goto
  <2>3. CASE Deliver(s)
    BY <1>0, <2>3 DEF Deliver, Goto
  <2>4. CASE \/ WorkerStops(s) \/ Finish(s) \/ Release(s) \/ Decide(s) \/ KillOld(s)
             \/ ReapOld(s) \/ Started(s) \/ Install(s) \/ RestartFails(s)
             \/ BackoffExpires(s) \/ BackoffStops(s)
    BY <1>0, <2>4 DEF WorkerStops, Finish, Release, Decide, KillOld, ReapOld, Started, Install,
       RestartFails, BackoffExpires, BackoffStops, Goto
  <2> QED
    BY <1>4, <2>1, <2>2, <2>3, <2>4 DEF Worker
<1> QED
  BY <1>1, <1>2, <1>3, <1>4, SlotSteps

\* Pool's state always has its type: every handler writes what the next reads.
THEOREM TypeCorrect == Spec => []TypeOK
<1> USE PoolAssumption DEF PoolAssumption, Slots, Outcomes, Serving, Restarting,
         WorkerLabels, ProcStates
<1>1. Init => TypeOK
  BY DEF Init, TypeOK
<1>2. ASSUME TypeOK, KillInv, JobsHeld, [Next]_vars PROVE TypeOK'
  <2>0. TypeOK
    BY <1>2
  <2> USE <2>0 DEF TypeOK, vars, lifecycle, callerVars, counters, sickness, workerVars, instVars,
                    callVars
  <2>1. CASE Booting
    <3>1. CASE BootSlot
      BY <3>1 DEF BootSlot
    <3>2. CASE BootFails
      BY <3>2 DEF BootFails
    <3>3. CASE BootReady
      BY <3>3 DEF BootReady
    <3>4. CASE BootReturnsError
      BY <3>4 DEF BootReturnsError
    <3> QED
      BY <2>1, <3>1, <3>2, <3>3, <3>4 DEF Booting
  <2>2. CASE BeginClose \/ Closing
    <3>1. CASE CloseSlot
      <4>1. closed' \in [Slots -> BOOLEAN]
        BY <3>1 DEF CloseSlot, CloseInstance
      <4>2. proc' \in [Slots -> ProcStates]
        BY <3>1 DEF CloseSlot, CloseInstance
      <4> QED
        BY <3>1, <4>1, <4>2 DEF CloseSlot
    <3>2. CASE BeginClose
      BY <3>2 DEF BeginClose
    <3>3. CASE CloseDone
      BY <3>3 DEF CloseDone
    <3>4. CASE CloseLocks
      BY <3>4 DEF CloseLocks
    <3>5. CASE CloseReturns
      BY <3>5 DEF CloseReturns
    <3>6. CASE CloseWaits
      <4>1. proc' \in [Slots -> ProcStates]
        BY <3>6 DEF CloseWaits, WaitEnds
      <4>2. killIdx' \in 0 .. Size + 1
        BY <1>2, <3>6 DEF CloseWaits, KillInv
      <4> QED
        BY <3>6, <4>1, <4>2 DEF CloseWaits
    <3> QED
      BY <2>2, <3>1, <3>2, <3>3, <3>4, <3>5, <3>6 DEF Closing
  <2>3. CASE Draining
    <3>1. ASSUME NEW to \in {"idle", "waiting", "waited", "left"}, DrainGoes(to),
                 drained' \subseteq Requests
          PROVE  TypeOK'
      BY <3>1 DEF DrainGoes
    <3> QED
      BY <2>3, <3>1 DEF Draining, BeginDrain, WaitReturns, DrainDone, DrainExpires
  <2>4. CASE World
    <3>1. ASSUME NEW r \in Requests, CtxEnds(r) PROVE TypeOK'
      BY <3>1 DEF CtxEnds
    <3>2. ASSUME NEW s \in Slots, BrowserDies(s) PROVE TypeOK'
      BY <3>2 DEF BrowserDies
    <3>3. ASSUME NEW s \in Slots, ConnectionDrops(s) PROVE TypeOK'
      BY <3>3 DEF ConnectionDrops
    <3> QED
      BY <2>4, <3>1, <3>2, <3>3 DEF World
  <2>5. ASSUME NEW r \in Requests, Caller(r) PROVE TypeOK'
    <3>1. CASE Call(r)
      BY <3>1 DEF Call
    <3>2. CASE PassCheck(r)
      BY <3>2 DEF PassCheck
    <3>3. CASE CountQueued(r)
      BY <3>3 DEF CountQueued
    <3>4. CASE Enqueue(r)
      BY <3>4 DEF Enqueue
    <3>5. ASSUME NEW err \in {"full", "ctx"}, Refuse(r, err) PROVE TypeOK'
      BY <3>5 DEF Refuse
    <3>6. ASSUME NEW value \in Outcomes, Return(r, value) PROVE TypeOK'
      BY <3>6 DEF Return
    <3>7. CASE RefuseShutdown(r) \/ RefuseDone(r) \/ RefuseCtx(r) \/ RefuseFull(r)
      BY <3>5, <3>7 DEF RefuseShutdown, RefuseDone, RefuseCtx, RefuseFull
    <3>8. CASE TakeResult(r) \/ GiveUp(r)
      BY <3>6, <3>8 DEF TakeResult, GiveUp
    <3> QED
      BY <2>5, <3>1, <3>2, <3>3, <3>4, <3>7, <3>8 DEF Caller
  <2>6. ASSUME NEW s \in Slots, Worker(s) PROVE TypeOK'
    <3> USE DEF Goto
    <3>1. CASE Receive(s)
      BY <3>1 DEF Receive
    <3>12. CASE CountTaken(s)
      BY <3>12 DEF CountTaken
    <3>13. CASE Occupy(s)
      BY <3>13 DEF Occupy
    <3>14. CASE LastAnswer(s)
      BY <3>14 DEF LastAnswer
    <3>2. CASE ConvertReturns(s)
      <4>1. ASSUME NEW o \in Outcomes, fallos' = Tally(o) PROVE fallos' \in Nat
        BY <4>1 DEF Tally
      <4>2. fallos' \in Nat /\ outcome' \in [Slots -> Outcomes \cup {"none"}]
        BY <3>2, <4>1 DEF ConvertReturns
      <4>3. conversions' \in [Slots -> Nat] /\ wpc' \in [Slots -> WorkerLabels]
        BY <3>2 DEF ConvertReturns
      <4>4. streak' \subseteq Requests
        <5>1. wpc[s] \in Serving
          BY <3>2 DEF ConvertReturns
        <5> QED
          BY <1>2, <3>2, <5>1 DEF ConvertReturns, JobsHeld
      <4> QED
        BY <3>2, <4>2, <4>3, <4>4 DEF ConvertReturns
    <3>3. CASE Deliver(s)
      BY <3>3 DEF Deliver
    <3>4. CASE Finish(s)
      BY <3>4 DEF Finish
    <3>15. CASE Release(s)
      BY <3>15 DEF Release
    <3>5. CASE Decide(s)
      BY <3>5 DEF Decide
    <3>10. CASE WorkerStops(s)
      BY <3>10 DEF WorkerStops
    <3>6. CASE KillOld(s)
      BY <3>6 DEF KillOld, CloseInstance
    <3>16. CASE ReapOld(s)
      BY <3>16 DEF ReapOld, WaitEnds
    <3>17. CASE Started(s)
      BY <3>17 DEF Started
    <3>7. CASE Install(s)
      BY <3>7 DEF Install
    <3>8. CASE RestartFails(s)
      BY <3>8 DEF RestartFails
    <3>9. CASE BackoffExpires(s)
      BY <3>9 DEF BackoffExpires
    <3>11. CASE BackoffStops(s)
      BY <3>11 DEF BackoffStops
    <3> QED
      BY <2>6, <3>1, <3>2, <3>3, <3>4, <3>5, <3>6, <3>7, <3>8, <3>9, <3>10, <3>11, <3>12, <3>13,
         <3>14, <3>15, <3>16, <3>17 DEF Worker
  <2>7. CASE Terminated \/ UNCHANGED vars
    BY <2>7 DEF Terminated
  <2> QED
    BY <1>2, <2>1, <2>2, <2>3, <2>4, <2>5, <2>6, <2>7 DEF Next
<1>3. Init => JobsHeld
  BY DEF Init, JobsHeld
<1>4. TypeOK /\ JobsHeld /\ [Next]_vars => JobsHeld'
  BY JobsHeldStep
<1> QED
  BY <1>1, <1>2, <1>3, <1>4, KillInvAlways, PTL DEF Spec

-----------------------------------------------------------------------------
(***************************************************************************)
(* The browsers.  Four properties of the runs follow from one inductive    *)
(* invariant about the life of a slot.                                     *)
(***************************************************************************)

\* Close is done with what slot s held.
Passed(s) == closer = "closed" \/ (closer \in {"killing", "reaping"} /\ s < killIdx)

\* Before NewPool has returned there are no calls, so no worker restarts; slots
\* are filled in order; after a failed boot the browsers of the slots that Close has
\* passed have ended.
BootInv ==
  /\ boot = "booting" => closer = "open"
  /\ boot = "ready" => booted = Size
  /\ boot = "failed" => closer = "closed"
  /\ boot # "ready" => /\ queue = << >>
                       /\ \A r \in Requests : pc[r] = "idle"
                       /\ \A s \in Slots : wpc[s] \in {"off", "recv", "exited"}
  /\ \A s \in Slots : s > booted => proc[s] = "none"
  /\ \A s \in Slots : boot # "ready" /\ Passed(s) => proc[s] \in {"none", "reaped"}

\* A live browser at its quota is on its way to be replaced.
QuotaInv ==
  \A s \in Slots :
    MaxConversions > 0 /\ ~shutdown /\ conversions[s] >= MaxConversions /\ ~closed[s]
      => wpc[s] \in {"deliver", "finish", "release", "decide", "kill"}

ReplaceInv == OneBrowserPerPort /\ KilledForAReason

InstanceInv == BootInv /\ QuotaInv /\ ReplaceInv

\* What the steps below need of TypeOK.
SlotTypes ==
  /\ booted \in 0 .. Size /\ killIdx \in 0 .. Size + 1
  /\ wpc \in [Slots -> WorkerLabels] /\ proc \in [Slots -> ProcStates]
  /\ closed \in [Slots -> BOOLEAN]
  /\ conversions \in [Slots -> Nat] /\ consecutiveFails \in [Slots -> Nat]

\* The shutdown flag is never taken back.
LEMMA ShutdownStays == [Next]_vars /\ shutdown => shutdown'
<1>1. BootFails \/ BeginClose \/ Closing => shutdown'
  BY DEF BootFails, BeginClose, Closing, CloseDone, CloseLocks, CloseSlot, CloseWaits,
         CloseReturns, shutdown
<1> QED
  BY <1>1, CloserSteps DEF shutdown

\* No step leaves a live browser at its quota in service.
LEMMA QuotaStep == ASSUME SlotTypes, BootInv, QuotaInv, [Next]_vars PROVE QuotaInv'
<1> USE PoolAssumption DEF PoolAssumption, Slots, SlotTypes, QuotaInv
<1>0. QuotaInv /\ SlotTypes /\ (shutdown => shutdown') /\ BootInv
  BY ShutdownStays
<1> USE <1>0
<1>1. CASE BootSlot
  BY <1>1 DEF BootSlot, BootInv
<1>2. CASE CloseSlot
  <2>1. shutdown'
    BY <1>2 DEF CloseSlot, shutdown
  <2> QED
    BY <1>2, <2>1 DEF CloseSlot, CloseInstance, workerVars
<1>3. ASSUME NEW s \in Slots, BrowserDies(s) PROVE QuotaInv'
  BY <1>3 DEF BrowserDies, workerVars
<1>4. ASSUME NEW s \in Slots, ConnectionDrops(s) PROVE QuotaInv'
  BY <1>4 DEF ConnectionDrops, workerVars
<1>5. ASSUME NEW s \in Slots, Worker(s) PROVE QuotaInv'
  <2> USE DEF Goto, instVars
  <2>1. CASE Receive(s) \/ CountTaken(s) \/ Occupy(s) \/ LastAnswer(s)
    BY <2>1 DEF Receive, CountTaken, Occupy, LastAnswer
  <2>2. CASE WorkerStops(s)
    BY <2>2 DEF WorkerStops
  <2>3. CASE ConvertReturns(s)
    BY <2>3 DEF ConvertReturns
  <2>4. CASE Deliver(s)
    BY <2>4 DEF Deliver
  <2>5. CASE Finish(s) \/ Release(s)
    BY <2>5 DEF Finish, Release
  <2>6. CASE Decide(s)
    BY <2>6 DEF Decide, NeedsRestart, HasCrashed
  <2>7. CASE KillOld(s) \/ ReapOld(s)
    BY <2>7 DEF KillOld, CloseInstance, ReapOld, WaitEnds
  <2>8. CASE Started(s) \/ Install(s)
    BY <2>8 DEF Started, Install
  <2>9. CASE RestartFails(s)
    BY <2>9 DEF RestartFails
  <2>10. CASE BackoffExpires(s)
    BY <2>10 DEF BackoffExpires
  <2>11. CASE BackoffStops(s)
    BY <2>11 DEF BackoffStops
  <2> QED
    BY <1>5, <2>1, <2>2, <2>3, <2>4, <2>5, <2>6, <2>7, <2>8, <2>9, <2>10, <2>11 DEF Worker
<1>6. CASE UNCHANGED <<workerVars, instVars>>
  BY <1>6 DEF workerVars, instVars
<1>7. CASE CloseWaits
  BY <1>7 DEF CloseWaits, WaitEnds, workerVars
<1> QED
  BY <1>1, <1>2, <1>3, <1>4, <1>5, <1>6, <1>7, SlotSteps

\* No step starts a browser beside a live one, or kills one without a reason.
LEMMA ReplaceStep == ASSUME SlotTypes, BootInv, ReplaceInv, [Next]_vars PROVE ReplaceInv'
<1> USE PoolAssumption DEF PoolAssumption, Slots, SlotTypes, ReplaceInv, OneBrowserPerPort, KilledForAReason,
       shutdown, Restarting
<1>0. ReplaceInv /\ SlotTypes /\ (shutdown => shutdown') /\ BootInv
  BY ShutdownStays
<1> USE <1>0
<1>1. CASE BootSlot
  BY <1>1 DEF BootSlot, BootInv
<1>2. CASE CloseSlot
  <2>1. shutdown'
    BY <1>2 DEF CloseSlot, shutdown
  <2> QED
    BY <1>2, <2>1 DEF CloseSlot, CloseInstance, workerVars
<1>3. ASSUME NEW s \in Slots, BrowserDies(s) PROVE ReplaceInv'
  BY <1>3 DEF BrowserDies, workerVars
<1>4. ASSUME NEW s \in Slots, ConnectionDrops(s) PROVE ReplaceInv'
  BY <1>4 DEF ConnectionDrops, workerVars
<1>5. ASSUME NEW s \in Slots, Worker(s) PROVE ReplaceInv'
  <2> USE DEF Goto, instVars
  <2>1. CASE Receive(s) \/ CountTaken(s) \/ Occupy(s) \/ LastAnswer(s)
    BY <2>1 DEF Receive, CountTaken, Occupy, LastAnswer
  <2>2. CASE WorkerStops(s)
    BY <2>2 DEF WorkerStops
  <2>3. CASE ConvertReturns(s)
    BY <2>3 DEF ConvertReturns
  <2>4. CASE Deliver(s)
    BY <2>4 DEF Deliver
  <2>5. CASE Finish(s) \/ Release(s)
    BY <2>5 DEF Finish, Release
  <2>6. CASE Decide(s)
    BY <2>6 DEF Decide, NeedsRestart, HasCrashed
  <2>7. CASE KillOld(s) \/ ReapOld(s)
    BY <2>7 DEF KillOld, CloseInstance, ReapOld, WaitEnds
  <2>8. CASE Started(s) \/ Install(s)
    BY <2>8 DEF Started, Install
  <2>9. CASE RestartFails(s)
    BY <2>9 DEF RestartFails
  <2>10. CASE BackoffExpires(s)
    BY <2>10 DEF BackoffExpires
  <2>11. CASE BackoffStops(s)
    BY <2>11 DEF BackoffStops
  <2> QED
    BY <1>5, <2>1, <2>2, <2>3, <2>4, <2>5, <2>6, <2>7, <2>8, <2>9, <2>10, <2>11 DEF Worker
<1>6. CASE UNCHANGED <<workerVars, instVars>>
  BY <1>6 DEF workerVars, instVars
<1>7. CASE CloseWaits
  BY <1>7 DEF CloseWaits, WaitEnds, workerVars
<1> QED
  BY <1>1, <1>2, <1>3, <1>4, <1>5, <1>6, <1>7, SlotSteps

\* Once NewPool has returned nothing changes boot and booted.
LEMMA ReadyStays == boot = "ready" /\ [Next]_vars => UNCHANGED <<boot, booted>>
<1> USE DEF lifecycle
<1>1. boot = "ready" => ~Booting
  BY DEF Booting, BootSlot, BootFails, BootReady, BootReturnsError
<1>2. BeginClose \/ Closing \/ Draining => UNCHANGED <<boot, booted>>
  BY DEF BeginClose, Closing, CloseDone, CloseLocks, CloseSlot, CloseWaits, CloseReturns,
         Draining, BeginDrain, WaitReturns, DrainDone, DrainExpires, DrainGoes
<1>3. World => UNCHANGED <<boot, booted>>
  BY DEF World, CtxEnds, BrowserDies, ConnectionDrops
<1>4. ASSUME NEW r \in Requests PROVE Caller(r) => UNCHANGED <<boot, booted>>
  BY DEF Caller, Call, PassCheck, RefuseShutdown, Enqueue, RefuseDone, RefuseCtx,
         RefuseFull, CountQueued, TakeResult, GiveUp, Refuse, Return
<1>5. ASSUME NEW s \in Slots PROVE Worker(s) => UNCHANGED <<boot, booted>>
  BY DEF Worker, Receive, CountTaken, Occupy, WorkerStops, LastAnswer, ConvertReturns, Deliver,
         Finish, Release, Decide, KillOld, ReapOld, Started, Install, RestartFails,
         BackoffExpires, BackoffStops
<1>6. Terminated \/ UNCHANGED vars => UNCHANGED <<boot, booted>>
  BY DEF Terminated, vars
<1> QED
  BY <1>1, <1>2, <1>3, <1>4, <1>5, <1>6 DEF Next

\* A boot that fails has every started browser killed, and no call slips in.
LEMMA BootStep == ASSUME SlotTypes, BootInv, [Next]_vars PROVE BootInv'
<1> USE PoolAssumption DEF PoolAssumption, Slots, SlotTypes, BootInv, Passed
<1>0. BootInv /\ SlotTypes
  OBVIOUS
<1>1. CASE boot = "ready"
  BY <1>0, <1>1, ReadyStays
<1>2. CASE boot # "ready"
  <2> USE <1>0, <1>2 DEF lifecycle, callVars, callerVars, workerVars, instVars
  <2>1. CASE BootSlot
    BY <2>1 DEF BootSlot
  <2>2. CASE BootFails
    BY <2>2 DEF BootFails
  <2>3. CASE BootReady
    BY <2>3 DEF BootReady
  <2>4. CASE BootReturnsError
    BY <2>4 DEF BootReturnsError
  <2>5. CASE CloseDone
    BY <2>5 DEF CloseDone
  <2>6. CASE CloseLocks
    BY <2>6 DEF CloseLocks
  <2>7. CASE CloseSlot
    BY <2>7 DEF CloseSlot, CloseInstance
  <2>15. CASE CloseWaits
    BY <2>15 DEF CloseWaits, WaitEnds
  <2>8. CASE CloseReturns
    BY <2>8 DEF CloseReturns
  <2>9. CASE BeginClose \/ Draining
    BY <2>9 DEF BeginClose, Draining, BeginDrain, WaitReturns, DrainDone, DrainExpires, DrainGoes
  <2>10. ASSUME NEW r \in Requests, CtxEnds(r) \/ Caller(r) PROVE BootInv'
    BY <2>10 DEF CtxEnds, Caller, Call, PassCheck, RefuseShutdown, Enqueue, RefuseDone,
           RefuseCtx, RefuseFull, CountQueued, TakeResult, GiveUp
  <2>11. ASSUME NEW s \in Slots, BrowserDies(s) PROVE BootInv'
    BY <2>11 DEF BrowserDies
  <2>12. ASSUME NEW s \in Slots, ConnectionDrops(s) PROVE BootInv'
    BY <2>12 DEF ConnectionDrops
  <2>13. ASSUME NEW s \in Slots, Worker(s) PROVE BootInv'
    <3>1. WorkerStops(s)
      BY <2>13 DEF Worker, Receive, CountTaken, Occupy, LastAnswer, ConvertReturns, Deliver,
             Finish, Release, Decide, KillOld, ReapOld, Started, Install, RestartFails,
             BackoffExpires, BackoffStops
    <3> QED
      BY <3>1 DEF WorkerStops, Goto
  <2>14. CASE Terminated \/ UNCHANGED vars
    BY <2>14 DEF Terminated, vars
  <2> QED
    BY <2>1, <2>2, <2>3, <2>4, <2>5, <2>6, <2>7, <2>8, <2>9, <2>10, <2>11, <2>12, <2>13, <2>14, <2>15
    DEF Next, Booting, Closing, World
<1> QED
  BY <1>1, <1>2

\* What is known of the slots' browsers holds at all times.
LEMMA InstanceInvAlways == Spec => []InstanceInv
<1>1. Init => InstanceInv
  BY PoolAssumption DEF PoolAssumption, Init, InstanceInv, BootInv, Passed, QuotaInv, ReplaceInv,
     OneBrowserPerPort, KilledForAReason, Slots, shutdown, Restarting
<1>2. TypeOK => SlotTypes
  BY DEF TypeOK, SlotTypes
<1>3. TypeOK /\ InstanceInv /\ [Next]_vars => InstanceInv'
  BY <1>2, BootStep, QuotaStep, ReplaceStep DEF InstanceInv
<1> QED
  BY <1>1, <1>3, TypeCorrect, PTL DEF Spec

\* A restart never runs two browsers on one port: from the start of the new one until it
\* is installed the old one has ended and was waited for, whoever else was killing it.
THEOREM OneBrowser == Spec => []OneBrowserPerPort
<1>1. InstanceInv => OneBrowserPerPort
  BY DEF InstanceInv, ReplaceInv
<1> QED
  BY <1>1, InstanceInvAlways, PTL

\* The pool kills a browser only to replace it or to close.
THEOREM KillsHaveReasons == Spec => []KilledForAReason
<1>1. InstanceInv => KilledForAReason
  BY DEF InstanceInv, ReplaceInv
<1> QED
  BY <1>1, InstanceInvAlways, PTL

\* While the pool is open no live browser serves beyond its quota.
THEOREM QuotaHolds == Spec => []QuotaRespected
<1>1. InstanceInv => QuotaRespected
  BY DEF InstanceInv, QuotaInv, QuotaRespected, Serving
<1> QED
  BY <1>1, InstanceInvAlways, PTL

\* When NewPool fails half way, the browsers it had started have ended and were waited for.
THEOREM FailedBootIsClean == Spec => []FailedBootLeavesNoBrowser
<1>1. InstanceInv => FailedBootLeavesNoBrowser
  BY DEF InstanceInv, BootInv, Passed, FailedBootLeavesNoBrowser
<1> QED
  BY <1>1, InstanceInvAlways, PTL

-----------------------------------------------------------------------------
(* What Close leaves behind *)

\* The worker of s has decided to replace its browser and has not done it yet.
Replacing(s) == wpc[s] \in Restarting

Gone(s) == Passed(s) /\ proc[s] # "up" /\ ~Replacing(s)

\* What Close has passed stays passed.
LEMMA PassedStays ==
  ASSUME SlotTypes, BootInv, [Next]_vars, NEW s \in Slots, Passed(s) PROVE Passed(s)'
<1> USE DEF Passed
<1>1. CASE BootFails \/ BeginClose
  BY <1>1 DEF BootFails, BeginClose, BootInv
<1>2. CASE Closing
  BY <1>2 DEF Closing, CloseDone, CloseLocks, CloseSlot, CloseWaits, CloseReturns, SlotTypes, Slots
<1> QED
  BY <1>1, <1>2, CloserSteps

\* Nothing but the end of a replacement that was decided on starts a browser.
LEMMA GoneStays ==
  ASSUME SlotTypes, BootInv, [Next]_vars, NEW s \in Slots, Gone(s) PROVE Gone(s)'
<1> USE PoolAssumption DEF PoolAssumption, SlotTypes, Slots, Gone, Replacing, Restarting
<1>0. Passed(s)' /\ shutdown
  BY PassedStays DEF Passed, shutdown
<1>1. CASE BootSlot
  BY <1>0, <1>1 DEF BootSlot, BootInv, shutdown
<1>2. CASE CloseSlot
  BY <1>0, <1>2 DEF CloseSlot, CloseInstance, workerVars
<1>5. CASE CloseWaits
  BY <1>0, <1>5 DEF CloseWaits, WaitEnds, workerVars
<1>6. CASE UNCHANGED <<workerVars, instVars>>
  BY <1>0, <1>6 DEF workerVars, instVars
<1>3. ASSUME NEW t \in Slots, BrowserDies(t) \/ ConnectionDrops(t) PROVE Gone(s)'
  BY <1>0, <1>3 DEF BrowserDies, ConnectionDrops, workerVars
<1>4. ASSUME NEW t \in Slots, Worker(t) PROVE Gone(s)'
  <2> USE <1>0 DEF Goto, instVars
  <2>1. CASE Receive(t) \/ CountTaken(t) \/ Occupy(t) \/ WorkerStops(t) \/ LastAnswer(t)
    BY <2>1 DEF Receive, CountTaken, Occupy, WorkerStops, LastAnswer
  <2>2. CASE ConvertReturns(t) \/ Deliver(t) \/ Finish(t) \/ Release(t) \/ Decide(t)
    BY <2>2 DEF ConvertReturns, Deliver, Finish, Release, Decide
  <2>3. CASE KillOld(t) \/ ReapOld(t) \/ Started(t)
    BY <2>3 DEF KillOld, CloseInstance, ReapOld, WaitEnds, Started
  <2>4. CASE Install(t) \/ RestartFails(t) \/ BackoffExpires(t) \/ BackoffStops(t)
    BY <2>4 DEF Install, RestartFails, BackoffExpires, BackoffStops
  <2> QED
    BY <1>4, <2>1, <2>2, <2>3, <2>4 DEF Worker
<1> QED
  BY <1>0, <1>1, <1>2, <1>3, <1>4, <1>5, <1>6, SlotSteps

\* As Close passes a slot, its browser is dead; what may be under way is a replacement.
LEMMA PassingKills ==
  ASSUME SlotTypes, BootInv, [Next]_vars, NEW s \in Slots, ~Passed(s), Passed(s)'
  PROVE  Gone(s)' \/ Replacing(s)
<1> USE PoolAssumption DEF PoolAssumption, SlotTypes, Slots, Passed
<1>1. CASE CloseSlot
  BY <1>1 DEF CloseSlot, CloseInstance, workerVars, Gone, Replacing
<1>2. CASE CloseReturns
  BY <1>2 DEF CloseReturns, BootInv, workerVars, instVars, Gone, Replacing
<1>4. CASE CloseWaits
  BY <1>4 DEF CloseWaits, WaitEnds, workerVars, Gone, Replacing
<1>3. ~(BootFails \/ BeginClose \/ CloseDone \/ CloseLocks \/ UNCHANGED <<closer, killIdx>>)
  BY DEF BootFails, BeginClose, CloseDone, CloseLocks
<1> QED
  BY <1>1, <1>2, <1>3, <1>4, CloserSteps DEF Closing

\* What NoBrowserOutlivesClose gets wrong, and that it gets nothing else wrong: as
\* Close passes a slot (pool.go Close), the slot's browser is dead for good, unless the
\* slot's worker had decided to replace it before the shutdown was flagged and has not
\* finished.  Only that replacement starts a browser which nobody will kill.
THEOREM OnlyReplacementsOutliveClose ==
  Spec => \A s \in Slots : /\ [][~Passed(s) /\ Passed(s)' => Gone(s)' \/ Replacing(s)]_vars
                           /\ [](Gone(s) => []Gone(s))
<1> SUFFICES ASSUME NEW s \in Slots
             PROVE  Spec => /\ [][~Passed(s) /\ Passed(s)' => Gone(s)' \/ Replacing(s)]_vars
                            /\ [](Gone(s) => []Gone(s))
  OBVIOUS
<1>1. SlotTypes /\ BootInv /\ [Next]_vars
        => [~Passed(s) /\ Passed(s)' => Gone(s)' \/ Replacing(s)]_vars
  BY PassingKills
<1>2. SlotTypes /\ BootInv /\ [Next]_vars /\ Gone(s) => Gone(s)'
  BY GoneStays
<1>3. TypeOK /\ InstanceInv => SlotTypes /\ BootInv
  BY DEF TypeOK, SlotTypes, InstanceInv
<1> QED
  BY <1>1, <1>2, <1>3, TypeCorrect, InstanceInvAlways, PTL DEF Spec
=============================================================================
