----------------------------- MODULE ServerProofs -----------------------------
(***************************************************************************)
(* Proofs about Server: main uses the pool as Pool assumes, no request     *)
(* begins a conversion once the server has shut down in time, and the pool *)
(* is closed with nothing left in it.                                      *)
(***************************************************************************)
EXTENDS Server, PoolJobProofs

\* The actions of ServerNext by who takes them.
MainMoves == MainStep \/ LeaveServing
Signalled == Signal \/ \E s \in Slots : LifeEnds(s)
Watching  == WatchdogStops \/ WatchdogSamples \/ WatchdogExits

\* Only the start of a handler accepts a request, and no request is forgotten.
LEMMA AcceptedGrows == [ServerNext]_allVars => \/ UNCHANGED accepted
                                               \/ \E r \in Requests : Accept(r)
<1> USE DEF serverVars, MainGoes
<1>1. CASE PoolRuns
  BY <1>1 DEF PoolRuns
<1>2. CASE MainMoves
  BY <1>2 DEF MainMoves, MainStep, LeaveServing, Serve, ExitUnbooted, ShutdownReturns,
              ShutdownExpires, MainDrains, DrainEnds, MainCloses, Exit
<1>3. CASE Signalled \/ Watching
  BY <1>3 DEF Signalled, Watching, Signal, LifeEnds, WatchdogStops, WatchdogSamples, WatchdogExits
<1>4. CASE UNCHANGED allVars
  BY <1>4 DEF allVars
<1> QED
  BY <1>1, <1>2, <1>3, <1>4 DEF ServerNext, MainMoves, Signalled, Watching

AcceptedInv == accepted \subseteq Requests

\* What is accepted is always a request.
LEMMA AcceptedStep == AcceptedInv /\ [ServerNext]_allVars => AcceptedInv'
BY AcceptedGrows DEF AcceptedInv, Accept

\* main, the signal and the watchdog move the pool only by its own steps.
LEMMA StepIsPoolStep == AcceptedInv /\ [ServerNext]_allVars => [Next]_vars
<1> SUFFICES ASSUME accepted \subseteq Requests, ServerNext PROVE [Next]_vars
  BY DEF allVars, AcceptedInv
<1>1. CASE PoolRuns
  BY <1>1 DEF PoolRuns, Next, Draining
<1>2. CASE MainDrains \/ DrainEnds \/ MainCloses
  BY <1>2 DEF MainDrains, DrainEnds, MainCloses, Next, Draining
<1>3. ASSUME NEW s \in Slots, LifeEnds(s) PROVE [Next]_vars
  BY <1>3 DEF LifeEnds, Next, World
<1>4. CASE Serve \/ ExitUnbooted \/ LeaveServing \/ ShutdownReturns \/ ShutdownExpires \/ Exit
  BY <1>4 DEF Serve, ExitUnbooted, LeaveServing, ShutdownReturns, ShutdownExpires, Exit
<1>5. CASE Signal \/ Watching \/ \E r \in Requests : Accept(r)
  BY <1>5 DEF Signal, Watching, WatchdogStops, WatchdogSamples, WatchdogExits, Accept
<1>6. CASE UNCHANGED allVars
  BY <1>6 DEF allVars
<1> QED
  BY <1>1, <1>2, <1>3, <1>4, <1>5, <1>6 DEF ServerNext, MainStep, Watching

\* Every run of the process is, for the pool, one of the runs that Pool
\* describes: main's order of Drain and Close, the signal that kills browsers
\* and the watchdog do nothing that the theorems about Spec do not cover.
THEOREM ServerRunsPool == ServerSpec => Spec
<1>1. ServerInit => Init /\ AcceptedInv
  BY DEF ServerInit, AcceptedInv
<1> QED
  BY <1>1, AcceptedStep, StepIsPoolStep, PTL DEF ServerSpec, Spec

-----------------------------------------------------------------------------
(* The handlers and the shutdown *)

\* A call of Convert moves nothing but its own request, which a handler holds
\* and which has not returned; every other step leaves the calls alone.
CallOf(r) ==
  /\ r \in accepted /\ pc[r] # "returned"
  /\ \A q \in Requests \ {r} : pc'[q] = pc[q]
  /\ UNCHANGED <<serverVars, drain>>

\* Every step of the process leaves the calls alone or is one call's own.
LEMMA CallsMove ==
  ASSUME TypeOK, accepted \subseteq Requests, [ServerNext]_allVars
  PROVE  UNCHANGED pc \/ \E r \in Requests : CallOf(r)
<1> USE DEF vars, lifecycle, callerVars, counters, workerVars, instVars, callVars
<1>0. pc \in [Requests -> {"idle", "check", "select", "gauge", "wait", "returned"}]
  BY DEF TypeOK
<1>1. ASSUME NEW r \in accepted, Caller(r), UNCHANGED serverVars
      PROVE  CallOf(r)
  <2>1. ASSUME NEW err, pc[r] # "returned", Refuse(r, err) PROVE CallOf(r)
    BY <1>0, <1>1, <2>1 DEF Refuse, CallOf
  <2>2. ASSUME NEW value, pc[r] # "returned", Return(r, value) PROVE CallOf(r)
    BY <1>0, <1>1, <2>2 DEF Return, CallOf
  <2>3. CASE Call(r) \/ PassCheck(r) \/ Enqueue(r) \/ CountQueued(r)
    BY <1>0, <1>1, <2>3 DEF Call, PassCheck, Enqueue, CountQueued, CallOf
  <2>4. CASE RefuseShutdown(r) \/ RefuseDone(r) \/ RefuseCtx(r) \/ RefuseFull(r)
    BY <2>1, <2>4 DEF RefuseShutdown, RefuseDone, RefuseCtx, RefuseFull
  <2>5. CASE TakeResult(r) \/ GiveUp(r)
    BY <2>2, <2>5 DEF TakeResult, GiveUp
  <2> QED
    BY <1>1, <2>3, <2>4, <2>5 DEF Caller
<1>2. ASSUME NEW s \in Slots, Worker(s) PROVE UNCHANGED pc
  BY <1>2 DEF Worker, Receive, CountTaken, Occupy, WorkerStops, LastAnswer, ConvertReturns,
              Deliver, Finish, Release, Decide, KillOld, ReapOld, Started, Install,
              RestartFails, BackoffExpires, BackoffStops
<1>3. CASE Booting \/ Closing \/ World \/ WaitReturns
  BY <1>3 DEF Booting, BootSlot, BootFails, BootReady, BootReturnsError, Closing, CloseDone,
              CloseLocks, CloseSlot, CloseWaits, CloseReturns, World, CtxEnds, BrowserDies,
              ConnectionDrops, WaitReturns, DrainGoes
<1>4. CASE PoolRuns
  BY <1>1, <1>2, <1>3, <1>4 DEF PoolRuns
<1>5. CASE MainMoves
  BY <1>5 DEF MainMoves, MainStep, LeaveServing, Serve, ExitUnbooted, ShutdownReturns, ShutdownExpires,
              MainDrains, BeginDrain, DrainEnds, DrainDone, DrainExpires, DrainGoes,
              MainCloses, BeginClose, Exit
<1>6. CASE Signalled \/ Watching \/ \E r \in Requests : Accept(r)
  BY <1>6 DEF Signalled, Watching, Signal, LifeEnds, BrowserDies, Accept, WatchdogStops,
              WatchdogSamples, WatchdogExits
<1>7. CASE UNCHANGED allVars
  BY <1>7 DEF allVars
<1> QED
  BY <1>4, <1>5, <1>6, <1>7 DEF ServerNext, MainMoves, Signalled, Watching

\* The state of the process always has its type: a conversion runs only for an
\* accepted request, and main is past its start only with a pool that is ready.
THEOREM ServerTypeCorrect == ServerSpec => []ServerTypeOK
<1>1. ServerInit => ServerTypeOK
  BY DEF ServerInit, Init, ServerTypeOK, MainLabels
<1>2. ASSUME TypeOK, ServerTypeOK, [ServerNext]_allVars PROVE ServerTypeOK'
  <2> USE <1>2
  <2>1. accepted' \subseteq Requests /\ accepted \subseteq accepted'
    BY AcceptedGrows DEF ServerTypeOK, Accept
  <2>2. \A r \in Requests : pc'[r] # "idle" => r \in accepted'
    BY <2>1, CallsMove DEF ServerTypeOK, CallOf
  <2>3. boot = "ready" => boot' = "ready"
    BY ReadyStays, StepIsPoolStep DEF ServerTypeOK, AcceptedInv
  <2> USE DEF ServerTypeOK, MainLabels
  <2>4. CASE PoolRuns \/ UNCHANGED allVars
    BY <2>1, <2>2, <2>3, <2>4 DEF PoolRuns, serverVars, allVars
  <2>5. CASE MainMoves
    BY <2>1, <2>2, <2>3, <2>5 DEF MainMoves, MainStep, LeaveServing, Serve, ExitUnbooted,
       ShutdownReturns, ShutdownExpires, MainDrains, DrainEnds, MainCloses, Exit, MainGoes
  <2>6. CASE Signal \/ Watching \/ \E r \in Requests : Accept(r)
    BY <2>1, <2>2, <2>3, <2>6 DEF Signal, Watching, WatchdogStops, WatchdogSamples,
       WatchdogExits, Accept
  <2>7. ASSUME NEW s \in Slots, LifeEnds(s) PROVE ServerTypeOK'
    BY <2>1, <2>2, <2>3, <2>7 DEF LifeEnds
  <2> QED
    BY <2>4, <2>5, <2>6, <2>7 DEF ServerNext, MainMoves, Watching
<1> QED
  BY <1>1, <1>2, TypeCorrect, ServerRunsPool, PTL DEF ServerSpec

\* Once Shutdown has returned in time no handler is left, and only main waits on
\* the WaitGroup, so nobody is there to call wg.Add.
AfterShutdown == {"drain", "draining", "close", "closing"}

HandlersGone ==
  /\ main \in AfterShutdown /\ "shutdown" \notin expired =>
       \A r \in accepted : pc[r] = "returned"
  /\ drain # "idle" => main \in {"draining", "close", "closing", "exited"}

\* Every step keeps it: the listener is closed, and a call needs a handler.
LEMMA HandlersGoneStep ==
  ASSUME TypeOK, ServerTypeOK, HandlersGone, [ServerNext]_allVars
  PROVE  HandlersGone'
<1> USE DEF HandlersGone, AfterShutdown
<1>1. ASSUME NEW r \in Requests, CallOf(r) PROVE HandlersGone'
  BY <1>1 DEF CallOf, serverVars, ServerTypeOK
<1>2. ASSUME UNCHANGED pc PROVE HandlersGone'
  <2> USE <1>2
  <2>1. CASE PoolRuns
    <3>1. UNCHANGED drain \/ drain # "idle"
      <4> USE DEF lifecycle
      <4>1. ASSUME NEW r \in accepted, Caller(r) PROVE UNCHANGED drain
        BY <4>1 DEF Caller, Call, PassCheck, RefuseShutdown, Enqueue, RefuseDone, RefuseCtx,
                    RefuseFull, CountQueued, TakeResult, GiveUp, Refuse, Return
      <4>2. ASSUME NEW s \in Slots, Worker(s) PROVE UNCHANGED drain
        BY <4>2 DEF Worker, Receive, CountTaken, Occupy, WorkerStops, LastAnswer, ConvertReturns,
                    Deliver, Finish, Release, Decide, KillOld, ReapOld, Started, Install,
                    RestartFails, BackoffExpires, BackoffStops
      <4>3. CASE Booting \/ Closing \/ World
        BY <4>3 DEF Booting, BootSlot, BootFails, BootReady, BootReturnsError, Closing,
                    CloseDone, CloseLocks, CloseSlot, CloseWaits, CloseReturns, World, CtxEnds,
                    BrowserDies, ConnectionDrops
      <4> QED
        BY <2>1, <4>1, <4>2, <4>3 DEF PoolRuns, WaitReturns
    <3> QED
      BY <2>1, <3>1 DEF PoolRuns, serverVars
  <2> USE DEF vars, lifecycle, MainGoes
  <2>2. CASE MainMoves
    BY <2>2 DEF MainMoves, MainStep, LeaveServing, Serve, ExitUnbooted, ShutdownReturns,
       ShutdownExpires, MainDrains, DrainEnds, BeginDrain, DrainDone, DrainExpires, DrainGoes,
       MainCloses, BeginClose, Exit
  <2>3. CASE Signalled
    BY <2>3 DEF Signalled, Signal, LifeEnds, BrowserDies
  <2>4. CASE Watching
    BY <2>4 DEF Watching, WatchdogStops, WatchdogSamples, WatchdogExits
  <2>5. ASSUME NEW r \in Requests, Accept(r) PROVE HandlersGone'
    BY <2>5 DEF Accept
  <2>6. CASE UNCHANGED allVars
    BY <2>6 DEF allVars, serverVars
  <2> QED
    BY <2>1, <2>2, <2>3, <2>4, <2>5, <2>6 DEF ServerNext, MainMoves, Signalled, Watching
<1> QED
  BY <1>1, <1>2, CallsMove DEF ServerTypeOK

\* wg.Add and wg.Wait never meet when Shutdown keeps its deadline, for every
\* number of requests and slots.
THEOREM AddAndWaitApart == ServerSpec => AddNeverRacesWait
<1>1. ServerInit => HandlersGone
  BY DEF ServerInit, Init, HandlersGone, AfterShutdown
<1>2. ASSUME TypeOK, ServerTypeOK, HandlersGone, [ServerNext]_allVars
      PROVE  [(\E r \in Requests : Call(r)) /\ drain \in {"waiting", "left"}
                => "shutdown" \in expired]_allVars
  <2> SUFFICES ASSUME drain \in {"waiting", "left"}, NEW r \in Requests, Call(r) PROVE "shutdown" \in expired
    OBVIOUS
  <2>1. pc[r] = "idle" /\ pc'[r] = "check"
    BY <1>2 DEF Call, TypeOK
  <2>2. PICK q \in Requests : CallOf(q)
    BY <1>2, <2>1, CallsMove DEF ServerTypeOK
  <2>3. r \in accepted /\ UNCHANGED main
    BY <2>1, <2>2 DEF CallOf, serverVars
  <2>4. main # "exited"
    BY <1>2, <2>1 DEF ServerNext, Running, allVars, vars, callVars, callerVars
  <2> QED
    BY <1>2, <2>1, <2>3, <2>4 DEF HandlersGone, AfterShutdown
<1> QED
  BY <1>1, <1>2, HandlersGoneStep, TypeCorrect, ServerTypeCorrect, ServerRunsPool, PTL
     DEF ServerSpec, AddNeverRacesWait

-----------------------------------------------------------------------------
(* The pool is closed with nothing left in it *)

Quiet == /\ \A r \in accepted : pc[r] = "returned"
         /\ queue = << >> /\ \A s \in Slots : wpc[s] \notin Serving \cup {"finish"}

CloseInv ==
  /\ boot = "ready" /\ closer # "open" => main \in {"closing", "exited"}
  /\ boot = "ready" /\ expired = {}
       /\ (main \in {"close", "closing"} \/ closer # "open" \/ drain = "waited") => Quiet

\* What Drain waited for: no call is on its way, queued or in a worker's hands.
LEMMA DrainedIsQuiet ==
  ASSUME TypeOK, CountInv, wg = 0
  PROVE  queue = << >> /\ \A s \in Slots : wpc[s] \notin Serving \cup {"finish"}
<1>1. queue \in Seq(Requests)
  BY DEF TypeOK
<1>2. Len(queue) = 0 /\ Cardinality(Working) = 0
  BY <1>1, CountsAreNat DEF CountInv
<1>3. Working = {}
  <2>1. IsFiniteSet(Working)
    BY SlotsFinite, FS_Subset DEF Working
  <2> QED
    BY <1>2, <2>1, FS_EmptySet
<1> QED
  BY <1>1, <1>2, <1>3 DEF Working

\* Nothing disturbs a quiet pool: a call needs a handler, a job a call.
LEMMA QuietStays ==
  ASSUME TypeOK, BootInv, ServerTypeOK, Quiet, boot = "ready", UNCHANGED accepted, [ServerNext]_allVars
  PROVE  Quiet'
<1>1. ASSUME UNCHANGED <<pc, queue, wpc>> PROVE Quiet'
  BY <1>1 DEF Quiet
<1>2. CASE PoolRuns
  <2>1. ASSUME NEW r \in accepted PROVE ~Caller(r)
    BY DEF Quiet, Caller, Call, PassCheck, RefuseShutdown, Enqueue, RefuseDone, RefuseCtx,
           RefuseFull, CountQueued, TakeResult, GiveUp
  <2>2. ASSUME NEW s \in Slots, Worker(s) PROVE Quiet'
    <3>1. /\ UNCHANGED <<pc, queue>>
          /\ \E label \in WorkerLabels :
               label \notin Serving \cup {"finish"} /\ wpc' = [wpc EXCEPT ![s] = label]
      BY <2>2 DEF Quiet, Worker, Receive, CountTaken, Occupy, WorkerStops, LastAnswer, ConvertReturns,
         Deliver, Finish, Release, Decide, KillOld, ReapOld, Started, Install,
         RestartFails, BackoffExpires, BackoffStops, Goto, callVars, callerVars,
         WorkerLabels, Serving, Restarting
    <3> QED
      BY <3>1 DEF Quiet, TypeOK
  <2>3. Booting \/ Closing \/ World \/ WaitReturns => UNCHANGED <<pc, queue, wpc>>
    BY DEF Booting, BootSlot, BootFails, BootReady, BootReturnsError, Closing, CloseDone, CloseLocks,
           CloseSlot, CloseWaits, CloseReturns, World, CtxEnds, BrowserDies, ConnectionDrops, WaitReturns,
           DrainGoes, callVars, callerVars, workerVars
  <2> QED
    BY <1>1, <1>2, <2>1, <2>2, <2>3 DEF PoolRuns
<1>3. ~PoolRuns => UNCHANGED <<pc, queue, wpc>>
  <2> USE DEF vars, callVars, callerVars, workerVars
  <2>1. MainMoves => UNCHANGED <<pc, queue, wpc>>
    BY DEF MainMoves, MainStep, LeaveServing, Serve, ExitUnbooted, ShutdownReturns,
       ShutdownExpires, MainDrains, DrainEnds, BeginDrain, DrainDone, DrainExpires, DrainGoes,
       MainCloses, BeginClose, Exit
  <2>2. Signalled \/ Watching \/ (\E r \in Requests : Accept(r)) \/ UNCHANGED allVars
          => UNCHANGED <<pc, queue, wpc>>
    BY DEF Signalled, Signal, LifeEnds, BrowserDies, Watching, WatchdogStops, WatchdogSamples,
       WatchdogExits, Accept, allVars
  <2> QED
    BY <2>1, <2>2 DEF ServerNext, MainMoves, Signalled, Watching
<1> QED
  BY <1>1, <1>2, <1>3

\* main closes the pool only after Drain, and Drain's success leaves it quiet.
LEMMA CloseStep ==
  ASSUME TypeOK, BootInv, CountInv, ServerTypeOK, HandlersGone, CloseInv, [ServerNext]_allVars
  PROVE  CloseInv'
<1>0. accepted \subseteq Requests /\ main \in MainLabels /\ expired \subseteq {"shutdown", "drain"}
      /\ (main \notin {"starting", "exited"} => boot = "ready")
  BY DEF ServerTypeOK
<1>1. CASE DrainEnds
  <2>1. /\ main = "draining" /\ main' = "close" /\ closer' = closer /\ boot' = boot
        /\ UNCHANGED <<accepted, pc, queue, wpc>> /\ drain' # "waited"
        /\ expired' = {} => expired = {} /\ drain = "waited"
    BY <1>1 DEF DrainEnds, DrainDone, DrainExpires, DrainGoes, MainGoes, callVars, callerVars, workerVars
  <2>3. expired' = {} => Quiet
    BY <1>0, <2>1 DEF CloseInv
  <2>4. closer = "open"
    BY <1>0, <2>1 DEF CloseInv
  <2> QED
    BY <2>1, <2>3, <2>4 DEF CloseInv, Quiet
<1>2. CASE MainCloses
  <2>1. /\ main = "close" /\ main' = "closing" /\ boot' = "ready" /\ boot = "ready"
        /\ UNCHANGED <<accepted, pc, queue, wpc, expired, drain>>
    BY <1>2 DEF MainCloses, BeginClose, MainGoes, callVars, callerVars, workerVars
  <2>2. expired = {} => Quiet
    BY <2>1 DEF CloseInv
  <2>3. expired' = {} => Quiet'
    BY <2>1, <2>2 DEF Quiet
  <2> QED
    BY <2>1, <2>3 DEF CloseInv
<1>3. ASSUME NEW r \in Requests, Accept(r) PROVE CloseInv'
  <2>1. UNCHANGED <<boot, closer, main, expired, drain>>
        /\ (main \in {"serving", "shutdown"} \/ "shutdown" \in expired)
    BY <1>3 DEF Accept, vars, lifecycle
  <2>2. drain = "waited" => main \notin {"serving", "shutdown"}
    BY DEF HandlersGone
  <2> QED
    BY <1>0, <2>1, <2>2 DEF CloseInv
<1>5. CASE WaitReturns /\ drain = "waiting" /\ PoolRuns
  <2>1. /\ wg = 0 /\ main # "exited" /\ UNCHANGED <<boot, closer, main, accepted, expired, pc, queue, wpc>>
    BY <1>5 DEF WaitReturns, DrainGoes, PoolRuns, serverVars, ServerNext, Running, callVars, callerVars,
       workerVars, allVars, vars, lifecycle
  <2>2. boot = "ready" /\ expired = {} => \A r \in accepted : pc[r] = "returned"
    BY <1>5, <2>1 DEF HandlersGone, AfterShutdown
  <2>3. boot = "ready" /\ expired = {} => Quiet
    BY <2>1, <2>2, DrainedIsQuiet DEF Quiet
  <2> QED
    BY <2>1, <2>3 DEF CloseInv, Quiet
<1>4. ASSUME ~DrainEnds, ~MainCloses, ~(WaitReturns /\ drain = "waiting" /\ PoolRuns),
             UNCHANGED accepted
      PROVE  CloseInv'
  <2>1. /\ expired' = {} => expired = {}
        /\ main' \in {"close", "closing"} => main' = main
        /\ main \in {"closing", "exited"} => main' \in {"closing", "exited"}
    <3>1. MainMoves => \/ main' \in MainLabels \ {"close", "closing"} /\ main \notin {"exited"}
                          /\ (main = "closing" => main' = "exited")
                          /\ (expired' = {} => expired = {})
      BY <1>4 DEF MainMoves, MainStep, LeaveServing, Serve, ExitUnbooted, ShutdownReturns,
         ShutdownExpires, MainDrains, Exit, MainGoes, MainLabels
    <3>2. PoolRuns \/ Signalled \/ Watching \/ (\E r \in Requests : Accept(r)) \/ UNCHANGED allVars
            => UNCHANGED expired /\ (UNCHANGED main \/ main' = "exited")
      BY DEF PoolRuns, Signalled, Signal, LifeEnds, Watching, WatchdogStops, WatchdogSamples,
         WatchdogExits, Accept, allVars, serverVars
    <3> QED
      BY <3>1, <3>2 DEF ServerNext, MainMoves, Signalled, Watching
  <2>2. boot' = "ready" /\ closer' # "open" => boot = "ready" /\ closer # "open"
    <3> USE DEF vars, lifecycle
    <3>1. MainMoves \/ Signalled \/ Watching \/ (\E r \in Requests : Accept(r)) \/ UNCHANGED allVars
            => UNCHANGED <<boot, closer>>
      BY <1>4 DEF MainMoves, MainStep, LeaveServing, Serve, ExitUnbooted, ShutdownReturns,
         ShutdownExpires, MainDrains, BeginDrain, DrainGoes, Exit, Signalled, Signal, LifeEnds,
         BrowserDies, Watching, WatchdogStops, WatchdogSamples, WatchdogExits, Accept, allVars
    <3>2. CASE PoolRuns
      <4>1. ASSUME NEW r \in accepted PROVE Caller(r) => UNCHANGED <<boot, closer>>
        BY DEF Caller, Call, PassCheck, RefuseShutdown, Enqueue, RefuseDone, RefuseCtx,
               RefuseFull, CountQueued, TakeResult, GiveUp, Refuse, Return
      <4>2. ASSUME NEW s \in Slots PROVE Worker(s) => UNCHANGED <<boot, closer>>
        BY DEF Worker, Receive, CountTaken, Occupy, WorkerStops, LastAnswer, ConvertReturns,
               Deliver, Finish, Release, Decide, KillOld, ReapOld, Started, Install,
               RestartFails, BackoffExpires, BackoffStops
      <4>3. World => UNCHANGED <<boot, closer>>
        BY DEF World, CtxEnds, BrowserDies, ConnectionDrops
      <4>4. Closing => boot' = boot /\ closer # "open"
        BY DEF Closing, CloseDone, CloseLocks, CloseSlot, CloseWaits, CloseReturns
      <4>6. WaitReturns => UNCHANGED <<boot, closer>>
        BY DEF WaitReturns, DrainGoes
      <4>5. Booting => UNCHANGED <<boot, closer>> \/ boot' # "ready" \/ closer' = "open"
        BY DEF Booting, BootSlot, BootFails, BootReady, BootReturnsError, BootInv
      <4> QED
        BY <3>2, <4>1, <4>2, <4>3, <4>4, <4>5, <4>6 DEF PoolRuns
    <3> QED
      BY <3>1, <3>2 DEF ServerNext, MainMoves, Signalled, Watching
  <2>4. drain' = "waited" => drain = "waited"
    <3> USE DEF lifecycle
    <3>1. MainMoves \/ Signalled \/ Watching \/ (\E r \in Requests : Accept(r)) \/ UNCHANGED allVars
            => UNCHANGED drain \/ drain' # "waited"
      BY <1>4 DEF MainMoves, MainStep, LeaveServing, Serve, ExitUnbooted, ShutdownReturns,
         ShutdownExpires, MainDrains, BeginDrain, DrainGoes, Exit, Signalled, Signal, LifeEnds,
         BrowserDies, Watching, WatchdogStops, WatchdogSamples, WatchdogExits, Accept, allVars, vars
    <3>2. CASE PoolRuns
      <4>1. ASSUME NEW r \in accepted PROVE Caller(r) => UNCHANGED drain
        BY DEF Caller, Call, PassCheck, RefuseShutdown, Enqueue, RefuseDone, RefuseCtx,
               RefuseFull, CountQueued, TakeResult, GiveUp, Refuse, Return
      <4>2. ASSUME NEW s \in Slots PROVE Worker(s) => UNCHANGED drain
        BY DEF Worker, Receive, CountTaken, Occupy, WorkerStops, LastAnswer, ConvertReturns,
               Deliver, Finish, Release, Decide, KillOld, ReapOld, Started, Install,
               RestartFails, BackoffExpires, BackoffStops
      <4>3. Booting \/ Closing \/ World => UNCHANGED drain
        BY DEF Booting, BootSlot, BootFails, BootReady, BootReturnsError, Closing, CloseDone,
               CloseLocks, CloseSlot, CloseWaits, CloseReturns, World, CtxEnds, BrowserDies,
               ConnectionDrops
      <4>4. WaitReturns => drain = "waiting" \/ drain' # "waited"
        BY DEF WaitReturns, DrainGoes
      <4> QED
        BY <1>4, <3>2, <4>1, <4>2, <4>3, <4>4 DEF PoolRuns
    <3> QED
      BY <3>1, <3>2 DEF ServerNext, MainMoves, Signalled, Watching
  <2>3. ASSUME boot' = "ready", expired' = {},
               main' \in {"close", "closing"} \/ closer' # "open" \/ drain' = "waited"
        PROVE  Quiet'
    <3>1. boot = "ready" /\ Quiet
      <4>1. boot = "ready"
        <5>1. CASE main = "exited"
          BY <2>3, <5>1 DEF ServerNext, Running, allVars, vars, lifecycle
        <5>2. CASE main # "exited"
          BY <1>0, <2>1, <2>2, <2>3, <2>4, <5>2 DEF HandlersGone
        <5> QED
          BY <5>1, <5>2
      <4> QED
        BY <1>0, <2>1, <2>2, <2>3, <2>4, <4>1 DEF CloseInv
    <3> QED
      BY <1>4, <3>1, QuietStays
  <2> QED
    BY <2>1, <2>2, <2>3 DEF CloseInv
<1> QED
  BY <1>1, <1>2, <1>3, <1>4, <1>5, AcceptedGrows

\* A shutdown that keeps its deadlines loses nothing: the pool is closed when every
\* accepted request has returned and no job is queued or being converted.
THEOREM ShutdownLosesNothing == ServerSpec => []OrderlyClose
<1>1. ServerInit => HandlersGone /\ CloseInv
  BY DEF ServerInit, Init, HandlersGone, AfterShutdown, CloseInv
<1>2. CloseInv => OrderlyClose
  BY DEF CloseInv, Quiet, OrderlyClose
<1>3. InstanceInv => BootInv
  BY DEF InstanceInv
<1>4. TypeOK /\ BootInv /\ CountInv /\ ServerTypeOK /\ HandlersGone /\ CloseInv /\ [ServerNext]_allVars
        => HandlersGone' /\ CloseInv'
  BY HandlersGoneStep, CloseStep
<1> QED
  BY <1>1, <1>2, <1>3, <1>4, TypeCorrect, InstanceInvAlways, CountInvAlways, ServerTypeCorrect,
     ServerRunsPool, PTL DEF ServerSpec
=============================================================================
