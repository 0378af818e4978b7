---------------------------- MODULE PoolJobProofs ----------------------------
(***************************************************************************)
(* Proofs about the jobs of Pool for every number of requests, slots and   *)
(* queue places: the WaitGroup, the gauges and the count of failures agree *)
(* with where the jobs are, an accepted job is in one place until it is    *)
(* answered, and the pool implements ConversionService.                    *)
(***************************************************************************)
EXTENDS PoolProofs, FiniteSetTheorems

Bit(b) == IF b THEN 1 ELSE 0

\* The count n becomes m when something counted or not (was) becomes so or not (is).
Recounts(n, was, is, m) ==
  /\ was /\ ~is => m = n - 1
  /\ ~was /\ is => m = n + 1
  /\ (was <=> is) => m = n

\* A count that differs at one place changes by what changes there.
LEMMA CountMove ==
  ASSUME NEW S, IsFiniteSet(S), NEW x \in S, NEW T \in SUBSET S, NEW U \in SUBSET S,
         \A y \in S \ {x} : y \in T <=> y \in U
  PROVE  /\ Cardinality(T) \in Nat /\ Cardinality(U) \in Nat
         /\ Cardinality(U) = Cardinality(T) + Bit(x \in U) - Bit(x \in T)
<1>1. IsFiniteSet(T) /\ IsFiniteSet(U)
  BY FS_Subset
<1>2. Cardinality(T) \in Nat /\ Cardinality(U) \in Nat
  BY <1>1, FS_CardinalityType
<1>3. T \ {x} = U \ {x}
  OBVIOUS
<1>4. /\ Cardinality(T \ {x}) = IF x \in T THEN Cardinality(T) - 1 ELSE Cardinality(T)
      /\ Cardinality(U \ {x}) = IF x \in U THEN Cardinality(U) - 1 ELSE Cardinality(U)
  BY <1>1, FS_RemoveElement, Zenon
<1> QED
  BY <1>2, <1>3, <1>4 DEF Bit

\* There are as many slots as Size says.
LEMMA SlotsFinite == IsFiniteSet(Slots) /\ Cardinality(Slots) = Size
BY FS_Interval, PoolAssumption DEF Slots, PoolAssumption

-----------------------------------------------------------------------------
(* Where the requests and the workers are *)

Entering  == {r \in Requests : pc[r] \in {"check", "select"}}
Uncounted == {r \in Requests : pc[r] = "gauge"}
Working   == {s \in Slots : wpc[s] \in Serving \cup {"finish"}}
Taken     == {s \in Slots : wpc[s] = "uncount"}
Occupied  == {"convert", "answered", "deliver", "finish", "release", "backoff"}
Unoccupied == {s \in Slots : wpc[s] \notin Occupied}

\* The counts are numbers.
LEMMA CountsAreNat ==
  /\ Cardinality(Entering) \in Nat /\ Cardinality(Uncounted) \in Nat
  /\ Cardinality(Working) \in Nat /\ Cardinality(Taken) \in Nat
  /\ Cardinality(Unoccupied) \in Nat
<1>1. IsFiniteSet(Requests) /\ IsFiniteSet(Slots)
  BY PoolAssumption, SlotsFinite DEF PoolAssumption
<1>2. /\ Entering \in SUBSET Requests /\ Uncounted \in SUBSET Requests
      /\ Working \in SUBSET Slots /\ Taken \in SUBSET Slots /\ Unoccupied \in SUBSET Slots
  BY DEF Entering, Uncounted, Working, Taken, Unoccupied
<1> QED
  BY <1>1, <1>2, FS_Subset, FS_CardinalityType

Moves(r, label) == pc' = [pc EXCEPT ![r] = label]

Counted(r, label) ==
  /\ Recounts(Cardinality(Entering), pc[r] \in {"check", "select"},
              label \in {"check", "select"}, Cardinality(Entering'))
  /\ Recounts(Cardinality(Uncounted), pc[r] = "gauge", label = "gauge", Cardinality(Uncounted'))

\* A request that moves is counted where it goes and no longer where it was.
LEMMA CallerMoves ==
  ASSUME TypeOK, NEW r \in Requests, NEW label, Moves(r, label)
  PROVE  Counted(r, label)
<1>1. IsFiniteSet(Requests)
  BY PoolAssumption DEF PoolAssumption
<1>2. pc'[r] = label /\ \A q \in Requests \ {r} : pc'[q] = pc[q]
  BY DEF TypeOK, Moves
<1>3. \A q \in Requests \ {r} : q \in Entering <=> q \in Entering'
  BY <1>2 DEF Entering
<1>4. /\ r \in Entering <=> pc[r] \in {"check", "select"}
      /\ r \in Entering' <=> label \in {"check", "select"}
      /\ Entering \in SUBSET Requests /\ Entering' \in SUBSET Requests
  BY <1>2 DEF Entering
<1>5. \A q \in Requests \ {r} : q \in Uncounted <=> q \in Uncounted'
  BY <1>2 DEF Uncounted
<1>6. /\ r \in Uncounted <=> pc[r] = "gauge"
      /\ r \in Uncounted' <=> label = "gauge"
      /\ Uncounted \in SUBSET Requests /\ Uncounted' \in SUBSET Requests
  BY <1>2 DEF Uncounted
<1>7. /\ Cardinality(Entering) \in Nat
      /\ Cardinality(Entering') = Cardinality(Entering) + Bit(r \in Entering') - Bit(r \in Entering)
  BY <1>1, <1>3, <1>4, CountMove
<1>8. /\ Cardinality(Uncounted) \in Nat
      /\ Cardinality(Uncounted') = Cardinality(Uncounted) + Bit(r \in Uncounted') - Bit(r \in Uncounted)
  BY <1>1, <1>5, <1>6, CountMove
<1> QED
  BY <1>4, <1>6, <1>7, <1>8 DEF Bit, Recounts, Counted

Employed(s, label) ==
  /\ Recounts(Cardinality(Working), wpc[s] \in Serving \cup {"finish"},
              label \in Serving \cup {"finish"}, Cardinality(Working'))
  /\ Recounts(Cardinality(Taken), wpc[s] = "uncount", label = "uncount", Cardinality(Taken'))
  /\ Recounts(Cardinality(Unoccupied), wpc[s] \notin Occupied, label \notin Occupied,
              Cardinality(Unoccupied'))

\* The same for a worker.
LEMMA WorkerMoves ==
  ASSUME TypeOK, NEW s \in Slots, NEW label, Goto(s, label)
  PROVE  Employed(s, label)
<1>1. wpc'[s] = label /\ \A t \in Slots \ {s} : wpc'[t] = wpc[t]
  BY DEF TypeOK, Goto
<1>2. /\ \A t \in Slots \ {s} : t \in Working <=> t \in Working'
      /\ \A t \in Slots \ {s} : t \in Taken <=> t \in Taken'
      /\ \A t \in Slots \ {s} : t \in Unoccupied <=> t \in Unoccupied'
  BY <1>1 DEF Working, Taken, Unoccupied
<1>3. /\ s \in Working <=> wpc[s] \in Serving \cup {"finish"}
      /\ s \in Working' <=> label \in Serving \cup {"finish"}
      /\ Working \in SUBSET Slots /\ Working' \in SUBSET Slots
  BY <1>1 DEF Working
<1>4. /\ s \in Taken <=> wpc[s] = "uncount"
      /\ s \in Taken' <=> label = "uncount"
      /\ Taken \in SUBSET Slots /\ Taken' \in SUBSET Slots
  BY <1>1 DEF Taken
<1>5. /\ s \in Unoccupied <=> wpc[s] \notin Occupied
      /\ s \in Unoccupied' <=> label \notin Occupied
      /\ Unoccupied \in SUBSET Slots /\ Unoccupied' \in SUBSET Slots
  BY <1>1 DEF Unoccupied
<1>6. /\ Cardinality(Working) \in Nat
      /\ Cardinality(Working') = Cardinality(Working) + Bit(s \in Working') - Bit(s \in Working)
  BY <1>2, <1>3, SlotsFinite, CountMove
<1>7. /\ Cardinality(Taken) \in Nat
      /\ Cardinality(Taken') = Cardinality(Taken) + Bit(s \in Taken') - Bit(s \in Taken)
  BY <1>2, <1>4, SlotsFinite, CountMove
<1>8. /\ Cardinality(Unoccupied) \in Nat
      /\ Cardinality(Unoccupied') =
           Cardinality(Unoccupied) + Bit(s \in Unoccupied') - Bit(s \in Unoccupied)
  BY <1>2, <1>5, SlotsFinite, CountMove
<1>9. Recounts(Cardinality(Working), wpc[s] \in Serving \cup {"finish"},
               label \in Serving \cup {"finish"}, Cardinality(Working'))
  BY <1>3, <1>6 DEF Bit, Recounts
<1>10. Recounts(Cardinality(Taken), wpc[s] = "uncount", label = "uncount", Cardinality(Taken'))
  BY <1>4, <1>7 DEF Bit, Recounts
<1>11. Recounts(Cardinality(Unoccupied), wpc[s] \notin Occupied, label \notin Occupied,
                Cardinality(Unoccupied'))
  BY <1>5, <1>8 DEF Bit, Recounts
<1> QED
  BY <1>9, <1>10, <1>11 DEF Employed

-----------------------------------------------------------------------------
(* The WaitGroup and the queue's gauge *)

jobVars == <<wg, pc, ret, result, queue, counters, wpc, job, outcome>>

\* The steps that move a request or a worker; every other step leaves the jobs alone.
LEMMA JobSteps ==
  [Next]_vars =>
    \/ BootSlot \/ BootReady
    \/ \E r \in Requests : Caller(r)
    \/ \E s \in Slots : Worker(s)
    \/ UNCHANGED jobVars /\ (boot' = "ready" => boot = "ready")
<1> USE DEF jobVars, vars, lifecycle, callerVars, counters, sickness, workerVars, callVars
<1>1. Booting =>
        BootSlot \/ BootReady \/ (UNCHANGED jobVars /\ (boot' = "ready" => boot = "ready"))
  BY DEF Booting, BootFails, BootReturnsError
<1>2. BeginClose \/ Closing \/ Draining \/ Terminated => UNCHANGED jobVars /\ UNCHANGED boot
  BY DEF BeginClose, Closing, CloseDone, CloseLocks, CloseSlot, CloseWaits, CloseReturns,
         Draining, BeginDrain, WaitReturns, DrainDone, DrainExpires, DrainGoes, Terminated
<1>3. World => UNCHANGED jobVars /\ UNCHANGED boot
  BY DEF World, CtxEnds, BrowserDies, ConnectionDrops
<1> QED
  BY <1>1, <1>2, <1>3 DEF Next

\* The gauge of free instances is set when NewPool returns.
CountInv == /\ boot = "ready" => freeGauge <= Cardinality(Unoccupied)
            /\ wg = Cardinality(Entering) + Len(queue) + Cardinality(Working)
            /\ queueGauge + Cardinality(Uncounted) = Len(queue) + Cardinality(Taken)

\* Each path out of Convert keeps the counts.
LEMMA CallerCounts ==
  ASSUME TypeOK, CountInv, NEW r \in Requests, Caller(r) PROVE CountInv'
<1> USE DEF CountInv, counters
<1>0. /\ queue \in Seq(Requests) /\ wg \in Int /\ queueGauge \in Int
      /\ Cardinality(Entering) \in Nat /\ Cardinality(Uncounted) \in Nat
      /\ Cardinality(Working) \in Nat /\ Cardinality(Taken) \in Nat
  BY CountsAreNat DEF TypeOK
<1>1. /\ Working' = Working /\ Taken' = Taken /\ Unoccupied' = Unoccupied
      /\ UNCHANGED <<boot, freeGauge>>
  BY DEF Caller, Call, PassCheck, RefuseShutdown, Enqueue, RefuseDone, RefuseCtx, RefuseFull,
         CountQueued, TakeResult, GiveUp, Refuse, Return, workerVars, lifecycle, Working,
         Taken, Unoccupied
<1>3. CASE Call(r)
  <2>1. Moves(r, "check") /\ pc[r] = "idle" /\ wg' = wg + 1 /\ UNCHANGED <<queue, queueGauge>>
    BY <1>3 DEF Call, Moves
  <2>2. Counted(r, "check")
    BY <2>1, CallerMoves
  <2> QED
    BY SMTT(30), <1>0, <1>1, <2>1, <2>2 DEF Counted, Recounts
<1>4. CASE PassCheck(r)
  <2>1. Moves(r, "select") /\ pc[r] = "check" /\ UNCHANGED <<wg, queue, queueGauge>>
    BY <1>4 DEF PassCheck, Moves
  <2>2. Counted(r, "select")
    BY <2>1, CallerMoves
  <2> QED
    BY SMTT(30), <1>0, <1>1, <2>1, <2>2 DEF Counted, Recounts
<1>5. ASSUME NEW value, pc[r] \in {"check", "select"}, Refuse(r, value) PROVE CountInv'
  <2>1. Moves(r, "returned") /\ wg' = wg - 1 /\ UNCHANGED <<queue, queueGauge>>
    BY <1>5 DEF Refuse, Moves
  <2>2. Counted(r, "returned")
    BY <2>1, CallerMoves
  <2> QED
    BY SMTT(30), <1>0, <1>1, <1>5, <2>1, <2>2 DEF Counted, Recounts
<1>6. ASSUME NEW value, pc[r] = "wait", Return(r, value) PROVE CountInv'
  <2>1. Moves(r, "returned") /\ UNCHANGED <<wg, queue, queueGauge>>
    BY <1>6 DEF Return, Moves
  <2>2. Counted(r, "returned")
    BY <2>1, CallerMoves
  <2> QED
    BY SMTT(30), <1>0, <1>1, <1>6, <2>1, <2>2 DEF Counted, Recounts
<1>7. CASE Enqueue(r)
  <2>1. Moves(r, "gauge") /\ pc[r] = "select" /\ UNCHANGED <<wg, queueGauge>>
    BY <1>7 DEF Enqueue, Moves
  <2>2. Counted(r, "gauge")
    BY <2>1, CallerMoves
  <2>3. Len(queue') = Len(queue) + 1
    BY <1>0, <1>7 DEF Enqueue
  <2> QED
    BY SMTT(30), <1>0, <1>1, <2>1, <2>2, <2>3 DEF Counted, Recounts
<1>8. CASE CountQueued(r)
  <2>1. Moves(r, "wait") /\ pc[r] = "gauge" /\ queueGauge' = queueGauge + 1
        /\ UNCHANGED <<wg, queue>>
    BY <1>8 DEF CountQueued, Moves
  <2>2. Counted(r, "wait")
    BY <2>1, CallerMoves
  <2> QED
    BY SMTT(30), <1>0, <1>1, <2>1, <2>2 DEF Counted, Recounts
<1>9. CASE RefuseShutdown(r) \/ RefuseDone(r) \/ RefuseCtx(r) \/ RefuseFull(r)
  BY <1>5, <1>9 DEF RefuseShutdown, RefuseDone, RefuseCtx, RefuseFull
<1>10. CASE TakeResult(r) \/ GiveUp(r)
  BY <1>6, <1>10 DEF TakeResult, GiveUp
<1> QED
  BY <1>3, <1>4, <1>7, <1>8, <1>9, <1>10 DEF Caller

\* Each step of a worker keeps them.
LEMMA WorkerCounts ==
  ASSUME TypeOK, CountInv, NEW s \in Slots, Worker(s) PROVE CountInv'
<1> USE DEF CountInv, counters
<1>0. /\ queue \in Seq(Requests) /\ wg \in Int /\ queueGauge \in Int /\ freeGauge \in Int
      /\ Cardinality(Entering) \in Nat /\ Cardinality(Uncounted) \in Nat
      /\ Cardinality(Working) \in Nat /\ Cardinality(Taken) \in Nat
      /\ Cardinality(Unoccupied) \in Nat
  BY CountsAreNat DEF TypeOK
<1>1. Entering' = Entering /\ Uncounted' = Uncounted /\ UNCHANGED boot
  BY DEF Worker, Receive, CountTaken, Occupy, WorkerStops, LastAnswer, ConvertReturns,
         Deliver, Finish, Release, Decide, KillOld, ReapOld, Started, Install, RestartFails,
         BackoffExpires, BackoffStops, callerVars, callVars, lifecycle,
         Entering, Uncounted
<1>2. CASE Receive(s)
  <2>1. Goto(s, "uncount") /\ wpc[s] = "recv" /\ UNCHANGED <<wg, queueGauge, freeGauge>>
    BY <1>2 DEF Receive
  <2>2. Employed(s, "uncount")
    BY <2>1, WorkerMoves
  <2>3. Len(queue') = Len(queue) - 1
    BY <1>0, <1>2 DEF Receive
  <2>4. /\ Cardinality(Working') = Cardinality(Working) + 1
        /\ Cardinality(Taken') = Cardinality(Taken) + 1
        /\ Cardinality(Unoccupied') = Cardinality(Unoccupied)
    BY <2>1, <2>2 DEF Employed, Recounts, Serving, Occupied
  <2> QED
    BY SMTT(30), <1>0, <1>1, <2>1, <2>3, <2>4
<1>3. CASE CountTaken(s)
  <2>1. Goto(s, "occupy") /\ wpc[s] = "uncount" /\ queueGauge' = queueGauge - 1
        /\ UNCHANGED <<wg, queue, freeGauge>>
    BY <1>3 DEF CountTaken
  <2>2. Employed(s, "occupy")
    BY <2>1, WorkerMoves
  <2>3. /\ Cardinality(Working') = Cardinality(Working)
        /\ Cardinality(Taken') = Cardinality(Taken) - 1
        /\ Cardinality(Unoccupied') = Cardinality(Unoccupied)
    BY <2>1, <2>2 DEF Employed, Recounts, Serving, Occupied
  <2> QED
    BY SMTT(30), <1>0, <1>1, <2>1, <2>3
<1>4. CASE Occupy(s)
  <2>1. Goto(s, "convert") /\ wpc[s] = "occupy" /\ freeGauge' = freeGauge - 1
        /\ UNCHANGED <<wg, queue, queueGauge>>
    BY <1>4 DEF Occupy
  <2>2. Employed(s, "convert")
    BY <2>1, WorkerMoves
  <2>3. /\ Cardinality(Working') = Cardinality(Working)
        /\ Cardinality(Taken') = Cardinality(Taken)
        /\ Cardinality(Unoccupied') = Cardinality(Unoccupied) - 1
    BY <2>1, <2>2 DEF Employed, Recounts, Serving, Occupied
  <2> QED
    BY SMTT(30), <1>0, <1>1, <2>1, <2>3
<1>5. CASE LastAnswer(s) \/ ConvertReturns(s) \/ Deliver(s)
  <2>1. PICK label \in {"answered", "deliver", "finish"} :
          /\ Goto(s, label) /\ wpc[s] \in {"convert", "answered", "deliver"}
          /\ UNCHANGED <<wg, queue, queueGauge, freeGauge>>
    BY <1>5 DEF LastAnswer, ConvertReturns, Deliver, callVars
  <2>2. Employed(s, label)
    BY <2>1, WorkerMoves
  <2>3. /\ Cardinality(Working') = Cardinality(Working)
        /\ Cardinality(Taken') = Cardinality(Taken)
        /\ Cardinality(Unoccupied') = Cardinality(Unoccupied)
    BY <2>1, <2>2 DEF Employed, Recounts, Serving, Occupied
  <2> QED
    BY SMTT(30), <1>0, <1>1, <2>1, <2>3
<1>6. CASE Finish(s)
  <2>1. Goto(s, "release") /\ wpc[s] = "finish" /\ wg' = wg - 1
        /\ UNCHANGED <<queue, queueGauge, freeGauge>>
    BY <1>6 DEF Finish
  <2>2. Employed(s, "release")
    BY <2>1, WorkerMoves
  <2>3. /\ Cardinality(Working') = Cardinality(Working) - 1
        /\ Cardinality(Taken') = Cardinality(Taken)
        /\ Cardinality(Unoccupied') = Cardinality(Unoccupied)
    BY <2>1, <2>2 DEF Employed, Recounts, Serving, Occupied
  <2> QED
    BY SMTT(30), <1>0, <1>1, <2>1, <2>3
<1>7. CASE Release(s)
  <2>1. Goto(s, "decide") /\ wpc[s] = "release" /\ freeGauge' = freeGauge + 1
        /\ UNCHANGED <<wg, queue, queueGauge>>
    BY <1>7 DEF Release
  <2>2. Employed(s, "decide")
    BY <2>1, WorkerMoves
  <2>3. /\ Cardinality(Working') = Cardinality(Working)
        /\ Cardinality(Taken') = Cardinality(Taken)
        /\ Cardinality(Unoccupied') = Cardinality(Unoccupied) + 1
    BY <2>1, <2>2 DEF Employed, Recounts, Serving, Occupied
  <2> QED
    BY SMTT(30), <1>0, <1>1, <2>1, <2>3
<1>8. CASE RestartFails(s)
  <2>1. Goto(s, "backoff") /\ wpc[s] = "start" /\ freeGauge' = freeGauge - 1
        /\ UNCHANGED <<wg, queue, queueGauge>>
    BY <1>8 DEF RestartFails
  <2>2. Employed(s, "backoff")
    BY <2>1, WorkerMoves
  <2>3. /\ Cardinality(Working') = Cardinality(Working)
        /\ Cardinality(Taken') = Cardinality(Taken)
        /\ Cardinality(Unoccupied') = Cardinality(Unoccupied) - 1
    BY <2>1, <2>2 DEF Employed, Recounts, Serving, Occupied
  <2> QED
    BY SMTT(30), <1>0, <1>1, <2>1, <2>3
<1>9. CASE \/ WorkerStops(s) \/ Decide(s) \/ KillOld(s) \/ ReapOld(s) \/ Started(s)
           \/ Install(s) \/ BackoffExpires(s) \/ BackoffStops(s)
  <2>1. PICK label \in {"exited", "recv"} \cup Restarting :
          /\ Goto(s, label) /\ wpc[s] \in {"recv", "decide", "backoff"} \cup Restarting
          /\ UNCHANGED <<wg, queue, queueGauge, freeGauge>>
    BY <1>9 DEF WorkerStops, Decide, KillOld, ReapOld, Started, Install, BackoffExpires,
       BackoffStops, callVars, Restarting
  <2>2. Employed(s, label)
    BY <2>1, WorkerMoves
  <2>3. /\ Cardinality(Working') = Cardinality(Working)
        /\ Cardinality(Taken') = Cardinality(Taken)
    BY <2>1, <2>2 DEF Employed, Recounts, Serving, Restarting
  <2>4. Cardinality(Unoccupied') >= Cardinality(Unoccupied)
    BY <1>0, <2>1, <2>2 DEF Employed, Recounts, Occupied, Restarting
  <2>5. boot' = "ready" => freeGauge' <= Cardinality(Unoccupied')
    <3>1. boot' = boot /\ freeGauge' = freeGauge
      BY <1>1, <2>1
    <3>2. Cardinality(Unoccupied') \in Nat
      BY SlotsFinite, FS_Subset, FS_CardinalityType DEF Unoccupied
    <3> QED
      BY <1>0, <2>4, <3>1, <3>2
  <2>6. /\ queueGauge' + Cardinality(Uncounted') = Len(queue') + Cardinality(Taken')
        /\ wg' = Cardinality(Entering') + Len(queue') + Cardinality(Working')
    BY <1>0, <1>1, <2>1, <2>3
  <2> QED
    BY <2>5, <2>6
<1> QED
  BY <1>2, <1>3, <1>4, <1>5, <1>6, <1>7, <1>8, <1>9 DEF Worker

\* So does every step of the system: no call slips in while NewPool starts the slots.
LEMMA CountStep ==
  ASSUME TypeOK, BootInv, CountInv, [Next]_vars PROVE CountInv'
<1> USE DEF CountInv
<1>1. CASE BootSlot
  <2>1. booted + 1 \in Slots /\ wpc[booted + 1] \in {"off", "recv", "exited"}
    BY <1>1, PoolAssumption DEF BootSlot, BootInv, TypeOK, Slots, PoolAssumption
  <2>2. Goto(booted + 1, "recv") /\ UNCHANGED <<boot, wg, pc, queue, counters>> /\ boot # "ready"
    BY <1>1 DEF BootSlot, Goto, callVars, callerVars
  <2>3. Employed(booted + 1, "recv")
    BY <2>1, <2>2, WorkerMoves
  <2>4. /\ Cardinality(Working') = Cardinality(Working)
        /\ Cardinality(Taken') = Cardinality(Taken)
    BY <2>1, <2>3 DEF Employed, Recounts, Serving
  <2>5. Entering' = Entering /\ Uncounted' = Uncounted
    BY <2>2 DEF Entering, Uncounted
  <2> QED
    BY <2>2, <2>4, <2>5 DEF counters
<1>2. CASE BootReady
  <2>1. Unoccupied = Slots
    BY <1>2 DEF BootReady, BootInv, Unoccupied, Occupied
  <2>2. UNCHANGED <<Entering, Uncounted, Working, Taken, Unoccupied, wg, queue, queueGauge>>
    BY <1>2 DEF BootReady, Entering, Uncounted, Working, Taken, Unoccupied, callerVars, workerVars
  <2> QED
    BY <1>2, <2>1, <2>2, SlotsFinite, PoolAssumption DEF BootReady, PoolAssumption
<1>3. CASE UNCHANGED jobVars /\ (boot' = "ready" => boot = "ready")
  <2>1. UNCHANGED <<Entering, Uncounted, Working, Taken, Unoccupied, wg, queue, counters>>
    BY <1>3 DEF jobVars, Entering, Uncounted, Working, Taken, Unoccupied
  <2> QED
    BY <1>3, <2>1 DEF counters
<1> QED
  BY <1>1, <1>2, <1>3, CallerCounts, WorkerCounts, JobSteps

\* The counters are exact at all times.
LEMMA CountInvAlways == Spec => []CountInv
<1>1. Init => CountInv
  <2> SUFFICES ASSUME Init PROVE CountInv
    OBVIOUS
  <2>1. Entering = {} /\ Uncounted = {} /\ Working = {} /\ Taken = {}
    BY DEF Init, Entering, Uncounted, Working, Taken, Serving
  <2>2. wg = 0 /\ Len(queue) = 0 /\ queueGauge = 0 /\ boot # "ready"
    BY DEF Init
  <2> QED
    BY <2>1, <2>2, FS_EmptySet DEF CountInv
<1>2. InstanceInv => BootInv
  BY DEF InstanceInv
<1>3. TypeOK /\ BootInv /\ CountInv /\ [Next]_vars => CountInv'
  BY CountStep
<1> QED
  BY <1>1, <1>2, <1>3, TypeCorrect, InstanceInvAlways, PTL DEF Spec

\* The WaitGroup never goes negative, whatever the order of the steps of callers and workers.
THEOREM WaitGroupCounts == Spec => []WaitGroupExact
<1>1. CountInv => WaitGroupExact
  BY DEF CountInv, WaitGroupExact, Count, Entering, Working
<1> QED
  BY <1>1, CountInvAlways, PTL

\* gopress_pool_queue_size is off the length of the channel by the senders about to count
\* their job and the workers about to uncount the one they took, and by nothing else.
THEOREM QueueGaugeCounts == Spec => []QueueGaugeExact
<1>1. CountInv => QueueGaugeExact
  BY DEF CountInv, QueueGaugeExact, Count, Uncounted, Taken
<1> QED
  BY <1>1, CountInvAlways, PTL

\* gopress_pool_free_instances never promises an instance that a worker is using, from two
\* statements after it took its job.
THEOREM FreeGaugeCounts == Spec => []FreeGaugeNeverOverstates
<1>1. CountInv => FreeGaugeNeverOverstates
  BY DEF CountInv, FreeGaugeNeverOverstates, Count, Unoccupied, Occupied
<1> QED
  BY <1>1, CountInvAlways, PTL

-----------------------------------------------------------------------------
(* Where a job is, and the service that the pool is *)

Held(r) == \E s \in Slots : job[s] = r

\* The channel holds a job once.
Distinct == \A i, j \in 1 .. Len(queue) : queue[i] = queue[j] => i = j

\* A worker holds a job just while it serves it, and nobody else does.
Holding == \A s \in Slots : /\ job[s] # NoJob <=> wpc[s] \in Serving
                            /\ wpc[s] = "deliver" => outcome[s] # "none"
                            /\ \A t \in Slots : job[s] = job[t] /\ job[s] # NoJob => s = t

\* Where the job of request r is, by how far its Convert has come.
PlacedJob(r) ==
  /\ Queued(r) => ~Held(r) /\ result[r] = "none"
  /\ Held(r) => result[r] = "none"
  /\ pc[r] \in {"gauge", "wait"} => Queued(r) \/ Held(r) \/ result[r] # "none"
  /\ pc[r] \in {"idle", "check", "select"} \/ ret[r] = "full" =>
       ~Queued(r) /\ ~Held(r) /\ result[r] = "none"
  /\ pc[r] = "returned" <=> ret[r] # "none"

JobInv == Distinct /\ Holding /\ \A r \in Requests : PlacedJob(r)

-----------------------------------------------------------------------------
\* Enqueue adds the job, and Receive takes the oldest one.
LEMMA QueuedAfterAppend ==
  ASSUME NEW r \in Requests, queue \in Seq(Requests), queue' = Append(queue, r)
  PROVE  /\ \A q : Queued(q)' <=> Queued(q) \/ q = r
         /\ Distinct /\ ~Queued(r) => Distinct'
<1>1. /\ Len(queue) \in Nat /\ Len(queue') = Len(queue) + 1
      /\ \A i \in 1 .. Len(queue) : queue'[i] = queue[i]
      /\ queue'[Len(queue) + 1] = r
  OBVIOUS
<1>2. ASSUME NEW q PROVE Queued(q)' <=> Queued(q) \/ q = r
  <2>1. ASSUME NEW i \in 1 .. Len(queue'), queue'[i] = q PROVE Queued(q) \/ q = r
    <3>1. CASE i = Len(queue) + 1
      BY <1>1, <2>1, <3>1
    <3>2. CASE i \in 1 .. Len(queue)
      BY <1>1, <2>1, <3>2 DEF Queued
    <3> QED
      BY <1>1, <3>1, <3>2
  <2>2. Queued(q) => Queued(q)'
    BY <1>1 DEF Queued
  <2>3. q = r => Queued(q)'
    BY <1>1 DEF Queued
  <2> QED
    BY <2>1, <2>2, <2>3 DEF Queued
<1>3. ASSUME Distinct, ~Queued(r), NEW i \in 1 .. Len(queue'), NEW j \in 1 .. Len(queue'),
             queue'[i] = queue'[j]
      PROVE  i = j
  <2>1. CASE i \in 1 .. Len(queue) /\ j \in 1 .. Len(queue)
    BY <1>1, <1>3, <2>1 DEF Distinct
  <2>2. CASE i = Len(queue) + 1 /\ j \in 1 .. Len(queue)
    BY <1>1, <1>3, <2>2 DEF Queued
  <2>3. CASE j = Len(queue) + 1 /\ i \in 1 .. Len(queue)
    BY <1>1, <1>3, <2>3 DEF Queued
  <2> QED
    BY <1>1, <2>1, <2>2, <2>3
<1> QED
  BY <1>2, <1>3 DEF Distinct

\* The counterpart for the receiving end of the channel.
LEMMA QueuedAfterTail ==
  ASSUME queue \in Seq(Requests), queue # << >>, Distinct, queue' = Tail(queue)
  PROVE  /\ Head(queue) \in Requests /\ Queued(Head(queue))
         /\ \A q : Queued(q)' <=> Queued(q) /\ q # Head(queue)
         /\ Distinct'
<1>1. /\ Len(queue) \in Nat \ {0} /\ Len(queue') = Len(queue) - 1
      /\ \A i \in 1 .. Len(queue') : queue'[i] = queue[i + 1] /\ i + 1 \in 2 .. Len(queue)
      /\ Head(queue) = queue[1] /\ Head(queue) \in Requests
  OBVIOUS
<1>2. Queued(Head(queue))
  BY <1>1 DEF Queued
<1>3. ASSUME NEW q PROVE Queued(q)' <=> Queued(q) /\ q # Head(queue)
  <2>1. ASSUME NEW i \in 1 .. Len(queue'), queue'[i] = q PROVE Queued(q) /\ q # Head(queue)
    BY <1>1, <2>1 DEF Queued, Distinct
  <2>2. ASSUME NEW i \in 1 .. Len(queue), queue[i] = q, q # Head(queue) PROVE Queued(q)'
    <3>1. i - 1 \in 1 .. Len(queue')
      BY <1>1, <2>2
    <3>2. queue'[i - 1] = q
      BY <1>1, <2>2, <3>1
    <3> QED
      BY <3>1, <3>2 DEF Queued
  <2> QED
    BY <2>1, <2>2 DEF Queued
<1>4. Distinct'
  BY <1>1 DEF Distinct
<1> QED
  BY <1>1, <1>2, <1>3, <1>4

-----------------------------------------------------------------------------
\* The steps of a call keep every job where it is, or put it in the channel.
LEMMA CallerKeepsJobs ==
  ASSUME TypeOK, JobInv, NEW r \in Requests, Caller(r) PROVE JobInv'
<1> USE DEF JobInv
<1>0. queue \in Seq(Requests) /\ pc \in [Requests -> {"idle", "check", "select", "gauge", "wait", "returned"}]
        /\ ret \in [Requests -> Outcomes \cup {"none", "full"}]
  BY DEF TypeOK
<1>1. UNCHANGED <<job, wpc, outcome, result>>
  BY DEF Caller, Call, PassCheck, RefuseShutdown, Enqueue, RefuseDone, RefuseCtx, RefuseFull,
         CountQueued, TakeResult, GiveUp, Refuse, Return, workerVars
<1>2. Holding' /\ \A q : Held(q)' <=> Held(q)
  BY <1>1 DEF Holding, Held
<1>3. CASE Enqueue(r)
  <2>1. queue' = Append(queue, r) /\ pc[r] = "select" /\ pc' = [pc EXCEPT ![r] = "gauge"]
        /\ UNCHANGED ret
    BY <1>3 DEF Enqueue
  <2>2. ~Queued(r) /\ ~Held(r) /\ result[r] = "none"
    BY <2>1 DEF PlacedJob
  <2>3. Distinct' /\ \A q : Queued(q)' <=> Queued(q) \/ q = r
    BY <1>0, <2>1, <2>2, QueuedAfterAppend
  <2>4. ASSUME NEW q \in Requests PROVE PlacedJob(q)'
    <3>1. PlacedJob(q) /\ PlacedJob(r)
      OBVIOUS
    <3> QED
      BY <1>0, <1>1, <1>2, <2>1, <2>2, <2>3, <3>1 DEF PlacedJob
  <2> QED
    BY <1>2, <2>3, <2>4
<1>4. CASE UNCHANGED queue
  <2>1. Distinct' /\ \A q : Queued(q)' <=> Queued(q)
    BY <1>4 DEF Distinct, Queued
  <2>2. ASSUME NEW q \in Requests PROVE PlacedJob(q)'
    <3>0. PlacedJob(q) /\ PlacedJob(r)
      OBVIOUS
    <3> USE <1>0, <1>1, <1>2, <2>1, <3>0 DEF PlacedJob
    <3>1. CASE Call(r) \/ PassCheck(r) \/ CountQueued(r)
      BY <3>1 DEF Call, PassCheck, CountQueued
    <3>2. ASSUME NEW err \in {"full", "ctx"}, pc[r] \in {"check", "select"}, Refuse(r, err)
          PROVE  PlacedJob(q)'
      BY <3>2 DEF Refuse
    <3>3. ASSUME NEW value, value \notin {"none", "full"}, pc[r] = "wait", Return(r, value)
          PROVE  PlacedJob(q)'
      BY <3>3 DEF Return
    <3>4. CASE RefuseShutdown(r) \/ RefuseDone(r) \/ RefuseCtx(r) \/ RefuseFull(r)
      BY <3>2, <3>4 DEF RefuseShutdown, RefuseDone, RefuseCtx, RefuseFull
    <3>5. CASE TakeResult(r)
      <4>1. result[r] \in Outcomes
        BY <3>5 DEF TakeResult, TypeOK
      <4> QED
        BY <3>3, <3>5, <4>1 DEF TakeResult, Outcomes
    <3>6. CASE GiveUp(r)
      BY <3>3, <3>6 DEF GiveUp
    <3>7. CASE Enqueue(r)
      <4>1. Len(Append(queue, r)) = Len(queue) + 1 /\ Len(queue) \in Nat
        OBVIOUS
      <4> QED
        BY <1>4, <3>7, <4>1 DEF Enqueue
    <3> QED
      BY <3>1, <3>4, <3>5, <3>6, <3>7 DEF Caller
  <2> QED
    BY <1>2, <2>1, <2>2
<1>5. Enqueue(r) \/ UNCHANGED queue
  BY DEF Caller, Call, PassCheck, RefuseShutdown, RefuseDone, RefuseCtx, RefuseFull,
         CountQueued, TakeResult, GiveUp, Refuse, Return
<1> QED
  BY <1>3, <1>4, <1>5

\* Receive moves the oldest job to the worker, Deliver turns it into a result.
LEMMA WorkerKeepsJobs ==
  ASSUME TypeOK, JobInv, NEW s \in Slots, Worker(s) PROVE JobInv'
<1> USE DEF JobInv
<1>0. /\ queue \in Seq(Requests) /\ job \in [Slots -> Requests \cup {NoJob}]
      /\ wpc \in [Slots -> WorkerLabels] /\ outcome \in [Slots -> Outcomes \cup {"none"}]
      /\ result \in [Requests -> Outcomes \cup {"none"}]
  BY DEF TypeOK
<1>1. UNCHANGED <<pc, ret>>
  BY DEF Worker, Receive, CountTaken, Occupy, WorkerStops, LastAnswer, ConvertReturns,
         Deliver, Finish, Release, Decide, KillOld, ReapOld, Started, Install, RestartFails,
         BackoffExpires, BackoffStops, callVars, callerVars
<1>2. CASE Receive(s)
  <2> DEFINE r == Head(queue)
  <2>1. /\ wpc[s] = "recv" /\ wpc' = [wpc EXCEPT ![s] = "uncount"]
        /\ job' = [job EXCEPT ![s] = r] /\ queue # << >> /\ queue' = Tail(queue)
        /\ UNCHANGED <<result, outcome>>
    BY <1>2 DEF Receive, Goto
  <2>2. /\ r \in Requests /\ Queued(r) /\ Distinct'
        /\ \A q : Queued(q)' <=> Queued(q) /\ q # r
    BY <1>0, <2>1, QueuedAfterTail
  <2>3. job[s] = NoJob /\ ~Held(r) /\ r # NoJob
    BY <2>1, <2>2, PoolAssumption DEF Holding, Serving, PlacedJob, PoolAssumption
  <2> HIDE DEF r
  <2>4. \A q \in Requests : Held(q)' <=> Held(q) \/ q = r
    <3>1. \A q \in Requests : q # NoJob
      BY PoolAssumption DEF PoolAssumption
    <3> QED
      BY <1>0, <2>1, <2>3, <3>1 DEF Held
  <2>5. Holding'
    <3>1. \A t \in Slots : job[t] # r
      BY <2>3 DEF Held
    <3>2. \A t \in Slots \ {s} : job'[t] = job[t] /\ wpc'[t] = wpc[t] /\ outcome'[t] = outcome[t]
      BY <1>0, <2>1
    <3>3. job'[s] = r /\ wpc'[s] = "uncount"
      BY <1>0, <2>1
    <3> QED
      BY <2>3, <3>1, <3>2, <3>3 DEF Holding, Serving
  <2>6. ASSUME NEW q \in Requests PROVE PlacedJob(q)'
    <3>1. PlacedJob(q)
      OBVIOUS
    <3> QED
      BY <1>1, <2>1, <2>2, <2>4, <3>1 DEF PlacedJob
  <2> QED
    BY <2>2, <2>5, <2>6
<1>3. CASE Deliver(s)
  <2> DEFINE r == job[s]
  <2>1. /\ wpc[s] = "deliver" /\ wpc' = [wpc EXCEPT ![s] = "finish"]
        /\ job' = [job EXCEPT ![s] = NoJob] /\ outcome' = [outcome EXCEPT ![s] = "none"]
        /\ result' = [result EXCEPT ![r] = outcome[s]] /\ UNCHANGED queue
    BY <1>3 DEF Deliver, Goto
  <2>2. r # NoJob /\ r \in Requests /\ outcome[s] # "none" /\ Held(r)
    BY <1>0, <2>1 DEF Holding, Serving, Held
  <2>3. Distinct' /\ \A q : Queued(q)' <=> Queued(q)
    BY <2>1 DEF Distinct, Queued
  <2>4. \A t \in Slots \ {s} : job'[t] = job[t] /\ job[t] # r /\ wpc'[t] = wpc[t] /\ outcome'[t] = outcome[t]
    BY <1>0, <2>1, <2>2 DEF Holding
  <2>5. job'[s] = NoJob /\ wpc'[s] = "finish"
    BY <1>0, <2>1
  <2>6. Holding'
    BY <2>4, <2>5 DEF Holding, Serving
  <2>7. \A q \in Requests : Held(q)' <=> Held(q) /\ q # r
    <3>1. \A q \in Requests : q # NoJob
      BY PoolAssumption DEF PoolAssumption
    <3> QED
      BY <2>4, <2>5, <3>1 DEF Held
  <2>8. ASSUME NEW q \in Requests PROVE PlacedJob(q)'
    <3>1. PlacedJob(q) /\ PlacedJob(r) /\ result'[q] = IF q = r THEN outcome[s] ELSE result[q]
      BY <1>0, <2>1, <2>2
    <3> QED
      BY <1>1, <2>2, <2>3, <2>7, <3>1 DEF PlacedJob
  <2> QED
    BY <2>3, <2>6, <2>8
<1>6. CASE CountTaken(s) \/ Occupy(s) \/ LastAnswer(s)
  <2>1. /\ wpc[s] \in Serving
        /\ \E label \in Serving \ {"deliver"} : wpc' = [wpc EXCEPT ![s] = label]
        /\ UNCHANGED <<job, queue, result, outcome>>
    BY <1>6 DEF CountTaken, Occupy, LastAnswer, Goto, callVars, Serving
  <2>2. Holding'
    BY <1>0, <2>1 DEF Holding, Serving
  <2> QED
    BY <1>1, <2>1, <2>2 DEF Distinct, PlacedJob, Held, Queued
<1>4. CASE ConvertReturns(s)
  <2>1. /\ wpc[s] \in {"convert", "answered"} /\ wpc' = [wpc EXCEPT ![s] = "deliver"]
        /\ \E o \in Outcomes : outcome' = [outcome EXCEPT ![s] = o]
        /\ UNCHANGED <<job, queue, result>>
    BY <1>4 DEF ConvertReturns, Goto
  <2>2. Holding'
    BY <1>0, <2>1 DEF Holding, Serving, Outcomes
  <2> QED
    BY <1>1, <2>1, <2>2 DEF Distinct, PlacedJob, Held, Queued
<1>5. CASE \/ WorkerStops(s) \/ Finish(s) \/ Release(s) \/ Decide(s) \/ KillOld(s) \/ ReapOld(s)
           \/ Started(s) \/ Install(s) \/ RestartFails(s) \/ BackoffExpires(s) \/ BackoffStops(s)
  <2>1. /\ wpc[s] \notin Serving
        /\ \E label \in WorkerLabels \ Serving : wpc' = [wpc EXCEPT ![s] = label]
        /\ UNCHANGED <<job, queue, result, outcome>>
    BY <1>5 DEF WorkerStops, Finish, Release, Decide, KillOld, ReapOld, Started, Install,
       RestartFails, BackoffExpires, BackoffStops, Goto, callVars, Serving, WorkerLabels, Restarting
  <2>2. Holding'
    BY <1>0, <2>1 DEF Holding, Serving
  <2> QED
    BY <1>1, <2>1, <2>2 DEF Distinct, PlacedJob, Held, Queued
<1> QED
  BY <1>2, <1>3, <1>4, <1>5, <1>6 DEF Worker

\* No step loses a job, copies it or puts it in a second place.
LEMMA JobStep == ASSUME TypeOK, BootInv, JobInv, [Next]_vars PROVE JobInv'
<1> USE DEF JobInv
<1>1. CASE BootSlot
  <2>1. booted + 1 \in Slots /\ wpc[booted + 1] \in {"off", "recv", "exited"}
    BY <1>1, PoolAssumption DEF BootSlot, BootInv, TypeOK, Slots, PoolAssumption
  <2>3. /\ wpc' = [wpc EXCEPT ![booted + 1] = "recv"]
        /\ UNCHANGED <<job, outcome, pc, ret, result, queue>>
    BY <1>1 DEF BootSlot, callVars, callerVars
  <2>2. Holding'
    BY <2>1, <2>3 DEF TypeOK, Holding, Serving
  <2> QED
    BY <2>2, <2>3 DEF Distinct, PlacedJob, Held, Queued
<1>2. CASE BootReady
  BY <1>2 DEF BootReady, callerVars, workerVars, Distinct, Holding, PlacedJob, Held, Queued
<1>3. CASE UNCHANGED jobVars
  BY <1>3 DEF jobVars, Distinct, Holding, PlacedJob, Held, Queued
<1> QED
  BY <1>1, <1>2, <1>3, CallerKeepsJobs, WorkerKeepsJobs, JobSteps

\* Every job is in its place at all times.
LEMMA JobInvAlways == Spec => []JobInv
<1>1. Init => JobInv
  <2> SUFFICES ASSUME Init PROVE JobInv
    OBVIOUS
  <2>1. Distinct /\ \A r \in Requests : ~Queued(r)
    BY DEF Init, Distinct, Queued
  <2>2. Holding /\ \A r \in Requests : ~Held(r)
    BY PoolAssumption DEF Init, Holding, Held, Serving, PoolAssumption
  <2>3. \A r \in Requests : pc[r] = "idle" /\ ret[r] = "none" /\ result[r] = "none"
    BY DEF Init
  <2> QED
    BY <2>1, <2>2, <2>3 DEF JobInv, PlacedJob
<1>2. InstanceInv => BootInv
  BY DEF InstanceInv
<1>3. TypeOK /\ BootInv /\ JobInv /\ [Next]_vars => JobInv'
  BY JobStep
<1> QED
  BY <1>1, <1>2, <1>3, TypeCorrect, InstanceInvAlways, PTL DEF Spec

-----------------------------------------------------------------------------
(* Drain *)

\* The pool is done with the call of request r, or only has to answer it.
Away(r) == pc[r] \notin {"idle", "check", "select"} /\ ~Queued(r) /\ ~Held(r)

\* A job that the pool is done with does not come back.
LEMMA AwayStays ==
  ASSUME TypeOK, JobInv, [Next]_vars, NEW r \in Requests, Away(r) PROVE Away(r)'
<1>0. /\ pc \in [Requests -> {"idle", "check", "select", "gauge", "wait", "returned"}]
      /\ queue \in Seq(Requests) /\ job \in [Slots -> Requests \cup {NoJob}]
      /\ r # NoJob /\ ~Queued(r) /\ ~Held(r) /\ pc[r] \notin {"idle", "check", "select"}
  BY PoolAssumption DEF TypeOK, PoolAssumption, Away
<1>1. ASSUME NEW q \in Requests, Caller(q) PROVE Away(r)'
  <2>1. pc'[r] \notin {"idle", "check", "select"}
    BY <1>0, <1>1 DEF Caller, Call, PassCheck, RefuseShutdown, Enqueue, RefuseDone, RefuseCtx,
         RefuseFull, CountQueued, TakeResult, GiveUp, Refuse, Return
  <2>2. ~Held(r)'
    BY <1>0, <1>1 DEF Held, Caller, Call, PassCheck, RefuseShutdown, Enqueue, RefuseDone, RefuseCtx,
         RefuseFull, CountQueued, TakeResult, GiveUp, Refuse, Return, workerVars
  <2>3. CASE Enqueue(q)
    <3>1. queue' = Append(queue, q) /\ q # r
      BY <1>0, <2>3 DEF Enqueue
    <3>2. ~Queued(r)'
      BY <1>0, <3>1, QueuedAfterAppend
    <3> QED
      BY <2>1, <2>2, <3>2 DEF Away
  <2>4. CASE UNCHANGED queue
    BY <1>0, <2>1, <2>2, <2>4 DEF Away, Queued
  <2>5. Enqueue(q) \/ UNCHANGED queue
    BY <1>1 DEF Caller, Call, PassCheck, RefuseShutdown, RefuseDone, RefuseCtx, RefuseFull,
       CountQueued, TakeResult, GiveUp, Refuse, Return
  <2> QED
    BY <2>3, <2>4, <2>5
<1>2. ASSUME NEW s \in Slots, Worker(s) PROVE Away(r)'
  <2>1. UNCHANGED pc
    BY <1>2 DEF Worker, Receive, CountTaken, Occupy, WorkerStops, LastAnswer, ConvertReturns,
       Deliver, Finish, Release, Decide, KillOld, ReapOld, Started, Install, RestartFails,
       BackoffExpires, BackoffStops, callVars, callerVars
  <2>2. CASE Receive(s)
    <3>1. queue # << >> /\ queue' = Tail(queue) /\ job' = [job EXCEPT ![s] = Head(queue)]
      BY <2>2 DEF Receive
    <3>2. ~Queued(r)' /\ Head(queue) # r
      BY <1>0, <3>1, QueuedAfterTail DEF JobInv
    <3> QED
      BY <1>0, <2>1, <3>1, <3>2 DEF Away, Held
  <2>3. CASE Deliver(s)
    <3>1. UNCHANGED queue /\ job' = [job EXCEPT ![s] = NoJob]
      BY <2>3 DEF Deliver
    <3> QED
      BY <1>0, <2>1, <3>1 DEF Away, Held, Queued
  <2>4. ASSUME ~Receive(s), ~Deliver(s) PROVE UNCHANGED <<queue, job>>
    BY <1>2, <2>4 DEF Worker, CountTaken, Occupy, WorkerStops, LastAnswer, ConvertReturns,
       Finish, Release, Decide, KillOld, ReapOld, Started, Install, RestartFails,
       BackoffExpires, BackoffStops, callVars
  <2> QED
    BY <1>0, <2>1, <2>2, <2>3, <2>4 DEF Away, Held, Queued
<1>3. CASE BootSlot \/ BootReady \/ UNCHANGED jobVars
  <2>1. UNCHANGED <<pc, queue, job>>
    BY <1>3 DEF BootSlot, BootReady, jobVars, callVars, callerVars, workerVars
  <2> QED
    BY <1>0, <2>1 DEF Away, Held, Queued
<1> QED
  BY <1>1, <1>2, <1>3, JobSteps

\* While Drain has its report to give, the pool is done with the calls it is about.
DrainInv == drain = "waited" => \A r \in drained : Away(r)

\* When wg.Wait returns, no call has a job to come, queued or in a worker's hands.
LEMMA WaitMeansAway ==
  ASSUME TypeOK, CountInv, JobInv, wg = 0, NEW r \in Requests, pc[r] # "idle" PROVE Away(r)
<1>1. queue \in Seq(Requests) /\ Len(queue) \in Nat
  BY DEF TypeOK
<1>2. Cardinality(Entering) = 0 /\ Len(queue) = 0 /\ Cardinality(Working) = 0
  <2>1. Cardinality(Entering) + Len(queue) + Cardinality(Working) = 0
    BY DEF CountInv
  <2> QED
    BY <1>1, <2>1, CountsAreNat
<1>3. Entering = {} /\ Working = {}
  <2>1. IsFiniteSet(Entering) /\ IsFiniteSet(Working)
    BY SlotsFinite, PoolAssumption, FS_Subset DEF Entering, Working, PoolAssumption
  <2> QED
    BY <1>2, <2>1, FS_EmptySet
<1>4. ~Held(r)
  BY <1>3, PoolAssumption DEF JobInv, Holding, Held, Working, PoolAssumption
<1>5. ~Queued(r)
  BY <1>2 DEF Queued
<1>6. pc[r] \notin {"check", "select"}
  BY <1>3 DEF Entering
<1> QED
  BY <1>4, <1>5, <1>6 DEF Away

\* The steps of Drain and its helper; every other leaves them alone.
LEMMA DrainSteps == [Next]_vars => Draining \/ UNCHANGED <<drain, drained>>
<1> USE DEF lifecycle
<1>1. Booting \/ BeginClose \/ Closing => UNCHANGED <<drain, drained>>
  BY DEF Booting, BootSlot, BootFails, BootReady, BootReturnsError, BeginClose, Closing, CloseDone,
         CloseLocks, CloseSlot, CloseWaits, CloseReturns
<1>2. World => UNCHANGED <<drain, drained>>
  BY DEF World, CtxEnds, BrowserDies, ConnectionDrops
<1>3. ASSUME NEW r \in Requests PROVE Caller(r) => UNCHANGED <<drain, drained>>
  BY DEF Caller, Call, PassCheck, RefuseShutdown, Enqueue, RefuseDone, RefuseCtx,
         RefuseFull, CountQueued, TakeResult, GiveUp, Refuse, Return
<1>4. ASSUME NEW s \in Slots PROVE Worker(s) => UNCHANGED <<drain, drained>>
  BY DEF Worker, Receive, CountTaken, Occupy, WorkerStops, LastAnswer, ConvertReturns,
         Deliver, Finish, Release, Decide, KillOld, ReapOld, Started, Install, RestartFails,
         BackoffExpires, BackoffStops
<1>5. Terminated \/ UNCHANGED vars => UNCHANGED <<drain, drained>>
  BY DEF Terminated, vars
<1> QED
  BY <1>1, <1>2, <1>3, <1>4, <1>5 DEF Next

\* From the return of wg.Wait in Drain's helper to Drain's own, no job of a call made
\* before is about to be queued, queued or in a worker's hands, whatever calls are made
\* in between.
THEOREM DrainIsComplete == Spec => []DrainLosesNothing
<1>1. Init => DrainInv
  BY DEF Init, DrainInv
<1>2. ASSUME TypeOK, CountInv, JobInv, DrainInv, [Next]_vars PROVE DrainInv'
  <2>1. drained \subseteq Requests /\ pc \in [Requests -> {"idle", "check", "select", "gauge", "wait", "returned"}]
    BY <1>2 DEF TypeOK
  <2>2. CASE WaitReturns /\ drain = "waiting"
    <3>1. /\ wg = 0 /\ drained' = {r \in Requests : pc[r] # "idle"}
      BY <2>2 DEF WaitReturns
    <3>2. \A r \in drained' : r \in Requests /\ Away(r)
      BY <1>2, <3>1, WaitMeansAway
    <3>3. \A r \in drained' : Away(r)'
      BY <1>2, <3>2, AwayStays
    <3> QED
      BY <3>3 DEF DrainInv
  <2>3. CASE drain' # "waited"
    BY <2>3 DEF DrainInv
  <2>4. CASE UNCHANGED <<drain, drained>>
    <3>1. ASSUME NEW r \in drained, Away(r) PROVE Away(r)'
      BY <1>2, <2>1, <3>1, AwayStays
    <3> QED
      BY <1>2, <2>4, <3>1 DEF DrainInv
  <2> QED
    BY <1>2, <2>2, <2>3, <2>4, DrainSteps DEF Draining, BeginDrain, WaitReturns, DrainDone,
       DrainExpires, DrainGoes
<1>3. ASSUME TypeOK, DrainInv PROVE DrainLosesNothing
  <2> SUFFICES ASSUME drain = "waited", NEW r \in drained
               PROVE  /\ pc[r] \notin {"check", "select"} /\ ~Queued(r)
                      /\ \A s \in Slots : wpc[s] \in Serving => job[s] # r
    BY DEF DrainLosesNothing
  <2> QED
    BY <1>3 DEF DrainInv, Away, Held
<1> QED
  BY <1>1, <1>2, <1>3, TypeCorrect, CountInvAlways, JobInvAlways, PTL DEF Spec

-----------------------------------------------------------------------------
\* A set whose members are all equal has at most one.
LEMMA AtMostOne ==
  ASSUME NEW S, \A x, y \in S : x = y
  PROVE  Cardinality(S) = IF S = {} THEN 0 ELSE 1
<1>1. CASE S = {}
  BY <1>1, FS_EmptySet
<1>2. CASE S # {}
  <2>1. PICK x \in S : S = {x}
    BY <1>2
  <2> QED
    BY <1>2, <2>1, FS_Singleton
<1> QED
  BY <1>1, <1>2

\* However enqueueing, cancelling, restarting and closing interleave, an accepted
\* job is queued once, held by one worker, or answered.
THEOREM JobsAreNotLost == Spec => []EachJobInOnePlace
<1>1. ASSUME TypeOK, JobInv PROVE EachJobInOnePlace
  <2> SUFFICES ASSUME NEW r \in Requests
               PROVE  LET places == Cardinality({i \in 1 .. Len(queue) : queue[i] = r})
                                      + Cardinality({s \in Slots : job[s] = r})
                                      + (IF result[r] = "none" THEN 0 ELSE 1)
                      IN  /\ places <= 1
                          /\ pc[r] \in {"gauge", "wait"} => places = 1
                          /\ pc[r] \in {"idle", "check", "select"} \/ ret[r] = "full" => places = 0
    BY Zenon DEF EachJobInOnePlace, Count
  <2>1. Cardinality({i \in 1 .. Len(queue) : queue[i] = r}) = IF Queued(r) THEN 1 ELSE 0
    <3>1. \A i, j \in {k \in 1 .. Len(queue) : queue[k] = r} : i = j
      BY <1>1 DEF JobInv, Distinct
    <3>2. {i \in 1 .. Len(queue) : queue[i] = r} = {} <=> ~Queued(r)
      BY DEF Queued
    <3> QED
      BY <3>1, <3>2, AtMostOne
  <2>2. Cardinality({s \in Slots : job[s] = r}) = IF Held(r) THEN 1 ELSE 0
    <3>1. \A s, t \in {u \in Slots : job[u] = r} : s = t
      BY <1>1, PoolAssumption DEF JobInv, Holding, PoolAssumption
    <3>2. {s \in Slots : job[s] = r} = {} <=> ~Held(r)
      BY DEF Held
    <3> QED
      BY <3>1, <3>2, AtMostOne
  <2>3. PlacedJob(r)
    BY <1>1 DEF JobInv
  <2> QED
    BY <2>1, <2>2, <2>3 DEF PlacedJob
<1> QED
  BY <1>1, JobInvAlways, TypeCorrect, PTL

-----------------------------------------------------------------------------
(***************************************************************************)
(* The pool implements ConversionService: the line is the channel, those   *)
(* being served are the jobs in the workers' hands.                        *)
(***************************************************************************)

InHand == {job[s] : s \in {t \in Slots : wpc[t] \in Serving}}

\* A worker without a job leaves a server free.
LEMMA ServerIsFree ==
  ASSUME JobInv, NEW s \in Slots, wpc[s] \notin Serving PROVE Cardinality(InHand) < Size
<1> DEFINE f == [r \in InHand |-> CHOOSE t \in Slots : wpc[t] \in Serving /\ job[t] = r]
<1>1. \A r \in InHand : f[r] \in Slots \ {s} /\ job[f[r]] = r
  BY DEF InHand
<1>2. f \in Injection(InHand, Slots \ {s})
  BY <1>1 DEF Injection, IsInjective
<1>3. IsFiniteSet(Slots \ {s}) /\ Cardinality(Slots \ {s}) = Size - 1
  BY SlotsFinite, FS_RemoveElement
<1>4. Cardinality(InHand) <= Size - 1 /\ Cardinality(InHand) \in Nat
  BY <1>2, <1>3, FS_Injection, FS_CardinalityType
<1> QED
  BY <1>4, PoolAssumption DEF PoolAssumption

\* Every step of a call is a step of the service or invisible to it.
LEMMA CallerServes ==
  ASSUME TypeOK, JobInv, NEW r \in Requests, Caller(r) PROVE [Service!Next]_(Service!vars)
<1>1. InHand' = InHand /\ UNCHANGED result
  BY DEF InHand, Caller, Call, PassCheck, RefuseShutdown, Enqueue, RefuseDone, RefuseCtx,
         RefuseFull, CountQueued, TakeResult, GiveUp, Refuse, Return, workerVars
<1>2. PlacedJob(r) /\ (Service!Joined(r) <=> Held(r) \/ Queued(r) \/ result[r] # "none")
  <2>1. r \in InHand <=> Held(r)
    BY PoolAssumption DEF JobInv, Holding, InHand, Held, PoolAssumption
  <2> QED
    BY <2>1 DEF JobInv, Service!Joined, Queued, InHand
<1>3. CASE Call(r) \/ PassCheck(r) \/ CountQueued(r)
  BY <1>1, <1>3 DEF Call, PassCheck, CountQueued, Service!vars, InHand
<1>4. CASE Enqueue(r)
  <2>1. Service!Join(r)
    BY <1>1, <1>2, <1>4 DEF Enqueue, QueueHasRoom, PlacedJob, Service!Join, InHand
  <2> QED
    BY <2>1 DEF Service!Next
<1>5. ASSUME NEW err \in {"full", "ctx"}, pc[r] \in {"check", "select"}, Refuse(r, err)
      PROVE  Service!Next
  <2>1. Service!Refuse(r)
    BY <1>1, <1>2, <1>5 DEF Refuse, PlacedJob, Service!Refuse, InHand
  <2> QED
    BY <2>1 DEF Service!Next
<1>6. ASSUME NEW value \in {result[r], "ctx"} \ {"none"}, pc[r] = "wait", Return(r, value)
      PROVE  Service!Next
  <2>1. Service!Answer(r)
    BY <1>1, <1>2, <1>6 DEF Return, PlacedJob, Service!Answer, InHand
  <2> QED
    BY <2>1 DEF Service!Next
<1>7. CASE RefuseShutdown(r) \/ RefuseDone(r) \/ RefuseCtx(r) \/ RefuseFull(r)
  BY <1>5, <1>7 DEF RefuseShutdown, RefuseDone, RefuseCtx, RefuseFull
<1>8. CASE TakeResult(r) \/ GiveUp(r)
  BY <1>6, <1>8 DEF TakeResult, GiveUp
<1> QED
  BY <1>3, <1>4, <1>7, <1>8 DEF Caller

\* So is every step of a worker.
LEMMA WorkerServes ==
  ASSUME TypeOK, JobInv, NEW s \in Slots, Worker(s) PROVE [Service!Next]_(Service!vars)
<1>0. /\ queue \in Seq(Requests) /\ job \in [Slots -> Requests \cup {NoJob}]
      /\ wpc \in [Slots -> WorkerLabels] /\ outcome \in [Slots -> Outcomes \cup {"none"}]
  BY DEF TypeOK
<1>1. UNCHANGED ret
  BY DEF Worker, Receive, CountTaken, Occupy, WorkerStops, LastAnswer, ConvertReturns,
         Deliver, Finish, Release, Decide, KillOld, ReapOld, Started, Install, RestartFails,
         BackoffExpires, BackoffStops, callVars, callerVars
<1>2. CASE Receive(s)
  <2>1. /\ wpc[s] = "recv" /\ wpc' = [wpc EXCEPT ![s] = "uncount"]
        /\ job' = [job EXCEPT ![s] = Head(queue)] /\ queue # << >> /\ queue' = Tail(queue)
        /\ UNCHANGED result
    BY <1>2 DEF Receive, Goto
  <2>2. Cardinality(InHand) < Size
    BY <2>1, ServerIsFree DEF Serving
  <2>3. InHand' = InHand \cup {Head(queue)}
    BY <1>0, <2>1 DEF InHand, Serving
  <2>4. Service!Serve
    <3>1. Service!Cardinality(InHand) = Cardinality(InHand)
      BY DEF Service!Cardinality, Cardinality
    <3> QED
      BY <1>1, <2>1, <2>2, <2>3, <3>1 DEF Service!Serve, InHand
  <2> QED
    BY <2>4 DEF Service!Next
<1>3. CASE Deliver(s)
  <2>0. PICK r \in Requests : r = job[s]
    BY <1>0, <1>3 DEF Deliver, JobInv, Holding, Serving
  <2>1. /\ wpc[s] = "deliver" /\ wpc' = [wpc EXCEPT ![s] = "finish"]
        /\ job' = [job EXCEPT ![s] = NoJob] /\ result[r] = "none"
        /\ result' = [result EXCEPT ![r] = outcome[s]] /\ UNCHANGED queue
    BY <1>3, <2>0 DEF Deliver, Goto
  <2>2. r # NoJob /\ outcome[s] \in Outcomes /\ r \in InHand
    BY <1>0, <2>0, <2>1 DEF JobInv, Holding, Serving, InHand
  <2>3. \A t \in Slots \ {s} : job'[t] = job[t] /\ job[t] # r /\ wpc'[t] = wpc[t]
    BY <1>0, <2>0, <2>1, <2>2 DEF JobInv, Holding
  <2>4. InHand' = InHand \ {r}
    <3>1. wpc'[s] \notin Serving
      BY <1>0, <2>1 DEF Serving
    <3> QED
      BY <2>0, <2>3, <3>1 DEF InHand
  <2>5. Service!Complete(r)
    BY <1>1, <2>1, <2>2, <2>4 DEF Service!Complete, InHand, Outcomes, Service!Outcomes
  <2> QED
    BY <2>5 DEF Service!Next
<1>6. CASE CountTaken(s) \/ Occupy(s) \/ LastAnswer(s)
  <2>1. /\ wpc[s] \in Serving
        /\ \E label \in Serving : wpc' = [wpc EXCEPT ![s] = label]
        /\ UNCHANGED <<job, queue, result>>
    BY <1>6 DEF CountTaken, Occupy, LastAnswer, Goto, callVars, Serving
  <2>2. InHand' = InHand
    BY <1>0, <2>1 DEF InHand
  <2> QED
    BY <1>1, <2>1, <2>2 DEF Service!vars, InHand
<1>4. CASE ConvertReturns(s)
  <2>1. /\ wpc[s] \in {"convert", "answered"} /\ wpc' = [wpc EXCEPT ![s] = "deliver"]
        /\ UNCHANGED <<job, queue, result>>
    BY <1>4 DEF ConvertReturns, Goto
  <2>2. InHand' = InHand
    BY <1>0, <2>1 DEF InHand, Serving
  <2> QED
    BY <1>1, <2>1, <2>2 DEF Service!vars, InHand
<1>5. CASE \/ WorkerStops(s) \/ Finish(s) \/ Release(s) \/ Decide(s) \/ KillOld(s) \/ ReapOld(s)
           \/ Started(s) \/ Install(s) \/ RestartFails(s) \/ BackoffExpires(s) \/ BackoffStops(s)
  <2>1. /\ wpc[s] \notin Serving
        /\ \E label \in WorkerLabels \ Serving : wpc' = [wpc EXCEPT ![s] = label]
        /\ UNCHANGED <<job, queue, result>>
    BY <1>5 DEF WorkerStops, Finish, Release, Decide, KillOld, ReapOld, Started, Install,
       RestartFails, BackoffExpires, BackoffStops, Goto, callVars, Serving, WorkerLabels, Restarting
  <2>2. InHand' = InHand
    BY <1>0, <2>1 DEF InHand
  <2> QED
    BY <1>1, <2>1, <2>2 DEF Service!vars, InHand
<1> QED
  BY <1>2, <1>3, <1>4, <1>5, <1>6 DEF Worker

\* The pool is a conversion service: first come, first served, at most Size at a
\* time, each request once, each answer the outcome of the request's own conversion.
THEOREM PoolIsAService == Spec => ServiceSpec
<1>1. Init => Service!Init
  BY DEF Init, Service!Init, Serving
<1>2. ASSUME TypeOK, BootInv, JobInv, [Next]_vars PROVE [Service!Next]_(Service!vars)
  <2>1. CASE BootSlot
    <3>1. booted + 1 \in Slots /\ wpc[booted + 1] \in {"off", "recv", "exited"}
      BY <1>2, <2>1, PoolAssumption DEF BootSlot, BootInv, TypeOK, Slots, PoolAssumption
    <3>2. /\ wpc' = [wpc EXCEPT ![booted + 1] = "recv"]
          /\ UNCHANGED <<job, ret, result, queue>>
      BY <2>1 DEF BootSlot, callVars, callerVars
    <3>3. InHand' = InHand
      BY <1>2, <3>1, <3>2 DEF InHand, Serving, TypeOK
    <3> QED
      BY <3>2, <3>3 DEF Service!vars, InHand
  <2>2. CASE BootReady \/ UNCHANGED jobVars
    BY <2>2 DEF BootReady, callerVars, workerVars, jobVars, Service!vars
  <2> QED
    BY <1>2, <2>1, <2>2, CallerServes, WorkerServes, JobSteps
<1>3. InstanceInv => BootInv
  BY DEF InstanceInv
<1> QED
  BY <1>1, <1>2, <1>3, TypeCorrect, InstanceInvAlways, JobInvAlways, PTL
  DEF Spec, ServiceSpec, Service!Spec

-----------------------------------------------------------------------------
(* The count of failures in a row *)

\* A conversion of r failed in a browser, and was delivered or is about to be.
FailedOnce(r) ==
  \/ result[r] = "err"
  \/ \E s \in Slots : job[s] = r /\ wpc[s] = "deliver" /\ outcome[s] = "err"

\* The count is that of the failures since the last success, each of another request.
SickInv == fallos = Cardinality(streak) /\ \A r \in streak : FailedOnce(r)

\* A failure stays on record.
LEMMA FailedStays ==
  ASSUME TypeOK, BootInv, JobInv, [Next]_vars, NEW r \in Requests, FailedOnce(r)
  PROVE  FailedOnce(r)'
<1>0. /\ wpc \in [Slots -> WorkerLabels] /\ outcome \in [Slots -> Outcomes \cup {"none"}]
      /\ result \in [Requests -> Outcomes \cup {"none"}] /\ job \in [Slots -> Requests \cup {NoJob}]
      /\ FailedOnce(r)
  BY DEF TypeOK
<1>1. ASSUME NEW s \in Slots, Worker(s) PROVE FailedOnce(r)'
  <2>1. CASE Deliver(s)
    <3>1. /\ wpc[s] = "deliver" /\ wpc' = [wpc EXCEPT ![s] = "finish"] /\ result[job[s]] = "none"
          /\ result' = [result EXCEPT ![job[s]] = outcome[s]]
          /\ job' = [job EXCEPT ![s] = NoJob] /\ outcome' = [outcome EXCEPT ![s] = "none"]
      BY <2>1 DEF Deliver, Goto
    <3>2. CASE result[r] = "err"
      BY <1>0, <3>1, <3>2 DEF FailedOnce
    <3>3. ASSUME NEW t \in Slots, job[t] = r, wpc[t] = "deliver", outcome[t] = "err"
          PROVE  FailedOnce(r)'
      BY <1>0, <3>1, <3>3 DEF FailedOnce
    <3> QED
      BY <1>0, <3>2, <3>3 DEF FailedOnce
  <2>2. ASSUME ~Deliver(s)
        PROVE  /\ UNCHANGED result /\ wpc[s] # "deliver"
               /\ \A t \in Slots \ {s} : UNCHANGED <<job[t], wpc[t], outcome[t]>>
    BY <1>0, <1>1, <2>2 DEF Worker, Receive, CountTaken, Occupy, WorkerStops, LastAnswer,
       ConvertReturns, Finish, Release, Decide, KillOld, ReapOld, Started, Install, RestartFails,
       BackoffExpires, BackoffStops, Goto, callVars
  <2> QED
    BY <1>0, <2>1, <2>2 DEF FailedOnce
<1>2. ASSUME NEW q \in Requests, Caller(q) PROVE FailedOnce(r)'
  BY <1>0, <1>2 DEF Caller, Call, PassCheck, RefuseShutdown, Enqueue, RefuseDone, RefuseCtx,
       RefuseFull, CountQueued, TakeResult, GiveUp, Refuse, Return, workerVars, FailedOnce
<1>3. CASE BootSlot
  <2>1. booted + 1 \in Slots /\ wpc[booted + 1] \in {"off", "recv", "exited"}
    BY <1>3, PoolAssumption DEF BootSlot, BootInv, TypeOK, Slots, PoolAssumption
  <2>2. wpc' = [wpc EXCEPT ![booted + 1] = "recv"] /\ UNCHANGED <<job, outcome, result>>
    BY <1>3 DEF BootSlot, callVars
  <2> QED
    BY <1>0, <2>1, <2>2 DEF FailedOnce
<1>4. CASE BootReady \/ UNCHANGED jobVars
  BY <1>0, <1>4 DEF BootReady, workerVars, jobVars, FailedOnce
<1> QED
  BY <1>1, <1>2, <1>3, <1>4, JobSteps

\* Only the end of a conversion touches the count and its streak.
LEMMA SicknessSteps ==
  [Next]_vars => (\E s \in Slots : ConvertReturns(s)) \/ UNCHANGED sickness
<1> USE DEF callVars, counters
<1>1. Booting \/ BeginClose \/ Closing => UNCHANGED sickness
  BY DEF Booting, BootSlot, BootFails, BootReady, BootReturnsError, BeginClose, Closing, CloseDone,
         CloseLocks, CloseSlot, CloseWaits, CloseReturns
<1>2. Draining \/ World => UNCHANGED sickness
  BY DEF Draining, BeginDrain, WaitReturns, DrainDone, DrainExpires, DrainGoes, World, CtxEnds,
         BrowserDies, ConnectionDrops
<1>3. ASSUME NEW r \in Requests PROVE Caller(r) => UNCHANGED sickness
  BY DEF Caller, Call, PassCheck, RefuseShutdown, Enqueue, RefuseDone, RefuseCtx,
         RefuseFull, CountQueued, TakeResult, GiveUp, Refuse, Return
<1>4. ASSUME NEW s \in Slots PROVE Worker(s) => ConvertReturns(s) \/ UNCHANGED sickness
  BY DEF Worker, Receive, CountTaken, Occupy, WorkerStops, LastAnswer, Deliver, Finish, Release,
         Decide, KillOld, ReapOld, Started, Install, RestartFails, BackoffExpires, BackoffStops
<1>5. Terminated \/ UNCHANGED vars => UNCHANGED sickness
  BY DEF Terminated, vars
<1> QED
  BY <1>1, <1>2, <1>3, <1>4, <1>5 DEF Next

\* The count rises only with a conversion that failed, and a success clears it.
LEMMA SickStep == ASSUME TypeOK, BootInv, JobInv, SickInv, [Next]_vars PROVE SickInv'
<1>0. /\ fallos \in Nat /\ streak \subseteq Requests /\ fallos = Cardinality(streak)
      /\ \A r \in streak : FailedOnce(r)
      /\ wpc \in [Slots -> WorkerLabels] /\ outcome \in [Slots -> Outcomes \cup {"none"}]
      /\ job \in [Slots -> Requests \cup {NoJob}]
  BY DEF TypeOK, SickInv
<1>1. \A r \in streak : FailedOnce(r)'
  BY <1>0, FailedStays
<1>2. CASE UNCHANGED sickness
  BY <1>0, <1>1, <1>2 DEF SickInv, sickness
<1>3. ASSUME NEW s \in Slots, ConvertReturns(s) PROVE SickInv'
  <2>1. PICK o \in Outcomes : /\ outcome' = [outcome EXCEPT ![s] = o] /\ fallos' = Tally(o)
                              /\ streak' = CASE o = "ok"  -> {}
                                              [] o = "ctx" -> streak
                                              [] o = "err" -> streak \cup {job[s]}
    BY <1>3 DEF ConvertReturns
  <2>2. CASE o = "ok"
    BY <2>1, <2>2, FS_EmptySet DEF SickInv, Tally
  <2>3. CASE o = "ctx"
    BY <1>0, <1>1, <2>1, <2>3 DEF SickInv, Tally
  <2>4. CASE o = "err"
    <3>1. /\ wpc[s] \in {"convert", "answered"} /\ wpc' = [wpc EXCEPT ![s] = "deliver"]
          /\ UNCHANGED job
      BY <1>3 DEF ConvertReturns, Goto
    <3>2. job[s] \in Requests /\ job[s] # NoJob
      BY <1>0, <3>1 DEF JobInv, Holding, Serving
    <3>3. ~FailedOnce(job[s])
      <4>1. result[job[s]] = "none"
        BY <3>2 DEF JobInv, PlacedJob, Held
      <4>2. \A t \in Slots : job[t] = job[s] => t = s
        BY <3>2 DEF JobInv, Holding
      <4> QED
        BY <3>1, <4>1, <4>2 DEF FailedOnce
    <3>4. job[s] \notin streak
      BY <1>0, <3>3
    <3>5. IsFiniteSet(streak)
      BY <1>0, PoolAssumption, FS_Subset DEF PoolAssumption
    <3>6. streak' = streak \cup {job[s]} /\ fallos' = fallos + 1
      BY <2>1, <2>4 DEF Tally
    <3>7. Cardinality(streak') = Cardinality(streak) + 1
      BY <3>4, <3>5, <3>6, FS_AddElement
    <3>8. FailedOnce(job[s])'
      BY <1>0, <2>1, <2>4, <3>1 DEF FailedOnce
    <3> QED
      BY <1>0, <1>1, <3>1, <3>6, <3>7, <3>8 DEF SickInv
  <2> QED
    BY <2>2, <2>3, <2>4 DEF Outcomes
<1> QED
  BY <1>2, <1>3, SicknessSteps

\* The pool calls itself sick only when three conversions failed in a browser with no
\* success between them, or every instance has crashed: load shedding and clients that
\* leave never count, nor does what failed before the last success.
THEOREM SicknessHasReasons == Spec => []SickForAReason
<1>1. Init => SickInv
  BY FS_EmptySet DEF Init, SickInv
<1>2. InstanceInv => BootInv
  BY DEF InstanceInv
<1>3. TypeOK /\ BootInv /\ JobInv /\ SickInv /\ [Next]_vars => SickInv'
  BY SickStep
<1>4. ASSUME TypeOK, BootInv, SickInv PROVE SickForAReason
  <2> SUFFICES ASSUME boot = "ready", ~Health
               PROVE  Cardinality(streak) >= maxFallosSeguidos \/ \A s \in Slots : closed[s]
    BY DEF SickForAReason
  <2>1. CASE fallos >= maxFallosSeguidos
    BY <1>4, <2>1 DEF SickInv
  <2>2. CASE \A s \in 1 .. booted : closed[s]
    BY <1>4, <2>2 DEF BootInv, Slots
  <2> QED
    BY <1>4, <2>1, <2>2 DEF Health, HasCrashed, TypeOK, maxFallosSeguidos
<1> QED
  BY <1>1, <1>2, <1>3, <1>4, TypeCorrect, InstanceInvAlways, JobInvAlways, PTL DEF Spec
=============================================================================
