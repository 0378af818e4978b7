---------------------------- MODULE ProcessProofs ----------------------------
(***************************************************************************)
(* Proofs about Process for every number of launches and every limit of    *)
(* the watchdog: whatever fails while a slot restarts and closes, it has   *)
(* one Chromium at a time, and the watchdog keeps its promises about it.   *)
(***************************************************************************)
EXTENDS Process, TLAPS

-----------------------------------------------------------------------------
(* The watchdog, over any pool *)

\* The next tick that the goroutine will take, and the next that it will have handled.
coming == IF tick = Zero THEN nextTick ELSE tick
due    == IF ahora = Zero THEN coming ELSE ahora

\* The ticker: ticks are intervalo apart, and one that was dropped leaves a longer gap.
ClockInv ==
  /\ nextTick >= intervalo /\ now < nextTick /\ nextTick - intervalo <= now
  /\ tick # Zero => nextTick = tick + intervalo \/ nextTick >= tick + 2 * intervalo
  /\ vigil \in Watching => limite > 0
  /\ vigil \in Watching /\ ahora # Zero => ahora + intervalo <= coming

\* The samples: bad ones since enfermoDesde, which is after the last good one.
SampleInv ==
  vigil \in Watching =>
    /\ lastOk + intervalo <= due
    /\ enfermoDesde # Zero => lastOk + intervalo <= enfermoDesde /\ enfermoDesde + intervalo <= due

\* The illness of cause c: a tick is late only in the unit in which the illness began or
\* the mutex was released; the sample that is due sees it, or the count began at most a
\* tick after it and the sample does not come later than the exit allows; and of the
\* sample after that the same will be true.
IllnessInv(c) ==
  LET since == sickSince[c]
  IN  vigil \in Watching /\ since # Zero =>
        /\ now - due > Lag => since = now
        /\ enfermoDesde = Zero => due <= since + intervalo
        /\ enfermoDesde # Zero => /\ enfermoDesde <= since + intervalo
                                  /\ \/ due < enfermoDesde + limite + intervalo
                                     \/ due <= since + intervalo
        /\ ahora # Zero => coming <= ahora + intervalo \/ coming <= since + intervalo
        /\ c = "failing" /\ vigil = "locking" => coming <= since + intervalo

WatchInv == ClockInv /\ SampleInv /\ NeverHasty

IllnessesInv == \A c \in Causes : IllnessInv(c)

\* What the arithmetic needs of the types.
Dated == /\ now \in Nat /\ nextTick \in Nat /\ lastOk \in Nat
         /\ tick \in Nat \cup {Zero} /\ ahora \in Nat \cup {Zero} /\ enfermoDesde \in Nat \cup {Zero}
         /\ tick <= now /\ ahora <= now /\ enfermoDesde <= now
         /\ (vigil \in Handling \cup {"exited"}) <=> ahora # Zero

LEMMA Dates == TypeOK => Dated
<1> SUFFICES ASSUME TypeOK PROVE Dated
  OBVIOUS
<1> USE DEF Zero
<1>1. now \in Nat /\ nextTick \in Nat /\ lastOk \in Nat
  BY WatchdogAssumption DEF WatchdogAssumption, TypeOK
<1>2. tick \in (0 .. now) \cup {Zero} /\ ahora \in (0 .. now) \cup {Zero}
      /\ enfermoDesde \in (0 .. now) \cup {Zero}
  BY DEF TypeOK
<1>3. (vigil \in Handling \cup {"exited"}) <=> ahora # Zero
  BY DEF TypeOK
<1> QED
  BY <1>1, <1>2, <1>3 DEF Dated

LEMMA SicknessDated ==
  ASSUME TypeOK, NEW c \in Causes
  PROVE  /\ sickSince[c] \in Nat \cup {Zero} /\ sickSince[c] <= now
         /\ Ill(c) <=> sickSince[c] # Zero
<1>1. now \in Nat /\ sickSince[c] \in (0 .. now) \cup {Zero}
  BY WatchdogAssumption DEF WatchdogAssumption, TypeOK
<1>2. Ill(c) <=> sickSince[c] # Zero
  BY DEF TypeOK
<1> QED
  BY <1>1, <1>2 DEF Zero

\* No step of the clock, the pool or the goroutine breaks the types,
LEMMA TypeStep == TypeOK /\ WatchInv /\ [Next]_vars => TypeOK'
<1> SUFFICES ASSUME TypeOK, WatchInv, [Next]_vars PROVE TypeOK'
  OBVIOUS
<1> USE WatchdogAssumption DEF WatchdogAssumption, TypeOK, Zero, Vigils, Watching, Handling
<1>1. CASE PoolTurns
  <2>1. PICK f, c, l \in BOOLEAN : Turns(f, c, l)
    BY <1>1 DEF PoolTurns
  <2>2. sickSince' = [d \in Causes |-> IF ~Ill(d)' THEN Zero ELSE IF Ill(d) THEN sickSince[d] ELSE now]
    BY <2>1 DEF Turns
  <2> HIDE DEF Zero
  <2>3. ASSUME NEW d \in Causes
        PROVE  sickSince'[d] \in (0 .. now) \cup {Zero} /\ Ill(d)' = (sickSince'[d] # Zero)
    <3>1. sickSince'[d] = IF ~Ill(d)' THEN Zero ELSE IF Ill(d) THEN sickSince[d] ELSE now
      BY <2>2
    <3>2. now \in Nat /\ now # Zero /\ sickSince[d] \in (0 .. now) \cup {Zero}
      BY DEF Zero
    <3>3. Ill(d) <=> sickSince[d] # Zero
      BY DEF TypeOK
    <3>4. Ill(d)' \in BOOLEAN
      BY <2>1 DEF Turns, Ill
    <3> QED
      BY <3>1, <3>2, <3>3, <3>4
  <2>4. /\ sickSince' \in [Causes -> (0 .. now) \cup {Zero}]
        /\ \A d \in Causes : Ill(d)' = (sickSince'[d] # Zero)
    BY <2>2, <2>3
  <2> QED
    BY <2>1, <2>4 DEF Turns, clockVars
<1>2. CASE CtxDone
  BY <1>2 DEF CtxDone, clockVars, poolVars, Ill
<1>3. CASE Advance
  BY <1>3 DEF Advance, poolVars, Ill, WatchInv, ClockInv
<1>4. CASE Stop \/ LooksAtInstances \/ Exit
  BY <1>4 DEF Stop, LooksAtInstances, Exit, Answered, clockVars, poolVars, Ill
<1>5. CASE TakeTick
  BY <1>5 DEF TakeTick, poolVars, Ill
<1>6. CASE SampleOk \/ SampleFirstSick \/ SampleStillSick
  BY <1>6 DEF SampleOk, SampleFirstSick, SampleStillSick, Answered, NextLoop, clockVars, poolVars, Ill
<1>7. CASE Finished \/ UNCHANGED vars
  BY <1>7 DEF Finished, vars, clockVars, poolVars, Ill
<1> QED
  BY <1>1, <1>2, <1>3, <1>4, <1>5, <1>6, <1>7 DEF Next, Vigil

\* the order of the ticks and the samples,
LEMMA WatchStep == TypeOK /\ WatchInv /\ [Next]_vars => WatchInv'
<1> SUFFICES ASSUME TypeOK, WatchInv, [Next]_vars PROVE WatchInv'
  OBVIOUS
<1> USE WatchdogAssumption, Dates DEF WatchdogAssumption, Dated, WatchInv, ClockInv, SampleInv,
     NeverHasty, coming, due, Zero, Watching, Handling
<1>1. CASE PoolTurns
  BY <1>1 DEF PoolTurns, Turns, clockVars
<1>2. CASE CtxDone
  BY <1>2 DEF CtxDone, clockVars
<1>3. CASE Advance
  BY <1>3 DEF Advance
<1>4. CASE Stop
  BY <1>4 DEF Stop, clockVars
<1>5. CASE TakeTick
  BY <1>5 DEF TakeTick
<1>6. CASE LooksAtInstances
  BY <1>6 DEF LooksAtInstances, clockVars
<1>7. CASE SampleOk
  BY <1>7 DEF SampleOk, Answered, NextLoop, clockVars
<1>8. CASE SampleFirstSick
  BY <1>8 DEF SampleFirstSick, Answered, NextLoop, clockVars
<1>9. CASE SampleStillSick
  BY <1>9 DEF SampleStillSick, Answered, NextLoop, clockVars
<1>10. CASE Exit
  BY <1>10 DEF Exit, Answered, clockVars
<1>11. CASE Finished \/ UNCHANGED vars
  BY <1>11 DEF Finished, vars, clockVars
<1> QED
  BY <1>1, <1>2, <1>3, <1>4, <1>5, <1>6, <1>7, <1>8, <1>9, <1>10, <1>11 DEF Next, Vigil

\* or what bounds the illness of a cause.
LEMMA IllnessStep ==
  ASSUME TypeOK, WatchInv, [Next]_vars, NEW c \in Causes, IllnessInv(c) PROVE IllnessInv(c)'
<1> USE WatchdogAssumption DEF WatchdogAssumption, IllnessInv, coming, due, Zero, Vigils,
     Watching, Handling
<1>0. /\ Dated /\ sickSince[c] \in Nat \cup {Zero} /\ sickSince[c] <= now
      /\ Ill(c) <=> sickSince[c] # Zero
  BY Dates, SicknessDated
<1>00. ClockInv /\ SampleInv
  BY DEF WatchInv
<1> USE <1>0, <1>00 DEF Dated, ClockInv, SampleInv
<1>1. CASE PoolTurns
  <2>1. PICK f, x, l \in BOOLEAN : Turns(f, x, l)
    BY <1>1 DEF PoolTurns
  <2>2. sickSince'[c] \in {Zero, sickSince[c], now}
    BY <2>1 DEF Turns
  <2> QED
    BY <2>1, <2>2 DEF Turns, clockVars
<1>2. CASE CtxDone \/ Stop
  BY <1>2 DEF CtxDone, Stop, clockVars, poolVars
<1>3. CASE Advance
  <2>1. locked => sickSince[c] = Zero
    BY DEF Ill
  <2> QED
    BY <1>3, <2>1 DEF Advance, Prompt, poolVars
<1>4. CASE TakeTick
  BY <1>4 DEF TakeTick, poolVars
<1>5. CASE LooksAtInstances
  <2>1. c = "failing" => sickSince[c] = Zero
    BY <1>5 DEF LooksAtInstances, Ill
  <2> QED
    BY <1>5, <2>1 DEF LooksAtInstances, clockVars, poolVars
<1>6. CASE SampleOk
  <2>1. vigil = "locking" /\ (c = "crashed" => sickSince[c] = Zero)
    BY <1>6 DEF SampleOk, Answered, Ill
  <2>2. c = "failing" \/ c = "crashed"
    BY DEF Causes
  <2> QED
    BY <1>6, <2>1, <2>2 DEF SampleOk, NextLoop, clockVars, poolVars
<1>7. CASE SampleFirstSick
  BY <1>7 DEF SampleFirstSick, Answered, NextLoop, clockVars, poolVars
<1>8. CASE SampleStillSick
  BY <1>8 DEF SampleStillSick, Answered, NextLoop, clockVars, poolVars
<1>9. CASE Exit
  BY <1>9 DEF Exit
<1>10. CASE Finished \/ UNCHANGED vars
  BY <1>10 DEF Finished, vars, clockVars, poolVars
<1> QED
  BY <1>1, <1>2, <1>3, <1>4, <1>5, <1>6, <1>7, <1>8, <1>9, <1>10 DEF Next, Vigil

\* So they always hold.
LEMMA WatchInvAlways == Spec => [](TypeOK /\ WatchInv /\ IllnessesInv)
<1>1. ASSUME Init PROVE TypeOK /\ WatchInv /\ IllnessesInv
  <2> USE <1>1, WatchdogAssumption DEF WatchdogAssumption, Init, Zero, Watching, Handling
  <2>1. \A c \in Causes : sickSince[c] = Zero /\ Ill(c) = FALSE
    BY DEF Ill
  <2>2. sickSince \in [Causes -> (0 .. now) \cup {Zero}]
    OBVIOUS
  <2>3. TypeOK
    <3>1. /\ now \in 0 .. Horizon /\ nextTick \in Nat /\ lastOk \in 0 .. now
          /\ {tick, ahora, enfermoDesde} \subseteq (0 .. now) \cup {Zero}
      OBVIOUS
    <3>2. /\ {failing, crashed, locked} \subseteq BOOLEAN /\ ctx \in {"live", "done"}
          /\ vigil \in Vigils
      BY DEF Vigils
    <3>3. (vigil \in Handling \cup {"exited"}) = (ahora # Zero)
      OBVIOUS
    <3>4. \A c \in Causes : Ill(c) = (sickSince[c] # Zero)
      BY <2>1
    <3> QED
      BY <2>2, <3>1, <3>2, <3>3, <3>4 DEF TypeOK
  <2>4. WatchInv
    BY DEF WatchInv, ClockInv, SampleInv, NeverHasty, coming, due
  <2>5. IllnessesInv
    BY <2>1 DEF IllnessesInv, IllnessInv
  <2> QED
    BY <2>3, <2>4, <2>5
<1>2. TypeOK /\ WatchInv /\ IllnessesInv /\ [Next]_vars => TypeOK' /\ WatchInv' /\ IllnessesInv'
  BY TypeStep, WatchStep, IllnessStep DEF IllnessesInv
<1> QED
  BY <1>1, <1>2, PTL DEF Spec

\* The state is well formed: nothing is dated in the future.
THEOREM WatchdogTypes == Spec => []TypeOK
BY WatchInvAlways, PTL

\* The process is ended only by a tick at least limite later than the last good sample.
THEOREM WatchdogIsPatient == Spec => []NeverHasty
<1>1. WatchInv => NeverHasty
  BY DEF WatchInv
<1> QED
  BY <1>1, WatchInvAlways, PTL

\* A pool that stays sick for one cause, with the mutex that Health takes free, is ended
\* within limite, two ticks and the lag.
THEOREM WatchdogIsVigilant == Spec => []Vigilant
<1>1. ASSUME TypeOK, WatchInv, IllnessesInv PROVE Vigilant
  <2> SUFFICES ASSUME NEW c \in Causes, vigil \in Watching, sickSince[c] # Zero
               PROVE  now - sickSince[c] < limite + 2 * intervalo + Lag
    BY DEF Vigilant
  <2>1. IllnessInv(c) /\ ClockInv
    BY <1>1 DEF IllnessesInv, WatchInv
  <2>2. sickSince[c] \in Nat
    BY <1>1 DEF TypeOK
  <2> QED
    BY <1>1, <2>1, <2>2, WatchdogAssumption DEF WatchdogAssumption, TypeOK, ClockInv, IllnessInv,
       coming, due, Zero
<1> QED
  BY <1>1, WatchInvAlways, PTL

-----------------------------------------------------------------------------
(* One Chromium at a time *)

\* What the invariant needs of the types.
SlotTypes ==
  /\ launched \in 0 .. MaxLaunches /\ inst \in 0 .. launched /\ closing \in 0 .. launched
  /\ child \in [Launches -> States]
  /\ stage \in Stages /\ client \in {"none", "open", "closed"}
  /\ kill \in [Callers -> {"no", "wait", "fail", "collect", "returned"}]

\* A Chromium that was waited for stays so, and only the newest may be another.
Newest == /\ \A v \in 1 .. launched - 1 : child[v] = "reaped"
          /\ \A v \in Launches : v > launched => child[v] = "none"

\* By where the worker is: the newest Chromium was waited for unless the worker is
\* starting it, has it in the slot, or is killing it.
WorkerInv ==
  /\ stage \in {"ready", "dial", "install", "abort"} => launched # 0
  /\ stage \in {"serve", "convert", "check", "close"} =>
       inst # 0 /\ (inst = launched \/ child[launched] = "reaped")
  /\ stage = "backoff" => inst # 0 /\ child[launched] = "reaped"
  /\ stage = "launch" => launched = 0 \/ child[launched] = "reaped"
  /\ kill["worker"] \in {"no", "wait", "fail", "collect"}
  /\ kill["worker"] # "no" <=> stage \in {"abort", "close"}
  /\ kill["worker"] \in {"fail", "collect"} => child[Victim("worker")] = "reaped"

\* Pool.Close's Kill, which the worker's may overlap.
PoolInv == /\ kill["pool"] # "no" => closing # 0
           /\ kill["pool"] \in {"fail", "collect", "returned"} => child[closing] = "reaped"

PeerInv == client = "open" => peer = launched

OneInv == SlotTypes /\ Newest /\ WorkerInv /\ PoolInv /\ PeerInv

\* No step of the slot, of main's context or of the watchdog breaks it.
LEMMA OneStep == ASSUME OneInv, [ProcessNext]_processVars PROVE OneInv'
<1> USE ProcessAssumption DEF ProcessAssumption, Launches, Callers
<1>0. OneInv
  OBVIOUS
<1>1. CASE Start
  <2>1. CASE Goto(Failed) /\ UNCHANGED <<launched, client, child>>
    BY <1>0, <1>1, <2>1 DEF OneInv, SlotTypes, Newest, WorkerInv, PoolInv, PeerInv, Start, Goto,
         Failed, Stages, Victim
  <2>2. CASE launched < MaxLaunches /\ launched' = launched + 1
             /\ child' = [child EXCEPT ![launched'] = "booting"] /\ client' = "none" /\ Goto("ready")
    BY <1>0, <1>1, <2>2 DEF OneInv, SlotTypes, Newest, WorkerInv, PoolInv, PeerInv, Start, Goto,
         Stages, States, Victim
  <2> QED
    BY <1>1, <2>1, <2>2 DEF Start
<1>2. CASE waitReady \/ Install \/ Work \/ Backoff \/ WorkerExits \/ ReaderEnds
  BY <1>0, <1>2 DEF OneInv, SlotTypes, Newest, WorkerInv, PoolInv, PeerInv, waitReady, Install, Work,
       Backoff, WorkerExits, ReaderEnds, Goto, Stages, Victim, slotVars
<1>3. CASE dialBrowser
  BY <1>0, <1>3 DEF OneInv, SlotTypes, Newest, WorkerInv, PoolInv, PeerInv, dialBrowser, Listens,
       Goto, Stages, Victim
<1>4. CASE NotReady \/ DialFails
  BY <1>0, <1>4 DEF OneInv, SlotTypes, Newest, WorkerInv, PoolInv, PeerInv, NotReady, DialFails,
       Abort, Goto, Stages, States, BeginKill, KillGoes, Struck, Victim, slotVars
<1>5. CASE CheckRestart
  <2>1. CASE Goto("serve") /\ UNCHANGED <<client, child, kill>>
    BY <1>0, <1>5, <2>1 DEF OneInv, SlotTypes, Newest, WorkerInv, PoolInv, PeerInv, CheckRestart,
         Goto, Stages, Victim, slotVars
  <2>2. CASE Goto("close") /\ BeginClose("worker")
    BY <1>0, <1>5, <2>2 DEF OneInv, SlotTypes, Newest, WorkerInv, PoolInv, PeerInv, CheckRestart,
         Goto, Stages, States, BeginClose, BeginKill, KillGoes, Struck, Victim, slotVars
  <2> QED
    BY <1>5, <2>1, <2>2 DEF CheckRestart
<1>6. CASE PoolClose
  BY <1>0, <1>6 DEF OneInv, SlotTypes, Newest, WorkerInv, PoolInv, PeerInv, PoolClose, Stages, States,
       BeginClose, BeginKill, KillGoes, Struck, Victim
<1>7. CASE KillStep("worker")
  <2> USE DEF OneInv, SlotTypes, Newest, WorkerInv, PoolInv, PeerInv, Stages, States, KillReturns,
         KillGoes, Failed, Victim, slotVars
  <2>1. CASE KillFails("worker")
    BY <1>0, <2>1 DEF KillFails
  <2>2. CASE Reap("worker")
    BY <1>0, <2>2 DEF Reap
  <2>3. CASE Collect("worker")
    BY <1>0, <2>3 DEF Collect
  <2> QED
    BY <1>7, <2>1, <2>2, <2>3 DEF KillStep
<1>8. CASE KillStep("pool")
  <2> USE DEF OneInv, SlotTypes, Newest, WorkerInv, PoolInv, PeerInv, Stages, States, KillReturns,
         KillGoes, Failed, Victim, slotVars
  <2>1. CASE KillFails("pool")
    BY <1>0, <2>1 DEF KillFails
  <2>2. CASE Reap("pool")
    BY <1>0, <2>2 DEF Reap
  <2>3. CASE Collect("pool")
    BY <1>0, <2>3 DEF Collect
  <2> QED
    BY <1>8, <2>1, <2>2, <2>3 DEF KillStep
<1>9. ASSUME NEW v \in Launches, Serves(v) \/ Crashes(v) \/ Ends(v) PROVE OneInv'
  BY <1>0, <1>9 DEF OneInv, SlotTypes, Newest, WorkerInv, PoolInv, PeerInv, Stages, States, Serves,
       Crashes, Ends, Struck, Victim, slotVars
<1>10. CASE LifeEnds
  BY <1>0, <1>10 DEF OneInv, SlotTypes, Newest, WorkerInv, PoolInv, PeerInv, Stages, States, LifeEnds,
       Struck, Victim, slotVars
<1>11. CASE UNCHANGED <<slotVars, stage, client, child, kill>>
  BY <1>0, <1>11 DEF OneInv, SlotTypes, Newest, WorkerInv, PoolInv, PeerInv, Victim, slotVars
<1>12. Watch \/ Stopped \/ UNCHANGED processVars => UNCHANGED <<slotVars, stage, client, child, kill>>
  BY DEF Watch, Stopped, processVars
<1> QED
  BY <1>1, <1>2, <1>3, <1>4, <1>5, <1>6, <1>7, <1>8, <1>9, <1>10, <1>11, <1>12
  DEF ProcessNext, SlotStep, Watched, Slot, Worker

\* Before the first start there is none.
LEMMA InitIsOne == ProcessInit => OneInv
BY ProcessAssumption DEF ProcessAssumption, Launches, Callers, ProcessInit, OneInv, SlotTypes, Newest,
   WorkerInv, PoolInv, PeerInv, Stages, States, Victim

\* One Chromium at a time, and the client talks to that one: however starts, dials,
\* kills and crashes interleave, no process is left that could answer in its place.
THEOREM OneChromium == ProcessSpec => []OneAtATime
<1>1. OneInv => OneAtATime
  BY DEF OneInv, Newest, WorkerInv, PoolInv, PeerInv, OneAtATime
<1> QED
  BY <1>1, InitIsOne, OneStep, PTL DEF ProcessSpec

-----------------------------------------------------------------------------
(* Two Kills of one Chromium *)

\* Kill has called Wait and Wait has not got its result.
Waits(a) == kill[a] \in {"wait", "collect"}

\* Wait waits for a result that was sent once and that another Wait has received.
Robbed(a) == kill[a] = "collect" /\ ~verdict[Victim(a)]

\* Who has received the result of a Chromium that was waited for: of two Kills of it
\* the other, which is over.  The one that is being started is not in the slot yet,
\* so that Pool.Close does not know it.
VerdictInv ==
  /\ closing <= inst
  /\ stage \in {"ready", "dial", "install", "abort"} => inst < launched
  /\ verdict \in [Launches -> BOOLEAN]
  /\ \A v \in Launches : ~verdict[v] => child[v] = "reaped"
  /\ Waits("worker") /\ ~verdict[Victim("worker")] =>
       closing = Victim("worker") /\ kill["pool"] = "returned"

\* Only a Wait that receives the result changes who has it.
LEMMA VerdictStep == ASSUME OneInv, VerdictInv, [ProcessNext]_processVars PROVE VerdictInv'
<1> USE ProcessAssumption DEF ProcessAssumption, Launches, Callers, States
<1>0. VerdictInv /\ SlotTypes /\ Newest /\ WorkerInv /\ PoolInv
  BY DEF OneInv
<1> USE DEF VerdictInv, SlotTypes, Waits, Victim
<1>1. CASE Start
  <2>1. CASE Goto(Failed) /\ UNCHANGED <<launched, client, child>>
    BY <1>0, <1>1, <2>1 DEF WorkerInv, Start, Goto, Failed
  <2>2. CASE launched < MaxLaunches /\ launched' = launched + 1
             /\ child' = [child EXCEPT ![launched'] = "booting"] /\ Goto("ready")
    BY <1>0, <1>1, <2>2 DEF Newest, WorkerInv, Start, Goto
  <2> QED
    BY <1>1, <2>1, <2>2 DEF Start
<1>2. CASE waitReady \/ Install \/ Work \/ Backoff \/ WorkerExits \/ ReaderEnds \/ dialBrowser
  BY <1>0, <1>2 DEF WorkerInv, waitReady, Install, Work, Backoff, WorkerExits, ReaderEnds, dialBrowser,
       Goto, slotVars
<1>3. CASE NotReady \/ DialFails
  BY <1>0, <1>3 DEF WorkerInv, NotReady, DialFails, Abort, Goto, BeginKill, KillGoes, Struck, slotVars
<1>4. CASE CheckRestart
  BY <1>0, <1>4 DEF WorkerInv, CheckRestart, Goto, BeginClose, BeginKill, KillGoes, Struck, slotVars
<1>5. CASE PoolClose
  BY <1>0, <1>5 DEF WorkerInv, PoolClose, BeginClose, BeginKill, KillGoes, Struck
<1>6. ASSUME NEW a \in Callers, KillFails(a) \/ Reap(a)
      PROVE  VerdictInv'
  BY <1>0, <1>6 DEF WorkerInv, KillFails, Reap, KillReturns, KillGoes, Failed, slotVars
<1>7. CASE Collect("worker")
  BY <1>0, <1>7 DEF WorkerInv, Collect, KillReturns, KillGoes, Failed, slotVars
<1>8. CASE Collect("pool")
  BY <1>0, <1>8 DEF WorkerInv, PoolInv, Collect, KillReturns, KillGoes, slotVars
<1>9. ASSUME NEW v \in Launches, Serves(v) \/ Crashes(v) \/ Ends(v)
      PROVE  VerdictInv'
  BY <1>0, <1>9 DEF Serves, Crashes, Ends, Struck, slotVars
<1>10. CASE LifeEnds
  BY <1>0, <1>10 DEF LifeEnds, Struck, slotVars
<1>11. CASE Watch \/ Stopped \/ UNCHANGED processVars
  BY <1>0, <1>11 DEF Watch, Stopped, processVars, slotVars
<1> QED
  BY <1>1, <1>2, <1>3, <1>4, <1>5, <1>6, <1>7, <1>8, <1>9, <1>10, <1>11
  DEF ProcessNext, SlotStep, Watched, Slot, Worker, KillStep

\* Of two Kills of one Chromium at most one is robbed: the worker's only after
\* Pool.Close's has returned; the Chromium itself has ended and was waited for.
OneRobbed ==
  /\ \A a \in Callers : Robbed(a) => closing = Victim(a) /\ child[closing] = "reaped"
  /\ Robbed("worker") => kill["pool"] = "returned" /\ stage = "close"
  /\ Robbed("pool") => ~(Waits("worker") /\ Victim("worker") = closing)

\* The exception that CallsReturn makes is no larger than it has to be.  Kill waits for
\* a result that nobody sends (process.go Kill, cmd.Wait) only when the worker and
\* Pool.Close have killed the same Chromium and the other's Wait has received the one
\* result: of a Chromium that only one of them kills, such as one that a failed start
\* aborts, the result is there to be received.
THEOREM OneKillIsRobbed == ProcessSpec => []OneRobbed
<1>1. OneInv /\ VerdictInv => OneRobbed
  <2> SUFFICES ASSUME OneInv, VerdictInv PROVE OneRobbed
    OBVIOUS
  <2> USE DEF OneInv, VerdictInv, SlotTypes, Robbed, Waits, Victim, Launches
  <2>1. Robbed("worker") => /\ closing = Victim("worker") /\ child[closing] = "reaped"
                           /\ kill["pool"] = "returned" /\ stage = "close"
    BY ProcessAssumption DEF ProcessAssumption, WorkerInv, PoolInv
  <2>2. Robbed("pool") => child[closing] = "reaped"
    BY DEF PoolInv
  <2>3. Robbed("pool") => ~(Waits("worker") /\ Victim("worker") = closing)
    OBVIOUS
  <2> QED
    BY <2>1, <2>2, <2>3 DEF OneRobbed, Callers
<1>2. ProcessInit => VerdictInv
  BY ProcessAssumption DEF ProcessAssumption, ProcessInit, VerdictInv, Launches, Callers, Waits
<1> QED
  BY <1>1, <1>2, InitIsOne, OneStep, VerdictStep, PTL DEF ProcessSpec

-----------------------------------------------------------------------------
(* The watchdog over the slot *)

\* What the slot and main's context do to the watchdog is what Watchdog expects.
LEMMA StepIsWatchdogStep == [ProcessNext]_processVars => [Next]_vars
<1>1. ASSUME SlotStep PROVE [Next]_vars
  <2>1. PICK f \in BOOLEAN : Turns(f, HasCrashed', MuHeld')
    BY <1>1 DEF SlotStep, Watched
  <2>2. HasCrashed' \in BOOLEAN /\ MuHeld' \in BOOLEAN
    BY DEF HasCrashed, MuHeld
  <2> QED
    BY <2>1, <2>2 DEF PoolTurns, Next
<1>2. LifeEnds \/ Watch => [Next]_vars
  BY DEF LifeEnds, Watch, Next
<1>3. Stopped \/ UNCHANGED processVars => [Next]_vars
  BY DEF Stopped, processVars
<1> QED
  BY <1>1, <1>2, <1>3 DEF ProcessNext

\* Every run of the slot under the watchdog is, for the watchdog, one that Watchdog
\* describes: the theorems about Spec hold of pool.Health as the slot makes it.
THEOREM ProcessRunsWatchdog == ProcessSpec => Spec
<1>1. ProcessInit => Init
  BY DEF ProcessInit
<1> QED
  BY <1>1, StepIsWatchdogStep, PTL DEF ProcessSpec, Spec

\* A crashing and restarting browser costs the process only after limite.
THEOREM SlotIsGivenTime == ProcessSpec => []NeverHasty
BY ProcessRunsWatchdog, WatchdogIsPatient, PTL

\* A slot that stays crashed, or conversions that go on failing, end the process in time,
\* but for the time in which Pool.Close holds the mutex (pool.go:248), which may be for
\* ever: see OneKillIsRobbed.
THEOREM DeadSlotEndsProcess == ProcessSpec => []Vigilant
BY ProcessRunsWatchdog, WatchdogIsVigilant, PTL

\* A Chromium that was started is never forgotten, nor one talked to that was not.
StartedInv ==
  /\ peer \in 0 .. launched
  /\ \A v \in Launches : v <= launched => child[v] # "none"
  /\ shutdown \in BOOLEAN /\ verdict \in [Launches -> BOOLEAN]

HealthInv == crashed = HasCrashed /\ locked = MuHeld

\* What the watchdog samples is whether the slot's browser is there and the mutex is free.
LEMMA HealthStep == HealthInv /\ [ProcessNext]_processVars => HealthInv'
<1> SUFFICES ASSUME HealthInv, [ProcessNext]_processVars PROVE HealthInv'
  OBVIOUS
<1> USE DEF HealthInv
<1>1. CASE SlotStep
  BY <1>1 DEF SlotStep, Watched, Turns
<1>2. CASE LifeEnds
  BY <1>2 DEF LifeEnds, CtxDone, HasCrashed, MuHeld, slotVars, poolVars
<1>3. CASE Watch
  <2>1. UNCHANGED poolVars
    BY <1>3 DEF Watch, Advance, Vigil, Stop, TakeTick, LooksAtInstances, SampleOk, SampleFirstSick,
         SampleStillSick, NextLoop, Exit
  <2> QED
    BY <1>3, <2>1 DEF Watch, HasCrashed, MuHeld, slotVars, poolVars
<1>4. CASE Stopped \/ UNCHANGED processVars
  BY <1>4 DEF Stopped, processVars, vars, poolVars, HasCrashed, MuHeld, slotVars
<1> QED
  BY <1>1, <1>2, <1>3, <1>4 DEF ProcessNext

\* Neither does a step of the slot or a signal forget one.
LEMMA StartedStep == ASSUME OneInv, StartedInv, [ProcessNext]_processVars PROVE StartedInv'
<1> USE ProcessAssumption DEF ProcessAssumption, Launches, Callers, States
<1>0. StartedInv /\ SlotTypes /\ Newest
  BY DEF OneInv
<1>1. CASE Start
  BY <1>0, <1>1 DEF StartedInv, SlotTypes, Newest, Start, Goto
<1>2. CASE waitReady \/ Install \/ Work \/ Backoff \/ WorkerExits \/ ReaderEnds
  BY <1>0, <1>2 DEF StartedInv, waitReady, Install, Work, Backoff, WorkerExits, ReaderEnds, slotVars
<1>3. CASE dialBrowser
  <2>1. PICK v \in Launches : Listens(v) /\ peer' = v
    BY <1>3 DEF dialBrowser
  <2> QED
    BY <1>0, <1>3, <2>1 DEF StartedInv, SlotTypes, Newest, dialBrowser, Listens
<1>4. CASE NotReady \/ DialFails \/ CheckRestart \/ PoolClose
  BY <1>0, <1>4 DEF StartedInv, SlotTypes, NotReady, DialFails, Abort, CheckRestart, PoolClose, BeginClose,
       BeginKill, Struck, slotVars
<1>5. ASSUME NEW a \in Callers, KillStep(a) PROVE StartedInv'
  BY <1>0, <1>5 DEF StartedInv, SlotTypes, KillStep, KillFails, Reap, Collect, slotVars
<1>6. ASSUME NEW v \in Launches, Serves(v) \/ Crashes(v) \/ Ends(v)
      PROVE  StartedInv'
  BY <1>0, <1>6 DEF StartedInv, SlotTypes, Serves, Crashes, Ends, Struck, slotVars
<1>7. CASE LifeEnds
  BY <1>0, <1>7 DEF StartedInv, SlotTypes, LifeEnds, Struck, slotVars
<1>8. CASE Watch \/ Stopped \/ UNCHANGED processVars
  BY <1>0, <1>8 DEF StartedInv, Watch, Stopped, processVars, slotVars
<1> QED
  BY <1>1, <1>2, <1>3, <1>4, <1>5, <1>6, <1>7, <1>8
  DEF ProcessNext, SlotStep, Watched, Slot, Worker

\* The composed state is well formed, and what the watchdog samples is whether the
\* slot's browser is there: the two components agree on the health at every step.
THEOREM ProcessTypes == ProcessSpec => []ProcessTypeOK
<1>1. ProcessInit => OneInv
  BY InitIsOne
<1>2. ProcessInit => StartedInv
  <2>1. ProcessInit => verdict \in [Launches -> BOOLEAN]
    BY Zenon DEF ProcessInit
  <2>2. ProcessInit => peer = 0 /\ launched = 0 /\ shutdown = FALSE
    BY DEF ProcessInit
  <2>3. ProcessInit => peer \in 0 .. launched /\ \A v \in Launches : ~(v <= launched)
    BY <2>2, ProcessAssumption DEF ProcessAssumption, Launches
  <2> QED
    BY <2>1, <2>2, <2>3, Zenon DEF StartedInv
<1>3. ProcessInit => HealthInv
  BY DEF ProcessInit, Init, HealthInv, HasCrashed, MuHeld, Callers
<1>4. TypeOK /\ OneInv /\ StartedInv /\ HealthInv => ProcessTypeOK
  BY ProcessAssumption DEF ProcessAssumption, Launches, OneInv, SlotTypes, Newest, StartedInv, HealthInv,
     ProcessTypeOK
<1> QED
  BY <1>1, <1>2, <1>3, <1>4, OneStep, StartedStep, HealthStep, ProcessRunsWatchdog, WatchdogTypes, PTL DEF ProcessSpec
=============================================================================
