-------------------------------- MODULE Process --------------------------------
(***************************************************************************)
(* The Chromium processes of one slot of the pool, under the watchdog:     *)
(* Start, waitReady and Kill of internal/browser/process.go, NewInstance,  *)
(* dialBrowser and Close of instance.go, and what the worker of pool.go    *)
(* does with them.  The worker launches a browser, converts on it, closes  *)
(* it and launches the next; Pool.Close may close the same one meanwhile,  *)
(* and main's context, which also governs the processes, may end.          *)
(*                                                                         *)
(* os/exec is modelled from how it is used here: a context that kills the  *)
(* process when it ends, and Wait, which collects the exit status and then *)
(* one result that is sent once.                                           *)
(***************************************************************************)
EXTENDS Watchdog

CONSTANT MaxLaunches   \* bound on the Chromiums started

ASSUME ProcessAssumption == MaxLaunches \in Nat \ {0}

VARIABLES
  shutdown,  \* Pool.shutdown
  stage,     \* the worker's goroutine (for the first launch NewPool's), see Stages
  launched,  \* how many Chromiums were started; the newest has this number
  child,     \* per Chromium, what the system knows of it, see States
  verdict,   \* per Chromium: exec's result has not been received
  inst,      \* the Chromium of s.inst, 0 before the first
  client,    \* the newest client: "none", "open", or "closed" as IsClosed tells
  peer,      \* the Chromium it is connected to
  closing,   \* the Chromium that Pool.Close closes, 0 before
  kill       \* per caller of Kill: where in it

slotVars == <<shutdown, launched, inst, peer, closing>>
processVars == <<vars, slotVars, stage, client, child, verdict, kill>>

Launches == 1 .. MaxLaunches
Callers  == {"worker", "pool"}
States   == {"none", "booting", "serving", "dying", "zombie", "reaped"}
Stages   == {"launch", "ready", "dial", "abort", "install", "serve", "convert", "check",
             "close", "backoff", "exited"}

ProcessInit ==
  /\ Init
  /\ shutdown = FALSE /\ stage = "launch" /\ launched = 0
  /\ child = [v \in Launches |-> "none"] /\ verdict = [v \in Launches |-> TRUE]
  /\ inst = 0 /\ client = "none" /\ peer = 0 /\ closing = 0
  /\ kill = [a \in Callers |-> "no"]

Goto(s) == stage' = s

\* s.inst.HasCrashed: a client that is not the newest was closed before the newest's start.
HasCrashed == inst # 0 /\ ~(inst = launched /\ client = "open")

-----------------------------------------------------------------------------
(* Kill and Close *)

\* After a failed NewInstance NewPool gives up; a worker backs off.
Failed == IF inst = 0 THEN "exited" ELSE "backoff"

KillGoes(a, step) == kill' = [kill EXCEPT ![a] = step]
Victim(a) == IF a = "pool" THEN closing ELSE IF stage = "abort" THEN launched ELSE inst

\* Kill returns, and its caller goes on.
KillReturns(a) ==
  /\ KillGoes(a, IF a = "pool" THEN "returned" ELSE "no")
  /\ stage' = IF a = "pool" THEN stage ELSE IF stage = "abort" THEN Failed ELSE "launch"

\* The signal: a Chromium that serves ends a moment later.
Struck(v) ==
  child' = [child EXCEPT ![v] = CASE @ = "booting" -> "zombie" [] @ = "serving" -> "dying"
                                  [] OTHER -> @]

\* A Chromium that was waited for cannot be signalled: Kill returns the error.
BeginKill(a, v) == Struck(v) /\ KillGoes(a, IF child[v] = "reaped" THEN "fail" ELSE "wait")

\* Instance.Close: the client, then Kill.
BeginClose(a) ==
  /\ client' = IF inst = launched THEN "closed" ELSE client
  /\ BeginKill(a, inst)

\* Pool.Close holds the pool's mutex from here until it returns.
PoolClose ==
  /\ inst # 0 /\ kill["pool"] = "no"
  /\ shutdown' = TRUE /\ closing' = inst
  /\ BeginClose("pool")
  /\ UNCHANGED <<launched, inst, peer, stage, verdict>>

KillFails(a) ==
  /\ kill[a] = "fail" /\ KillReturns(a)
  /\ UNCHANGED <<slotVars, client, child, verdict>>

\* Mutant: Kill does not wait.
NoWait(a) ==
  /\ kill[a] = "wait" /\ KillReturns(a)
  /\ UNCHANGED <<slotVars, client, child, verdict>>

\* Wait collects the exit status when the process has ended.  A second Wait goes on
\* like the first, or finds that it was already called; the field that says so is
\* not protected.
Reap(a) ==
  /\ kill[a] = "wait" /\ child[Victim(a)] \in {"zombie", "reaped"}
  /\ child' = [child EXCEPT ![Victim(a)] = "reaped"]
  /\ \/ KillGoes(a, "collect") /\ UNCHANGED stage
     \/ child[Victim(a)] = "reaped" /\ KillReturns(a)
  /\ UNCHANGED <<slotVars, client, verdict>>

\* Wait receives the result of the goroutine that watches the context, which sends
\* one, and then the end of stderr.
Collect(a) ==
  /\ kill[a] = "collect" /\ verdict[Victim(a)]
  /\ verdict' = [verdict EXCEPT ![Victim(a)] = FALSE]
  /\ KillReturns(a)
  /\ UNCHANGED <<slotVars, client, child>>

KillStep(a) == KillFails(a) \/ Reap(a) \/ Collect(a)

-----------------------------------------------------------------------------
(* NewInstance *)

\* exec does not start a process whose context has ended; a start may also fail.
Start ==
  /\ stage = "launch"
  /\ \/ /\ ctx = "live" /\ launched < MaxLaunches
        /\ launched' = launched + 1
        /\ child' = [child EXCEPT ![launched'] = "booting"]
        /\ client' = "none" /\ Goto("ready")
     \/ Goto(Failed) /\ UNCHANGED <<launched, client, child>>
  /\ UNCHANGED <<shutdown, inst, peer, closing, verdict, kill>>

\* Whatever listens on the port answers.
Listens(v) == child[v] \in {"serving", "dying"}

waitReady ==
  /\ stage = "ready" /\ \E v \in Launches : Listens(v)
  /\ Goto("dial")
  /\ UNCHANGED <<slotVars, client, child, verdict, kill>>

Abort ==
  /\ Goto("abort") /\ BeginKill("worker", launched)
  /\ UNCHANGED <<slotVars, client, verdict>>

\* Mutant: without a timeout of its own.
WaitsForCtx == stage = "ready" /\ ctx = "done" /\ Abort

\* readyTimeout has passed, or the context has ended.
NotReady == stage = "ready" /\ Abort

dialBrowser ==
  /\ stage = "dial"
  /\ \E v \in Launches : Listens(v) /\ peer' = v
  /\ Goto("install") /\ client' = "open"
  /\ UNCHANGED <<shutdown, launched, inst, closing, child, verdict, kill>>

\* The request, the connection or the handshake fails.  None of them has a deadline.
DialFails == stage = "dial" /\ Abort

\* s.inst = inst waits for the mutex.
Install ==
  /\ stage = "install" /\ kill["pool"] \in {"no", "returned"}
  /\ inst' = launched /\ Goto("serve")
  /\ UNCHANGED <<shutdown, launched, peer, closing, client, child, verdict, kill>>

-----------------------------------------------------------------------------
(* The worker *)

\* A job is taken; it returns with the browser's answer or by its own context.
Work ==
  /\ \/ stage = "serve" /\ Goto("convert")
     \/ stage = "convert" /\ Goto("check")
  /\ UNCHANGED <<slotVars, client, child, verdict, kill>>

\* NeedsRestart: the client is closed, or the quota is reached.
CheckRestart ==
  /\ stage = "check"
  /\ \/ (~HasCrashed \/ shutdown) /\ Goto("serve") /\ UNCHANGED <<client, child, kill>>
     \/ ~shutdown /\ Goto("close") /\ BeginClose("worker")
  /\ UNCHANGED <<slotVars, verdict>>

\* After a failed restart the old instance stays in the slot.
Backoff ==
  /\ stage = "backoff" /\ Goto("serve")
  /\ UNCHANGED <<slotVars, client, child, verdict, kill>>

WorkerExits ==
  /\ shutdown /\ stage \in {"backoff", "serve"} /\ Goto("exited")
  /\ UNCHANGED <<slotVars, client, child, verdict, kill>>

Worker ==
  \/ Start \/ waitReady \/ NotReady \/ dialBrowser \/ DialFails \/ Install
  \/ Work \/ CheckRestart \/ Backoff \/ WorkerExits

-----------------------------------------------------------------------------
(* The Chromiums and their connections *)

\* The port is bound once no other Chromium has it.
Serves(v) ==
  /\ child[v] = "booting" /\ \A w \in Launches : ~Listens(w)
  /\ child' = [child EXCEPT ![v] = "serving"]
  /\ UNCHANGED <<slotVars, stage, client, verdict, kill>>

Crashes(v) ==
  /\ child[v] \in {"booting", "serving"} /\ Struck(v)
  /\ UNCHANGED <<slotVars, stage, client, verdict, kill>>

Ends(v) ==
  /\ child[v] = "dying"
  /\ child' = [child EXCEPT ![v] = "zombie"]
  /\ UNCHANGED <<slotVars, stage, client, verdict, kill>>

\* readLoop ends with the connection.
ReaderEnds ==
  /\ client = "open" /\ client' = "closed"
  /\ UNCHANGED <<slotVars, stage, child, verdict, kill>>

Slot ==
  \/ Worker \/ PoolClose \/ ReaderEnds
  \/ \E a \in Callers : KillStep(a)
  \/ \E v \in Launches : Serves(v) \/ Crashes(v) \/ Ends(v)

-----------------------------------------------------------------------------
(* The slot under the watchdog *)

\* Pool.Close holds p.mu while it kills.
MuHeld == kill["pool"] \notin {"no", "returned"}

\* What Health looks at: the pool has crashed while its one slot has; the conversion
\* that returns may be the third in a row to fail, or a success.
Watched(step) ==
  /\ vigil # "exited" /\ step
  /\ \E f \in BOOLEAN :
       /\ f = failing \/ (stage = "convert" /\ stage' = "check")
       /\ Turns(f, HasCrashed', MuHeld')

SlotStep == Watched(Slot)

\* The process is told to end: exec kills the Chromium it has started.
LifeEnds ==
  /\ vigil # "exited" /\ CtxDone
  /\ IF launched = 0 THEN UNCHANGED child ELSE Struck(launched)
  /\ UNCHANGED <<slotVars, stage, client, verdict, kill>>

\* main starts the watchdog when the pool is there.
Watch ==
  /\ inst # 0
  /\ Advance \/ Vigil
  /\ UNCHANGED <<slotVars, stage, client, child, verdict, kill>>

Stopped ==
  /\ vigil = "exited" \/ stage \in {"exited", "install", "abort", "close"}
  /\ UNCHANGED processVars

ProcessNext == SlotStep \/ LifeEnds \/ Watch \/ Stopped

ProcessSpec == ProcessInit /\ [][ProcessNext]_processVars

\* Goroutines run, timers fire, and a process that was killed ends; a connection to
\* nothing fails.  A Chromium need not answer, nor anybody end the context.
FairProcessSpec ==
  /\ ProcessSpec
  /\ \A a \in Callers : WF_processVars(Watched(KillStep(a)))
  /\ \A v \in Launches : WF_processVars(Watched(Ends(v)))
  /\ WF_processVars(Watched(Start \/ NotReady \/ waitReady))
  /\ WF_processVars(Watched((\A v \in Launches : ~Listens(v)) /\ DialFails))

-----------------------------------------------------------------------------
(* Properties *)

ProcessTypeOK ==
  /\ TypeOK /\ crashed = HasCrashed /\ locked = MuHeld
  /\ shutdown \in BOOLEAN /\ stage \in Stages /\ client \in {"none", "open", "closed"}
  /\ launched \in 0 .. MaxLaunches /\ {inst, peer, closing} \subseteq 0 .. launched
  /\ \A v \in Launches : child[v] \in States /\ (child[v] = "none") = (v > launched)
  /\ verdict \in [Launches -> BOOLEAN]
  /\ kill \in [Callers -> {"no", "wait", "fail", "collect", "returned"}]

\* A slot has one Chromium at a time and its client talks to that one: before the
\* next is started the last has ended and was waited for, so that none answers the
\* next one's readiness check in its place (waitReady asks only the port); and a
\* failed NewInstance and a Pool.Close that returned leave none behind.
OneAtATime ==
  /\ \A v \in 1 .. launched - 1 : child[v] = "reaped"
  /\ client = "open" => peer = launched
  /\ stage = "backoff" => child[launched] = "reaped"
  /\ kill["pool"] = "returned" => child[closing] = "reaped"

\* What is called returns: the wait for readiness by its timeout, NewInstance also
\* out of a dial without a deadline once the context has ended, and Close, except
\* the one of two concurrent ones whose result the other received.
CallsReturn ==
  LET over(a) == \/ kill[a] \in {"no", "returned"} \/ vigil = "exited"
                 \/ kill[a] = "collect" /\ ~verdict[Victim(a)]
  IN  /\ (stage = "ready") ~> (stage # "ready" \/ vigil = "exited")
      /\ (stage = "dial" /\ ctx = "done") ~> (stage # "dial" \/ vigil = "exited")
      /\ \A a \in Callers : (~over(a)) ~> over(a)
=============================================================================
