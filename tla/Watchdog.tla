------------------------------ MODULE Watchdog ------------------------------
(***************************************************************************)
(* vigilarSalud of cmd/server/watchdog.go: a goroutine that asks           *)
(* pool.Health at every tick of a ticker and ends the process when the     *)
(* samples have been bad for limite.  What Health looks at changes at any  *)
(* moment: the failures in a row first, and then, under the pool's mutex,  *)
(* whether every instance has crashed.  Pool.Close holds that mutex while  *)
(* it kills, so that a sample may wait for it, for ever if the kill does.  *)
(*                                                                         *)
(* Time is counted in units of which intervalo and limite are multiples.   *)
(* The goroutine may take up to Lag to handle a tick; one that the mutex   *)
(* has held up catches up in the unit in which it is let go.               *)
(***************************************************************************)
EXTENDS Integers

CONSTANTS limite,      \* GOPRESS_UNHEALTHY_EXIT_AFTER; 0 or less turns the watchdog off
          intervalo,   \* period of the ticker
          Lag,         \* longest wait between a tick and its handling
          Horizon      \* bound on time

ASSUME WatchdogAssumption ==
  /\ limite \in Int /\ intervalo \in Nat \ {0}
  /\ Lag \in Nat /\ Lag < intervalo
  /\ Horizon \in Nat

VARIABLES
  now, nextTick,     \* the clock, and when the ticker fires next
  tick,              \* t.C: the time of the tick that waits to be read
  ahora,             \* the tick that is being handled
  failing,           \* p.fallosSeguidos >= maxFallosSeguidos
  crashed, locked,   \* every instance has crashed; Pool.Close holds p.mu
  ctx,               \* main's signal context
  enfermoDesde,      \* the first bad sample of the current illness
  vigil,             \* the goroutine, see Vigils
  sickSince,         \* history: per cause, since when Health must find it
  lastOk             \* history: the last good sample

clockVars == <<now, nextTick, tick>>
poolVars  == <<failing, crashed, locked, sickSince>>
vars == <<clockVars, ahora, poolVars, ctx, enfermoDesde, vigil, lastOk>>

Zero == -1   \* no tick; no illness (time.Time{} for enfermoDesde)

\* In the select, in Health before it looks at the failures, in Health before it has
\* the mutex; not started, returned, and having ended the process.
Handling == {"asking", "locking"}
Watching == {"watching"} \cup Handling
Vigils   == Watching \cup {"off", "stopped", "exited"}

Causes == {"failing", "crashed"}
Ill(c) == ~locked /\ (IF c = "failing" THEN failing ELSE crashed)

Init ==
  /\ now = 0 /\ nextTick = intervalo /\ tick = Zero /\ ahora = Zero
  /\ failing = FALSE /\ crashed = FALSE /\ locked = FALSE
  /\ sickSince = [c \in Causes |-> Zero]
  /\ ctx = "live"
  /\ enfermoDesde = Zero /\ lastOk = 0
  /\ vigil = IF limite <= 0 THEN "off" ELSE "watching"

-----------------------------------------------------------------------------
(* The world *)

\* What Health looks at becomes f, c and l.
Turns(f, c, l) ==
  /\ failing' = f /\ crashed' = c /\ locked' = l
  /\ sickSince' = [d \in Causes |-> IF ~Ill(d)' THEN Zero ELSE IF Ill(d) THEN sickSince[d] ELSE now]
  /\ UNCHANGED <<clockVars, ahora, ctx, enfermoDesde, vigil, lastOk>>

PoolTurns == \E f, c, l \in BOOLEAN : Turns(f, c, l)

CtxDone ==
  /\ ctx = "live"
  /\ ctx' = "done"
  /\ UNCHANGED <<clockVars, ahora, poolVars, enfermoDesde, vigil, lastOk>>

\* The goroutine has no excuse: the select has a tick, or Health need not wait.
Prompt(t) == t # Zero => now - t < Lag

\* The ticker's channel holds one tick; the process is gone once vigil exited.
Advance ==
  /\ now < Horizon /\ vigil # "exited"
  /\ vigil = "watching" => Prompt(tick)
  /\ vigil = "asking" \/ (vigil = "locking" /\ ~locked) => Prompt(ahora)
  /\ now' = now + 1
  /\ nextTick' = IF now' = nextTick THEN nextTick + intervalo ELSE nextTick
  /\ tick' = IF now' = nextTick /\ tick = Zero THEN now' ELSE tick
  /\ UNCHANGED <<ahora, poolVars, ctx, enfermoDesde, vigil, lastOk>>

-----------------------------------------------------------------------------
(* The loop of vigilarSalud, with Health: one action per branch *)

\* The select, which may choose ctx.Done although a tick waits, or the tick although
\* the context is done.
Stop ==
  /\ vigil = "watching" /\ ctx = "done"
  /\ vigil' = "stopped"
  /\ UNCHANGED <<clockVars, ahora, poolVars, ctx, enfermoDesde, lastOk>>

TakeTick ==
  /\ vigil = "watching" /\ tick # Zero
  /\ ahora' = tick /\ tick' = Zero
  /\ vigil' = "asking"
  /\ UNCHANGED <<now, nextTick, poolVars, ctx, enfermoDesde, lastOk>>

\* Mutant: Health answers for the instances without the failures in a row.
IgnoresFailures ==
  /\ vigil = "asking"
  /\ vigil' = "locking"
  /\ UNCHANGED <<clockVars, ahora, poolVars, ctx, enfermoDesde, lastOk>>

\* Health: fewer than maxFallosSeguidos failures; p.mu.Lock() comes next.
LooksAtInstances ==
  /\ vigil = "asking" /\ ~failing
  /\ vigil' = "locking"
  /\ UNCHANGED <<clockVars, ahora, poolVars, ctx, enfermoDesde, lastOk>>

Answered(sick) ==
  \/ vigil = "asking" /\ failing /\ sick
  \/ vigil = "locking" /\ ~locked /\ sick = crashed

NextLoop ==
  /\ vigil' = "watching" /\ ahora' = Zero
  /\ UNCHANGED <<clockVars, poolVars, ctx>>

\* Mutant: a good sample does not clear enfermoDesde.
ForgetsRecovery ==
  /\ Answered(FALSE) /\ NextLoop
  /\ lastOk' = ahora
  /\ UNCHANGED enfermoDesde

SampleOk ==
  /\ Answered(FALSE) /\ NextLoop
  /\ enfermoDesde' = Zero
  /\ lastOk' = ahora

\* Mutant: the illness is dated at the tick to come.
DatesAhead ==
  /\ Answered(TRUE) /\ enfermoDesde = Zero /\ NextLoop
  /\ enfermoDesde' = nextTick
  /\ UNCHANGED lastOk

SampleFirstSick ==
  /\ Answered(TRUE) /\ enfermoDesde = Zero /\ NextLoop
  /\ enfermoDesde' = ahora
  /\ UNCHANGED lastOk

SampleStillSick ==
  /\ Answered(TRUE) /\ enfermoDesde # Zero /\ ahora - enfermoDesde < limite /\ NextLoop
  /\ UNCHANGED <<enfermoDesde, lastOk>>

\* salir(1).
Exit ==
  /\ Answered(TRUE) /\ enfermoDesde # Zero /\ ahora - enfermoDesde >= limite
  /\ vigil' = "exited"
  /\ UNCHANGED <<clockVars, ahora, poolVars, ctx, enfermoDesde, lastOk>>

Vigil ==
  \/ Stop \/ TakeTick \/ LooksAtInstances
  \/ SampleOk \/ SampleFirstSick \/ SampleStillSick \/ Exit

Finished == (now = Horizon \/ vigil = "exited") /\ UNCHANGED vars

Next == PoolTurns \/ CtxDone \/ Advance \/ Vigil \/ Finished

Spec == Init /\ [][Next]_vars

-----------------------------------------------------------------------------
(* Properties *)

\* The state is well formed: no tick and no illness is dated in the future.
TypeOK ==
  /\ now \in 0 .. Horizon /\ nextTick \in Nat
  /\ {tick, ahora, enfermoDesde} \subseteq (0 .. now) \cup {Zero} /\ lastOk \in 0 .. now
  /\ {failing, crashed, locked} \subseteq BOOLEAN /\ ctx \in {"live", "done"}
  /\ vigil \in Vigils /\ (vigil \in Handling \cup {"exited"}) = (ahora # Zero)
  /\ sickSince \in [Causes -> (0 .. now) \cup {Zero}]
  /\ \A c \in Causes : Ill(c) = (sickSince[c] # Zero)

\* The process is ended only by a tick at least limite later than the last good
\* sample: a browser that dies and comes back never costs a container restart.
NeverHasty == vigil = "exited" => ahora >= lastOk + limite + intervalo

\* A pool with one and the same trouble, three failures in a row or every instance
\* crashed, for limite, two ticks and the lag does not outlive its watchdog, the time
\* counted in which the mutex is free: no sequence of earlier recoveries, and no sample
\* that waited for the mutex, postpones the exit further.  (While Close holds the mutex
\* a sample waits; and a pool that goes from one trouble to the other just while a
\* sample passes from the first test to the second may still seem well.)
Vigilant ==
  \A c \in Causes :
    vigil \in Watching /\ sickSince[c] # Zero => now - sickSince[c] < limite + 2 * intervalo + Lag
=============================================================================
