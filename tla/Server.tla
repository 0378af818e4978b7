------------------------------- MODULE Server -------------------------------
(***************************************************************************)
(* The process of cmd/server/main.go around the pool: the listener, the    *)
(* signal context that is also the context of every browser's life, the    *)
(* health watchdog, and the shutdown in three stages with their deadlines. *)
(* Pool leaves to main when to drain and close; here main is a component.  *)
(* The wait of Drain's helper goroutine is one of the pool's steps.        *)
(***************************************************************************)
EXTENDS Pool

VARIABLES
  main,       \* where main stands: see MainLabels
  ctx,        \* the signal context: "live", "done"
  accepted,   \* the requests whose handler the HTTP server has started
  expired,    \* the waits of the shutdown whose deadline passed: "shutdown", "drain"
  vigil,      \* the watchdog: "off", "watching", "sick" (enfermoDesde is set)
  cutShort    \* history: the end of ctx has killed a browser that was converting

serverVars == <<main, ctx, accepted, expired, vigil, cutShort>>
allVars    == <<vars, serverVars>>

MainLabels == {"starting", "serving", "shutdown", "drain", "draining", "close",
               "closing", "exited"}
Running == main # "exited"

ServerInit ==
  /\ Init
  /\ main = "starting" /\ ctx = "live" /\ accepted = {} /\ expired = {}
  /\ vigil = "off" /\ cutShort = FALSE

-----------------------------------------------------------------------------
(* main *)

MainGoes(from, to) ==
  /\ main = from /\ main' = to
  /\ UNCHANGED <<ctx, accepted, cutShort>>

\* Mutant: the server starts while the pool is still booting.
ServesEarly ==
  /\ boot = "booting" /\ MainGoes("starting", "serving")
  /\ vigil' \in {"watching", "off"}
  /\ UNCHANGED <<vars, expired>>

\* NewPool has returned; the server and the watchdog are started, which
\* returns at once when its limit is zero.
Serve ==
  /\ boot = "ready" /\ MainGoes("starting", "serving")
  /\ vigil' \in {"watching", "off"}
  /\ UNCHANGED <<vars, expired>>

\* NewPool has returned an error: os.Exit(1).
ExitUnbooted ==
  /\ boot = "failed" /\ MainGoes("starting", "exited")
  /\ UNCHANGED <<vars, expired, vigil>>

\* Mutant: the server is not shut down before the pool is drained.
SkipsShutdown ==
  /\ MainGoes("serving", "drain")
  /\ UNCHANGED <<vars, expired, vigil>>

\* A server error, at any time, or the signal.
LeaveServing ==
  /\ MainGoes("serving", "shutdown")
  /\ UNCHANGED <<vars, expired, vigil>>

\* srv.Shutdown returns when no handler runs.
ShutdownReturns ==
  /\ \A r \in accepted : pc[r] = "returned"
  /\ MainGoes("shutdown", "drain")
  /\ UNCHANGED <<vars, expired, vigil>>

\* Mutant: Shutdown has no deadline.
NeverExpires == FALSE

ShutdownExpires ==
  /\ MainGoes("shutdown", "drain")
  /\ expired' = {"shutdown"}
  /\ UNCHANGED <<vars, vigil>>

MainDrains ==
  /\ BeginDrain /\ MainGoes("drain", "draining")
  /\ UNCHANGED <<expired, vigil>>

DrainEnds ==
  /\ MainGoes("draining", "close")
  /\ \/ DrainDone /\ UNCHANGED expired
     \/ DrainExpires /\ expired' = expired \cup {"drain"}
  /\ UNCHANGED vigil

MainCloses ==
  /\ BeginClose /\ MainGoes("close", "closing")
  /\ UNCHANGED <<expired, vigil>>

\* main returns, and with it the process ends.
Exit ==
  /\ closer = "closed" /\ MainGoes("closing", "exited")
  /\ UNCHANGED <<vars, expired, vigil>>

-----------------------------------------------------------------------------
(* The signal, the listener and the watchdog *)

Signal ==
  /\ ctx = "live" /\ ctx' = "done"
  /\ UNCHANGED <<vars, main, accepted, expired, vigil, cutShort>>

\* exec.CommandContext kills the browser once the context is done.  A worker may
\* still install one whose start had looked at the context for the last time.
LifeEnds(s) ==
  /\ ctx = "done" /\ BrowserDies(s)
  /\ cutShort' = (cutShort \/ wpc[s] \in {"convert", "answered"})
  /\ UNCHANGED <<main, ctx, accepted, expired, vigil>>

\* Mutant: requests may still come after the server has shut down.
NeverRefuses(r) ==
  /\ main # "starting" /\ r \notin accepted
  /\ accepted' = accepted \cup {r}
  /\ UNCHANGED <<vars, main, ctx, expired, vigil, cutShort>>

\* The handler of a request starts; it may take any time before it calls Convert.
\* A connection accepted earlier may bring its request while Shutdown waits, and
\* after Shutdown has given up on it.
Accept(r) ==
  /\ main \in {"serving", "shutdown"} \/ "shutdown" \in expired
  /\ r \notin accepted
  /\ accepted' = accepted \cup {r}
  /\ UNCHANGED <<vars, main, ctx, expired, vigil, cutShort>>

WatchdogStops ==
  /\ ctx = "done" /\ vigil # "off"
  /\ vigil' = "off"
  /\ UNCHANGED <<vars, main, ctx, accepted, expired, cutShort>>

\* Health waits for p.mu, which Close holds, unless the failures in a row answer first.
HealthAnswers == fallos >= maxFallosSeguidos \/ ~muHeld

\* A tick, which the select may choose although ctx is done.
WatchdogSamples ==
  /\ HealthAnswers
  /\ \/ vigil = "sick" /\ Health /\ vigil' = "watching"
     \/ vigil = "watching" /\ ~Health /\ vigil' = "sick"
  /\ UNCHANGED <<vars, main, ctx, accepted, expired, cutShort>>

\* The samples were bad for limite (Watchdog has the times): os.Exit(1).
WatchdogExits ==
  /\ vigil = "sick" /\ HealthAnswers /\ ~Health
  /\ main' = "exited"
  /\ UNCHANGED <<vars, ctx, accepted, expired, vigil, cutShort>>

-----------------------------------------------------------------------------
\* What the pool's goroutines and the world do while main stands where it is.
PoolRuns ==
  /\ Booting \/ Closing \/ WaitReturns \/ World
       \/ (\E r \in accepted : Caller(r)) \/ (\E s \in Slots : Worker(s))
  /\ UNCHANGED serverVars

MainStep ==
  \/ Serve \/ ExitUnbooted \/ ShutdownReturns \/ ShutdownExpires \/ MainDrains
  \/ DrainEnds \/ MainCloses \/ Exit

ServerNext ==
  \/ Running /\ (\/ PoolRuns \/ MainStep \/ LeaveServing \/ Signal
                 \/ \E s \in Slots : LifeEnds(s)
                 \/ \E r \in Requests : Accept(r)
                 \/ WatchdogStops \/ WatchdogSamples \/ WatchdogExits)
  \/ ~Running /\ UNCHANGED allVars

ServerSpec == ServerInit /\ [][ServerNext]_allVars

\* main and the mutex's holders run, the deadlines pass, a killed process ends, and a
\* boot ends with the context, whose end its dial and its handshake notice; callers,
\* workers and browsers need do nothing, the server need not fail, and the Wait that
\* another has robbed of its result need not return.
FairServerSpec ==
  /\ ServerSpec
  /\ WF_allVars(Running /\ MainStep)
  /\ WF_allVars(Running /\ ctx = "done" /\ LeaveServing)
  /\ WF_allVars(Running /\ ctx = "done" /\ Booting /\ UNCHANGED serverVars)
  /\ WF_allVars(Running /\ ~CloseRobbed /\ Closing /\ UNCHANGED serverVars)

-----------------------------------------------------------------------------
(* Properties *)

ServerTypeOK ==
  /\ main \in MainLabels /\ ctx \in {"live", "done"}
  /\ accepted \subseteq Requests /\ cutShort \in BOOLEAN
  /\ expired \subseteq {"shutdown", "drain"} /\ vigil \in {"off", "watching", "sick"}
  /\ \A r \in Requests : pc[r] # "idle" => r \in accepted
  /\ main \notin {"starting", "exited"} => boot = "ready"

\* A shutdown that keeps its deadlines loses nothing: when the pool begins to
\* close, every request that was accepted has returned, and no job is queued or
\* being converted, although callers leave and wg.Done comes late.
OrderlyClose ==
  boot = "ready" /\ closer # "open" /\ expired = {} =>
    /\ \A r \in accepted : pc[r] = "returned"
    /\ queue = << >> /\ \A s \in Slots : wpc[s] \notin Serving

\* wg.Add never runs beside a wg.Wait (which sync.WaitGroup forbids when the
\* count is zero), not even one that Drain has left waiting, unless Shutdown gave up
\* on a handler.
AddNeverRacesWait ==
  [][(\E r \in Requests : Call(r)) /\ drain \in {"waiting", "left"}
       => "shutdown" \in expired]_allVars

\* A signal ends the process, whatever callers, workers and browsers do or fail to do,
\* every wait of the shutdown having a deadline, with one exception: the Wait of Close
\* for a browser which a worker is killing too, when the worker gets the result.
SignalEndsProcess == <>[](ctx = "done") => <>(main = "exited") \/ <>[]CloseRobbed

-----------------------------------------------------------------------------
(* What a comment of the code says and the code does not do *)

\* main.go:115 "Let in-flight conversions finish before killing Chrome."
FinishBeforeKill == main \in {"serving", "shutdown", "drain", "draining"} => ~cutShort
=============================================================================
