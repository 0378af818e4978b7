# gopress in TLA+

gopress converts HTML to PDF: an HTTP server hands each request to a pool of
headless Chromium processes, which it drives over the Chrome DevTools Protocol
(CDP). This directory specifies the parts of it whose behaviour depends on
interleaving, failure, time and the arithmetic of offsets and lengths, checks them
with TLC and proves most of the safety that is checked with TLAPS.

Line numbers are those of the commit the modules were written from.
`PROJECT.json` has the map from each definition to the lines it stands for, and the
list of hazards with the properties that would catch each going wrong.

## The system

| Component | State it keeps | Operations | Hard behaviour |
|---|---|---|---|
| Pool (`internal/browser/pool.go`) | slots, the bounded queue, `done`, `shutdown`, the WaitGroup, two gauges, `fallosSeguidos` | `NewPool`, `Convert`, `Drain`, `Close`, `Health`; one `worker` goroutine per slot, `restart` | callers, workers, `Close` and `Drain` interleave; browsers die, restarts fail, contexts end |
| Instance (`internal/browser/instance.go`, `internal/cdp/page.go`) | process, CDP connection, count of conversions | `NewInstance`, `Convert`, `NeedsRestart`, `HasCrashed`, `Close` | a protocol of five or six commands, any of which may fail or be cancelled |
| Process (`internal/browser/process.go`) | the `exec.Cmd` on its debugging port | `Start`, `waitReady`, `Kill` | two callers kill one process; the context kills it too; readiness is asked of a port, not of a process |
| CDP client (`internal/cdp/client.go`) | next id, pending map, listeners, `done` | `send`, `subscribe`, `readLoop`, `Close`, `IsClosed`, `Session.Close`, frames | answers out of order and late; the connection drops; slow listeners; lengths at a boundary |
| Watchdog (`cmd/server/watchdog.go`) | since when the pool has been sick | one goroutine with a ticker | samples miss what happens between them |
| Server (`cmd/server/main.go`, `internal/api/server.go`) | the signal context, the listener | start, serve, `Shutdown`, `Drain`, `Close` | deadlines of each stage, the signal's context shared with the browsers |
| Handlers (`internal/api`) | a token bucket | request id, rate limit, API key, parsing, answer; `/health`, `/version`, `/metrics` | burst and refill; many ways out, each with its status |
| Converter (`internal/converter`) | counters | `Convert`, `ConvertPDFA` | counts once what may fail twice |
| PDF/A stamp (`internal/pdfa/stamp.go`) | none | `Stamp` | offsets of a rewritten cross-reference table; a file stamped again |
| Telemetry (`internal/telemetry`) | gauges, counters | increments | gauges moved on several paths |

How they interact: a handler calls `pool.Convert` with the request's context and
blocks. The pool's channel hands the job to a worker, the worker's instance
sends commands through the CDP client and waits for answers and one event. The
read loop is the only place where a browser's death is noticed; it closes
`client.done`, which `HasCrashed` reads. `HasCrashed` and the quota decide
whether a worker replaces its browser after a job. `Health` reads the slots and
the count of failures; `/health` and the watchdog read `Health`. On a signal
main stops the listener, drains the pool and closes it; the same signal ends the
context under which every Chromium runs.

What makes each part correct:

* Pool: no job is lost, run twice or answered twice; the WaitGroup counts exactly
  the work `Drain` must wait for; the gauges tell the truth; a slot's browsers
  never overlap on their port, serve within their quota and are replaced when
  they die; nothing waits for ever except for a stated reason; nothing is left
  running after `Close`.
* Instance: a PDF shows its own document; the load event is not missed; tabs are closed;
  the end of the context ends the conversion.
* Process: one Chromium at a time on a port, the client connected to that one, none left
  behind; what is called returns.
* CDP client: each answer reaches its command, each event its listener, the end
  of the connection everyone who asks; nothing accumulates; frames cross whole.
* Watchdog: it ends the process only for an illness that lasted, and always then.
* Server: a signal ends the process in bounded time without losing accepted work.
* Handlers, converter, stamp: the bucket's rate; statuses and counters that match what
  happened; offsets that point at their objects.

## Modules

| Module | Content |
|---|---|
| `Pool` | `pool.go`: callers, workers, `NewPool`, `Close`, `Drain`, the browsers and the clients around them |
| `ConversionService` | what the pool promises a caller; `Pool` refines it (`ServiceSpec`), `Api` is built on it |
| `RestartBackoff` | the pause between failed restarts, with the arithmetic of `time.Duration` |
| `Server` | `main.go` around `Pool` (EXTENDS it): the listener, the signal's context, the stages of the shutdown, the watchdog |
| `Instance` | `Instance.Convert`: the commands of a conversion, its tab, its load event |
| `Watchdog` | `watchdog.go`: the ticker, the samples, the exit |
| `Process` | `process.go` under `Watchdog` (EXTENDS it): the Chromiums of one slot, their starts, dials, kills and crashes |
| `CdpClient` | `client.go`: `send`, `readLoop`, listeners, the browser at the other end |
| `WsFrame` | `writeFrame`, `writePongFrame` and `readFrame` as operators, against the frames RFC 6455 allows |
| `PdfaStamp` | `stamp.go` as operators on files of parts, against a reader that follows the tables |
| `Api` | the handlers and the converter around `ConversionService` and `PdfaStamp` (EXTENDS both): limiter, key, parser, statuses, counters |
| `PoolProofs` | `Pool`: types, browsers, kills, quotas, boot, what `Close` leaves behind |
| `PoolJobProofs` | `Pool`: the WaitGroup, the gauges, `Drain`, the place of each job, the refinement of `ConversionService`, the verdict on health |
| `ServerProofs` | `Server`, and that `Pool`'s theorems hold of it |
| `ProcessProofs` | `Watchdog` and `Process`, and that `Watchdog`'s theorems hold of `Process` |
| `CdpClientProofs` | `CdpClient`, and `WsFrame` for every length |
| `InstanceProofs` | `Instance` |
| `StampProofs` | `PdfaStamp`: what `Stamp` does to every catalog and to every file |
| `ApiProofs` | `Api`, with `StampProofs` for its files |
| `MCPool`, `MCServer`, `MCInstance`, `MCCdpClient`, `MCWatchdog`, `MCApi`, `MCRestartBackoff` | what TLC needs beside them: symmetry, bounds, the messages and files of `Api` |

`Pool` has one action for each statement of a goroutine that another goroutine, or a scrape of
the gauges, can see: between two of them the code takes no lock, sends or receives on no
channel and changes no atomic. `pc[r]` is where the goroutine of request `r` stands in
`Convert`; `wpc[s]` the statement to which the worker of slot `s` comes next; `closer`,
`boot` and `drain` where main stands in `Close`, `NewPool` and `Drain`. So a worker takes a
job, takes it off the queue gauge and takes itself off the gauge of free instances in three
steps, and is put back by two after the result is sent; `Drain`'s helper goroutine returns
from `wg.Wait` in one step and `Drain` from its `select` in another, and the helper stays
(`"left"`) when `Drain` has left at its deadline. `drained` remembers the calls that had been
made when `wg.Wait` returned. The document, its options and the PDF are abstracted to the
three outcomes the pool's `switch` tells apart. `Instance.Convert` fails or is cancelled at
any time and succeeds in two steps, the first of which, the PDF's arrival in the channel of
its command, needs a browser that is alive and connected (`LastAnswer`). A kill is two steps
as well, the signal (`CloseInstance`) and the `Wait` (`WaitEnds`), and of two that meet one may
never return (`Robbed`, `CloseRobbed`): `Close` then keeps the mutex for which a worker with a
new browser waits. `newInstance` succeeds or fails at any time, or stays in its dial
(`Starting`). The context that governs the browsers' lives (`lifeCtx`) has no variable: when
it ends, browsers die and restarts fail, and the model lets both happen at any moment.

`Server` extends `Pool` with the process. `Pool` lets main call `Drain` and `Close`
whenever `NewPool` has succeeded; in `Server` main is a component that starts, serves,
and leaves when the signal comes or the listener fails, and then waits for `Shutdown`,
`Drain` and `Close` in turn, where either wait may end by its deadline. A request is
accepted when net/http starts its handler: while main serves, while `Shutdown` waits
(a connection that was open may still bring its request), and after `Shutdown` has
given up. The watchdog's sample waits for the mutex that `Close` holds, unless the failures
in a row answer first. `ctx` is the context of `signal.NotifyContext`; once it is done browsers may
be killed at any moment (`LifeEnds`) and the watchdog may return, but its `select` may
also choose the tick. How long an illness must last is in `Watchdog`; here the
watchdog may exit at any bad sample after another. `ServerNext` uses the actions of
`Pool` as they are, so that each step of the process is a step of `Pool` or leaves it
alone.

`Instance` is the step that `Pool` calls `ConvertReturns`, opened up. `at[j]` is the command or
wait at which the conversion of job `j` stands, `Succ` the order of the code's calls, `Leaves`
its error returns with the deferred closing of the tab. A `send` is a `Write` followed by an
answer, an error or the end of the context; since `send` writes before it looks at its context,
a cancelled conversion still gets its `CloseTarget` onto the wire. A write may stay blocked for
as long as the connection lasts (`Blocked`), since `conn.Write` has no deadline. The client is
reduced to what `CdpClient` shows. The browser is external: it handles the commands of one
session in order, refuses any of them, sends load events, and may be late, silent or gone.
Whether the load event of a new tab's `about:blank` can be read after the listener was
registered depends on Chromium; the model lets it, and `PrintsOwnDocument` names it as its one
exception.

`CdpClient` has one action per critical section of `send` and `readLoop`. The
copy of a listener list and the sending of the event are two steps, as are the
lookup of a channel and the sending of an answer, and a cancelled command may
still be answered between its choice of `ctx.Done` and the deletion of its id.
An answer carries the identity of the command it answers, which the code cannot
see, so that `RightReply` can say that ids do not mix commands up. A frame that
is neither an answer nor an event (ping, pong, empty, not JSON) changes no state
the model has.

`Watchdog` counts time in units of which the period and the limit are multiples. What
`Health` looks at is free: the failures in a row, the crash of every instance and the holding
of the mutex may turn at any moment, so that any history is possible. A sample is three steps:
the tick is read, the failures in a row are tested, and the instances are looked at with the
mutex. A ticker's channel holds one tick. The goroutine handles a tick at most `Lag` after it
fired; one that the mutex has held up is handled in the unit in which the mutex is released,
and until then the next tick waits in the channel and later ones are dropped. `sickSince`
has, for each of the two troubles, since when a sample that need not wait would find it.

`Process` opens what `Pool` calls `newInstance`, `Close` and the death of a browser, for one
slot. `stage` is where the worker stands between `Start` and the next restart (for the first
launch it is `NewPool`), `child[v]` what the operating system knows of the `v`-th Chromium:
it boots, serves, dies for a while with its port still bound, is a zombie until it is waited
for. `kill[a]` follows `Kill` through `Process.Kill` and `Wait` for its two callers, the
worker and `Pool.Close`; os/exec is external and modelled from its use here: the
goroutine that watches the context sends one result (`verdict`), which one `Wait` receives.
`Pool.Close` keeps the pool's mutex until its `Kill` returns, so `Install` waits for it.
`waitReady` asks the port only: any Chromium that listens answers. The step `Watched` ties
the slot to `Watchdog`: `crashed` turns whenever `HasCrashed` does, `locked` whenever
`Pool.Close` takes or leaves the mutex, `failing` as a conversion returns, which may be the
third in a row to fail or a success; and the watchdog's steps are those of `Watchdog`.

`Api` takes each handler of the chain as one action of its request: they share only the
limiter, the counters and the pool. A message is the record of what the handlers look at,
an asset's name the record of what `validateAssetName` asks. The limiter is external
(`golang.org/x/time/rate`): its tokens are counted as the time they took to come in, so
that the model needs no fractions. `Pool.Convert` is `ConversionService`, which `Pool` is
proved to implement: `Join`, `Refuse` and `Answer` are its return paths. `Converted` is the
part of `Converter.Convert` or `ConvertPDFA` after the pool has returned, with the stamp, the
status label and the counter.

`PdfaStamp` takes a file as a sequence of parts, each with the offset at which it lies; the
numbers a file holds about itself (tables, `startxref`, `/Prev`) are offsets, and `Stamp`
computes the new ones as the code does, from the length of the file and of what it has
written. A dictionary is a function from positions to tokens, entries and brackets, and a
token may be the first of its line, because `removeDictKey` removes by line; what is removed
leaves a gap. `Reads` is the reference: a reader that starts at the last `startxref`, follows
the chain of tables, takes the newest entry of each object and expects the object at its
offset, where the code searches for text and reads one table. `WellFormed` is what such a
reader asks of a file (ISO 32000), `Stampable` what the code asks of it, and `Plain` what the
code takes for granted: no second `startxref` in the tail it searches, and markers that are
there already on lines of their own.

`WsFrame` takes a stream as header bytes, mask and payload, so that the encodings of lengths
are computed byte by byte and payloads are not. `PeerFrames` are the frames that RFC 6455
lets a peer write, masked or not and with the length in any form that holds it.

`RestartBackoff` computes `2^(n-1) * 10^9` in 64 bits although TLC's integers have
32: since `10^9 = 2^9 * 5^9` the product is `5^9 * 2^(n+8)`, and modulo `2^64` only
the low `56 - n` bits of `5^9` matter, which fit.

## Runs

| Run | Checks | Shows |
|---|---|---|
| `pool_jobs` | `TypeOK`, `EachJobInOnePlace`, `WaitGroupExact`, `FreeGaugeNeverOverstates`, `FailedBootLeavesNoBrowser`, `DrainLosesNothing`, `ServiceSpec` | two callers on two workers: jobs, the WaitGroup and the gauge agree at every statement; the calls that a drain waited for are over when it ends; the pool is a conversion service |
| `pool_quota` | `QueueGaugeExact`, `OneBrowserPerPort`, `QuotaRespected`, `KilledForAReason`, `SickForAReason` | four jobs, at most two at once, on one browser that must be replaced after each: the queue gauge at every statement, one browser on the port, the quota, kills with a reason, and a verdict on health that counts failures since the last success only |
| `pool_live` | `QueueMoves`, `CallersReturn`, `CloseReaps` | which waits may last for ever: those behind a stuck conversion, write or start, on a closed pool, and the second of two kills of one browser; and no other |
| `instance` | `TypeOK`, `PrintsOwnDocument`, `LoadNotMissed`, `TabsAreClosed`, `ContextReturns` | two conversions in a row, cancelled, refused or cut off anywhere: documents, load events, tabs, and the return when the context ends and no write is blocked |
| `cdp` | `TypeOK`, `RightReply`, `PendingExact`, `SendReturnsOrClosed`, `EventReachesListener`, `FramesCrossFirst` | two commands and two events on a connection that may be cancelled, closed or dropped anywhere; frames at every boundary of their lengths |
| `watchdog` | `ProcessTypeOK`, `NeverHasty`, `Vigilant`, `OneAtATime`, `CallsReturn` | three Chromiums in one slot that the worker, `Pool.Close`, main's context and crashes end, under the watchdog, whose samples wait for the mutex that `Pool.Close` holds: one at a time, none left behind, an exit neither early nor, once the mutex is free, late |
| `server_shutdown` | `ServerTypeOK`, `OrderlyClose`, `AddNeverRacesWait`, `SignalEndsProcess` | the shutdown with every deadline that may pass: what was accepted is answered first, and a signal ends the process unless two kills of one browser meet |
| `api` | `ApiTypeOK`, `RateBound`, `StatusTellsOutcome`, `MetricsMatchAnswers`, `StampedFileReads` | three requests of any of seven kinds through the limiter, the parser, a pool that may refuse them, and the stamp |
| `server_sigterm` | `FinishBeforeKill`, violated | the signal kills a browser in the middle of a conversion |
| `backoff_overflow` | `RestartsSpaced`, violated | the 35th failed restart in a row is not followed by a pause |
| `pool_leak` | `NoBrowserOutlivesClose`, violated | a browser installed after `Close` |
| `pool_stranded` | `QueuedJobIsProcessed`, violated | a queued job that no worker takes |

### Bounds

* Pool: two to four requests, one or two slots, a queue of one to four places.
  Two slots are needed for jobs to overtake each other and for `Close` to reach
  one slot before another; one slot with a queue of one is full at the second
  job, and a quota of one makes every success a replacement. Four
  requests suffice for `fallosSeguidos` to reach its threshold of three and for a
  success between failures to put it back. Requests are
  interchangeable and taken as a symmetry set in the safety runs. Failed restarts
  need no bound: each needs a job, and requests are finite.
* `pool_jobs` explores the states in which at most one slot is in trouble (dead,
  disconnected, or failed to restart) and at most one client has left, and no slot is in
  trouble while `Drain` is under way (`FewFaults`, a constraint on the states explored). With
  one slot everything that `pool_jobs` and `pool_quota` check passes without a constraint.
* `pool_quota` has, besides, at most two calls at once and no `Drain` (`TwoAtOnce`), and
  `pool_live` no `Drain` (`NoDrain`): `Drain` changes no slot, no gauge and no call.
* Server: two requests, one slot, a queue of one place, no quota. One slot and one
  place are enough for a request to wait behind another while main shuts down.
  `server_shutdown` explores the states in which at most one client has left, no
  restart has failed and, once both requests are accepted, the watchdog is off
  (`FewFaults`); with one request, a quota of one and no constraint the same properties
  also pass.
* Instance: two conversions, so that what the first left on the wire meets the second;
  one has assets. Nothing else is bounded.
* CDP: two commands, so that a late answer of one can meet the other; two events
  on a channel of one place, so that one is dropped.
* Watchdog and processes: a limit of one period and a half, a lag of half a period, time for
  four and a half (`Horizon`), three Chromiums (`MaxLaunches`), so that one that was replaced,
  one that is dying and one that starts may meet. A tick that is late, one that is dropped
  while a sample waits for the mutex, and an exit after an illness that began late all come in
  that time. The proofs remove these bounds.
* Api: three requests over a pool with one place and one browser, so that one converts, one
  waits and one is refused; seven messages that take every branch of the chain; a burst of
  one (`RateBurst` 0 is read as 1) and a token every two units of three, so that a request is
  passed after a wait. Seven files: the objects in both orders, catalogs on one line, with a
  nested dictionary and with entries to be replaced, a small page tree and one larger than
  the tail that `findTrailer` searches (so that the file is longer than `TailSize`), and one
  with a cross-reference stream, which is refused. `XmpSize`, `IccSize` and `TailSize` are of the
  size the code has.
* Frames: the lengths 0, 1 and those around 125, 65535 and 32 MiB, every opcode, every form of
  the length, followed by another frame.
* Backoff: 40 failures; with a bound of 34 the same property holds. The seconds since
  a failure are counted to 32, more than the longest pause.

### Fairness

`FairSpec` of `Pool` assumes that every goroutine that can step does, that timers
fire, that a deadline ends, that a process that was killed ends, and that net/http ends the
context of a request whose handler has returned. It assumes nothing of what the code waits
for without a bound, and the liveness properties name each as an excuse:

* a conversion whose context is alive, on whose answer the code puts no timeout, and one
  whose browser lives and does not read, since a write has no deadline at all (`Hung`);
* the start of a browser, whose dial and handshake have no deadline (`Starting`);
* the `Wait` of a kill when the process has been waited for by another (`Robbed`,
  `CloseRobbed`): it may return and it may not.

It does not assume that a client leaves or that `Close` is called. `ImpatientSpec` adds that
every context ends and that no worker is stuck; `pool_stranded` uses it to show that even then
the job of a queued call is not processed.

`FairServerSpec` assumes less than `FairSpec`: main takes its steps, the deadlines of
`Shutdown` and `Drain` pass, main sees the signal, and the loops of `NewPool` and `Close`
go on, but for a `Wait` that another kill has robbed of its result. Callers, workers, clients,
browsers and the watchdog may all stop: the process must end without them. No signal need
come and the listener need not fail. That `NewPool`'s loop ends once the signal has come rests
on its context: it ends the request of the dial and kills the browser at the other end of the
handshake.

`FairSpec` of `Instance` assumes that the worker's goroutine runs, unless it is in a write
while the connection is up, and nothing of the browser, the connection or the read loop.
`ContextReturns` under it is what `Pool` takes for granted when it lets every conversion
return whose context has ended and whose browser is dead, and the exception is that of `Hung`.

`FairSpec` of `CdpClient` assumes that goroutines run, that a browser that is
there answers what it was sent, and that reading a connection that has ended
returns an error. No context need end, nobody need call `Close`.

`FairProcessSpec` assumes that goroutines run, that the timers of `waitReady` fire, that a
Chromium that was killed ends, and that a dial to a port where nothing listens fails. It
does not assume that a Chromium answers, that the worker takes jobs, that the context ends or
that anybody closes the pool. `Api` has no liveness: that a request is answered is
`CallersReturn` of the pool under it.

### Mutants

Each property of a passing run has a mutant: a form of one action with a plausible
mistake in it (a forgotten `wg.Done`, an entry left in the map, a bound off by
one), defined next to the action and used by nothing. TLC finds the property
violated when the mutant takes the action's place.

## What the code does otherwise than it says

1. **A browser can outlive `Close`** (`pool_leak`). A worker tests `shutdown` at
   `pool.go:295` and then restarts; `newInstance` takes seconds. `Close` may set the
   flag, close `done`, kill the old instance and return in the meantime, and the
   new browser is then assigned to the slot (`pool.go:369`) and never killed.
2. **A queued job can be stranded** (`pool_stranded`). When `done` is closed the
   worker's `select` may leave with jobs in the queue, and a caller past the
   shutdown test may still choose to enqueue. Its caller then waits for its own
   context, and `Drain` for its deadline.
3. **The backoff overflows** (`backoff_overflow`). The product is computed before it
   is capped; at 35 failures in a row it is negative and the worker does not pause.
4. **The signal kills the browsers first** (`server_sigterm`). The context that
   `NewPool` gets is the one the signal ends (`main.go:48`, `main.go:58`), and
   `exec.CommandContext` kills every Chromium under it. `Shutdown` and `Drain` then wait
   for conversions that can only fail. `OrderlyClose` is about answers, not about their
   success, and holds.

Behaviours worth knowing, which no run singles out:

* A failed restart takes the slot off the gauge of idle instances (`pool.go:306`) and a
  later success does not put it back: the gauge loses one for each, for ever.
  `FreeGaugeNeverOverstates` is what remains true.
* Two concurrent kills of one process may deadlock at `process.go:136`: exec's goroutine
  sends its result once, and the second `Wait` that gets there waits for ever. If that is
  `Pool.Close`'s, main never returns and the pool's mutex is never released: no worker can
  install a browser and no sample of the watchdog that needs the mutex returns, so that the
  watchdog does not end the process either. `CallsReturn`, `CloseReaps`, `SignalEndsProcess`
  and `Vigilant` except exactly this; `OneKillIsRobbed` says when it may be.
* `Health` tests the failures in a row before it asks for the mutex and the instances after
  (`pool.go:244`, `pool.go:248`). A pool that goes from the one trouble to the other between
  the two tests of a sample is found well, and the watchdog counts anew: `Vigilant` is about
  each trouble by itself.
* A write has no deadline (`client.go:321`): a Chromium that stops reading holds its
  conversion, and the deferred `CloseTarget` after it, past the end of the request's
  context, and with it the worker. `ContextReturns` and the properties of `pool_live` except it.
* When `Drain` returns, jobs of calls that were made after its `wg.Wait` returned may be in the
  pool; after `Close`, jobs that were stranded in the queue keep a `Drain` until its deadline.
* A crashed browser is replaced only after a job: without traffic its slot stays crashed
  until the watchdog ends the process.
* Three failures in a row make `Health` false until a conversion succeeds (`pool.go:285`).
  When every instance is up again and no request comes, the watchdog still ends the
  process at its limit.
* `dialBrowser` and the WebSocket handshake have no deadline but the context's
  (`CallsReturn` says so): a Chromium that accepts and stays silent holds its slot, and if
  every slot has one, the queue. `QueueMoves`, `CallersReturn` and `CloseReaps` except it.
* A conversion that is cancelled inside `openSession` leaves its tab open for as long as
  the browser lives: the deferred closing comes after it (`instance.go:76-84`). The quota
  counts only successes, so nothing bounds the number of such tabs. `TabsAreClosed` is
  about the conversions that got their session.
* A `send` whose connection is lost waits until its request's context ends, because its
  `select` has no case for `c.done` (`SendReturnsOrClosed` states what does hold). The
  context of a request has no deadline of its own: 504 means that the client has left.
* The read loop ends on a frame over 32 MiB; base64 makes that a PDF of about 24 MiB, which
  costs the browser. FIN is not looked at, so a fragmented message is read as two. A
  64-bit length with its top bit set is negative, passes the limit and makes `make` panic.
* A JSON body over 64 MiB is cut off and gives 400, a form 413. What follows the JSON value
  in the body is not looked at. The limiter runs before the API key: requests without
  a key spend tokens.
* The server's write timeout may end a connection while its conversion runs; the
  conversion is counted "ok" and the error of `w.Write` is dropped.
* `removeDictKey` removes a key only at the start of a line other than the first; a catalog on
  one line that already has `/Metadata` would get a second. The new trailer drops `/Info` and
  `/ID`. `findTrailer` takes the last trailer of the file and the first `startxref` of its
  tail: a file that was stamped is read right because the update, with its ICC profile of 3144
  bytes, is longer than the tail of 2048. `StampAssumption` says so, and `StampedReads` rests
  on it.

## Proofs

`tlapm` proves the following for every value of the constants that satisfies the modules'
assumptions.

| Module | Theorem | Property |
|---|---|---|
| `PoolProofs` | `TypeCorrect` | `TypeOK` of `Pool` |
| | `OneBrowser`, `KillsHaveReasons` | `OneBrowserPerPort`, `KilledForAReason` |
| | `QuotaHolds`, `FailedBootIsClean` | `QuotaRespected`, `FailedBootLeavesNoBrowser` |
| | `OnlyReplacementsOutliveClose` | the browsers that finding 1 is about are the only ones `Close` leaves |
| `PoolJobProofs` | `WaitGroupCounts`, `DrainIsComplete` | `WaitGroupExact`, `DrainLosesNothing` |
| | `QueueGaugeCounts`, `FreeGaugeCounts` | `QueueGaugeExact`, `FreeGaugeNeverOverstates` |
| | `JobsAreNotLost` | `EachJobInOnePlace` |
| | `PoolIsAService` | `ServiceSpec`: `Pool` implements `ConversionService` |
| | `SicknessHasReasons` | `SickForAReason` |
| `ServerProofs` | `ServerRunsPool` | every behaviour of `ServerSpec` is one of `Spec` of `Pool` |
| | `ServerTypeCorrect`, `AddAndWaitApart` | `ServerTypeOK`, `AddNeverRacesWait` |
| | `ShutdownLosesNothing` | `OrderlyClose` |
| `InstanceProofs` | `InstanceTypes` | `TypeOK` of `Instance` |
| | `PrintsItsOwn`, `LoadIsHeard`, `TabsClose` | `PrintsOwnDocument`, `LoadNotMissed`, `TabsAreClosed` |
| `CdpClientProofs` | `ClientTypes` | `TypeOK` of `CdpClient` |
| | `AnswersReachTheirCall`, `PendingIsExact` | `RightReply`, `PendingExact` |
| | `EveryFrameCrosses`, `FramesAreRead` | `FramesCrossFirst`, for every length and whatever follows on the stream |
| | `LongIsRefused`, `OverIsOver` | a frame over the limit is refused, and the limit is compared with the number that was sent |
| `ProcessProofs` | `WatchdogTypes`, `WatchdogIsPatient`, `WatchdogIsVigilant` | `TypeOK`, `NeverHasty`, `Vigilant` of `Watchdog` |
| | `ProcessRunsWatchdog` | every behaviour of `ProcessSpec` is one of `Spec` of `Watchdog` |
| | `SlotIsGivenTime`, `DeadSlotEndsProcess` | `NeverHasty`, `Vigilant` of `ProcessSpec` |
| | `OneChromium`, `ProcessTypes` | `OneAtATime`, `ProcessTypeOK` |
| | `OneKillIsRobbed` | of two kills of a Chromium at most one waits for a result that the other received, and no other kill does |
| `StampProofs` | `CatalogIsStamped` | `patchCatalog` keeps what it should of every catalog |
| | `StampedReads` | `Stamp` yields, of every file that it and its readers take, one that reads as it should and can be stamped again |
| `ApiProofs` | `BucketHolds`, `ApiTypes` | `RateBound`, `ApiTypeOK` |
| | `StatusIsTrue`, `MetricsAreTrue` | `StatusTellsOutcome`, `MetricsMatchAnswers` |
| | `StampsRead` | `StampedFileReads` |

### Assumptions

Requests are finite and none is `NoJob`, there is at least one slot and the quota is not
negative (`validateConfig` in `main.go` refuses anything else). For the watchdog the period
is positive and the lag shorter than it; at least one Chromium may be started. Calls and
listeners of the client are finite and a channel has at least one place. In `Api` there is
some message a request may carry, and the period and burst of the limiter are not negative
(`rateLimitMiddleware` reads a burst that is not positive as one). `StampAssumption`: the two
streams of an update have positive sizes, and together they are no shorter than the tail that
`findTrailer` searches, which is longer than a `startxref` (3144 and more bytes against 2048).
`ChromeAssumption` is about the external program: a file that Chromium prints and `Stamp` takes
is `WellFormed` and `Plain`. Each assumption is an `ASSUME` of its module, and TLC evaluates
it in a run; for `ChromeAssumption` that is on the files of `MCApi`, one of which already has
the markers and one of which `Stamp` refuses.

### The pool

None of the properties of the browsers is inductive. `InstanceInv` is, together with
`TypeOK`. `BootInv` is about `NewPool`: before it has returned there is no call and
no queued job and no worker restarts, slots above `booted` hold no browser, and when
it fails the browsers of the slots that `Close` has passed have ended and were waited for.
`QuotaInv`: while
the pool is open, a connected browser at its quota belongs to a worker that is about
to decide on its replacement or to kill it. `ReplaceInv` is `OneBrowserPerPort` and
`KilledForAReason`, which need each other. `SlotSteps` shows that every step is
one of `NewPool`'s or `Close`'s on a slot, the death or disconnection of a slot's
browser, a step of a slot's worker, or leaves the slots alone, so that the invariants
need not be proved against all of `Next`; `CloserSteps` does the same for `Close`, and
`KillInv` says that `Close` waits only for a slot that `NewPool` has filled.
`ShutdownStays` and `ReadyStays` say that those two facts never turn back.

`OnlyReplacementsOutliveClose` is about the run `pool_leak`, where `Close` leaves a browser.
As `Close` passes a slot its browser is dead, and stays so (`Gone`) unless the slot's worker
stood between its decision to replace the browser and the end of the replacement: once the
shutdown is flagged no worker decides so again. The counterexample is thus the only kind there
is.

`CountInv` says of each counter which set it counts, with `Cardinality` where the properties
count with a fold. A step moves one caller or one worker from one label to another, and
`CountMove` is the one lemma on what that does to the size of a set: the rest is the table
of which labels are counted, by callers (`CallerCounts`) and by workers (`WorkerCounts`).
`wg = 0` read through `CountInv` leaves no call before its select and no job queued or in a
worker's hands (`WaitMeansAway`), and a call that the pool is done with does not come back
(`AwayStays`): so `DrainInv`, with it `DrainLosesNothing`, holds from the return of `wg.Wait` to
that of `Drain`, although other calls are made in between.

`JobInv` gives each request's job its place by the label of its caller: the queue has
it once (`Distinct`), at most one worker holds it (`Holding`), never both, and a caller that
has its result finds it nowhere (`PlacedJob`). The refinement maps the queue to the service's
line and the jobs in workers' hands (`InHand`) to those being served; each step of a caller,
a worker or main is then one of the service's steps or a stutter, by `JobInv`. `SickInv`
says that the count of failures is the size of `streak`, the requests that failed since the last
success: each of them has failed for good (`FailedOnce`), so that none is counted twice.

`ServerRunsPool` carries all of that to the process: under `AcceptedInv` (only requests are
accepted) each action of `Server` is an action of `Pool` or leaves its variables alone.
`AddNeverRacesWait` follows from `HandlersGone`: once `Shutdown` has returned in time every
accepted request has returned, and only main, or the helper that its `Drain` has left behind,
waits on the WaitGroup. Its step rests on `CallsMove`: a call moves nothing but its own
request, which is accepted and has not returned. `OrderlyClose` adds what `Drain` waited for:
with the WaitGroup at zero `CountInv` leaves no job queued and none in a worker's hands
(`DrainedIsQuiet`), and without a call in flight that stays so while `Drain` returns and until
the pool is closed (`CloseInv`).

### A browser and its connection

`InstanceInv` follows the order of the commands. `Order` numbers the labels of a
conversion; `Written` says that a command on the wire is of its conversion's past, or of its
present if it was written, and finds the tab as it needs it; `Returned` says
the same of what comes back. Since every command is on the wire at most once (`Injective`)
and the browser takes those of a session in order, `content` or `navigate` is carried out
after the listener was registered, so the load event meets it (`Event`), and `print` after
the wait has ended (`Place`, `Tab`). `Closing` follows the order to close the tab from the
write to the browser.

In `CdpClient` ids are given out once (`IdsInv`), so a frame that carries a call's id answers
that call or is an event (`FramesInv`), and what the read loop has looked up still
means the same when it sends it, whether or not the call was cancelled in between.
`RightReply` and `PendingExact` are inductive only together with these (`RouteInv`).

The frames are a matter of arithmetic. A length is sent in one, three or nine bytes
(`PeerFrames`), and what `readFrame` computes from them is taken apart by cases: `Bytes16` and
`Bytes64` show with quotients and remainders that the bytes of a number give it back, that
eight bytes of a length up to 2^31 - 1 (`MaxLength`, the model's bound on lengths, for TLC's
integers) are never negative, and that `Over` is then the comparison with the limit. Where the
length is read right, the mask, the payload and nothing else are taken from the stream.
`OverIsOver` has no such limit on the length.

`OneInv` is about the newest Chromium: all before it were waited for (`Newest`), which is
why `waitReady` and the dial, which know only the port, reach that one (`PeerInv`).
`WorkerInv` says by the worker's stage, and `PoolInv` by that of `Pool.Close`, which Chromium
is being killed, and that a `Kill` past its first wait has waited for it. `VerdictInv` adds who
has received the one result that exec sends of a Chromium. A `Kill` that begins after the
Chromium was waited for fails at once, so two must have begun before; `Pool.Close` cannot know
a Chromium that is not in its slot yet, so that the result of a failed start's is never lost.

The watchdog's invariants speak of the next tick that the goroutine will take (`coming`) and
of the next that it will have handled (`due`). `ClockInv`: the waiting tick is the ticker's
last, or older by a period and more if the mutex has held a sample up. `SampleInv`: since
`enfermoDesde` every sample was bad, and it is after the last good one. `NeverHasty` follows at
the exit. `IllnessInv(c)` is about a trouble that began at `since` and has lasted, with the
mutex free: a sample is late by more than `Lag` only in the very unit in which the trouble began
or the mutex was released; the sample that is due sees the trouble, or the count has begun at
most a period after it; and the same will be true of the sample after it, even if the tick of
the one in hand was taken long ago. `Vigilant` follows from these and the lag.
`StepIsWatchdogStep` shows that a step of the slot turns what `Health` looks at, as `Watchdog`
allows, or leaves the watchdog's variables alone; what is proved of `Watchdog` for any history
holds of the one that the slot makes.

### The handlers

`LimitInv` bounds, for each stretch of time that ends now, what was passed in it plus the
tokens that are left by a full bucket plus the stretch's length; for a stretch that has
ended, what was passed in it alone. Passing a request moves one token from the second term to
the first, and the clock adds at most what it lengthens the stretch by. `RateBound`
follows by division. `Told` says by a request's stage what it has
been told, what the pool has answered and what it will be told; the steps of the pool
change neither who has joined (`JoinedKept`) nor an answer once given. `MetricsInv` makes
each counter the size of a set of requests, by the error they ended with.

### The stamp

`CatalogIsStamped` is about depths. `patchCatalog` removes tokens (`Removed`) and replaces the
outer brackets; since `Replaceable` lets it remove no bracket but the last, what is left has its
old depth at every position, which the sets of brackets before a position and their sizes show,
and the two new entries lie at depth one, once each. It is proved of `Inject` first, for whatever
was left, by what `led` and `ended` find.

`StampedReads` then follows the file. What is appended lies behind the file (`AppendedIs`), so
that every offset of the old tables still means what it did; the new table names the three
new objects where they are; the catalog is found by its number, at or after its offset, with
nothing before it that looks like it. The last trailer, the first `startxref` of the tail (here
`StampAssumption` is needed) and the last table are the new ones, the chain goes on to the old
one, and an object that is not in the new table is looked up where it was. The theorem's
conclusion contains its premises for the stamped file: `StampsRead` applies it twice, under the
invariant `FileInv` that a request's file is one that Chromium printed and its PDF/A is that
file stamped.

### Model-checked only

All liveness (outside what the prover does): `QueueMoves`, `CallersReturn`, `CloseReaps`,
`SignalEndsProcess`, `ContextReturns`, `SendReturnsOrClosed`, `EventReachesListener`,
`CallsReturn`. The arithmetic of `RestartBackoff`. And, of course, the four violations.

## Not modelled

* Encodings: JSON of commands and answers, base64, multipart bodies, the bytes of
  a PDF. An answer that does not decode is an error of its command.
* The WebSocket handshake, beyond its success, failure or silence in `Process`.
* Request ids and response headers, the endpoints `/health`, `/version` and `/metrics`, which
  only read; durations, sizes and spans, which nothing in the program reads.
* Configuration: read and validated once, it is the modules' constants and assumptions.
  The binary's health-check mode is one request and an exit status.
* The text of stderr that `process.go` keeps for an error's message.
* `bench/`, the generator of the documentation's pictures and the Dockerfile.
* The end of the process outside a container: a Chromium that survives `os.Exit` may hold
  the port of the next run.
* Errors of the operating system other than a failed start, write or read appear as
  the failures they cause.
