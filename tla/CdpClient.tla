------------------------------ MODULE CdpClient ------------------------------
(***************************************************************************)
(* The CDP client of internal/cdp/client.go: goroutines that send commands *)
(* over one WebSocket and wait for their answers, the read loop that       *)
(* routes answers to them by id and events to the subscribers of a tab's   *)
(* session, and the browser at the other end, which answers in any order,  *)
(* emits events, and may vanish.  WsFrame has the frames in which it all   *)
(* crosses the connection.                                                 *)
(***************************************************************************)
EXTENDS WsFrame, SequencesExt

CONSTANTS Calls,        \* calls of send, each made at most once
          NoCall,
          Listeners,    \* subscriptions of one session, each made at most once
          EventCap,     \* capacity of a listener's channel (8 in the code)
          MaxEvents     \* bound on the events the browser emits

ASSUME CdpAssumption ==
  /\ IsFiniteSet(Calls) /\ NoCall \notin Calls /\ IsFiniteSet(Listeners)
  /\ EventCap \in Nat \ {0} /\ MaxEvents \in Nat

VARIABLES
  nextID, pending,              \* c.nextID; c.pending, from an id to the call that waits
  pc, id, ctxDone, chan, ret,   \* per call: control, its id, its context, its channel
                                \* (the call whose answer it holds), what it returned
  sent, inbound,                \* commands at the browser, frames on their way back
  emitted,                      \* events emitted so far
  link,                         \* the connection: "up", "gone" (peer closed), "shut" (Close)
  reader, frame, targets,       \* readLoop: control, the frame it routes, the channels it copied
  done,                         \* c.done is closed
  session, subscribed, events   \* the tab's session, its entry of c.sessionListeners,
                                \* and per listener the length of its channel

callVars  == <<pc, id, ctxDone, chan, ret>>
wireVars  == <<sent, inbound, emitted, link>>
readVars  == <<reader, frame, targets>>
eventVars == <<session, subscribed, events>>
vars == <<nextID, pending, callVars, wireVars, readVars, done, eventVars>>

Command == [id : Nat, call : Calls]
Event == [id |-> 0, call |-> NoCall]    \* an event frame carries no id
Without(f, n) == [m \in DOMAIN f \ {n} |-> f[m]]

Init ==
  /\ nextID = 0 /\ pending = << >>
  /\ pc = [c \in Calls |-> "idle"] /\ id = [c \in Calls |-> 0]
  /\ ctxDone = [c \in Calls |-> FALSE]
  /\ chan = [c \in Calls |-> NoCall] /\ ret = [c \in Calls |-> "none"]
  /\ sent = {} /\ inbound = << >> /\ emitted = 0 /\ link = "up"
  /\ reader = "read" /\ frame = Event /\ targets = {}
  /\ done = FALSE
  /\ session = "open" /\ subscribed = {} /\ events = [l \in Listeners |-> 0]

-----------------------------------------------------------------------------
(* send, in a caller's goroutine *)

\* Mutant: the lowest id that nobody waits on is given out again.
ReusesIds(c) ==
  /\ pc[c] = "idle"
  /\ nextID' = CHOOSE n \in 1..(nextID + 1) :
                 n \notin DOMAIN pending /\ \A m \in 1..(n - 1) : m \in DOMAIN pending
  /\ id' = [id EXCEPT ![c] = nextID']
  /\ pending' = [n \in DOMAIN pending \cup {nextID'} |-> IF n = nextID' THEN c ELSE pending[n]]
  /\ pc' = [pc EXCEPT ![c] = "write"]
  /\ UNCHANGED <<ctxDone, chan, ret, wireVars, readVars, done, eventVars>>

\* The counter is atomic, so the id is the call's own whenever it is mapped.
Register(c) ==
  /\ pc[c] = "idle"
  /\ nextID' = nextID + 1
  /\ id' = [id EXCEPT ![c] = nextID']
  /\ pending' = [n \in DOMAIN pending \cup {nextID'} |-> IF n = nextID' THEN c ELSE pending[n]]
  /\ pc' = [pc EXCEPT ![c] = "write"]
  /\ UNCHANGED <<ctxDone, chan, ret, wireVars, readVars, done, eventVars>>

\* The write succeeds; a peer that has closed may still let one write succeed.
Write(c) ==
  /\ pc[c] = "write" /\ link # "shut"
  /\ sent' = IF link = "up" THEN sent \cup {[id |-> id[c], call |-> c]} ELSE sent
  /\ pc' = [pc EXCEPT ![c] = "wait"]
  /\ UNCHANGED <<nextID, pending, id, ctxDone, chan, ret, inbound, emitted, link,
                 readVars, done, eventVars>>

\* delete(c.pending, id) under the mutex, and the return.
LeaveWith(c, value) ==
  /\ pending' = Without(pending, id[c])
  /\ pc' = [pc EXCEPT ![c] = "returned"]
  /\ ret' = [ret EXCEPT ![c] = value]
  /\ UNCHANGED <<nextID, id, ctxDone, chan, wireVars, readVars, done, eventVars>>

\* Mutant: a failed write leaves its entry in the map.
LeaksEntry(c) ==
  /\ pc[c] = "write" /\ link # "up"
  /\ pc' = [pc EXCEPT ![c] = "returned"]
  /\ ret' = [ret EXCEPT ![c] = "write"]
  /\ UNCHANGED <<nextID, pending, id, ctxDone, chan, wireVars, readVars, done, eventVars>>

WriteFails(c) == pc[c] = "write" /\ link # "up" /\ LeaveWith(c, "write")

\* select picks ctx.Done; the read loop may still route the answer before the delete.
ChooseCtx(c) ==
  /\ pc[c] = "wait" /\ ctxDone[c]
  /\ pc' = [pc EXCEPT ![c] = "cancel"]
  /\ UNCHANGED <<nextID, pending, id, ctxDone, chan, ret, wireVars, readVars, done, eventVars>>

Cancel(c) == pc[c] = "cancel" /\ LeaveWith(c, "ctx")

TakeAnswer(c) ==
  /\ pc[c] = "wait" /\ chan[c] # NoCall
  /\ pc' = [pc EXCEPT ![c] = "returned"]
  /\ ret' = [ret EXCEPT ![c] = "answer"]
  /\ UNCHANGED <<nextID, pending, id, ctxDone, chan, wireVars, readVars, done, eventVars>>

-----------------------------------------------------------------------------
(* subscribe, Session.Close and Client.Close *)

Subscribe(l) ==
  /\ session = "open" /\ l \notin subscribed
  /\ subscribed' = subscribed \cup {l}
  /\ UNCHANGED <<nextID, pending, callVars, wireVars, readVars, done, session, events>>

SessionClose ==
  /\ session = "open"
  /\ session' = "closed" /\ subscribed' = {}
  /\ UNCHANGED <<nextID, pending, callVars, wireVars, readVars, done, events>>

\* waitForEvent takes an event.
Consume(l) ==
  /\ events[l] > 0
  /\ events' = [events EXCEPT ![l] = @ - 1]
  /\ UNCHANGED <<nextID, pending, callVars, wireVars, readVars, done, session, subscribed>>

Close ==
  /\ link # "shut"
  /\ done' = TRUE /\ link' = "shut"
  /\ UNCHANGED <<nextID, pending, callVars, sent, inbound, emitted, readVars, eventVars>>

-----------------------------------------------------------------------------
(* readLoop *)

\* One frame is read; what was received is read even after the connection ended.
\* A ping is answered; it, a pong, an empty frame and one that is not JSON change
\* nothing here and are left out.
ReadFrame ==
  /\ reader = "read" /\ inbound # << >>
  /\ frame' = Head(inbound) /\ inbound' = Tail(inbound)
  /\ reader' = IF Head(inbound) = Event THEN "event" ELSE "answer"
  /\ UNCHANGED <<nextID, pending, callVars, sent, emitted, link, targets, done, eventVars>>

\* Mutant: without the test of ok, the send to a nil channel blocks for ever.
BlocksOnNil ==
  /\ reader = "answer" /\ frame.id \in DOMAIN pending
  /\ targets' = {pending[frame.id]} /\ reader' = "reply"
  /\ pending' = Without(pending, frame.id)
  /\ UNCHANGED <<nextID, callVars, wireVars, frame, done, eventVars>>

\* Under the mutex an answer's channel is looked up and deleted; nobody waits
\* for the answer of a command that was cancelled.  targets keeps the channel.
RouteAnswer ==
  /\ reader = "answer"
  /\ IF frame.id \in DOMAIN pending
       THEN targets' = {pending[frame.id]} /\ reader' = "reply"
       ELSE targets' = {} /\ reader' = "read"
  /\ pending' = Without(pending, frame.id)
  /\ UNCHANGED <<nextID, callVars, wireVars, frame, done, eventVars>>

\* ch <- &msg, on a channel with room for one.
Reply ==
  /\ reader = "reply" /\ \A c \in targets : chan[c] = NoCall
  /\ chan' = [c \in Calls |-> IF c \in targets THEN frame.call ELSE chan[c]]
  /\ reader' = "read" /\ targets' = {}
  /\ UNCHANGED <<nextID, pending, pc, id, ctxDone, ret, wireVars, frame, done, eventVars>>

\* The session's channels are copied under the mutex ...
RouteEvent ==
  /\ reader = "event"
  /\ targets' = subscribed
  /\ reader' = "dispatch"
  /\ UNCHANGED <<nextID, pending, callVars, wireVars, frame, done, eventVars>>

\* ... and sent to without it, dropping the event where the channel is full.
SendEvents(room) ==
  /\ reader = "dispatch"
  /\ events' = [l \in Listeners |->
                  IF l \in targets /\ events[l] < room THEN events[l] + 1 ELSE events[l]]
  /\ reader' = "read" /\ targets' = {}
  /\ UNCHANGED <<nextID, pending, callVars, wireVars, frame, done, session, subscribed>>

\* Mutants: one slot too few in a listener's channel, and no bound on it.
SlotTooFew == SendEvents(EventCap - 1)
Unbounded  == SendEvents(EventCap + MaxEvents)

Dispatch == SendEvents(EventCap)

\* The connection ends, or a frame cannot be read (a close frame, an oversized
\* frame); the deferred function closes c.done and leaves the connection open.
ReadEnds ==
  /\ reader = "read"
  /\ reader' = "ended" /\ done' = TRUE
  /\ UNCHANGED <<nextID, pending, callVars, wireVars, frame, targets, eventVars>>

-----------------------------------------------------------------------------
(* The browser and the requests *)

BrowserAnswers(command) ==
  /\ command \in sent /\ link = "up"
  /\ sent' = sent \ {command}
  /\ inbound' = Append(inbound, command)
  /\ UNCHANGED <<nextID, pending, callVars, emitted, link, readVars, done, eventVars>>

BrowserEmits ==
  /\ link = "up" /\ emitted < MaxEvents
  /\ emitted' = emitted + 1
  /\ inbound' = Append(inbound, Event)
  /\ UNCHANGED <<nextID, pending, callVars, sent, link, readVars, done, eventVars>>

BrowserGone ==
  /\ link = "up"
  /\ link' = "gone"
  /\ UNCHANGED <<nextID, pending, callVars, sent, inbound, emitted, readVars, done, eventVars>>

CtxEnds(c) ==
  /\ pc[c] \notin {"idle", "returned"} /\ ~ctxDone[c]
  /\ ctxDone' = [ctxDone EXCEPT ![c] = TRUE]
  /\ UNCHANGED <<nextID, pending, pc, id, chan, ret, wireVars, readVars, done, eventVars>>

-----------------------------------------------------------------------------
CallStep(c) ==
  WriteFails(c) \/ Write(c) \/ ChooseCtx(c) \/ Cancel(c) \/ TakeAnswer(c)

ReaderStep == ReadFrame \/ RouteAnswer \/ Reply \/ RouteEvent \/ Dispatch

Finished ==
  /\ link = "shut" /\ reader = "ended" /\ \A c \in Calls : pc[c] = "returned"
  /\ UNCHANGED vars

Next ==
  \/ \E c \in Calls : Register(c) \/ CallStep(c) \/ CtxEnds(c)
  \/ \E l \in Listeners : Subscribe(l) \/ Consume(l)
  \/ SessionClose \/ Close
  \/ ReaderStep \/ ReadEnds
  \/ \E command \in sent : BrowserAnswers(command)
  \/ BrowserEmits \/ BrowserGone
  \/ Finished

Spec == Init /\ [][Next]_vars

\* Goroutines run; a read of a connection that has ended returns an error; a
\* browser that is there reads and answers what it is sent (nothing in the client
\* bounds either wait).  Contexts need never end, nobody need call Close, and no
\* event need be emitted.
FairSpec ==
  /\ Spec
  /\ \A c \in Calls : /\ WF_vars(CallStep(c))
                      /\ WF_vars(\E command \in sent : command.call = c /\ BrowserAnswers(command))
  /\ WF_vars(ReaderStep)
  /\ WF_vars(link # "up" /\ inbound = << >> /\ ReadEnds)

-----------------------------------------------------------------------------
(* Properties *)

\* The state is well formed; in particular a listener's channel never holds
\* more than its capacity, however slow its reader is.
TypeOK ==
  /\ nextID \in Nat /\ DOMAIN pending \subseteq 1..nextID
  /\ \A n \in DOMAIN pending : pending[n] \in Calls
  /\ pc \in [Calls -> {"idle", "write", "wait", "cancel", "returned"}]
  /\ id \in [Calls -> 0..nextID] /\ ctxDone \in [Calls -> BOOLEAN]
  /\ chan \in [Calls -> Calls \cup {NoCall}]
  /\ ret \in [Calls -> {"none", "answer", "ctx", "write"}]
  /\ sent \subseteq Command /\ inbound \in Seq(Command \cup {Event})
  /\ emitted \in 0..MaxEvents /\ link \in {"up", "gone", "shut"}
  /\ reader \in {"read", "answer", "reply", "event", "dispatch", "ended"}
  /\ frame \in Command \cup {Event} /\ targets \subseteq Calls \cup Listeners
  /\ done \in BOOLEAN /\ session \in {"open", "closed"}
  /\ subscribed \subseteq Listeners /\ events \in [Listeners -> 0..EventCap]

\* An answer reaches the call whose command it answers, although commands are
\* cancelled and answered late and calls share one connection (readLoop's
\* lookup by id).
RightReply == \A c \in Calls : chan[c] \in {c, NoCall}

\* A call has an entry in c.pending from its registration until its answer is
\* routed or it returns without one: cancelled and failed commands leave
\* nothing behind in a client that lives as long as its browser.
PendingExact ==
  /\ \A n \in DOMAIN pending : id[pending[n]] = n
  /\ \A c \in Calls : id[c] \in DOMAIN pending <=>
       /\ pc[c] \in {"write", "wait", "cancel"} /\ chan[c] = NoCall
       /\ ~(reader = "reply" /\ c \in targets)

\* A command that was written gets its answer, or the client comes to report
\* itself closed (IsClosed), which is what HasCrashed asks: while the browser reads
\* and answers, no send waits for ever on a client that looks healthy.
SendReturnsOrClosed ==
  \A c \in Calls : (pc[c] = "wait") ~> (pc[c] = "returned" \/ done)

\* An event that is on its way when a listener is subscribed reaches the
\* listener, unless the session or the client is closed first: subscribing
\* before navigating is enough for waitForEvent (instance.go).
EventReachesListener ==
  \A l \in Listeners :
    (l \in subscribed /\ Event \in ToSet(inbound))
      ~> (events[l] > 0 \/ session = "closed" \/ reader = "ended")

\* What crosses the connection is read as it was written, at every boundary of the
\* lengths (FramesCross).  Frames have no state, so this is asked while the client
\* has registered no command.
FramesCrossFirst == nextID = 0 => FramesCross
=============================================================================
