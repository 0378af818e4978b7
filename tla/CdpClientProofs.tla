--------------------------- MODULE CdpClientProofs ---------------------------
(***************************************************************************)
(* Proofs about CdpClient for every number of calls, listeners and events: *)
(* an answer reaches its own call, and c.pending holds just the calls that *)
(* wait for one. And about WsFrame, for frames of every length: what is    *)
(* written is read as it was meant, up to the limit.                       *)
(***************************************************************************)
EXTENDS CdpClient, SequenceTheorems, TLAPS

\* The client's state is well formed, and a listener's channel never holds more
\* than its capacity: dispatch drops an event rather than wait.
THEOREM ClientTypes == Spec => []TypeOK
<1> USE CdpAssumption DEF CdpAssumption
<1>0. Event \notin Command
  BY DEF Event, Command
<1>1. Init => TypeOK
  <2> SUFFICES ASSUME Init PROVE TypeOK
    OBVIOUS
  <2>1. DOMAIN pending = {} /\ nextID = 0
    BY DEF Init
  <2>2. inbound \in Seq(Command \cup {Event}) /\ sent = {} /\ emitted = 0 /\ frame = Event
    BY DEF Init
  <2>3. /\ pc \in [Calls -> {"idle", "write", "wait", "cancel", "returned"}]
        /\ id \in [Calls -> 0..nextID] /\ ctxDone \in [Calls -> BOOLEAN]
        /\ chan \in [Calls -> Calls \cup {NoCall}]
        /\ ret \in [Calls -> {"none", "answer", "ctx", "write"}]
    BY <2>1 DEF Init
  <2>4. subscribed \subseteq Listeners /\ events \in [Listeners -> 0..EventCap]
        /\ emitted \in 0..MaxEvents
    BY DEF Init
  <2>5. /\ link = "up" /\ reader = "read" /\ targets = {} /\ done = FALSE /\ session = "open"
    BY DEF Init
  <2>6. /\ nextID \in Nat /\ DOMAIN pending \subseteq 1..nextID
        /\ \A n \in DOMAIN pending : pending[n] \in Calls
    BY <2>1
  <2> QED
    BY <2>2, <2>3, <2>4, <2>5, <2>6 DEF TypeOK
<1>2. ASSUME TypeOK, [Next]_vars PROVE TypeOK'
  <2>0. TypeOK
    BY <1>2
  <2> USE <2>0 DEF TypeOK, vars, callVars, wireVars, readVars, eventVars
  <2>1. ASSUME NEW c \in Calls, Register(c) PROVE TypeOK'
    <3>1. DOMAIN pending' \subseteq 1 .. nextID' /\ nextID' \in Nat
      BY <2>1 DEF Register
    <3>2. \A n \in DOMAIN pending' : pending'[n] \in Calls
      BY <2>1 DEF Register
    <3>3. id' \in [Calls -> 0 .. nextID']
      BY <2>1 DEF Register
    <3> QED
      BY <2>1, <3>1, <3>2, <3>3 DEF Register
  <2>2. ASSUME NEW c \in Calls, NEW value \in {"ctx", "write"}, LeaveWith(c, value) PROVE TypeOK'
    <3>1. /\ DOMAIN pending' \subseteq DOMAIN pending
          /\ \A n \in DOMAIN pending' : pending'[n] = pending[n]
      BY <2>2 DEF LeaveWith, Without
    <3> QED
      BY <2>2, <3>1 DEF LeaveWith
  <2>3. ASSUME NEW c \in Calls, CallStep(c) PROVE TypeOK'
    <3>1. CASE Write(c)
      <4>1. sent' \subseteq Command
        BY <3>1 DEF Write, Command
      <4> QED
        BY <3>1, <4>1 DEF Write
    <3>2. CASE ChooseCtx(c) \/ TakeAnswer(c)
      BY <3>2 DEF ChooseCtx, TakeAnswer
    <3>3. CASE WriteFails(c) \/ Cancel(c)
      BY <2>2, <3>3 DEF WriteFails, Cancel
    <3> QED
      BY <2>3, <3>1, <3>2, <3>3 DEF CallStep
  <2>4. ASSUME NEW c \in Calls, CtxEnds(c) PROVE TypeOK'
    BY <2>4 DEF CtxEnds
  <2>5. ASSUME NEW l \in Listeners, Subscribe(l) \/ Consume(l) PROVE TypeOK'
    BY <2>5 DEF Subscribe, Consume
  <2>6. CASE SessionClose \/ Close
    BY <2>6 DEF SessionClose, Close
  <2>7. CASE ReaderStep
    <3>1. CASE ReadFrame
      <4>1. frame' \in Command \cup {Event} /\ inbound' \in Seq(Command \cup {Event})
        BY <3>1 DEF ReadFrame
      <4> QED
        BY <3>1, <4>1 DEF ReadFrame
    <3>2. CASE RouteAnswer
      <4>1. /\ DOMAIN pending' \subseteq DOMAIN pending
            /\ \A n \in DOMAIN pending' : pending'[n] = pending[n]
        BY <3>2 DEF RouteAnswer, Without
      <4>2. targets' \subseteq Calls /\ reader' \in {"reply", "read"}
        BY <3>2 DEF RouteAnswer
      <4> QED
        BY <3>2, <4>1, <4>2 DEF RouteAnswer
    <3>3. CASE Reply
      <4>1. frame.call \in Calls \cup {NoCall}
        BY DEF Command, Event
      <4>2. chan' \in [Calls -> Calls \cup {NoCall}]
        BY <3>3, <4>1 DEF Reply
      <4> QED
        BY <3>3, <4>2 DEF Reply
    <3>4. CASE RouteEvent
      BY <3>4 DEF RouteEvent
    <3>5. CASE Dispatch
      BY <3>5 DEF Dispatch, SendEvents
    <3> QED
      BY <2>7, <3>1, <3>2, <3>3, <3>4, <3>5 DEF ReaderStep
  <2>8. CASE ReadEnds
    BY <2>8 DEF ReadEnds
  <2>9. ASSUME NEW command \in sent, BrowserAnswers(command) PROVE TypeOK'
    <3>1. inbound' \in Seq(Command \cup {Event})
      BY <2>9 DEF BrowserAnswers
    <3> QED
      BY <2>9, <3>1 DEF BrowserAnswers
  <2>10. CASE BrowserEmits \/ BrowserGone
    <3>1. inbound' \in Seq(Command \cup {Event})
      BY <2>10 DEF BrowserEmits, BrowserGone
    <3> QED
      BY <2>10, <3>1 DEF BrowserEmits, BrowserGone
  <2>11. CASE Finished \/ UNCHANGED vars
    BY <2>11 DEF Finished
  <2> QED
    BY <1>2, <2>1, <2>3, <2>4, <2>5, <2>6, <2>7, <2>8, <2>9, <2>10, <2>11 DEF Next
<1> QED
  BY <1>1, <1>2, PTL DEF Spec

-----------------------------------------------------------------------------
(***************************************************************************)
(* Ids are never given out twice, and an id travels with its command to    *)
(* the browser and back: that is why the lookup by id finds the right call.*)
(***************************************************************************)

\* A frame is an event or carries the id of its own call.
Own(m) == m = Event \/ (m.call \in Calls /\ id[m.call] = m.id /\ m.id # 0)

IdsInv == /\ \A c \in Calls : id[c] = 0 <=> pc[c] = "idle"
          /\ \A c, d \in Calls : id[c] = id[d] /\ id[c] # 0 => c = d

FramesInv == /\ \A m \in sent : Own(m)
             /\ \A i \in 1 .. Len(inbound) : Own(inbound[i])
             /\ reader = "answer" => Own(frame) /\ frame # Event
             /\ reader = "reply" => Own(frame) /\ frame # Event /\ targets = {frame.call}

AnsweredInv == \A c \in Calls : chan[c] # NoCall => id[c] # 0

RouteInv == IdsInv /\ FramesInv /\ AnsweredInv /\ RightReply /\ PendingExact

\* No step takes a number back or gives it to a second call, and what has its
\* call's number keeps it.
LEMMA IdsStep == ASSUME TypeOK, IdsInv, [Next]_vars PROVE IdsInv' /\ \A m : Own(m) => Own(m)'
<1> USE DEF IdsInv
<1>0. id \in [Calls -> 0..nextID] /\ nextID \in Nat
      /\ pc \in [Calls -> {"idle", "write", "wait", "cancel", "returned"}]
  BY DEF TypeOK
<1>1. ASSUME NEW c \in Calls, Register(c) PROVE IdsInv' /\ \A m : Own(m) => Own(m)'
  <2>1. /\ id' = [id EXCEPT ![c] = nextID + 1] /\ pc[c] = "idle" /\ pc' = [pc EXCEPT ![c] = "write"]
    BY <1>1 DEF Register
  <2>2. \A d \in Calls : id'[d] = IF d = c THEN nextID + 1 ELSE id[d]
    BY <1>0, <2>1
  <2>3. \A d \in Calls : id[d] \in 0..nextID
    BY <1>0
  <2>4. \A d \in Calls : pc'[d] = IF d = c THEN "write" ELSE pc[d]
    BY <1>0, <2>1
  <2>5. IdsInv'
    BY <1>0, <2>2, <2>3, <2>4
  <2>6. ASSUME NEW m, Own(m) PROVE Own(m)'
    BY <2>1, <2>2, <2>6 DEF Own
  <2> QED
    BY <2>5, <2>6
<1>2. ASSUME UNCHANGED id, \A c \in Calls : pc[c] = "idle" <=> pc'[c] = "idle"
      PROVE  IdsInv' /\ \A m : Own(m) => Own(m)'
  BY <1>2 DEF Own
<1>3. ASSUME NEW c \in Calls, CallStep(c) PROVE IdsInv' /\ \A m : Own(m) => Own(m)'
  BY <1>0, <1>2, <1>3 DEF CallStep, Write, WriteFails, ChooseCtx, Cancel, TakeAnswer, LeaveWith
<1>4. ASSUME NEW c \in Calls, CtxEnds(c) PROVE IdsInv' /\ \A m : Own(m) => Own(m)'
  BY <1>2, <1>4 DEF CtxEnds
<1>5. CASE ReaderStep \/ ReadEnds
  BY <1>2, <1>5 DEF ReaderStep, ReadFrame, RouteAnswer, Reply, RouteEvent, Dispatch, SendEvents,
       ReadEnds, callVars
<1>6. CASE UNCHANGED callVars
  BY <1>2, <1>6 DEF callVars
<1>7. SessionClose \/ Close \/ BrowserEmits \/ BrowserGone \/ Finished \/ UNCHANGED vars
        \/ (\E l \in Listeners : Subscribe(l) \/ Consume(l))
        \/ (\E command \in sent : BrowserAnswers(command))
      => UNCHANGED callVars
  BY DEF SessionClose, Close, BrowserEmits, BrowserGone, Finished, Subscribe, Consume,
         BrowserAnswers, vars
<1> QED
  BY <1>1, <1>3, <1>4, <1>5, <1>6, <1>7 DEF Next

\* The commands at the browser and the frames on their way keep their calls' ids.
LEMMA FramesStep ==
  ASSUME TypeOK, RouteInv, [Next]_vars, \A m : Own(m) => Own(m)' PROVE FramesInv'
<1> USE DEF FramesInv
<1>0. FramesInv /\ IdsInv /\ PendingExact /\ inbound \in Seq(Command \cup {Event})
  BY DEF RouteInv, TypeOK
<1> USE <1>0
<1>1. ASSUME NEW c \in Calls, Write(c) PROVE FramesInv'
  <2>1. Own([id |-> id[c], call |-> c])
    BY <1>1 DEF Write, IdsInv, Own
  <2>2. \A m \in sent' : m \in sent \/ m = [id |-> id[c], call |-> c]
    BY <1>1 DEF Write
  <2>3. UNCHANGED <<inbound, readVars>>
    BY <1>1 DEF Write
  <2> QED
    BY <2>1, <2>2, <2>3 DEF readVars
<1>2. CASE ReadFrame
  <2>1. /\ inbound # << >> /\ inbound' = Tail(inbound) /\ frame' = Head(inbound)
        /\ UNCHANGED sent
        /\ reader' = IF Head(inbound) = Event THEN "event" ELSE "answer"
    BY <1>2 DEF ReadFrame
  <2>2. \A i \in 1 .. Len(inbound') : i + 1 \in 1 .. Len(inbound) /\ inbound'[i] = inbound[i + 1]
    BY <2>1
  <2>3. Head(inbound) = inbound[1] /\ 1 \in 1 .. Len(inbound)
    BY <2>1
  <2> QED
    BY <2>1, <2>2, <2>3
<1>3. CASE RouteAnswer
  <2>1. /\ reader = "answer" /\ UNCHANGED <<sent, inbound, frame>> /\ reader' \in {"reply", "read"}
        /\ reader' = "reply" => frame.id \in DOMAIN pending /\ targets' = {pending[frame.id]}
    BY <1>3 DEF RouteAnswer, wireVars
  <2>2. frame.id \in DOMAIN pending => pending[frame.id] = frame.call
    <3>1. Own(frame) /\ frame # Event
      BY <2>1
    <3> QED
      BY <3>1 DEF Own, IdsInv, PendingExact, TypeOK
  <2> QED
    BY <2>1, <2>2
<1>4. ASSUME NEW m, Own(m), inbound' = Append(inbound, m), m \in Command \cup {Event},
             sent' \subseteq sent, UNCHANGED readVars
      PROVE  FramesInv'
  <2>1. \A i \in 1 .. Len(inbound') : inbound'[i] = m \/ (i \in 1 .. Len(inbound) /\ inbound'[i] = inbound[i])
    BY <1>4
  <2> QED
    BY <1>4, <2>1 DEF readVars
<1>5. ASSUME NEW command \in sent, BrowserAnswers(command) PROVE FramesInv'
  BY <1>4, <1>5 DEF BrowserAnswers, TypeOK
<1>6. CASE BrowserEmits
  BY <1>4, <1>6 DEF BrowserEmits, Own
<1>7. CASE UNCHANGED <<sent, inbound, frame>> /\ reader' \in {"read", "event", "dispatch", "ended"}
  BY <1>7
<1>8. CASE UNCHANGED <<sent, inbound, readVars>>
  BY <1>8 DEF readVars
<1>9. Reply \/ RouteEvent \/ Dispatch \/ ReadEnds
        => UNCHANGED <<sent, inbound, frame>> /\ reader' \in {"read", "event", "dispatch", "ended"}
  BY DEF Reply, RouteEvent, Dispatch, SendEvents, ReadEnds, wireVars
<1>10. ASSUME NEW c \in Calls PROVE Register(c) \/ CtxEnds(c) \/ (CallStep(c) /\ ~Write(c))
         => UNCHANGED <<sent, inbound, readVars>>
  BY DEF Register, CtxEnds, CallStep, WriteFails, ChooseCtx, Cancel, TakeAnswer, LeaveWith, wireVars
<1>11. SessionClose \/ Close \/ BrowserGone \/ Finished \/ UNCHANGED vars
         \/ (\E l \in Listeners : Subscribe(l) \/ Consume(l))
       => UNCHANGED <<sent, inbound, readVars>>
  BY DEF SessionClose, Close, BrowserGone, Finished, Subscribe, Consume, vars, wireVars
<1> QED
  BY <1>1, <1>2, <1>3, <1>5, <1>6, <1>7, <1>8, <1>9, <1>10, <1>11 DEF Next, ReaderStep

\* What PendingExact says of one call.
Waits(c) == /\ pc[c] \in {"write", "wait", "cancel"} /\ chan[c] = NoCall
            /\ ~(reader = "reply" /\ c \in targets)

\* The map changes only with the call it is about: when it registers, leaves or is answered.
LEMMA PendingStep ==
  ASSUME TypeOK, RouteInv, IdsInv', [Next]_vars PROVE AnsweredInv' /\ RightReply' /\ PendingExact'
<1>0. /\ pc \in [Calls -> {"idle", "write", "wait", "cancel", "returned"}]
      /\ id \in [Calls -> 0..nextID] /\ nextID \in Nat
      /\ chan \in [Calls -> Calls \cup {NoCall}] /\ NoCall \notin Calls
      /\ DOMAIN pending \subseteq 1..nextID
      /\ \A n \in DOMAIN pending : pending[n] \in Calls /\ id[pending[n]] = n
      /\ \A c \in Calls : chan[c] \in {c, NoCall}
      /\ \A c \in Calls : id[c] \in DOMAIN pending <=> Waits(c)
      /\ \A c \in Calls : chan[c] # NoCall => id[c] # 0
  BY CdpAssumption DEF TypeOK, RouteInv, PendingExact, RightReply, AnsweredInv, Waits, CdpAssumption
<1>1. ASSUME UNCHANGED <<chan, id>>, DOMAIN pending' \subseteq DOMAIN pending,
             \A n \in DOMAIN pending' : pending'[n] = pending[n],
             \A c \in Calls : id[c] \in DOMAIN pending' <=> Waits(c)'
      PROVE  AnsweredInv' /\ RightReply' /\ PendingExact'
  BY <1>0, <1>1 DEF AnsweredInv, RightReply, PendingExact, Waits
<1>2. ASSUME NEW c \in Calls, Register(c) PROVE AnsweredInv' /\ RightReply' /\ PendingExact'
  <2>1. /\ nextID' = nextID + 1 /\ id' = [id EXCEPT ![c] = nextID + 1] /\ pc[c] = "idle"
        /\ pc' = [pc EXCEPT ![c] = "write"] /\ UNCHANGED <<chan, reader, targets>>
        /\ DOMAIN pending' = DOMAIN pending \cup {nextID + 1}
        /\ pending'[nextID + 1] = c
        /\ \A n \in DOMAIN pending : n # nextID + 1 => pending'[n] = pending[n]
    BY <1>2 DEF Register, readVars
  <2>2. \A n \in DOMAIN pending : n # nextID + 1 /\ pending[n] # c
    BY <1>0, <2>1 DEF RouteInv, IdsInv
  <2>3. \A d \in Calls : id[d] # nextID + 1
    BY <1>0
  <2>4. \A d \in Calls \ {c} : id'[d] = id[d] /\ pc'[d] = pc[d]
    BY <1>0, <2>1
  <2>5. id'[c] = nextID + 1 /\ pc'[c] = "write"
    BY <1>0, <2>1
  <2>6. chan[c] = NoCall /\ ~(reader = "reply" /\ c \in targets)
    <3>1. id[c] = 0
      BY <2>1 DEF RouteInv, IdsInv
    <3>2. chan[c] = NoCall
      BY <1>0, <3>1
    <3>3. reader = "reply" /\ c \in targets => id[c] # 0
      BY DEF RouteInv, FramesInv, Own
    <3> QED
      BY <3>1, <3>2, <3>3
  <2>7. ASSUME NEW d \in Calls PROVE id'[d] \in DOMAIN pending' <=> Waits(d)'
    <3>1. CASE d = c
      BY <2>1, <2>5, <2>6, <3>1 DEF Waits
    <3>2. CASE d # c
      BY <1>0, <2>1, <2>3, <2>4, <3>2 DEF Waits
    <3> QED
      BY <3>1, <3>2
  <2>8. \A n \in DOMAIN pending' : id'[pending'[n]] = n
    BY <1>0, <2>1, <2>2, <2>4, <2>5
  <2>9. AnsweredInv' /\ RightReply'
    BY <1>0, <2>1, <2>4, <2>6 DEF AnsweredInv, RightReply
  <2> QED
    BY <2>7, <2>8, <2>9 DEF AnsweredInv, RightReply, PendingExact, Waits
<1>3. ASSUME NEW c \in Calls, NEW value, pc[c] \in {"write", "cancel"}, LeaveWith(c, value)
      PROVE  AnsweredInv' /\ RightReply' /\ PendingExact'
  <2>1. /\ DOMAIN pending' = DOMAIN pending \ {id[c]} /\ UNCHANGED <<id, chan, reader, targets>>
        /\ \A n \in DOMAIN pending' : pending'[n] = pending[n]
        /\ pc' = [pc EXCEPT ![c] = "returned"]
    BY <1>3 DEF LeaveWith, Without, readVars
  <2>2. ASSUME NEW d \in Calls PROVE id[d] \in DOMAIN pending' <=> Waits(d)'
    <3>1. CASE d = c
      BY <1>0, <2>1, <3>1 DEF Waits
    <3>2. CASE d # c
      <4>1. id[d] # id[c]
        BY <1>3, <3>2 DEF RouteInv, IdsInv
      <4> QED
        BY <1>0, <2>1, <3>2, <4>1 DEF Waits
    <3> QED
      BY <3>1, <3>2
  <2> QED
    BY <1>1, <2>1, <2>2
<1>4. ASSUME NEW c \in Calls, CallStep(c) PROVE AnsweredInv' /\ RightReply' /\ PendingExact'
  <2>1. CASE WriteFails(c) \/ Cancel(c)
    BY <1>3, <2>1 DEF WriteFails, Cancel
  <2>2. CASE Write(c) \/ ChooseCtx(c)
    <3>1. /\ UNCHANGED <<pending, id, chan, reader, targets>> /\ pc[c] \in {"write", "wait"}
          /\ \E label \in {"wait", "cancel"} : pc' = [pc EXCEPT ![c] = label]
      BY <2>2 DEF Write, ChooseCtx, readVars
    <3>2. \A d \in Calls : Waits(d) <=> Waits(d)'
      BY <1>0, <3>1 DEF Waits
    <3> QED
      BY <1>0, <1>1, <3>1, <3>2
  <2>3. CASE TakeAnswer(c)
    <3>1. /\ UNCHANGED <<pending, id, chan, reader, targets>> /\ chan[c] # NoCall
          /\ pc' = [pc EXCEPT ![c] = "returned"]
      BY <2>3 DEF TakeAnswer, readVars
    <3>2. \A d \in Calls : Waits(d) <=> Waits(d)'
      BY <1>0, <3>1 DEF Waits
    <3> QED
      BY <1>0, <1>1, <3>1, <3>2
  <2> QED
    BY <1>4, <2>1, <2>2, <2>3 DEF CallStep
<1>5. CASE RouteAnswer
  <2>1. /\ reader = "answer" /\ UNCHANGED <<id, pc, chan>>
        /\ DOMAIN pending' = DOMAIN pending \ {frame.id}
        /\ \A n \in DOMAIN pending' : pending'[n] = pending[n]
        /\ IF frame.id \in DOMAIN pending
             THEN targets' = {pending[frame.id]} /\ reader' = "reply"
             ELSE targets' = {} /\ reader' = "read"
    BY <1>5 DEF RouteAnswer, Without, callVars
  <2>2. ASSUME NEW d \in Calls PROVE id[d] \in DOMAIN pending' <=> Waits(d)'
    <3>1. CASE frame.id \in DOMAIN pending
      <4>1. d = pending[frame.id] <=> id[d] = frame.id
        BY <1>0, <3>1 DEF RouteInv, IdsInv
      <4> QED
        BY <1>0, <2>1, <3>1, <4>1 DEF Waits
    <3>2. CASE frame.id \notin DOMAIN pending
      BY <1>0, <2>1, <3>2 DEF Waits
    <3> QED
      BY <3>1, <3>2
  <2> QED
    BY <1>1, <2>1, <2>2
<1>6. CASE Reply
  <2>1. /\ reader = "reply" /\ UNCHANGED <<pending, id, pc>> /\ reader' = "read"
        /\ chan' = [c \in Calls |-> IF c \in targets THEN frame.call ELSE chan[c]]
    BY <1>6 DEF Reply
  <2>2. targets = {frame.call} /\ frame.call \in Calls /\ id[frame.call] # 0
    BY <2>1 DEF RouteInv, FramesInv, Own
  <2>3. \A c \in Calls : chan'[c] = IF c = frame.call THEN c ELSE chan[c]
    BY <2>1, <2>2
  <2>4. AnsweredInv' /\ RightReply'
    BY <1>0, <2>1, <2>2, <2>3 DEF AnsweredInv, RightReply
  <2>5. \A c \in Calls : Waits(c) <=> Waits(c)'
    BY <1>0, <2>1, <2>2, <2>3 DEF Waits
  <2> QED
    BY <1>0, <2>1, <2>4, <2>5 DEF PendingExact, Waits
<1>7. CASE ReadFrame \/ RouteEvent \/ Dispatch \/ ReadEnds
  <2>1. UNCHANGED <<pending, id, pc, chan>> /\ reader # "reply" /\ reader' # "reply"
    BY <1>7 DEF ReadFrame, RouteEvent, Dispatch, SendEvents, ReadEnds, callVars
  <2>2. \A c \in Calls : Waits(c) <=> Waits(c)'
    BY <2>1 DEF Waits
  <2> QED
    BY <1>0, <1>1, <2>1, <2>2
<1>8. CASE UNCHANGED <<pending, id, pc, chan, reader, targets>>
  <2>1. \A c \in Calls : Waits(c) <=> Waits(c)'
    BY <1>8 DEF Waits
  <2> QED
    BY <1>0, <1>1, <1>8, <2>1
<1>9. ASSUME NEW c \in Calls PROVE CtxEnds(c) => UNCHANGED <<pending, id, pc, chan, reader, targets>>
  BY DEF CtxEnds, readVars
<1>10. SessionClose \/ Close \/ BrowserEmits \/ BrowserGone \/ Finished \/ UNCHANGED vars
         \/ (\E l \in Listeners : Subscribe(l) \/ Consume(l))
         \/ (\E command \in sent : BrowserAnswers(command))
       => UNCHANGED <<pending, id, pc, chan, reader, targets>>
  BY DEF SessionClose, Close, BrowserEmits, BrowserGone, Finished, Subscribe, Consume,
         BrowserAnswers, vars, callVars, readVars
<1> QED
  BY <1>2, <1>4, <1>5, <1>6, <1>7, <1>8, <1>9, <1>10 DEF Next, ReaderStep

\* Ids, frames and pending entries agree at all times.
LEMMA RouteInvAlways == Spec => []RouteInv
<1>1. Init => RouteInv
  <2> SUFFICES ASSUME Init PROVE RouteInv
    OBVIOUS
  <2>1. /\ \A c \in Calls : id[c] = 0 /\ pc[c] = "idle" /\ chan[c] = NoCall
        /\ sent = {} /\ inbound = << >> /\ reader = "read"
    BY DEF Init
  <2>2. DOMAIN pending = {}
    BY DEF Init
  <2> QED
    BY <2>1, <2>2 DEF RouteInv, IdsInv, FramesInv, AnsweredInv, RightReply, PendingExact
<1>2. TypeOK /\ RouteInv /\ [Next]_vars => RouteInv'
  BY IdsStep, FramesStep, PendingStep DEF RouteInv
<1> QED
  BY <1>1, <1>2, ClientTypes, PTL DEF Spec

\* An answer reaches the call whose command it answers, whatever was cancelled meanwhile.
THEOREM AnswersReachTheirCall == Spec => []RightReply
<1>1. RouteInv => RightReply
  BY DEF RouteInv
<1> QED
  BY <1>1, RouteInvAlways, PTL

\* c.pending has an entry for just the calls that wait for their answer.
THEOREM PendingIsExact == Spec => []PendingExact
<1>1. RouteInv => PendingExact
  BY DEF RouteInv
<1> QED
  BY <1>1, RouteInvAlways, PTL

-----------------------------------------------------------------------------
(* The frames *)

\* A sequence that begins with two elements and an extension: its parts.
LEMMA Parts ==
  ASSUME NEW S, NEW a \in S, NEW b \in S, NEW ext \in Seq(S), NEW rest \in Seq(S), NEW s,
         s = <<a, b>> \o ext \o rest
  PROVE  /\ s \in Seq(S) /\ Len(s) = 2 + Len(ext) + Len(rest) /\ s[1] = a /\ s[2] = b
         /\ SubSeq(s, 3, 2 + Len(ext)) = ext
         /\ SubSeq(s, 3 + Len(ext), Len(s)) = rest
<1> DEFINE h == <<a, b>> \o ext
<1>1. <<a, b>> \in Seq(S) /\ Len(<<a, b>>) = 2 /\ Len(ext) \in Nat /\ Len(rest) \in Nat
  BY SMT
<1>2. /\ h \in Seq(S) /\ Len(h) = 2 + Len(ext) /\ h[1] = a /\ h[2] = b
      /\ \A i \in 1 .. Len(ext) : h[2 + i] = ext[i]
  BY <1>1, ConcatProperties, SMT
<1> HIDE DEF h
<1>3. s = h \o rest
  BY DEF h
<1>4. /\ s \in Seq(S) /\ Len(s) = Len(h) + Len(rest)
      /\ \A i \in 1 .. Len(h) : s[i] = h[i]
      /\ \A i \in 1 .. Len(rest) : s[Len(h) + i] = rest[i]
  BY <1>1, <1>2, <1>3, ConcatProperties, SMT
<1>5. \A i \in 1 .. Len(s) : s[i] \in S
  BY <1>4, ElementOfSeq
<1>6. SubSeq(s, 3, 2 + Len(ext)) = ext
  <2>1. /\ SubSeq(s, 3, 2 + Len(ext)) \in Seq(S) /\ Len(SubSeq(s, 3, 2 + Len(ext))) = Len(ext)
        /\ \A i \in 1 .. Len(ext) : SubSeq(s, 3, 2 + Len(ext))[i] = s[2 + i]
    BY <1>1, <1>2, <1>4, <1>5, SubSeqProperties, SMT
  <2> QED
    BY <1>1, <1>2, <1>4, <2>1, SeqEqual, SMT
<1>7. SubSeq(s, 3 + Len(ext), Len(s)) = rest
  <2> DEFINE t == SubSeq(s, 3 + Len(ext), Len(s))
  <2>1. /\ t \in Seq(S) /\ Len(t) = Len(rest)
        /\ \A i \in 1 .. Len(rest) : t[i] = s[2 + Len(ext) + i]
    BY <1>1, <1>2, <1>4, <1>5, SubSeqProperties, SMT
  <2> QED
    BY <1>1, <1>2, <1>4, <2>1, SeqEqual, SMT
<1> QED
  BY <1>1, <1>2, <1>4, <1>6, <1>7, SMT

\* Two sequences of one element, put together.
LEMMA Pair == ASSUME NEW S, NEW a \in S, NEW b \in S PROVE <<a>> \o <<b>> = <<a, b>>
<1> DEFINE s == <<a>> \o <<b>>
<1>1. /\ <<a>> \in Seq(S) /\ <<b>> \in Seq(S) /\ <<a, b>> \in Seq(S)
      /\ Len(<<a>>) = 1 /\ Len(<<b>>) = 1 /\ Len(<<a, b>>) = 2
  BY SMT
<1>2. s \in Seq(S) /\ Len(s) = 2 /\ s[1] = a
  BY <1>1, ConcatProperties, SMT
<1>3. s[2] = <<b>>[2 - Len(<<a>>)]
  BY <1>1, ConcatProperties, 2 \in 1 .. Len(<<a>>) + Len(<<b>>), ~(2 <= Len(<<a>>)), Zenon
<1>4. 2 - Len(<<a>>) = 1
  BY <1>1, SMT
<1>5. \A i \in 1 .. 2 : s[i] = <<a, b>>[i]
  BY <1>2, <1>3, <1>4, SMT
<1> HIDE DEF s
<1>6. s = <<a, b>>
  BY <1>1, <1>2, <1>5, SeqEqual, SMT
<1> QED
  BY <1>6 DEF s

\* Two sequences of two elements, put together.
LEMMA Pairs ==
  ASSUME NEW S, NEW a \in S, NEW b \in S, NEW c \in S, NEW d \in S
  PROVE  <<a, b>> \o <<c, d>> = <<a, b, c, d>>
<1> DEFINE s == <<a, b>> \o <<c, d>>
<1>1. /\ <<a, b>> \in Seq(S) /\ <<c, d>> \in Seq(S) /\ <<a, b, c, d>> \in Seq(S)
      /\ Len(<<a, b>>) = 2 /\ Len(<<c, d>>) = 2 /\ Len(<<a, b, c, d>>) = 4
  BY SMT
<1>2. s \in Seq(S) /\ Len(s) = 4 /\ s[1] = a /\ s[2] = b
  BY <1>1, ConcatProperties, SMT
<1>3. \A i \in {3, 4} : s[i] = <<c, d>>[i - Len(<<a, b>>)]
  <2>1. \A i \in {3, 4} : i \in 1 .. Len(<<a, b>>) + Len(<<c, d>>) /\ ~(i <= Len(<<a, b>>))
    BY <1>1, SMT
  <2> QED
    BY <1>1, <2>1, ConcatProperties, Zenon
<1>4. 3 - Len(<<a, b>>) = 1 /\ 4 - Len(<<a, b>>) = 2
  BY <1>1, SMT
<1>5. s[3] = <<c, d>>[1] /\ s[4] = <<c, d>>[2]
  BY <1>3, <1>4, Zenon
<1>6. \A i \in 1 .. 4 : s[i] = <<a, b, c, d>>[i]
  BY <1>2, <1>5, SMT
<1> HIDE DEF s
<1>7. s = <<a, b, c, d>>
  BY <1>1, <1>2, <1>6, SeqEqual, SMT
<1> QED
  BY <1>7 DEF s

\* The first element of a sequence, and the others.
LEMMA FirstOf ==
  ASSUME NEW S, NEW a \in S, NEW rest \in Seq(S)
  PROVE  /\ <<a>> \o rest # << >> /\ Head(<<a>> \o rest) = a /\ Tail(<<a>> \o rest) = rest
         /\ <<a>> \o rest \in Seq(S)
BY SMT

\* A pair is a sequence of two.
LEMMA Tuple2 ==
  ASSUME NEW S, NEW a \in S, NEW b \in S, NEW s, s = <<a, b>>
  PROVE  s \in Seq(S) /\ Len(s) = 2
BY SMT

\* Eight elements are a sequence of eight.
LEMMA Tuple8 ==
  ASSUME NEW S, NEW a \in S, NEW b \in S, NEW c \in S, NEW d \in S, NEW e \in S, NEW f \in S,
         NEW g \in S, NEW h \in S, NEW s, s = <<a, b, c, d, e, f, g, h>>
  PROVE  s \in Seq(S) /\ Len(s) = 8
BY SMT

\* A number is its low byte and what is above it.
LEMMA Div256 ==
  ASSUME NEW n \in Nat
  PROVE  n \div 256 \in Nat /\ n % 256 \in Nat /\ (n % 256) < 256 /\ n = 256 * (n \div 256) + (n % 256)
<1>1. n \div 256 \in Nat
  BY SMT
<1>2. n % 256 \in Nat /\ (n % 256) < 256
  BY SMT
<1>3. n = 256 * (n \div 256) + (n % 256)
  BY SMT
<1> QED
  BY <1>1, <1>2, <1>3, SMT

\* Two bytes hold every length below 65536: what PutUint16 writes is read back.
LEMMA Bytes16 == ASSUME NEW n \in Nat, n < 65536
 PROVE Value16(Uint16(n)) = n /\ Uint16(n) \in Seq(Nat) /\ Len(Uint16(n)) = 2
<1> DEFINE q == n \div 256  r == n % 256
<1>1. q \in Nat /\ r \in Nat /\ r < 256 /\ n = 256 * q + r
  BY Div256, SMT
<1>2. n \div 1 = n
  BY SMT
<1> HIDE DEF q, r
<1>3. q \in Nat /\ q < 256
  BY <1>1, SMT
<1>4. q % 256 = q
  BY <1>3, SMT
<1>5. Uint16(n) = <<q, r>>
  BY <1>2, <1>4, SMT DEF Uint16, Byte, q, r
<1>6. Uint16(n) \in Seq(Nat) /\ Len(Uint16(n)) = 2
  <2>1. q \in Nat /\ r \in Nat
    BY <1>1
  <2> QED
    BY <2>1, <1>5, Tuple2, SMT
<1>7. Value16(Uint16(n)) = n
  BY <1>1, <1>5, SMT DEF Value16
<1> QED
  BY <1>6, <1>7, SMT

\* Eight bytes hold every length: what PutUint64 writes is read back, is no negative
\* int, and is over the limit when the length is.
LEMMA Bytes64 == ASSUME NEW n \in Nat, n <= MaxLength
 PROVE /\ Value64(Uint64(n)) = n /\ Uint64(n) \in Seq(Nat) /\ Len(Uint64(n)) = 8
       /\ ~Negative(Uint64(n)) /\ (Over(Uint64(n)) <=> n > maxWSFrameSize)
<1> DEFINE q1 == n \div 256  q2 == n \div 65536  q3 == n \div 16777216
           r0 == n % 256 r1 == q1 % 256 r2 == q2 % 256
<1>1. q1 \in Nat /\ r0 \in Nat /\ r0 < 256 /\ n = 256 * q1 + r0
  BY Div256, SMT
<1>2. n \div 1 = n /\ q2 = q1 \div 256 /\ q3 = q2 \div 256
  <2>1. n \div 1 = n
    BY SMT
  <2>2. q2 = q1 \div 256
    BY SMT
  <2>3. q3 = q2 \div 256
    BY SMT
  <2> QED
    BY <2>1, <2>2, <2>3, SMT
<1> HIDE DEF q1
<1>3. q1 = 256 * q2 + r1 /\ q2 \in Nat /\ r1 \in Nat /\ r1 < 256
  BY <1>1, <1>2, Div256, SMT
<1> HIDE DEF q2, r1
<1>4. q2 = 256 * q3 + r2 /\ q3 \in Nat /\ r2 \in Nat /\ r2 < 256
  BY <1>2, <1>3, Div256, SMT
<1> HIDE DEF q3, r0, r2
<1>5. n = 16777216 * q3 + 65536 * r2 + 256 * r1 + r0 /\ q3 < 128
  BY <1>1, <1>3, <1>4, SMT DEF MaxLength
<1>6. q3 % 256 = q3
  BY <1>4, <1>5, SMT
<1>7. Byte(1, n) = r0 /\ Byte(256, n) = r1 /\ Byte(65536, n) = r2 /\ Byte(16777216, n) = q3
  BY <1>2, <1>6, SMT DEF Byte, q1, q2, q3, r0, r1, r2
<1>8. Uint64(n) = <<0, 0, 0, 0, q3, r2, r1, r0>>
  BY <1>7, SMT DEF Uint64
<1>9. Over(Uint64(n)) <=> n > maxWSFrameSize
  BY <1>1, <1>3, <1>4, <1>5, <1>8, SMT DEF Negative, Over, maxWSFrameSize
<1>10. Uint64(n) \in Seq(Nat) /\ Len(Uint64(n)) = 8
  <2>1. q3 \in Nat /\ r2 \in Nat /\ r1 \in Nat /\ r0 \in Nat /\ 0 \in Nat
    BY <1>1, <1>3, <1>4, SMT
  <2> QED
    BY <2>1, <1>8, Tuple8, Zenon
<1>11. Value64(Uint64(n)) = n
  BY <1>1, <1>3, <1>4, <1>5, <1>8, SMTT(30) DEF Value64
<1>12. ~Negative(Uint64(n))
  BY <1>8, SMT DEF Negative
<1> QED
  BY <1>9, <1>10, <1>11, <1>12

\* A sequence that begins with two elements: the first, and the others.
LEMMA SecondOf ==
  ASSUME NEW S, NEW a \in S, NEW b \in S, NEW rest \in Seq(S)
  PROVE  /\ <<a, b>> \o rest # << >> /\ Head(<<a, b>> \o rest) = a
         /\ Tail(<<a, b>> \o rest) = <<b>> \o rest
<1>1. <<a>> \in Seq(S) /\ <<b>> \in Seq(S)
  BY SMT
<1>2. <<a, b>> \o rest = <<a>> \o (<<b>> \o rest)
  <2>1. <<a>> \o <<b>> = <<a, b>>
    BY Pair
  <2>2. (<<a>> \o <<b>>) \o rest = <<a>> \o (<<b>> \o rest)
    BY <1>1, ConcatAssociative
  <2> QED
    BY <2>1, <2>2
<1>3. <<b>> \o rest \in Seq(S)
  BY FirstOf
<1> QED
  BY <1>2, <1>3, FirstOf

\* A frame read whole: its payload, and what was next. A close frame ends the reading.
Whole(op, text, length, next) ==
  IF op = 8 THEN Error ELSE [op |-> op, length |-> length, text |-> text, rest |-> next]

\* A payload written with its mask, or with none, is read as it was written, and what
\* is next on the stream is left there.
LEMMA RestIsRead ==
  ASSUME NEW S, NEW op, NEW text, NEW length, NEW next \in Seq(S), NEW mask \in Masks,
         mask \in S, Payload(text, length, mask) \in S
  PROVE  Rest(op, mask # NoMask, length, Following(text, length, mask) \o next)
           = Whole(op, text, length, next)
<1> DEFINE P == Payload(text, length, mask)
           s == Following(text, length, mask) \o next
<1>1. P.length = length /\ P.text = text /\ P.mask = mask
  BY DEF Payload
<1> HIDE DEF P
<1>2. P \in S
  BY DEF P
<1>3. CASE mask = NoMask
  <2>1. s = <<P>> \o next
    BY <1>3 DEF Following, P
  <2>2. s # << >> /\ Head(s) = P /\ Tail(s) = next
    BY <1>2, <2>1, FirstOf
  <2> HIDE DEF s
  <2>3. Rest(op, mask # NoMask, length, s) = Whole(op, text, length, next)
    BY <1>1, <1>3, <2>2 DEF Rest, Whole
  <2> QED
    BY <2>3 DEF s
<1>4. CASE mask # NoMask
  <2>1. s = <<mask, P>> \o next
    BY <1>4 DEF Following, P
  <2>2. s # << >> /\ Head(s) = mask /\ Tail(s) = <<P>> \o next
    BY <1>2, <2>1, SecondOf
  <2>3. <<P>> \o next # << >> /\ Head(<<P>> \o next) = P /\ Tail(<<P>> \o next) = next
    BY <1>2, FirstOf
  <2> HIDE DEF s
  <2>4. Rest(op, mask # NoMask, length, s) = Whole(op, text, length, next)
    BY <1>1, <1>4, <2>2, <2>3 DEF Rest, Whole
  <2> QED
    BY <2>4 DEF s
<1> QED
  BY <1>3, <1>4

\* The ways to write a length.
LEMMA FormCases ==
  ASSUME NEW length, NEW form \in Forms(length)
  PROVE  \/ length < 126 /\ form[1] = length /\ form[2] = << >>
         \/ length < 65536 /\ form[1] = 126 /\ form[2] = Uint16(length)
         \/ form[1] = 127 /\ form[2] = Uint64(length)
<1>1. \A a, b : <<a, b>>[1] = a /\ <<a, b>>[2] = b
  OBVIOUS
<1>2. \/ length < 126 /\ form = <<length, << >> >>
      \/ length < 65536 /\ form = <<126, Uint16(length)>>
      \/ form = <<127, Uint64(length)>>
  BY SMT DEF Forms
<1> QED
  BY <1>1, <1>2, SMT

\* Each way has the bytes after the header that its code announces, and is read as
\* the length it was written for, or refused when that is over the limit.
LEMMA FormIs ==
  ASSUME NEW length \in Nat, length <= MaxLength, NEW form \in Forms(length)
  PROVE  /\ form[1] \in Nat /\ form[1] < 128 /\ form[2] \in Seq(Nat) /\ Len(form[2]) = ExtLen(form[1])
         /\ \A op, masked, after :
              Extended(op, masked, form[1], form[2], after)
                = IF length <= maxWSFrameSize THEN Rest(op, masked, length, after) ELSE Error
<1>1. CASE length < 126 /\ form[1] = length /\ form[2] = << >>
  <2>1. /\ form[1] \in Nat /\ form[1] < 128 /\ form[2] \in Seq(Nat) /\ Len(form[2]) = 0
        /\ length <= maxWSFrameSize
    BY <1>1, SMT DEF maxWSFrameSize
  <2>2. form[1] # 126 /\ form[1] # 127
    BY <1>1, SMT
  <2> QED
    BY <1>1, <2>1, <2>2 DEF ExtLen, Extended
<1>2. CASE length < 65536 /\ form[1] = 126 /\ form[2] = Uint16(length)
  <2>1. Value16(form[2]) = length /\ form[2] \in Seq(Nat) /\ Len(form[2]) = 2
    BY <1>2, Bytes16
  <2>2. form[1] \in Nat /\ form[1] < 128 /\ length <= maxWSFrameSize
    BY <1>2, SMT DEF maxWSFrameSize
  <2>3. form[1] = 126
    BY <1>2
  <2> QED
    BY <2>1, <2>2, <2>3 DEF ExtLen, Extended
<1>3. CASE form[1] = 127 /\ form[2] = Uint64(length)
  <2>1. /\ Value64(form[2]) = length /\ form[2] \in Seq(Nat) /\ Len(form[2]) = 8
        /\ ~Negative(form[2]) /\ (Over(form[2]) <=> length > maxWSFrameSize)
    BY <1>3, Bytes64
  <2>2. form[1] \in Nat /\ form[1] < 128 /\ (Over(form[2]) <=> ~(length <= maxWSFrameSize))
    BY <1>3, <2>1, SMT DEF maxWSFrameSize
  <2>3. form[1] = 127
    BY <1>3
  <2> QED
    BY <2>1, <2>2, <2>3 DEF ExtLen, Extended
<1> QED
  BY <1>1, <1>2, <1>3, FormCases

\* The opcode and the length code, taken out of the two bytes of the header.
LEMMA HeaderBytes ==
  ASSUME NEW op \in Nat, op < 16, NEW code \in Nat, code < 128, NEW m \in {0, 128}
  PROVE  /\ 128 + op \in Nat /\ (128 + op) % 16 = op
         /\ code + m \in Nat /\ (code + m) % 128 = code /\ (code + m >= 128 <=> m = 128)
<1>1. (128 + op) % 16 = op
  BY SMT
<1>2. CASE m = 0
  BY <1>1, <1>2, SMT
<1>3. CASE m = 128
  BY <1>1, <1>3, SMT
<1> QED
  BY <1>2, <1>3

\* A peer's frame, whatever its opcode, its mask and the form of its length.
LEMMA FrameIsRead ==
  ASSUME NEW S, Nat \subseteq S, NEW op \in Nat, op < 16, NEW text, NEW next \in Seq(S),
         NEW length \in Nat, length <= MaxLength, NEW mask \in Masks, mask \in S,
         Payload(text, length, mask) \in S, NEW form \in Forms(length)
  PROVE  readFrame(PeerFrame(op, text, length, mask, form) \o next)
           = IF length <= maxWSFrameSize THEN Whole(op, text, length, next) ELSE Error
<1> DEFINE code == form[1]
           ext == form[2]
           m == IF mask = NoMask THEN 0 ELSE 128
           b1 == 128 + op
           b2 == code + m
           rest == Following(text, length, mask) \o next
           s == <<b1, b2>> \o ext \o rest
<1>1. /\ b1 \in Nat /\ b2 \in Nat /\ b1 % 16 = op /\ b2 % 128 = code
      /\ (mask # NoMask) = (b2 >= 128)
  <2>1. m \in {0, 128} /\ (m = 128 <=> mask # NoMask)
    OBVIOUS
  <2> HIDE DEF m
  <2>2. code \in Nat /\ code < 128
    BY FormIs
  <2> QED
    BY <2>1, <2>2, HeaderBytes
<1> HIDE DEF b1, b2, code
<1>2. ext \in Seq(S) /\ Len(ext) = ExtLen(code)
  BY FormIs, SeqMonotonic DEF code
<1>a. Extended(op, mask # NoMask, code, ext, rest)
        = IF length <= maxWSFrameSize THEN Rest(op, mask # NoMask, length, rest) ELSE Error
  BY FormIs DEF code
<1> HIDE DEF ext
<1>3. Following(text, length, mask) \in Seq(S)
  BY SMT DEF Following
<1>4. rest \in Seq(S)
  BY <1>3, ConcatProperties
<1>5. Rest(op, mask # NoMask, length, rest) = Whole(op, text, length, next)
  BY RestIsRead
<1> HIDE DEF rest
<1>6. b1 \in S /\ b2 \in S
  BY <1>1
<1>7. /\ s \in Seq(S) /\ Len(s) = 2 + Len(ext) + Len(rest) /\ s[1] = b1 /\ s[2] = b2
      /\ SubSeq(s, 3, 2 + Len(ext)) = ext /\ SubSeq(s, 3 + Len(ext), Len(s)) = rest
  <2>1. s = <<b1, b2>> \o ext \o rest
    OBVIOUS
  <2> HIDE DEF s
  <2> QED
    BY <1>2, <1>4, <1>6, <2>1, Parts
<1>8. Len(ext) \in Nat /\ Len(rest) \in Nat
  BY <1>2, <1>4, LenProperties
<1> HIDE DEF s
<1>9. ~(Len(s) < 2) /\ ~(Len(s) < 2 + Len(ext))
  BY <1>7, <1>8, SMT
<1>10. readFrame(s) = Extended(op, mask # NoMask, code, ext, rest)
  BY <1>1, <1>2, <1>7, <1>9 DEF readFrame
<1>11. readFrame(s) = IF length <= maxWSFrameSize THEN Whole(op, text, length, next) ELSE Error
  BY <1>5, <1>10, <1>a
<1>12. s = PeerFrame(op, text, length, mask, form) \o next
  <2>1. <<b1, b2>> \o ext \in Seq(S)
    BY <1>2, <1>6, Tuple2, ConcatProperties
  <2> DEFINE h == <<b1, b2>> \o ext
             F == Following(text, length, mask)
  <2>2. s = h \o (F \o next)
    BY DEF s, rest
  <2>3. PeerFrame(op, text, length, mask, form) = h \o F
    BY DEF PeerFrame, b1, b2, code, ext
  <2> HIDE DEF h, F
  <2>4. h \in Seq(S) /\ F \in Seq(S)
    BY <1>3, <2>1 DEF h, F
  <2>5. (h \o F) \o next = h \o (F \o next)
    BY <2>4, ConcatAssociative
  <2> QED
    BY <2>2, <2>3, <2>5
<1> QED
  BY <1>11, <1>12

\* writeFrame writes a frame of RFC 6455, its length in the shortest form.
LEMMA WrittenIsPeers ==
  ASSUME NEW text, NEW length \in Nat, length <= MaxLength
  PROVE  writeFrame(text, length, "mask") \in PeerFrames(1, text, length)
<1>1. /\ Following(text, length, "mask") = <<"mask", Payload(text, length, "mask")>>
      /\ "mask" # NoMask /\ "mask" \in Masks
  BY DEF Following, NoMask, Masks
<1>2. ASSUME NEW form \in Forms(length),
             LengthBytes(length) = IF form[2] = << >> THEN <<form[1] + 128>> ELSE <<form[1] + 128>> \o form[2]
      PROVE  writeFrame(text, length, "mask") \in PeerFrames(1, text, length)
  <2>1. form[1] \in Nat /\ form[2] \in Seq(Nat)
    BY FormIs
  <2>2. form[1] + 128 \in Nat /\ Text \in Nat /\ Text = 128 + 1
    BY <2>1, SMT DEF Text
  <2> DEFINE x == <<Text>>
             y == <<form[1] + 128>>
             h == <<128 + 1, form[1] + 128>>
  <2>3. /\ x \in Seq(Nat) /\ y \in Seq(Nat) /\ h \in Seq(Nat) /\ x \o y = h
    BY <2>2, Pair, Tuple2
  <2> HIDE DEF x, y, h
  <2>4. x \o LengthBytes(length) = h \o form[2]
    <3>1. (x \o y) \o form[2] = x \o (y \o form[2])
      <4> DEFINE S == Nat
                 ext == form[2]
      <4>1. x \in Seq(S) /\ y \in Seq(S) /\ ext \in Seq(S)
        BY <2>1, <2>3
      <4> HIDE DEF S, ext
      <4>2. (x \o y) \o ext = x \o (y \o ext)
        BY <4>1, ConcatAssociative
      <4> QED
        BY <4>2 DEF ext
    <3>2. h \o << >> = h
      BY <2>3, ConcatEmptySeq
    <3>3. LengthBytes(length) = IF form[2] = << >> THEN y ELSE y \o form[2]
      BY <1>2 DEF y
    <3> QED
      BY <2>3, <3>1, <3>2, <3>3
  <2>5. writeFrame(text, length, "mask") = PeerFrame(1, text, length, "mask", form)
    BY <1>1, <2>4 DEF writeFrame, PeerFrame, x, h
  <2> QED
    BY <1>1, <2>5 DEF PeerFrames
<1>3. CASE length < 126
  <2> DEFINE form == <<length, << >> >>
  <2>1. form \in Forms(length) /\ LengthBytes(length) = <<length + 128>>
    BY <1>3, SMT DEF Forms, LengthBytes
  <2>2. form[1] = length /\ form[2] = << >>
    BY Zenon
  <2> HIDE DEF form
  <2> QED
    BY <1>2, <2>1, <2>2
<1>4. CASE ~(length < 126) /\ length < 65536
  <2> DEFINE form == <<126, Uint16(length)>>
  <2>1. form \in Forms(length) /\ LengthBytes(length) = <<126 + 128>> \o Uint16(length)
    BY <1>4, SMT DEF Forms, LengthBytes
  <2>2. form[1] = 126 /\ form[2] = Uint16(length)
    BY Zenon
  <2>3. Len(Uint16(length)) = 2
    BY <1>4, Bytes16
  <2>4. Uint16(length) # << >>
    BY <2>3, EmptySeq, SMT
  <2> HIDE DEF form
  <2> QED
    BY <1>2, <2>1, <2>2, <2>4
<1>5. CASE ~(length < 126) /\ ~(length < 65536)
  <2> DEFINE form == <<127, Uint64(length)>>
  <2>1. form \in Forms(length) /\ LengthBytes(length) = <<127 + 128>> \o Uint64(length)
    BY <1>5, SMT DEF Forms, LengthBytes
  <2>2. form[1] = 127 /\ form[2] = Uint64(length)
    BY Zenon
  <2>3. Len(Uint64(length)) = 8
    BY Bytes64
  <2>4. Uint64(length) # << >>
    BY <2>3, EmptySeq, SMT
  <2> HIDE DEF form
  <2> QED
    BY <1>2, <2>1, <2>2, <2>4
<1> QED
  BY <1>3, <1>4, <1>5

\* writePongFrame writes one, with at most 125 bytes of the ping's payload.
LEMMA PongIsPeers ==
  ASSUME NEW text, NEW length \in Nat
  PROVE  LET kept == IF length <= 125 THEN length ELSE 125
         IN  writePongFrame(text, length, "mask") \in PeerFrames(10, text, kept)
<1> DEFINE kept == IF length <= 125 THEN length ELSE 125
           form == <<kept, << >> >>
           P == Payload(text, kept, "mask")
<1>1. kept = (IF length > 125 THEN 125 ELSE length) /\ kept \in Nat /\ kept < 126
  OBVIOUS
<1>2. writePongFrame(text, length, "mask") = <<Pong, kept + 128, "mask", P>>
  BY <1>1 DEF writePongFrame
<1>3. Following(text, kept, "mask") = <<"mask", P>> /\ "mask" # NoMask /\ "mask" \in Masks
  BY DEF Following, NoMask, Masks
<1> HIDE DEF kept, P
<1>4. form \in Forms(kept) /\ form[1] = kept /\ form[2] = << >>
  BY <1>1, SMT DEF Forms
<1> HIDE DEF form
<1> DEFINE b2 == kept + 128
           S == Nat \cup {"mask", P}
<1>5. 128 + 10 = Pong /\ Pong \in S /\ b2 \in S /\ "mask" \in S /\ P \in S
  BY <1>1, SMT DEF Pong
<1> HIDE DEF b2, S
<1>6. <<Pong, b2>> \o << >> \o <<"mask", P>> = <<Pong, b2, "mask", P>>
  <2>1. <<Pong, b2>> \o << >> = <<Pong, b2>> /\ <<Pong, b2>> \in Seq(S) /\ <<"mask", P>> \in Seq(S)
    BY <1>5, ConcatEmptySeq, Tuple2
  <2>2. <<Pong, b2>> \o <<"mask", P>> = <<Pong, b2, "mask", P>>
    BY <1>5, Pairs
  <2> QED
    BY <2>1, <2>2
<1>7. writePongFrame(text, length, "mask") = PeerFrame(10, text, kept, "mask", form)
  BY <1>2, <1>3, <1>4, <1>5, <1>6 DEF PeerFrame, b2
<1>8. PeerFrame(10, text, kept, "mask", form) \in PeerFrames(10, text, kept)
  BY <1>3, <1>4 DEF PeerFrames
<1> QED
  BY <1>7, <1>8 DEF kept

\* Every frame, whatever its length, is read as its writer meant it, with nothing of
\* what is next on the stream, up to maxWSFrameSize, and refused above it (readFrame).
THEOREM EveryFrameCrosses ==
  ASSUME NEW length \in Nat, length <= MaxLength, NEW S, NEW next \in Seq(S)
  PROVE  Crosses(length, next)
<1>1. writeFrame("text", length, "mask") \in PeerFrames(1, "text", length)
  BY WrittenIsPeers
<1>2. LET kept == IF length <= 125 THEN length ELSE 125
      IN  writePongFrame("text", length, "mask") \in PeerFrames(10, "text", kept)
  BY PongIsPeers
<1>3. ASSUME NEW op \in Nat, op < 16, NEW theirs \in PeerFrames(op, "text", length)
      PROVE  readFrame(theirs \o next) =
               IF length <= maxWSFrameSize THEN Whole(op, "text", length, next) ELSE Error
  <2>1. PICK mask \in Masks, form \in Forms(length) : theirs = PeerFrame(op, "text", length, mask, form)
    BY DEF PeerFrames
  <2> DEFINE T == S \cup Nat \cup Masks \cup {Payload("text", length, mask)}
  <2>2. Nat \subseteq T /\ next \in Seq(T) /\ mask \in T /\ Payload("text", length, mask) \in T
    BY SeqMonotonic
  <2> HIDE DEF T
  <2> QED
    BY <1>3, <2>1, <2>2, FrameIsRead
<1>4. ASSUME NEW op \in {0, 1, 2, 9, 10}, NEW theirs \in PeerFrames(op, "text", length)
      PROVE  readFrame(theirs \o next) =
               IF length <= maxWSFrameSize
                 THEN [op |-> op, length |-> length, text |-> "text", rest |-> next] ELSE Error
  <2>1. op \in Nat /\ op < 16 /\ op # 8
    BY <1>4, SMT
  <2> QED
    BY <1>3, <1>4, <2>1 DEF Whole
<1>5. ASSUME NEW theirs \in PeerFrames(8, "text", length)
      PROVE  readFrame(theirs \o next) = Error
  <2>1. 8 \in Nat /\ 8 < 16
    BY SMT
  <2> QED
    BY <1>3, <1>5, <2>1 DEF Whole
<1> QED
  BY <1>1, <1>2, <1>4, <1>5 DEF Crosses

\* The number that eight bytes hold.
Number(ext) ==
  72057594037927936 * ext[1] + 281474976710656 * ext[2] + 1099511627776 * ext[3]
    + 4294967296 * ext[4] + 16777216 * ext[5] + 65536 * ext[6] + 256 * ext[7] + ext[8]

\* Eight bytes hold more than the limit when one of the first four is set, or the fifth
\* is above 2, or it is 2 and one of the last three is set.
LEMMA OverEight ==
  ASSUME NEW e1 \in Nat, NEW e2 \in Nat, NEW e3 \in Nat, NEW e4 \in Nat, NEW e5 \in Nat,
         NEW e6 \in Nat, NEW e7 \in Nat, NEW e8 \in Nat, e6 < 256, e7 < 256, e8 < 256
  PROVE  \/ e1 > 0 \/ e2 > 0 \/ e3 > 0 \/ e4 > 0 \/ e5 > 2
         \/ (e5 = 2 /\ (e6 > 0 \/ e7 > 0 \/ e8 > 0))
         <=> 72057594037927936 * e1 + 281474976710656 * e2 + 1099511627776 * e3
               + 4294967296 * e4 + 16777216 * e5 + 65536 * e6 + 256 * e7 + e8 > 32 * 1024 * 1024
<1> DEFINE low == 65536 * e6 + 256 * e7 + e8
           high == 72057594037927936 * e1 + 281474976710656 * e2 + 1099511627776 * e3
                     + 4294967296 * e4
<1>1. low \in Nat /\ low < 16777216 /\ (low > 0 <=> e6 > 0 \/ e7 > 0 \/ e8 > 0)
  BY SMT
<1>2. high \in Nat /\ (high = 0 <=> ~(e1 > 0 \/ e2 > 0 \/ e3 > 0 \/ e4 > 0))
  BY SMT
<1>3. high = 0 \/ high > 33554432
  BY SMT
<1>4. 72057594037927936 * e1 + 281474976710656 * e2 + 1099511627776 * e3
        + 4294967296 * e4 + 16777216 * e5 + 65536 * e6 + 256 * e7 + e8 = high + 16777216 * e5 + low
  BY SMT
<1> HIDE DEF low, high
<1>5. \/ high > 0 \/ e5 > 2 \/ (e5 = 2 /\ low > 0) <=> high + 16777216 * e5 + low > 33554432
  BY <1>1, <1>2, <1>3, SMT
<1>6. 32 * 1024 * 1024 = 33554432
  BY SMT
<1> QED
  BY <1>1, <1>2, <1>4, <1>5, <1>6, SMT

\* What readFrame compares with maxWSFrameSize is the number the eight bytes hold, for
\* each of them that fits an int.
THEOREM OverIsOver ==
  ASSUME NEW ext \in [1 .. 8 -> Nat], \A i \in 1 .. 8 : ext[i] < 256, ~Negative(ext)
  PROVE  Over(ext) <=> Number(ext) > maxWSFrameSize
<1> DEFINE e1 == ext[1]
           e2 == ext[2]
           e3 == ext[3]
           e4 == ext[4]
           e5 == ext[5]
           e6 == ext[6]
           e7 == ext[7]
           e8 == ext[8]
<1>1. /\ e1 \in Nat /\ e2 \in Nat /\ e3 \in Nat /\ e4 \in Nat
      /\ e5 \in Nat /\ e6 \in Nat /\ e7 \in Nat /\ e8 \in Nat
      /\ e6 < 256 /\ e7 < 256 /\ e8 < 256
  BY SMT
<1>2. (\E i \in 1 .. 4 : ext[i] > 0) <=> e1 > 0 \/ e2 > 0 \/ e3 > 0 \/ e4 > 0
  BY SMT
<1>3. (\E i \in 6 .. 8 : ext[i] > 0) <=> e6 > 0 \/ e7 > 0 \/ e8 > 0
  BY SMT
<1>4. Over(ext) <=> \/ e1 > 0 \/ e2 > 0 \/ e3 > 0 \/ e4 > 0 \/ e5 > 2
                    \/ (e5 = 2 /\ (e6 > 0 \/ e7 > 0 \/ e8 > 0))
  BY <1>2, <1>3 DEF Over
<1>5. Number(ext) = 72057594037927936 * e1 + 281474976710656 * e2 + 1099511627776 * e3
                      + 4294967296 * e4 + 16777216 * e5 + 65536 * e6 + 256 * e7 + e8
  BY SMT DEF Number
<1> HIDE DEF e1, e2, e3, e4, e5, e6, e7, e8
<1>6. \/ e1 > 0 \/ e2 > 0 \/ e3 > 0 \/ e4 > 0 \/ e5 > 2
      \/ (e5 = 2 /\ (e6 > 0 \/ e7 > 0 \/ e8 > 0))
      <=> Number(ext) > maxWSFrameSize
  BY <1>1, <1>5, OverEight, SMT DEF maxWSFrameSize
<1> QED
  BY <1>4, <1>6

\* A frame whose eight bytes of length hold more than the limit is refused before
\* anything of its payload is read, whatever follows it (readFrame).
THEOREM LongIsRefused ==
  ASSUME NEW S, NEW b1 \in S, NEW b2 \in S, b2 % 128 = 127,
         NEW ext \in Seq(S), Len(ext) = 8, Over(ext), NEW after \in Seq(S)
  PROVE  readFrame(<<b1, b2>> \o ext \o after) = Error
<1> DEFINE c == b2
           e == ext
           s == <<b1, c>> \o e \o after
<1>1. s = <<b1, c>> \o e \o after /\ c \in S /\ e \in Seq(S)
  OBVIOUS
<1>2. c % 128 = 127 /\ Len(e) = 8 /\ ~Negative(e) /\ Over(e)
  BY DEF Over
<1> HIDE DEF s, c, e
<1>3. /\ s \in Seq(S) /\ Len(s) = 2 + Len(e) + Len(after) /\ s[1] = b1 /\ s[2] = c
      /\ SubSeq(s, 3, 2 + Len(e)) = e /\ SubSeq(s, 3 + Len(e), Len(s)) = after
  BY <1>1, Parts
<1>4. Len(after) \in Nat
  BY LenProperties
<1>5. s[2] % 128 = 127
  BY <1>2, <1>3
<1>6. ExtLen(s[2] % 128) = 8
  BY <1>5, SMT DEF ExtLen
<1>7. ~(Len(s) < 2) /\ ~(Len(s) < 2 + 8) /\ SubSeq(s, 3, 2 + 8) = e
  BY <1>2, <1>3, <1>4, SMT
<1>8. \A op, masked, rest : Extended(op, masked, 127, e, rest) = Error
  BY <1>2 DEF Extended
<1> DEFINE code == s[2] % 128
           rest == SubSeq(s, 3 + 8, Len(s))
<1>9. readFrame(s) = Extended(s[1] % 16, s[2] >= 128, code, SubSeq(s, 3, 2 + 8), rest)
  BY <1>6, <1>7, Zenon DEF readFrame
<1>10. code = 127
  BY <1>5
<1> HIDE DEF code, rest
<1>11. readFrame(s) = Extended(s[1] % 16, s[2] >= 128, 127, e, rest)
  BY <1>7, <1>9, <1>10
<1>12. readFrame(s) = Error
  BY <1>8, <1>11
<1> QED
  BY <1>12 DEF s, c, e

\* The huge lengths of the runs are such.
LEMMA HugeAreOver ==
  ASSUME NEW ext \in HugeLengths
  PROVE  ext \in Seq(Nat) /\ Len(ext) = 8 /\ Over(ext)
<1>1. PICK b1 \in {0, 127}, b2 \in {0, 1}, b5 \in {0, 3} :
        ext = <<b1, b2, 0, 0, b5, 0, 0, 0>> /\ ext # <<0, 0, 0, 0, 0, 0, 0, 0>>
  BY DEF HugeLengths
<1>2. b1 \in Nat /\ b2 \in Nat /\ b5 \in Nat /\ 0 \in Nat
  BY <1>1, SMT
<1>3. ext \in Seq(Nat) /\ Len(ext) = 8
  BY <1>1, <1>2, Tuple8
<1>4. ext[1] = b1 /\ ext[2] = b2 /\ ext[5] = b5
  BY <1>1, SMT
<1>5. b1 = 127 \/ b2 = 1 \/ b5 = 3
  BY <1>1
<1>6. ~(b1 >= 128) /\ (b1 > 0 \/ b2 > 0 \/ b5 > 2)
  BY <1>2, <1>5, <1>1, SMT
<1> QED
  BY <1>3, <1>4, <1>6, SMT DEF Over, Negative

\* So every boundary of the length encodings is crossed.
LEMMA BoundariesCross == FramesCross
<1>1. ASSUME NEW length \in Lengths, NEW next \in PeerFrames(1, "next", 126)
      PROVE  Crosses(length, next)
  <2>1. length \in Nat /\ length <= MaxLength
    BY SMT DEF Lengths, maxWSFrameSize, MaxLength
  <2>2. PICK mask \in Masks, form \in Forms(126) : next = PeerFrame(1, "next", 126, mask, form)
    BY DEF PeerFrames
  <2> DEFINE S == Nat \cup Masks \cup {Payload("next", 126, mask)}
  <2>3. next \in Seq(S)
    <3>1. form[1] \in Nat /\ form[2] \in Seq(Nat)
      <4>1. 126 \in Nat /\ 126 <= MaxLength
        BY SMT DEF MaxLength
      <4> QED
        BY <4>1, FormIs
    <3>2. 128 + 1 \in S /\ form[1] + (IF mask = NoMask THEN 0 ELSE 128) \in S
      BY <3>1, SMT
    <3>3. mask \in S /\ Payload("next", 126, mask) \in S
      OBVIOUS
    <3>4. form[2] \in Seq(S)
      BY <3>1, SeqMonotonic
    <3> HIDE DEF S
    <3>5. <<128 + 1, form[1] + (IF mask = NoMask THEN 0 ELSE 128)>> \in Seq(S)
      BY <3>2, Tuple2
    <3>6. Following("next", 126, mask) \in Seq(S)
      BY <3>3, Tuple2 DEF Following
    <3> QED
      BY <2>2, <3>4, <3>5, <3>6, ConcatProperties DEF PeerFrame
  <2> QED
    BY <2>1, <2>3, EveryFrameCrosses
<1>2. ASSUME NEW ext \in HugeLengths
      PROVE  readFrame(<<129, 127>> \o ext) = Error
  <2>1. ext \in Seq(Nat) /\ Len(ext) = 8 /\ Over(ext)
    BY HugeAreOver
  <2>2. 129 \in Nat /\ 127 \in Nat /\ 127 % 128 = 127
    BY SMT
  <2>3. << >> \in Seq(Nat)
    OBVIOUS
  <2>4. <<129, 127>> \o ext \o << >> = <<129, 127>> \o ext
    <3>1. <<129, 127>> \o ext \in Seq(Nat)
      BY <2>1, <2>2, Tuple2, ConcatProperties
    <3> QED
      BY <3>1, ConcatEmptySeq
  <2>5. readFrame(<<129, 127>> \o ext \o << >>) = Error
    <3> DEFINE S == Nat
               b1 == 129
               b2 == 127
    <3>1. b1 \in S /\ b2 \in S /\ b2 % 128 = 127 /\ ext \in Seq(S) /\ << >> \in Seq(S)
      BY <2>1, <2>2, <2>3
    <3> HIDE DEF S, b1, b2
    <3>2. readFrame(<<b1, b2>> \o ext \o << >>) = Error
      BY <2>1, <3>1, LongIsRefused
    <3> QED
      BY <3>2 DEF b1, b2
  <2> QED
    BY <2>4, <2>5
<1> QED
  BY <1>1, <1>2 DEF FramesCross

\* The frames that the runs check cross, for every number of calls and of listeners.
THEOREM FramesAreRead == Spec => []FramesCrossFirst
<1>1. FramesCrossFirst
  BY BoundariesCross DEF FramesCrossFirst
<1> QED
  BY <1>1, PTL
=============================================================================
