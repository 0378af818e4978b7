------------------------------- MODULE Instance -------------------------------
(***************************************************************************)
(* Instance.Convert of internal/browser/instance.go: the tab of a          *)
(* conversion is created, attached, filled, waited for, printed and closed *)
(* by commands over the instance's one connection, under the context of    *)
(* the request.  A worker runs one conversion after another; the browser   *)
(* handles what was written, late or never, also what nobody waits for.    *)
(*                                                                         *)
(* The client is reduced to what CdpClient shows of it: an answer reaches  *)
(* the command it answers or is dropped, an event reaches the listeners of *)
(* its session, and a lost connection wakes nobody.                        *)
(***************************************************************************)
EXTENDS Integers, Sequences, SequencesExt

CONSTANTS Jobs,        \* conversions, each run at most once
          WithAssets   \* those whose document has assets

ASSUME InstanceAssumption == WithAssets \subseteq Jobs

VARIABLES
  at,        \* per job: the command or wait its Convert is at, see Labels
  reply,     \* per job, its send: "unsent", "wait", or the answer "ok", "error"
  ctxDone,   \* per job: the request's context has ended
  result,    \* per job: "none", "pdf", "err", "ctx"
  listening, \* per job: its session has a listener for Page.loadEventFired
  inbox,     \* per job: the documents whose load event is in loadCh
  opened,    \* per job, history: openSession has returned a session
  loadedBy,  \* per job, history: the document whose event ended the wait
  up,        \* the connection is open
  wire,      \* commands written and not handled by the browser
  back,      \* answers and events not read by readLoop
  tab, doc,  \* per job: the browser's tab, and the document in it
  printed    \* per job, history: the document the PDF shows

clientVars  == <<at, reply, result, listening, inbox, opened, loadedBy>>
browserVars == <<tab, doc, printed>>
vars == <<clientVars, ctxDone, up, wire, back, browserVars>>

Commands == {"create", "attach", "page", "network", "frame", "content",
             "navigate", "print", "close"}
Labels == Commands \cup {"idle", "subscribe", "load", "forget", "returned"}
BrowserLevel == {"create", "attach", "close"}   \* sent without a sessionId

\* What follows when a step succeeds.
Succ(j) ==
  [idle |-> "create", create |-> "attach", attach |-> "page", page |-> "network",
   network |-> "subscribe", subscribe |-> IF j \in WithAssets THEN "navigate" ELSE "frame",
   frame |-> "content", content |-> "load", navigate |-> "load", load |-> "print",
   print |-> "close", close |-> "forget", forget |-> "returned"]

Init ==
  /\ at = [j \in Jobs |-> "idle"] /\ reply = [j \in Jobs |-> "unsent"]
  /\ ctxDone = [j \in Jobs |-> FALSE] /\ result = [j \in Jobs |-> "none"]
  /\ listening = [j \in Jobs |-> FALSE]
  /\ inbox = [j \in Jobs |-> << >>]
  /\ opened = [j \in Jobs |-> FALSE] /\ loadedBy = [j \in Jobs |-> "none"]
  /\ up = TRUE /\ wire = << >> /\ back = << >>
  /\ tab = [j \in Jobs |-> "none"] /\ doc = [j \in Jobs |-> "none"]
  /\ printed = [j \in Jobs |-> "none"]

-----------------------------------------------------------------------------
(* Convert *)

\* Mutant: the channel of the last answer is used again.
KeepsReply(j) == at' = [at EXCEPT ![j] = Succ(j)[@]] /\ UNCHANGED reply

Goes(j) ==
  /\ at' = [at EXCEPT ![j] = Succ(j)[@]]
  /\ reply' = [reply EXCEPT ![j] = "unsent"]

\* A failed step: openSession has nothing to close, every later return runs the
\* deferred CloseTarget, and CloseTarget's own error is dropped.
Leaves(j, o) ==
  /\ at' = [at EXCEPT ![j] = CASE @ \in {"create", "attach"} -> "returned"
                               [] @ = "close" -> "forget"
                               [] OTHER -> "close"]
  /\ result' = IF at[j] = "close" THEN result ELSE [result EXCEPT ![j] = o]
  /\ reply' = [reply EXCEPT ![j] = "unsent"]
  /\ UNCHANGED <<ctxDone, listening, inbox, opened, loadedBy, up, wire, back, browserVars>>

Begin(j) ==
  /\ at[j] = "idle" /\ \A k \in Jobs : at[k] \in {"idle", "returned"}
  /\ Goes(j)
  /\ UNCHANGED <<ctxDone, result, listening, inbox, opened, loadedBy, up, wire, back, browserVars>>

\* Mutant: send returns the context's error before it writes.
WriteUnlessDone(j) ==
  /\ at[j] \in Commands /\ reply[j] = "unsent" /\ up
  /\ \/ ctxDone[j] /\ Leaves(j, "ctx")
     \/ /\ ~ctxDone[j]
        /\ wire' = Append(wire, [job |-> j, cmd |-> at[j]])
        /\ reply' = [reply EXCEPT ![j] = "wait"]
        /\ UNCHANGED <<at, ctxDone, result, listening, inbox, opened, loadedBy, up, back,
                       browserVars>>

\* send writes the frame whether or not its context has ended.
Write(j) ==
  /\ at[j] \in Commands /\ reply[j] = "unsent" /\ up
  /\ wire' = Append(wire, [job |-> j, cmd |-> at[j]])
  /\ reply' = [reply EXCEPT ![j] = "wait"]
  /\ UNCHANGED <<at, ctxDone, result, listening, inbox, opened, loadedBy, up, back, browserVars>>

WriteFails(j) == at[j] \in Commands /\ reply[j] = "unsent" /\ ~up /\ Leaves(j, "err")

TakeAnswer(j) ==
  /\ reply[j] = "ok"
  /\ Goes(j)
  /\ result' = IF at[j] = "print" THEN [result EXCEPT ![j] = "pdf"] ELSE result
  /\ opened' = [opened EXCEPT ![j] = @ \/ at[j] = "attach"]
  /\ UNCHANGED <<ctxDone, listening, inbox, loadedBy, up, wire, back, browserVars>>

TakeError(j) == reply[j] = "error" /\ Leaves(j, "err")

\* Mutant: the wait for the load event has no context.
CancelSendOnly(j) == reply[j] # "unsent" /\ ctxDone[j] /\ Leaves(j, "ctx")

Cancel(j) ==
  /\ reply[j] # "unsent" \/ at[j] = "load"
  /\ ctxDone[j] /\ Leaves(j, "ctx")

\* Mutant: the listener is never registered.
SubscribeNothing(j) ==
  /\ at[j] = "subscribe"
  /\ Goes(j)
  /\ UNCHANGED <<ctxDone, result, listening, inbox, opened, loadedBy, up, wire, back, browserVars>>

Subscribe(j) ==
  /\ at[j] = "subscribe"
  /\ listening' = [listening EXCEPT ![j] = TRUE]
  /\ Goes(j)
  /\ UNCHANGED <<ctxDone, result, inbox, opened, loadedBy, up, wire, back, browserVars>>

AssetServerFails(j) == at[j] = "subscribe" /\ j \in WithAssets /\ Leaves(j, "err")

\* Mutant: the select has a default case.
DoesNotWait(j) ==
  /\ at[j] = "load"
  /\ Goes(j)
  /\ UNCHANGED <<ctxDone, result, listening, inbox, opened, loadedBy, up, wire, back, browserVars>>

WaitForEvent(j) ==
  /\ at[j] = "load" /\ inbox[j] # << >>
  /\ loadedBy' = [loadedBy EXCEPT ![j] = Head(inbox[j])]
  /\ inbox' = [inbox EXCEPT ![j] = Tail(@)]
  /\ Goes(j)
  /\ UNCHANGED <<ctxDone, result, listening, opened, up, wire, back, browserVars>>

\* session.Close
Forget(j) ==
  /\ at[j] = "forget"
  /\ listening' = [listening EXCEPT ![j] = FALSE]
  /\ Goes(j)
  /\ UNCHANGED <<ctxDone, result, inbox, opened, loadedBy, up, wire, back, browserVars>>

-----------------------------------------------------------------------------
(* readLoop *)

ReadAnswer ==
  /\ back # << >> /\ Head(back).kind # "load"
  /\ LET a == Head(back) IN
       reply' = IF at[a.job] = a.cmd /\ reply[a.job] = "wait"
                THEN [reply EXCEPT ![a.job] = a.kind] ELSE reply
  /\ back' = Tail(back)
  /\ UNCHANGED <<at, ctxDone, result, listening, inbox, opened, loadedBy, up, wire, browserVars>>

ReadEvent ==
  /\ back # << >> /\ Head(back).kind = "load"
  /\ LET e == Head(back) IN
       inbox' = IF listening[e.job] THEN [inbox EXCEPT ![e.job] = Append(@, e.cmd)] ELSE inbox
  /\ back' = Tail(back)
  /\ UNCHANGED <<at, reply, ctxDone, result, listening, opened, loadedBy, up, wire, browserVars>>

-----------------------------------------------------------------------------
(* The browser, the connection and the client of the service *)

Sends(j, kind, cmd) == back' = Append(back, [job |-> j, kind |-> kind, cmd |-> cmd])

\* Commands of one session are handled in order; sessions do not wait for each other.
Channel(c) == IF c.cmd \in BrowserLevel THEN "browser" ELSE c.job
NextFor(i) ==
  /\ i \in 1 .. Len(wire)
  /\ \A k \in 1 .. i - 1 : Channel(wire[k]) # Channel(wire[i])

Handle(i) ==
  /\ NextFor(i)
  /\ LET j == wire[i].job   c == wire[i].cmd IN
       /\ (tab[j] = "open") = (c # "create")
       /\ tab' = CASE c = "create" -> [tab EXCEPT ![j] = "open"]
                   [] c = "close"  -> [tab EXCEPT ![j] = "closed"]
                   [] OTHER -> tab
       /\ doc' = CASE c = "create" -> [doc EXCEPT ![j] = "opening"]
                   [] c \in {"content", "navigate"} -> [doc EXCEPT ![j] = "loading"]
                   [] OTHER -> doc
       /\ printed' = IF c = "print" THEN [printed EXCEPT ![j] = doc[j]] ELSE printed
       /\ Sends(j, "ok", c)
  /\ wire' = RemoveAt(wire, i)
  /\ UNCHANGED <<clientVars, ctxDone, up>>

\* Any command may be refused, but a tab that is open can be closed.
Refuse(i) ==
  /\ NextFor(i)
  /\ wire[i].cmd = "close" => tab[wire[i].job] # "open"
  /\ Sends(wire[i].job, "error", wire[i].cmd)
  /\ wire' = RemoveAt(wire, i)
  /\ UNCHANGED <<clientVars, ctxDone, up, browserVars>>

\* A document finishes loading: the tab's about:blank, or the job's.  The event is
\* written to the connection and goes to whoever listens when it is read.
Loads(j) ==
  /\ tab[j] = "open" /\ up
  /\ \/ doc[j] = "opening" /\ doc' = [doc EXCEPT ![j] = "blank"]
     \/ doc[j] = "loading" /\ doc' = [doc EXCEPT ![j] = "loaded"]
  /\ Sends(j, "load", doc'[j])
  /\ UNCHANGED <<clientVars, ctxDone, up, wire, tab, printed>>

\* The browser dies or the connection is lost, at any moment; what was under way
\* is lost with it.
Drop ==
  /\ up /\ up' = FALSE
  /\ wire' = << >> /\ back' = << >>
  /\ UNCHANGED <<clientVars, ctxDone, browserVars>>

CtxEnds(j) ==
  /\ at[j] \notin {"idle", "returned"} /\ ~ctxDone[j]
  /\ ctxDone' = [ctxDone EXCEPT ![j] = TRUE]
  /\ UNCHANGED <<clientVars, up, wire, back, browserVars>>

-----------------------------------------------------------------------------
Convert(j) ==
  \/ Write(j) \/ WriteFails(j) \/ TakeAnswer(j) \/ TakeError(j) \/ Cancel(j)
  \/ Subscribe(j) \/ AssetServerFails(j) \/ WaitForEvent(j) \/ Forget(j)

ReadLoop == ReadAnswer \/ ReadEvent
Browser == (\E i \in 1 .. Len(wire) : Handle(i) \/ Refuse(i)) \/ \E j \in Jobs : Loads(j)

\* Nothing need happen after the last return, or without a connection.
Rest == ~up \/ (\A j \in Jobs : at[j] = "returned")

Next ==
  \/ \E j \in Jobs : Begin(j) \/ Convert(j) \/ CtxEnds(j)
  \/ ReadLoop \/ Browser \/ Drop \/ (Rest /\ UNCHANGED vars)

Spec == Init /\ [][Next]_vars

\* Only the worker's goroutine need run: the browser may stop answering, the
\* connection may stall, the read loop may be held up.  Nor need a write return while
\* the connection lasts: conn.Write has no deadline, and a browser that does not read
\* holds up a frame that is longer than the socket's buffers.
Blocked(j) == at[j] \in Commands /\ reply[j] = "unsent" /\ up

FairSpec == Spec /\ \A j \in Jobs : WF_vars(~Blocked(j) /\ Convert(j))

-----------------------------------------------------------------------------
(* Properties *)

Documents == {"none", "opening", "blank", "loading", "loaded"}

TypeOK ==
  /\ at \in [Jobs -> Labels] /\ reply \in [Jobs -> {"unsent", "wait", "ok", "error"}]
  /\ result \in [Jobs -> {"none", "pdf", "err", "ctx"}]
  /\ \A j \in Jobs : /\ reply[j] # "unsent" => at[j] \in Commands
                     /\ result[j] # "none" => at[j] \in {"close", "forget", "returned"}
                     /\ opened[j] \in BOOLEAN /\ loadedBy[j] \in Documents /\ doc[j] \in Documents
  /\ \A c \in Range(wire) : c.job \in Jobs /\ c.cmd \in Commands

\* A PDF shows its own job's document, loaded to the end, although the answers and
\* events of cancelled conversions come late and the answers of commands overtake
\* the load.  The one exception is the load event of the tab's own about:blank,
\* when it is read after the listener was registered.
PrintsOwnDocument ==
  \A j \in Jobs : result[j] = "pdf" => printed[j] = "loaded" \/ loadedBy[j] = "blank"

\* The wait for the load event is never in vain: when the document has loaded,
\* its event is in the channel or on its way, whatever else was cancelled.
LoadNotMissed ==
  \A j \in Jobs :
    at[j] = "load" /\ doc[j] = "loaded" /\ up =>
      "loaded" \in Range(inbox[j]) \/ \E i \in 1 .. Len(back) :
                                        back[i] = [job |-> j, kind |-> "load", cmd |-> "loaded"]

\* A conversion that got its session leaves no tab behind: however it ended, its
\* tab is closed or the order to close it is on the wire.  (One that was cancelled
\* inside openSession does leave its tab, for as long as the browser lives.)
TabsAreClosed ==
  \A j \in Jobs :
    at[j] = "returned" /\ opened[j] /\ up =>
      tab[j] = "closed" \/ [job |-> j, cmd |-> "close"] \in Range(wire)

\* When the request's context ends Convert returns, the deferred CloseTarget
\* included, whatever the browser and the connection do or fail to do, unless a write
\* of its is blocked for as long as the connection lasts.
ContextReturns == \A j \in Jobs : <>[]ctxDone[j] => <>(at[j] = "returned") \/ <>[]Blocked(j)
=============================================================================
