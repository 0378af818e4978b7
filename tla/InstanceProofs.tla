---------------------------- MODULE InstanceProofs ----------------------------
(***************************************************************************)
(* Proofs about Instance for any number of conversions: whatever is        *)
(* cancelled, refused, late or lost, a PDF shows its own document, no load *)
(* event is missed, and no tab of a session is left behind.                *)
(***************************************************************************)
EXTENDS Instance, SequenceTheorems, TLAPS

-----------------------------------------------------------------------------
(* What the sequences hold *)

\* What a sequence holds, by its places.
LEMMA RangeIs ==
  ASSUME NEW S, NEW s \in Seq(S)
  PROVE  Range(s) = {s[i] : i \in 1 .. Len(s)} /\ Range(s) \subseteq S
<1>1. DOMAIN s = 1 .. Len(s)
  OBVIOUS
<1> QED
  BY <1>1 DEF Range

\* A connection with one more thing on it.
LEMMA RangeOfAppend ==
  ASSUME NEW S, NEW s \in Seq(S), NEW x \in S
  PROVE  Append(s, x) \in Seq(S) /\ Range(Append(s, x)) = Range(s) \cup {x}
<1> DEFINE t == Append(s, x)
<1>1. /\ t \in Seq(S) /\ Len(t) = Len(s) + 1 /\ Len(s) \in Nat
      /\ \A i \in 1 .. Len(s) : t[i] = s[i]
      /\ t[Len(s) + 1] = x
  OBVIOUS
<1> HIDE DEF t
<1>2. Range(s) = {s[i] : i \in 1 .. Len(s)} /\ Range(t) = {t[i] : i \in 1 .. Len(t)}
  BY <1>1, RangeIs
<1>3. \A i \in 1 .. Len(t) : i = Len(s) + 1 \/ i \in 1 .. Len(s)
  BY <1>1
<1>4. Len(s) + 1 \in 1 .. Len(t) /\ \A i \in 1 .. Len(s) : i \in 1 .. Len(t)
  BY <1>1
<1>5. Range(t) \subseteq Range(s) \cup {x}
  BY <1>1, <1>2, <1>3
<1>6. Range(s) \subseteq Range(t) /\ x \in Range(t)
  BY <1>1, <1>2, <1>4
<1> QED
  BY <1>1, <1>5, <1>6 DEF t

\* One with its first thing read.
LEMMA RangeOfTail ==
  ASSUME NEW S, NEW s \in Seq(S), s # << >>
  PROVE  /\ Head(s) \in S /\ Tail(s) \in Seq(S)
         /\ Head(s) \in Range(s) /\ Range(s) = Range(Tail(s)) \cup {Head(s)}
<1>1. /\ Head(s) \in S /\ Tail(s) \in Seq(S) /\ Head(s) = s[1] /\ Len(s) \in Nat \ {0}
      /\ Len(Tail(s)) = Len(s) - 1 /\ \A i \in 1 .. Len(Tail(s)) : Tail(s)[i] = s[i + 1]
  OBVIOUS
<1>2. \A i \in 1 .. Len(s) : i # 1 => i - 1 \in 1 .. Len(Tail(s)) /\ Tail(s)[i - 1] = s[i]
  BY <1>1
<1>3. Range(s) = {s[i] : i \in 1 .. Len(s)} /\ Range(Tail(s)) = {Tail(s)[i] : i \in 1 .. Len(Tail(s))}
  BY <1>1, RangeIs
<1>4. Head(s) \in Range(s)
  BY <1>1, <1>3
<1>5. Range(Tail(s)) \subseteq Range(s)
  <2>1. \A i \in 1 .. Len(Tail(s)) : i + 1 \in 1 .. Len(s)
    BY <1>1
  <2> QED
    BY <1>1, <1>3, <2>1
<1>6. Range(s) \subseteq Range(Tail(s)) \cup {Head(s)}
  <2>1. \A i \in 1 .. Len(s) : i = 1 \/ i # 1
    OBVIOUS
  <2>2. \A i \in 1 .. Len(s) : i # 1 => s[i] \in Range(Tail(s))
    BY <1>2, <1>3
  <2>3. s[1] = Head(s)
    BY <1>1
  <2> QED
    BY <1>3, <2>1, <2>2, <2>3
<1> QED
  BY <1>1, <1>4, <1>5, <1>6

Injective(s) == \A i, k \in 1 .. Len(s) : s[i] = s[k] => i = k

\* One with something written that was not there.
LEMMA InjectiveAppend ==
  ASSUME NEW S, NEW s \in Seq(S), NEW x \in S, Injective(s), x \notin Range(s)
  PROVE  Injective(Append(s, x))
<1>1. Range(s) = {s[i] : i \in 1 .. Len(s)}
  BY RangeIs
<1> QED
  BY <1>1 DEF Injective

\* One with something taken out of the middle.
LEMMA RangeOfRemove ==
  ASSUME NEW S, NEW s \in Seq(S), NEW i \in 1 .. Len(s), Injective(s)
  PROVE  /\ RemoveAt(s, i) \in Seq(S) /\ Injective(RemoveAt(s, i))
         /\ s[i] \in S /\ s[i] \in Range(s) /\ Range(RemoveAt(s, i)) = Range(s) \ {s[i]}
<1> DEFINE t == RemoveAt(s, i)
<1>1. /\ t \in Seq(S) /\ Len(t) = Len(s) - 1 /\ Len(s) \in Nat \ {0}
      /\ \A k \in 1 .. Len(t) : t[k] = IF k < i THEN s[k] ELSE s[k + 1]
  <2> DEFINE a == SubSeq(s, 1, i - 1)   b == SubSeq(s, i + 1, Len(s))
  <2>1. Len(s) \in Nat \ {0} /\ i \in 1 .. Len(s) /\ \A k \in 1 .. Len(s) : s[k] \in S
    OBVIOUS
  <2>2. /\ a \in Seq(S) /\ Len(a) = i - 1 /\ \A k \in 1 .. i - 1 : a[k] = s[k]
    BY <2>1
  <2>3. /\ b \in Seq(S) /\ Len(b) = Len(s) - i /\ \A k \in 1 .. Len(s) - i : b[k] = s[k + i]
    BY <2>1
  <2>4. t = a \o b
    BY DEF RemoveAt
  <2> HIDE DEF a, b, t
  <2>5. /\ t \in Seq(S) /\ Len(t) = Len(a) + Len(b)
        /\ \A k \in 1 .. Len(a) + Len(b) : t[k] = IF k <= Len(a) THEN a[k] ELSE b[k - Len(a)]
    BY <2>2, <2>3, <2>4, ConcatProperties
  <2> QED
    <3>1. Len(t) = Len(s) - 1
      BY <2>1, <2>2, <2>3, <2>5
    <3>2. ASSUME NEW k \in 1 .. Len(t) PROVE t[k] = IF k < i THEN s[k] ELSE s[k + 1]
      <4>1. t[k] = IF k <= i - 1 THEN a[k] ELSE b[k - (i - 1)]
        BY <2>1, <2>2, <2>3, <2>5, <3>1
      <4>2. CASE k < i
        BY <2>1, <2>2, <4>1, <4>2
      <4>3. CASE k >= i
        <5>1. k - (i - 1) \in 1 .. Len(s) - i /\ k - (i - 1) + i = k + 1
          BY <2>1, <3>1, <4>3
        <5> QED
          BY <2>1, <2>3, <4>1, <4>3, <5>1
      <4> QED
        BY <2>1, <4>2, <4>3
    <3> QED
      BY <2>1, <2>5, <3>1, <3>2
<1>2. Range(s) = {s[k] : k \in 1 .. Len(s)} /\ Range(t) = {t[k] : k \in 1 .. Len(t)}
  BY <1>1, RangeIs
<1> HIDE DEF t
<1>3. ASSUME NEW k \in 1 .. Len(s), k # i PROVE s[k] \in Range(t)
  <2>1. CASE k < i
    BY <1>1, <1>2, <2>1
  <2>2. CASE k > i
    <3>1. k - 1 \in 1 .. Len(t) /\ t[k - 1] = s[k]
      BY <1>1, <2>2
    <3> QED
      BY <1>2, <3>1
  <2> QED
    BY <1>3, <2>1, <2>2
<1>4. ASSUME NEW k \in 1 .. Len(t) PROVE t[k] \in Range(s) /\ t[k] # s[i]
  <2>1. PICK m \in 1 .. Len(s) : m # i /\ t[k] = s[m]
    <3>1. CASE k < i
      BY <1>1, <3>1
    <3>2. CASE k >= i
      <4>1. k + 1 \in 1 .. Len(s) /\ k + 1 # i /\ t[k] = s[k + 1]
        BY <1>1, <3>2
      <4> QED
        BY <4>1
    <3> QED
      BY <1>1, <3>1, <3>2
  <2> QED
    BY <1>2, <2>1 DEF Injective
<1>5. Range(t) = Range(s) \ {s[i]}
  <2>1. Range(t) \subseteq Range(s) \ {s[i]}
    BY <1>2, <1>4
  <2>2. Range(s) \ {s[i]} \subseteq Range(t)
    BY <1>2, <1>3
  <2> QED
    BY <2>1, <2>2
<1>6. Injective(t)
  BY <1>1 DEF Injective
<1>7. s[i] \in S /\ s[i] \in Range(s)
  BY <1>2
<1> QED
  BY <1>1, <1>5, <1>6, <1>7 DEF t

-----------------------------------------------------------------------------
(* The invariant *)

\* The order of the steps of Convert.
Order == [idle |-> 0, create |-> 1, attach |-> 2, page |-> 3, network |-> 4, subscribe |-> 5,
          frame |-> 6, content |-> 7, navigate |-> 7, load |-> 8, print |-> 9, close |-> 10,
          forget |-> 11, returned |-> 12]
Orders  == [job : Jobs, cmd : Commands]
Loaded  == {"blank", "loaded"}
Answers == [job : Jobs, kind : {"ok", "error"}, cmd : Commands]
Events  == [job : Jobs, kind : {"load"}, cmd : Loaded]

Types ==
  /\ at \in [Jobs -> Labels] /\ reply \in [Jobs -> {"unsent", "wait", "ok", "error"}]
  /\ ctxDone \in [Jobs -> BOOLEAN] /\ result \in [Jobs -> {"none", "pdf", "err", "ctx"}]
  /\ listening \in [Jobs -> BOOLEAN] /\ inbox \in [Jobs -> Seq(Loaded)]
  /\ opened \in [Jobs -> BOOLEAN] /\ loadedBy \in [Jobs -> Loaded \cup {"none"}]
  /\ up \in BOOLEAN /\ wire \in Seq(Orders) /\ back \in Seq(Answers \cup Events)
  /\ tab \in [Jobs -> {"none", "open", "closed"}] /\ doc \in [Jobs -> Documents]
  /\ printed \in [Jobs -> Documents]

\* What a conversion has come to by where it is: nothing of its document before
\* the command that fills it, a session and a listener after the steps that make them.
Place(j) ==
  /\ reply[j] # "unsent" => at[j] \in Commands
  /\ result[j] # "none" => at[j] \in {"close", "forget", "returned"}
  /\ at[j] \in {"frame", "content"} => j \notin WithAssets
  /\ at[j] = "navigate" => j \in WithAssets
  /\ at[j] \in {"frame", "content", "navigate", "load"} => listening[j]
  /\ at[j] \in {"idle", "create", "attach"} => ~opened[j]
  /\ at[j] \notin {"idle", "create", "attach", "returned"} => opened[j]
  /\ at[j] = "idle" \/ (at[j] = "create" /\ reply[j] = "unsent") => tab[j] = "none"
  /\ Order[at[j]] < 7 \/ (Order[at[j]] = 7 /\ reply[j] = "unsent") => doc[j] \notin {"loading", "loaded"}
  /\ Order[at[j]] <= 8 => loadedBy[j] = "none"
  /\ at[j] = "print" => loadedBy[j] # "none"

\* What a conversion's tab and document have come to, wherever it is.
Tab(j) ==
  /\ opened[j] => tab[j] # "none"
  /\ doc[j] # "none" => tab[j] # "none"
  /\ loadedBy[j] = "loaded" => doc[j] = "loaded"
  /\ "loaded" \in Range(inbox[j]) => doc[j] = "loaded"
  /\ result[j] = "pdf" => printed[j] = "loaded" \/ loadedBy[j] = "blank"

\* What an answer says.
Says(j, kind, cmd) ==
  /\ kind = "ok" /\ cmd = "attach" => tab[j] # "none"
  /\ cmd = "close" => tab[j] = "closed"
  /\ kind = "ok" /\ cmd = "print" => printed[j] = "loaded" \/ loadedBy[j] = "blank"

\* What a command on the wire means: its conversion has come at least so far, and
\* it will find the tab as it needs it.
Written(c) ==
  /\ \/ Order[c.cmd] < Order[at[c.job]]
     \/ c.cmd = at[c.job] /\ reply[c.job] # "unsent"
  /\ c.cmd = "create" => tab[c.job] = "none"
  /\ c.cmd \in {"content", "navigate"} => doc[c.job] \notin {"loading", "loaded"}
  /\ (c.cmd = "content" => c.job \notin WithAssets) /\ (c.cmd = "navigate" => c.job \in WithAssets)
  /\ c.cmd = "print" => loadedBy[c.job] # "none"
  /\ c.cmd = "close" => opened[c.job]

\* What a message on its way back means.
Returned(m) ==
  IF m.kind = "load" THEN m.cmd = "loaded" => doc[m.job] = "loaded"
  ELSE Says(m.job, m.kind, m.cmd)

\* The event of a document that has loaded is there to be waited for.
Event(j) ==
  at[j] \in {"content", "navigate", "load"} /\ doc[j] = "loaded" /\ up =>
    "loaded" \in Range(inbox[j]) \/ [job |-> j, kind |-> "load", cmd |-> "loaded"] \in Range(back)

\* The order to close the tab is not lost.
Closing(j) ==
  /\ \/ at[j] = "close" /\ reply[j] # "unsent"
     \/ at[j] \in {"forget", "returned"} /\ opened[j]
  /\ up
  => tab[j] = "closed" \/ [job |-> j, cmd |-> "close"] \in Range(wire)

Conversion(j) ==
  /\ Place(j) /\ Tab(j) /\ Event(j) /\ Closing(j)
  /\ reply[j] \in {"ok", "error"} => Says(j, reply[j], at[j])

InstanceInv ==
  /\ Types /\ Injective(wire)
  /\ \A j \in Jobs : Conversion(j)
  /\ \A c \in Range(wire) : Written(c)
  /\ \A m \in Range(back) : Returned(m)

-----------------------------------------------------------------------------
(* The worker's steps *)

\* Convert only goes forward.
LEMMA Forward ==
  /\ \A l \in Labels : Order[l] \in 0 .. 12
  /\ \A j \in Jobs, l \in Labels \ {"returned", "idle"} :
       Succ(j)[l] \in Labels \ {"idle", "create"} /\ Order[l] < Order[Succ(j)[l]]
  /\ Commands \subseteq Labels
BY DEF Labels, Commands, Order, Succ

\* What is on the connection.
LEMMA Contents ==
  Types => Range(wire) \subseteq Orders /\ Range(back) \subseteq Answers \cup Events
<1>1. Types => wire \in Seq(Orders) /\ back \in Seq(Answers \cup Events)
  BY DEF Types
<1>2. \A S : \A s \in Seq(S) : Range(s) \subseteq S
  BY RangeIs
<1> QED
  BY <1>1, <1>2

\* A step of a conversion that writes nothing: the others, what is on the wire and
\* what is on its way back keep their meaning.
LEMMA WorkerStep ==
  ASSUME InstanceInv, NEW j \in Jobs, Types',
         UNCHANGED <<up, wire, back, tab, doc, printed>>,
         \A k \in Jobs \ {j} : /\ at'[k] = at[k] /\ reply'[k] = reply[k] /\ result'[k] = result[k]
                               /\ listening'[k] = listening[k] /\ inbox'[k] = inbox[k]
                               /\ opened'[k] = opened[k] /\ loadedBy'[k] = loadedBy[k],
         Order[at[j]] < Order[at'[j]],
         opened[j] => opened'[j],
         loadedBy[j] # "none" => loadedBy'[j] = loadedBy[j],
         Conversion(j)'
  PROVE  InstanceInv'
<1>0. Types /\ Range(wire) \subseteq Orders /\ Range(back) \subseteq Answers \cup Events
  BY Contents DEF InstanceInv
<1>1. ASSUME NEW k \in Jobs \ {j} PROVE Conversion(k)'
  BY <1>1 DEF InstanceInv, Conversion, Place, Tab, Event, Closing, Says
<1>2. ASSUME NEW c \in Range(wire) PROVE Written(c)'
  <2>1. c.job \in Jobs /\ c.cmd \in Labels /\ Written(c)
    BY <1>0, Forward DEF Orders, InstanceInv
  <2>2. CASE c.job = j
    <3>1. Order[c.cmd] \in Int /\ Order[at[j]] \in Int /\ Order[at'[j]] \in Int
      <4>1. at[j] \in Labels /\ at'[j] \in Labels
        BY <1>0 DEF Types
      <4> QED
        BY <2>1, <4>1, Forward
    <3> QED
      BY <2>1, <2>2, <3>1 DEF Written
  <2>3. CASE c.job # j
    BY <2>1, <2>3 DEF Written
  <2> QED
    BY <2>2, <2>3
<1>3. ASSUME NEW m \in Range(back) PROVE Returned(m)'
  <2>1. m.job \in Jobs /\ Returned(m)
    BY <1>0 DEF Answers, Events, InstanceInv
  <2>2. loadedBy[m.job] = "blank" => loadedBy'[m.job] = "blank"
    BY <2>1
  <2> QED
    BY <2>1, <2>2 DEF Returned, Says
<1> QED
  BY <1>1, <1>2, <1>3 DEF InstanceInv, Injective

\* A step that succeeds, of a conversion that neither hears nor learns anything by it.
LEMMA GoesOn ==
  ASSUME InstanceInv, NEW j \in Jobs, Goes(j),
         UNCHANGED <<ctxDone, result, inbox, loadedBy, up, wire, back, browserVars>>,
         \/ at[j] \in {"idle", "forget"} /\ UNCHANGED opened
         \/ at[j] = "subscribe" /\ UNCHANGED opened /\ listening'[j]
         \/ at[j] \in Commands \ {"print"} /\ reply[j] = "ok"
            /\ opened' = [opened EXCEPT ![j] = @ \/ at[j] = "attach"],
         listening' \in [Jobs -> BOOLEAN], at[j] # "forget" /\ listening[j] => listening'[j],
         \A k \in Jobs \ {j} : listening'[k] = listening[k]
  PROVE  InstanceInv'
<1>0. Types /\ Conversion(j) /\ at[j] \in Labels \ {"returned"}
  BY DEF InstanceInv, Types, Labels, Commands
<1>1. at' = [at EXCEPT ![j] = Succ(j)[@]] /\ reply' = [reply EXCEPT ![j] = "unsent"]
  BY DEF Goes
<1>2. at'[j] = Succ(j)[at[j]] /\ at'[j] \in Labels /\ Order[at[j]] < Order[at'[j]]
  BY <1>0, <1>1 DEF Types, Labels, Commands, Succ, Order
<1>3. Types'
  BY <1>0, <1>1, <1>2 DEF Types, browserVars
<1>4. Place(j)'
  <2>1. reply'[j] = "unsent" /\ UNCHANGED <<tab, doc, loadedBy, result>>
    BY <1>0, <1>1 DEF Types, browserVars
  <2>2. CASE at[j] = "idle"
    BY <1>0, <1>2, <2>1, <2>2 DEF Conversion, Place, Succ, Order, Commands
  <2>3. CASE at[j] = "forget"
    BY <1>0, <1>2, <2>1, <2>3 DEF Conversion, Place, Succ, Order, Commands
  <2>4. CASE at[j] = "subscribe"
    BY <1>0, <1>2, <2>1, <2>4 DEF Conversion, Place, Succ, Order, Commands
  <2>5. CASE at[j] \in Commands
    <3> USE <1>0, <1>2, <2>1 DEF Types, Conversion, Place, Succ, Order
    <3>1. CASE at[j] = "create"
      BY <3>1
    <3>2. CASE at[j] = "attach"
      <4>1. opened' = [opened EXCEPT ![j] = TRUE]
        BY <3>2 DEF Commands
      <4>2. opened'[j]
        BY <4>1
      <4> QED
        BY <3>2, <4>2
    <3>3. CASE at[j] \in {"page", "network"}
      BY <3>3 DEF Commands
    <3>4. CASE at[j] = "frame"
      BY <3>4 DEF Commands
    <3>5. CASE at[j] \in {"content", "navigate"}
      BY <3>5 DEF Commands
    <3>6. CASE at[j] = "close"
      BY <3>6 DEF Commands
    <3> QED
      BY <2>5, <3>1, <3>2, <3>3, <3>4, <3>5, <3>6 DEF Commands
  <2> QED
    BY <2>2, <2>3, <2>4, <2>5
<1>5. Tab(j)'
  BY <1>0 DEF Types, Conversion, Tab, Says, browserVars, Commands
<1>6. Event(j)' /\ Closing(j)'
  BY <1>0, <1>2 DEF Types, Conversion, Place, Event, Closing, Says, Succ, Order, Commands, browserVars
<1>7. Conversion(j)'
  BY <1>0, <1>1, <1>4, <1>5, <1>6 DEF Types, Conversion
<1>8. opened[j] => opened'[j]
  BY <1>0 DEF Types
<1> QED
  BY <1>0, <1>1, <1>2, <1>3, <1>7, <1>8, WorkerStep DEF Types, browserVars

\* A step that fails.
LEMMA LeavesOff ==
  ASSUME InstanceInv, NEW j \in Jobs, NEW o \in {"err", "ctx"}, Leaves(j, o),
         at[j] \in Commands \cup {"load", "subscribe"},
         at[j] = "close" => ~up \/ reply[j] # "unsent"
  PROVE  InstanceInv'
<1>0. Types /\ Conversion(j) /\ at[j] \in Labels \ {"returned"}
  BY DEF InstanceInv, Types, Labels, Commands
<1>1. /\ reply' = [reply EXCEPT ![j] = "unsent"]
      /\ UNCHANGED <<ctxDone, listening, inbox, opened, loadedBy, up, wire, back, browserVars>>
      /\ at'[j] = CASE at[j] \in {"create", "attach"} -> "returned"
                    [] at[j] = "close" -> "forget" [] OTHER -> "close"
      /\ result' = IF at[j] = "close" THEN result ELSE [result EXCEPT ![j] = o]
      /\ \A k \in Jobs \ {j} : at'[k] = at[k]
      /\ at' \in [Jobs -> Labels]
  <2> DEFINE next == CASE at[j] \in {"create", "attach"} -> "returned"
                       [] at[j] = "close" -> "forget" [] OTHER -> "close"
  <2>1. /\ reply' = [reply EXCEPT ![j] = "unsent"]
        /\ UNCHANGED <<ctxDone, listening, inbox, opened, loadedBy, up, wire, back, browserVars>>
        /\ at' = [at EXCEPT ![j] = next]
        /\ result' = IF at[j] = "close" THEN result ELSE [result EXCEPT ![j] = o]
    BY DEF Leaves
  <2>2. next \in Labels
    BY DEF Labels, Commands
  <2> HIDE DEF next
  <2>3. at'[j] = next /\ at' \in [Jobs -> Labels] /\ \A k \in Jobs \ {j} : at'[k] = at[k]
    BY <1>0, <2>1, <2>2 DEF Types
  <2> QED
    BY <2>1, <2>3 DEF next
<1>2. Order[at[j]] < Order[at'[j]]
  BY <1>0, <1>1 DEF Labels, Commands, Order
<1>3. Types'
  BY <1>0, <1>1 DEF Types, browserVars
<1>4. Place(j)'
  <2>1. reply'[j] = "unsent" /\ UNCHANGED <<tab, doc, loadedBy, opened>>
    BY <1>0, <1>1 DEF Types, browserVars
  <2>2. at'[j] \in {"returned", "forget", "close"} /\ (at'[j] # "returned" => opened'[j])
    BY <1>0, <1>1, <2>1 DEF Conversion, Place, Commands
  <2> QED
    BY <2>1, <2>2 DEF Place, Order
<1>5. Tab(j)'
  BY <1>0, <1>1 DEF Types, Conversion, Tab, browserVars
<1>6. Event(j)' /\ Closing(j)'
  BY <1>0, <1>1 DEF Types, Conversion, Place, Event, Closing, browserVars, Commands
<1>7. Conversion(j)'
  BY <1>0, <1>1, <1>4, <1>5, <1>6 DEF Types, Conversion
<1> QED
  BY <1>0, <1>1, <1>2, <1>3, <1>7, WorkerStep DEF Types, browserVars

\* The wait for the load event ends with the first event in the channel.
LEMMA EventTaken == ASSUME InstanceInv, NEW j \in Jobs, WaitForEvent(j) PROVE InstanceInv'
<1>0. Types /\ Conversion(j)
  BY DEF InstanceInv
<1>1. /\ at[j] = "load" /\ inbox[j] # << >> /\ inbox[j] \in Seq(Loaded)
      /\ at' = [at EXCEPT ![j] = "print"] /\ reply' = [reply EXCEPT ![j] = "unsent"]
      /\ loadedBy' = [loadedBy EXCEPT ![j] = Head(inbox[j])]
      /\ inbox' = [inbox EXCEPT ![j] = Tail(@)]
      /\ UNCHANGED <<ctxDone, result, listening, opened, up, wire, back, browserVars>>
  BY <1>0 DEF Types, WaitForEvent, Goes, Succ
<1>2. /\ Head(inbox[j]) \in Loaded /\ Tail(inbox[j]) \in Seq(Loaded)
      /\ Head(inbox[j]) \in Range(inbox[j]) /\ Range(Tail(inbox[j])) \subseteq Range(inbox[j])
  BY <1>1, RangeOfTail
<1>3. Types'
  BY <1>0, <1>1, <1>2 DEF Types, browserVars, Labels, Commands
<1>4. at'[j] = "print" /\ reply'[j] = "unsent" /\ loadedBy'[j] = Head(inbox[j]) /\ inbox'[j] = Tail(inbox[j])
  BY <1>0, <1>1 DEF Types
<1>5. Conversion(j)'
  BY <1>0, <1>1, <1>2, <1>4 DEF Conversion, Place, Tab, Event, Closing, Order, Commands, Loaded,
       browserVars
<1>6. loadedBy[j] = "none" /\ Order[at[j]] < Order[at'[j]]
  BY <1>0, <1>1, <1>4 DEF Conversion, Place, Order
<1> QED
  BY <1>0, <1>1, <1>3, <1>5, <1>6, WorkerStep DEF Types, browserVars

\* send puts the command on the wire.
LEMMA CommandWritten == ASSUME InstanceInv, NEW j \in Jobs, Write(j) PROVE InstanceInv'
<1> DEFINE c == [job |-> j, cmd |-> at[j]]
<1>0. Types /\ Conversion(j) /\ \A d \in Range(wire) : Written(d)
  BY DEF InstanceInv
<1>1. /\ at[j] \in Commands /\ reply[j] = "unsent" /\ wire' = Append(wire, c)
      /\ reply' = [reply EXCEPT ![j] = "wait"]
      /\ UNCHANGED <<at, ctxDone, result, listening, inbox, opened, loadedBy, up, back, browserVars>>
  BY DEF Write
<1>2. c \in Orders /\ c.job = j /\ c.cmd = at[j]
  BY <1>1 DEF Orders
<1>3. c \notin Range(wire)
  <2>1. Order[at[j]] \in Int
    BY <1>1, Forward
  <2> QED
    BY <1>0, <1>1, <1>2, <2>1 DEF Written
<1> HIDE DEF c
<1>4. wire' \in Seq(Orders) /\ Range(wire') = Range(wire) \cup {c} /\ Injective(wire')
  BY <1>0, <1>1, <1>2, <1>3, RangeOfAppend, InjectiveAppend DEF Types, InstanceInv
<1>5. Types'
  BY <1>0, <1>1, <1>4 DEF Types, browserVars
<1>6. reply'[j] = "wait" /\ \A k \in Jobs \ {j} : reply'[k] = reply[k]
  BY <1>0, <1>1 DEF Types
<1>7. ASSUME NEW k \in Jobs PROVE Conversion(k)'
  <2>1. Conversion(k)
    BY DEF InstanceInv
  <2>2. Closing(k)'
    BY <1>1, <1>2, <1>4, <1>6, <2>1 DEF Conversion, Closing, browserVars, c
  <2> QED
    BY <1>1, <1>6, <2>1, <2>2 DEF Conversion, Place, Tab, Event, Says, browserVars
<1>8. ASSUME NEW d \in Range(wire') PROVE Written(d)'
  <2>1. CASE d = c
    BY <1>0, <1>1, <1>2, <1>6, <2>1 DEF Conversion, Place, Written, Order, browserVars
  <2>2. CASE d # c
    BY <1>0, <1>1, <1>2, <1>4, <1>6, <2>2, Contents DEF Written, Orders, browserVars
  <2> QED
    BY <2>1, <2>2
<1>9. ASSUME NEW m \in Range(back') PROVE Returned(m)'
  BY <1>1, <1>9 DEF InstanceInv, Returned, Says, browserVars
<1> QED
  BY <1>4, <1>5, <1>7, <1>8, <1>9 DEF InstanceInv

\* Convert's steps, all of them.
LEMMA ConvertStep ==
  ASSUME InstanceInv, NEW j \in Jobs, Begin(j) \/ Convert(j) PROVE InstanceInv'
<1>0. Types /\ Conversion(j)
  BY DEF InstanceInv
<1>1. CASE Begin(j)
  BY <1>0, <1>1, GoesOn DEF Begin, Types
<1>2. CASE WriteFails(j)
  BY <1>2, LeavesOff DEF WriteFails
<1>3. CASE TakeAnswer(j)
  <2>1. at[j] \in Commands /\ reply[j] = "ok" /\ Goes(j)
        /\ result' = (IF at[j] = "print" THEN [result EXCEPT ![j] = "pdf"] ELSE result)
        /\ opened' = [opened EXCEPT ![j] = @ \/ at[j] = "attach"]
        /\ UNCHANGED <<ctxDone, listening, inbox, loadedBy, up, wire, back, browserVars>>
    BY <1>0, <1>3 DEF TakeAnswer, Conversion, Place
  <2>2. CASE at[j] # "print"
    BY <1>0, <2>1, <2>2, GoesOn DEF Types
  <2>3. CASE at[j] = "print"
    <3>1. /\ at' = [at EXCEPT ![j] = "close"] /\ reply' = [reply EXCEPT ![j] = "unsent"]
          /\ opened' = opened /\ result' = [result EXCEPT ![j] = "pdf"]
      BY <1>0, <2>1, <2>3 DEF Types, Goes, Succ
    <3>2. at'[j] = "close" /\ reply'[j] = "unsent" /\ result'[j] = "pdf"
      BY <1>0, <3>1 DEF Types
    <3>3. Types'
      BY <1>0, <2>1, <3>1 DEF Types, browserVars, Labels, Commands
    <3>4. Conversion(j)'
      BY <1>0, <2>1, <2>3, <3>1, <3>2 DEF Conversion, Place, Tab, Event, Closing, Says, Order, browserVars
    <3>5. Order[at[j]] < Order[at'[j]]
      BY <2>3, <3>2 DEF Order
    <3> QED
      BY <1>0, <2>1, <3>1, <3>3, <3>4, <3>5, WorkerStep DEF Types, browserVars
  <2> QED
    BY <2>2, <2>3
<1>4. CASE TakeError(j)
  BY <1>0, <1>4, LeavesOff DEF TakeError, Conversion, Place
<1>5. CASE Cancel(j)
  BY <1>0, <1>5, LeavesOff DEF Cancel, Conversion, Place
<1>6. CASE Subscribe(j)
  BY <1>0, <1>6, GoesOn DEF Subscribe, Types
<1>7. CASE AssetServerFails(j)
  BY <1>7, LeavesOff DEF AssetServerFails
<1>8. CASE Forget(j)
  BY <1>0, <1>8, GoesOn DEF Forget, Types
<1> QED
  BY <1>1, <1>2, <1>3, <1>4, <1>5, <1>6, <1>7, <1>8, CommandWritten, EventTaken DEF Convert

-----------------------------------------------------------------------------
(* The read loop, the browser and the connection *)

\* An answer is given to the command that waits for it, or dropped.
LEMMA AnswerRead == ASSUME InstanceInv, ReadAnswer PROVE InstanceInv'
<1> DEFINE a == Head(back)
<1>0. Types /\ back \in Seq(Answers \cup Events)
  BY DEF InstanceInv, Types
<1>1. /\ back # << >> /\ a.kind # "load"
      /\ reply' = IF at[a.job] = a.cmd /\ reply[a.job] = "wait"
                  THEN [reply EXCEPT ![a.job] = a.kind] ELSE reply
      /\ back' = Tail(back)
      /\ UNCHANGED <<at, ctxDone, result, listening, inbox, opened, loadedBy, up, wire, browserVars>>
  BY DEF ReadAnswer
<1>2. /\ back' \in Seq(Answers \cup Events) /\ Range(back) = Range(back') \cup {a}
      /\ a \in Range(back) /\ a \in Answers \cup Events
  BY <1>0, <1>1, RangeOfTail
<1>3. a.job \in Jobs /\ a.kind \in {"ok", "error"} /\ Says(a.job, a.kind, a.cmd)
  BY <1>1, <1>2 DEF InstanceInv, Answers, Events, Returned
<1> HIDE DEF a
<1>4. Types'
  BY <1>0, <1>1, <1>2, <1>3 DEF Types, browserVars
<1>5. \A k \in Jobs : \/ reply'[k] = reply[k]
                      \/ reply[k] = "wait" /\ reply'[k] = a.kind /\ k = a.job /\ at[k] = a.cmd
  BY <1>0, <1>1, <1>3 DEF Types
<1>6. ASSUME NEW k \in Jobs PROVE Conversion(k)'
  <2>1. Conversion(k) /\ (reply'[k] = "unsent" <=> reply[k] = "unsent")
    BY <1>3, <1>5 DEF InstanceInv
  <2>2. Event(k)'
    BY <1>1, <1>2, <1>3, <2>1 DEF Conversion, Event, browserVars
  <2>3. Place(k)' /\ Tab(k)' /\ Closing(k)'
    BY <1>1, <2>1 DEF Conversion, Place, Tab, Closing, browserVars
  <2>4. reply'[k] \in {"ok", "error"} => Says(k, reply'[k], at[k])
    BY <1>3, <1>5, <2>1 DEF Conversion
  <2> QED
    BY <1>1, <2>2, <2>3, <2>4 DEF Conversion, Says, browserVars
<1>7. ASSUME NEW c \in Range(wire') PROVE Written(c)'
  <2>1. c \in Range(wire) /\ c.job \in Jobs /\ Written(c)
    BY <1>0, <1>1, <1>7, Contents DEF InstanceInv, Orders
  <2> QED
    BY <1>1, <1>3, <1>5, <2>1 DEF Written, browserVars
<1>8. ASSUME NEW m \in Range(back') PROVE Returned(m)'
  BY <1>1, <1>2 DEF InstanceInv, Returned, Says, browserVars
<1> QED
  BY <1>1, <1>4, <1>6, <1>7, <1>8 DEF InstanceInv

\* An event is put into the channel of its session's listener, or dropped.
LEMMA EventRead == ASSUME InstanceInv, ReadEvent PROVE InstanceInv'
<1> DEFINE e == Head(back)
<1>0. Types /\ back \in Seq(Answers \cup Events)
  BY DEF InstanceInv, Types
<1>1. /\ back # << >> /\ e.kind = "load"
      /\ inbox' = IF listening[e.job] THEN [inbox EXCEPT ![e.job] = Append(@, e.cmd)] ELSE inbox
      /\ back' = Tail(back)
      /\ UNCHANGED <<at, reply, ctxDone, result, listening, opened, loadedBy, up, wire, browserVars>>
  BY DEF ReadEvent
<1>2. /\ back' \in Seq(Answers \cup Events) /\ Range(back) = Range(back') \cup {e}
      /\ e \in Range(back) /\ e \in Answers \cup Events
  BY <1>0, <1>1, RangeOfTail
<1>3. e.job \in Jobs /\ e.cmd \in Loaded /\ (e.cmd = "loaded" => doc[e.job] = "loaded")
  BY <1>1, <1>2 DEF InstanceInv, Answers, Events, Returned
<1> HIDE DEF e
<1>4. ASSUME NEW k \in Jobs
      PROVE  IF listening[k] /\ k = e.job
             THEN inbox'[k] \in Seq(Loaded) /\ Range(inbox'[k]) = Range(inbox[k]) \cup {e.cmd}
             ELSE inbox'[k] = inbox[k]
  <2>1. inbox[k] \in Seq(Loaded)
    BY <1>0 DEF Types
  <2>2. Append(inbox[k], e.cmd) \in Seq(Loaded)
        /\ Range(Append(inbox[k], e.cmd)) = Range(inbox[k]) \cup {e.cmd}
    BY <1>3, <2>1, RangeOfAppend
  <2>3. CASE listening[k] /\ k = e.job
    BY <1>0, <1>1, <2>2, <2>3 DEF Types
  <2>4. CASE ~(listening[k] /\ k = e.job)
    BY <1>0, <1>1, <1>3, <2>4 DEF Types
  <2> QED
    BY <2>3, <2>4
<1>5. Types'
  <2>1. inbox' \in [Jobs -> Seq(Loaded)]
    <3>1. inbox' = [k \in Jobs |-> inbox'[k]]
      BY <1>0, <1>1 DEF Types
    <3>2. \A k \in Jobs : inbox'[k] \in Seq(Loaded)
      BY <1>0, <1>4 DEF Types
    <3> QED
      BY <3>1, <3>2
  <2> QED
    BY <1>0, <1>1, <1>2, <2>1 DEF Types, browserVars
<1>6. ASSUME NEW k \in Jobs PROVE Conversion(k)'
  <2>1. Conversion(k)
    BY DEF InstanceInv
  <2>2. Tab(k)'
    BY <1>1, <1>3, <1>4, <2>1 DEF Conversion, Tab, browserVars
  <2>3. Event(k)'
    <3>1. e = [job |-> k, kind |-> "load", cmd |-> "loaded"] => e.job = k /\ e.cmd = "loaded"
      OBVIOUS
    <3> QED
      BY <1>1, <1>2, <1>4, <2>1, <3>1 DEF Conversion, Place, Event, browserVars
  <2> QED
    BY <1>1, <2>1, <2>2, <2>3 DEF Conversion, Place, Closing, Says, browserVars
<1>7. ASSUME NEW c \in Range(wire') PROVE Written(c)'
  BY <1>1, <1>7 DEF InstanceInv, Written, browserVars
<1>8. ASSUME NEW m \in Range(back') PROVE Returned(m)'
  BY <1>1, <1>2 DEF InstanceInv, Returned, Says, browserVars
<1> QED
  BY <1>1, <1>5, <1>6, <1>7, <1>8 DEF InstanceInv

\* A document finishes loading, and its event is on its way.
LEMMA DocumentLoads == ASSUME InstanceInv, NEW j \in Jobs, Loads(j) PROVE InstanceInv'
<1> DEFINE e == [job |-> j, kind |-> "load", cmd |-> doc'[j]]
<1>0. Types /\ Conversion(j)
  BY DEF InstanceInv
<1>1. /\ tab[j] = "open" /\ up
      /\ \/ doc[j] = "opening" /\ doc' = [doc EXCEPT ![j] = "blank"]
         \/ doc[j] = "loading" /\ doc' = [doc EXCEPT ![j] = "loaded"]
      /\ back' = Append(back, e)
      /\ UNCHANGED <<clientVars, ctxDone, up, wire, tab, printed>>
  BY DEF Loads, Sends
<1>2. /\ doc'[j] \in Loaded /\ (doc'[j] = "loaded" <=> doc[j] = "loading")
      /\ doc[j] \in {"opening", "loading"} /\ \A k \in Jobs \ {j} : doc'[k] = doc[k]
      /\ doc' \in [Jobs -> Documents]
  BY <1>0, <1>1 DEF Types, Loaded, Documents
<1>3. e \in Events /\ e.job = j /\ e.kind = "load" /\ e.cmd = doc'[j]
  BY <1>2 DEF Events
<1> HIDE DEF e
<1>4. back' \in Seq(Answers \cup Events) /\ Range(back') = Range(back) \cup {e}
  <2>1. back \in Seq(Answers \cup Events) /\ e \in Answers \cup Events
    BY <1>0, <1>3 DEF Types
  <2> QED
    BY <1>1, <2>1, RangeOfAppend
<1>5. Types'
  BY <1>0, <1>1, <1>2, <1>4 DEF Types, clientVars
<1>6. ASSUME NEW k \in Jobs PROVE Conversion(k)'
  <2>1. Conversion(k)
    BY DEF InstanceInv
  <2>2. Place(k)' /\ Tab(k)'
    BY <1>1, <1>2, <2>1 DEF Conversion, Place, Tab, clientVars
  <2>3. Event(k)'
    BY <1>1, <1>2, <1>4, <2>1 DEF Conversion, Event, clientVars, e
  <2> QED
    BY <1>1, <2>1, <2>2, <2>3 DEF Conversion, Closing, Says, clientVars
<1>7. ASSUME NEW c \in Range(wire') PROVE Written(c)'
  <2>1. c \in Range(wire) /\ c.job \in Jobs /\ Written(c)
    BY <1>0, <1>1, <1>7, Contents DEF InstanceInv, Orders
  <2> QED
    BY <1>1, <1>2, <2>1 DEF Written, clientVars
<1>8. ASSUME NEW m \in Range(back') PROVE Returned(m)'
  <2>1. CASE m = e
    BY <1>3, <2>1 DEF Returned
  <2>2. CASE m # e
    <3>1. m \in Range(back) /\ m.job \in Jobs /\ Returned(m)
      BY <1>0, <1>4, <1>8, <2>2, Contents DEF InstanceInv, Answers, Events
    <3> QED
      BY <1>1, <1>2, <3>1 DEF Returned, Says, clientVars
  <2> QED
    BY <2>1, <2>2
<1> QED
  BY <1>1, <1>5, <1>6, <1>7, <1>8 DEF InstanceInv, clientVars

\* The browser takes a command off the wire and answers it: what every such step shares.
LEMMA CommandTaken ==
  ASSUME InstanceInv, NEW i \in 1 .. Len(wire), NEW kind \in {"ok", "error"},
         wire' = RemoveAt(wire, i), Sends(wire[i].job, kind, wire[i].cmd)
  PROVE  /\ wire[i] \in Range(wire) /\ wire[i].job \in Jobs /\ wire[i].cmd \in Commands
         /\ wire' \in Seq(Orders) /\ Injective(wire') /\ Range(wire') = Range(wire) \ {wire[i]}
         /\ back' \in Seq(Answers \cup Events)
         /\ Range(back') = Range(back) \cup {[job |-> wire[i].job, kind |-> kind, cmd |-> wire[i].cmd]}
         /\ \A d \in Range(wire') :
              d \in Range(wire) /\ d.job \in Jobs /\ Written(d)
              /\ (d.job = wire[i].job => d.cmd # wire[i].cmd)
<1>0. wire \in Seq(Orders) /\ back \in Seq(Answers \cup Events) /\ Injective(wire)
  BY DEF InstanceInv, Types
<1>1. /\ wire' \in Seq(Orders) /\ Injective(wire') /\ Range(wire') = Range(wire) \ {wire[i]}
      /\ wire[i] \in Orders /\ wire[i] \in Range(wire)
  BY <1>0, RangeOfRemove
<1>2. wire[i].job \in Jobs /\ wire[i].cmd \in Commands
  BY <1>1 DEF Orders
<1>3. [job |-> wire[i].job, kind |-> kind, cmd |-> wire[i].cmd] \in Answers \cup Events
  BY <1>2 DEF Answers
<1>4. /\ back' \in Seq(Answers \cup Events)
      /\ Range(back') = Range(back) \cup {[job |-> wire[i].job, kind |-> kind, cmd |-> wire[i].cmd]}
  BY <1>0, <1>3, RangeOfAppend DEF Sends
<1>5. ASSUME NEW d \in Range(wire')
      PROVE  /\ d \in Range(wire) /\ d.job \in Jobs /\ Written(d)
             /\ d.job = wire[i].job => d.cmd # wire[i].cmd
  <2>1. d \in Range(wire) /\ d \in Orders /\ wire[i] \in Orders /\ d # wire[i]
    BY <1>0, <1>1, RangeIs
  <2> QED
    BY <2>1 DEF Orders, InstanceInv
<1> QED
  BY <1>1, <1>2, <1>4, <1>5

\* A command is refused; the one to close a tab only when there is none to close.
LEMMA CommandRefused ==
  ASSUME InstanceInv, NEW i \in 1 .. Len(wire), Refuse(i) PROVE InstanceInv'
<1> DEFINE j == wire[i].job   c == wire[i].cmd
           m == [job |-> j, kind |-> "error", cmd |-> c]
<1>0. Types
  BY DEF InstanceInv
<1>1. /\ c = "close" => tab[j] # "open"
      /\ Sends(j, "error", c) /\ wire' = RemoveAt(wire, i)
      /\ UNCHANGED <<clientVars, ctxDone, up, browserVars>>
  BY DEF Refuse
<1>2. /\ wire[i] \in Range(wire) /\ j \in Jobs /\ c \in Commands
      /\ wire' \in Seq(Orders) /\ Injective(wire') /\ Range(wire') = Range(wire) \ {wire[i]}
      /\ back' \in Seq(Answers \cup Events) /\ Range(back') = Range(back) \cup {m}
      /\ \A d \in Range(wire') : d \in Range(wire) /\ Written(d)
  BY <1>1, CommandTaken
<1>3. m.job = j /\ m.kind = "error" /\ m.cmd = c
  OBVIOUS
<1>4. c = "close" => tab[j] = "closed"
  BY <1>0, <1>1, <1>2 DEF InstanceInv, Conversion, Written, Tab, Types
<1> HIDE DEF m
<1>5. Types'
  BY <1>0, <1>1, <1>2 DEF Types, clientVars, browserVars
<1>6. ASSUME NEW k \in Jobs PROVE Conversion(k)'
  <2>1. Conversion(k)
    BY DEF InstanceInv
  <2>2. Closing(k)'
    <3>1. wire[i] = [job |-> k, cmd |-> "close"] => j = k /\ c = "close"
      OBVIOUS
    <3> QED
      BY <1>1, <1>2, <1>4, <2>1, <3>1 DEF Conversion, Closing, clientVars, browserVars
  <2> QED
    BY <1>1, <1>2, <2>1, <2>2 DEF Conversion, Place, Tab, Event, Says, clientVars, browserVars
<1>7. ASSUME NEW d \in Range(wire') PROVE Written(d)'
  BY <1>1, <1>2 DEF Written, clientVars, browserVars
<1>8. ASSUME NEW n \in Range(back') PROVE Returned(n)'
  <2>1. CASE n = m
    BY <1>1, <1>3, <1>4, <2>1 DEF Returned, Says, browserVars, clientVars
  <2>2. CASE n # m
    BY <1>1, <1>2, <2>2 DEF InstanceInv, Returned, Says, clientVars, browserVars
  <2> QED
    BY <2>1, <2>2
<1> QED
  BY <1>1, <1>2, <1>5, <1>6, <1>7, <1>8 DEF InstanceInv

\* A command is carried out.
LEMMA CommandHandled ==
  ASSUME InstanceInv, NEW i \in 1 .. Len(wire), NEW j, NEW c,
         wire[i].job = j, wire[i].cmd = c, Handle(i)
  PROVE  InstanceInv'
<1> DEFINE m == [job |-> j, kind |-> "ok", cmd |-> c]
<1>0. Types
  BY DEF InstanceInv
<1>1. /\ (tab[j] = "open") = (c # "create")
      /\ tab' = CASE c = "create" -> [tab EXCEPT ![j] = "open"]
                  [] c = "close"  -> [tab EXCEPT ![j] = "closed"]
                  [] OTHER -> tab
      /\ doc' = CASE c = "create" -> [doc EXCEPT ![j] = "opening"]
                  [] c \in {"content", "navigate"} -> [doc EXCEPT ![j] = "loading"]
                  [] OTHER -> doc
      /\ printed' = IF c = "print" THEN [printed EXCEPT ![j] = doc[j]] ELSE printed
      /\ Sends(j, "ok", c) /\ wire' = RemoveAt(wire, i)
      /\ UNCHANGED <<clientVars, ctxDone, up>>
  BY DEF Handle
<1>2. /\ wire[i] \in Range(wire) /\ j \in Jobs /\ c \in Commands
      /\ wire' \in Seq(Orders) /\ Injective(wire') /\ Range(wire') = Range(wire) \ {wire[i]}
      /\ back' \in Seq(Answers \cup Events) /\ Range(back') = Range(back) \cup {m}
      /\ \A d \in Range(wire') : d \in Range(wire) /\ d.job \in Jobs /\ Written(d) /\ (d.job = j => d.cmd # c)
  BY <1>1, CommandTaken
<1>3. m.job = j /\ m.kind = "ok" /\ m.cmd = c
  OBVIOUS
<1>4. Written(wire[i]) /\ Conversion(j)
  BY <1>2 DEF InstanceInv
<1>5. \A d \in Range(wire) : wire[i] = d => d.job = j /\ d.cmd = c
  OBVIOUS
<1>6. wire[i] = [job |-> j, cmd |-> "close"] => c = "close"
  OBVIOUS
<1> HIDE DEF m
<1>7. /\ tab'[j] = CASE c = "create" -> "open" [] c = "close" -> "closed" [] OTHER -> tab[j]
      /\ doc'[j] = CASE c = "create" -> "opening" [] c \in {"content", "navigate"} -> "loading"
                     [] OTHER -> doc[j]
      /\ printed'[j] = IF c = "print" THEN doc[j] ELSE printed[j]
      /\ \A k \in Jobs \ {j} : tab'[k] = tab[k] /\ doc'[k] = doc[k] /\ printed'[k] = printed[k]
  BY <1>0, <1>1, <1>2 DEF Types
<1>8. Types'
  BY <1>0, <1>1, <1>2 DEF Types, clientVars, Documents
<1>9. Order[c] \in Int /\ Order[at[j]] \in Int
  <2>1. c \in Labels /\ at[j] \in Labels
    BY <1>0, <1>2 DEF Types, Labels
  <2> QED
    BY <2>1, Forward
<1>10. Place(j)'
  BY <1>0, <1>1, <1>4, <1>7, <1>9 DEF Types, Conversion, Place, Written, Order, clientVars
<1>11. Tab(j)'
  BY <1>0, <1>1, <1>2, <1>4, <1>7 DEF Types, Conversion, Tab, Written, clientVars, Loaded
<1>12. Event(j)'
  BY <1>1, <1>2, <1>4, <1>7 DEF Conversion, Event, clientVars
<1>13. Closing(j)'
  BY <1>1, <1>2, <1>4, <1>6, <1>7 DEF Conversion, Closing, Tab, Written, clientVars
<1>14. ASSUME NEW kind, NEW d, Says(j, kind, d) PROVE Says(j, kind, d)'
  BY <1>0, <1>1, <1>2, <1>4, <1>7, <1>14 DEF Types, Conversion, Says, Tab, Written, clientVars, Loaded
<1>15. ASSUME NEW k \in Jobs \ {j} PROVE Conversion(k)'
  <2>1. Conversion(k)
    BY DEF InstanceInv
  <2>2. Closing(k)'
    <3>1. wire[i] # [job |-> k, cmd |-> "close"]
      BY <1>15
    <3> QED
      BY <1>1, <1>2, <1>7, <2>1, <3>1 DEF Conversion, Closing, clientVars
  <2> QED
    BY <1>1, <1>2, <1>7, <2>1, <2>2 DEF Conversion, Place, Tab, Event, Says, clientVars
<1>16. Conversion(j)'
  BY <1>1, <1>4, <1>10, <1>11, <1>12, <1>13, <1>14 DEF Conversion, clientVars
<1>17. ASSUME NEW d \in Range(wire') PROVE Written(d)'
  BY <1>1, <1>2, <1>4, <1>7 DEF Written, clientVars
<1>18. ASSUME NEW n \in Range(back') PROVE Returned(n)'
  <2>1. CASE n = m
    BY <1>0, <1>1, <1>2, <1>3, <1>4, <1>7, <2>1 DEF Types, Conversion, Returned, Says, Tab, Written,
         clientVars, Loaded
  <2>2. CASE n # m
    <3>1. n.job \in Jobs /\ Returned(n)
      BY <1>0, <1>2, <1>18, <2>2, Contents DEF InstanceInv, Answers, Events
    <3>2. CASE n.job = j
      BY <1>1, <1>4, <1>7, <1>14, <3>1, <3>2 DEF Conversion, Returned, Tab, Written
    <3>3. CASE n.job # j
      BY <1>1, <1>7, <3>1, <3>3 DEF Returned, Says, clientVars
    <3> QED
      BY <3>2, <3>3
  <2> QED
    BY <2>1, <2>2
<1> QED
  BY <1>1, <1>2, <1>8, <1>15, <1>16, <1>17, <1>18 DEF InstanceInv

\* No step breaks it.
LEMMA InstanceStep == ASSUME InstanceInv, [Next]_vars PROVE InstanceInv'
<1>1. CASE (\E j \in Jobs : CtxEnds(j)) \/ UNCHANGED vars
  <2>1. Types /\ ctxDone' \in [Jobs -> BOOLEAN] /\ UNCHANGED <<clientVars, up, wire, back, browserVars>>
    BY <1>1 DEF CtxEnds, vars, InstanceInv, Types
  <2>2. Types' /\ Injective(wire)'
    BY <2>1 DEF InstanceInv, Types, Injective, clientVars, browserVars
  <2>3. ASSUME NEW k \in Jobs PROVE Conversion(k)'
    <3>1. Place(k)' /\ Tab(k)'
      BY <2>1 DEF InstanceInv, Conversion, Place, Tab, clientVars, browserVars
    <3>2. Event(k)' /\ Closing(k)'
      BY <2>1 DEF InstanceInv, Conversion, Event, Closing, clientVars, browserVars
    <3> QED
      BY <2>1, <3>1, <3>2 DEF InstanceInv, Conversion, Says, clientVars, browserVars
  <2>4. ASSUME NEW c \in Range(wire') PROVE Written(c)'
    BY <2>1, <2>4 DEF InstanceInv, Written, clientVars, browserVars
  <2>5. ASSUME NEW m \in Range(back') PROVE Returned(m)'
    BY <2>1, <2>5 DEF InstanceInv, Returned, Says, clientVars, browserVars
  <2> QED
    BY <2>2, <2>3, <2>4, <2>5 DEF InstanceInv
<1>2. CASE Drop
  <2>1. /\ up' = FALSE /\ wire' = << >> /\ back' = << >> /\ UNCHANGED <<clientVars, ctxDone, browserVars>>
    BY <1>2 DEF Drop
  <2>2. Range(wire') = {} /\ Range(back') = {} /\ Injective(wire')
    BY <2>1 DEF Range, Injective
  <2>3. Types'
    <3>1. << >> \in Seq(Orders) /\ << >> \in Seq(Answers \cup Events)
      OBVIOUS
    <3>2. wire' \in Seq(Orders) /\ back' \in Seq(Answers \cup Events) /\ up' \in BOOLEAN
      BY <2>1, <3>1
    <3> QED
      BY <2>1, <3>2 DEF InstanceInv, Types, clientVars, browserVars
  <2>4. \A j \in Jobs : Conversion(j)'
    BY <2>1 DEF InstanceInv, Conversion, Place, Tab, Event, Closing, Says, clientVars, browserVars
  <2> QED
    BY <2>2, <2>3, <2>4 DEF InstanceInv
<1> QED
  BY <1>1, <1>2, ConvertStep, AnswerRead, EventRead, DocumentLoads, CommandHandled, CommandRefused
  DEF Next, ReadLoop, Browser

\* It always holds.
LEMMA InstanceInvAlways == Spec => []InstanceInv
<1>1. Init => InstanceInv
  <2> SUFFICES ASSUME Init PROVE InstanceInv
    OBVIOUS
  <2>1. Range(wire) = {} /\ Range(back) = {} /\ Injective(wire)
    BY DEF Init, Range, Injective
  <2>2. \A j \in Jobs : Range(inbox[j]) = {}
    BY DEF Init, Range
  <2>3. Types
    BY DEF Init, Types, Labels, Documents
  <2>4. ASSUME NEW j \in Jobs PROVE Conversion(j)
    BY <2>2 DEF Init, Conversion, Place, Tab, Event, Closing, Order
  <2> QED
    BY <2>1, <2>3, <2>4 DEF InstanceInv
<1> QED
  BY <1>1, InstanceStep, PTL DEF Spec

-----------------------------------------------------------------------------
(* The theorems *)

\* The state of the conversions and of their connection is well formed.
THEOREM InstanceTypes == Spec => []TypeOK
<1>1. InstanceInv => TypeOK
  <2> SUFFICES ASSUME InstanceInv PROVE TypeOK
    OBVIOUS
  <2>1. Types /\ \A j \in Jobs : Place(j)
    BY DEF InstanceInv, Conversion
  <2>2. \A c \in Range(wire) : c.job \in Jobs /\ c.cmd \in Commands
    BY <2>1, Contents DEF Orders
  <2> QED
    BY <2>1, <2>2 DEF TypeOK, Types, Place, Loaded, Documents
<1> QED
  BY <1>1, InstanceInvAlways, PTL

\* A PDF shows its own document, loaded to the end, for any number of conversions
\* one after another and whatever of theirs comes late, unless the event that ended its
\* wait was that of its own tab's about:blank, which nothing in the code excludes
\* (instance.go:106).
THEOREM PrintsItsOwn == Spec => []PrintsOwnDocument
<1>1. InstanceInv => PrintsOwnDocument
  BY DEF InstanceInv, Conversion, Tab, PrintsOwnDocument
<1> QED
  BY <1>1, InstanceInvAlways, PTL

\* The event of a document that has loaded is never lost while somebody waits for it.
THEOREM LoadIsHeard == Spec => []LoadNotMissed
<1>1. InstanceInv => LoadNotMissed
  <2> SUFFICES ASSUME InstanceInv, NEW j \in Jobs, at[j] = "load", doc[j] = "loaded", up,
                      "loaded" \notin Range(inbox[j])
               PROVE  \E i \in 1 .. Len(back) : back[i] = [job |-> j, kind |-> "load", cmd |-> "loaded"]
    BY DEF LoadNotMissed
  <2>1. [job |-> j, kind |-> "load", cmd |-> "loaded"] \in Range(back)
    BY DEF InstanceInv, Conversion, Event
  <2>2. back \in Seq(Answers \cup Events)
    BY DEF InstanceInv, Types
  <2>3. Range(back) = {back[i] : i \in 1 .. Len(back)}
    BY <2>2, RangeIs
  <2> QED
    BY <2>1, <2>3
<1> QED
  BY <1>1, InstanceInvAlways, PTL

\* No tab of a session is left behind, however its conversion ended.
THEOREM TabsClose == Spec => []TabsAreClosed
<1>1. InstanceInv => TabsAreClosed
  BY DEF InstanceInv, Conversion, Closing, TabsAreClosed
<1> QED
  BY <1>1, InstanceInvAlways, PTL
=============================================================================
