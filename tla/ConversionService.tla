------------------------- MODULE ConversionService -------------------------
(***************************************************************************)
(* What a caller may expect of the pool, with no workers, browsers, gauges *)
(* or shutdown: a request joins a bounded line or is refused, the line is  *)
(* served in order by a bounded number of servers, a served request has    *)
(* one outcome, and its caller gets that outcome unless it left first.     *)
(***************************************************************************)
EXTENDS Naturals, Sequences, FiniteSets

CONSTANTS Requests, Capacity, Servers

VARIABLES line, serving, outcome, answer
vars == <<line, serving, outcome, answer>>

Outcomes == {"ok", "err", "ctx"}

Init ==
  /\ line = << >> /\ serving = {}
  /\ outcome = [r \in Requests |-> "none"]
  /\ answer = [r \in Requests |-> "none"]

Joined(r) ==
  \/ r \in serving \/ outcome[r] # "none"
  \/ \E i \in 1 .. Len(line) : line[i] = r

Join(r) ==
  /\ ~Joined(r) /\ answer[r] = "none" /\ Len(line) < Capacity
  /\ line' = Append(line, r)
  /\ UNCHANGED <<serving, outcome, answer>>

Refuse(r) ==
  /\ ~Joined(r) /\ answer[r] = "none"
  /\ \E a \in {"full", "ctx"} : answer' = [answer EXCEPT ![r] = a]
  /\ UNCHANGED <<line, serving, outcome>>

Serve ==
  /\ line # << >> /\ Cardinality(serving) < Servers
  /\ serving' = serving \cup {Head(line)}
  /\ line' = Tail(line)
  /\ UNCHANGED <<outcome, answer>>

Complete(r) ==
  /\ r \in serving /\ outcome[r] = "none"
  /\ serving' = serving \ {r}
  /\ \E o \in Outcomes : outcome' = [outcome EXCEPT ![r] = o]
  /\ UNCHANGED <<line, answer>>

Answer(r) ==
  /\ Joined(r) /\ answer[r] = "none"
  /\ \E a \in {outcome[r], "ctx"} \ {"none"} : answer' = [answer EXCEPT ![r] = a]
  /\ UNCHANGED <<line, serving, outcome>>

Next == Serve \/ \E r \in Requests : Join(r) \/ Refuse(r) \/ Complete(r) \/ Answer(r)

Spec == Init /\ [][Next]_vars
=============================================================================
