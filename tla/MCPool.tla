------------------------------- MODULE MCPool -------------------------------
(* Pool with requests that are alike, and bounds on what goes wrong at once. *)
EXTENDS Pool, TLC

Symmetric == Permutations(Requests)

Trouble ==
  {s \in Slots : \/ proc[s] = "died" \/ consecutiveFails[s] > 0
                 \/ closed[s] /\ ~shutdown}
Left == {r \in Requests : ctxDone[r]}

\* At most one slot is in trouble, and at most one client has left, at a time; while
\* Drain is under way, only the client.
FewFaults ==
  /\ Cardinality(Trouble) <= 1 /\ Cardinality(Left) <= 1
  /\ drain # "idle" => Trouble = {}

\* Drain touches no slot, no gauge and no call: what does not speak of it is checked
\* without it.
NoDrain == drain = "idle"

\* The calls come in the course of time, at most two at once.
TwoAtOnce ==
  /\ FewFaults /\ NoDrain
  /\ Cardinality({r \in Requests : pc[r] \notin {"idle", "returned"}}) <= 2
=============================================================================
