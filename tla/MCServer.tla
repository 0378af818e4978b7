------------------------------ MODULE MCServer ------------------------------
(* The process with few faults at once. *)
EXTENDS Server

\* At most one client has left and no restart has failed; with two requests the
\* watchdog is off, so that what it adds is seen with one.
FewFaults ==
  /\ Cardinality({r \in Requests : ctxDone[r]}) <= 1
  /\ \A s \in Slots : consecutiveFails[s] = 0
  /\ Cardinality(accepted) <= 1 \/ vigil = "off"
=============================================================================
