--------------------------- MODULE RestartBackoff ---------------------------
(***************************************************************************)
(* The pause of a worker between failed restarts (internal/browser/pool.go *)
(* worker), with the arithmetic of its time.Duration: an int64 of          *)
(* nanoseconds, here with backoffUnit at its default of one second.        *)
(*                                                                         *)
(* The product 2^(n-1) * 10^9 does not fit TLC's integers.  Since          *)
(* 10^9 = 2^9 * 5^9 it is Odd * 2^Shift, and modulo 2^64 only Odd modulo   *)
(* 2^(64 - Shift) remains: the value is Mantissa * 2^Shift exactly.        *)
(***************************************************************************)
EXTENDS Integers

CONSTANTS MaxFails,    \* bound on consecutiveFails
          MaxClock     \* bound on the seconds counted since the last failure

Odd == 1953125                 \* 5^9
Shift(n) == 9 + (n - 1)
Width(n) == 64 - Shift(n)      \* bits left for the mantissa

\* Odd as a signed integer of Width(n) bits; nothing is left from width 0 on.
Mantissa(n) ==
  IF Width(n) <= 0 THEN 0
  ELSE IF Width(n) >= 31 THEN Odd
  ELSE LET m == Odd % 2 ^ Width(n)
       IN  IF m >= 2 ^ (Width(n) - 1) THEN m - 2 ^ Width(n) ELSE m

\* backoff > 30 * unit, divided by 2^Shift on both sides.
Exceeds30(n) ==
  Mantissa(n) > (IF n > 30 THEN 0 ELSE (30 * Odd) \div 2 ^ (n - 1))

\* The seconds time.After is given; 0 stands for every duration that is not
\* positive, for which the timer fires at once.
Backoff(n) ==
  IF Exceeds30(n) THEN 30
  ELSE IF Mantissa(n) <= 0 THEN 0
  ELSE 2 ^ (n - 1)

VARIABLES consecutiveFails,
          pause,        \* seconds left of the timer, 0 when the worker serves
          sinceFail     \* history: seconds since the last failed restart, up to MaxClock
vars == <<consecutiveFails, pause, sinceFail>>

Init == consecutiveFails = 0 /\ pause = 0 /\ sinceFail = 0

\* A job is served, the instance needs a restart, and the restart fails.
RestartFails ==
  /\ pause = 0 /\ consecutiveFails < MaxFails
  /\ consecutiveFails' = consecutiveFails + 1
  /\ pause' = Backoff(consecutiveFails + 1)
  /\ sinceFail' = 0

RestartSucceeds ==
  /\ pause = 0
  /\ consecutiveFails' = 0
  /\ UNCHANGED <<pause, sinceFail>>

Second ==
  /\ sinceFail < MaxClock
  /\ sinceFail' = sinceFail + 1
  /\ pause' = IF pause > 0 THEN pause - 1 ELSE 0
  /\ UNCHANGED consecutiveFails

Next == RestartFails \/ RestartSucceeds \/ Second

Spec == Init /\ [][Next]_vars

\* pool.go:308 "Exponential backoff: 1×unit, 2×unit, 4×unit … capped at 30×unit.
\* Prevents a tight loop of failed restarts": the n-th failure in a row is
\* followed by at least min(2^(n-1), 30) seconds before the next.
RestartsSpaced ==
  [][RestartFails /\ consecutiveFails > 0 =>
       sinceFail >= (IF consecutiveFails > 5 THEN 30 ELSE 2 ^ (consecutiveFails - 1))]_vars
=============================================================================
