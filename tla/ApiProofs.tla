------------------------------- MODULE ApiProofs -------------------------------
(***************************************************************************)
(* Proofs about Api for any number of requests, any messages and files,    *)
(* any rate and burst, and a pool of any size.                             *)
(***************************************************************************)
EXTENDS Api, StampProofs, FiniteSetTheorems, TLAPS

-----------------------------------------------------------------------------
(* The limiter *)

\* The tokens of a full bucket, as time.
Full == burst * RatePeriod

\* The smaller of two numbers.
LEMMA MinOfTwo ==
  ASSUME NEW x \in Int, NEW y \in Int
  PROVE  Min({x, y}) = IF x <= y THEN x ELSE y
<1> DEFINE m == IF x <= y THEN x ELSE y
<1>1. m \in {x, y} /\ \A z \in {x, y} : m <= z
  OBVIOUS
<1>2. ASSUME NEW n \in {x, y}, \A z \in {x, y} : n <= z PROVE n = m
  BY <1>2
<1> QED
  BY <1>1, <1>2 DEF Min

\* Products by the period of the limiter.
LEMMA Product ==
  ASSUME NEW n \in Nat, NEW m \in Nat, NEW P \in Nat
  PROVE  /\ n * P \in Nat /\ (n + 1) * P = n * P + P
         /\ n <= m => n * P <= m * P
OBVIOUS

\* What the rate brings in, from time to tokens.
LEMMA Quotient ==
  ASSUME NEW n \in Nat, NEW m \in Nat, NEW d \in Nat, NEW P \in Nat \ {0}, n * P <= m * P + d
  PROVE  n <= m + d \div P
<1> DEFINE q == d \div P
<1>1. q \in Nat /\ d = P * q + (d % P) /\ d % P \in 0 .. P - 1
  OBVIOUS
<1> HIDE DEF q
<1>2. SUFFICES ASSUME n >= m + q + 1 PROVE FALSE
  BY <1>1 DEF q
<1>3. (m + q + 1) * P <= n * P
  BY <1>1, <1>2, Product
<1>4. (m + q + 1) * P = m * P + P * q + P
  BY <1>1
<1>5. m * P \in Nat /\ P * q \in Nat /\ n * P \in Nat
  BY <1>1
<1> QED
  BY <1>1, <1>3, <1>4, <1>5

Stages == {"idle", "limit", "auth", "parse", "pool", "respond", "answered"}
Admitted(a, b) == {r \in Requests : admitted[r] \in a .. b}

\* The limiter: from a to b it has let pass no more than a full bucket and what came
\* in, less what it has left.
LimitTypes ==
  /\ now \in Nat /\ stage \in [Requests -> Stages]
  /\ bucket \in [credit : 0 .. Full, last : 0 .. now]
  /\ admitted \in [Requests -> Int]
  /\ \A r \in Requests : admitted[r] >= -1 /\ admitted[r] <= now
  /\ \A r \in Requests : stage[r] \in {"idle", "limit"} => admitted[r] = -1
Spent(a, b) == Cardinality(Admitted(a, b)) * RatePeriod
LimitInv ==
  /\ LimitTypes
  /\ \A a, b \in Int : a >= 0 => IsFiniteSet(Admitted(a, b))
  /\ RatePeriod > 0 =>
       \A a, b \in 0 .. now : a <= b =>
         Spent(a, b) + (IF b = now THEN Credit ELSE 0) <= Full + (b - a)

\* What the bucket gives.
LEMMA CreditValue ==
  ASSUME LimitTypes
  PROVE  /\ burst \in Nat /\ Full \in Nat
         /\ Credit = IF Full <= bucket.credit + now - bucket.last THEN Full
                     ELSE bucket.credit + now - bucket.last
         /\ Credit \in 0 .. Full
<1>1. burst \in Nat /\ Full \in Nat
  BY ApiAssumption DEF ApiAssumption, burst, Full
<1>2. bucket.credit \in 0 .. Full /\ bucket.last \in 0 .. now /\ now \in Nat
  BY DEF LimitTypes
<1> QED
  BY <1>1, <1>2, MinOfTwo DEF Credit, Full

\* What no handler but RateLimit does to the limiter.
LEMMA LimiterKept ==
  ASSUME LimitInv, UNCHANGED <<now, bucket, admitted>>, stage' \in [Requests -> Stages],
         \A r \in Requests : stage'[r] \in {"idle", "limit"} => stage[r] \in {"idle", "limit"}
  PROVE  LimitInv'
BY DEF LimitInv, LimitTypes, Spent, Admitted, Credit, Full

\* A token is taken.
LEMMA TokenTaken ==
  ASSUME LimitInv, NEW r \in Requests, RateLimit(r), RatePeriod = 0 \/ Allow
  PROVE  LimitInv'
<1> DEFINE P == RatePeriod
<1>0. LimitTypes /\ P \in Nat /\ P <= Credit
  <2>1. RatePeriod \in Nat /\ LimitTypes
    BY ApiAssumption DEF ApiAssumption, LimitInv
  <2> QED
    BY <2>1, CreditValue DEF Allow
<1>1. /\ stage[r] = "limit" /\ stage' = [stage EXCEPT ![r] = "auth"] /\ now' = now
      /\ bucket' = [credit |-> Credit - P, last |-> now]
      /\ admitted' = [admitted EXCEPT ![r] = now]
  BY Zenon DEF RateLimit, Passes
<1>2. LimitTypes'
  <2>1. Credit - P \in 0 .. Full
    BY <1>0, CreditValue
  <2>2. now' \in Nat /\ bucket' \in [credit : 0 .. Full, last : 0 .. now']
    BY <1>0, <1>1, <2>1 DEF LimitTypes
  <2> QED
    BY <1>0, <1>1, <2>2 DEF LimitTypes, Stages, Full
<1>3. Credit' = Credit - P
  <2>1. Credit' = IF Full <= bucket'.credit + now' - bucket'.last THEN Full
                  ELSE bucket'.credit + now' - bucket'.last
    <3>1. bucket'.credit \in Int /\ bucket'.last \in Int /\ now' \in Int /\ Full \in Int
      BY <1>2, CreditValue, <1>0 DEF LimitTypes, Full
    <3> QED
      BY <3>1, MinOfTwo DEF Credit, Full
  <2> QED
    BY <1>0, <1>1, <2>1, CreditValue DEF LimitTypes
<1>4. \A a, b \in Int : a >= 0 =>
        /\ Admitted(a, b)' = IF now \in a .. b THEN Admitted(a, b) \cup {r} ELSE Admitted(a, b)
        /\ r \notin Admitted(a, b)
  BY <1>0, <1>1 DEF LimitTypes, Admitted
<1>5. \A a, b \in Int : a >= 0 =>
        /\ IsFiniteSet(Admitted(a, b))'
        /\ Cardinality(Admitted(a, b)) \in Nat
        /\ Cardinality(Admitted(a, b))' = Cardinality(Admitted(a, b)) + IF now \in a .. b THEN 1 ELSE 0
  <2> SUFFICES ASSUME NEW a \in Int, NEW b \in Int, a >= 0
               PROVE  /\ IsFiniteSet(Admitted(a, b)')
                      /\ Cardinality(Admitted(a, b)) \in Nat
                      /\ Cardinality(Admitted(a, b)')
                           = Cardinality(Admitted(a, b)) + IF now \in a .. b THEN 1 ELSE 0
    OBVIOUS
  <2> DEFINE A == Admitted(a, b)
  <2>1. IsFiniteSet(A) /\ r \notin A /\ Admitted(a, b)' = IF now \in a .. b THEN A \cup {r} ELSE A
    BY <1>4 DEF LimitInv
  <2> HIDE DEF A
  <2>2. Cardinality(A) \in Nat
    BY <2>1, FS_CardinalityType
  <2>3. IsFiniteSet(A \cup {r}) /\ Cardinality(A \cup {r}) = Cardinality(A) + 1
    BY <2>1, FS_AddElement
  <2> QED
    BY <2>1, <2>2, <2>3 DEF A
<1>6. ASSUME P > 0, NEW a \in 0 .. now, NEW b \in 0 .. now, a <= b
      PROVE  Spent(a, b)' + (IF b = now THEN Credit' ELSE 0) <= Full + (b - a)
  <2> DEFINE n == Cardinality(Admitted(a, b))
  <2>0. now \in Nat
    BY <1>0 DEF LimitTypes
  <2>1. n \in Nat /\ Spent(a, b) = n * P
        /\ Spent(a, b)' = (n + IF now \in a .. b THEN 1 ELSE 0) * P
    <3>1. a \in Int /\ b \in Int /\ a >= 0
      BY <2>0
    <3>2. n \in Nat /\ Cardinality(Admitted(a, b))' = n + IF now \in a .. b THEN 1 ELSE 0
      BY <3>1, <1>5
    <3> QED
      BY <3>2, Zenon DEF Spent
  <2>2. n * P + (IF b = now THEN Credit ELSE 0) <= Full + (b - a)
    BY <2>1, <1>6 DEF LimitInv
  <2> HIDE DEF n, P
  <2>3. n * P \in Nat /\ (n + 1) * P = n * P + P
    BY <2>1, <1>0, Product
  <2>4. CASE b = now
    <3>1. now \in a .. b
      BY <2>4, <2>0, <1>6
    <3>2. Spent(a, b)' = n * P + P
      BY <2>1, <2>3, <3>1
    <3>3. Credit \in Int /\ Full \in Int
      BY <1>0, CreditValue
    <3> QED
      BY <2>2, <2>3, <2>4, <3>2, <3>3, <1>3, <1>0, <2>0
  <2>5. CASE b # now
    <3>1. now \notin a .. b
      BY <2>5, <2>0
    <3>2. Spent(a, b)' = n * P
      BY <2>1, <2>3, <3>1
    <3> QED
      BY <2>2, <2>5, <3>2
  <2> QED
    BY <2>4, <2>5
<1> QED
  BY <1>1, <1>2, <1>5, <1>6 DEF LimitInv, Full

\* Time passes: the bucket fills no faster than the clock runs.
LEMMA TimePasses == ASSUME LimitInv, Tick PROVE LimitInv'
<1> DEFINE P == RatePeriod
<1>0. LimitTypes /\ P \in Nat /\ now \in Nat
  BY ApiAssumption DEF ApiAssumption, LimitInv, LimitTypes
<1>1. now' = now + 1 /\ UNCHANGED <<stage, bucket, admitted>>
  BY DEF Tick
<1>2. LimitTypes'
  BY <1>0, <1>1 DEF LimitTypes, Full
<1>3. Credit' <= Credit + 1 /\ Credit' <= Full /\ Credit \in Nat /\ Credit' \in Nat /\ Full \in Nat
  <2>1. Credit' = IF Full <= bucket.credit + now + 1 - bucket.last THEN Full
                  ELSE bucket.credit + now + 1 - bucket.last
    <3>1. bucket.credit \in Int /\ bucket.last \in Int /\ Full \in Int
      BY <1>0, CreditValue DEF LimitTypes
    <3> QED
      BY <1>0, <1>1, <3>1, MinOfTwo DEF Credit, Full
  <2>2. bucket.credit \in 0 .. Full /\ bucket.last \in 0 .. now
    BY <1>0 DEF LimitTypes
  <2> QED
    BY <1>0, <2>1, <2>2, CreditValue
<1>4. \A a, b \in Int : Admitted(a, b)' = Admitted(a, b)
  BY <1>1 DEF Admitted
<1>5. ASSUME P > 0, NEW a \in 0 .. now', NEW b \in 0 .. now', a <= b
      PROVE  Spent(a, b)' + (IF b = now' THEN Credit' ELSE 0) <= Full + (b - a)
  <2> DEFINE n == Cardinality(Admitted(a, b))
  <2>0. a \in Int /\ b \in Int /\ a >= 0
    BY <1>0, <1>1
  <2>1. IsFiniteSet(Admitted(a, b)) /\ n \in Nat
    BY <2>0, FS_CardinalityType DEF LimitInv
  <2>2. Spent(a, b)' = n * P /\ Spent(a, b) = n * P
    BY <2>0, <1>4, Zenon DEF Spent
  <2>3. CASE b <= now
    <3>1. Spent(a, b) + (IF b = now THEN Credit ELSE 0) <= Full + (b - a)
      BY <1>0, <1>1, <1>5, <2>3 DEF LimitInv
    <3>2. n * P \in Nat
      BY <2>1, <1>0, Product
    <3> HIDE DEF n, P
    <3> QED
      BY <1>0, <1>1, <1>3, <2>2, <2>3, <3>1, <3>2
  <2>4. CASE b = now + 1 /\ a <= now
    <3>1. Spent(a, now) + Credit <= Full + (now - a)
      BY <1>0, <1>1, <1>5, <2>4 DEF LimitInv
    <3>2. Admitted(a, b) = Admitted(a, now)
      BY <1>0, <2>0, <2>4 DEF LimitTypes, Admitted
    <3>3. n * P \in Nat /\ Spent(a, now) = n * P
      BY <2>1, <1>0, <3>2, Product DEF Spent
    <3> HIDE DEF n, P
    <3> QED
      BY <1>0, <1>1, <1>3, <2>2, <2>4, <3>1, <3>3
  <2>5. CASE b = now + 1 /\ a = now + 1
    <3>1. Admitted(a, b) = {}
      BY <1>0, <2>5 DEF LimitTypes, Admitted
    <3>2. n = 0
      BY <3>1, FS_EmptySet
    <3>3. n * P = 0
      BY <3>2, <1>0
    <3> HIDE DEF n, P
    <3> QED
      BY <1>0, <1>1, <1>3, <2>2, <2>5, <3>3
  <2> QED
    BY <1>0, <1>1, <1>5, <2>3, <2>4, <2>5
<1> QED
  BY <1>2, <1>4, <1>5 DEF LimitInv, Full

\* No other handler touches the limiter.
LEMMA LimitStep == ASSUME LimitInv, [ApiNext]_apiVars PROVE LimitInv'
<1>1. stage \in [Requests -> Stages]
  BY DEF LimitInv, LimitTypes
<1>2. ASSUME NEW r \in Requests, Handler(r) PROVE LimitInv'
  <2>1. CASE Arrive(r)
    BY <1>1, <2>1, LimiterKept DEF Arrive, limiterVars, Stages
  <2>2. CASE RateLimit(r) /\ (RatePeriod = 0 \/ Allow)
    BY <2>2, TokenTaken
  <2>3. CASE RateLimit(r) /\ ~(RatePeriod = 0 \/ Allow)
    BY <1>1, <2>3, LimiterKept DEF RateLimit, Responds, Stages
  <2>4. CASE Authorize(r)
    BY <1>1, <2>4, LimiterKept DEF Authorize, Passes, Responds, limiterVars, Stages
  <2>5. CASE ParseBody(r)
    <3> DEFINE code == Refusal(message[r])
    <3> HIDE DEF code
    <3>1. (IF code = 0 THEN Passes(r, "pool") ELSE Responds(r, code)) /\ UNCHANGED limiterVars
          /\ stage[r] = "parse"
      BY <2>5 DEF ParseBody, code
    <3> QED
      BY <1>1, <3>1, LimiterKept DEF Passes, Responds, limiterVars, Stages
  <2>6. CASE CallPool(r)
    BY <1>1, <2>6, LimiterKept DEF CallPool, limiterVars, Stages
  <2>7. CASE Converted(r)
    BY <1>1, <2>7, LimiterKept DEF Converted, Stamps, Passes, limiterVars, Stages
  <2>8. CASE Respond(r)
    BY <1>1, <2>8, LimiterKept DEF Respond, Responds, limiterVars, Stages
  <2> QED
    BY <1>2, <2>1, <2>2, <2>3, <2>4, <2>5, <2>6, <2>7, <2>8 DEF Handler
<1>3. CASE PoolWorks \/ AllAnswered \/ UNCHANGED apiVars
  BY <1>1, <1>3, LimiterKept DEF PoolWorks, AllAnswered, apiVars, limiterVars
<1> QED
  BY <1>2, <1>3, TimePasses DEF ApiNext

\* The limiter's invariant always holds.
LEMMA LimitInvAlways == ApiSpec => []LimitInv
<1>1. ApiInit => LimitInv
  <2> SUFFICES ASSUME ApiInit PROVE LimitInv
    OBVIOUS
  <2>1. burst \in Nat /\ Full \in Nat /\ RatePeriod \in Nat
    BY ApiAssumption DEF ApiAssumption, burst, Full
  <2>2. now = 0 /\ bucket = [credit |-> Full, last |-> 0] /\ admitted = [r \in Requests |-> -1]
        /\ stage = [r \in Requests |-> "idle"]
    BY DEF ApiInit, Full
  <2>3. LimitTypes
    BY <2>1, <2>2 DEF LimitTypes, Stages
  <2>4. \A a, b \in Int : a >= 0 => Admitted(a, b) = {}
    BY <2>2 DEF Admitted
  <2>5. Spent(0, 0) = 0
    BY <2>1, <2>4, FS_EmptySet DEF Spent
  <2> QED
    BY <2>1, <2>2, <2>3, <2>4, <2>5, FS_EmptySet, CreditValue DEF LimitInv
<1> QED
  BY <1>1, LimitStep, PTL DEF ApiSpec

\* The token bucket: in no stretch of time pass more requests than the burst and
\* what the rate brings in, for every rate, burst and number of requests.
THEOREM BucketHolds == ApiSpec => []RateBound
<1>1. LimitInv => RateBound
  <2> SUFFICES ASSUME LimitInv, RatePeriod > 0, NEW a \in 0 .. now, NEW b \in 0 .. now, a <= b
               PROVE  Cardinality(Admitted(a, b)) <= burst + (b - a) \div RatePeriod
    BY DEF RateBound, Admitted
  <2>1. now \in Nat /\ RatePeriod \in Nat \ {0} /\ LimitTypes
    BY ApiAssumption DEF ApiAssumption, LimitInv, LimitTypes
  <2>2. Cardinality(Admitted(a, b)) \in Nat
    BY <2>1, FS_CardinalityType DEF LimitInv
  <2>3. Spent(a, b) + (IF b = now THEN Credit ELSE 0) <= Full + (b - a)
    BY DEF LimitInv
  <2>4. Spent(a, b) \in Nat /\ Full \in Nat /\ Credit \in Nat /\ burst \in Nat
    BY <2>1, <2>2, Product, CreditValue DEF Spent
  <2>5. Spent(a, b) <= Full + (b - a) /\ b - a \in Nat
    BY <2>1, <2>3, <2>4
  <2> QED
    BY <2>1, <2>2, <2>4, <2>5, Quotient DEF Spent, Full
<1> QED
  BY <1>1, LimitInvAlways, PTL

-----------------------------------------------------------------------------
(* The handlers and the answers *)

Errors == {"none", "ok", "full", "ctx", "err", "pdfa"}
HandlerTypes ==
  /\ line \in Seq(Requests) /\ serving \subseteq Requests
  /\ outcome \in [Requests -> {"none", "ok", "err", "ctx"}]
  /\ answer \in [Requests -> {"none", "ok", "full", "ctx", "err"}]
  /\ stage \in [Requests -> Stages] /\ message \in [Requests -> Messages]
  /\ status \in [Requests -> Nat] /\ err \in [Requests -> Errors]
  /\ pdf = [r \in Requests |-> pdf[r]]
  /\ admitted = [r \in Requests |-> admitted[r]]
  /\ now \in 0 .. MaxTime /\ total \in [Labels -> Nat]

\* What a request was told, and what it is to be told.
Told(r) ==
  /\ stage[r] # "answered" => status[r] = 0
  /\ stage[r] \in {"idle", "limit"} => admitted[r] = -1
  /\ stage[r] \in {"idle", "limit", "auth", "parse"} => ~Joined(r) /\ answer[r] = "none"
  /\ stage[r] = "respond" =>
       /\ answer[r] # "none"
       /\ err[r] = IF answer[r] = "ok" /\ pdf[r] = Refused THEN "pdfa" ELSE answer[r]
  /\ answer[r] = "ok" => outcome[r] = "ok"
  /\ stage[r] = "answered" =>
       /\ status[r] \in {400, 401, 413, 429} <=> ~Joined(r) /\ answer[r] = "none"
       /\ status[r] = 429 => admitted[r] = -1
       /\ status[r] = 503 <=> answer[r] = "full"
       /\ status[r] = 504 <=> answer[r] = "ctx"
       /\ status[r] = 200 <=> answer[r] = "ok" /\ pdf[r] # Refused
       /\ status[r] # 0
HandlerInv == HandlerTypes /\ \A r \in Requests : Told(r)

\* What the parser refuses it refuses with 400 or 413.
LEMMA RefusalCodes == ASSUME NEW m \in Messages PROVE Refusal(m) \in {0, 400, 413}
<1>1. CASE m.json
  BY <1>1 DEF Refusal
<1>2. CASE ~m.json /\ m.wellFormed /\ ~m.fits
  BY <1>2 DEF Refusal
<1>3. CASE ~m.json /\ ~(m.wellFormed /\ ~m.fits)
  BY <1>3 DEF Refusal
<1> QED
  BY <1>1, <1>2, <1>3

\* The pool's steps put nobody in its line who was not there, and take nobody out.
LEMMA JoinedKept ==
  ASSUME HandlerTypes, NEW q \in Requests,
         \/ Serve
         \/ \E r \in Requests : Complete(r) \/ Refuse(r) \/ Answer(r)
         \/ \E r \in Requests \ {q} : Join(r)
         \/ UNCHANGED vars
  PROVE  Joined(q)' = Joined(q)
<1>0. line \in Seq(Requests)
  BY DEF HandlerTypes
<1>1. CASE Serve
  <2>1. (\E i \in 1 .. Len(line) : line[i] = q)
          <=> Head(line) = q \/ \E i \in 1 .. Len(line') : line'[i] = q
    <3>1. line # << >> /\ line' = Tail(line)
      BY <1>1 DEF Serve
    <3>2. Len(line') = Len(line) - 1 /\ Head(line) = line[1] /\ Len(line) \in Nat \ {0}
          /\ \A i \in 1 .. Len(line') : line'[i] = line[i + 1]
      BY <1>0, <3>1
    <3>3. ASSUME NEW i \in 1 .. Len(line), i # 1 PROVE i - 1 \in 1 .. Len(line') /\ line'[i - 1] = line[i]
      BY <3>2, <3>3
    <3> QED
      BY <3>2, <3>3
  <2>2. serving' = serving \cup {Head(line)} /\ outcome' = outcome
    BY <1>1 DEF Serve
  <2> QED
    BY <2>1, <2>2 DEF Joined
<1>2. ASSUME NEW r \in Requests, Complete(r) PROVE Joined(q)' = Joined(q)
  <2>1. PICK o \in Outcomes : outcome' = [outcome EXCEPT ![r] = o]
    BY <1>2 DEF Complete
  <2>2. o # "none" /\ outcome[r] = "none" /\ r \in serving /\ serving' = serving \ {r} /\ line' = line
    BY <1>2 DEF Complete, Outcomes
  <2> QED
    BY <2>1, <2>2 DEF Joined, HandlerTypes
<1>3. ASSUME NEW r \in Requests, Refuse(r) \/ Answer(r) PROVE Joined(q)' = Joined(q)
  BY <1>3 DEF Refuse, Answer, Joined
<1>4. ASSUME NEW r \in Requests \ {q}, Join(r) PROVE Joined(q)' = Joined(q)
  <2>1. line' = Append(line, r) /\ serving' = serving /\ outcome' = outcome
    BY <1>4 DEF Join
  <2>2. (\E i \in 1 .. Len(line) : line[i] = q) <=> (\E i \in 1 .. Len(line') : line'[i] = q)
    BY <1>0, <2>1, <1>4
  <2> QED
    BY <2>1, <2>2 DEF Joined
<1>5. CASE UNCHANGED vars
  BY <1>5 DEF vars, Joined
<1> QED
  BY <1>1, <1>2, <1>3, <1>4, <1>5

\* The pool's part of the state keeps its types.
LEMMA ServiceTypes ==
  ASSUME HandlerTypes, NEW r \in Requests,
         Serve \/ Join(r) \/ Refuse(r) \/ Complete(r) \/ Answer(r)
  PROVE  /\ line' \in Seq(Requests) /\ serving' \subseteq Requests
         /\ outcome' \in [Requests -> {"none", "ok", "err", "ctx"}]
         /\ answer' \in [Requests -> {"none", "ok", "full", "ctx", "err"}]
<1>1. CASE Serve
  <2>1. line # << >> /\ line' = Tail(line) /\ serving' = serving \cup {Head(line)}
        /\ outcome' = outcome /\ answer' = answer
    BY <1>1 DEF Serve
  <2>2. line \in Seq(Requests)
    BY DEF HandlerTypes
  <2>3. Head(line) \in Requests /\ Tail(line) \in Seq(Requests)
    BY <2>1, <2>2
  <2> QED
    BY <2>1, <2>3 DEF HandlerTypes
<1>2. CASE Join(r)
  BY <1>2 DEF HandlerTypes, Join
<1>3. CASE Refuse(r) \/ Complete(r)
  BY <1>3 DEF HandlerTypes, Refuse, Complete, Outcomes
<1>4. CASE Answer(r)
  <2>1. PICK a \in {outcome[r], "ctx"} \ {"none"} : answer' = [answer EXCEPT ![r] = a]
    BY <1>4 DEF Answer
  <2>2. a \in {"ok", "err", "ctx"} /\ UNCHANGED <<line, serving, outcome>>
    BY <1>4, <2>1 DEF Answer, HandlerTypes
  <2> QED
    BY <2>1, <2>2 DEF HandlerTypes
<1> QED
  BY <1>1, <1>2, <1>3, <1>4

\* So do the handlers.
LEMMA HandlerTypesStep == ASSUME HandlerTypes, [ApiNext]_apiVars PROVE HandlerTypes'
<1> USE DEF HandlerTypes, Stages
<1>0. HandlerTypes
  OBVIOUS
<1>1. ASSUME NEW r \in Requests, Arrive(r) PROVE HandlerTypes'
  BY <1>0, <1>1 DEF Arrive, vars, limiterVars, fileVars
<1>2. ASSUME NEW r \in Requests, RateLimit(r) PROVE HandlerTypes'
  <2>1. CASE RatePeriod = 0 \/ Allow
    BY <1>0, <1>2, <2>1 DEF RateLimit, Passes, vars, fileVars
  <2>2. CASE ~(RatePeriod = 0 \/ Allow)
    <3>1. Responds(r, 429) /\ UNCHANGED <<admitted, vars, message, now, fileVars>>
      BY <1>2, <2>2, Zenon DEF RateLimit
    <3> QED
      BY <1>0, <3>1 DEF Responds, vars, fileVars
  <2> QED
    BY <2>1, <2>2
<1>3. ASSUME NEW r \in Requests, Authorize(r) PROVE HandlerTypes'
  <2>1. (Passes(r, "parse") \/ Responds(r, 401)) /\ UNCHANGED <<vars, message, limiterVars, fileVars>>
    BY <1>3 DEF Authorize
  <2> QED
    <3>1. CASE Passes(r, "parse")
      BY <1>0, <2>1, <3>1 DEF Passes, vars, limiterVars, fileVars
    <3>2. CASE Responds(r, 401)
      BY <1>0, <2>1, <3>2 DEF Responds, vars, limiterVars, fileVars
    <3> QED
      BY <2>1, <3>1, <3>2
<1>4. ASSUME NEW r \in Requests, ParseBody(r) PROVE HandlerTypes'
  <2>1. PICK code \in {0, 400, 413} : code = Refusal(message[r])
    BY <1>0, RefusalCodes
  <2>2. (Passes(r, "pool") \/ Responds(r, code)) /\ UNCHANGED <<vars, message, limiterVars, fileVars>>
    BY <1>4, <2>1, Zenon DEF ParseBody
  <2> QED
    <3>1. CASE Passes(r, "pool")
      BY <1>0, <2>2, <3>1 DEF Passes, vars, limiterVars, fileVars
    <3>2. CASE Responds(r, code)
      BY <1>0, <2>2, <3>2 DEF Responds, vars, limiterVars, fileVars
    <3> QED
      BY <2>2, <3>1, <3>2
<1>5. ASSUME NEW r \in Requests, CallPool(r) PROVE HandlerTypes'
  BY <1>0, <1>5, ServiceTypes DEF CallPool, limiterVars, fileVars
<1>6. ASSUME NEW r \in Requests, Converted(r) PROVE HandlerTypes'
  <2>1. /\ Passes(r, "respond") /\ UNCHANGED <<vars, message, limiterVars>>
        /\ \E f : pdf' = [pdf EXCEPT ![r] = f]
        /\ err' = [err EXCEPT ![r] = IF answer[r] = "ok" /\ pdf'[r] = Refused THEN "pdfa" ELSE answer[r]]
        /\ answer[r] # "none"
    BY <1>6 DEF Converted, Stamps
  <2>2. err' \in [Requests -> Errors] /\ err'[r] \in Errors \ {"none"}
    BY <2>1 DEF Errors
  <2>3. pdf' = [q \in Requests |-> pdf'[q]]
    BY <2>1
  <2>4. conversionStatus(err'[r]) \in Labels
    BY <2>2 DEF Errors, conversionStatus, Labels
  <2>5. total' \in [Labels -> Nat]
    BY <1>6, <2>4 DEF Converted, Counts
  <2> QED
    BY <1>0, <2>1, <2>2, <2>3, <2>5 DEF Passes, vars, limiterVars
<1>7. ASSUME NEW r \in Requests, Respond(r) PROVE HandlerTypes'
  BY <1>0, <1>7 DEF Respond, Responds, vars, limiterVars, fileVars
<1>8. CASE Tick
  BY <1>0, <1>8, ApiAssumption DEF ApiAssumption, Tick, vars, fileVars
<1>9. CASE PoolWorks
  <2>1. CASE Serve /\ Requests = {}
    BY <1>0, <2>1 DEF Serve
  <2>2. CASE Requests # {}
    BY <1>0, <1>9, <2>2, ServiceTypes DEF PoolWorks, limiterVars, fileVars
  <2> QED
    BY <1>9, <2>1, <2>2 DEF PoolWorks
<1>10. CASE AllAnswered \/ UNCHANGED apiVars
  BY <1>0, <1>10 DEF AllAnswered, apiVars, vars, limiterVars, fileVars
<1> QED
  BY <1>1, <1>2, <1>3, <1>4, <1>5, <1>6, <1>7, <1>8, <1>9, <1>10 DEF ApiNext, Handler

\* What a step does not touch of a request stays told.
LEMMA ToldKept ==
  ASSUME NEW q \in Requests, Told(q), Joined(q)' = Joined(q),
         stage'[q] = stage[q], status'[q] = status[q], admitted'[q] = admitted[q],
         answer'[q] = answer[q], err'[q] = err[q], pdf'[q] = pdf[q], outcome'[q] = outcome[q]
  PROVE  Told(q)'
BY DEF Told

\* The pool's steps for one request, and what they do to the others.
LEMMA ServiceTold ==
  ASSUME HandlerInv, NEW q \in Requests, UNCHANGED <<stage, status, admitted, err, pdf>>,
         \/ Serve
         \/ \E r \in Requests : Complete(r)
         \/ \E r \in Requests : stage[r] = "pool" /\ (Join(r) \/ Refuse(r) \/ Answer(r))
  PROVE  Told(q)'
<1> USE DEF HandlerInv, HandlerTypes
<1>0. Told(q)
  OBVIOUS
<1>1. CASE Serve
  BY <1>0, <1>1, JoinedKept, ToldKept DEF Serve
<1>2. ASSUME NEW r \in Requests, Complete(r) PROVE Told(q)'
  <2>1. Joined(q)' = Joined(q) /\ answer' = answer
    BY <1>2, JoinedKept DEF Complete
  <2>2. outcome[q] # "none" => outcome'[q] = outcome[q]
    BY <1>2 DEF Complete
  <2> QED
    BY <1>0, <2>1, <2>2 DEF Told
<1>3. ASSUME NEW r \in Requests, stage[r] = "pool", Join(r) PROVE Told(q)'
  <2>1. CASE r = q
    BY <1>0, <1>3, <2>1 DEF Told, Join
  <2>2. CASE r # q
    BY <1>0, <1>3, <2>2, JoinedKept, ToldKept DEF Join
  <2> QED
    BY <2>1, <2>2
<1>4. ASSUME NEW r \in Requests, stage[r] = "pool", Refuse(r) \/ Answer(r) PROVE Told(q)'
  <2>1. Joined(q)' = Joined(q) /\ outcome' = outcome
    BY <1>4, JoinedKept DEF Refuse, Answer
  <2>2. r # q => answer'[q] = answer[q]
    BY <1>4 DEF Refuse, Answer
  <2>3. r = q /\ answer'[q] = "ok" => outcome[q] = "ok"
    BY <1>4 DEF Refuse, Answer
  <2>4. CASE r = q
    BY <1>0, <1>4, <2>1, <2>3, <2>4 DEF Told
  <2>5. CASE r # q
    BY <1>0, <2>1, <2>2, <2>5, ToldKept
  <2> QED
    BY <2>4, <2>5
<1> QED
  BY <1>1, <1>2, <1>3, <1>4

\* A handler that answers before the pool was asked: a refusal of the chain or the parser.
LEMMA RefusedTold ==
  ASSUME HandlerInv, NEW r \in Requests, NEW q \in Requests, NEW code \in {400, 401, 413, 429},
         stage[r] \in {"limit", "auth", "parse"}, code = 429 => stage[r] = "limit",
         Responds(r, code), UNCHANGED <<vars, admitted, err, pdf>>
  PROVE  Told(q)'
<1>1. Told(q) /\ Told(r) /\ Joined(q)' = Joined(q)
  BY JoinedKept DEF HandlerInv
<1>2. CASE r = q
  BY <1>1, <1>2 DEF Told, Responds, HandlerInv, HandlerTypes, vars
<1>3. CASE r # q
  BY <1>1, <1>3, ToldKept DEF Responds, HandlerInv, HandlerTypes, vars
<1> QED
  BY <1>2, <1>3

\* A handler that passes the request on towards the pool.
LEMMA PassedTold ==
  ASSUME HandlerInv, NEW r \in Requests, NEW q \in Requests,
         \/ stage[r] = "idle" /\ stage' = [stage EXCEPT ![r] = "limit"] /\ admitted' = admitted
         \/ stage[r] = "limit" /\ stage' = [stage EXCEPT ![r] = "auth"]
            /\ admitted' = [admitted EXCEPT ![r] = now]
         \/ stage[r] = "auth" /\ stage' = [stage EXCEPT ![r] = "parse"] /\ admitted' = admitted
         \/ stage[r] = "parse" /\ stage' = [stage EXCEPT ![r] = "pool"] /\ admitted' = admitted,
         UNCHANGED <<vars, status, err, pdf>>
  PROVE  Told(q)'
<1>1. Told(q) /\ Told(r) /\ Joined(q)' = Joined(q)
  BY JoinedKept DEF HandlerInv
<1>2. CASE r = q
  BY <1>1, <1>2 DEF Told, HandlerInv, HandlerTypes, vars
<1>3. CASE r # q
  BY <1>1, <1>3, ToldKept DEF HandlerInv, HandlerTypes, vars
<1> QED
  BY <1>2, <1>3

\* No step breaks it.
LEMMA HandlerStep == ASSUME HandlerInv, [ApiNext]_apiVars PROVE HandlerInv'
<1> SUFFICES ASSUME NEW q \in Requests PROVE Told(q)'
  BY HandlerTypesStep DEF HandlerInv
<1>0. HandlerTypes /\ Told(q)
  BY DEF HandlerInv
<1>1. ASSUME NEW r \in Requests, Arrive(r) PROVE Told(q)'
  BY <1>1, PassedTold DEF Arrive, limiterVars, fileVars
<1>2. ASSUME NEW r \in Requests, RateLimit(r) PROVE Told(q)'
  <2>1. stage[r] = "limit" /\ UNCHANGED <<vars, err, pdf>>
    BY <1>2 DEF RateLimit, fileVars
  <2>2. CASE RatePeriod = 0 \/ Allow
    <3>1. stage' = [stage EXCEPT ![r] = "auth"] /\ admitted' = [admitted EXCEPT ![r] = now] /\ status' = status
      BY <1>2, <2>2, Zenon DEF RateLimit, Passes
    <3> QED
      BY <2>1, <3>1, PassedTold
  <2>3. CASE ~(RatePeriod = 0 \/ Allow)
    <3>1. Responds(r, 429) /\ UNCHANGED admitted
      BY <1>2, <2>3, Zenon DEF RateLimit
    <3> QED
      BY <2>1, <3>1, RefusedTold
  <2> QED
    BY <2>2, <2>3
<1>3. ASSUME NEW r \in Requests, Authorize(r) PROVE Told(q)'
  <2>1. stage[r] = "auth" /\ UNCHANGED <<vars, admitted, err, pdf>>
        /\ (Passes(r, "parse") \/ Responds(r, 401))
    BY <1>3 DEF Authorize, limiterVars, fileVars
  <2> QED
    BY <2>1, PassedTold, RefusedTold DEF Passes
<1>4. ASSUME NEW r \in Requests, ParseBody(r) PROVE Told(q)'
  <2>1. PICK code \in {0, 400, 413} : code = Refusal(message[r])
    BY <1>0, RefusalCodes DEF HandlerTypes
  <2>2. stage[r] = "parse" /\ (Passes(r, "pool") \/ (code # 0 /\ Responds(r, code)))
    <3>1. stage[r] = "parse" /\ IF code = 0 THEN Passes(r, "pool") ELSE Responds(r, code)
      BY <1>4, <2>1, Zenon DEF ParseBody
    <3> QED
      BY <3>1
  <2>3. UNCHANGED <<vars, admitted, err, pdf>>
    BY <1>4 DEF ParseBody, limiterVars, fileVars
  <2> QED
    BY <2>1, <2>2, <2>3, PassedTold, RefusedTold DEF Passes
<1>5. ASSUME NEW r \in Requests, CallPool(r) PROVE Told(q)'
  BY <1>5, ServiceTold DEF CallPool, limiterVars, fileVars
<1>6. ASSUME NEW r \in Requests, Converted(r) PROVE Told(q)'
  <2>1. /\ stage[r] = "pool" /\ answer[r] # "none" /\ Passes(r, "respond")
        /\ UNCHANGED <<vars, admitted>>
        /\ \E f : pdf' = [pdf EXCEPT ![r] = f]
        /\ err' = [err EXCEPT ![r] = IF answer[r] = "ok" /\ pdf'[r] = Refused THEN "pdfa" ELSE answer[r]]
    BY <1>6 DEF Converted, Stamps, limiterVars
  <2>2. Joined(q)' = Joined(q) /\ outcome' = outcome /\ answer' = answer
    BY <1>0, <2>1, JoinedKept DEF vars
  <2>3. CASE r = q
    BY <1>0, <2>1, <2>2, <2>3 DEF Told, HandlerTypes, Passes
  <2>4. CASE r # q
    BY <1>0, <2>1, <2>2, <2>4, ToldKept DEF HandlerTypes, Passes
  <2> QED
    BY <2>3, <2>4
<1>7. ASSUME NEW r \in Requests, Respond(r) PROVE Told(q)'
  <2>1. /\ stage[r] = "respond" /\ UNCHANGED <<vars, admitted, err, pdf>>
        /\ Responds(r, CASE err[r] = "ok" -> 200 [] err[r] = "full" -> 503
                         [] err[r] = "ctx" -> 504 [] OTHER -> 500)
    BY <1>7 DEF Respond, limiterVars, fileVars
  <2>2. Joined(q)' = Joined(q) /\ outcome' = outcome /\ answer' = answer
    BY <1>0, <2>1, JoinedKept DEF vars
  <2>3. CASE r = q
    <3>1. stage'[q] = "answered" /\ status'[q] = CASE err[q] = "ok" -> 200 [] err[q] = "full" -> 503
                                                   [] err[q] = "ctx" -> 504 [] OTHER -> 500
      BY <1>0, <2>1, <2>3 DEF HandlerTypes, Responds
    <3> QED
      BY <1>0, <2>1, <2>2, <2>3, <3>1 DEF Told
  <2>4. CASE r # q
    BY <1>0, <2>1, <2>2, <2>4, ToldKept DEF HandlerTypes, Responds
  <2> QED
    BY <2>3, <2>4
<1>8. CASE PoolWorks
  BY <1>8, ServiceTold DEF PoolWorks, limiterVars, fileVars
<1>9. CASE Tick \/ AllAnswered \/ UNCHANGED apiVars
  <2>1. UNCHANGED <<vars, stage, status, admitted, err, pdf>>
    BY <1>9 DEF Tick, AllAnswered, apiVars, limiterVars, fileVars
  <2> QED
    BY <1>0, <2>1, JoinedKept, ToldKept DEF vars
<1> QED
  BY <1>1, <1>2, <1>3, <1>4, <1>5, <1>6, <1>7, <1>8, <1>9 DEF ApiNext, Handler

\* Before the first request.
LEMMA InitHandles == ApiInit => HandlerInv
<1> SUFFICES ASSUME ApiInit PROVE HandlerInv
  OBVIOUS
<1>1. /\ line = << >> /\ serving = {} /\ outcome = [r \in Requests |-> "none"]
      /\ answer = [r \in Requests |-> "none"]
  BY DEF ApiInit, Init
<1>2. /\ stage = [r \in Requests |-> "idle"] /\ status = [r \in Requests |-> 0]
      /\ err = [r \in Requests |-> "none"] /\ pdf = [r \in Requests |-> Refused]
      /\ admitted = [r \in Requests |-> -1] /\ now = 0 /\ total = [l \in Labels |-> 0]
      /\ message = [r \in Requests |-> CHOOSE m \in Messages : TRUE]
  BY DEF ApiInit
<1>3. (CHOOSE m \in Messages : TRUE) \in Messages /\ MaxTime \in Nat
  BY ApiAssumption DEF ApiAssumption
<1>4. HandlerTypes
  BY <1>1, <1>2, <1>3 DEF HandlerTypes, Stages, Errors
<1>5. \A r \in Requests : ~Joined(r)
  BY <1>1 DEF Joined
<1> QED
  BY <1>1, <1>2, <1>4, <1>5 DEF HandlerInv, Told

\* It always holds.
LEMMA HandlerInvAlways == ApiSpec => []HandlerInv
BY InitHandles, HandlerStep, PTL DEF ApiSpec

\* The handlers' state is well formed, the limiter's tokens and clock included.
THEOREM ApiTypes == ApiSpec => []ApiTypeOK
<1>1. HandlerInv /\ LimitInv => ApiTypeOK
  <2> SUFFICES ASSUME HandlerInv, LimitInv PROVE ApiTypeOK
    OBVIOUS
  <2>1. HandlerTypes /\ LimitTypes
    BY DEF HandlerInv, LimitInv
  <2>2. bucket.credit \in 0 .. burst * RatePeriod /\ bucket.last \in 0 .. now
    BY <2>1 DEF LimitTypes, Full
  <2>3. \A r \in Requests : admitted[r] \in -1 .. now
    BY <2>1 DEF LimitTypes
  <2> QED
    BY <2>1, <2>2, <2>3 DEF HandlerTypes, ApiTypeOK, Stages, Errors
<1> QED
  BY <1>1, HandlerInvAlways, LimitInvAlways, PTL

\* The status tells what became of the request, whatever the requests carry, in
\* whatever order the handlers, the pool and the clock take their steps.
THEOREM StatusIsTrue == ApiSpec => []StatusTellsOutcome
<1>1. HandlerInv => StatusTellsOutcome
  BY DEF HandlerInv, Told, StatusTellsOutcome
<1> QED
  BY <1>1, HandlerInvAlways, PTL

-----------------------------------------------------------------------------
(* The counters *)

\* The requests a label has counted, and those the limiter's counter has.
CountedAs(l) == {r \in Requests : err[r] # "none" /\ conversionStatus(err[r]) = l}
TurnedAway   == {r \in Requests : status[r] = 429}

\* The error a request ended with is the one it is answered for.
Accounted(r) ==
  /\ stage[r] \notin {"respond", "answered"} => err[r] = "none"
  /\ stage[r] = "answered" =>
       /\ err[r] = "none" <=> status[r] \in {400, 401, 413, 429}
       /\ err[r] = "ok" <=> status[r] = 200
       /\ err[r] = "full" <=> status[r] = 503
       /\ err[r] = "ctx" <=> status[r] = 504
       /\ err[r] \in {"err", "pdfa"} <=> status[r] = 500
MetricsInv ==
  /\ \A r \in Requests : Accounted(r)
  /\ \A l \in Labels : IsFiniteSet(CountedAs(l)) /\ total[l] = Cardinality(CountedAs(l))
  /\ IsFiniteSet(TurnedAway) /\ limited = Cardinality(TurnedAway)

\* A step that counts nothing and answers nobody.
LEMMA MetricsKept ==
  ASSUME MetricsInv, HandlerTypes, UNCHANGED <<err, total, limited, status>>,
         \A q \in Requests : (stage'[q] \in {"respond", "answered"}) = (stage[q] \in {"respond", "answered"}),
         \A q \in Requests : stage'[q] = "answered" => stage[q] = "answered"
  PROVE  MetricsInv'
BY DEF MetricsInv, Accounted, CountedAs, TurnedAway

\* A response: the limiter's is counted where it is written, the others were.
LEMMA MetricsAnswered ==
  ASSUME MetricsInv, HandlerInv, NEW r \in Requests, NEW code \in {200, 400, 401, 413, 429, 500, 503, 504},
         stage[r] # "answered", Responds(r, code), UNCHANGED <<err, total>>,
         limited' = IF code = 429 THEN limited + 1 ELSE limited,
         /\ err[r] = "none" <=> code \in {400, 401, 413, 429}
         /\ err[r] = "ok" <=> code = 200
         /\ err[r] = "full" <=> code = 503
         /\ err[r] = "ctx" <=> code = 504
         /\ err[r] \in {"err", "pdfa"} <=> code = 500
  PROVE  MetricsInv'
<1>0. HandlerTypes /\ status[r] = 0
  BY DEF HandlerInv, Told
<1>1. status' = [status EXCEPT ![r] = code] /\ stage' = [stage EXCEPT ![r] = "answered"]
  BY DEF Responds
<1>2. \A q \in Requests : Accounted(q)'
  BY <1>0, <1>1 DEF MetricsInv, Accounted, HandlerTypes
<1>3. TurnedAway' = (IF code = 429 THEN TurnedAway \cup {r} ELSE TurnedAway) /\ r \notin TurnedAway
  BY <1>0, <1>1 DEF TurnedAway, HandlerTypes
<1>4. IsFiniteSet(TurnedAway \cup {r}) /\ Cardinality(TurnedAway \cup {r}) = Cardinality(TurnedAway) + 1
  BY <1>3, FS_AddElement DEF MetricsInv
<1>5. IsFiniteSet(TurnedAway') /\ limited' = Cardinality(TurnedAway')
  BY <1>3, <1>4 DEF MetricsInv
<1>6. \A l \in Labels : CountedAs(l)' = CountedAs(l)
  BY DEF CountedAs
<1> QED
  BY <1>2, <1>5, <1>6 DEF MetricsInv

\* No step breaks it.
LEMMA MetricsStep == ASSUME MetricsInv, HandlerInv, [ApiNext]_apiVars PROVE MetricsInv'
<1>0. HandlerTypes /\ \A r \in Requests : Accounted(r)
  BY DEF HandlerInv, MetricsInv
<1>1. ASSUME NEW r \in Requests, Arrive(r) PROVE MetricsInv'
  BY <1>0, <1>1, MetricsKept DEF Arrive, limiterVars, fileVars, HandlerTypes
<1>2. ASSUME NEW r \in Requests, RateLimit(r) PROVE MetricsInv'
  <2>1. stage[r] = "limit" /\ UNCHANGED <<err, total>> /\ err[r] = "none"
    BY <1>0, <1>2 DEF RateLimit, fileVars, Accounted
  <2>2. CASE RatePeriod = 0 \/ Allow
    <3>1. stage' = [stage EXCEPT ![r] = "auth"] /\ UNCHANGED <<limited, status>>
      BY <1>2, <2>2, Zenon DEF RateLimit, Passes
    <3> QED
      BY <1>0, <2>1, <3>1, MetricsKept DEF HandlerTypes
  <2>3. CASE ~(RatePeriod = 0 \/ Allow)
    <3>1. Responds(r, 429) /\ limited' = limited + 1
      BY <1>2, <2>3, Zenon DEF RateLimit
    <3> QED
      BY <1>0, <2>1, <3>1, MetricsAnswered
  <2> QED
    BY <2>2, <2>3
<1>3. ASSUME NEW r \in Requests, Authorize(r) PROVE MetricsInv'
  <2>1. stage[r] = "auth" /\ UNCHANGED <<err, total, limited>> /\ err[r] = "none"
        /\ (Passes(r, "parse") \/ Responds(r, 401))
    BY <1>0, <1>3 DEF Authorize, limiterVars, fileVars, Accounted
  <2>2. CASE Passes(r, "parse")
    BY <1>0, <2>1, <2>2, MetricsKept DEF Passes, HandlerTypes
  <2>3. CASE Responds(r, 401)
    BY <1>0, <2>1, <2>3, MetricsAnswered
  <2> QED
    BY <2>1, <2>2, <2>3
<1>4. ASSUME NEW r \in Requests, ParseBody(r) PROVE MetricsInv'
  <2>1. PICK code \in {0, 400, 413} : code = Refusal(message[r])
    BY <1>0, RefusalCodes DEF HandlerTypes
  <2>2. stage[r] = "parse" /\ IF code = 0 THEN Passes(r, "pool") ELSE Responds(r, code)
    BY <1>4, <2>1, Zenon DEF ParseBody
  <2>3. UNCHANGED <<err, total, limited>> /\ err[r] = "none"
    BY <1>0, <1>4, <2>2 DEF ParseBody, limiterVars, fileVars, Accounted
  <2>4. CASE code = 0
    BY <1>0, <2>2, <2>3, <2>4, MetricsKept DEF Passes, HandlerTypes
  <2>5. CASE code # 0
    BY <1>0, <2>2, <2>3, <2>5, MetricsAnswered
  <2> QED
    BY <2>4, <2>5
<1>5. ASSUME NEW r \in Requests, Converted(r) PROVE MetricsInv'
  <2> DEFINE e == err'[r]
             l == conversionStatus(e)
  <2>1. /\ stage[r] = "pool" /\ answer[r] # "none" /\ Passes(r, "respond")
        /\ UNCHANGED limited
        /\ err' = [err EXCEPT ![r] = IF answer[r] = "ok" /\ pdf'[r] = Refused THEN "pdfa" ELSE answer[r]]
        /\ total' = [total EXCEPT ![l] = @ + 1]
    BY <1>5 DEF Converted, Stamps, Counts, limiterVars
  <2>2. e \in Errors \ {"none"} /\ err[r] = "none"
    <3>1. err[r] = "none"
      BY <1>0, <2>1 DEF Accounted
    <3>2. e = IF answer[r] = "ok" /\ pdf'[r] = Refused THEN "pdfa" ELSE answer[r]
      BY <1>0, <2>1 DEF HandlerTypes
    <3>3. answer[r] \in {"ok", "full", "ctx", "err"}
      BY <1>0, <2>1 DEF HandlerTypes
    <3> HIDE DEF e
    <3> QED
      BY <3>1, <3>2, <3>3 DEF Errors
  <2>3. l \in Labels
    BY <2>2 DEF Errors, conversionStatus, Labels
  <2>4. \A q \in Requests : Accounted(q)'
    BY <1>0, <2>1 DEF Accounted, HandlerTypes, Passes
  <2>5. TurnedAway' = TurnedAway
    BY <2>1 DEF TurnedAway, Passes
  <2>6. \A k \in Labels : CountedAs(k)' = IF k = l THEN CountedAs(k) \cup {r} ELSE CountedAs(k)
    <3> HIDE DEF l, e
    <3>1. \A q \in Requests : err'[q] = IF q = r THEN e ELSE err[q]
      BY <1>0, <2>1 DEF HandlerTypes, e
    <3> QED
      BY <2>2, <3>1 DEF CountedAs, l
  <2>7. r \notin CountedAs(l)
    BY <2>2 DEF CountedAs
  <2> HIDE DEF l
  <2>8. ASSUME NEW k \in Labels
        PROVE  IsFiniteSet(CountedAs(k)') /\ total'[k] = Cardinality(CountedAs(k)')
    <3>1. CASE k = l
      <4>1. IsFiniteSet(CountedAs(l)) /\ total[l] = Cardinality(CountedAs(l))
        BY <2>3 DEF MetricsInv
      <4>2. IsFiniteSet(CountedAs(l) \cup {r})
            /\ Cardinality(CountedAs(l) \cup {r}) = Cardinality(CountedAs(l)) + 1
        BY <4>1, <2>7, FS_AddElement
      <4> QED
        BY <1>0, <2>1, <2>3, <2>6, <3>1, <4>1, <4>2 DEF HandlerTypes
    <3>2. CASE k # l
      BY <1>0, <2>1, <2>3, <2>6, <3>2 DEF HandlerTypes, MetricsInv
    <3> QED
      BY <3>1, <3>2
  <2> QED
    BY <2>1, <2>4, <2>5, <2>8 DEF MetricsInv
<1>6. ASSUME NEW r \in Requests, Respond(r) PROVE MetricsInv'
  <2>1. PICK code : code = CASE err[r] = "ok" -> 200 [] err[r] = "full" -> 503
                             [] err[r] = "ctx" -> 504 [] OTHER -> 500
    OBVIOUS
  <2>2. stage[r] = "respond" /\ UNCHANGED <<err, total, limited>> /\ Responds(r, code)
    BY <1>6, <2>1 DEF Respond, limiterVars, fileVars
  <2>3. err[r] \in Errors \ {"none"}
    BY <1>0, <2>2 DEF HandlerInv, Told, HandlerTypes, Errors
  <2>4. /\ code \in {200, 500, 503, 504}
        /\ err[r] = "ok" <=> code = 200
        /\ err[r] = "full" <=> code = 503
        /\ err[r] = "ctx" <=> code = 504
        /\ err[r] \in {"err", "pdfa"} <=> code = 500
    BY <2>1, <2>3 DEF Errors
  <2> QED
    BY <1>0, <2>2, <2>3, <2>4, MetricsAnswered
<1>7. CASE (\E r \in Requests : CallPool(r)) \/ PoolWorks \/ Tick \/ AllAnswered \/ UNCHANGED apiVars
  <2>1. UNCHANGED <<stage, status, err, total, limited>>
    BY <1>7 DEF CallPool, PoolWorks, Tick, AllAnswered, apiVars, limiterVars, fileVars
  <2> QED
    BY <1>0, <2>1, MetricsKept
<1> QED
  BY <1>1, <1>2, <1>3, <1>4, <1>5, <1>6, <1>7 DEF ApiNext, Handler

\* The counters agree with the answers, for any number of requests.
THEOREM MetricsAreTrue == ApiSpec => []MetricsMatchAnswers
<1>1. ApiInit => MetricsInv
  <2> SUFFICES ASSUME ApiInit PROVE MetricsInv
    OBVIOUS
  <2>1. /\ stage = [r \in Requests |-> "idle"] /\ status = [r \in Requests |-> 0] /\ limited = 0
        /\ err = [r \in Requests |-> "none"] /\ total = [l \in Labels |-> 0]
    BY DEF ApiInit
  <2>2. TurnedAway = {} /\ \A l \in Labels : CountedAs(l) = {}
    BY <2>1 DEF TurnedAway, CountedAs
  <2> QED
    BY <2>1, <2>2, FS_EmptySet DEF MetricsInv, Accounted
<1>2. HandlerInv /\ MetricsInv => MetricsMatchAnswers
  <2> SUFFICES ASSUME HandlerInv, MetricsInv, \A r \in Requests : stage[r] # "respond"
               PROVE  LET with(code) == Cardinality({r \in Requests : status[r] = code})
                      IN  /\ total["ok"] = with(200) /\ total["queue_full"] = with(503)
                          /\ total["timeout"] = with(504)
                          /\ total["chrome_error"] + total["pdfa_error"] = with(500)
                          /\ limited = with(429)
    BY DEF MetricsMatchAnswers
  <2> DEFINE answered(code) == {r \in Requests : status[r] = code}
  <2>1. \A r \in Requests : /\ err[r] = "ok" <=> status[r] = 200
                            /\ err[r] = "full" <=> status[r] = 503
                            /\ err[r] = "ctx" <=> status[r] = 504
                            /\ err[r] \in {"err", "pdfa"} <=> status[r] = 500
    BY DEF MetricsInv, Accounted, HandlerInv, Told
  <2>2. \A r \in Requests : err[r] \in Errors
    BY DEF HandlerInv, HandlerTypes
  <2>3. /\ CountedAs("ok") = answered(200) /\ CountedAs("queue_full") = answered(503)
        /\ CountedAs("timeout") = answered(504)
        /\ CountedAs("chrome_error") \cup CountedAs("pdfa_error") = answered(500)
        /\ CountedAs("chrome_error") \cap CountedAs("pdfa_error") = {}
    BY <2>1, <2>2 DEF CountedAs, conversionStatus, Errors
  <2>4. \A l \in Labels : IsFiniteSet(CountedAs(l)) /\ total[l] = Cardinality(CountedAs(l))
    BY DEF MetricsInv
  <2>5. Cardinality(answered(500)) = total["chrome_error"] + total["pdfa_error"]
    <3>1. IsFiniteSet(CountedAs("chrome_error")) /\ IsFiniteSet(CountedAs("pdfa_error"))
      BY <2>4 DEF Labels
    <3>2. Cardinality(CountedAs("chrome_error")) \in Nat /\ Cardinality(CountedAs("pdfa_error")) \in Nat
      BY <3>1, FS_CardinalityType
    <3>3. Cardinality(answered(500))
            = Cardinality(CountedAs("chrome_error")) + Cardinality(CountedAs("pdfa_error")) - 0
      <4>1. Cardinality(CountedAs("chrome_error") \cup CountedAs("pdfa_error"))
              = Cardinality(CountedAs("chrome_error")) + Cardinality(CountedAs("pdfa_error"))
                - Cardinality(CountedAs("chrome_error") \cap CountedAs("pdfa_error"))
        BY <3>1, FS_Union
      <4>2. Cardinality({}) = 0
        BY FS_EmptySet
      <4> HIDE DEF answered
      <4> QED
        BY <2>3, <4>1, <4>2
    <3> QED
      <4>1. /\ total["chrome_error"] = Cardinality(CountedAs("chrome_error"))
            /\ total["pdfa_error"] = Cardinality(CountedAs("pdfa_error"))
        BY <2>4 DEF Labels
      <4> HIDE DEF answered
      <4> QED
        BY <3>2, <3>3, <4>1
  <2>6. limited = Cardinality(answered(429))
    BY DEF MetricsInv, TurnedAway
  <2> QED
    BY <2>3, <2>4, <2>5, <2>6 DEF Labels
<1> QED
  BY <1>1, <1>2, MetricsStep, HandlerInvAlways, PTL DEF ApiSpec

-----------------------------------------------------------------------------
(* The files *)

\* What a request is answered with, when it is answered with a file.
Filed(r) ==
  /\ raw[r] \in ChromePdfs /\ pdf[r] # Refused
  /\ PDFA(r) => pdf[r] = Stamp(raw[r])
FileInv ==
  /\ raw = [r \in Requests |-> raw[r]]
  /\ \A r \in Requests : (stage[r] = "respond" /\ err[r] = "ok") \/ status[r] = 200 => Filed(r)

\* What a step does not touch of a request stays filed.
LEMMA FiledKept ==
  ASSUME NEW q \in Requests,
         (stage[q] = "respond" /\ err[q] = "ok") \/ status[q] = 200 => Filed(q),
         message'[q] = message[q], raw'[q] = raw[q], pdf'[q] = pdf[q],
         (stage'[q] = "respond" /\ err'[q] = "ok") \/ status'[q] = 200 =>
           (stage[q] = "respond" /\ err[q] = "ok") \/ status[q] = 200
  PROVE  (stage'[q] = "respond" /\ err'[q] = "ok") \/ status'[q] = 200 => Filed(q)'
BY DEF Filed, PDFA

\* No step breaks it: a file is there when the conversion has succeeded, and stays.
LEMMA FileStep == ASSUME FileInv, HandlerInv, [ApiNext]_apiVars PROVE FileInv'
<1> DEFINE Ready(q) == (stage[q] = "respond" /\ err[q] = "ok") \/ status[q] = 200
<1>0. /\ HandlerTypes /\ raw = [r \in Requests |-> raw[r]]
      /\ \A q \in Requests : Told(q) /\ (Ready(q) => Filed(q))
  BY DEF HandlerInv, FileInv
<1>1. ASSUME NEW r \in Requests, Converted(r) PROVE FileInv'
  <2>1. PICK f \in IF answer[r] = "ok" THEN ChromePdfs ELSE {Refused} :
          /\ raw' = [raw EXCEPT ![r] = f]
          /\ pdf' = [pdf EXCEPT ![r] = IF PDFA(r) /\ answer[r] = "ok" THEN Stamp(f) ELSE f]
          /\ err' = [err EXCEPT ![r] = IF answer[r] = "ok" /\ pdf'[r] = Refused
                                       THEN "pdfa" ELSE answer[r]]
    BY <1>1 DEF Converted, Stamps
  <2>2. /\ stage[r] = "pool" /\ stage' = [stage EXCEPT ![r] = "respond"] /\ status' = status
        /\ message' = message /\ answer[r] \in {"none", "ok", "full", "ctx", "err"}
    BY <1>0, <1>1 DEF Converted, Stamps, Passes, HandlerTypes
  <2>3. raw' = [q \in Requests |-> raw'[q]]
    BY <1>0, <2>1
  <2>4. ASSUME NEW q \in Requests, q # r PROVE Ready(q)' => Filed(q)'
    <3>1. /\ stage'[q] = stage[q] /\ err'[q] = err[q] /\ raw'[q] = raw[q] /\ pdf'[q] = pdf[q]
          /\ message'[q] = message[q] /\ status'[q] = status[q]
      BY <1>0, <2>1, <2>2, <2>4 DEF HandlerTypes
    <3> QED
      BY <1>0, <3>1, FiledKept
  <2>5. Ready(r)' => Filed(r)'
    <3> SUFFICES ASSUME Ready(r)' PROVE Filed(r)'
      OBVIOUS
    <3>1. status'[r] = 0
      BY <1>0, <2>2 DEF Told
    <3>2. err'[r] = "ok"
      BY <3>1
    <3>3. /\ raw'[r] = f /\ pdf'[r] = IF PDFA(r) /\ answer[r] = "ok" THEN Stamp(f) ELSE f
          /\ err'[r] = IF answer[r] = "ok" /\ pdf'[r] = Refused THEN "pdfa" ELSE answer[r]
      BY <1>0, <2>1 DEF HandlerTypes
    <3>4. answer[r] = "ok" /\ pdf'[r] # Refused
      BY <3>2, <3>3
    <3>5. f \in ChromePdfs /\ PDFA(r)' = PDFA(r)
      BY <2>1, <2>2, <3>4 DEF PDFA
    <3> QED
      BY <3>3, <3>4, <3>5 DEF Filed
  <2> QED
    BY <2>3, <2>4, <2>5 DEF FileInv
<1>2. ASSUME UNCHANGED fileVars,
             \A q \in Requests : Ready(q)' => Ready(q) /\ message'[q] = message[q]
      PROVE  FileInv'
  <2>1. raw' = raw /\ pdf' = pdf /\ err' = err
    BY <1>2 DEF fileVars
  <2>2. \A q \in Requests : Ready(q)' => Filed(q)'
    BY <1>0, <1>2, <2>1 DEF Filed, PDFA
  <2> QED
    BY <1>0, <2>1, <2>2 DEF FileInv
<1>3. ASSUME NEW r \in Requests, Arrive(r) PROVE FileInv'
  <2>1. /\ stage[r] = "idle" /\ stage' = [stage EXCEPT ![r] = "limit"]
        /\ \E m \in Messages : message' = [message EXCEPT ![r] = m]
        /\ UNCHANGED fileVars /\ status' = status /\ err' = err
    BY <1>3 DEF Arrive, fileVars
  <2>2. status[r] = 0
    BY <1>0, <2>1 DEF Told
  <2>3. \A q \in Requests : Ready(q)' => Ready(q) /\ message'[q] = message[q]
    BY <1>0, <2>1, <2>2 DEF HandlerTypes
  <2> QED
    BY <1>2, <2>1, <2>3
<1>4. ASSUME NEW r \in Requests, NEW code \in {400, 401, 413, 429}, Responds(r, code),
             UNCHANGED <<message, fileVars>>
      PROVE  FileInv'
  <2>1. \A q \in Requests : Ready(q)' => Ready(q) /\ message'[q] = message[q]
    BY <1>0, <1>4 DEF Responds, HandlerTypes, fileVars
  <2> QED
    BY <1>2, <1>4, <2>1
<1>5. ASSUME NEW r \in Requests, NEW next \in {"auth", "parse", "pool"}, Passes(r, next),
             UNCHANGED <<message, fileVars>>
      PROVE  FileInv'
  <2>1. \A q \in Requests : Ready(q)' => Ready(q) /\ message'[q] = message[q]
    BY <1>0, <1>5 DEF Passes, HandlerTypes, fileVars
  <2> QED
    BY <1>2, <1>5, <2>1
<1>6. ASSUME NEW r \in Requests, RateLimit(r) PROVE FileInv'
  <2>1. UNCHANGED <<message, fileVars>> /\ (Passes(r, "auth") \/ Responds(r, 429))
    <3>1. CASE RatePeriod = 0 \/ Allow
      BY <1>6, <3>1, Zenon DEF RateLimit
    <3>2. CASE ~(RatePeriod = 0 \/ Allow)
      BY <1>6, <3>2, Zenon DEF RateLimit
    <3> QED
      BY <3>1, <3>2
  <2> QED
    BY <1>4, <1>5, <2>1
<1>7. ASSUME NEW r \in Requests, Authorize(r) PROVE FileInv'
  <2>1. UNCHANGED <<message, fileVars>> /\ (Passes(r, "parse") \/ Responds(r, 401))
    BY <1>7 DEF Authorize
  <2> QED
    BY <1>4, <1>5, <2>1
<1>8. ASSUME NEW r \in Requests, ParseBody(r) PROVE FileInv'
  <2>1. PICK code \in {0, 400, 413} : code = Refusal(message[r])
    BY <1>0, RefusalCodes DEF HandlerTypes
  <2>2. Passes(r, "pool") \/ (code # 0 /\ Responds(r, code))
    <3>1. IF code = 0 THEN Passes(r, "pool") ELSE Responds(r, code)
      BY <1>8, <2>1, Zenon DEF ParseBody
    <3> QED
      BY <3>1
  <2>3. UNCHANGED <<message, fileVars>>
    BY <1>8 DEF ParseBody
  <2> QED
    BY <1>4, <1>5, <2>1, <2>2, <2>3
<1>9. ASSUME NEW r \in Requests, Respond(r) PROVE FileInv'
  <2>1. /\ stage[r] = "respond" /\ UNCHANGED <<message, fileVars>>
        /\ Responds(r, CASE err[r] = "ok" -> 200 [] err[r] = "full" -> 503
                         [] err[r] = "ctx" -> 504 [] OTHER -> 500)
    BY <1>9 DEF Respond
  <2>2. ASSUME NEW q \in Requests, Ready(q)' PROVE Ready(q) /\ message'[q] = message[q]
    <3>1. stage'[r] = "answered" /\ status'[r] = CASE err[r] = "ok" -> 200 [] err[r] = "full" -> 503
                                                   [] err[r] = "ctx" -> 504 [] OTHER -> 500
      BY <1>0, <2>1 DEF HandlerTypes, Responds
    <3>2. q # r => stage'[q] = stage[q] /\ status'[q] = status[q]
      BY <1>0, <2>1 DEF HandlerTypes, Responds
    <3>3. err' = err /\ message' = message
      BY <2>1 DEF fileVars
    <3>4. CASE q = r
      <4>1. status'[r] = 200
        BY <2>2, <3>1, <3>4
      <4>2. err[r] = "ok"
        BY <3>1, <4>1
      <4> QED
        BY <2>1, <3>3, <3>4, <4>2
    <3>5. CASE q # r
      BY <2>2, <3>2, <3>3, <3>5
    <3> QED
      BY <3>4, <3>5
  <2> QED
    BY <1>2, <2>1, <2>2
<1>10. ASSUME UNCHANGED <<stage, message, fileVars, status>> PROVE FileInv'
  <2>1. \A q \in Requests : Ready(q)' => Ready(q) /\ message'[q] = message[q]
    BY <1>10 DEF fileVars
  <2> QED
    BY <1>2, <1>10, <2>1
<1>11. CASE Tick \/ PoolWorks \/ (\E r \in Requests : CallPool(r)) \/ AllAnswered \/ UNCHANGED apiVars
  <2>1. UNCHANGED <<stage, message, fileVars, status>>
    BY <1>11 DEF Tick, PoolWorks, CallPool, AllAnswered, apiVars
  <2> QED
    BY <1>10, <2>1
<1> QED
  BY <1>1, <1>3, <1>6, <1>7, <1>8, <1>9, <1>11 DEF ApiNext, Handler

\* Every PDF/A answer reads as it should, and would when it is stamped again: for any
\* files that Chromium prints, under ChromeAssumption, and any profile and metadata.
THEOREM StampsRead == ApiSpec => []StampedFileReads
<1>1. ApiInit => FileInv
  BY DEF ApiInit, FileInv
<1>2. FileInv => StampedFileReads
  <2> SUFFICES ASSUME FileInv, NEW r \in Requests, status[r] = 200, PDFA(r)
               PROVE  Reads(pdf[r], raw[r]) /\ Stamp(pdf[r]) # Refused /\ Reads(Stamp(pdf[r]), pdf[r])
    BY DEF StampedFileReads
  <2> DEFINE f == raw[r]
             g == pdf[r]
  <2>1. f \in ChromePdfs /\ g # Refused /\ g = Stamp(f)
    BY DEF FileInv, Filed
  <2>2. Stampable(f)
    BY <2>1, Zenon DEF Stamp
  <2>3. WellFormed(f) /\ Plain(f)
    BY <2>1, <2>2, ChromeAssumption
  <2> HIDE DEF f, g
  <2>4. WellFormed(g) /\ Stampable(g) /\ Plain(g) /\ Reads(g, f)
    BY <2>1, <2>2, <2>3, StampedReads
  <2>5. Stamp(g) # Refused /\ Reads(Stamp(g), g)
    BY <2>4, StampedReads
  <2> QED
    BY <2>4, <2>5 DEF f, g
<1>3. ApiSpec => []FileInv
  BY <1>1, FileStep, HandlerInvAlways, PTL DEF ApiSpec
<1> QED
  BY <1>2, <1>3, PTL
=============================================================================
