---------------------------------- MODULE Api ----------------------------------
(***************************************************************************)
(* POST /pdf: the chain of handlers of internal/api around the Converter   *)
(* of internal/converter, over the pool as ConversionService describes it. *)
(* A request passes the rate limiter, the API key and the parser, is       *)
(* converted, stamped when it asks for PDF/A, counted and answered.        *)
(*                                                                         *)
(* A message is what the handlers look at in a request.  The limiter is    *)
(* golang.org/x/time/rate, whose tokens are counted here as the time they  *)
(* took to come in.                                                        *)
(***************************************************************************)
EXTENDS ConversionService, PdfaStamp

CONSTANTS Messages,     \* what requests may carry, see Message
          ChromePdfs,   \* the files a conversion may print
          APIKey,       \* Config.APIKey is not empty
          RatePeriod,   \* 1 / Config.RateLimit, 0 when that is not positive
          RateBurst,    \* Config.RateBurst
          MaxTime       \* bound on the clock

ASSUME ApiAssumption ==
  /\ Messages # {} /\ APIKey \in BOOLEAN /\ RatePeriod \in Nat /\ RateBurst \in Nat /\ MaxTime \in Nat

\* What Chromium prints, where Stamp takes it, is a file that readers take too, and
\* has what Stamp takes for granted.
ASSUME ChromeAssumption == \A f \in ChromePdfs : Stampable(f) => WellFormed(f) /\ Plain(f)

VARIABLES
  stage, message,  \* per request: the handler it is in, what it carries
  now, bucket,     \* the clock; the limiter's tokens and when they were counted
  admitted,        \* per request, history: when the limiter let it pass, or -1
  raw, pdf, err,   \* per request: the file Chromium printed, the file to send, err
  total, limited,  \* gopress_conversions_total by label, gopress_rate_limited_total
  status           \* per request: the status written, 0 before

limiterVars == <<now, bucket, admitted, limited>>
fileVars    == <<raw, pdf, err, total>>
apiVars     == <<vars, stage, message, limiterVars, fileVars, status>>

Labels == {"ok", "queue_full", "timeout", "chrome_error", "pdfa_error"}
Formats == {"", "pdf", "pdf-a", "other"}

\* The name of an asset by what validateAssetName asks of it.
AssetName == [length : Nat, absolute : BOOLEAN, parent : BOOLEAN, control : BOOLEAN]
Message == [authorized : BOOLEAN, json : BOOLEAN, fits : BOOLEAN, wellFormed : BOOLEAN,
            html : BOOLEAN, format : Formats, options : BOOLEAN, assets : SUBSET AssetName]

\* rateLimitMiddleware: a burst that is not positive is 1.
burst == IF RateBurst <= 0 THEN 1 ELSE RateBurst

ApiInit ==
  /\ Init
  /\ stage = [r \in Requests |-> "idle"]
  /\ message = [r \in Requests |-> CHOOSE m \in Messages : TRUE]
  /\ now = 0 /\ bucket = [credit |-> burst * RatePeriod, last |-> 0]
  /\ admitted = [r \in Requests |-> -1] /\ limited = 0
  /\ raw = [r \in Requests |-> Refused] /\ pdf = [r \in Requests |-> Refused]
  /\ err = [r \in Requests |-> "none"]
  /\ total = [l \in Labels |-> 0]
  /\ status = [r \in Requests |-> 0]

-----------------------------------------------------------------------------
(* The middleware chain *)

Arrive(r) ==
  /\ stage[r] = "idle"
  /\ \E m \in Messages : message' = [message EXCEPT ![r] = m]
  /\ stage' = [stage EXCEPT ![r] = "limit"]
  /\ UNCHANGED <<vars, limiterVars, fileVars, status>>

Passes(r, next) == stage' = [stage EXCEPT ![r] = next] /\ UNCHANGED status
Responds(r, code) ==
  /\ stage' = [stage EXCEPT ![r] = "answered"]
  /\ status' = [status EXCEPT ![r] = code]

\* Mutant: tokens come in above the burst.
Uncapped == bucket.credit + now - bucket.last

\* Limiter.Allow: the bucket fills up to the burst; a token is taken if there is one.
Credit == Min({burst * RatePeriod, bucket.credit + now - bucket.last})
Allow  == Credit >= RatePeriod

\* Mutant: every request gets a limiter of its own.
FreshLimiter(r) ==
  /\ stage[r] = "limit" /\ Passes(r, "auth")
  /\ admitted' = [admitted EXCEPT ![r] = now]
  /\ UNCHANGED <<vars, message, now, bucket, limited, fileVars>>

RateLimit(r) ==
  /\ stage[r] = "limit"
  /\ IF RatePeriod = 0 \/ Allow
       THEN /\ Passes(r, "auth")
            /\ bucket' = [credit |-> Credit - RatePeriod, last |-> now]
            /\ admitted' = [admitted EXCEPT ![r] = now]
            /\ UNCHANGED limited
       ELSE Responds(r, 429) /\ limited' = limited + 1 /\ UNCHANGED <<bucket, admitted>>
  /\ UNCHANGED <<vars, message, now, fileVars>>

Authorize(r) ==
  /\ stage[r] = "auth"
  /\ IF ~APIKey \/ message[r].authorized THEN Passes(r, "parse") ELSE Responds(r, 401)
  /\ UNCHANGED <<vars, message, limiterVars, fileVars>>

-----------------------------------------------------------------------------
(* convertHandler *)

validateFormat(format) == format \in {"", "pdf", "pdf-a"}
validateAssetName(name) ==
  name.length \in 1 .. 255 /\ ~name.absolute /\ ~name.parent /\ ~name.control

\* A JSON body over the limit is cut off and does not decode.
parseJSON(m) == m.fits /\ m.wellFormed /\ m.options /\ m.html /\ validateFormat(m.format)
parseForm(m) ==
  /\ validateFormat(m.format) /\ m.options /\ m.html
  /\ \A name \in m.assets : validateAssetName(name)

\* The status of a body that is refused, or 0.  A form is read up to the limit, and may
\* be found malformed before that: wellFormed speaks of what is read.
Refusal(m) ==
  CASE m.json -> IF parseJSON(m) THEN 0 ELSE 400
    [] ~m.json /\ m.wellFormed /\ ~m.fits -> 413
    [] ~m.json /\ ~(m.wellFormed /\ ~m.fits) -> IF m.wellFormed /\ parseForm(m) THEN 0 ELSE 400

\* Mutant: the return after http.Error is missing.
ParsesOn(r) ==
  /\ stage[r] = "parse"
  /\ stage' = [stage EXCEPT ![r] = "pool"]
  /\ status' = [status EXCEPT ![r] = Refusal(message[r])]
  /\ UNCHANGED <<vars, message, limiterVars, fileVars>>

ParseBody(r) ==
  /\ stage[r] = "parse"
  /\ LET code == Refusal(message[r])
     IN  IF code = 0 THEN Passes(r, "pool") ELSE Responds(r, code)
  /\ UNCHANGED <<vars, message, limiterVars, fileVars>>

\* Converter.Convert and ConvertPDFA wait for Pool.Convert.
CallPool(r) ==
  /\ stage[r] = "pool"
  /\ Join(r) \/ Refuse(r) \/ Answer(r)
  /\ UNCHANGED <<stage, message, limiterVars, fileVars, status>>

conversionStatus(e) ==
  [ok |-> "ok", full |-> "queue_full", ctx |-> "timeout", err |-> "chrome_error",
   pdfa |-> "pdfa_error"][e]

PDFA(r) == message[r].format = "pdf-a"

\* Pool.Convert has returned: the file is stamped if it is to be, and the
\* conversion is counted.
Stamps(r) ==
  /\ stage[r] = "pool" /\ answer[r] # "none"
  /\ Passes(r, "respond")
  /\ \E f \in IF answer[r] = "ok" THEN ChromePdfs ELSE {Refused} :
       /\ raw' = [raw EXCEPT ![r] = f]
       /\ pdf' = [pdf EXCEPT ![r] = IF PDFA(r) /\ answer[r] = "ok" THEN Stamp(f) ELSE f]
       /\ err' = [err EXCEPT ![r] = IF answer[r] = "ok" /\ pdf'[r] = Refused
                                    THEN "pdfa" ELSE answer[r]]
  /\ UNCHANGED <<vars, message, limiterVars>>
Counts(e) == total' = [total EXCEPT ![conversionStatus(e)] = @ + 1]

\* Mutant: the conversion is counted before it is stamped.
CountsBeforeStamp(r) == Stamps(r) /\ Counts(answer[r])

Converted(r) == Stamps(r) /\ Counts(err'[r])

Respond(r) ==
  /\ stage[r] = "respond"
  /\ Responds(r, CASE err[r] = "ok" -> 200 [] err[r] = "full" -> 503
                   [] err[r] = "ctx" -> 504 [] OTHER -> 500)
  /\ UNCHANGED <<vars, message, limiterVars, fileVars>>

-----------------------------------------------------------------------------
Tick ==
  /\ now < MaxTime /\ now' = now + 1
  /\ UNCHANGED <<vars, stage, message, bucket, admitted, limited, fileVars, status>>

\* The pool's own steps.
PoolWorks ==
  /\ Serve \/ \E r \in Requests : Complete(r)
  /\ UNCHANGED <<stage, message, limiterVars, fileVars, status>>

Handler(r) ==
  \/ Arrive(r) \/ RateLimit(r) \/ Authorize(r) \/ ParseBody(r)
  \/ CallPool(r) \/ Converted(r) \/ Respond(r)

AllAnswered == (\A r \in Requests : stage[r] = "answered") /\ UNCHANGED apiVars

ApiNext == (\E r \in Requests : Handler(r)) \/ Tick \/ PoolWorks \/ AllAnswered

ApiSpec == ApiInit /\ [][ApiNext]_apiVars

-----------------------------------------------------------------------------
(* Properties *)

ApiTypeOK ==
  /\ stage \in [Requests -> {"idle", "limit", "auth", "parse", "pool", "respond", "answered"}]
  /\ message \in [Requests -> Messages]
  /\ now \in 0 .. MaxTime /\ bucket.credit \in 0 .. burst * RatePeriod /\ bucket.last \in 0 .. now
  /\ \A r \in Requests : /\ admitted[r] \in -1 .. now
                         /\ err[r] \in {"none", "ok", "full", "ctx", "err", "pdfa"}
  /\ \A l \in Labels : total[l] \in Nat

\* No stretch of time admits more requests than the burst and what the rate
\* brings in during it, whatever idle time came before (rateLimitMiddleware's one
\* limiter for all requests).
RateBound ==
  RatePeriod > 0 =>
    \A a, b \in 0 .. now :
      a <= b => Cardinality({r \in Requests : admitted[r] \in a .. b}) <= burst + (b - a) \div RatePeriod

\* The status tells what became of the request: the refusals of the chain and of
\* the parser never reach the pool; 503 was refused by the pool, 504 left or ran
\* out of time, 200 was converted and, for PDF/A, stamped.
StatusTellsOutcome ==
  \A r \in Requests :
    /\ stage[r] # "answered" => status[r] = 0
    /\ stage[r] = "answered" =>
      /\ status[r] \in {400, 401, 413, 429} <=> ~Joined(r) /\ answer[r] = "none"
      /\ status[r] = 429 => admitted[r] = -1
      /\ status[r] = 503 <=> answer[r] = "full"
      /\ status[r] = 504 <=> answer[r] = "ctx"
      /\ status[r] = 200 <=> answer[r] = "ok" /\ pdf[r] # Refused
      /\ status[r] = 200 => outcome[r] = "ok"

\* The counters agree with the answers: whenever no handler stands between the two,
\* each label of gopress_conversions_total has counted the responses of its
\* statuses, and gopress_rate_limited_total those with 429.
MetricsMatchAnswers ==
  LET with(code) == Cardinality({r \in Requests : status[r] = code})
  IN  (\A r \in Requests : stage[r] # "respond") =>
        /\ total["ok"] = with(200) /\ total["queue_full"] = with(503)
        /\ total["timeout"] = with(504)
        /\ total["chrome_error"] + total["pdfa_error"] = with(500)
        /\ limited = with(429)

\* A PDF/A answer is a file in which a reader finds all that Chromium printed and
\* the markers of conformance, and it can be stamped again with the same effect.
StampedFileReads ==
  \A r \in Requests :
    status[r] = 200 /\ PDFA(r) =>
      Reads(pdf[r], raw[r]) /\ Stamp(pdf[r]) # Refused /\ Reads(Stamp(pdf[r]), pdf[r])
=============================================================================
