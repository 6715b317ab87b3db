---------------------------- MODULE RequestRetry ----------------------------
(***************************************************************************)
(* One call of request_with_retry (connectors/http.py), request by         *)
(* request.  Connectors that do not use it (OTX, documents) send the one   *)
(* request of a call with max_retries = 0.                                 *)
(***************************************************************************)
EXTENDS Integers

CONSTANTS Backoff,      \* backoff=
          Answers       \* what one request can come to

(* Retry-After: absent or a date, a number, or nan and inf, which float    *)
(* takes and sleep does not.                                               *)
RetryAfters == [form : {"none", "date", "number", "nan"}, value : Int]

(* "refused" is every status that raise_for_status raises for, 429 and 5xx *)
(* ("busy") apart; "transport" is an httpx.TransportError: no response.    *)
ASSUME AnswersAssumption ==
    /\ Answers \subseteq [status : {"ok", "refused", "busy", "transport"},
                          after : RetryAfters]
    /\ \A a \in Answers : a.status = "transport" => a.after.form = "none"
ASSUME BackoffAssumption == Backoff \in Nat \ {0}

VARIABLES call,         \* where the call is or how it ended
          maxRetries,   \* its max_retries
          attempt,
          sent,         \* requests sent, as far as one too many (history)
          answer,       \* the last one's answer
          delay         \* what it sleeps for

retryVars == <<call, maxRetries, attempt, sent, answer, delay>>

NoAnswer == [status |-> "none", after |-> [form |-> "none", value |-> 0]]
Ended == {"returned", "raised", "failed"}

RetryTypeOK ==
    /\ call \in {"none", "send", "sleep"} \cup Ended
    /\ {maxRetries, attempt, sent} \subseteq Nat
    /\ answer \in Answers \cup {NoAnswer}
    /\ delay \in Int

NoCall(state, n) ==
    /\ call' = state
    /\ maxRetries' = n
    /\ attempt' = 0
    /\ sent' = 0
    /\ answer' = NoAnswer
    /\ delay' = 0

RetryInit ==
    /\ call = "none"
    /\ maxRetries = 0
    /\ attempt = 0
    /\ sent = 0
    /\ answer = NoAnswer
    /\ delay = 0

-----------------------------------------------------------------------------
Retryable(a) == a.status \in {"busy", "transport"}

(* _retry_after(response) is a number that is not falsy.                   *)
Advises(a) ==
    a.status = "busy" /\ a.after.form = "number" /\ a.after.value # 0

Sleepable(a) ==
    ~(a.status = "busy" /\ a.after.form = "nan") /\ (Advises(a) => a.after.value > 0)

PowerOfTwo[n \in Nat] == IF n = 0 THEN 1 ELSE 2 * PowerOfTwo[n - 1]

\* Mutant: a Retry-After of zero is taken as it is.
DelayIsAdvice(a) ==
    IF a.status = "busy" /\ a.after.form = "number"
    THEN a.after.value ELSE Backoff * PowerOfTwo[attempt]

Delay(a) == IF Advises(a) THEN a.after.value ELSE Backoff * PowerOfTwo[attempt]

Request(a) ==
    /\ call = "send"
    /\ answer' = a
    /\ sent' = IF sent > maxRetries + 1 THEN sent ELSE sent + 1
    /\ UNCHANGED <<maxRetries, attempt>>

Returns(a) ==
    /\ Request(a)
    /\ a.status = "ok"
    /\ call' = "returned"
    /\ UNCHANGED delay

(* A status that is not worth a retry, or retries are used up.             *)
GivesUp(a) ==
    /\ Request(a)
    /\ \/ a.status = "refused"
       \/ Retryable(a) /\ attempt >= maxRetries
    /\ call' = "raised"
    /\ UNCHANGED delay

\* Mutant: the test for the last attempt is off by one.
BacksOffOnceMore(a) ==
    /\ Request(a)
    /\ Retryable(a)
    /\ attempt <= maxRetries
    /\ Sleepable(a)
    /\ delay' = Delay(a)
    /\ call' = "sleep"

BacksOff(a) ==
    /\ Request(a)
    /\ Retryable(a)
    /\ attempt < maxRetries
    /\ Sleepable(a)
    /\ delay' = Delay(a)
    /\ call' = "sleep"

(* A negative number or nan: sleep raises its own exception.               *)
SleepRaises(a) ==
    /\ Request(a)
    /\ Retryable(a)
    /\ attempt < maxRetries
    /\ ~Sleepable(a)
    /\ call' = "failed"
    /\ UNCHANGED delay

\* Mutant: the attempt is not counted.
WakesUncounted ==
    /\ call = "sleep"
    /\ call' = "send"
    /\ delay' = 0
    /\ UNCHANGED <<maxRetries, attempt, sent, answer>>

Wakes ==
    /\ call = "sleep"
    /\ call' = "send"
    /\ attempt' = attempt + 1
    /\ delay' = 0
    /\ UNCHANGED <<maxRetries, sent, answer>>

RetryStep ==
    \/ \E a \in Answers : Returns(a) \/ GivesUp(a) \/ BacksOff(a) \/ SleepRaises(a)
    \/ Wakes

-----------------------------------------------------------------------------
(* Properties.                                                             *)

(* The policy of the docstring: at most max_retries + 1 requests; a        *)
(* response is returned only if it is a success; an HTTP error surfaces    *)
(* when it is not worth a retry or when every attempt was used, never      *)
(* before; and no other exception, but for a Retry-After nobody can sleep. *)
RetryPromise ==
    /\ sent <= maxRetries + 1
    /\ call = "returned" => answer.status = "ok"
    /\ call = "raised" =>
          answer.status = "refused" \/ (Retryable(answer) /\ sent = maxRetries + 1)
    /\ call = "failed" => sent <= maxRetries /\ ~Sleepable(answer)

(* "Respecting the source's rate limit rather than hammering it": there is *)
(* a wait between two requests, a Retry-After of zero notwithstanding, and *)
(* none shorter than the number of seconds a source asks for.  A source    *)
(* that asks with a date, as HTTP allows, gets the backoff, however long   *)
(* it asks for: _retry_after reads numbers only.                           *)
NeverHammers ==
    call = "sleep" => /\ delay > 0
                      /\ answer.after.form = "number" => delay >= answer.after.value
=============================================================================
