------------------------------- MODULE HttpClient -------------------------------
(***************************************************************************)
(* One HttpClient (src/core/http.py) with its TokenBucket and              *)
(* CircuitBreaker (src/core/ratelimit.py), shared by concurrent calls of   *)
(* request: the runner fetches all candle histories at once through one    *)
(* instance.                                                               *)
(* Configured as EtoroClient configures it: own httpx client, no proxy,    *)
(* dns_bypass "auto".                                                      *)
(*                                                                         *)
(* A call is a coroutine: an action is what it does from one await to the  *)
(* next.  The awaits are the token bucket (its lock, or the sleep of the   *)
(* call that holds it), the request itself, the name resolution, the       *)
(* closing of the old httpx client, and the backoff.                       *)
(***************************************************************************)
EXTENDS Integers, Sequences, FiniteSets

CONSTANTS
  Calls,      \* coroutines that may be inside request at the same time
  Attempts,   \* max_retries
  Capacity,   \* bucket.capacity
  Threshold,  \* failure_threshold
  ResetTime   \* reset_timeout_s, in units of the clock

ASSUME HttpAssumption ==
  /\ IsFiniteSet(Calls)
  /\ Attempts \in Nat \ {0} /\ Capacity \in Nat \ {0}
  /\ Threshold \in Nat \ {0} /\ ResetTime \in Nat \ {0}

VARIABLES
  pc,        \* of each call: where it awaits
  attempt,   \* of each call
  failures,  \* breaker._failures
  openFor,   \* time since breaker._opened_at; NotOpen when it is None
  client,    \* self._client: live, or closed and not yet replaced
  bypass,    \* self._bypass_active
  tokens,    \* bucket._tokens, the whole ones
  waiters    \* bucket._lock: the call that holds it, then those that wait for it

\* Kept for the properties only.
VARIABLES
  failed,    \* calls that failed since the failure count was last reset
  result     \* how each call's latest request ended

vars == <<pc, attempt, failures, openFor, client, bypass, tokens, waiters, failed, result>>

breakerVars == <<failures, openFor, failed>>
clientVars  == <<client, bypass>>
bucketVars  == <<tokens, waiters>>

NotOpen == -1
PCs     == {"idle", "bucket", "sending", "resolving", "closing", "backoff"}
Results == {"none", "ok", "upstream_error", "circuit_open", "escaped"}

Init ==
  /\ pc = [c \in Calls |-> "idle"] /\ attempt = [c \in Calls |-> 0]
  /\ failures = 0 /\ openFor = NotOpen
  /\ client = "live" /\ bypass = FALSE
  /\ tokens = Capacity /\ waiters = <<>>
  /\ failed = 0 /\ result = [c \in Calls |-> "none"]

(***************************************************************************)
(* CircuitBreaker.                                                         *)
(***************************************************************************)
IsOpen == openFor # NotOpen /\ openFor < ResetTime

ResetBreaker == failures' = 0 /\ openFor' = NotOpen /\ failed' = 0

\* times: how often one call executes record_failure in a row.
RecordFailure(times) ==
  /\ failures' = failures + times
  /\ openFor' = IF failures + times >= Threshold THEN 0 ELSE openFor

(***************************************************************************)
(* TokenBucket: an asyncio.Lock is handed on in the order it was asked     *)
(* for, and the call that holds it sleeps until there is a token.          *)
(***************************************************************************)
AskForToken(c) == waiters' = Append(waiters, c) /\ UNCHANGED tokens

Acquire(c) ==
  /\ waiters # <<>> /\ Head(waiters) = c
  /\ tokens > 0 /\ tokens' = tokens - 1
  /\ waiters' = Tail(waiters)

\* The code adds up what time brought when it looks; here every token comes in its turn.
Refill ==
  /\ tokens < Capacity /\ tokens' = tokens + 1
  /\ UNCHANGED <<pc, attempt, breakerVars, clientVars, waiters, result>>

(***************************************************************************)
(* request.                                                                *)
(***************************************************************************)
Goto(c, place) == pc' = [pc EXCEPT ![c] = place]

End(c, how) ==
  /\ Goto(c, "idle") /\ attempt' = [attempt EXCEPT ![c] = 0]
  /\ result' = [result EXCEPT ![c] = how]

RefusedPostpones(c) ==            \* mutant: a refused call starts the timeout again
  /\ pc[c] = "idle" /\ IsOpen
  /\ End(c, "circuit_open") /\ openFor' = 0
  /\ UNCHANGED <<failures, failed, clientVars, bucketVars>>

\* guard raises.
Refused(c) ==
  /\ pc[c] = "idle" /\ IsOpen
  /\ End(c, "circuit_open")
  /\ UNCHANGED <<breakerVars, clientVars, bucketVars>>

EnterUnguarded(c) ==              \* mutant: the guard is missing
  /\ pc[c] = "idle"
  /\ Goto(c, "bucket") /\ attempt' = [attempt EXCEPT ![c] = 1] /\ AskForToken(c)
  /\ UNCHANGED <<breakerVars, clientVars, result>>

\* guard passes; when the reset timeout is over, it closes the circuit on the way.
Enter(c) ==
  /\ pc[c] = "idle" /\ ~IsOpen
  /\ Goto(c, "bucket") /\ attempt' = [attempt EXCEPT ![c] = 1] /\ AskForToken(c)
  /\ IF openFor = NotOpen THEN UNCHANGED breakerVars ELSE ResetBreaker
  /\ UNCHANGED <<clientVars, result>>

\* With a token, the request goes out.  httpx refuses to send on a closed client with an
\* exception that request does not catch.
Send(c) ==
  /\ pc[c] = "bucket" /\ client = "live" /\ Acquire(c)
  /\ Goto(c, "sending")
  /\ UNCHANGED <<attempt, breakerVars, clientVars, result>>

SendOnClosed(c) ==
  /\ pc[c] = "bucket" /\ client = "closed" /\ Acquire(c)
  /\ End(c, "escaped")
  /\ UNCHANGED <<breakerVars, clientVars>>

Succeed(c) ==
  /\ pc[c] = "sending"
  /\ End(c, "ok") /\ ResetBreaker /\ UNCHANGED <<clientVars, bucketVars>>

\* A status that is not retryable: the provider is up, so the breaker records a success.
ClientError(c) ==
  /\ pc[c] = "sending"
  /\ End(c, "upstream_error") /\ ResetBreaker /\ UNCHANGED <<clientVars, bucketVars>>

\* A call that ran out of attempts records its failure after the loop.
GiveUp(c, times) ==
  /\ End(c, "upstream_error")
  /\ RecordFailure(times) /\ failed' = failed + 1

RetryPastLast(c) ==               \* mutant: one attempt too many
  IF attempt[c] > Attempts
  THEN GiveUp(c, 2)
  ELSE /\ Goto(c, "backoff")
       /\ UNCHANGED <<attempt, failures, openFor, failed, result>>

RetryCounted(c) ==                \* mutant: every failed attempt is recorded
  IF attempt[c] >= Attempts
  THEN GiveUp(c, 1)
  ELSE /\ Goto(c, "backoff")
       /\ RecordFailure(1)
       /\ UNCHANGED <<attempt, failed, result>>

\* The rest of the handler of a retryable failure: the last attempt breaks out of the loop
\* having recorded the failure a first time.
Retry(c) ==
  IF attempt[c] >= Attempts
  THEN GiveUp(c, 2)
  ELSE /\ Goto(c, "backoff")
       /\ UNCHANGED <<attempt, failures, openFor, failed, result>>

\* A retryable status, a timeout, or a transport error that does not look like a hijack
\* (or does, when the bypass is active already).
RetryableError(c) ==
  /\ pc[c] = "sending" /\ Retry(c) /\ UNCHANGED <<clientVars, bucketVars>>

\* The error looks like a DNS hijack: _enable_dns_bypass resolves the host over HTTPS.
HijackError(c) ==
  /\ pc[c] = "sending" /\ ~bypass
  /\ Goto(c, "resolving")
  /\ UNCHANGED <<attempt, breakerVars, clientVars, bucketVars, result>>

NotResolved(c) ==
  /\ pc[c] = "resolving" /\ Retry(c) /\ UNCHANGED <<clientVars, bucketVars>>

\* aclose marks the client closed before it first awaits.
Resolved(c) ==
  /\ pc[c] = "resolving"
  /\ Goto(c, "closing") /\ client' = "closed"
  /\ UNCHANGED <<attempt, breakerVars, bypass, bucketVars, result>>

NextAttemptStuck(c) ==            \* mutant: the attempt is not counted
  Goto(c, "bucket") /\ AskForToken(c) /\ UNCHANGED attempt

NextAttempt(c) ==
  Goto(c, "bucket") /\ AskForToken(c) /\ attempt' = [attempt EXCEPT ![c] = @ + 1]

\* The client is replaced, and the loop continues: with the next attempt, if there is one.
Replace(c) ==
  /\ pc[c] = "closing"
  /\ client' = "live" /\ bypass' = TRUE
  /\ IF attempt[c] < Attempts
     THEN NextAttempt(c) /\ UNCHANGED <<failures, openFor, failed, result>>
     ELSE GiveUp(c, 1) /\ UNCHANGED bucketVars

Backoff(c) ==
  /\ pc[c] = "backoff" /\ NextAttempt(c)
  /\ UNCHANGED <<breakerVars, clientVars, result>>

\* Time passes for an open circuit.
Tick ==
  /\ IsOpen /\ openFor' = openFor + 1
  /\ UNCHANGED <<pc, attempt, failures, clientVars, bucketVars, failed, result>>

\* What a call that is inside request does next.
Progress(c) ==
  \/ Send(c) \/ SendOnClosed(c) \/ Succeed(c) \/ ClientError(c) \/ RetryableError(c)
  \/ HijackError(c) \/ NotResolved(c) \/ Resolved(c) \/ Replace(c) \/ Backoff(c)

Next == Tick \/ Refill \/ \E c \in Calls : Refused(c) \/ Enter(c) \/ Progress(c)

\* Every await of a call ends, by its timeout at the latest; time goes on, and brings
\* tokens.  Nothing obliges a call to be made, or a provider to answer well.
Spec == Init /\ [][Next]_vars /\ WF_vars(Tick) /\ WF_vars(Refill)
        /\ \A c \in Calls : WF_vars(Progress(c))

(***************************************************************************)
(* Properties.                                                             *)
(***************************************************************************)

\* Every variable keeps its type.
TypeOK ==
  /\ pc \in [Calls -> PCs] /\ attempt \in [Calls -> 0 .. Attempts]
  /\ failures \in Nat /\ openFor \in NotOpen .. ResetTime
  /\ client \in {"live", "closed"} /\ bypass \in BOOLEAN
  /\ tokens \in 0 .. Capacity /\ waiters \in Seq(Calls)
  /\ failed \in Nat /\ result \in [Calls -> Results]

\* What an open circuit stands for in this code: at least half as many calls as the
\* threshold have failed since the count was last reset.  A call counts twice at most,
\* however many attempts it made, and calls that were refused or answered do not count.
OpenMeansFailing == openFor # NotOpen => 2 * failed >= Threshold

\* Who backs off has an attempt left.
AttemptsLeft == \A c \in Calls : pc[c] = "backoff" => attempt[c] < Attempts

\* The inductive invariant behind OpenMeansFailing: what the count means, and when the circuit is open.
BreakerInv ==
  /\ failures \in 0 .. 2 * failed
  /\ openFor # NotOpen => failures >= Threshold

\* However many calls are in flight when the circuit opens, the count stays in bounds.
FailuresBounded == failures <= Threshold - 1 + 2 * Cardinality(Calls)

\* The inductive invariant behind it: no call can enter while the count is at the
\* threshold, and each of those in flight adds two at most before it is out.
InFlight == {c \in Calls : pc[c] # "idle"}

FlightInv ==
  /\ openFor = NotOpen => failures < Threshold
  /\ failures >= Threshold =>
       failures <= Threshold - 1 + 2 * (Cardinality(Calls) - Cardinality(InFlight))

\* Every call ends, whatever its attempts, the bypass and the other calls do, and however
\* many calls wait for the bucket before it.
CallEnds == \A c \in Calls : pc[c] # "idle" ~> pc[c] = "idle"

\* The circuit does not stay open: late failures of calls already in flight postpone its
\* reset, but new calls do not.
CircuitReset == IsOpen ~> ~IsOpen

=============================================================================
