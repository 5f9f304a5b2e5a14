--------------------------- MODULE HttpClient_proofs ---------------------------
(***************************************************************************)
(* Proofs about HttpClient, for every set of calls, number of attempts,    *)
(* threshold and reset timeout.                                            *)
(***************************************************************************)
EXTENDS HttpClient, FiniteSetTheorems, TLAPS

TypeInv == TypeOK /\ AttemptsLeft

\* Giving up keeps the types, however many times it records the failure.
LEMMA GiveUpTyped ==
  ASSUME TypeInv, NEW c \in Calls, NEW times \in 1 .. 2, GiveUp(c, times)
  PROVE  /\ pc' \in [Calls -> PCs] /\ attempt' \in [Calls -> 0 .. Attempts]
         /\ failures' \in Nat /\ openFor' \in NotOpen .. ResetTime
         /\ failed' \in Nat /\ result' \in [Calls -> Results]
         /\ AttemptsLeft'
  BY HttpAssumption
  DEF TypeInv, TypeOK, AttemptsLeft, GiveUp, End, Goto, RecordFailure, PCs, Results, NotOpen

\* So does the end of a retryable failure.
LEMMA RetryTyped ==
  ASSUME TypeInv, NEW c \in Calls, Retry(c)
  PROVE  /\ pc' \in [Calls -> PCs] /\ attempt' \in [Calls -> 0 .. Attempts]
         /\ failures' \in Nat /\ openFor' \in NotOpen .. ResetTime
         /\ failed' \in Nat /\ result' \in [Calls -> Results]
         /\ AttemptsLeft'
<1>1. CASE attempt[c] >= Attempts
  <2>1. GiveUp(c, 2)  BY <1>1 DEF Retry
  <2> QED  BY <2>1, GiveUpTyped
<1>2. CASE ~(attempt[c] >= Attempts)
  <2>1. /\ Goto(c, "backoff") /\ UNCHANGED <<attempt, failures, openFor, failed, result>>
    BY <1>2 DEF Retry
  <2>2. pc \in [Calls -> PCs] /\ attempt \in [Calls -> 0 .. Attempts] /\ AttemptsLeft
    BY DEF TypeInv, TypeOK
  <2>3. pc' \in [Calls -> PCs]  BY <2>1, <2>2 DEF Goto, PCs
  <2>4. AttemptsLeft'
    BY <1>2, <2>1, <2>2, HttpAssumption DEF Goto, AttemptsLeft
  <2> QED  BY <2>1, <2>3, <2>4 DEF TypeInv, TypeOK
<1> QED  BY <1>1, <1>2

\* Asking for a token, and getting one.
LEMMA AskTyped ==
  ASSUME TypeInv, NEW c \in Calls, AskForToken(c)
  PROVE  tokens' \in 0 .. Capacity /\ waiters' \in Seq(Calls)
  BY DEF TypeInv, TypeOK, AskForToken

LEMMA AcquireTyped ==
  ASSUME TypeInv, NEW c \in Calls, Acquire(c)
  PROVE  tokens' \in 0 .. Capacity /\ waiters' \in Seq(Calls)
<1>1. tokens' \in 0 .. Capacity  BY HttpAssumption DEF TypeInv, TypeOK, Acquire
<1>2. waiters' \in Seq(Calls)  BY DEF TypeInv, TypeOK, Acquire
<1> QED  BY <1>1, <1>2

\* A step of a call, or of the clock, keeps every variable's type and never lets a call
\* start an attempt past its last.
LEMMA StepTyped == TypeInv /\ [Next]_vars => TypeInv'
<1> SUFFICES ASSUME TypeInv, [Next]_vars PROVE TypeInv'  OBVIOUS
<1> USE HttpAssumption DEF TypeInv, TypeOK, AttemptsLeft, PCs, Results, NotOpen
<1>1. CASE Tick  BY <1>1 DEF Tick, IsOpen, clientVars, bucketVars
<1>0. CASE Refill  BY <1>0 DEF Refill, breakerVars, clientVars
<1>2. ASSUME NEW c \in Calls, Refused(c) PROVE TypeInv'
  BY <1>2 DEF Refused, End, Goto, breakerVars, clientVars, bucketVars
<1>3. ASSUME NEW c \in Calls, Enter(c) PROVE TypeInv'
  <2>1. AskForToken(c)  BY <1>3 DEF Enter
  <2> QED  BY <1>3, <2>1, AskTyped DEF Enter, Goto, ResetBreaker, breakerVars, clientVars
<1>4. ASSUME NEW c \in Calls, HijackError(c) PROVE TypeInv'
  BY <1>4 DEF HijackError, Goto, breakerVars, clientVars, bucketVars
<1>12. ASSUME NEW c \in Calls, Send(c) PROVE TypeInv'
  <2>1. Acquire(c)  BY <1>12 DEF Send
  <2> QED  BY <1>12, <2>1, AcquireTyped DEF Send, Goto, breakerVars, clientVars
<1>5. ASSUME NEW c \in Calls, SendOnClosed(c) PROVE TypeInv'
  <2>1. Acquire(c)  BY <1>5 DEF SendOnClosed
  <2> QED  BY <1>5, <2>1, AcquireTyped DEF SendOnClosed, End, Goto, breakerVars, clientVars
<1>6. ASSUME NEW c \in Calls, Succeed(c) \/ ClientError(c) PROVE TypeInv'
  <2>1. /\ pc' = [pc EXCEPT ![c] = "idle"] /\ attempt' = [attempt EXCEPT ![c] = 0]
        /\ failures' = 0 /\ openFor' = -1 /\ failed' = 0
        /\ result' \in {[result EXCEPT ![c] = "ok"], [result EXCEPT ![c] = "upstream_error"]}
        /\ UNCHANGED <<client, bypass, tokens, waiters>>
    BY <1>6, Zenon
    DEF Succeed, ClientError, End, Goto, ResetBreaker, clientVars, bucketVars
  <2> QED  BY <2>1
<1>7. ASSUME NEW c \in Calls, RetryableError(c) \/ NotResolved(c) PROVE TypeInv'
  <2>1. Retry(c) /\ UNCHANGED <<clientVars, bucketVars>>
    BY <1>7 DEF RetryableError, NotResolved
  <2> QED  BY <2>1, RetryTyped DEF clientVars, bucketVars
<1>8. ASSUME NEW c \in Calls, Resolved(c) PROVE TypeInv'
  BY <1>8 DEF Resolved, Goto, breakerVars, bucketVars
<1>9. ASSUME NEW c \in Calls, Replace(c) PROVE TypeInv'
  <2>1. CASE attempt[c] < Attempts
    <3>1. AskForToken(c)  BY <1>9, <2>1 DEF Replace, NextAttempt
    <3>2. /\ pc' = [pc EXCEPT ![c] = "bucket"] /\ attempt' = [attempt EXCEPT ![c] = @ + 1]
          /\ client' = "live" /\ bypass' = TRUE
          /\ UNCHANGED <<failures, openFor, failed, result>>
      BY <1>9, <2>1, Zenon DEF Replace, NextAttempt, Goto
    <3> QED  BY <2>1, <3>1, <3>2, AskTyped
  <2>2. CASE ~(attempt[c] < Attempts)
    <3>1. /\ GiveUp(c, 1) /\ client' = "live" /\ bypass' = TRUE
          /\ UNCHANGED bucketVars
      BY <1>9, <2>2 DEF Replace
    <3> QED  BY <3>1, GiveUpTyped DEF bucketVars
  <2> QED  BY <2>1, <2>2
<1>10. ASSUME NEW c \in Calls, Backoff(c) PROVE TypeInv'
  <2>1. AskForToken(c)  BY <1>10 DEF Backoff, NextAttempt
  <2> QED  BY <1>10, <2>1, AskTyped DEF Backoff, NextAttempt, Goto, breakerVars, clientVars
<1>11. CASE UNCHANGED vars  BY <1>11 DEF vars
<1> QED
  BY <1>0, <1>1, <1>2, <1>3, <1>4, <1>5, <1>6, <1>7, <1>8, <1>9, <1>10, <1>11, <1>12
  DEF Next, Progress

\* Every variable of the client keeps its type: a call of request makes at most the
\* attempts it was given, across retries, the bypass and other calls' steps.
THEOREM ClientTypeCorrect == Spec => []TypeOK
<1>1. Init => TypeInv
  <2> SUFFICES ASSUME Init PROVE TypeInv  OBVIOUS
  <2>1. /\ pc \in [Calls -> PCs] /\ attempt \in [Calls -> 0 .. Attempts]
        /\ result \in [Calls -> Results] /\ AttemptsLeft
    BY HttpAssumption DEF Init, PCs, Results, AttemptsLeft
  <2>2. failures \in Nat /\ openFor \in NotOpen .. ResetTime /\ failed \in Nat
    BY HttpAssumption DEF Init, NotOpen
  <2>3. client \in {"live", "closed"} /\ bypass \in BOOLEAN  BY Zenon DEF Init
  <2>4. tokens \in 0 .. Capacity /\ waiters \in Seq(Calls)  BY HttpAssumption DEF Init
  <2> QED  BY <2>1, <2>2, <2>3, <2>4, Zenon DEF TypeInv, TypeOK
<1>2. TypeInv => TypeOK  BY DEF TypeInv
<1> QED  BY <1>1, <1>2, StepTyped, PTL DEF Spec

\* A call that gives up counts at most twice.
LEMMA GiveUpCounted ==
  ASSUME TypeOK, BreakerInv, NEW c \in Calls, NEW times \in 1 .. 2, GiveUp(c, times)
  PROVE  BreakerInv'
  BY HttpAssumption DEF TypeOK, BreakerInv, GiveUp, RecordFailure, NotOpen

\* The end of a retryable failure counts only for the call's last attempt.
LEMMA RetryCountedOnce ==
  ASSUME TypeOK, BreakerInv, NEW c \in Calls, Retry(c)
  PROVE  BreakerInv'
<1>1. CASE attempt[c] >= Attempts
  <2>1. GiveUp(c, 2)  BY <1>1 DEF Retry
  <2> QED  BY <2>1, GiveUpCounted
<1>2. CASE ~(attempt[c] >= Attempts)
  BY <1>2 DEF BreakerInv, Retry
<1> QED  BY <1>1, <1>2

\* No step of a call or of the clock breaks the meaning of the count.
LEMMA StepCounted == TypeOK /\ BreakerInv /\ [Next]_vars => BreakerInv'
<1> SUFFICES ASSUME TypeOK, BreakerInv, [Next]_vars PROVE BreakerInv'  OBVIOUS
<1>0. ASSUME UNCHANGED breakerVars PROVE BreakerInv'
  BY <1>0 DEF BreakerInv, breakerVars
<1>1. ASSUME ResetBreaker PROVE BreakerInv'
  BY <1>1 DEF BreakerInv, ResetBreaker
<1>2. CASE Tick
  BY <1>2 DEF Tick, IsOpen, BreakerInv, TypeOK
<1>9. CASE Refill  BY <1>9, <1>0 DEF Refill
<1>3. ASSUME NEW c \in Calls, Enter(c) PROVE BreakerInv'
  BY <1>3, <1>0, <1>1 DEF Enter
<1>4. ASSUME NEW c \in Calls,
             \/ Refused(c) \/ Send(c) \/ SendOnClosed(c) \/ HijackError(c) \/ Resolved(c)
             \/ Backoff(c)
      PROVE  BreakerInv'
  BY <1>4, <1>0 DEF Refused, Send, SendOnClosed, HijackError, Resolved, Backoff
<1>5. ASSUME NEW c \in Calls, Succeed(c) \/ ClientError(c) PROVE BreakerInv'
  BY <1>5, <1>1 DEF Succeed, ClientError
<1>6. ASSUME NEW c \in Calls, RetryableError(c) \/ NotResolved(c) PROVE BreakerInv'
  BY <1>6, RetryCountedOnce DEF RetryableError, NotResolved
<1>7. ASSUME NEW c \in Calls, Replace(c) PROVE BreakerInv'
  <2>1. CASE attempt[c] < Attempts  BY <1>7, <2>1 DEF Replace, BreakerInv
  <2>2. CASE ~(attempt[c] < Attempts)  BY <1>7, <2>2, GiveUpCounted DEF Replace
  <2> QED  BY <2>1, <2>2
<1>8. CASE UNCHANGED vars  BY <1>8, <1>0 DEF vars, breakerVars
<1> QED
  BY <1>2, <1>3, <1>4, <1>5, <1>6, <1>7, <1>8, <1>9 DEF Next, Progress

\* However calls interleave, retry, switch to the bypass and time out, an open circuit
\* means that at least half as many calls as the threshold have failed since the failure
\* count was last reset.
THEOREM OpenTheorem == Spec => []OpenMeansFailing
<1>1. Init => BreakerInv  BY DEF Init, BreakerInv
<1>2. TypeOK /\ BreakerInv => OpenMeansFailing
  BY HttpAssumption DEF TypeOK, BreakerInv, OpenMeansFailing
<1> QED  BY <1>1, <1>2, StepCounted, ClientTypeCorrect, PTL DEF Spec

\* A call that leaves makes room for the two failures it may have counted.
LEMMA FlightSize ==
  /\ IsFiniteSet(InFlight) /\ Cardinality(Calls) \in Nat /\ Cardinality(InFlight) \in Nat
  /\ Cardinality(InFlight) <= Cardinality(Calls)
<1>1. InFlight \subseteq Calls  BY DEF InFlight
<1> QED  BY <1>1, HttpAssumption, FS_Subset, FS_CardinalityType

LEMMA Leaving ==
  ASSUME TypeOK, NEW c \in InFlight, pc' = [pc EXCEPT ![c] = "idle"]
  PROVE  Cardinality(InFlight') = Cardinality(InFlight) - 1
<1>1. InFlight' = InFlight \ {c}  BY DEF TypeOK, InFlight
<1> QED  BY <1>1, FlightSize, FS_RemoveElement

\* A call that moves on to another await stays in flight.
LEMMA Moving ==
  ASSUME TypeOK, NEW c \in InFlight, NEW place, place # "idle", Goto(c, place)
  PROVE  InFlight' = InFlight
  BY DEF TypeOK, InFlight, Goto

\* A call that gives up leaves, and counts for at most as much as that makes room for.
LEMMA GiveUpInFlight ==
  ASSUME TypeOK, FlightInv, NEW c \in InFlight, NEW times \in 1 .. 2, GiveUp(c, times)
  PROVE  FlightInv'
<1>1. Cardinality(InFlight') = Cardinality(InFlight) - 1
  BY Leaving DEF GiveUp, End, Goto
<1>2. /\ failures' = failures + times
      /\ openFor' = IF failures + times >= Threshold THEN 0 ELSE openFor
  BY DEF GiveUp, RecordFailure
<1> QED  BY <1>1, <1>2, FlightSize, HttpAssumption DEF TypeOK, FlightInv, NotOpen

LEMMA RetryInFlight ==
  ASSUME TypeOK, FlightInv, NEW c \in InFlight, Retry(c)
  PROVE  FlightInv'
<1>1. CASE attempt[c] >= Attempts
  <2>1. GiveUp(c, 2)  BY <1>1 DEF Retry
  <2> QED  BY <2>1, GiveUpInFlight
<1>2. CASE ~(attempt[c] >= Attempts)
  <2>1. Goto(c, "backoff") /\ UNCHANGED <<failures, openFor>>  BY <1>2 DEF Retry
  <2> QED  BY <2>1, Moving DEF FlightInv
<1> QED  BY <1>1, <1>2

LEMMA StepInFlight == TypeOK /\ FlightInv /\ [Next]_vars => FlightInv'
<1> SUFFICES ASSUME TypeOK, FlightInv, [Next]_vars PROVE FlightInv'  OBVIOUS
<1>1. ASSUME InFlight' = InFlight, UNCHANGED breakerVars PROVE FlightInv'
  BY <1>1 DEF FlightInv, breakerVars
<1>2. ASSUME ResetBreaker PROVE FlightInv'
  BY <1>2, HttpAssumption DEF FlightInv, ResetBreaker
<1>3. CASE Tick
  BY <1>3 DEF Tick, IsOpen, FlightInv, InFlight, TypeOK, NotOpen
<1>4. CASE Refill
  <2>1. InFlight' = InFlight  BY <1>4 DEF Refill, InFlight
  <2> QED  BY <1>4, <2>1, <1>1 DEF Refill
<1>5. ASSUME NEW c \in Calls, Refused(c) PROVE FlightInv'
  <2>1. InFlight' = InFlight  BY <1>5 DEF Refused, End, Goto, InFlight, TypeOK
  <2> QED  BY <1>5, <2>1, <1>1 DEF Refused
<1>6. ASSUME NEW c \in Calls, Enter(c) PROVE FlightInv'
  <2>1. CASE openFor = NotOpen
    <3>1. failures < Threshold /\ UNCHANGED <<failures, openFor>>
      BY <1>6, <2>1 DEF Enter, breakerVars, FlightInv
    <3> QED  BY <3>1, HttpAssumption DEF FlightInv, TypeOK
  <2>2. CASE openFor # NotOpen
    BY <1>6, <2>2, <1>2 DEF Enter
  <2> QED  BY <2>1, <2>2
<1>7. ASSUME NEW c \in Calls, Progress(c) PROVE FlightInv'
  <2>1. c \in InFlight
    BY <1>7 DEF Progress, InFlight, Send, SendOnClosed, Succeed, ClientError, RetryableError,
                HijackError, NotResolved, Resolved, Replace, Backoff
  <2>2. CASE Send(c) \/ HijackError(c) \/ Resolved(c) \/ Backoff(c)
    <3>1. \E place \in {"sending", "resolving", "closing", "bucket"} : Goto(c, place)
      BY <2>2 DEF Send, HijackError, Resolved, Backoff, NextAttempt
    <3>2. InFlight' = InFlight  BY <2>1, <3>1, Moving
    <3> QED  BY <2>2, <3>2, <1>1 DEF Send, HijackError, Resolved, Backoff
  <2>3. CASE SendOnClosed(c)
    <3>1. Cardinality(InFlight') = Cardinality(InFlight) - 1
      BY <2>1, <2>3, Leaving DEF SendOnClosed, End, Goto
    <3>2. UNCHANGED <<failures, openFor>>  BY <2>3 DEF SendOnClosed, breakerVars
    <3> QED  BY <3>1, <3>2, FlightSize, HttpAssumption DEF FlightInv, TypeOK
  <2>4. CASE Succeed(c) \/ ClientError(c)
    BY <2>4, <1>2 DEF Succeed, ClientError
  <2>5. CASE RetryableError(c) \/ NotResolved(c)
    BY <2>1, <2>5, RetryInFlight DEF RetryableError, NotResolved
  <2>6. CASE Replace(c)
    <3>1. CASE attempt[c] < Attempts
      <4>1. Goto(c, "bucket") /\ UNCHANGED <<failures, openFor>>
        BY <2>6, <3>1 DEF Replace, NextAttempt
      <4> QED  BY <2>1, <4>1, Moving DEF FlightInv
    <3>2. CASE ~(attempt[c] < Attempts)
      BY <2>1, <2>6, <3>2, GiveUpInFlight DEF Replace
    <3> QED  BY <3>1, <3>2
  <2> QED  BY <1>7, <2>2, <2>3, <2>4, <2>5, <2>6 DEF Progress
<1>8. CASE UNCHANGED vars
  <2>1. InFlight' = InFlight  BY <1>8 DEF vars, InFlight
  <2> QED  BY <1>8, <2>1, <1>1 DEF vars, breakerVars
<1> QED  BY <1>3, <1>4, <1>5, <1>6, <1>7, <1>8 DEF Next

\* However many calls are in flight when the circuit opens, and in whatever order they
\* fail, the failure count stays within twice their number of the threshold.
THEOREM FailuresTheorem == Spec => []FailuresBounded
<1>1. Init => FlightInv
  BY HttpAssumption DEF Init, FlightInv
<1>2. TypeOK /\ FlightInv => FailuresBounded
  BY FlightSize, HttpAssumption DEF TypeOK, FlightInv, FailuresBounded
<1> QED  BY <1>1, <1>2, StepInFlight, ClientTypeCorrect, PTL DEF Spec

=============================================================================
