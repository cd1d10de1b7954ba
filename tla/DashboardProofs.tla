--------------------------- MODULE DashboardProofs ---------------------------
(***************************************************************************)
(* Theorems about Dashboard for any number of requests, messages on their  *)
(* way and failures, and whatever may happen to the service: the retries   *)
(* of one page.                                                            *)
(***************************************************************************)
EXTENDS Dashboard, FiniteSetTheorems, TLAPS

\* One attempt: a page without a timer has a socket, and one with a timer has none.
AttemptInv ==
    /\ socket \in {"connecting", "open", "refusing", "closed"}
    /\ timers = IF socket = "closed" THEN 1 ELSE 0

\* state.retry is ahead of the delay that was used last, and not behind the failures.
RetryInv ==
    /\ retry \in 0..MaxRetry /\ delay \in 0..MaxRetry /\ failures \in Nat
    /\ retry >= failures \/ retry = MaxRetry
    /\ BacksOff

\* A page as it is loaded.
LEMMA PageInit == Init => AttemptInv /\ RetryInv
  BY DEF Init, AttemptInv, RetryInv, BacksOff, MaxRetry

\* The steps that neither close a socket nor make one leave the retries alone; onclose,
\* whatever its reason, schedules the one next attempt.
LEMMA PageCases ==
    ASSUME [Next]_vars
    PROVE  \/ UNCHANGED <<socket, timers, retry, delay, failures>>
           \/ Connect \/ Open
           \/ /\ socket \in {"connecting", "open", "refusing"} /\ OnClose
              /\ \/ failures' = failures
                 \/ failures' = Count(failures)
  <1>1. CASE News \/ UpOrDown \/ FullOrNot \/ Publish \/ OnMessage \/ Poll \/ UNCHANGED vars
    BY <1>1 DEF News, UpOrDown, FullOrNot, Publish, OnMessage, Poll, vars
  <1>2. CASE \E f \in Fetches : Answer(f) \/ Arrive(f) \/ FetchFails(f)
    BY <1>2 DEF Answer, Arrive, FetchFails
  <1>3. CASE ConnectFails \/ Refused \/ Drop
    BY <1>3 DEF ConnectFails, Refused, Drop
  <1> QED
    BY <1>1, <1>2, <1>3 DEF Next

\* Every step of the page and of the service keeps both.
LEMMA PageStep == AttemptInv /\ RetryInv /\ [Next]_vars => AttemptInv' /\ RetryInv'
  <1> SUFFICES ASSUME AttemptInv, RetryInv, [Next]_vars PROVE AttemptInv' /\ RetryInv'
    OBVIOUS
  <1>1. /\ retry \in 0..MaxRetry /\ delay \in 0..MaxRetry /\ failures \in Nat /\ MaxRetry = 6
        /\ retry >= failures \/ retry = MaxRetry
    BY DEF RetryInv, MaxRetry
  <1>2. CASE UNCHANGED <<socket, timers, retry, delay, failures>>
    BY <1>2 DEF AttemptInv, RetryInv, BacksOff
  <1>3. CASE Connect
    BY <1>3 DEF Connect, AttemptInv, RetryInv, BacksOff
  <1>4. CASE Open
    BY <1>1, <1>4 DEF Open, AttemptInv, RetryInv, BacksOff
  <1>5. CASE /\ socket \in {"connecting", "open", "refusing"} /\ OnClose
             /\ \/ failures' = failures
                \/ failures' = Count(failures)
    <2>1. AttemptInv'
      BY <1>5 DEF OnClose, AttemptInv
    <2>2. failures' \in Nat /\ failures' <= failures + 1
      BY <1>1, <1>5, DashboardAssumption DEF Count
    <2>3. delay' = retry /\ retry' = (IF retry < MaxRetry THEN retry + 1 ELSE retry)
      BY <1>5 DEF OnClose, Longer
    <2>4. RetryInv'
      BY <1>1, <2>2, <2>3 DEF RetryInv, BacksOff
    <2> QED
      BY <2>1, <2>4
  <1> QED
    BY <1>2, <1>3, <1>4, <1>5, PageCases

\* However often the service comes and goes, the page has one socket or one timer.
THEOREM AlwaysOneAttempt == Spec => []OneAttempt
  <1>1. AttemptInv => OneAttempt
    <2> SUFFICES ASSUME AttemptInv PROVE OneAttempt
      OBVIOUS
    <2>1. CASE socket = "closed"
      <3>1. {s \in {socket} : s # "closed"} = {} /\ timers = 1
        BY <2>1 DEF AttemptInv
      <3> QED
        BY <3>1, FS_EmptySet DEF OneAttempt
    <2>2. CASE socket # "closed"
      <3>1. {s \in {socket} : s # "closed"} = {socket} /\ timers = 0
        BY <2>2 DEF AttemptInv
      <3> QED
        BY <3>1, FS_Singleton DEF OneAttempt
    <2> QED
      BY <2>1, <2>2
  <1> QED
    BY <1>1, PageInit, PageStep, PTL DEF Spec

\* While no attempt finds a service the delays grow up to the longest.
THEOREM AlwaysBacksOff == Spec => []BacksOff
  <1>1. RetryInv => BacksOff
    BY DEF RetryInv
  <1> QED
    BY <1>1, PageInit, PageStep, PTL DEF Spec
=============================================================================
