------------------------------ MODULE RpcProofs ------------------------------
(***************************************************************************)
(* The RPC layer keeps its limits as far as Rpc states it, for any number  *)
(* of providers and callers, any limits and any sequence of faults.        *)
(***************************************************************************)
EXTENDS Rpc, FiniteSetTheorems, TLAPS

-----------------------------------------------------------------------------
(* The limits *)

(* The callers can be counted.                                              *)
LEMMA CallerFacts ==
  /\ Cardinality(Caller) \in Nat /\ Others \in Int /\ Others + 1 = Cardinality(Caller)
  /\ \A S \in SUBSET Caller : /\ IsFiniteSet(S) /\ Cardinality(S) \in Nat
                              /\ Cardinality(S) <= Others + 1
<1>1. Cardinality(Caller) \in Nat
  BY RpcAssumption, FS_CardinalityType
<1>2. Others \in Int /\ Others + 1 = Cardinality(Caller)
  BY <1>1 DEF Others
<1>3. ASSUME NEW S \in SUBSET Caller
      PROVE  IsFiniteSet(S) /\ Cardinality(S) \in Nat /\ Cardinality(S) <= Cardinality(Caller)
  BY RpcAssumption, FS_Subset, FS_CardinalityType
<1> QED BY <1>1, <1>2, <1>3

(* The last quarter of the day's limit is the calls above three quarters of *)
(* it and below it.                                                         *)
LEMMA LimitFacts ==
  ASSUME NEW p \in Provider
  PROVE  /\ DailyLimit[p] \in Nat /\ WindowLimit[p] \in Nat /\ LastQuarter(p) \in Int
         /\ \A n \in Nat : 4 * n > 3 * DailyLimit[p] /\ n < DailyLimit[p]
                             => DailyLimit[p] - n <= LastQuarter(p)
         /\ Explained(p) \in Int /\ Explained(p) = DailyLimit[p] + Others
         /\ ExplainedWindow(p) \in Int /\ ExplainedWindow(p) >= WindowLimit[p] + Others
         /\ LastQuarter(p) > 0
              => ExplainedWindow(p) = WindowLimit[p] + Others + LastQuarter(p) + Others
<1>1. DailyLimit[p] \in Nat /\ WindowLimit[p] \in Nat
  BY RpcAssumption
<1> DEFINE d == DailyLimit[p]
           k == (d + 3) \div 4
<1>2. k \in Nat /\ 4 * k <= d + 3 /\ d + 3 < 4 * k + 4
  BY <1>1
<1>3. LastQuarter(p) = k - 1 /\ LastQuarter(p) \in Int
  BY <1>2 DEF LastQuarter
<1> HIDE DEF k
<1>4. \A n \in Nat : 4 * n > 3 * d /\ n < d => d - n <= LastQuarter(p)
  BY <1>1, <1>2, <1>3
<1>5. Explained(p) \in Int /\ Explained(p) = d + Others
  BY <1>1, CallerFacts DEF Explained
<1>6. /\ ExplainedWindow(p) \in Int /\ ExplainedWindow(p) >= WindowLimit[p] + Others
      /\ LastQuarter(p) > 0
           => ExplainedWindow(p) = WindowLimit[p] + Others + LastQuarter(p) + Others
  BY <1>1, <1>3, CallerFacts DEF ExplainedWindow
<1> QED BY <1>1, <1>3, <1>4, <1>5, <1>6

-----------------------------------------------------------------------------
(* RecordCall *)

(* What RecordCall does to the counts of the provider that was called and   *)
(* to those of the others.                                                  *)
LEMMA RecordCallEffect ==
  ASSUME RpcTypeOK, NEW p \in Provider, NEW asked \in BOOLEAN, RecordCall(p, asked)
  PROVE  /\ calls' = [q \in Provider |->
                        IF q = p THEN AtMost(DailyLimit[p], (IF dayOver THEN 0 ELSE calls[p]) + 1)
                        ELSE IF dayOver THEN 0 ELSE calls[q]]
         /\ paid' = [q \in Provider |->
                       IF q = p
                       THEN Counted(DailyLimit[p], Explained(p),
                                    (IF dayOver THEN 0 ELSE paid[p]) + (IF asked THEN 1 ELSE 0))
                       ELSE IF dayOver THEN 0 ELSE paid[q]]
         /\ window' = [q \in Provider |->
                         IF q = p
                         THEN AtMost(WindowLimit[p],
                                     (IF dayOver \/ windowOver[p] THEN 0 ELSE window[p]) + 1)
                         ELSE IF dayOver THEN 0 ELSE window[q]]
         /\ paidWindow' = [q \in Provider |->
                             IF q = p
                             THEN Counted(WindowLimit[p], ExplainedWindow(p),
                                          (IF dayOver \/ windowOver[p] THEN 0 ELSE paidWindow[p])
                                            + (IF asked THEN 1 ELSE 0))
                             ELSE IF dayOver THEN 0 ELSE paidWindow[q]]
         /\ windowOver' = [q \in Provider |-> IF q = p \/ dayOver THEN FALSE ELSE windowOver[q]]
         /\ dayOver' = FALSE
         /\ wait' = [c \in Caller |-> IF dayOver /\ wait[c] = "window" THEN "brief" ELSE wait[c]]
<1>0. /\ calls \in [Provider -> Nat] /\ window \in [Provider -> Nat]
      /\ paid \in [Provider -> Nat] /\ paidWindow \in [Provider -> Nat]
      /\ dayOver \in BOOLEAN /\ windowOver \in [Provider -> BOOLEAN]
  BY DEF RpcTypeOK
<1>1. CASE dayOver
  BY <1>0, <1>1 DEF RecordCall
<1>2. CASE ~dayOver
  BY <1>0, <1>2 DEF RecordCall
<1> QED BY <1>0, <1>1, <1>2

(* It takes nothing from the others but the day that is over.               *)
LEMMA RecordCallOthers ==
  ASSUME RpcTypeOK, NEW p \in Provider, NEW asked \in BOOLEAN, RecordCall(p, asked),
         NEW q \in Provider, q # p
  PROVE  /\ calls'[q] = IF dayOver THEN 0 ELSE calls[q]
         /\ paid'[q] = IF dayOver THEN 0 ELSE paid[q]
         /\ window'[q] = IF dayOver THEN 0 ELSE window[q]
         /\ paidWindow'[q] = IF dayOver THEN 0 ELSE paidWindow[q]
<1>0. /\ calls \in [Provider -> Nat] /\ window \in [Provider -> Nat]
      /\ paid \in [Provider -> Nat] /\ paidWindow \in [Provider -> Nat]
      /\ dayOver \in BOOLEAN /\ windowOver \in [Provider -> BOOLEAN]
  BY DEF RpcTypeOK
<1>1. CASE dayOver
  BY <1>0, <1>1 DEF RecordCall
<1>2. CASE ~dayOver
  BY <1>0, <1>2 DEF RecordCall
<1> QED BY <1>0, <1>1, <1>2

-----------------------------------------------------------------------------
(* Types *)

(* A count of paid calls is a number, and no more than it is counted from.  *)
LEMMA CountedFacts ==
  ASSUME NEW p \in Provider, NEW n \in Nat
  PROVE  /\ Counted(DailyLimit[p], Explained(p), n) \in Nat
         /\ Counted(DailyLimit[p], Explained(p), n) <= n
         /\ Counted(WindowLimit[p], ExplainedWindow(p), n) \in Nat
         /\ Counted(WindowLimit[p], ExplainedWindow(p), n) <= n
<1>1. Explained(p) + 1 \in Nat /\ ExplainedWindow(p) + 1 \in Nat
  BY LimitFacts, CallerFacts
<1> QED BY <1>1 DEF Counted, AtMost

(* RecordCall keeps the types of the budget.                                *)
LEMMA RecordCallTypes ==
  ASSUME RpcTypeOK, NEW p \in Provider, NEW asked \in BOOLEAN, RecordCall(p, asked)
  PROVE  /\ calls' \in [Provider -> Nat] /\ window' \in [Provider -> Nat]
         /\ \A q \in Provider : calls'[q] <= DailyLimit[q] /\ window'[q] <= WindowLimit[q]
         /\ paid' \in [Provider -> Nat] /\ paidWindow' \in [Provider -> Nat]
         /\ dayOver' \in BOOLEAN /\ windowOver' \in [Provider -> BOOLEAN]
         /\ wait' \in [Caller -> Waits]
<1>0. /\ calls \in [Provider -> Nat] /\ window \in [Provider -> Nat]
      /\ \A q \in Provider : calls[q] <= DailyLimit[q] /\ window[q] <= WindowLimit[q]
      /\ paid \in [Provider -> Nat] /\ paidWindow \in [Provider -> Nat]
      /\ dayOver \in BOOLEAN /\ windowOver \in [Provider -> BOOLEAN]
      /\ wait \in [Caller -> Waits]
  BY DEF RpcTypeOK
<1>1. \A q \in Provider : DailyLimit[q] \in Nat /\ WindowLimit[q] \in Nat
  BY LimitFacts
<1> DEFINE m == (IF dayOver THEN 0 ELSE calls[p]) + 1
           k == (IF dayOver \/ windowOver[p] THEN 0 ELSE window[p]) + 1
           a == (IF dayOver THEN 0 ELSE paid[p]) + (IF asked THEN 1 ELSE 0)
           b == (IF dayOver \/ windowOver[p] THEN 0 ELSE paidWindow[p]) + (IF asked THEN 1 ELSE 0)
<1>2. m \in Nat /\ k \in Nat /\ a \in Nat /\ b \in Nat
  BY <1>0
<1>3. /\ AtMost(DailyLimit[p], m) \in Nat /\ AtMost(DailyLimit[p], m) <= DailyLimit[p]
      /\ AtMost(WindowLimit[p], k) \in Nat /\ AtMost(WindowLimit[p], k) <= WindowLimit[p]
  <2> HIDE DEF m, k
  <2> QED BY <1>1, <1>2 DEF AtMost
<1>4. /\ Counted(DailyLimit[p], Explained(p), a) \in Nat
      /\ Counted(WindowLimit[p], ExplainedWindow(p), b) \in Nat
  <2> HIDE DEF a, b
  <2> QED BY <1>2, CountedFacts
<1>5. /\ calls' = [q \in Provider |-> IF q = p THEN AtMost(DailyLimit[p], m)
                                      ELSE IF dayOver THEN 0 ELSE calls[q]]
      /\ window' = [q \in Provider |-> IF q = p THEN AtMost(WindowLimit[p], k)
                                       ELSE IF dayOver THEN 0 ELSE window[q]]
      /\ paid' = [q \in Provider |-> IF q = p THEN Counted(DailyLimit[p], Explained(p), a)
                                     ELSE IF dayOver THEN 0 ELSE paid[q]]
      /\ paidWindow' = [q \in Provider |->
                          IF q = p THEN Counted(WindowLimit[p], ExplainedWindow(p), b)
                          ELSE IF dayOver THEN 0 ELSE paidWindow[q]]
  BY RecordCallEffect, Zenon
<1> HIDE DEF m, k, a, b
<1>6. /\ calls' \in [Provider -> Nat] /\ window' \in [Provider -> Nat]
      /\ \A q \in Provider : calls'[q] <= DailyLimit[q] /\ window'[q] <= WindowLimit[q]
  BY <1>0, <1>1, <1>3, <1>5
<1>7. paid' \in [Provider -> Nat] /\ paidWindow' \in [Provider -> Nat]
  BY <1>0, <1>4, <1>5
<1>8. /\ dayOver' \in BOOLEAN /\ windowOver' \in [Provider -> BOOLEAN]
      /\ wait' \in [Caller -> Waits]
  <2>1. /\ windowOver' = [q \in Provider |-> IF q = p \/ dayOver THEN FALSE ELSE windowOver[q]]
        /\ dayOver' = FALSE
        /\ wait' = [c \in Caller |-> IF dayOver /\ wait[c] = "window" THEN "brief" ELSE wait[c]]
    BY RecordCallEffect, Zenon
  <2>2. windowOver' \in [Provider -> BOOLEAN]
    BY <1>0, <2>1
  <2>3. wait' \in [Caller -> Waits]
    BY <1>0, <2>1 DEF Waits
  <2> QED BY <2>1, <2>2, <2>3
<1> QED BY <1>6, <1>7, <1>8

CallerTypes == pc \in [Caller -> PC] /\ cur \in [Caller -> Provider]
               /\ try \in [Caller -> 1 .. MaxAttempts]

(* An operation that returns, or goes on with an attempt left.              *)
LEMMA ReturnTypes ==
  ASSUME RpcTypeOK, RetryInv, NEW c \in Caller, Return(c) \/ GivesUp(c)
  PROVE  CallerTypes' /\ RetryInv'
<1>0. /\ pc \in [Caller -> PC] /\ cur \in [Caller -> Provider] /\ try \in [Caller -> 1 .. MaxAttempts]
      /\ 1 \in Provider /\ 1 \in 1 .. MaxAttempts
  <2>1. 1 \in Provider /\ 1 \in 1 .. MaxAttempts
    BY RpcAssumption DEF Provider
  <2> QED BY <2>1 DEF RpcTypeOK
<1>1. CASE Return(c)
  BY <1>0, <1>1 DEF Return, Goto, CallerTypes, PC, RetryInv, At
<1>2. CASE try[c] < MaxAttempts /\ Goto(c, "failover") /\ UNCHANGED <<cur, try>>
  BY <1>0, <1>2 DEF Goto, CallerTypes, PC, RetryInv, At
<1> QED BY <1>1, <1>2 DEF GivesUp

(* RecordFailure keeps the types of the circuits.                           *)
LEMMA RecordFailureTypes ==
  ASSUME RpcTypeOK, NEW p \in Provider, NEW counted \in BOOLEAN, RecordFailure(p, counted)
  PROVE  fails' \in [Provider -> 0 .. CircuitLimit] /\ recent' \in [Provider -> BOOLEAN]
<1>1. /\ fails \in [Provider -> 0 .. CircuitLimit] /\ recent \in [Provider -> BOOLEAN]
      /\ CircuitLimit \in Nat
  BY RpcAssumption DEF RpcTypeOK
<1>2. AtMost(CircuitLimit, fails[p] + 1) \in 0 .. CircuitLimit
  BY <1>1 DEF AtMost
<1>3. fails' \in [Provider -> 0 .. CircuitLimit]
  BY <1>1, <1>2 DEF RecordFailure
<1>4. recent' = [recent EXCEPT ![p] = fails'[p] >= CircuitLimit]
  BY DEF RecordFailure
<1> QED BY <1>1, <1>3, <1>4

(* Every step keeps the types and, for a caller that fails over, an attempt *)
(* in hand.                                                                 *)
LEMMA RpcTypesNext ==
  ASSUME RpcTypeOK, RetryInv, [Next]_vars
  PROVE  RpcTypeOK' /\ RetryInv'
<1>0. /\ calls \in [Provider -> Nat] /\ window \in [Provider -> Nat]
      /\ \A p \in Provider : calls[p] <= DailyLimit[p] /\ window[p] <= WindowLimit[p]
      /\ fails \in [Provider -> 0 .. CircuitLimit]
      /\ paid \in [Provider -> Nat] /\ paidWindow \in [Provider -> Nat]
      /\ dayOver \in BOOLEAN /\ windowOver \in [Provider -> BOOLEAN]
      /\ recent \in [Provider -> BOOLEAN] /\ penalty \in [Provider -> BOOLEAN]
      /\ count429 \in [Provider -> Nat] /\ count403 \in [Provider -> Nat]
      /\ pc \in [Caller -> PC] /\ cur \in [Caller -> Provider]
      /\ try \in [Caller -> 1 .. MaxAttempts] /\ wait \in [Caller -> Waits]
      /\ faults \in Nat /\ MaxAttempts \in Nat
  BY RpcAssumption DEF RpcTypeOK
<1>s. UNCHANGED shared /\ CallerTypes' /\ wait' \in [Caller -> Waits] => RpcTypeOK'
  BY <1>0 DEF shared, budgetVars, circuitVars, monitorVars, CallerTypes, RpcTypeOK
<1>d. \A p \in Provider : Dispatched(p) \in {"sent", "refused"}
  BY DEF Dispatched
<1>1. ASSUME NEW c \in Caller, NEW p \in Provider, Pick(c, p) PROVE RpcTypeOK' /\ RetryInv'
  <2>1. CallerTypes' /\ wait' \in [Caller -> Waits] /\ RetryInv'
    BY <1>0, <1>1, <1>d DEF Pick, Goto, CallerTypes, PC, RetryInv, At
  <2> QED BY <1>1, <1>s, <2>1 DEF Pick
<1>2. ASSUME NEW c \in Caller, NEW p \in Provider, Evade(c, p) PROVE RpcTypeOK' /\ RetryInv'
  <2>1. ThrottleDelay(p) \in Waits
    BY DEF ThrottleDelay, Waits
  <2> DEFINE delay == IF CanMakeCall(p) THEN "none" ELSE ThrottleDelay(p)
  <2>2. delay \in Waits
    BY <2>1 DEF Waits
  <2>3. /\ wait' = [wait EXCEPT ![c] = delay] /\ cur' = [cur EXCEPT ![c] = p] /\ try' = try
        /\ Goto(c, IF delay = "none" THEN Dispatched(p) ELSE "wait")
    BY <1>2 DEF Evade
  <2> HIDE DEF delay
  <2>4. CallerTypes' /\ wait' \in [Caller -> Waits] /\ RetryInv'
    BY <1>0, <1>d, <2>2, <2>3 DEF Goto, CallerTypes, PC, RetryInv, At
  <2> QED BY <1>2, <1>s, <2>4 DEF Evade
<1>3. ASSUME NEW c \in Caller, NEW p \in Provider, Failover(c, p) PROVE RpcTypeOK' /\ RetryInv'
  <2>1. try[c] + 1 \in 1 .. MaxAttempts
    BY <1>0, <1>3 DEF Failover, RetryInv
  <2>2. CallerTypes' /\ wait' \in [Caller -> Waits] /\ RetryInv'
    BY <1>0, <1>3, <1>d, <2>1 DEF Failover, Goto, CallerTypes, PC, RetryInv, At
  <2> QED BY <1>3, <1>s, <2>2 DEF Failover
<1>4. ASSUME NEW c \in Caller, NoProvider(c) PROVE RpcTypeOK' /\ RetryInv'
  <2>1. CallerTypes' /\ wait' \in [Caller -> Waits] /\ RetryInv'
    BY <1>0, <1>4 DEF NoProvider, CallerTypes, RetryInv, At
  <2> QED BY <1>4, <1>s, <2>1 DEF NoProvider
<1>5. ASSUME NEW c \in Caller, WakeUp(c) PROVE RpcTypeOK' /\ RetryInv'
  <2>1. CallerTypes' /\ wait' \in [Caller -> Waits] /\ RetryInv'
    BY <1>0, <1>5, <1>d DEF WakeUp, Goto, CallerTypes, PC, Waits, RetryInv, At
  <2> QED BY <1>5, <1>s, <2>1 DEF WakeUp
<1>6. ASSUME NEW c \in Caller, Answered(c) PROVE RpcTypeOK' /\ RetryInv'
  <2>1. CallerTypes' /\ RetryInv'
    BY <1>6, ReturnTypes DEF Answered
  <2>2. /\ cur[c] \in Provider /\ (try[c] = 1) \in BOOLEAN /\ RecordCall(cur[c], try[c] = 1)
        /\ UNCHANGED <<circuitVars, monitorVars, faults>>
    BY <1>0, <1>6 DEF Answered
  <2> QED BY <1>0, <2>1, <2>2, RecordCallTypes DEF circuitVars, monitorVars, CallerTypes, RpcTypeOK
<1>7. ASSUME NEW c \in Caller, NotFound(c) \/ Refused(c) PROVE RpcTypeOK' /\ RetryInv'
  <2>1. CallerTypes' /\ RetryInv'
    BY <1>7, ReturnTypes DEF NotFound, Refused
  <2>2. fails' \in [Provider -> 0 .. CircuitLimit] /\ recent' \in [Provider -> BOOLEAN]
    BY <1>0, <1>7, RecordFailureTypes DEF NotFound, Refused
  <2> QED BY <1>0, <1>7, <2>1, <2>2 DEF NotFound, Refused, budgetVars, monitorVars, CallerTypes, RpcTypeOK
<1>8. ASSUME NEW c \in Caller, NEW f, Rejected(c, f) PROVE RpcTypeOK' /\ RetryInv'
  <2>1. CallerTypes' /\ RetryInv'
    BY <1>8, ReturnTypes DEF Rejected
  <2>2. fails' \in [Provider -> 0 .. CircuitLimit] /\ recent' \in [Provider -> BOOLEAN]
    BY <1>0, <1>8, RecordFailureTypes DEF Rejected
  <2>3. count429' \in [Provider -> Nat] /\ count403' \in [Provider -> Nat]
    BY <1>0, <1>8 DEF Rejected, RecordThrottle
  <2>4. penalty' \in [Provider -> BOOLEAN]
    BY <1>0, <1>8 DEF Rejected, RecordThrottle
  <2>5. faults' \in Nat
    BY <1>0, <1>8 DEF Rejected
  <2> QED BY <1>0, <1>8, <2>1, <2>2, <2>3, <2>4, <2>5 DEF Rejected, budgetVars, CallerTypes, RpcTypeOK
<1>9. ASSUME NEW c \in Caller, NoFailover(c) PROVE RpcTypeOK' /\ RetryInv'
  <2>1. CallerTypes' /\ RetryInv'
    BY <1>9, ReturnTypes DEF NoFailover
  <2> QED BY <1>0, <1>9, <1>s, <2>1 DEF NoFailover
<1>10. ASSUME NEW until, Due(until) PROVE wait' \in [Caller -> Waits]
  BY <1>0, <1>10 DEF Due, Waits
<1>11. CASE DayEnds
  <2>1. wait' \in [Caller -> Waits]
    BY <1>10, <1>11 DEF DayEnds
  <2> QED BY <1>0, <1>11, <2>1 DEF DayEnds, circuitVars, monitorVars, RpcTypeOK, RetryInv, At
<1>12. ASSUME NEW p \in Provider, WindowEnds(p) PROVE RpcTypeOK' /\ RetryInv'
  <2>1. wait' \in [Caller -> Waits]
    BY <1>10, <1>12 DEF WindowEnds
  <2> QED BY <1>0, <1>12, <2>1 DEF WindowEnds, circuitVars, monitorVars, RpcTypeOK, RetryInv, At
<1>13. ASSUME NEW p \in Provider, CoolsDown(p) \/ PenaltyEnds(p) PROVE RpcTypeOK' /\ RetryInv'
  <2>1. /\ recent' \in [Provider -> BOOLEAN] /\ penalty' \in [Provider -> BOOLEAN]
        /\ UNCHANGED <<budgetVars, fails, count429, count403, callerVars, faults>>
    <3>1. CASE CoolsDown(p)
      BY <1>0, <3>1 DEF CoolsDown, monitorVars
    <3>2. CASE PenaltyEnds(p)
      BY <1>0, <3>2 DEF PenaltyEnds, circuitVars
    <3> QED BY <1>13, <3>1, <3>2
  <2> QED BY <1>0, <2>1 DEF budgetVars, callerVars, RpcTypeOK, RetryInv, At
<1>14. CASE UNCHANGED vars
  BY <1>0, <1>14 DEF vars, budgetVars, circuitVars, monitorVars, callerVars, RpcTypeOK, RetryInv, At
<1> QED BY <1>1, <1>2, <1>3, <1>4, <1>5, <1>6, <1>7, <1>8, <1>9, <1>11, <1>12, <1>13, <1>14
       DEF Next, CallerStep, Tick

-----------------------------------------------------------------------------
(* What is paid and committed *)

(* There are at most as many committed callers as there are callers.        *)
LEMMA CommittedFacts ==
  ASSUME NEW q
  PROVE  /\ IsFiniteSet(Committed(q)) /\ IsFiniteSet(CommittedNow(q))
         /\ Cardinality(Committed(q)) \in 0 .. Others + 1
         /\ Cardinality(CommittedNow(q)) \in 0 .. Others + 1
         /\ Cardinality(Committed(q)') \in 0 .. Others + 1
         /\ Cardinality(CommittedNow(q)') \in 0 .. Others + 1
<1>1. /\ Committed(q) \in SUBSET Caller /\ CommittedNow(q) \in SUBSET Caller
      /\ Committed(q)' \in SUBSET Caller /\ CommittedNow(q)' \in SUBSET Caller
  BY DEF Committed, CommittedNow
<1> QED BY <1>1, CallerFacts

(* One caller less leaves one to count less.                                *)
LEMMA OneLess ==
  ASSUME NEW S, IsFiniteSet(S), NEW T \in SUBSET S, NEW c
  PROVE  /\ Cardinality(T) <= Cardinality(S)
         /\ c \in S /\ c \notin T => Cardinality(T) + 1 <= Cardinality(S)
<1>1. Cardinality(T) <= Cardinality(S) /\ IsFiniteSet(T) /\ Cardinality(T) \in Nat /\ Cardinality(S) \in Nat
  BY FS_Subset, FS_CardinalityType
<1>2. ASSUME c \in S, c \notin T PROVE Cardinality(T) + 1 <= Cardinality(S)
  <2>1. IsFiniteSet(S \ {c}) /\ Cardinality(S \ {c}) = Cardinality(S) - 1
    BY <1>2, FS_RemoveElement
  <2>2. T \in SUBSET (S \ {c})
    BY <1>2
  <2>3. Cardinality(T) <= Cardinality(S \ {c})
    BY <2>1, <2>2, FS_Subset
  <2> QED BY <1>1, <2>1, <2>3
<1> QED BY <1>1, <1>2

(* A caller that is idle is committed to nothing.                           *)
LEMMA IdleIsFree ==
  ASSUME NEW c \in Caller, pc'[c] = "idle", NEW q
  PROVE  /\ Cardinality(Committed(q)') \in 0 .. Others
         /\ Cardinality(CommittedNow(q)') \in 0 .. Others
<1>1. /\ Committed(q)' \in SUBSET Caller /\ CommittedNow(q)' \in SUBSET Caller
      /\ c \notin Committed(q)' /\ c \notin CommittedNow(q)'
  BY DEF Committed, CommittedNow, At
<1>2. IsFiniteSet(Caller)
  BY RpcAssumption
<1>3. /\ Cardinality(Committed(q)') + 1 <= Cardinality(Caller)
      /\ Cardinality(CommittedNow(q)') + 1 <= Cardinality(Caller)
  BY <1>1, <1>2, OneLess
<1> QED BY <1>3, CallerFacts, CommittedFacts

(* The counts of a provider, typed.                                         *)
LEMMA CountFacts ==
  ASSUME RpcTypeOK, NEW q \in Provider
  PROVE  /\ calls[q] \in Nat /\ paid[q] \in Nat /\ window[q] \in Nat /\ paidWindow[q] \in Nat
         /\ calls[q] <= DailyLimit[q] /\ window[q] <= WindowLimit[q]
         /\ DailyLimit[q] \in Nat /\ WindowLimit[q] \in Nat
         /\ PaidToday(q) \in Nat /\ PaidNow(q) \in Nat
<1>1. /\ calls[q] \in Nat /\ paid[q] \in Nat /\ window[q] \in Nat /\ paidWindow[q] \in Nat
      /\ calls[q] <= DailyLimit[q] /\ window[q] <= WindowLimit[q]
  BY DEF RpcTypeOK
<1> QED BY <1>1, LimitFacts DEF PaidToday, PaidNow

SameDay(q) == calls'[q] = calls[q] /\ paid'[q] = paid[q] /\ dayOver' = dayOver
SameWindow(q) ==
  /\ SameDay(q)
  /\ window'[q] = window[q] /\ paidWindow'[q] = paidWindow[q] /\ windowOver'[q] = windowOver[q]

(* A step that counts nothing and commits nobody else.                      *)
LEMMA DayStays ==
  ASSUME RpcTypeOK, NEW q \in Provider, DayInv(q), SameDay(q), Committed(q)' \subseteq Committed(q)
  PROVE  DayInv(q)'
<1>1. Cardinality(Committed(q)') <= Cardinality(Committed(q))
  BY CommittedFacts, OneLess
<1>2. PaidToday(q)' = PaidToday(q)
  BY DEF PaidToday, SameDay
<1>3. PaidToday(q)' + Cardinality(Committed(q)') <= Explained(q)
  BY <1>1, <1>2, CountFacts, CommittedFacts, LimitFacts, CallerFacts DEF DayInv
<1> QED BY <1>3 DEF DayInv, SameDay, Explained

(* The same for the window.                                                 *)
LEMMA WindowStays ==
  ASSUME RpcTypeOK, NEW q \in Provider, WindowInv(q), SameWindow(q),
         CommittedNow(q)' \subseteq CommittedNow(q)
  PROVE  WindowInv(q)'
<1>1. Cardinality(CommittedNow(q)') <= Cardinality(CommittedNow(q))
  BY CommittedFacts, OneLess
<1>2. PaidNow(q)' = PaidNow(q)
  BY DEF PaidNow, SameDay, SameWindow
<1>3. PaidNow(q)' + Cardinality(CommittedNow(q)') <= PaidNow(q) + Cardinality(CommittedNow(q))
  BY <1>1, <1>2, CountFacts, CommittedFacts, CallerFacts
<1>4. PaidNow(q)' + Cardinality(CommittedNow(q)') \in Int /\ PaidNow(q) + Cardinality(CommittedNow(q)) \in Int
  BY <1>2, CountFacts, CommittedFacts, CallerFacts
<1>5. /\ PaidNow(q)' + Cardinality(CommittedNow(q)') <= ExplainedWindow(q)
      /\ 4 * calls'[q] <= 3 * DailyLimit[q] =>
           PaidNow(q)' + Cardinality(CommittedNow(q)') <= WindowLimit[q] + Others
  BY <1>3, <1>4, CountFacts, LimitFacts, CallerFacts DEF WindowInv, SameWindow, SameDay
<1> QED BY <1>2, <1>5 DEF WindowInv, SameWindow, SameDay, ExplainedWindow, LastQuarter, Others

(* A caller commits itself while the day has calls left, or is over.        *)
LEMMA DayCommits ==
  ASSUME RpcTypeOK, NEW q \in Provider, DayInv(q), DailyLimit[q] > 0, SameDay(q),
         dayOver \/ calls[q] < DailyLimit[q]
  PROVE  DayInv(q)'
<1>1. PaidToday(q)' = PaidToday(q)
  BY DEF PaidToday, SameDay
<1>2. PaidToday(q) <= DailyLimit[q] - 1
  BY CountFacts DEF PaidToday, DayInv
<1>3. PaidToday(q)' + Cardinality(Committed(q)') <= Explained(q)
  BY <1>1, <1>2, CountFacts, CommittedFacts, LimitFacts, CallerFacts
<1> QED BY <1>3 DEF DayInv, SameDay, Explained

(* A caller commits itself to a window with calls left, to one that is      *)
(* over, or in the last quarter of the day.                                 *)
LEMMA WindowCommits ==
  ASSUME RpcTypeOK, NEW q \in Provider, WindowInv(q), WindowLimit[q] > 0, SameWindow(q),
         \/ dayOver \/ windowOver[q] \/ window[q] < WindowLimit[q]
         \/ 4 * calls[q] > 3 * DailyLimit[q] /\ calls[q] < DailyLimit[q]
  PROVE  WindowInv(q)'
<1>1. PaidNow(q)' = PaidNow(q)
  BY DEF PaidNow, SameDay, SameWindow
<1>2. CASE dayOver \/ windowOver[q] \/ window[q] < WindowLimit[q]
  <2>1. PaidNow(q) <= WindowLimit[q] - 1
    BY <1>2, CountFacts DEF PaidNow, WindowInv
  <2>2. PaidNow(q)' + Cardinality(CommittedNow(q)') <= WindowLimit[q] + Others
    BY <1>1, <2>1, CountFacts, CommittedFacts, CallerFacts
  <2>3. PaidNow(q)' + Cardinality(CommittedNow(q)') <= ExplainedWindow(q)
    BY <1>1, <2>2, CountFacts, CommittedFacts, CallerFacts, LimitFacts
  <2> QED BY <1>1, <2>2, <2>3 DEF WindowInv, SameWindow, SameDay, ExplainedWindow, LastQuarter, Others
<1>3. CASE 4 * calls[q] > 3 * DailyLimit[q] /\ calls[q] < DailyLimit[q]
  <2>1. PaidNow(q) <= WindowLimit[q] + Others + LastQuarter(q) - 1 /\ LastQuarter(q) > 0
    BY <1>3, CountFacts, LimitFacts, CallerFacts DEF WindowInv
  <2>2. PaidNow(q)' + Cardinality(CommittedNow(q)') <= ExplainedWindow(q)
    BY <1>1, <2>1, CountFacts, CommittedFacts, CallerFacts, LimitFacts
  <2>3. ~(4 * calls'[q] <= 3 * DailyLimit[q])
    BY <1>3, CountFacts DEF SameWindow, SameDay
  <2> QED BY <1>1, <2>2, <2>3 DEF WindowInv, SameWindow, SameDay, ExplainedWindow, LastQuarter, Others
<1> QED BY <1>2, <1>3

(* A window with no more than its own calls.                                *)
LEMMA WindowFresh ==
  ASSUME RpcTypeOK', NEW q \in Provider, WindowLimit[q] > 0,
         paidWindow'[q] <= ExplainedWindow(q),
         paidWindow'[q] <= window'[q] \/ window'[q] = WindowLimit[q],
         PaidNow(q)' + Cardinality(CommittedNow(q)') <= WindowLimit[q] + Others
  PROVE  WindowInv(q)'
<1>1. calls'[q] \in Nat /\ PaidNow(q)' \in Nat /\ calls'[q] <= DailyLimit[q]
  BY DEF RpcTypeOK, PaidNow
<1>2. PaidNow(q)' + Cardinality(CommittedNow(q)') <= ExplainedWindow(q)
  BY <1>1, LimitFacts, CallerFacts, CommittedFacts
<1>3. 4 * calls'[q] > 3 * DailyLimit[q] /\ calls'[q] < DailyLimit[q] =>
       PaidNow(q)' <= WindowLimit[q] + Others + LastQuarter(q) - (DailyLimit[q] - calls'[q])
  BY <1>1, LimitFacts, CallerFacts, CommittedFacts
<1> QED BY <1>2, <1>3 DEF WindowInv, ExplainedWindow, LastQuarter, Others

-----------------------------------------------------------------------------
(* The steps *)

(* The callers that do not move are committed as before, if time stands     *)
(* still.                                                                   *)
OthersStay(c) ==
  \A v \in Caller : v # c => /\ pc'[v] = pc[v] /\ cur'[v] = cur[v]
                             /\ try'[v] = try[v] /\ wait'[v] = wait[v]

(* A step that leaves the budget alone and commits its caller to nothing.   *)
LEMMA QuietStep ==
  ASSUME RpcTypeOK, BudgetInv, UNCHANGED budgetVars, NEW c \in Caller, OthersStay(c),
         \A q \in Provider : /\ c \in Committed(q)' => c \in Committed(q)
                             /\ c \in CommittedNow(q)' => c \in CommittedNow(q)
  PROVE  BudgetInv'
<1> SUFFICES ASSUME NEW q \in Provider
             PROVE  /\ DailyLimit[q] > 0 => DayInv(q)'
                    /\ WindowLimit[q] > 0 => WindowInv(q)'
  BY DEF BudgetInv
<1>1. SameDay(q) /\ SameWindow(q)
  BY DEF budgetVars, SameDay, SameWindow
<1>2. Committed(q)' \subseteq Committed(q) /\ CommittedNow(q)' \subseteq CommittedNow(q)
  BY DEF OthersStay, Committed, CommittedNow, At
<1> QED BY <1>1, <1>2, DayStays, WindowStays DEF BudgetInv

(* A step that commits its caller to p, where the budget allows it.         *)
LEMMA CommitStep ==
  ASSUME RpcTypeOK, BudgetInv, UNCHANGED budgetVars, NEW c \in Caller, OthersStay(c),
         NEW p \in Provider, cur'[c] = p,
         c \in Committed(p)' /\ DailyLimit[p] > 0 => dayOver \/ calls[p] < DailyLimit[p],
         c \in CommittedNow(p)' /\ WindowLimit[p] > 0 =>
           \/ dayOver \/ windowOver[p] \/ window[p] < WindowLimit[p]
           \/ 4 * calls[p] > 3 * DailyLimit[p] /\ calls[p] < DailyLimit[p]
  PROVE  BudgetInv'
<1> SUFFICES ASSUME NEW q \in Provider
             PROVE  /\ DailyLimit[q] > 0 => DayInv(q)'
                    /\ WindowLimit[q] > 0 => WindowInv(q)'
  BY DEF BudgetInv
<1>1. SameDay(q) /\ SameWindow(q)
  BY DEF budgetVars, SameDay, SameWindow
<1>2. /\ c \notin Committed(q)' => Committed(q)' \subseteq Committed(q)
      /\ c \notin CommittedNow(q)' => CommittedNow(q)' \subseteq CommittedNow(q)
  BY DEF OthersStay, Committed, CommittedNow, At
<1>3. c \in Committed(q)' \/ c \in CommittedNow(q)' => q = p
  BY DEF Committed, CommittedNow
<1>4. DailyLimit[q] > 0 => DayInv(q)'
  BY <1>1, <1>2, <1>3, DayStays, DayCommits DEF BudgetInv
<1>5. WindowLimit[q] > 0 => WindowInv(q)'
  BY <1>1, <1>2, <1>3, WindowStays, WindowCommits DEF BudgetInv
<1> QED BY <1>4, <1>5

(* CanMakeCall in terms of the counts.                                      *)
LEMMA CanMakeCallFacts ==
  ASSUME NEW p \in Provider, CanMakeCall(p)
  PROVE  /\ DailyLimit[p] > 0 => calls[p] < DailyLimit[p]
         /\ WindowLimit[p] > 0 => windowOver[p] \/ window[p] < WindowLimit[p]
  BY DEF CanMakeCall

(* GetThrottleDelay where there is no budget: a caller that goes on without *)
(* a delay finds the day over; one that is delayed briefly is in the last   *)
(* quarter of the day; one that waits for the window has calls of the day   *)
(* left.                                                                    *)
LEMMA ThrottleDelayFacts ==
  ASSUME RpcTypeOK, NEW p \in Provider, ~CanMakeCall(p)
  PROVE  /\ ThrottleDelay(p) = "none" => dayOver
         /\ ThrottleDelay(p) = "brief" => 4 * calls[p] > 3 * DailyLimit[p] /\ calls[p] < DailyLimit[p]
         /\ ThrottleDelay(p) = "window" /\ DailyLimit[p] > 0 => calls[p] < DailyLimit[p]
<1> DEFINE d == DailyLimit[p]
           n == calls[p]
           l == WindowLimit[p]
           m == window[p]
<1>0. n \in Nat /\ d \in Nat /\ l \in Nat /\ m \in Nat /\ n <= d /\ m <= l
  BY CountFacts
<1>1. UsageReaches(p, 100) <=> d > 0 /\ n >= d
  BY <1>0 DEF UsageReaches
<1>2. CASE UsageReaches(p, 100)
  <2>1. ThrottleDelay(p) = IF dayOver THEN "none" ELSE "day"
    BY <1>2 DEF ThrottleDelay
  <2> QED BY <2>1
<1>3. CASE ~UsageReaches(p, 100) /\ d > 0 /\ 100 * n > 75 * d
  <2>1. ThrottleDelay(p) = "brief"
    BY <1>3 DEF ThrottleDelay
  <2> QED BY <1>0, <1>1, <1>3, <2>1
<1>4. CASE ~UsageReaches(p, 100) /\ ~(d > 0 /\ 100 * n > 75 * d)
  <2>1. l > 0 /\ ~windowOver[p] /\ m >= l
    BY <1>0, <1>1, <1>4 DEF CanMakeCall
  <2>2. 100 * m > 95 * l /\ l # 0
    BY <1>0, <2>1
  <2>3. ThrottleDelay(p) = "window"
    BY <1>4, <2>1, <2>2 DEF ThrottleDelay
  <2> QED BY <1>0, <1>1, <1>4, <2>3
<1> QED BY <1>2, <1>3, <1>4

(* A caller that picks a provider, or evades to one.                        *)
LEMMA EnterBudget ==
  ASSUME RpcTypeOK, BudgetInv, NEW c \in Caller, NEW p \in Provider, Pick(c, p) \/ Evade(c, p)
  PROVE  BudgetInv'
<1>0. /\ pc \in [Caller -> PC] /\ cur \in [Caller -> Provider] /\ wait \in [Caller -> Waits]
      /\ Dispatched(p) \in {"sent", "refused"}
  BY DEF RpcTypeOK, Dispatched
<1>1. /\ UNCHANGED budgetVars /\ OthersStay(c) /\ cur'[c] = p
  BY <1>0 DEF Pick, Evade, shared, OthersStay, Goto
<1>2. CASE Pick(c, p)
  <2>1. c \in Committed(p)' \/ c \in CommittedNow(p)' => CanMakeCall(p)
    BY <1>0, <1>2 DEF Pick, Goto, Committed, CommittedNow, At
  <2> QED BY <1>1, <2>1, CanMakeCallFacts, CommitStep
<1>3. CASE Evade(c, p)
  <2> DEFINE delay == IF CanMakeCall(p) THEN "none" ELSE ThrottleDelay(p)
  <2>1. wait'[c] = delay /\ pc'[c] = IF delay = "none" THEN Dispatched(p) ELSE "wait"
    BY <1>0, <1>3 DEF Evade, Goto
  <2>2. /\ c \in Committed(p)' => delay # "day"
        /\ c \in CommittedNow(p)' => delay \in {"none", "brief"}
    <3> HIDE DEF delay
    <3> QED BY <1>0, <2>1 DEF Committed, CommittedNow, At
  <2>3. CASE CanMakeCall(p)
    BY <1>1, <2>3, CanMakeCallFacts, CommitStep
  <2>4. CASE ~CanMakeCall(p)
    <3>1. delay = ThrottleDelay(p)
      BY <2>4
    <3>2. ThrottleDelay(p) \in {"none", "brief", "window", "day"}
      BY DEF ThrottleDelay
    <3>3. c \in Committed(p)' /\ DailyLimit[p] > 0 => dayOver \/ calls[p] < DailyLimit[p]
      BY <2>2, <2>4, <3>1, <3>2, ThrottleDelayFacts
    <3>4. c \in CommittedNow(p)' => \/ dayOver
                                    \/ 4 * calls[p] > 3 * DailyLimit[p] /\ calls[p] < DailyLimit[p]
      BY <2>2, <2>4, <3>1, ThrottleDelayFacts
    <3> QED BY <1>1, <3>3, <3>4, CommitStep
  <2> QED BY <2>3, <2>4
<1> QED BY <1>2, <1>3

(* A caller that wakes up, fails over or comes back without a recorded call.*)
LEMMA LeaveBudget ==
  ASSUME RpcTypeOK, BudgetInv, NEW c \in Caller,
         \/ \E p \in Provider : Failover(c, p)
         \/ NoProvider(c) \/ WakeUp(c) \/ NotFound(c) \/ Refused(c) \/ NoFailover(c)
         \/ \E f \in FaultKinds : Rejected(c, f)
  PROVE  BudgetInv'
<1>0. /\ pc \in [Caller -> PC] /\ cur \in [Caller -> Provider] /\ wait \in [Caller -> Waits]
      /\ try \in [Caller -> 1 .. MaxAttempts] /\ MaxAttempts \in Nat
      /\ \A p : Dispatched(p) \in {"sent", "refused"}
  BY RpcAssumption DEF RpcTypeOK, Dispatched
<1>r. ASSUME Return(c) \/ GivesUp(c), wait' = wait
      PROVE  OthersStay(c) /\ pc'[c] \in {"idle", "failover"}
  BY <1>0, <1>r DEF Return, GivesUp, Goto, OthersStay
<1>q. \A q : pc'[c] \in {"idle", "failover"} => c \notin Committed(q)' /\ c \notin CommittedNow(q)'
  BY DEF Committed, CommittedNow, At
<1>1. CASE \E p \in Provider : Failover(c, p)
  <2>1. UNCHANGED budgetVars /\ OthersStay(c) /\ try'[c] = try[c] + 1
    BY <1>0, <1>1 DEF Failover, shared, OthersStay, Goto
  <2>2. \A q : c \notin Committed(q)' /\ c \notin CommittedNow(q)'
    BY <1>0, <2>1 DEF Committed, CommittedNow
  <2> QED BY <2>1, <2>2, QuietStep
<1>2. CASE NoProvider(c)
  BY <1>2, QuietStep DEF NoProvider, shared, budgetVars, OthersStay, Committed, CommittedNow, At
<1>3. CASE WakeUp(c)
  <2>1. /\ UNCHANGED budgetVars /\ OthersStay(c) /\ UNCHANGED <<cur, try>>
        /\ pc[c] = "wait" /\ wait[c] = "brief" /\ pc'[c] \in {"sent", "refused"}
    BY <1>0, <1>3 DEF WakeUp, shared, OthersStay, Goto, At
  <2>2. \A q : /\ c \in Committed(q)' => c \in Committed(q)
               /\ c \in CommittedNow(q)' => c \in CommittedNow(q)
    BY <2>1 DEF Committed, CommittedNow, At
  <2> QED BY <2>1, <2>2, QuietStep
<1>4. CASE NotFound(c) \/ Refused(c) \/ NoFailover(c) \/ \E f \in FaultKinds : Rejected(c, f)
  <2>1. /\ UNCHANGED budgetVars /\ wait' = wait /\ (Return(c) \/ GivesUp(c))
    BY <1>4 DEF NotFound, Refused, NoFailover, Rejected, shared
  <2> QED BY <2>1, <1>r, <1>q, QuietStep
<1> QED BY <1>1, <1>2, <1>3, <1>4

(* The day or a window ends: what was paid no longer counts.                *)
LEMMA TimeBudget ==
  ASSUME RpcTypeOK, RpcTypeOK', BudgetInv, Tick
  PROVE  BudgetInv'
<1> SUFFICES ASSUME NEW q \in Provider
             PROVE  /\ DailyLimit[q] > 0 => DayInv(q)'
                    /\ WindowLimit[q] > 0 => WindowInv(q)'
  BY DEF BudgetInv
<1>0. /\ wait \in [Caller -> Waits] /\ windowOver \in [Provider -> BOOLEAN]
      /\ (DailyLimit[q] > 0 => DayInv(q)) /\ (WindowLimit[q] > 0 => WindowInv(q))
  BY DEF RpcTypeOK, BudgetInv
<1>w. ASSUME WindowLimit[q] > 0, PaidNow(q)' = 0, UNCHANGED <<window, paidWindow>>
      PROVE  WindowInv(q)'
  <2>1. PaidNow(q)' + Cardinality(CommittedNow(q)') <= WindowLimit[q] + Others
    BY <1>w, CommittedFacts, CallerFacts, LimitFacts
  <2> QED BY <1>0, <1>w, <2>1, WindowFresh DEF WindowInv
<1>1. CASE DayEnds
  <2>1. dayOver' /\ UNCHANGED <<calls, paid, window, paidWindow>>
    BY <1>1 DEF DayEnds
  <2>2. PaidToday(q)' = 0 /\ PaidNow(q)' = 0
    BY <2>1 DEF PaidToday, PaidNow
  <2>3. DailyLimit[q] > 0 => DayInv(q)'
    <3> SUFFICES ASSUME DailyLimit[q] > 0 PROVE DayInv(q)'
      OBVIOUS
    <3>1. PaidToday(q)' + Cardinality(Committed(q)') <= Explained(q)
      BY <2>2, CommittedFacts, CallerFacts, LimitFacts
    <3> QED BY <1>0, <2>1, <3>1 DEF DayInv, Explained
  <2> QED BY <1>w, <2>1, <2>2, <2>3
<1>2. ASSUME NEW p \in Provider, WindowEnds(p)
      PROVE  /\ DailyLimit[q] > 0 => DayInv(q)'
             /\ WindowLimit[q] > 0 => WindowInv(q)'
  <2>1. /\ UNCHANGED <<calls, dayOver, window, paid, paidWindow, pc, cur, try>>
        /\ windowOver' = [windowOver EXCEPT ![p] = TRUE]
        /\ \A c \in Caller : wait'[c] = IF wait[c] = "window" /\ cur[c] = p THEN "brief" ELSE wait[c]
    BY <1>2 DEF WindowEnds, Due
  <2>2. Committed(q)' \subseteq Committed(q)
    BY <2>1 DEF Committed, At
  <2>3. SameDay(q)
    BY <2>1 DEF SameDay
  <2>4. CASE q = p
    <3>1. PaidNow(q)' = 0
      BY <1>0, <2>1, <2>4 DEF PaidNow
    <3> QED BY <1>0, <1>w, <2>1, <2>2, <2>3, <3>1, DayStays
  <2>5. CASE q # p
    <3>1. CommittedNow(q)' \subseteq CommittedNow(q)
      BY <2>1, <2>5 DEF CommittedNow, At
    <3>2. SameWindow(q)
      BY <1>0, <2>1, <2>3, <2>5 DEF SameWindow
    <3> QED BY <1>0, <2>2, <2>3, <3>1, <3>2, DayStays, WindowStays
  <2> QED BY <2>4, <2>5
<1>3. ASSUME NEW p \in Provider, CoolsDown(p) \/ PenaltyEnds(p)
      PROVE  /\ DailyLimit[q] > 0 => DayInv(q)'
             /\ WindowLimit[q] > 0 => WindowInv(q)'
  <2>1. UNCHANGED <<budgetVars, callerVars>>
    BY <1>3 DEF CoolsDown, PenaltyEnds
  <2>2. SameDay(q) /\ SameWindow(q)
    BY <2>1 DEF SameDay, SameWindow, budgetVars
  <2>3. Committed(q)' = Committed(q) /\ CommittedNow(q)' = CommittedNow(q)
    BY <2>1 DEF callerVars, Committed, CommittedNow, At
  <2> QED BY <1>0, <2>2, <2>3, DayStays, WindowStays
<1> QED BY <1>1, <1>2, <1>3 DEF Tick

(* A recorded call moves its caller from the committed to the paid.         *)
LEMMA AnsweredBudget ==
  ASSUME RpcTypeOK, RpcTypeOK', BudgetInv, NEW c \in Caller, Answered(c)
  PROVE  BudgetInv'
<1> DEFINE one == IF try[c] = 1 THEN 1 ELSE 0
<1>0. /\ pc \in [Caller -> PC] /\ cur \in [Caller -> Provider] /\ wait \in [Caller -> Waits]
      /\ try \in [Caller -> 1 .. MaxAttempts] /\ dayOver \in BOOLEAN
      /\ windowOver \in [Provider -> BOOLEAN]
  BY DEF RpcTypeOK
<1>p. PICK p \in Provider : p = cur[c]
  BY <1>0
<1>1. /\ p \in Provider /\ one \in 0 .. 1 /\ pc[c] = "sent" /\ pc'[c] = "idle"
      /\ (try[c] = 1) \in BOOLEAN /\ RecordCall(p, try[c] = 1)
      /\ \A v \in Caller : v # c => pc'[v] = pc[v] /\ cur'[v] = cur[v] /\ try'[v] = try[v]
  BY <1>0, <1>p DEF Answered, Return, Goto, At
<1>2. /\ dayOver' = FALSE
      /\ wait' = [v \in Caller |-> IF dayOver /\ wait[v] = "window" THEN "brief" ELSE wait[v]]
      /\ windowOver' = [q \in Provider |-> IF q = p \/ dayOver THEN FALSE ELSE windowOver[q]]
  BY <1>1, RecordCallEffect, Zenon
<1>3. /\ calls'[p] = AtMost(DailyLimit[p], (IF dayOver THEN 0 ELSE calls[p]) + 1)
      /\ paid'[p] = Counted(DailyLimit[p], Explained(p), PaidToday(p) + one)
      /\ window'[p] = AtMost(WindowLimit[p], (IF dayOver \/ windowOver[p] THEN 0 ELSE window[p]) + 1)
      /\ paidWindow'[p] = Counted(WindowLimit[p], ExplainedWindow(p), PaidNow(p) + one)
  BY <1>1, RecordCallEffect DEF PaidToday, PaidNow
<1>4. ASSUME NEW q \in Provider, q # p
      PROVE  /\ calls'[q] = (IF dayOver THEN 0 ELSE calls[q])
             /\ paid'[q] = (IF dayOver THEN 0 ELSE paid[q])
             /\ window'[q] = (IF dayOver THEN 0 ELSE window[q])
             /\ paidWindow'[q] = (IF dayOver THEN 0 ELSE paidWindow[q])
  BY <1>1, <1>4, RecordCallOthers
<1>5. ASSUME ~dayOver, NEW q
      PROVE  /\ Committed(q)' \subseteq Committed(q) /\ CommittedNow(q)' \subseteq CommittedNow(q)
             /\ c \notin Committed(q)' /\ c \notin CommittedNow(q)'
  BY <1>1, <1>2, <1>5 DEF Committed, CommittedNow, At
<1>6. one = 1 => c \in Committed(p) /\ c \in CommittedNow(p)
  BY <1>1, <1>p DEF Committed, CommittedNow, At
<1> HIDE DEF one
<1> SUFFICES ASSUME NEW q \in Provider
             PROVE  /\ DailyLimit[q] > 0 => DayInv(q)'
                    /\ WindowLimit[q] > 0 => WindowInv(q)'
  BY DEF BudgetInv
<1>7. /\ DailyLimit[q] > 0 => DayInv(q)
      /\ WindowLimit[q] > 0 => WindowInv(q)
  BY DEF BudgetInv
<1>8. CASE q # p /\ ~dayOver
  <2>1. SameDay(q) /\ SameWindow(q)
    BY <1>0, <1>2, <1>4, <1>8 DEF SameDay, SameWindow
  <2> QED BY <1>5, <1>7, <1>8, <2>1, DayStays, WindowStays
<1>9. CASE q # p /\ dayOver
  <2>1. calls'[q] = 0 /\ paid'[q] = 0 /\ window'[q] = 0 /\ paidWindow'[q] = 0
    BY <1>4, <1>9
  <2>2. PaidToday(q)' = 0 /\ PaidNow(q)' = 0
    BY <2>1 DEF PaidToday, PaidNow
  <2>3. DailyLimit[q] > 0 => DayInv(q)'
    <3> SUFFICES ASSUME DailyLimit[q] > 0 PROVE DayInv(q)'
      OBVIOUS
    <3>1. /\ PaidToday(q)' + Cardinality(Committed(q)') <= Explained(q)
          /\ paid'[q] <= Explained(q)
      BY <2>1, <2>2, CommittedFacts, CallerFacts, LimitFacts
    <3> QED BY <2>1, <3>1 DEF DayInv, Explained
  <2>4. WindowLimit[q] > 0 => WindowInv(q)'
    <3> SUFFICES ASSUME WindowLimit[q] > 0 PROVE WindowInv(q)'
      OBVIOUS
    <3>1. /\ PaidNow(q)' + Cardinality(CommittedNow(q)') <= WindowLimit[q] + Others
          /\ paidWindow'[q] <= ExplainedWindow(q)
      BY <2>1, <2>2, CommittedFacts, CallerFacts, LimitFacts
    <3> QED BY <2>1, <3>1, WindowFresh
  <2> QED BY <2>3, <2>4
<1>10. CASE q = p
  <2>0. /\ calls[p] \in Nat /\ paid[p] \in Nat /\ window[p] \in Nat /\ paidWindow[p] \in Nat
        /\ calls[p] <= DailyLimit[p] /\ window[p] <= WindowLimit[p]
        /\ DailyLimit[p] \in Nat /\ WindowLimit[p] \in Nat
        /\ PaidToday(p) \in Nat /\ PaidNow(p) \in Nat /\ one \in Nat /\ one <= 1
        /\ Explained(p) \in Int /\ ExplainedWindow(p) \in Int /\ Others \in Int
    BY <1>1, CountFacts, LimitFacts, CallerFacts
  <2>1. /\ paid'[p] <= PaidToday(p) + one /\ paidWindow'[p] <= PaidNow(p) + one
        /\ paid'[p] \in Nat /\ paidWindow'[p] \in Nat
    <3>1. PaidToday(p) + one \in Nat /\ PaidNow(p) + one \in Nat
      BY <2>0
    <3> QED BY <1>1, <1>3, <3>1, CountedFacts
  <2>2. PaidToday(p)' = paid'[p] /\ PaidNow(p)' = paidWindow'[p]
    BY <1>1, <1>2 DEF PaidToday, PaidNow
  <2>3. /\ Cardinality(Committed(p)) \in Nat /\ Cardinality(CommittedNow(p)) \in Nat
        /\ Cardinality(Committed(p)') \in Nat /\ Cardinality(CommittedNow(p)') \in Nat
        /\ Cardinality(Committed(p)') <= Others /\ Cardinality(CommittedNow(p)') <= Others
    BY <1>1, CommittedFacts, IdleIsFree, CallerFacts
  <2>4. ~dayOver => /\ Cardinality(Committed(p)') + one <= Cardinality(Committed(p))
                    /\ Cardinality(CommittedNow(p)') + one <= Cardinality(CommittedNow(p))
    <3> SUFFICES ASSUME ~dayOver
                 PROVE  /\ Cardinality(Committed(p)') + one <= Cardinality(Committed(p))
                        /\ Cardinality(CommittedNow(p)') + one <= Cardinality(CommittedNow(p))
      OBVIOUS
    <3>1. /\ IsFiniteSet(Committed(p)) /\ IsFiniteSet(CommittedNow(p))
          /\ Committed(p)' \in SUBSET Committed(p) /\ CommittedNow(p)' \in SUBSET CommittedNow(p)
          /\ c \notin Committed(p)' /\ c \notin CommittedNow(p)'
      BY <1>5, CommittedFacts
    <3>2. /\ Cardinality(Committed(p)') <= Cardinality(Committed(p))
          /\ Cardinality(CommittedNow(p)') <= Cardinality(CommittedNow(p))
          /\ one = 1 => /\ Cardinality(Committed(p)') + 1 <= Cardinality(Committed(p))
                        /\ Cardinality(CommittedNow(p)') + 1 <= Cardinality(CommittedNow(p))
      BY <1>6, <3>1, OneLess
    <3>3. one = 0 \/ one = 1
      BY <2>0
    <3> QED BY <2>3, <3>2, <3>3
  <2>5. DailyLimit[p] > 0 => DayInv(p)'
    <3> SUFFICES ASSUME DailyLimit[p] > 0 PROVE DayInv(p)'
      OBVIOUS
    <3>1. Explained(p) = DailyLimit[p] + Others
      BY <1>1, LimitFacts
    <3>2. paid'[p] + Cardinality(Committed(p)') <= Explained(p)
      <4>1. CASE dayOver
        BY <2>0, <2>1, <2>3, <3>1, <4>1 DEF PaidToday
      <4>2. CASE ~dayOver
        <5>1. PaidToday(p) + Cardinality(Committed(p)) <= Explained(p)
          BY <1>7, <1>10 DEF DayInv
        <5> QED BY <2>0, <2>1, <2>3, <2>4, <4>2, <5>1
      <4> QED BY <4>1, <4>2
    <3>3. paid'[p] <= calls'[p] \/ calls'[p] = DailyLimit[p]
      <4>1. CASE dayOver
        <5>1. paid'[p] <= 1
          BY <2>0, <2>1, <4>1 DEF PaidToday
        <5>2. calls'[p] = 1 \/ calls'[p] = DailyLimit[p]
          BY <1>3, <2>0, <4>1 DEF AtMost
        <5> QED BY <2>1, <5>1, <5>2
      <4>2. CASE ~dayOver
        <5>1. paid[p] <= calls[p] \/ calls[p] = DailyLimit[p]
          BY <1>7, <1>10 DEF DayInv
        <5>2. paid'[p] <= paid[p] + 1
          BY <2>0, <2>1, <4>2 DEF PaidToday
        <5>3. calls'[p] = IF calls[p] + 1 < DailyLimit[p] THEN calls[p] + 1 ELSE DailyLimit[p]
          BY <1>3, <4>2 DEF AtMost
        <5> QED BY <2>0, <2>1, <5>1, <5>2, <5>3
      <4> QED BY <4>1, <4>2
    <3>4. paid'[p] <= Explained(p)
      BY <2>0, <2>1, <2>3, <3>2
    <3> QED BY <2>2, <3>2, <3>3, <3>4 DEF DayInv, Explained
  <2>6. WindowLimit[p] > 0 => WindowInv(p)'
    <3> SUFFICES ASSUME WindowLimit[p] > 0 PROVE WindowInv(p)'
      OBVIOUS
    <3>1. CASE dayOver \/ windowOver[p]
      <4>1. PaidNow(p) = 0 /\ paidWindow'[p] <= 1
        BY <2>0, <2>1, <3>1 DEF PaidNow
      <4>2. window'[p] = 1 \/ window'[p] = WindowLimit[p]
        BY <1>3, <2>0, <3>1 DEF AtMost
      <4>3. paidWindow'[p] + Cardinality(CommittedNow(p)') <= WindowLimit[p] + Others
        BY <2>0, <2>1, <2>3, <4>1
      <4>4. paidWindow'[p] <= ExplainedWindow(p)
        BY <1>1, <2>0, <2>1, <2>3, <4>3, LimitFacts
      <4>5. paidWindow'[p] <= window'[p] \/ window'[p] = WindowLimit[p]
        BY <2>1, <4>1, <4>2
      <4> QED BY <1>1, <2>2, <4>3, <4>4, <4>5, WindowFresh
    <3>2. CASE ~(dayOver \/ windowOver[p])
      <4> DEFINE old == PaidNow(p) + Cardinality(CommittedNow(p))
                 new == paidWindow'[p] + Cardinality(CommittedNow(p)')
      <4>0. WindowInv(p) /\ PaidNow(p) = paidWindow[p]
        BY <1>7, <1>10, <3>2 DEF PaidNow
      <4>1. /\ new <= old /\ new \in Nat /\ old \in Nat /\ paidWindow'[p] <= old
            /\ paidWindow'[p] <= new
        BY <2>0, <2>1, <2>3, <2>4, <3>2
      <4>2. /\ calls'[p] = IF calls[p] + 1 < DailyLimit[p] THEN calls[p] + 1 ELSE DailyLimit[p]
            /\ calls'[p] \in Nat /\ calls[p] <= calls'[p]
        BY <1>3, <2>0, <3>2 DEF AtMost
      <4>3. old <= ExplainedWindow(p)
        BY <4>0 DEF WindowInv
      <4>4. new <= ExplainedWindow(p) /\ paidWindow'[p] <= ExplainedWindow(p)
        <5> HIDE DEF old, new
        <5> QED BY <2>0, <2>1, <4>1, <4>3
      <4>5. 4 * calls[p] <= 3 * DailyLimit[p] => old <= WindowLimit[p] + Others
        BY <4>0 DEF WindowInv
      <4>6. 4 * calls'[p] <= 3 * DailyLimit[p] => new <= WindowLimit[p] + Others
        <5> HIDE DEF old, new
        <5> QED BY <2>0, <4>1, <4>2, <4>5
      <4>7. ASSUME 4 * calls'[p] > 3 * DailyLimit[p], calls'[p] < DailyLimit[p]
            PROVE  paidWindow'[p] <= WindowLimit[p] + Others + LastQuarter(p)
                                       - (DailyLimit[p] - calls'[p])
        <5>1. calls'[p] = calls[p] + 1 /\ calls[p] < DailyLimit[p]
          BY <2>0, <4>2, <4>7
        <5>2. LastQuarter(p) \in Int /\ DailyLimit[p] - calls'[p] <= LastQuarter(p)
          BY <1>1, <4>2, <4>7, LimitFacts
        <5>3. CASE 4 * calls[p] <= 3 * DailyLimit[p]
          <6> HIDE DEF old, new
          <6> QED BY <2>0, <2>1, <4>1, <4>2, <4>5, <5>2, <5>3
        <5>4. CASE 4 * calls[p] > 3 * DailyLimit[p]
          <6>1. PaidNow(p) <= WindowLimit[p] + Others + LastQuarter(p) - (DailyLimit[p] - calls[p])
            BY <4>0, <5>1, <5>4 DEF WindowInv
          <6> QED BY <2>0, <2>1, <4>2, <5>1, <5>2, <6>1
        <5> QED BY <2>0, <5>3, <5>4
      <4>8. paidWindow'[p] <= window'[p] \/ window'[p] = WindowLimit[p]
        <5>1. paidWindow[p] <= window[p] \/ window[p] = WindowLimit[p]
          BY <4>0 DEF WindowInv
        <5>2. paidWindow'[p] <= paidWindow[p] + 1
          BY <2>0, <2>1, <4>0
        <5>3. window'[p] = IF window[p] + 1 < WindowLimit[p] THEN window[p] + 1 ELSE WindowLimit[p]
          BY <1>3, <3>2 DEF AtMost
        <5> QED BY <2>0, <2>1, <5>1, <5>2, <5>3
      <4> QED BY <2>2, <4>4, <4>6, <4>7, <4>8 DEF WindowInv, ExplainedWindow, LastQuarter, Others
    <3> QED BY <3>1, <3>2
  <2> QED BY <1>10, <2>5, <2>6
<1> QED BY <1>8, <1>9, <1>10

-----------------------------------------------------------------------------
(* The invariant *)

(* It holds at the start.                                                   *)
LEMMA RpcInvInit == Init => RpcInv
<1> SUFFICES ASSUME Init PROVE RpcInv
  OBVIOUS
<1>1. RpcTypeOK
  <2>1. 1 \in Provider /\ 1 \in 1 .. MaxAttempts /\ 0 \in 0 .. CircuitLimit
    BY RpcAssumption DEF Provider
  <2>2. \A p \in Provider : 0 <= DailyLimit[p] /\ 0 <= WindowLimit[p]
    BY LimitFacts
  <2> QED BY <2>1, <2>2 DEF Init, RpcTypeOK, PC, Waits
<1>2. RetryInv
  BY DEF Init, RetryInv, At
<1>3. ASSUME NEW q \in Provider
      PROVE  /\ DailyLimit[q] > 0 => DayInv(q)
             /\ WindowLimit[q] > 0 => WindowInv(q)
  <2>1. Committed(q) = {} /\ CommittedNow(q) = {}
    BY DEF Init, Committed, CommittedNow, At
  <2>2. Cardinality(Committed(q)) = 0 /\ Cardinality(CommittedNow(q)) = 0
    BY <2>1, FS_EmptySet
  <2>3. /\ calls[q] = 0 /\ paid[q] = 0 /\ window[q] = 0 /\ paidWindow[q] = 0
        /\ PaidToday(q) = 0 /\ PaidNow(q) = 0
    BY DEF Init, PaidToday, PaidNow
  <2>4. DailyLimit[q] > 0 => DayInv(q)
    BY <2>2, <2>3, LimitFacts, CallerFacts DEF DayInv
  <2>5. WindowLimit[q] > 0 => WindowInv(q)
    <3>1. WindowLimit[q] > 0 => 0 <= WindowLimit[q] + Others /\ 0 <= ExplainedWindow(q)
      BY LimitFacts, CallerFacts
    <3>2. ~(4 * calls[q] > 3 * DailyLimit[q])
      BY <2>3, LimitFacts
    <3> QED BY <2>2, <2>3, <3>1, <3>2 DEF WindowInv
  <2> QED BY <2>4, <2>5
<1> QED BY <1>1, <1>2, <1>3 DEF RpcInv, BudgetInv

(* Every step keeps it.                                                     *)
LEMMA RpcInvNext == RpcInv /\ [Next]_vars => RpcInv'
<1> SUFFICES ASSUME RpcInv, [Next]_vars PROVE RpcInv'
  OBVIOUS
<1>0. RpcTypeOK /\ BudgetInv /\ RpcTypeOK' /\ RetryInv'
  BY RpcTypesNext DEF RpcInv
<1>1. CASE \E c \in Caller : CallerStep(c) \/ \E f \in FaultKinds : Rejected(c, f)
  BY <1>0, <1>1, EnterBudget, LeaveBudget, AnsweredBudget DEF CallerStep, RpcInv
<1>2. CASE Tick
  BY <1>0, <1>2, TimeBudget DEF RpcInv
<1>3. CASE UNCHANGED vars
  <2> SUFFICES ASSUME NEW q \in Provider
               PROVE  /\ DailyLimit[q] > 0 => DayInv(q)'
                      /\ WindowLimit[q] > 0 => WindowInv(q)'
    BY <1>0 DEF RpcInv, BudgetInv
  <2>1. SameDay(q) /\ SameWindow(q)
    BY <1>3 DEF vars, budgetVars, SameDay, SameWindow
  <2>2. Committed(q)' = Committed(q) /\ CommittedNow(q)' = CommittedNow(q)
    BY <1>3 DEF vars, callerVars, Committed, CommittedNow, At
  <2> QED BY <1>0, <2>1, <2>2, DayStays, WindowStays DEF BudgetInv
<1> QED BY <1>1, <1>2, <1>3 DEF Next

(* The inductive invariant of the RPC layer: what is paid for and what the  *)
(* callers are committed to stay within the limits and what concurrency     *)
(* explains.                                                                *)
THEOREM RpcInvariance == Spec => []RpcInv
<1>1. Init => RpcInv
  BY RpcInvInit
<1>2. RpcInv /\ [Next]_vars => RpcInv'
  BY RpcInvNext
<1> QED BY <1>1, <1>2, PTL DEF Spec

(* The counters, the monitors and the callers keep their types; no caller   *)
(* makes more than MaxAttempts attempts.                                    *)
THEOREM RpcTypesHold == Spec => []RpcTypeOK
<1>1. RpcInv => RpcTypeOK
  BY DEF RpcInv
<1> QED BY <1>1, RpcInvariance, PTL

(* First attempts exceed a provider's limits by no more than the other      *)
(* callers and the last quarter of the day explain.                         *)
THEOREM LimitsHold == Spec => []LimitsExceededByConcurrencyOnly
<1>1. RpcInv => LimitsExceededByConcurrencyOnly
  BY DEF RpcInv, BudgetInv, DayInv, WindowInv, LimitsExceededByConcurrencyOnly
<1> QED BY <1>1, RpcInvariance, PTL

=============================================================================
