-------------------------------- MODULE Rpc --------------------------------
(***************************************************************************)
(* The RPC layer of one chain with HTTP providers (internal/infra/rpc):    *)
(* Coordinator.Execute with the budget tracker, the router with its        *)
(* circuit breaker, the proactive rotator and the provider monitors.       *)
(* Callers are the goroutines that share it (pipeline, backfill, rescan).  *)
(* A step ends where a caller waits, sends a request or reads counters     *)
(* that another caller may change before it uses them.                     *)
(***************************************************************************)
EXTENDS Integers, FiniteSets

CONSTANTS
  N,             \* number of providers, in the order of the configuration
  Caller,
  DailyLimit,    \* DailyLimit[p]: daily_quota, 0 for none
  WindowLimit,   \* WindowLimit[p]: interval_limit, 0 for none
  MaxAttempts,   \* MaxFailoverAttempts (3)
  CircuitLimit,  \* failures that open a circuit (5)
  Tolerated429,  \* 429 answers before a provider counts as throttled (5)
  FaultKinds,    \* the faults that happen: some of Fault
  MaxFaults      \* bound: how many

Provider == 1 .. N

(* How a call may go wrong: no usable answer, a rate limit, an IP block, a  *)
(* request that the provider calls invalid.                                 *)
Fault == {"down", "429", "403", "fatal"}

ASSUME RpcAssumption ==
  /\ N \in Nat \ {0} /\ IsFiniteSet(Caller)
  /\ DailyLimit \in [Provider -> Nat] /\ WindowLimit \in [Provider -> Nat]
  /\ MaxAttempts \in Nat \ {0} /\ CircuitLimit \in Nat \ {0} /\ Tolerated429 \in Nat
  /\ FaultKinds \subseteq Fault /\ MaxFaults \in Nat

VARIABLES
  calls,       \* calls[p]: totalCalls of the day, counted up to DailyLimit[p]
  dayOver,     \* whether resetTime has passed
  window,      \* window[p]: windowCalls, counted up to WindowLimit[p]
  windowOver,  \* windowOver[p]: whether the window has run its length
  fails,       \* fails[p]: consecutiveFails, counted up to CircuitLimit
  recent,      \* recent[p]: the circuit is open and lastFailureAt less than
               \*   a minute ago
  count429, count403,  \* the monitor's counters
  penalty,     \* penalty[p]: whether retryAfterDuration is still running
  pc, cur, try, wait,  \* the callers: next step, provider, attempt, delay
  paid,        \* history: answered calls of the day that had asked the budget
  paidWindow,  \* history: the same for the window
  faults

budgetVars == <<calls, dayOver, window, windowOver, paid, paidWindow>>
circuitVars == <<fails, recent>>
monitorVars == <<count429, count403, penalty>>
callerVars == <<pc, cur, try, wait>>
vars == <<budgetVars, circuitVars, monitorVars, callerVars, faults>>

PC == {"idle", "evade", "wait", "refused", "sent", "failover"}
Waits == {"none", "brief", "window", "day"}

AtMost(limit, n) == IF n < limit THEN n ELSE limit

(* A history count is kept where there is a limit, up to one too many.      *)
Counted(limit, explained, n) == IF limit = 0 THEN 0 ELSE AtMost(explained + 1, n)

Init ==
  /\ calls = [p \in Provider |-> 0] /\ dayOver = FALSE
  /\ window = [p \in Provider |-> 0] /\ windowOver = [p \in Provider |-> FALSE]
  /\ fails = [p \in Provider |-> 0] /\ recent = [p \in Provider |-> FALSE]
  /\ count429 = [p \in Provider |-> 0] /\ count403 = [p \in Provider |-> 0]
  /\ penalty = [p \in Provider |-> FALSE]
  /\ pc = [c \in Caller |-> "idle"] /\ cur = [c \in Caller |-> 1]
  /\ try = [c \in Caller |-> 1] /\ wait = [c \in Caller |-> "none"]
  /\ paid = [p \in Provider |-> 0] /\ paidWindow = [p \in Provider |-> 0]
  /\ faults = 0

-----------------------------------------------------------------------------
(* The budget tracker. *)

(* UsagePercentage >= percent *)
UsageReaches(p, percent) ==
  DailyLimit[p] > 0 /\ 100 * calls[p] >= percent * DailyLimit[p]

(* Mutant: one call more than the limits allow.                             *)
CanMakeCallOneMore(p) ==
  /\ DailyLimit[p] > 0 => calls[p] <= DailyLimit[p]
  /\ WindowLimit[p] > 0 /\ ~windowOver[p] => window[p] <= WindowLimit[p]

CanMakeCall(p) ==
  /\ DailyLimit[p] > 0 => calls[p] < DailyLimit[p]
  /\ WindowLimit[p] > 0 /\ ~windowOver[p] => window[p] < WindowLimit[p]

(* GetThrottleDelay.  The daily quota is looked at first: near its end the  *)
(* delay is brief, whatever the window says.                                *)
ThrottleDelay(p) ==
  CASE UsageReaches(p, 100) -> IF dayOver THEN "none" ELSE "day"
    [] ~UsageReaches(p, 100) /\ DailyLimit[p] > 0
         /\ 100 * calls[p] > 75 * DailyLimit[p] -> "brief"
    [] OTHER ->
         IF WindowLimit[p] = 0 THEN "none"
         ELSE IF 100 * window[p] > 95 * WindowLimit[p]
              THEN IF windowOver[p] THEN "none" ELSE "window"
              ELSE IF 100 * window[p] > 80 * WindowLimit[p] THEN "brief" ELSE "none"

(* As many calls of a day or a window as the limit and concurrency explain. *)
(* In the last quarter of the day's limit a caller that finds the window    *)
(* full is delayed briefly and sends.                                       *)
Others == Cardinality(Caller) - 1
LastQuarter(p) == (DailyLimit[p] + 3) \div 4 - 1
Explained(p) == DailyLimit[p] + Others
ExplainedWindow(p) ==
  WindowLimit[p] + Others + (IF LastQuarter(p) > 0 THEN LastQuarter(p) + Others ELSE 0)

(* RecordCall resets the day for every provider once it is over, then the   *)
(* window of p, and counts.  A caller that waits for the end of a window    *)
(* that is restarted wakes up within the new one.  asked: whether the       *)
(* caller had asked CanMakeCall for this provider.  Execute calls it after  *)
(* a successful request only: what is counted is answers, not the requests  *)
(* that a provider may bill.                                                *)
RecordCall(p, asked) ==
  LET fresh(f) == IF dayOver THEN [q \in Provider |-> 0] ELSE f
      renew(f) == IF windowOver[p] THEN [fresh(f) EXCEPT ![p] = 0] ELSE fresh(f)
      one == IF asked THEN 1 ELSE 0
  IN /\ calls' = [fresh(calls) EXCEPT ![p] = AtMost(DailyLimit[p], @ + 1)]
     /\ paid' = [fresh(paid) EXCEPT ![p] = Counted(DailyLimit[p], Explained(p), @ + one)]
     /\ window' = [renew(window) EXCEPT ![p] = AtMost(WindowLimit[p], @ + 1)]
     /\ paidWindow' = [renew(paidWindow) EXCEPT ![p] = Counted(WindowLimit[p], ExplainedWindow(p), @ + one)]
     /\ windowOver' = IF dayOver THEN [q \in Provider |-> FALSE]
                                 ELSE [windowOver EXCEPT ![p] = FALSE]
     /\ dayOver' = FALSE
     /\ wait' = [c \in Caller |-> IF dayOver /\ wait[c] = "window"
                                  THEN "brief" ELSE wait[c]]

-----------------------------------------------------------------------------
(* The monitor, the coordinator's choice and the router's. *)

(* Mutant: a block never ends.                                              *)
StatusForever(p) ==
  CASE count403[p] > 0 -> "blocked"
    [] count403[p] = 0 /\ count429[p] > Tolerated429 /\ penalty[p] -> "throttled"
    [] OTHER -> "healthy"

(* CheckProviderStatus *)
Status(p) ==
  CASE penalty[p] /\ count403[p] > 0 -> "blocked"
    [] penalty[p] /\ count403[p] = 0 /\ count429[p] > Tolerated429 -> "throttled"
    [] OTHER -> "healthy"

(* scoreProvider; not above 0 means that the provider is not considered.    *)
Score(p) ==
  IF UsageReaches(p, 95) \/ ~CanMakeCall(p) \/ Status(p) = "blocked"
  THEN 0
  ELSE 100 - (IF UsageReaches(p, 75) THEN 50 ELSE IF UsageReaches(p, 50) THEN 20 ELSE 0)
           - (IF Status(p) = "throttled" THEN 60 ELSE 0)
           - 5 * count429[p] - 10 * count403[p]

(* isCircuitOpen: a minute after the last failure the provider is probed.   *)
CircuitOpen(p) == recent[p]

(* proactive, ten times finalScore.  The monitor's own count of requests is *)
(* taken to be far from its limit of 100000.                                *)
FinalScore(p) ==
  4 * 100 + 3 * 100
    + 3 * (100 - (IF Status(p) = "throttled" THEN 60 ELSE 0)
               - 3 * count429[p] - 8 * count403[p])

(* One of the better half of the candidates; none is an error.              *)
SelectProvider(pool) ==
  LET candidates == {p \in pool : Status(p) # "blocked" /\ FinalScore(p) > 0}
      half == Cardinality(candidates) \div 2
      topN == IF half > 1 THEN half ELSE 1
  IN {p \in candidates :
        Cardinality({q \in candidates : FinalScore(q) > FinalScore(p)}) < topN}

(* Router.GetProvider: what it may return.                                  *)
GetProvider ==
  LET available == {p \in Provider : ~CircuitOpen(p) /\ Status(p) # "blocked"}
      funded == {p \in available : CanMakeCall(p)}
  IN SelectProvider(IF funded # {} THEN funded ELSE available)

(* Coordinator.GetBestProvider: the first of the highest scores.            *)
GetBestProvider ==
  LET score == [p \in Provider |-> Score(p)]
      scored == {p \in Provider : score[p] > 0}
  IN IF scored = {}
     THEN GetProvider
     ELSE {p \in scored : \A q \in scored : /\ score[q] <= score[p]
                                            /\ q < p => score[q] < score[p]}

(* Router.RotateProvider: any of several, whatever their state.             *)
RotateProvider == IF N < 2 THEN GetProvider ELSE Provider

(* Coordinator.ForceRotate: the best one if it is another, else up to five  *)
(* rotations, which may all come back with the same.                        *)
ForceRotate(p) ==
  UNION {IF best # p THEN {best} ELSE RotateProvider : best \in GetBestProvider}

(* Router.RecordFailure.  Nothing in Execute closes a circuit again.        *)
RecordFailure(p, counted) ==
  /\ fails' = IF counted THEN [fails EXCEPT ![p] = AtMost(CircuitLimit, @ + 1)] ELSE fails
  /\ recent' = [recent EXCEPT ![p] = fails'[p] >= CircuitLimit]

(* Monitor.RecordThrottle *)
RecordThrottle(p, f) ==
  /\ count429' = [count429 EXCEPT ![p] = IF f = "429" THEN @ + 1 ELSE @]
  /\ count403' = [count403 EXCEPT ![p] = IF f = "403" THEN @ + 1 ELSE @]
  /\ penalty' = [penalty EXCEPT ![p] = @ \/ f \in {"429", "403"}]

-----------------------------------------------------------------------------
(* Coordinator.Execute *)

At(c, l) == pc[c] = l
Goto(c, l) == pc' = [pc EXCEPT ![c] = l]
shared == <<budgetVars, circuitVars, monitorVars, faults>>

Return(c) ==
  /\ Goto(c, "idle")
  /\ try' = [try EXCEPT ![c] = 1]
  /\ cur' = [cur EXCEPT ![c] = 1]

(* callRPC sends no request while the monitor has the provider throttled.   *)
Dispatched(p) == IF Status(p) = "throttled" THEN "refused" ELSE "sent"

Pick(c, p) ==
  /\ At(c, "idle") /\ p \in GetBestProvider
  /\ cur' = [cur EXCEPT ![c] = p]
  /\ Goto(c, IF CanMakeCall(p) THEN Dispatched(p) ELSE "evade")
  /\ UNCHANGED <<shared, try, wait>>

NoProvider(c) ==
  /\ At(c, "idle") /\ GetBestProvider = {}
  /\ UNCHANGED <<shared, pc, cur, try, wait>>

(* No budget: another provider if there is one, and a delay if that has     *)
(* none either.                                                             *)
Evade(c, p) ==
  /\ At(c, "evade")
  /\ LET next == ForceRotate(cur[c]) IN p \in IF next = {} THEN {cur[c]} ELSE next
  /\ LET delay == IF CanMakeCall(p) THEN "none" ELSE ThrottleDelay(p) IN
     /\ wait' = [wait EXCEPT ![c] = delay]
     /\ Goto(c, IF delay = "none" THEN Dispatched(p) ELSE "wait")
  /\ cur' = [cur EXCEPT ![c] = p]
  /\ UNCHANGED <<shared, try>>

(* The request goes out after the delay, whatever the budget says then.     *)
WakeUp(c) ==
  /\ At(c, "wait") /\ wait[c] = "brief"
  /\ wait' = [wait EXCEPT ![c] = "none"]
  /\ Goto(c, Dispatched(cur[c]))
  /\ UNCHANGED <<shared, cur, try>>

Answered(c) ==
  /\ At(c, "sent")
  /\ RecordCall(cur[c], try[c] = 1)
  /\ Return(c)
  /\ UNCHANGED <<circuitVars, monitorVars, faults>>

(* The block is not there yet.  This is an answer; it is not counted as a   *)
(* call, and it is the time of a failure, though not counted as one.        *)
NotFound(c) ==
  /\ At(c, "sent")
  /\ RecordFailure(cur[c], FALSE)
  /\ Return(c)
  /\ UNCHANGED <<budgetVars, monitorVars, wait, faults>>

(* Mutant: one attempt too many.                                            *)
GivesUpLate(c) ==
  IF try[c] <= MaxAttempts
  THEN Goto(c, "failover") /\ UNCHANGED <<cur, try>>
  ELSE Return(c)

(* After a failed attempt: the next one, or the error.                      *)
GivesUp(c) ==
  IF try[c] < MaxAttempts
  THEN Goto(c, "failover") /\ UNCHANGED <<cur, try>>
  ELSE Return(c)

(* The provider's own error, without a request                              *)
Refused(c) ==
  /\ At(c, "refused")
  /\ RecordFailure(cur[c], TRUE)
  /\ GivesUp(c)
  /\ UNCHANGED <<budgetVars, monitorVars, wait, faults>>

(* ClassifyError: the request itself is at fault and no other provider is   *)
(* asked.                                                                   *)
Fatal(f) == f = "fatal"

Rejected(c, f) ==
  /\ At(c, "sent")
  /\ f \in FaultKinds /\ faults < MaxFaults /\ faults' = faults + 1
  /\ RecordThrottle(cur[c], f)
  /\ RecordFailure(cur[c], TRUE)
  /\ IF Fatal(f) THEN Return(c) ELSE GivesUp(c)
  /\ UNCHANGED <<budgetVars, wait>>

(* The next attempt asks no budget.                                         *)
Failover(c, p) ==
  /\ At(c, "failover") /\ p \in ForceRotate(cur[c])
  /\ cur' = [cur EXCEPT ![c] = p]
  /\ try' = [try EXCEPT ![c] = @ + 1]
  /\ Goto(c, Dispatched(p))
  /\ UNCHANGED <<shared, wait>>

NoFailover(c) ==
  /\ At(c, "failover") /\ ForceRotate(cur[c]) = {}
  /\ Return(c)
  /\ UNCHANGED <<shared, wait>>

-----------------------------------------------------------------------------
(* Time *)

Due(until) == wait' = [c \in Caller |-> IF until[c] THEN "brief" ELSE wait[c]]

DayEnds ==
  /\ ~dayOver /\ \E p \in Provider : calls[p] + window[p] > 0
  /\ dayOver' = TRUE
  /\ Due([c \in Caller |-> wait[c] = "day"])
  /\ UNCHANGED <<calls, window, windowOver, paid, paidWindow, circuitVars,
                 monitorVars, pc, cur, try, faults>>

WindowEnds(p) ==
  /\ ~windowOver[p] /\ window[p] > 0
  /\ windowOver' = [windowOver EXCEPT ![p] = TRUE]
  /\ Due([c \in Caller |-> wait[c] = "window" /\ cur[c] = p])
  /\ UNCHANGED <<calls, dayOver, window, paid, paidWindow, circuitVars,
                 monitorVars, pc, cur, try, faults>>

(* A minute after the last failure *)
CoolsDown(p) ==
  /\ recent[p]
  /\ recent' = [recent EXCEPT ![p] = FALSE]
  /\ UNCHANGED <<budgetVars, fails, monitorVars, callerVars, faults>>

(* retryAfterDuration after the last 429 or 403 *)
PenaltyEnds(p) ==
  /\ penalty[p]
  /\ penalty' = [penalty EXCEPT ![p] = FALSE]
  /\ UNCHANGED <<budgetVars, circuitVars, count429, count403, callerVars, faults>>

-----------------------------------------------------------------------------
CallerStep(c) ==
  \/ (\E p \in Provider : Pick(c, p) \/ Evade(c, p) \/ Failover(c, p))
  \/ NoProvider(c) \/ WakeUp(c)
  \/ Answered(c) \/ NotFound(c) \/ Refused(c) \/ NoFailover(c)

Tick ==
  \/ DayEnds
  \/ \E p \in Provider : WindowEnds(p) \/ CoolsDown(p) \/ PenaltyEnds(p)

Next ==
  \/ \E c \in Caller : CallerStep(c) \/ \E f \in FaultKinds : Rejected(c, f)
  \/ Tick

(* The callers run, sent requests come back, and time passes.               *)
Fairness ==
  /\ \A c \in Caller : WF_vars(CallerStep(c))
  /\ WF_vars(DayEnds)
  /\ WF_vars(\E p \in Provider : WindowEnds(p))
  /\ WF_vars(\E p \in Provider : CoolsDown(p))
  /\ WF_vars(\E p \in Provider : PenaltyEnds(p))

Spec == Init /\ [][Next]_vars /\ Fairness

-----------------------------------------------------------------------------
(* Properties *)

(* Every variable keeps its type.                                           *)
RpcTypeOK ==
  /\ calls \in [Provider -> Nat] /\ window \in [Provider -> Nat]
  /\ \A p \in Provider : calls[p] <= DailyLimit[p] /\ window[p] <= WindowLimit[p]
  /\ fails \in [Provider -> 0 .. CircuitLimit]
  /\ paid \in [Provider -> Nat] /\ paidWindow \in [Provider -> Nat]
  /\ dayOver \in BOOLEAN /\ windowOver \in [Provider -> BOOLEAN]
  /\ recent \in [Provider -> BOOLEAN] /\ penalty \in [Provider -> BOOLEAN]
  /\ count429 \in [Provider -> Nat] /\ count403 \in [Provider -> Nat]
  /\ pc \in [Caller -> PC] /\ cur \in [Caller -> Provider]
  /\ try \in [Caller -> 1 .. MaxAttempts] /\ wait \in [Caller -> Waits]
  /\ faults \in Nat

(* CanMakeCall and RecordCall are two steps with a request in between, and  *)
(* a caller that was delayed sends in any case.  Still the limit of the day *)
(* is exceeded by at most one call for every other caller, the ones that    *)
(* asked while there was budget.  The limit of the window is exceeded by    *)
(* no more than that and the calls of the day's last quarter.  Failover is  *)
(* not in this: it asks no budget; nor are requests that failed, which the  *)
(* tracker never sees.                                                      *)
LimitsExceededByConcurrencyOnly ==
  \A p \in Provider :
    /\ DailyLimit[p] > 0 => paid[p] <= Explained(p)
    /\ WindowLimit[p] > 0 => paidWindow[p] <= ExplainedWindow(p)

(* Operations keep getting answers after the faults that FaultKinds and     *)
(* MaxFaults allow, in any order, with circuits that opened and stay so,    *)
(* with limits used up and providers in penalty ("resumes once providers    *)
(* are functional", docs/troubleshooting.md).  It depends on that bound:    *)
(* enough 403 answers put a provider out of use for good.                   *)
Resumes == []<><<\E c \in Caller : Answered(c) \/ NotFound(c)>>_vars

-----------------------------------------------------------------------------
(* The inductive invariant: why the limits are kept that far. *)

(* The callers that will send a first attempt to p whatever the budget says *)
(* by then, at once or, for the day's limit, when a window ends.            *)
Committed(p) ==
  {c \in Caller : /\ cur[c] = p /\ try[c] = 1
                  /\ At(c, "sent") \/ (At(c, "wait") /\ wait[c] # "day")}
CommittedNow(p) ==
  {c \in Caller : /\ cur[c] = p /\ try[c] = 1
                  /\ At(c, "sent") \/ (At(c, "wait") /\ wait[c] = "brief")}

(* The counts that the next RecordCall goes on from.                        *)
PaidToday(p) == IF dayOver THEN 0 ELSE paid[p]
PaidNow(p) == IF dayOver \/ windowOver[p] THEN 0 ELSE paidWindow[p]

(* What is paid and what is committed stays within what is explained.  The  *)
(* tracker sees every paid call until it counts up to the limit.            *)
DayInv(p) ==
  /\ paid[p] <= Explained(p)
  /\ paid[p] <= calls[p] \/ calls[p] = DailyLimit[p]
  /\ PaidToday(p) + Cardinality(Committed(p)) <= Explained(p)

(* The same for the window.  Before the last quarter of the day there are   *)
(* only the window's own calls; in it, one more for every call of the day.  *)
WindowInv(p) ==
  /\ paidWindow[p] <= ExplainedWindow(p)
  /\ paidWindow[p] <= window[p] \/ window[p] = WindowLimit[p]
  /\ PaidNow(p) + Cardinality(CommittedNow(p)) <= ExplainedWindow(p)
  /\ 4 * calls[p] <= 3 * DailyLimit[p] =>
       PaidNow(p) + Cardinality(CommittedNow(p)) <= WindowLimit[p] + Others
  /\ 4 * calls[p] > 3 * DailyLimit[p] /\ calls[p] < DailyLimit[p] =>
       PaidNow(p) <= WindowLimit[p] + Others + LastQuarter(p) - (DailyLimit[p] - calls[p])

BudgetInv ==
  \A p \in Provider : /\ DailyLimit[p] > 0 => DayInv(p)
                      /\ WindowLimit[p] > 0 => WindowInv(p)

(* A caller that fails over has an attempt left.                            *)
RetryInv == \A c \in Caller : At(c, "failover") => try[c] < MaxAttempts

RpcInv == RpcTypeOK /\ RetryInv /\ BudgetInv

=============================================================================
