---------------------------- MODULE DriverLimits ----------------------------
(***************************************************************************)
(* How the driver divides and enforces time: compute_run_time of           *)
(* portfolio_runner.py, set_time_limit of limits.py, and the exit code of  *)
(* a portfolio (returncodes.py).  Time is CPU time in ticks; run times are *)
(* fractions, so they only occur rounded up to seconds.                    *)
(***************************************************************************)
EXTENDS Integers, Sequences

CONSTANTS
    Tick,             \* the ticks of a second
    TimeLimit,        \* the time limit of the search component, in ticks
    MaxElapsed        \* bound of the model: time is not counted beyond it

ASSUME TimeAssumption ==
    Tick \in Nat \ {0} /\ TimeLimit \in Nat /\ MaxElapsed \in Nat

NoLimit == -1
Ceil(a, b) == -((-a) \div b)
AtMost(a, b) == IF a <= b THEN a ELSE b

\* The relative times of the configurations from position p on.
RemainingRelativeTime(configs, p) ==
    LET last[n \in 0 .. Len(configs)] ==      \* of the last n
          IF n = 0 THEN 0
          ELSE last[n - 1] + configs[Len(configs) - n + 1].time
    IN last[Len(configs) - p + 1]

\* The soft limit for the configuration at p, in seconds: compute_run_time
\* rounded up.  The whole of the remaining time goes to the last position.
SoftLimit(configs, p, elapsed) ==
    Ceil((TimeLimit - elapsed) * configs[p].time,
         RemainingRelativeTime(configs, p) * Tick)

\* The CPU time after which the process is certainly gone, in ticks: the hard
\* limit, a second above the soft one.  A negative soft limit is none: -1 is
\* RLIM_INFINITY, and setrlimit refuses it with a hard limit of 0, which
\* _set_limit only reports; what is below -1 is taken for a huge number.
HardLimit(soft) == IF soft < 0 THEN NoLimit ELSE (soft + 1) * Tick

\* The times at which a process started now can end.  It does not get
\* SIGXCPU before its soft limit.
EndTimes(elapsed, limit, code) ==
    {t \in elapsed .. (IF limit = NoLimit THEN MaxElapsed
                       ELSE AtMost(elapsed + limit, MaxElapsed)) :
        code = "SIGXCPU" =>
           limit # NoLimit /\ t >= AtMost(elapsed + limit - Tick, MaxElapsed)}

\* generate_portfolio_exitcode.  EXIT_SIGXCPU is counted as EXIT_TIMEOUT.
ExpectedExit == {"PLAN_FOUND", "UNSOLVABLE", "UNSOLVED_INCOMPLETE",
                 "OUT_OF_MEMORY", "TIMEOUT"}

\* Mutants: without a failure the portfolio has succeeded; failures go first.
PortfolioExit_NoneIsSuccess(exitcodes) ==
    IF exitcodes \subseteq {"PLAN_FOUND", "SIGXCPU"} THEN "PLAN_FOUND"
    ELSE CHOOSE c \in exitcodes : c # "PLAN_FOUND"

PortfolioExit(exitcodes) ==
    LET codes == {IF c = "SIGXCPU" THEN "TIMEOUT" ELSE c : c \in exitcodes}
        unexpected == codes \ ExpectedExit
    IN IF \E c \in codes : unexpected = {c}
       THEN CHOOSE c \in unexpected : TRUE
       ELSE IF unexpected # {} THEN "CRITICAL_ERROR"
       ELSE IF "PLAN_FOUND" \in codes THEN "PLAN_FOUND"
       ELSE IF "UNSOLVABLE" \in codes THEN "UNSOLVABLE"
       ELSE IF "UNSOLVED_INCOMPLETE" \in codes THEN "UNSOLVED_INCOMPLETE"
       ELSE IF codes = {"OUT_OF_MEMORY"} THEN "OUT_OF_MEMORY"
       ELSE IF codes = {"TIMEOUT"} THEN "TIMEOUT"
       ELSE IF codes = {"OUT_OF_MEMORY", "TIMEOUT"} THEN "TIMEOUT_AND_MEMORY"
       ELSE "CRITICAL_ERROR"
=============================================================================
