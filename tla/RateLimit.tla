----------------------------- MODULE RateLimit -----------------------------
(***************************************************************************)
(* The MR_REG rate limiter of a session (the head of handle_mr_reg in      *)
(* crates/rdows-server/src/handler.rs) with the clock it reads.  The       *)
(* module Session leaves the clock out and lets the window end between any *)
(* two requests; here time passes in ticks, so that the limiter can be     *)
(* compared with the rate it is there to keep.                             *)
(*                                                                         *)
(* A definition named Bad... is a plausible fault of the one after it; no  *)
(* specification refers to it.                                             *)
(***************************************************************************)
EXTENDS Integers, Sequences, FiniteSets

CONSTANTS
    MrRegRateLimit,     \* config.mr_reg_rate_limit
    Second,             \* ticks in a second
    MaxTime             \* bound: the clock stops here

ASSUME RateAssumption ==
    /\ MrRegRateLimit \in Nat \ {0}
    /\ Second \in Nat \ {0}
    /\ MaxTime \in Nat

VARIABLES
    now,                    \* Instant::now()
    mr_reg_window_start,
    mr_reg_count,
    admitted                \* history: the requests that passed, each with the
                            \* time, its window and its number in the window

rateVars == <<now, mr_reg_window_start, mr_reg_count, admitted>>

RateInit ==
    /\ now = 0
    /\ mr_reg_window_start = 0
    /\ mr_reg_count = 0
    /\ admitted = <<>>

Tick ==
    /\ now < MaxTime
    /\ now' = now + 1
    /\ UNCHANGED <<mr_reg_window_start, mr_reg_count, admitted>>

WindowOver == now - mr_reg_window_start >= Second

BadCountNow == mr_reg_count

\* mr_reg_count after the reset of a window that is over.
CountNow == IF WindowOver THEN 0 ELSE mr_reg_count

BadRefused == CountNow > MrRegRateLimit

Refused == CountNow >= MrRegRateLimit

Grant(window) == [at |-> now, window |-> window, nth |-> CountNow + 1]

BadMrReg ==
    /\ mr_reg_count' = IF Refused THEN CountNow ELSE CountNow + 1
    /\ admitted' = IF Refused THEN admitted
                   ELSE Append(admitted, Grant(mr_reg_window_start))
    /\ UNCHANGED <<now, mr_reg_window_start>>

\* An MR_REG arrives and is refused, or goes on to register.
MrReg ==
    /\ mr_reg_window_start' = IF WindowOver THEN now ELSE mr_reg_window_start
    /\ mr_reg_count' = IF Refused THEN CountNow ELSE CountNow + 1
    /\ admitted' = IF Refused THEN admitted
                   ELSE Append(admitted, Grant(mr_reg_window_start'))
    /\ UNCHANGED now

RateNext == Tick \/ MrReg

RateSpec == RateInit /\ [][RateNext]_rateVars

-----------------------------------------------------------------------------

\* The requests admitted in the second that ends with tick t.
InSecond(t) ==
    {i \in DOMAIN admitted : t - Second < admitted[i].at /\ admitted[i].at <= t}

Grants == [at : 0 .. MaxTime, window : 0 .. MaxTime, nth : 1 .. MrRegRateLimit]

\* The window began no later than now, and its count never passes the limit.
RateTypeOK ==
    /\ now \in 0 .. MaxTime
    /\ mr_reg_window_start \in 0 .. now
    /\ mr_reg_count \in 0 .. MrRegRateLimit
    /\ admitted \in Seq(Grants)

\* However requests fall around the end of a window, no second admits more
\* than twice the limit: windows last a second at least, so a second meets two
\* of them at most (handle_mr_reg).
TwiceTheLimit ==
    \A t \in 0 .. now : Cardinality(InSecond(t)) <= 2 * MrRegRateLimit

\* A request is refused only when the last second already admitted the limit:
\* a session below its rate is never held up by a stale window.
RefusalsJustified ==
    [][(MrReg /\ admitted' = admitted) =>
           Cardinality(InSecond(now)) >= MrRegRateLimit]_rateVars

=============================================================================
