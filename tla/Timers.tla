------------------------------- MODULE Timers -------------------------------
(***************************************************************************)
(* The three timer programs of Boost.Asio: "bind" (async_timer_bind_main)  *)
(* arms its timer again in the handler until a counter of main has reached *)
(* a limit, "async" (async_timer_main) waits once for a handler, and       *)
(* "sync" (sync_timer_main) blocks.  The clock and the io_service, which   *)
(* may call a handler late but never early, are external.                  *)
(***************************************************************************)
EXTENDS Naturals

CONSTANTS
    Delay,   (* of the first wait: 5 in the code                           *)
    Period,  (* between two calls of the handler: 1                        *)
    Limit,   (* calls after which the timer is not armed again: 5          *)
    MaxTime  (* a bound: where the clock stops                             *)

ASSUME TimesAssumption ==
    /\ Delay \in Nat /\ Period \in Nat /\ Limit \in Nat /\ MaxTime \in Nat
    /\ MaxTime >= Delay + Limit * Period

VARIABLES
    variant,  (* which of the programs                                     *)
    now,
    expiry,   (* t.expires_at()                                            *)
    at,       (* where main is                                             *)
    waiting,  (* is a wait on the timer pending?                           *)
    queued,   (* does a handler wait for run() to call it?                 *)
    count,    (* main's variable, which the handler is given a pointer to  *)
    calls     (* how often the handler was called                          *)

timersVars == <<variant, now, expiry, at, waiting, queued, count, calls>>

TimersInit ==
    /\ variant \in {"bind", "async", "sync"}
    /\ now = 0 /\ expiry = Delay
    /\ at = "arm"
    /\ waiting = FALSE /\ queued = FALSE
    /\ count = 0 /\ calls = 0

Tick ==
    /\ now < MaxTime
    /\ now' = now + 1
    /\ UNCHANGED <<variant, expiry, at, waiting, queued, count, calls>>

(* async_wait starts the wait and returns.                                 *)
Arm ==
    /\ at = "arm" /\ variant # "sync"
    /\ waiting' = TRUE
    /\ at' = "run"
    /\ UNCHANGED <<variant, now, expiry, queued, count, calls>>

(* wait() returns when the timer has expired.                              *)
Wait ==
    /\ at = "arm" /\ variant = "sync"
    /\ now >= expiry
    /\ at' = "run"
    /\ UNCHANGED <<variant, now, expiry, waiting, queued, count, calls>>

Expire ==
    /\ waiting
    /\ now >= expiry
    /\ waiting' = FALSE /\ queued' = TRUE
    /\ UNCHANGED <<variant, now, expiry, at, count, calls>>

Called == at = "run" /\ queued /\ queued' = FALSE /\ calls' = calls + 1

Rearms == variant = "bind" /\ count < Limit

(* Mutant: the next expiry counts from the moment of the call.             *)
PrintAgainFromNow ==
    /\ Called
    /\ Rearms
    /\ count' = count + 1
    /\ expiry' = now + Period
    /\ waiting' = TRUE
    /\ UNCHANGED <<variant, now, at>>

(* The handler counts, moves the expiry on by a period and waits again.    *)
PrintAgain ==
    /\ Called
    /\ Rearms
    /\ count' = count + 1
    /\ expiry' = expiry + Period
    /\ waiting' = TRUE
    /\ UNCHANGED <<variant, now, at>>

PrintLast ==
    /\ Called
    /\ ~Rearms
    /\ UNCHANGED <<variant, now, expiry, at, waiting, count>>

(* Mutant: run() returns when it has no handler to call at the moment.     *)
RunReturnsIdle ==
    /\ at = "run"
    /\ ~queued
    /\ at' = "done"
    /\ UNCHANGED <<variant, now, expiry, waiting, queued, count, calls>>

(* io.run() returns when no handler is left to be called.                  *)
RunReturns ==
    /\ at = "run"
    /\ ~waiting /\ ~queued
    /\ at' = "done"
    /\ UNCHANGED <<variant, now, expiry, waiting, queued, count, calls>>

Main == Arm \/ Wait \/ Expire \/ PrintAgain \/ PrintLast \/ RunReturns

(* The clock is at its bound.                                              *)
Rest == now = MaxTime /\ UNCHANGED timersVars

TimersNext == Tick \/ Main \/ Rest

TimersSpec == TimersInit /\ [][TimersNext]_timersVars

-----------------------------------------------------------------------------
TimersTypeOK ==
    /\ variant \in {"bind", "async", "sync"}
    /\ now \in 0 .. MaxTime
    /\ expiry \in Nat
    /\ at \in {"arm", "run", "done"}
    /\ waiting \in BOOLEAN /\ queued \in BOOLEAN /\ ~(waiting /\ queued)
    /\ count \in 0 .. Limit /\ calls \in 0 .. Limit + 1

(* The n-th call of the handler is due n - 1 periods after the first,      *)
(* however late the calls before it were.                                  *)
NoDrift == waiting \/ queued => expiry = Delay + calls * Period

(* Once main has gone on the handler was called as often as the program    *)
(* says: Limit times and once more, once, or never.  A call after that,    *)
(* which would use main's timer and counter, would be one too many.        *)
AllCallsMade ==
    at = "done" => calls = CASE variant = "bind" -> Limit + 1
                             [] variant = "async" -> 1
                             [] variant = "sync" -> 0
=============================================================================
