------------------------------ MODULE GnssCache ------------------------------
(***************************************************************************)
(* The throttle of the position cache (gnss_cache_save, gnss_cache.c): at  *)
(* most one write to flash every GNSS_CACHE_SAVE_INTERVAL milliseconds,    *)
(* measured on sys_times.  The millisecond callback counts sys_times up    *)
(* modulo 2^32 and sets it to zero when the car stands up from a fall      *)
(* (Body_ctrl.c), and it may do either between the two places at which the *)
(* main loop reads it.  What is written, and where, is in module Nag.      *)
(***************************************************************************)
EXTENDS Naturals

CONSTANTS
    Wrap,       \* the modulus of sys_times, 2^32 in the code
    Interval,   \* GNSS_CACHE_SAVE_INTERVAL
    Settle      \* STARTUP_SENSOR_SETTLE_MS

ASSUME CacheAssumption ==
    /\ Wrap \in Nat \ {0}
    /\ Interval \in 1 .. Wrap - 1
    /\ Settle \in 0 .. Wrap - 1

VARIABLES
    sys_times, last_save_tick,
    run_state,      \* 0 while the car lies on its side
    save_step,           \* where the main loop is
    since,          \* milliseconds since the last write, a whole turn at most
    restarted       \* sys_times has been set to zero since the last write

cacheVars == <<sys_times, last_save_tick, run_state, save_step, since, restarted>>

Times == 0 .. Wrap - 1

CacheTypeOK ==
    /\ sys_times \in Times /\ last_save_tick \in Times
    /\ run_state \in {0, 1}
    /\ save_step \in {"idle", "store", "refused"}
    /\ since \in 0 .. Wrap
    /\ restarted \in BOOLEAN

(* Before the first write the interval counts as long over. *)
CacheInit ==
    /\ sys_times = 0 /\ last_save_tick = 0
    /\ run_state = 1
    /\ save_step = "idle"
    /\ since = Wrap /\ restarted = FALSE

-----------------------------------------------------------------------------
(* The millisecond callback *)

NextTime == (sys_times + 1) % Wrap
Older == IF since < Wrap THEN since + 1 ELSE since

(* Upright, or still settling, in which case the tilt is not looked at. *)
Tick ==
    /\ run_state = 1 \/ NextTime <= Settle
    /\ sys_times' = NextTime
    /\ since' = Older
    /\ UNCHANGED <<last_save_tick, run_state, save_step, restarted>>

(* Tilted too far. *)
TickFallen ==
    /\ NextTime > Settle
    /\ sys_times' = NextTime
    /\ run_state' = 0
    /\ since' = Older
    /\ UNCHANGED <<last_save_tick, save_step, restarted>>

(* Upright again: the start-up begins anew. *)
TickRecovered ==
    /\ run_state = 0 /\ NextTime > Settle
    /\ sys_times' = 0
    /\ run_state' = 1
    /\ since' = Older
    /\ restarted' = TRUE
    /\ UNCHANGED <<last_save_tick, save_step>>

-----------------------------------------------------------------------------
(* The main loop *)

(* Slip: the end of the interval is computed instead of the time gone by.  *)
TooEarlyByEnd ==
    last_save_tick # 0 /\ sys_times < (last_save_tick + Interval) % Wrap

(* An unsigned difference; 0 stands for "never saved". *)
TooEarly ==
    last_save_tick # 0 /\ (sys_times + Wrap - last_save_tick) % Wrap < Interval

(* Slip: every attempt starts the interval again. *)
RefuseRestarting ==
    /\ save_step = "idle" /\ TooEarly
    /\ save_step' = "refused"
    /\ last_save_tick' = sys_times
    /\ UNCHANGED <<sys_times, run_state, since, restarted>>

Refuse ==
    /\ save_step = "idle" /\ TooEarly
    /\ save_step' = "refused"
    /\ UNCHANGED <<sys_times, last_save_tick, run_state, since, restarted>>

Accept ==
    /\ save_step = "idle" /\ ~TooEarly
    /\ save_step' = "store"
    /\ UNCHANGED <<sys_times, last_save_tick, run_state, since, restarted>>

(* sys_times is read a second time; the write to flash follows. *)
StoreFix ==
    /\ save_step = "store"
    /\ last_save_tick' = sys_times
    /\ save_step' = "idle"
    /\ since' = 0 /\ restarted' = FALSE
    /\ UNCHANGED <<sys_times, run_state>>

Return ==
    /\ save_step = "refused"
    /\ save_step' = "idle"
    /\ UNCHANGED <<sys_times, last_save_tick, run_state, since, restarted>>

CacheNext ==
    \/ Tick \/ TickFallen \/ TickRecovered
    \/ Refuse \/ Accept \/ StoreFix \/ Return

CacheSpec == CacheInit /\ [][CacheNext]_cacheVars

-----------------------------------------------------------------------------
Accepts == save_step = "idle" /\ save_step' = "store"
Refuses == save_step = "idle" /\ save_step' = "refused"

(* Two writes are an interval apart even when sys_times wraps round        *)
(* between them, unless it was set to zero by a recovery or the first of   *)
(* them fell on the millisecond 0, which the code cannot tell from "never  *)
(* saved" (gnss_cache.c:44-46).                                            *)
IntervalKeptOnOneClock ==
    [][Accepts => since >= Interval \/ restarted \/ last_save_tick = 0]_cacheVars

(* An attempt is refused only while the interval since the last write      *)
(* runs: refused attempts, of which there is one for every sentence of the *)
(* receiver, do not put off the next write (gnss_cache.c:44-46).  Not      *)
(* counted are a recovery since the last write and a whole turn of the     *)
(* counter, 49 days, without an attempt.                                   *)
RefusedOnlyEarly ==
    [][Refuses => since < Interval \/ restarted \/ since = Wrap]_cacheVars
=============================================================================
