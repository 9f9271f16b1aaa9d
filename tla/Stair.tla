------------------------------- MODULE Stair -------------------------------
(* Stair_test.c: the flat-ground jump test ("jump"), the single stair        *)
(* ("single") and the three-jump sequence ("seq"). stair_abort precedes      *)
(* every start, so one context is active at a time; its timer is kept per    *)
(* context because a start reads what the last run left in it.               *)
EXTENDS Jump

CONSTANTS
    JumpRunup,    \* JUMP_RUNUP_TICKS
    SingleRunup,  \* the literal 20 of stair_single_step
    Interval,     \* STAIR_SEQ_INTERVAL_MS
    Grace,        \* the literal 10 after which the end of a jump is looked at
    JumpTimeout,  \* STAIR_JUMP_TIMEOUT_MS
    StopTimeout,  \* STAIR_STOP_TIMEOUT_MS
    BrakeTime,    \* STAIR_FINAL_BRAKE_MS
    TotalJumps    \* STAIR_SEQ_TOTAL_JUMPS

ASSUME StairAssumption ==
    {JumpRunup, SingleRunup, Interval, Grace, JumpTimeout, StopTimeout,
     BrakeTime, TotalJumps} \subseteq Nat \ {0}

JumpRunupSpeed == 200
StairRunupSpeed == 280
FinalBrakeSpeed == -120

\* Past this value no comparison with phase_timer changes.
TimerBound == CHOOSE n \in {JumpRunup, SingleRunup, Interval, JumpTimeout,
                            StopTimeout, BrakeTime} :
                 \A m \in {JumpRunup, SingleRunup, Interval, JumpTimeout,
                           StopTimeout, BrakeTime} : m <= n

\* phase_timer of the active context, this tick's increment included.
Timer == IF phase_timer[mode] <= TimerBound THEN phase_timer[mode] + 1
         ELSE phase_timer[mode]
SetTimer(n) == phase_timer' = [phase_timer EXCEPT ![mode] = n]

\* stair_px_update holds the target speed at zero while the position loop runs.
HeldSpeed == IF px_enable /\ ~Jumping THEN 0 ELSE target_speed

---------------------------------------------------------------------------
\* stair_trigger_jump inside the timer callback.
TriggerJump(v) ==
    LET ok == TriggerResult = "OK"
    IN /\ Trigger(v)
       /\ phase' = "JUMPING"
       /\ SetTimer(0)
       /\ jump_ok' = ok
       /\ fail_reason' = IF ok THEN "NONE" ELSE "TRIGGER"
       /\ target_speed' = IF ok THEN v ELSE 0

\* Slip: the stair parameters are never taken back.
FinishKeeping == UNCHANGED <<jumpVars, cfg>>

\* The flat-ground test leaves the jump and its parameters alone.
FinishJump == IF mode = "jump" THEN UNCHANGED <<jumpVars, cfg>> ELSE ConfigDefault

\* stair_finish and stair_finish_with_defaults
Finish(ok, reason) ==
    /\ target_speed' = 0
    /\ px_enable' = FALSE
    /\ jump_ok' = ok /\ fail_reason' = reason
    /\ active' = FALSE /\ phase' = "DONE"
    /\ SetTimer(Timer)
    /\ UNCHANGED <<mode, jump_index>>
    /\ FinishJump

---------------------------------------------------------------------------
RunupWait ==
    /\ SetTimer(Timer)
    /\ target_speed' = IF mode = "jump" THEN target_speed ELSE HeldSpeed
    /\ UNCHANGED <<jumpVars, cfg, phase, jump_ok, fail_reason, px_enable>>

\* The run-up of the flat-ground test and of the later jumps of a sequence
\* ends with the timer, that of a single stair with the distance as well.
RunupOver == \/ mode = "jump" /\ Timer > JumpRunup
             \/ mode = "seq" /\ Timer >= Interval

RunupTrigger ==
    /\ TriggerJump(IF mode = "jump" THEN target_speed ELSE HeldSpeed)
    /\ px_enable' = IF mode = "jump" THEN px_enable ELSE FALSE
    /\ cfg' = IF mode = "single" THEN "stair" ELSE cfg

Runup ==
    /\ phase = "RUNUP"
    /\ UNCHANGED <<mode, active, jump_index>>
    /\ \/ RunupOver /\ RunupTrigger
       \/ mode = "single" /\ Timer > SingleRunup /\ RunupTrigger
       \/ ~RunupOver /\ RunupWait

---------------------------------------------------------------------------
\* Slip: off by one.
OneJumpMore == mode = "seq" /\ jump_index < TotalJumps

\* Is there another jump after this one?
MoreJumps == mode = "seq" /\ jump_index + 1 < TotalJumps

\* The jump is over when its machine is idle again: on to the next one, or stop.
JumpOver ==
    LET next == MoreJumps
    IN /\ phase' = IF next THEN "RUNUP" ELSE "STOPPING"
       /\ SetTimer(0)
       /\ jump_index' = IF mode = "seq" THEN jump_index + 1 ELSE jump_index
       /\ px_enable' = (next \/ px_enable)
       /\ target_speed' = IF next THEN StairRunupSpeed
                          ELSE IF mode = "seq" THEN FinalBrakeSpeed ELSE 0
       /\ UNCHANGED <<mode, active, jump_ok, fail_reason, jumpVars, cfg>>

JumpWait == /\ SetTimer(Timer)
            /\ UNCHANGED <<target_speed, jumpVars, cfg, mode, active, phase,
                           jump_index, jump_ok, fail_reason, px_enable>>

\* Slip: the end of a jump is waited for without bound.
JumpUnbounded == FALSE

JumpLate == Timer > JumpTimeout

JumpTimedOut ==
    /\ JumpLate
    /\ target_speed' = 0
    /\ px_enable' = FALSE
    /\ jump_ok' = FALSE /\ fail_reason' = "JUMP_TO"
    /\ active' = FALSE /\ phase' = "DONE"
    /\ SetTimer(Timer)
    /\ Abort
    /\ cfg' = IF mode = "jump" THEN cfg ELSE "default"
    /\ UNCHANGED <<mode, jump_index>>

Watch == \/ JumpTimedOut
         \/ ~JumpLate /\ ~jump_ok /\ Timer > Grace
            /\ Finish(FALSE, fail_reason)
         \/ ~JumpLate /\ jump_ok /\ ~Jumping /\ Timer > Grace
            /\ JumpOver
         \/ ~JumpLate /\ jump_ok /\ Jumping /\ Timer > Grace /\ JumpWait
         \/ Timer <= Grace /\ JumpWait

---------------------------------------------------------------------------
\* stair_seq_apply_final_brake; "fast" is car_speed above STAIR_STOP_SPEED.
BrakeSpeed(fast) == IF Timer <= BrakeTime /\ fast THEN FinalBrakeSpeed ELSE 0

\* Slip: nothing bounds the wait for the wheels to stop.
StopUnbounded == FALSE

StopTimedOut == Timer > StopTimeout

StopWait == /\ ~StopTimedOut
            /\ SetTimer(Timer)
            /\ \E fast \in BOOLEAN :
                 target_speed' = IF mode = "seq" THEN BrakeSpeed(fast)
                                 ELSE target_speed
            /\ UNCHANGED <<jumpVars, cfg, mode, active, phase, jump_index,
                           jump_ok, fail_reason, px_enable>>

\* The wheels stood still for ten ticks, the platform is passed, or neither.
Stopping ==
    /\ phase = "STOPPING"
    /\ \/ Finish(TRUE, "NONE")
       \/ mode = "seq" /\ Finish(FALSE, "OVER_DIST")
       \/ StopWait
       \/ StopTimedOut /\ Finish(FALSE, "STOP_TO")

---------------------------------------------------------------------------
\* stair_service_1ms
StairService ==
    /\ Step("stair", "bridge")
    /\ \/ active /\ Runup
       \/ active /\ phase = "JUMPING" /\ Watch
       \/ active /\ Stopping
       \/ active /\ phase = "DONE" /\ SetTimer(Timer)
          /\ UNCHANGED <<target_speed, jumpVars, cfg, mode, active, phase,
                         jump_index, jump_ok, fail_reason, px_enable>>
       \/ ~active /\ UNCHANGED <<target_speed, jumpVars, cfg, stairVars>>
    /\ UNCHANGED <<clockVars, gateVars, motorVars, bridgeVars, rotationVars,
                   straight_state, remoteVars, nag, mainVars, seenVars>>

\* stair_abort inside the timer callback; the caller's target speed is zero too.
StairAbort ==
    /\ ConfigDefault
    /\ px_enable' = FALSE
    /\ active' = FALSE /\ phase' = "DONE"
    /\ UNCHANGED <<mode, phase_timer, jump_index, jump_ok, fail_reason>>
===========================================================================
