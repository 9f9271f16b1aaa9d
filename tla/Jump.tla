------------------------------- MODULE Jump -------------------------------
(* The jump of Body_ctrl.c: the seven-state machine inside                  *)
(* car_steer_control, its trigger and abort, and the gains                  *)
(* car_state_calculate gives the balance loops in and out of a jump.        *)
EXTENDS DriveState

Ticks == IF cfg = "stair" THEN StairTicks ELSE DefaultTicks

\* forward_motor_boost * 0.006, as an integer speed.
Boost == IF cfg = "stair" THEN 2 ELSE 1

\* jump_apply_fixed_pid: the saved gains without integral and derivative.
FixedGains(g) == [angle_p |-> g.angle_p, angle_id |-> "zero",
                  rate_p |-> g.rate_p, speed_p |-> g.speed_p]

\* jump_speed_loop_should_update
SpeedLoopPhases == {"PREPARE", "CHARGE", "LANDING", "RECOVER"}

\* balance_speed_loop_enabled
SpeedLoopEnabled == IF Jumping THEN jump_state \in SpeedLoopPhases ELSE ~px_enable

---------------------------------------------------------------------------
\* What jump_trigger answers.
TriggerResult == IF Jumping THEN "BUSY"
                 ELSE IF run_state = 0 THEN "NOT_RUNNING"
                 ELSE IF tilted THEN "TILT" ELSE "OK"

\* jump_trigger inside the timer callback, the target speed being v.
Trigger(v) ==
    IF TriggerResult = "OK"
    THEN /\ jump_state' = "PREPARE"
         /\ elapsed' = 0
         /\ stored_speed_target' = v
         /\ saved' = live
         /\ live' = FixedGains(live)
    ELSE UNCHANGED jumpVars

\* jump_abort inside the timer callback; the caller stores target_speed.
Abort == /\ jump_state' = "IDLE"
         /\ elapsed' = 0
         /\ live' = IF Jumping THEN saved ELSE live
         /\ UNCHANGED <<stored_speed_target, saved>>

\* jump_config_default inside the timer callback.
ConfigDefault == /\ Abort
                 /\ cfg' = "default"

---------------------------------------------------------------------------
\* car_state_calculate outside a jump: the soft start, whose gains follow the
\* ramp at time t and whose target speed is zero until the ramp ends.
SoftStart(t, g, v) ==
    /\ live' = [angle_p |-> RampedGain(t), angle_id |-> g.angle_id,
                rate_p |-> g.rate_p, speed_p |-> RampedGain(t)]
    /\ target_speed' = IF t < FullPower THEN 0 ELSE v

\* ... and in a jump.
JumpGains ==
    live' = [angle_p |-> saved.angle_p, angle_id |-> "zero",
             rate_p |-> saved.rate_p,
             speed_p |-> IF jump_state \in SpeedLoopPhases THEN saved.speed_p
                         ELSE "zero"]

\* Slip: the jump goes on while the car is down.
JumpGoesOn == jump_state

\* What the tilt protection makes of the jump machine.
FallenState == "IDLE"

\* The car leans over: the jump is aborted, run_state is cleared.
CarFallen ==
    /\ tilted
    /\ Step("state", "nag")
    /\ jump_state' = FallenState
    /\ elapsed' = IF Jumping THEN 0 ELSE elapsed
    /\ SoftStart(sys_times, IF Jumping THEN saved ELSE live,
                 IF Jumping THEN 0 ELSE target_speed)
    /\ run_state' = 0
    /\ fell' = TRUE
    /\ UNCHANGED <<clockVars, STOP_FLAG, fuxian, motorVars, stored_speed_target,
                   saved, cfg, stairVars, bridgeVars, rotationVars, straight_state,
                   remoteVars, nag, mainVars, neutral>>

\* Slip: the clock runs on when the car stands up.
ClockKept == sys_times

\* The clock a restarted car is given.
RestartClock == 0

\* The car stands up again: the start-up begins anew and the tick ends here.
CarRecovered ==
    /\ ~tilted /\ run_state = 0
    /\ Step("state", "idle")
    /\ sys_times' = RestartClock
    /\ run_state' = 1
    /\ IF Jumping THEN JumpGains /\ UNCHANGED target_speed
                  ELSE SoftStart(RestartClock, live, target_speed)
    /\ motors' = "zero" /\ demand' = 0
    /\ UNCHANGED <<tilted, startup_zero_ready, STOP_FLAG, fuxian, jump_state,
                   elapsed, stored_speed_target, saved, cfg, stairVars, bridgeVars,
                   rotationVars, straight_state, remoteVars, nag, mainVars, seenVars>>

CarUpright ==
    /\ ~tilted /\ run_state = 1
    /\ Step("state", "nag")
    /\ IF Jumping THEN JumpGains /\ UNCHANGED target_speed
                  ELSE SoftStart(sys_times, live, target_speed)
    /\ UNCHANGED <<clockVars, gateVars, motorVars, jump_state, elapsed,
                   stored_speed_target, saved, cfg, stairVars, bridgeVars,
                   rotationVars, straight_state, remoteVars, nag, mainVars, seenVars>>

---------------------------------------------------------------------------
\* The speed a phase asks for after e of its n ticks. The recovery rate is
\* 0.3: three tenths on landing, from there back to the whole.
PhaseSpeed(p, e, n) ==
    CASE p \in {"PREPARE", "CHARGE"} -> stored_speed_target
      [] p = "LAUNCH" -> stored_speed_target + Boost
      [] p = "AIRBORNE" -> target_speed
      [] p = "LANDING" -> (stored_speed_target * 3) \div 10
      [] p = "RECOVER" -> IF e >= n THEN stored_speed_target
                          ELSE (stored_speed_target * (3 * n + 7 * e)) \div (10 * n)

\* Slip: LANDING is entered again and again.
NextPhaseLoop == [p \in JumpPhases |->
    CASE p = "PREPARE" -> "CHARGE"   [] p = "CHARGE" -> "LAUNCH"
      [] p = "LAUNCH" -> "AIRBORNE"  [] p = "AIRBORNE" -> "LANDING"
      [] p = "LANDING" -> "AIRBORNE" [] p = "RECOVER" -> "IDLE"]

NextPhase == [p \in JumpPhases |->
    CASE p = "PREPARE" -> "CHARGE"   [] p = "CHARGE" -> "LAUNCH"
      [] p = "LAUNCH" -> "AIRBORNE"  [] p = "AIRBORNE" -> "LANDING"
      [] p = "LANDING" -> "RECOVER"  [] p = "RECOVER" -> "IDLE"]

\* Slip: the restoring call at the end of the jump is lost.
GainsKept(p, e, n) == live

\* The end of RECOVER gives the saved gains back.
GainsAfter(p, e, n) == IF p = "RECOVER" /\ e >= n THEN saved ELSE live

\* One tick of the machine in car_steer_control, which returns before it
\* when the car is down or no jump is under way.
JumpTick ==
    LET n == Ticks[jump_state]
        e == elapsed + 1
    IN IF Jumping /\ run_state = 1
       THEN /\ jump_state' = IF e >= n THEN NextPhase[jump_state] ELSE jump_state
            /\ elapsed' = IF e >= n THEN 0 ELSE e
            /\ target_speed' = PhaseSpeed(jump_state, e, n)
            /\ live' = GainsAfter(jump_state, e, n)
            /\ UNCHANGED <<stored_speed_target, saved>>
       ELSE UNCHANGED <<jumpVars, target_speed>>

SteerControl ==
    /\ Step("steer", "straight")
    /\ JumpTick
    /\ UNCHANGED <<clockVars, gateVars, motorVars, cfg, stairVars, bridgeVars,
                   rotationVars, straight_state, remoteVars, nag, mainVars, seenVars>>
===========================================================================
