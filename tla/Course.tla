------------------------------ MODULE Course ------------------------------
(* The other manoeuvres of the timer callback: the single-side bridge       *)
(* (One_bridge.c), the rotation in place (Rotation.c) and the 100 m         *)
(* straight-line test (Body_ctrl.c).                                        *)
EXTENDS Stair

CONSTANTS
    Rolls,        \* outcomes of the filtered roll angle the run allows
    EntryStable,  \* ONE_BRIDGE_ENTRY_STABLE_MS
    ExitStable,   \* ONE_BRIDGE_EXIT_STABLE_MS
    MaxActive,    \* ONE_BRIDGE_MAX_ACTIVE_MS
    ExitTime,     \* the literal 400 of the exit phase
    Cooldown,     \* ONE_BRIDGE_COOLDOWN_MS
    RotationTime, \* rotation.duration_ms
    RotationBrake \* ROTATION_BRAKE_MS

ASSUME CourseAssumption ==
    /\ Rolls \subseteq {"left", "right", "between", "flat"}
    /\ {EntryStable, ExitStable, MaxActive, ExitTime, Cooldown, RotationTime,
        RotationBrake} \subseteq Nat \ {0}

BridgeMinSpeed == 40
BridgeMaxSpeed == 160
StraightSpeed == 200

Sides == {"left", "right"}

---------------------------------------------------------------------------
(* One_bridge.c *)

\* Slip: the limit is only taken when the bridge is entered.
UnlimitedSpeed == target_speed

\* one_bridge_limit_target_speed
LimitedSpeed == IF target_speed > BridgeMaxSpeed THEN BridgeMaxSpeed
                ELSE IF target_speed < -BridgeMaxSpeed THEN -BridgeMaxSpeed
                ELSE target_speed

\* one_bridge_is_motion_allowed; "moving" is car_speed at or above the minimum.
MotionAllowed(moving) ==
    /\ STOP_FLAG = 1 /\ run_state = 1
    /\ ~Jumping /\ ~active /\ ~Rotating
    /\ straight_state = "IDLE"
    /\ moving \/ Magnitude(target_speed) >= BridgeMinSpeed

\* one_bridge_abort, and one_bridge_finish_idle as well.
BridgeAbort ==
    /\ bridge_state' = "IDLE" /\ side' = "NONE"
    /\ entry_stable_count' = 0 /\ exit_stable_count' = 0 /\ bridge_elapsed' = 0
    /\ cooldown' = Cooldown
    /\ UNCHANGED saved_speed_target

\* Slip: the counter is taken down past zero.
CoolDownAlways == cooldown - 1

CoolDown == IF cooldown > 0 THEN cooldown - 1 ELSE 0

EnterRunning(s) ==
    /\ bridge_state' = "RUNNING" /\ side' = s
    /\ entry_stable_count' = 0 /\ exit_stable_count' = 0 /\ bridge_elapsed' = 0
    /\ saved_speed_target' = target_speed
    /\ target_speed' = LimitedSpeed

BridgeIdle(roll, moving) ==
    LET allowed == CoolDown = 0 /\ MotionAllowed(moving)
        count == IF side = roll THEN entry_stable_count + 1 ELSE 1
    IN /\ bridge_state = "IDLE"
       /\ cooldown' = CoolDown
       /\ \/ /\ ~allowed
             /\ entry_stable_count' = 0
             /\ UNCHANGED <<bridge_state, side, exit_stable_count, bridge_elapsed,
                            saved_speed_target, target_speed>>
          \/ /\ allowed /\ roll \notin Sides
             /\ entry_stable_count' = 0 /\ side' = "NONE"
             /\ UNCHANGED <<bridge_state, exit_stable_count, bridge_elapsed,
                            saved_speed_target, target_speed>>
          \/ /\ allowed /\ roll \in Sides /\ count < EntryStable
             /\ entry_stable_count' = count /\ side' = roll
             /\ UNCHANGED <<bridge_state, exit_stable_count, bridge_elapsed,
                            saved_speed_target, target_speed>>
          \/ /\ allowed /\ roll \in Sides /\ count >= EntryStable
             /\ EnterRunning(roll)

\* one_bridge_enter_exiting
EnterExiting ==
    /\ bridge_state' = "EXITING"
    /\ bridge_elapsed' = 0 /\ exit_stable_count' = 0
    /\ target_speed' = saved_speed_target
    /\ UNCHANGED <<side, entry_stable_count, saved_speed_target>>

\* d, the distance since the entry, is 0 below ONE_BRIDGE_MIN_EXIT_DISTANCE_CM,
\* 1 below ONE_BRIDGE_RUN_DISTANCE_CM and 2 from there on.
BridgeRunning(roll, moving, d) ==
    LET e == bridge_elapsed + 1
        leaving == e > EntryStable /\ d >= 1 /\ roll = "flat"
        count == IF leaving THEN exit_stable_count + 1 ELSE 0
    IN /\ bridge_state = "RUNNING"
       /\ \/ ~MotionAllowed(moving) /\ BridgeAbort /\ UNCHANGED target_speed
          \/ /\ MotionAllowed(moving)
             /\ e >= MaxActive \/ d = 2 \/ count >= ExitStable
             /\ EnterExiting /\ cooldown' = CoolDown
          \/ /\ MotionAllowed(moving)
             /\ e < MaxActive /\ d < 2 /\ count < ExitStable
             /\ bridge_elapsed' = e /\ exit_stable_count' = count
             /\ target_speed' = LimitedSpeed
             /\ cooldown' = CoolDown
             /\ UNCHANGED <<bridge_state, side, entry_stable_count,
                            saved_speed_target>>

\* Slip: the exit waits for the legs alone.
BridgeExitingSlow(faded) ==
    /\ bridge_state = "EXITING"
    /\ UNCHANGED target_speed
    /\ \/ faded /\ BridgeAbort
       \/ /\ ~faded
          /\ bridge_elapsed' = IF bridge_elapsed <= ExitTime THEN bridge_elapsed + 1
                               ELSE bridge_elapsed
          /\ cooldown' = CoolDown
          /\ UNCHANGED <<bridge_state, side, entry_stable_count, exit_stable_count,
                         saved_speed_target>>

\* The leg compensation decays below its threshold ("faded") or not.
BridgeExiting(faded) ==
    /\ bridge_state = "EXITING"
    /\ UNCHANGED target_speed
    /\ \/ (faded \/ bridge_elapsed + 1 > ExitTime) /\ BridgeAbort
       \/ /\ ~faded /\ bridge_elapsed + 1 <= ExitTime
          /\ bridge_elapsed' = bridge_elapsed + 1
          /\ cooldown' = CoolDown
          /\ UNCHANGED <<bridge_state, side, entry_stable_count, exit_stable_count,
                         saved_speed_target>>

\* one_bridge_service_1ms
BridgeService ==
    /\ Step("bridge", "steer")
    /\ \E roll \in Rolls, moving \in BOOLEAN :
         \/ BridgeIdle(roll, moving)
         \/ \E d \in 0..2 : BridgeRunning(roll, moving, d)
         \/ BridgeExiting(moving)
    /\ UNCHANGED <<clockVars, gateVars, motorVars, jumpVars, cfg, stairVars,
                   rotationVars, straight_state, remoteVars, nag, mainVars, seenVars>>

---------------------------------------------------------------------------
(* Rotation.c. rotation_elapsed is elapsed while RUNNING, brake_elapsed     *)
(* while BRAKING; the turned angle may reach its target on any tick.        *)

\* Slip: only the angle ends a rotation, its duration does not.
RotationRunForAngle ==
    \/ /\ rotation_state = "RUNNING"
       /\ rotation_state' = "BRAKING" /\ rotation_elapsed' = 0
    \/ /\ rotation_state = "RUNNING"
       /\ rotation_elapsed' = IF rotation_elapsed < RotationTime
                              THEN rotation_elapsed + 1 ELSE rotation_elapsed
       /\ UNCHANGED rotation_state
    \/ /\ rotation_state = "BRAKING" /\ rotation_elapsed + 1 >= RotationBrake
       /\ rotation_state' = "DONE" /\ rotation_elapsed' = rotation_elapsed + 1
    \/ /\ rotation_state = "BRAKING" /\ rotation_elapsed + 1 < RotationBrake
       /\ rotation_elapsed' = rotation_elapsed + 1
       /\ UNCHANGED rotation_state

RotationRun ==
    \/ /\ rotation_state = "RUNNING"
       /\ rotation_state' = "BRAKING" /\ rotation_elapsed' = 0
    \/ /\ rotation_state = "RUNNING" /\ rotation_elapsed + 1 < RotationTime
       /\ rotation_elapsed' = rotation_elapsed + 1
       /\ UNCHANGED rotation_state
    \/ /\ rotation_state = "BRAKING" /\ rotation_elapsed + 1 >= RotationBrake
       /\ rotation_state' = "DONE" /\ rotation_elapsed' = rotation_elapsed + 1
    \/ /\ rotation_state = "BRAKING" /\ rotation_elapsed + 1 < RotationBrake
       /\ rotation_elapsed' = rotation_elapsed + 1
       /\ UNCHANGED rotation_state

\* rotation_stop
RotationStop == rotation_state' = "IDLE" /\ rotation_elapsed' = 0

---------------------------------------------------------------------------
(* straight_test_run. The distance d is 0, 1 from STRAIGHT_SLOWDOWN_CM and  *)
(* 2 from STRAIGHT_TARGET_CM; a heading may or may not be had.              *)

StraightLocked ==
    /\ straight_state = "LOCKING"
    /\ straight_state' = "RUNNING"
    /\ target_speed' = StraightSpeed
    /\ STOP_FLAG' = 1

\* Slip: the motors stay on when the line is reached.
LineRolling(d) == STOP_FLAG

LineStop(d) == IF d = 2 THEN 0 ELSE STOP_FLAG

StraightRunning(d) ==
    /\ straight_state = "RUNNING"
    /\ straight_state' = IF d = 2 THEN "DONE" ELSE "RUNNING"
    /\ target_speed' = IF d >= 1 THEN 0 ELSE target_speed
    /\ STOP_FLAG' = LineStop(d)

StraightService ==
    /\ Step("straight", "remote")
    /\ \/ StraightLocked
       \/ \E d \in 0..2 : StraightRunning(d)
       \/ straight_state # "RUNNING"
          /\ UNCHANGED <<straight_state, target_speed, STOP_FLAG>>
    /\ UNCHANGED <<clockVars, run_state, fuxian, motorVars, jumpVars, cfg,
                   stairVars, bridgeVars, rotationVars, remoteVars, nag, mainVars,
                   seenVars>>
===========================================================================
