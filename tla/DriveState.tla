---------------------------- MODULE DriveState ----------------------------
(* The globals through which the 1 ms timer callback (Body_ctrl.c), the     *)
(* manoeuvres it calls and the menu pages of the main loop share the car.   *)
(* Speeds are the integers of the code; a PID gain is the kind of value it  *)
(* holds: the configured one, the configured one scaled by the soft-start   *)
(* ramp, or zero.                                                           *)
EXTENDS Integers, Sequences

CONSTANTS
    Settle,       \* STARTUP_SENSOR_SETTLE_MS, in ticks
    Ramp,         \* STARTUP_CONTROL_RAMP_MS
    DefaultTicks, \* length of each jump phase, the default parameters
    StairTicks,   \* the same, the stair parameters
    Tilts,        \* outcomes of "tilt > max_tilt_abort" the run allows
    Pages,        \* menu pages the run may open
    PageChanges,  \* may another page be opened after the first?
    Preemptions   \* ticks that may fall inside one page's routine

JumpPhases == {"PREPARE", "CHARGE", "LAUNCH", "AIRBORNE", "LANDING", "RECOVER"}
JumpStates == JumpPhases \cup {"IDLE"}
GainKinds == {"nominal", "ramped", "zero"}
GainSets == [angle_p : GainKinds, angle_id : GainKinds,
             rate_p : GainKinds, speed_p : GainKinds]
Modes == {"jump", "single", "seq"}
StairPhases == {"RUNUP", "JUMPING", "STOPPING", "DONE"}
Reasons == {"NONE", "TRIGGER", "JUMP_TO", "STOP_TO", "OVER_DIST"}
AllPages == {"A1", "A3", "D1", "D2", "D3", "D4", "D6"}

ASSUME SettleAssumption == {Settle, Ramp} \subseteq Nat \ {0}
ASSUME TicksAssumption ==
    /\ DefaultTicks \in [JumpPhases -> Nat \ {0}]
    /\ StairTicks \in [JumpPhases -> Nat \ {0}]
ASSUME InputsAssumption ==
    /\ Tilts \subseteq BOOLEAN /\ Pages \subseteq AllPages
    /\ PageChanges \in BOOLEAN /\ Preemptions \in Nat

VARIABLES
    isr,          \* next step of pit_call_back, "idle" between two ticks
    sys_times, tilted, startup_zero_ready,
    target_speed, run_state, STOP_FLAG, fuxian,
    motors,       \* last command of the tick: "driven" or "zero"
    demand,       \* speed the speed loop was last given, 0 when it is off
    jump_state, elapsed, stored_speed_target,
    saved, live,  \* jump_saved_*_cycle and roll_balance_cascade
    cfg,          \* which parameters jump_cfg holds
    mode, active, phase, phase_timer, jump_index, jump_ok, fail_reason, px_enable,
    bridge_state, side, entry_stable_count, exit_stable_count, bridge_elapsed,
    cooldown, saved_speed_target,
    rotation_state, rotation_elapsed,
    straight_state,
    detected, online, armed, lost_count_ms, channel, action_switch_last,
    nag,          \* what the path recorder does
    page, todo,   \* open page, and what is left of its routine
    preempted,    \* ticks that fell inside it
    was_active, trigger_result, \* locals of jump_abort and jump_trigger
    fell,         \* observation: a fall, until the settle time after it is over
    neutral       \* observation: a centred stick since the last forced stop

clockVars == <<sys_times, tilted, startup_zero_ready>>
gateVars == <<run_state, STOP_FLAG, fuxian>>
motorVars == <<motors, demand>>
jumpVars == <<jump_state, elapsed, stored_speed_target, saved, live>>
stairVars == <<mode, active, phase, phase_timer, jump_index, jump_ok,
               fail_reason, px_enable>>
bridgeVars == <<bridge_state, side, entry_stable_count, exit_stable_count,
                bridge_elapsed, cooldown, saved_speed_target>>
rotationVars == <<rotation_state, rotation_elapsed>>
remoteVars == <<detected, online, armed, lost_count_ms, channel,
                action_switch_last>>
mainVars == <<page, todo, preempted, was_active, trigger_result>>
seenVars == <<fell, neutral>>

vars == <<isr, clockVars, target_speed, gateVars, motorVars, jumpVars, cfg,
          stairVars, bridgeVars, rotationVars, straight_state, remoteVars, nag,
          mainVars, seenVars>>

---------------------------------------------------------------------------
\* Full power is reached when the ramp is: sys_times counts no further here.
FullPower == Settle + Ramp

\* startup_control_ramp as the kind of gain it scales to.
RampedGain(t) == IF t <= Settle THEN "zero"
                 ELSE IF t < FullPower THEN "ramped" ELSE "nominal"

NominalGains == [angle_p |-> "nominal", angle_id |-> "nominal",
                 rate_p |-> "nominal", speed_p |-> "nominal"]
ZeroGains == [angle_p |-> "zero", angle_id |-> "zero",
              rate_p |-> "zero", speed_p |-> "zero"]

\* jump_is_active, rotation_is_active, one_bridge_is_active.
Jumping == jump_state # "IDLE"
Rotating == rotation_state \in {"RUNNING", "BRAKING"}
Bridging == bridge_state # "IDLE"

Magnitude(v) == IF v >= 0 THEN v ELSE -v

\* A tick goes on with step s; the main loop only runs when isr is "idle".
Step(from, to) == isr = from /\ isr' = to
===========================================================================
