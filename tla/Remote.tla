------------------------------ MODULE Remote ------------------------------
(* Remote_ctrl.c: the transmitter's frames, their time-out, the arming      *)
(* ritual and the stop that every loss of control forces.                   *)
EXTENDS Course

CONSTANTS
    Frames,      \* frames the receiver may hand over in this run
    FrameTimeout \* REMOTE_CTRL_FRAME_TIMEOUT_MS

\* on: the receiver holds the link; speed: the stick, 0 inside its dead band;
\* arm, action: the switch is above REMOTE_CTRL_SWITCH_HIGH.
Channels == [speed : Int, arm : BOOLEAN, action : BOOLEAN]

ASSUME RemoteAssumption ==
    /\ Frames \subseteq [on : BOOLEAN, ch : Channels]
    /\ FrameTimeout \in Nat \ {0}

\* remote_ctrl_init centres every channel.
Centred == [speed |-> 0, arm |-> FALSE, action |-> FALSE]

remoteStopVars == <<bridgeVars, rotationVars, stairVars, jumpVars, cfg>>

---------------------------------------------------------------------------
\* remote_ctrl_force_stop
ForceStop ==
    /\ IF Bridging THEN BridgeAbort ELSE UNCHANGED bridgeVars
    /\ IF Rotating THEN RotationStop ELSE UNCHANGED rotationVars
    /\ IF active THEN StairAbort
       ELSE /\ UNCHANGED <<stairVars, cfg>>
            /\ IF Jumping THEN Abort ELSE UNCHANGED jumpVars
    /\ armed' = FALSE
    /\ action_switch_last' = TRUE
    /\ target_speed' = 0
    /\ STOP_FLAG' = 0
    /\ neutral' = FALSE
    /\ UNCHANGED fuxian

\* No manoeuvre holds the car: the stick sets the speed.
StickFree == ~Jumping /\ ~Rotating /\ straight_state # "RUNNING" /\ ~active
             /\ ~Bridging

\* Slip: the stick is read before the new frame is taken over.
StickBefore(ch) == channel.speed

StickSpeed(ch) == ch.speed

\* Slip: an armed car jumps for as long as the switch is held.
JumpHeld(ch) == ch.action

JumpPressed(ch) == ch.action /\ ~action_switch_last

\* The rest of remote_ctrl_update_1ms once the car is armed.
StickDrives(ch) ==
    LET v == IF StickFree THEN StickSpeed(ch) ELSE target_speed
    IN /\ armed' = TRUE
       /\ STOP_FLAG' = 1
       /\ fuxian' = IF StickFree THEN 0 ELSE fuxian
       /\ target_speed' = v
       /\ IF JumpPressed(ch) THEN Trigger(v) ELSE UNCHANGED jumpVars
       /\ action_switch_last' = ch.action
       /\ neutral' = (neutral \/ ch.speed = 0)
       /\ UNCHANGED <<bridgeVars, rotationVars, stairVars, cfg>>

\* Slip: the stick need not be centred.
ArmsAnyhow(ch) == TRUE

\* May a car that is not armed be armed by these channels?
Arms(ch) == ch.speed = 0

Unarmed == UNCHANGED <<remoteStopVars, armed, action_switch_last, target_speed,
                       STOP_FLAG, fuxian, neutral>>

\* The decisions of remote_ctrl_update_1ms, its first lines having left these
\* values of the channels, the link, detected and the count.
Decide(ch, on, det, lost) ==
    /\ channel' = ch /\ detected' = det /\ lost_count_ms' = lost
    /\ online' = (on /\ (det => lost < FrameTimeout))
    /\ \/ ~det /\ Unarmed
       \/ det /\ ~(on /\ lost < FrameTimeout) /\ ForceStop
       \/ det /\ on /\ lost < FrameTimeout
          /\ IF ch.arm /\ (armed \/ Arms(ch)) THEN StickDrives(ch) ELSE ForceStop

\* remote_ctrl_update_1ms
RemoteUpdate ==
    /\ Step("remote", "output")
    /\ \/ \E f \in Frames : Decide(f.ch, f.on, TRUE, 0)
       \/ Decide(channel, online, detected,
                 IF lost_count_ms <= FrameTimeout THEN lost_count_ms + 1
                 ELSE lost_count_ms)
    /\ UNCHANGED <<clockVars, run_state, motorVars, straight_state, nag, mainVars,
                   fell>>
===========================================================================
