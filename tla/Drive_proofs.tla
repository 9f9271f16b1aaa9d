---------------------------- MODULE Drive_proofs ----------------------------
(***************************************************************************)
(* What the drive promises for every length of the phases and time-outs,   *)
(* every set of frames, every set of pages and any number of ticks inside  *)
(* one page's routine: the failsafe of the remote control, one jump per    *)
(* press, no speed before the ramp is over, and the limit on the bridge.   *)
(***************************************************************************)
EXTENDS DriveProps, TLAPS

(* The remote control. An armed car has seen a centred stick, and remembers *)
(* the action switch it last looked at; a car that is not armed counts the *)
(* switch as held.                                                         *)
Arming ==
    /\ armed => neutral
    /\ armed => action_switch_last = channel.action
    /\ armed \/ action_switch_last

(* Between remote_ctrl_update_1ms and the motor command, and from there to *)
(* the next tick, a car that has a transmitter is only driven when armed.  *)
Guarded ==
    /\ isr = "output" /\ detected /\ STOP_FLAG = 1 => online /\ armed
    /\ isr = "idle" /\ detected /\ motors = "driven" => online /\ armed

RemoteTypes ==
    /\ detected \in BOOLEAN /\ online \in BOOLEAN /\ armed \in BOOLEAN
    /\ neutral \in BOOLEAN /\ action_switch_last \in BOOLEAN
    /\ channel \in Channels

RemoteInv == RemoteTypes /\ Arming /\ Guarded

LEMMA CentredChannels == Centred \in Channels
BY DEF Centred, Channels

LEMMA FrameChannels ==
    ASSUME NEW f \in Frames
    PROVE  f.on \in BOOLEAN /\ f.ch \in Channels
BY RemoteAssumption DEF RemoteAssumption

(* What a decision leaves, taken apart by its three outcomes.              *)
LEMMA Decided ==
    ASSUME NEW ch \in Channels, NEW on \in BOOLEAN, NEW det \in BOOLEAN,
           NEW lost, Decide(ch, on, det, lost),
           RemoteTypes, Arming
    PROVE  /\ channel' = ch /\ detected' = det /\ online' \in BOOLEAN
           /\ \/ /\ ~det
                 /\ UNCHANGED <<armed, action_switch_last, neutral, jump_state>>
              \/ /\ det /\ armed' = FALSE /\ action_switch_last' = TRUE
                 /\ neutral' = FALSE /\ STOP_FLAG' = 0
                 /\ jump_state' \in {jump_state, "IDLE"}
              \/ /\ det /\ online' /\ armed' = TRUE /\ neutral' \in BOOLEAN /\ neutral'
                 /\ action_switch_last' = ch.action
                 /\ \/ jump_state' = jump_state
                    \/ ch.action /\ ~action_switch_last
<1>1. channel' = ch /\ detected' = det
  BY DEF Decide
<1>2. online' = (on /\ (det => lost < FrameTimeout))
  BY DEF Decide
<1>3. CASE ~det /\ Unarmed
  <2>1. UNCHANGED <<armed, action_switch_last, neutral, jump_state>>
    BY <1>3 DEF Unarmed, remoteStopVars, jumpVars
  <2> QED BY <1>1, <1>2, <1>3, <2>1
<1>4. CASE det /\ ForceStop
  <2>1. jump_state' \in {jump_state, "IDLE"}
    BY <1>4 DEF ForceStop, StairAbort, ConfigDefault, Abort, jumpVars
  <2>2. /\ armed' = FALSE /\ action_switch_last' = TRUE
        /\ neutral' = FALSE /\ STOP_FLAG' = 0
    BY <1>4 DEF ForceStop
  <2> QED BY <1>1, <1>2, <1>4, <2>1, <2>2
<1>5. CASE det /\ on /\ lost < FrameTimeout /\ (armed \/ Arms(ch)) /\ StickDrives(ch)
  <2>1. /\ armed' = TRUE /\ action_switch_last' = ch.action
        /\ neutral' = (neutral \/ ch.speed = 0)
    BY <1>5 DEF StickDrives
  <2>2. neutral' /\ neutral' \in BOOLEAN
    BY <1>5, <2>1 DEF Arming, Arms
  <2>3. jump_state' = jump_state \/ (ch.action /\ ~action_switch_last)
    <3>1. CASE JumpPressed(ch)
      BY <3>1 DEF JumpPressed
    <3>2. CASE ~JumpPressed(ch)
      <4>1. UNCHANGED jumpVars
        BY <1>5, <3>2 DEF StickDrives
      <4>2. jump_state' = jump_state
        BY <4>1 DEF jumpVars
      <4> QED BY <4>2
    <3> QED BY <3>1, <3>2
  <2>4. online'
    BY <1>2, <1>5
  <2> QED BY <1>1, <1>2, <1>5, <2>1, <2>2, <2>3, <2>4
<1> QED BY <1>3, <1>4, <1>5 DEF Decide

(* remote_ctrl_update_1ms keeps the invariant, and starts a jump only for  *)
(* a press that an armed car sees.                                         *)
LEMMA RemoteKeeps ==
    ASSUME RemoteInv, RemoteUpdate
    PROVE  /\ RemoteInv'
           /\ ~Jumping /\ jump_state' = "PREPARE" =>
                  armed /\ neutral /\ ~channel.action /\ channel'.action
<1>1. PICK ch \in Channels, on \in BOOLEAN, det \in BOOLEAN,
           lost \in {0, lost_count_ms, lost_count_ms + 1} :
          Decide(ch, on, det, lost) /\ (det \/ ch = channel)
  BY FrameChannels DEF RemoteUpdate, RemoteInv, RemoteTypes
<1>2. isr' = "output"
  BY DEF RemoteUpdate, Step
<1>3. ch.action \in BOOLEAN
  BY DEF Channels
<1>4. /\ channel' = ch /\ detected' = det /\ online' \in BOOLEAN
      /\ \/ /\ ~det
            /\ UNCHANGED <<armed, action_switch_last, neutral, jump_state>>
         \/ /\ det /\ armed' = FALSE /\ action_switch_last' = TRUE
            /\ neutral' = FALSE /\ STOP_FLAG' = 0
            /\ jump_state' \in {jump_state, "IDLE"}
         \/ /\ det /\ online' /\ armed' = TRUE /\ neutral' \in BOOLEAN /\ neutral'
            /\ action_switch_last' = ch.action
            /\ \/ jump_state' = jump_state
               \/ ch.action /\ ~action_switch_last
  BY <1>1, Decided DEF RemoteInv
<1>5. RemoteTypes'
  BY <1>3, <1>4 DEF RemoteInv, RemoteTypes
<1>6. Guarded'
  BY <1>2, <1>4 DEF Guarded
<1>7. Arming'
  BY <1>1, <1>3, <1>4 DEF RemoteInv, Arming
<1>8. ~Jumping /\ jump_state' = "PREPARE" =>
          armed /\ neutral /\ ~channel.action /\ channel'.action
  BY <1>3, <1>4 DEF RemoteInv, RemoteTypes, Arming, Jumping, Channels
<1> QED BY <1>5, <1>6, <1>7, <1>8 DEF RemoteInv

(* Nobody else touches what the remote control knows.                      *)
LEMMA MainKeepsRemote ==
    ASSUME Main \/ \E p \in Pages : MenuOpen(p)
    PROVE  isr = "idle" /\ UNCHANGED <<isr, remoteVars, clockVars, motorVars, neutral>>
<1>1. CASE NagLoaded
  BY <1>1 DEF NagLoaded, seenVars
<1>2. CASE RotationSeen
  BY <1>2 DEF RotationSeen, seenVars
<1>3. CASE StoreFlags
  BY <1>3 DEF StoreFlags, At, untouchedByMain, seenVars
<1>4. CASE AbortStores
  BY <1>4 DEF AbortStores, At, untouchedByMain, seenVars
<1>5. CASE DefaultStores
  BY <1>5 DEF DefaultStores, At, untouchedByMain, seenVars
<1>6. CASE ContextStores
  BY <1>6 DEF ContextStores, At, untouchedByMain, seenVars
<1>7. CASE TriggerStores
  BY <1>7 DEF TriggerStores, At, untouchedByMain, seenVars
<1>8. CASE RotationStores
  BY <1>8 DEF RotationStores, At, untouchedByMain, seenVars
<1>9. ASSUME NEW p \in Pages, MenuOpen(p)
      PROVE  isr = "idle" /\ UNCHANGED <<isr, remoteVars, clockVars, motorVars, neutral>>
  BY <1>9 DEF MenuOpen, seenVars
<1> QED BY <1>1, <1>2, <1>3, <1>4, <1>5, <1>6, <1>7, <1>8, <1>9 DEF Main, MainStep

(* The steps of the callback other than remote_ctrl_update_1ms: where each *)
(* starts, where it ends, and that it leaves the remote control alone.     *)
Inside == <<isr, isr'>> \in
    {<<"state", "nag">>, <<"nag", "stair">>, <<"stair", "bridge">>,
     <<"bridge", "steer">>, <<"steer", "straight">>, <<"straight", "remote">>}

LEMMA TickKeepsRemote ==
    ASSUME Tick, ~RemoteUpdate
    PROVE  /\ UNCHANGED <<remoteVars, neutral>>
           /\ \/ TickBegin
              \/ CarRecovered
              \/ Inside /\ UNCHANGED <<clockVars, motorVars>>
              \/ MotorOutput
<1>1. CASE TickBegin
  BY <1>1 DEF TickBegin
<1>2. CASE CarFallen
  BY <1>2 DEF CarFallen, Step, Inside
<1>3. CASE CarRecovered
  BY <1>3 DEF CarRecovered, seenVars
<1>4. CASE CarUpright
  BY <1>4 DEF CarUpright, Step, Inside, seenVars
<1>5. CASE NagStep
  BY <1>5 DEF NagStep, Step, Inside, seenVars
<1>6. CASE StairService
  BY <1>6 DEF StairService, Step, Inside, seenVars
<1>7. CASE BridgeService
  BY <1>7 DEF BridgeService, Step, Inside, seenVars
<1>8. CASE SteerControl
  BY <1>8 DEF SteerControl, Step, Inside, seenVars
<1>9. CASE StraightService
  BY <1>9 DEF StraightService, Step, Inside, seenVars
<1>10. CASE MotorOutput
  BY <1>10 DEF MotorOutput, seenVars
<1> QED BY <1>1, <1>2, <1>3, <1>4, <1>5, <1>6, <1>7, <1>8, <1>9, <1>10 DEF Tick

LEMMA RemoteInit == Init => RemoteInv
BY CentredChannels DEF Init, RemoteInv, RemoteTypes, Arming, Guarded

LEMMA RemoteNext ==
    ASSUME RemoteInv, [Next]_vars
    PROVE  RemoteInv'
<1>1. CASE RemoteUpdate
  BY <1>1, RemoteKeeps
<1>2. CASE UNCHANGED <<remoteVars, neutral, isr, motors, STOP_FLAG>>
  <2>1. RemoteTypes' /\ Arming'
    BY <1>2 DEF RemoteInv, RemoteTypes, Arming, remoteVars
  <2>2. Guarded'
    BY <1>2 DEF RemoteInv, Guarded, remoteVars
  <2> QED BY <2>1, <2>2 DEF RemoteInv
<1>3. ASSUME UNCHANGED <<remoteVars, neutral>>, Guarded'
      PROVE  RemoteInv'
  <2>1. RemoteTypes' /\ Arming'
    BY <1>3 DEF RemoteInv, RemoteTypes, Arming, remoteVars
  <2> QED BY <1>3, <2>1 DEF RemoteInv
<1>4. CASE Tick /\ ~RemoteUpdate
  <2>1. UNCHANGED <<remoteVars, neutral>>
    BY <1>4, TickKeepsRemote
  <2>2. CASE TickBegin
    <3>1. (isr' = "idle" /\ motors' = "zero") \/ isr' = "state"
      BY <2>2 DEF TickBegin
    <3> QED BY <1>3, <2>1, <3>1 DEF Guarded
  <2>3. CASE CarRecovered
    <3>1. isr' = "idle" /\ motors' = "zero"
      BY <2>3 DEF CarRecovered, Step
    <3> QED BY <1>3, <2>1, <3>1 DEF Guarded
  <2>4. CASE Inside
    BY <1>3, <2>1, <2>4 DEF Guarded, Inside
  <2>5. CASE MotorOutput
    <3>1. isr = "output" /\ isr' = "idle"
      BY <2>5 DEF MotorOutput, Step
    <3>2. motors' = "driven" => STOP_FLAG = 1
      BY <2>5 DEF MotorOutput, OutputOn
    <3>3. UNCHANGED <<detected, online, armed>>
      BY <2>1 DEF remoteVars
    <3>4. Guarded'
      BY <3>1, <3>2, <3>3 DEF RemoteInv, Guarded
    <3> QED BY <1>3, <2>1, <3>4
  <2> QED BY <1>4, <2>2, <2>3, <2>4, <2>5, TickKeepsRemote
<1>5. CASE Main \/ \E p \in Pages : MenuOpen(p)
  <2>1. isr = "idle" /\ UNCHANGED <<isr, remoteVars, motors, neutral>>
    BY <1>5, MainKeepsRemote DEF motorVars
  <2>2. Guarded'
    BY <2>1 DEF RemoteInv, Guarded, remoteVars
  <2> QED BY <1>3, <2>1, <2>2
<1>6. CASE UNCHANGED vars
  BY <1>2, <1>6 DEF vars, motorVars, gateVars, seenVars
<1> QED BY <1>1, <1>4, <1>5, <1>6 DEF Next

(* A jump the remote control starts is one it was armed for and pressed.   *)
LEMMA JumpStep ==
    ASSUME RemoteInv, [Next]_vars
    PROVE  isr = "remote" /\ ~Jumping /\ jump_state' = "PREPARE"
               => armed /\ neutral /\ ~channel.action /\ channel'.action
<1>1. CASE RemoteUpdate
  BY <1>1, RemoteKeeps
<1>2. CASE Tick /\ ~RemoteUpdate
  <2>1. CASE TickBegin
    BY <2>1 DEF TickBegin
  <2>2. CASE CarRecovered
    BY <2>2 DEF CarRecovered, Step
  <2>3. CASE Inside
    BY <2>3 DEF Inside
  <2>4. CASE MotorOutput
    BY <2>4 DEF MotorOutput, Step
  <2> QED BY <1>2, <2>1, <2>2, <2>3, <2>4, TickKeepsRemote
<1>3. CASE Main \/ \E p \in Pages : MenuOpen(p)
  BY <1>3, MainKeepsRemote
<1>4. CASE UNCHANGED vars
  BY <1>4 DEF vars, jumpVars, Jumping
<1> QED BY <1>1, <1>2, <1>3, <1>4 DEF Next

(* Once a transmitter has been seen, no tick ends with the motors driven   *)
(* unless its link is up and its switch armed (Remote_ctrl.c:105-116).     *)
THEOREM DriveFailsafeStops == Spec => []FailsafeStops
<1>1. RemoteInv => FailsafeStops
  BY DEF RemoteInv, Guarded, FailsafeStops
<1> QED BY <1>1, RemoteInit, RemoteNext, PTL DEF Spec

(* After a forced stop the motors stay off until a centred stick was seen  *)
(* (Remote_ctrl.c:118-126).                                                *)
THEOREM DriveNoRestartUncentred == Spec => []NoRestartUncentred
<1>1. RemoteInv => NoRestartUncentred
  BY DEF RemoteInv, Arming, Guarded, NoRestartUncentred
<1> QED BY <1>1, RemoteInit, RemoteNext, PTL DEF Spec

(* One press of the jump switch starts at most one jump, and only of a car *)
(* that was armed before the press (Remote_ctrl.c:150-161).                *)
THEOREM DriveJumpOnPress == Spec => JumpOnPress
<1>1. RemoteInv /\ [Next]_vars =>
          [isr = "remote" /\ ~Jumping /\ jump_state' = "PREPARE"
               => armed /\ neutral /\ ~channel.action /\ channel'.action]_vars
  BY JumpStep
<1> QED BY <1>1, RemoteInit, RemoteNext, PTL DEF Spec, JumpOnPress

---------------------------------------------------------------------------
(* The bridge. Speeds are integers throughout, which needs the phases of a *)
(* jump to be the ones that have a length.                                 *)
Speeds ==
    /\ target_speed \in Int /\ stored_speed_target \in Int
    /\ saved_speed_target \in Int
    /\ jump_state \in JumpStates /\ elapsed \in Nat

(* Once the bridge service has run, no later step of the tick raises the   *)
(* speed of a car on the bridge: it found no jump and no straight-line     *)
(* test under way, and the stick has no say.                               *)
Limited ==
    bridge_state = "RUNNING" =>
        /\ isr \in {"steer", "straight", "remote", "output"} =>
               target_speed \in -BridgeMaxSpeed .. BridgeMaxSpeed
        /\ isr \in {"steer", "straight"} => ~Jumping /\ straight_state = "IDLE"

BridgeInv == Speeds /\ Limited

LEMMA NoJumpState == "IDLE" \in JumpStates /\ "PREPARE" \in JumpStates
BY DEF JumpStates, JumpPhases

(* What a phase of the jump asks for is an integer speed.                  *)
LEMMA PhaseSpeeds ==
    ASSUME Speeds, NEW p \in JumpPhases, NEW e \in Nat, NEW n \in Nat \ {0}
    PROVE  PhaseSpeed(p, e, n) \in Int
<1>1. Boost \in Int
  BY DEF Boost
<1>2. (stored_speed_target * 3) \div 10 \in Int
  BY DEF Speeds
<1>3. (stored_speed_target * (3 * n + 7 * e)) \div (10 * n) \in Int
  <2>1. 10 * n \in Nat \ {0}
    OBVIOUS
  <2>2. 3 * n + 7 * e \in Int
    OBVIOUS
  <2>3. \A a, b \in Int : a * b \in Int
    OBVIOUS
  <2>4. stored_speed_target * (3 * n + 7 * e) \in Int
    BY <2>2, <2>3 DEF Speeds
  <2>5. \A a \in Int, b \in Nat \ {0} : a \div b \in Int
    OBVIOUS
  <2> QED BY <2>1, <2>4, <2>5
<1> QED BY <1>1, <1>2, <1>3 DEF PhaseSpeed, Speeds, JumpPhases

LEMMA TriggerSpeeds ==
    ASSUME Speeds, NEW v \in Int, Trigger(v)
    PROVE  /\ stored_speed_target' \in Int
           /\ jump_state' \in JumpStates /\ elapsed' \in Nat
BY NoJumpState DEF Trigger, Speeds, jumpVars

LEMMA AbortSpeeds ==
    ASSUME Speeds, Abort
    PROVE  /\ stored_speed_target' \in Int
           /\ jump_state' \in JumpStates /\ elapsed' \in Nat
BY NoJumpState DEF Abort, Speeds

LEMMA SteerSpeeds ==
    ASSUME Speeds, JumpTick
    PROVE  /\ target_speed' \in Int /\ stored_speed_target' \in Int
           /\ jump_state' \in JumpStates /\ elapsed' \in Nat
<1>1. CASE ~(Jumping /\ run_state = 1)
  BY <1>1 DEF JumpTick, jumpVars, Speeds
<1>2. CASE Jumping /\ run_state = 1
  <2> DEFINE n == Ticks[jump_state]
             e == elapsed + 1
  <2>1. jump_state \in JumpPhases
    BY <1>2 DEF Speeds, JumpStates, Jumping
  <2>2. n \in Nat \ {0}
    BY <2>1, TicksAssumption DEF TicksAssumption, Ticks
  <2>3. e \in Nat
    BY DEF Speeds
  <2>4. /\ jump_state' \in {NextPhase[jump_state], jump_state}
        /\ elapsed' \in {0, e}
        /\ target_speed' = PhaseSpeed(jump_state, e, n)
        /\ stored_speed_target' = stored_speed_target
    BY <1>2 DEF JumpTick
  <2>5. NextPhase[jump_state] \in JumpStates
    BY <2>1 DEF NextPhase, JumpPhases, JumpStates
  <2>6. PhaseSpeed(jump_state, e, n) \in Int
    BY <2>1, <2>2, <2>3, PhaseSpeeds
  <2> QED BY <2>1, <2>3, <2>4, <2>5, <2>6 DEF Speeds, JumpStates
<1> QED BY <1>1, <1>2

LEMMA FinishSpeeds ==
    ASSUME Speeds, NEW ok, NEW reason, Finish(ok, reason)
    PROVE  /\ target_speed' \in Int /\ stored_speed_target' \in Int
           /\ jump_state' \in JumpStates /\ elapsed' \in Nat
<1>1. target_speed' = 0
  BY DEF Finish
<1>2. Abort \/ UNCHANGED jumpVars
  BY DEF Finish, FinishJump, ConfigDefault
<1>3. CASE Abort
  BY <1>1, <1>3, AbortSpeeds
<1>4. CASE UNCHANGED jumpVars
  BY <1>1, <1>4 DEF jumpVars, Speeds
<1> QED BY <1>2, <1>3, <1>4

LEMMA StairSpeeds ==
    ASSUME Speeds, StairService
    PROVE  /\ target_speed' \in Int /\ stored_speed_target' \in Int
           /\ jump_state' \in JumpStates /\ elapsed' \in Nat
<1>1. HeldSpeed \in Int
  BY DEF HeldSpeed, Speeds
<1>2. ASSUME UNCHANGED jumpVars, target_speed' \in Int
      PROVE  /\ target_speed' \in Int /\ stored_speed_target' \in Int
             /\ jump_state' \in JumpStates /\ elapsed' \in Nat
  BY <1>2 DEF jumpVars, Speeds
<1>3. ASSUME NEW v \in Int, TriggerJump(v)
      PROVE  /\ target_speed' \in Int /\ stored_speed_target' \in Int
             /\ jump_state' \in JumpStates /\ elapsed' \in Nat
  <2>1. target_speed' \in Int
    BY <1>3 DEF TriggerJump
  <2>2. Trigger(v)
    BY <1>3 DEF TriggerJump
  <2> QED BY <2>1, <2>2, TriggerSpeeds
<1>4. CASE Runup
  <2>1. CASE RunupTrigger
    <3>1. TriggerJump(target_speed) \/ TriggerJump(HeldSpeed)
      BY <2>1 DEF RunupTrigger
    <3> QED BY <1>1, <1>3, <3>1 DEF Speeds
  <2>2. CASE RunupWait
    BY <1>1, <1>2, <2>2 DEF RunupWait, Speeds
  <2> QED BY <1>4, <2>1, <2>2 DEF Runup
<1>5. CASE Watch
  <2>1. CASE JumpTimedOut
    BY <2>1, AbortSpeeds DEF JumpTimedOut
  <2>2. CASE Finish(FALSE, fail_reason)
    BY <2>2, FinishSpeeds
  <2>3. CASE JumpOver
    <3>1. target_speed' \in Int
      BY <2>3 DEF JumpOver, StairRunupSpeed, FinalBrakeSpeed
    <3>2. UNCHANGED jumpVars
      BY <2>3 DEF JumpOver
    <3> QED BY <1>2, <3>1, <3>2
  <2>4. CASE JumpWait
    BY <1>2, <2>4 DEF JumpWait, Speeds
  <2> QED BY <1>5, <2>1, <2>2, <2>3, <2>4 DEF Watch
<1>6. CASE Stopping
  <2>1. ASSUME NEW ok, NEW reason, Finish(ok, reason)
        PROVE  /\ target_speed' \in Int /\ stored_speed_target' \in Int
               /\ jump_state' \in JumpStates /\ elapsed' \in Nat
    BY <2>1, FinishSpeeds
  <2>2. CASE StopWait
    <3>1. target_speed' \in Int
      BY <2>2 DEF StopWait, BrakeSpeed, FinalBrakeSpeed, Speeds
    <3> QED BY <1>2, <2>2, <3>1 DEF StopWait
  <2> QED BY <1>6, <2>1, <2>2 DEF Stopping
<1>7. CASE UNCHANGED <<target_speed, jumpVars>>
  BY <1>2, <1>7 DEF Speeds
<1> QED BY <1>4, <1>5, <1>6, <1>7 DEF StairService

LEMMA InLimit ==
    ASSUME target_speed \in Int
    PROVE  LimitedSpeed \in -BridgeMaxSpeed .. BridgeMaxSpeed
BY DEF LimitedSpeed, BridgeMaxSpeed

(* The bridge service leaves a car on the bridge with a limited speed.     *)
LEMMA ServiceLimits ==
    ASSUME Speeds, BridgeService
    PROVE  /\ target_speed' \in Int /\ saved_speed_target' \in Int
           /\ bridge_state' = "RUNNING" =>
                  /\ target_speed' \in -BridgeMaxSpeed .. BridgeMaxSpeed
                  /\ ~Jumping /\ straight_state = "IDLE"
<1>1. LimitedSpeed \in -BridgeMaxSpeed .. BridgeMaxSpeed
  BY InLimit DEF Speeds
<1>2. LimitedSpeed \in Int
  BY <1>1 DEF BridgeMaxSpeed
<1>3. ASSUME NEW roll, NEW moving, BridgeIdle(roll, moving)
      PROVE  /\ target_speed' \in Int /\ saved_speed_target' \in Int
             /\ bridge_state' = "RUNNING" =>
                    /\ target_speed' \in -BridgeMaxSpeed .. BridgeMaxSpeed
                    /\ ~Jumping /\ straight_state = "IDLE"
  <2>1. CASE UNCHANGED <<bridge_state, saved_speed_target, target_speed>>
    BY <1>3, <2>1 DEF BridgeIdle, Speeds
  <2>2. CASE MotionAllowed(moving) /\ EnterRunning(roll)
    BY <1>1, <1>2, <2>2 DEF EnterRunning, MotionAllowed, Speeds
  <2> QED BY <1>3, <2>1, <2>2 DEF BridgeIdle
<1>4. ASSUME NEW roll, NEW moving, NEW d, BridgeRunning(roll, moving, d)
      PROVE  /\ target_speed' \in Int /\ saved_speed_target' \in Int
             /\ bridge_state' = "RUNNING" =>
                    /\ target_speed' \in -BridgeMaxSpeed .. BridgeMaxSpeed
                    /\ ~Jumping /\ straight_state = "IDLE"
  <2>1. CASE BridgeAbort /\ UNCHANGED target_speed
    BY <2>1 DEF BridgeAbort, Speeds
  <2>2. CASE EnterExiting
    BY <2>2 DEF EnterExiting, Speeds
  <2>3. CASE MotionAllowed(moving) /\ target_speed' = LimitedSpeed
             /\ UNCHANGED saved_speed_target
    BY <1>1, <1>2, <2>3 DEF MotionAllowed, Speeds
  <2> QED BY <1>4, <2>1, <2>2, <2>3 DEF BridgeRunning
<1>5. ASSUME NEW faded, BridgeExiting(faded)
      PROVE  /\ target_speed' \in Int /\ saved_speed_target' \in Int
             /\ bridge_state' # "RUNNING"
  BY <1>5 DEF BridgeExiting, BridgeAbort, Speeds
<1> QED BY <1>3, <1>4, <1>5 DEF BridgeService

LEMMA BridgeKeeps ==
    ASSUME Speeds, BridgeService
    PROVE  BridgeInv'
<1>1. isr' = "steer" /\ UNCHANGED <<straight_state, jumpVars>>
  BY DEF BridgeService, Step
<1>2. UNCHANGED <<jump_state, elapsed, stored_speed_target>>
  BY <1>1 DEF jumpVars
<1> QED BY <1>1, <1>2, ServiceLimits DEF BridgeInv, Speeds, Limited, Jumping

LEMMA SteerKeeps ==
    ASSUME BridgeInv, SteerControl
    PROVE  BridgeInv'
<1>1. /\ isr = "steer" /\ isr' = "straight" /\ JumpTick
      /\ UNCHANGED <<bridge_state, saved_speed_target, straight_state>>
  BY DEF SteerControl, Step, bridgeVars
<1>2. Speeds'
  BY <1>1, SteerSpeeds DEF BridgeInv, Speeds
<1>3. CASE bridge_state = "RUNNING"
  <2>1. ~Jumping
    BY <1>1, <1>3 DEF BridgeInv, Limited
  <2>2. UNCHANGED <<target_speed, jump_state>>
    BY <1>1, <2>1 DEF JumpTick, jumpVars
  <2> QED BY <1>1, <1>2, <1>3, <2>2 DEF BridgeInv, Limited, Jumping
<1> QED BY <1>1, <1>2, <1>3 DEF BridgeInv, Limited

LEMMA StraightKeeps ==
    ASSUME BridgeInv, StraightService
    PROVE  BridgeInv'
<1>1. /\ isr = "straight" /\ isr' = "remote"
      /\ UNCHANGED <<bridge_state, saved_speed_target, jump_state, elapsed,
                     stored_speed_target>>
  BY DEF StraightService, Step, bridgeVars, jumpVars
<1>2. target_speed' \in Int
  BY DEF StraightService, StraightLocked, StraightRunning, StraightSpeed,
         BridgeInv, Speeds
<1>3. Speeds'
  BY <1>1, <1>2 DEF BridgeInv, Speeds
<1>4. CASE bridge_state = "RUNNING"
  <2>1. straight_state = "IDLE"
    BY <1>1, <1>4 DEF BridgeInv, Limited
  <2>2. UNCHANGED target_speed
    BY <2>1 DEF StraightService, StraightLocked, StraightRunning
  <2> QED BY <1>1, <1>3, <1>4, <2>2 DEF BridgeInv, Limited
<1> QED BY <1>1, <1>3, <1>4 DEF BridgeInv, Limited

(* The stick has no say on the bridge, and a forced stop ends it.          *)
LEMMA DecidedSpeeds ==
    ASSUME Speeds, NEW ch \in Channels, NEW on, NEW det, NEW lost,
           Decide(ch, on, det, lost)
    PROVE  /\ target_speed' \in Int /\ stored_speed_target' \in Int
           /\ jump_state' \in JumpStates /\ elapsed' \in Nat
           /\ saved_speed_target' = saved_speed_target
           /\ bridge_state' = "RUNNING" =>
                  /\ bridge_state = "RUNNING"
                  /\ target_speed' \in {0, target_speed}
<1>1. CASE Unarmed
  BY <1>1 DEF Unarmed, remoteStopVars, bridgeVars, jumpVars, Speeds
<1>2. CASE ForceStop
  <2>1. target_speed' = 0
    BY <1>2 DEF ForceStop
  <2>2. Abort \/ UNCHANGED jumpVars
    BY <1>2 DEF ForceStop, StairAbort, ConfigDefault
  <2>3. /\ stored_speed_target' \in Int
        /\ jump_state' \in JumpStates /\ elapsed' \in Nat
    <3>1. CASE Abort
      BY <3>1, AbortSpeeds
    <3>2. CASE UNCHANGED jumpVars
      BY <3>2 DEF jumpVars, Speeds
    <3> QED BY <2>2, <3>1, <3>2
  <2>4. /\ saved_speed_target' = saved_speed_target
        /\ bridge_state' \in {"IDLE", bridge_state}
    <3>1. BridgeAbort \/ UNCHANGED bridgeVars
      BY <1>2 DEF ForceStop
    <3> QED BY <3>1 DEF BridgeAbort, bridgeVars
  <2> QED BY <2>1, <2>3, <2>4
<1>3. CASE StickDrives(ch)
  <2> DEFINE v == IF StickFree THEN StickSpeed(ch) ELSE target_speed
  <2>1. v \in Int
    BY DEF StickSpeed, Channels, Speeds
  <2>2. target_speed' = v /\ UNCHANGED bridgeVars
    BY <1>3 DEF StickDrives
  <2>3. Trigger(v) \/ UNCHANGED jumpVars
    BY <1>3 DEF StickDrives
  <2>4. Bridging => v = target_speed
    BY DEF StickFree
  <2> HIDE DEF v
  <2>5. /\ stored_speed_target' \in Int
        /\ jump_state' \in JumpStates /\ elapsed' \in Nat
    <3>1. CASE Trigger(v)
      BY <2>1, <3>1, TriggerSpeeds
    <3>2. CASE UNCHANGED jumpVars
      BY <3>2 DEF jumpVars, Speeds
    <3> QED BY <2>3, <3>1, <3>2
  <2> QED BY <2>1, <2>2, <2>4, <2>5 DEF bridgeVars, Bridging
<1> QED BY <1>1, <1>2, <1>3 DEF Decide

LEMMA RemoteLimits ==
    ASSUME BridgeInv, channel \in Channels, RemoteUpdate
    PROVE  BridgeInv'
<1>1. /\ isr = "remote" /\ isr' = "output"
      /\ \E ch \in Channels, on \in {TRUE, FALSE, online},
            det \in {TRUE, detected},
            lost \in {0, lost_count_ms, lost_count_ms + 1} :
                Decide(ch, on, det, lost)
  BY FrameChannels DEF RemoteUpdate, Step
<1>2. /\ target_speed' \in Int /\ stored_speed_target' \in Int
      /\ jump_state' \in JumpStates /\ elapsed' \in Nat
      /\ saved_speed_target' = saved_speed_target
      /\ bridge_state' = "RUNNING" =>
             /\ bridge_state = "RUNNING"
             /\ target_speed' \in {0, target_speed}
  BY <1>1, DecidedSpeeds DEF BridgeInv
<1>3. 0 \in -BridgeMaxSpeed .. BridgeMaxSpeed
  BY DEF BridgeMaxSpeed
<1> QED BY <1>1, <1>2, <1>3 DEF BridgeInv, Speeds, Limited

LEMMA MainSpeeds ==
    ASSUME Speeds, Main \/ \E p \in Pages : MenuOpen(p)
    PROVE  Speeds'
<1>1. ASSUME UNCHANGED <<target_speed, stored_speed_target, saved_speed_target,
                        jump_state, elapsed>>
      PROVE  Speeds'
  BY <1>1 DEF Speeds
<1>2. ASSUME target_speed' \in Int, UNCHANGED <<jumpVars, bridgeVars>>
      PROVE  Speeds'
  BY <1>2 DEF Speeds, jumpVars, bridgeVars
<1>3. CASE NagLoaded
  BY <1>1, <1>3 DEF NagLoaded, jumpVars, bridgeVars
<1>4. CASE RotationSeen
  BY <1>1, <1>4 DEF RotationSeen, jumpVars, bridgeVars
<1>5. CASE StoreFlags
  <2>1. target_speed' = Stored(SpeedStores, target_speed)
    BY <1>5 DEF StoreFlags
  <2>2. Stored(SpeedStores, target_speed) \in Int
    BY DEF Stored, SpeedStores, UserSpeed, StairRunupSpeed, JumpRunupSpeed, Speeds
  <2> QED BY <1>2, <1>5, <2>1, <2>2 DEF StoreFlags
<1>6. CASE AbortStores
  <2>1. /\ target_speed' \in {target_speed, 0}
        /\ jump_state' \in {jump_state, "IDLE"} /\ elapsed' \in {elapsed, 0}
        /\ UNCHANGED <<stored_speed_target, bridgeVars>>
    BY <1>6 DEF AbortStores, jumpVars
  <2> QED BY <2>1, NoJumpState DEF Speeds, bridgeVars
<1>7. CASE DefaultStores
  <2>1. /\ jump_state' \in {jump_state, "IDLE"} /\ elapsed' \in {elapsed, 0}
        /\ UNCHANGED <<target_speed, stored_speed_target, bridgeVars>>
    BY <1>7 DEF DefaultStores
  <2> QED BY <2>1, NoJumpState DEF Speeds, bridgeVars
<1>8. CASE ContextStores
  BY <1>2, <1>8 DEF ContextStores, Speeds
<1>9. CASE TriggerStores
  <2>1. /\ target_speed' \in {target_speed, stored_speed_target, 0}
        /\ jump_state' \in {jump_state, "PREPARE"} /\ elapsed' \in {elapsed, 0}
        /\ stored_speed_target' \in {stored_speed_target, target_speed}
        /\ UNCHANGED bridgeVars
    BY <1>9 DEF TriggerStores, jumpVars
  <2> QED BY <2>1, NoJumpState DEF Speeds, bridgeVars
<1>10. CASE RotationStores
  <2>1. UNCHANGED <<target_speed, jumpVars, saved_speed_target>>
    BY <1>10 DEF RotationStores, BridgeAbort, bridgeVars
  <2> QED BY <1>1, <2>1 DEF jumpVars
<1>11. ASSUME NEW p \in Pages, MenuOpen(p)
       PROVE  Speeds'
  BY <1>1, <1>11 DEF MenuOpen, jumpVars, bridgeVars
<1> QED BY <1>3, <1>4, <1>5, <1>6, <1>7, <1>8, <1>9, <1>10, <1>11 DEF Main, MainStep

LEMMA CarSpeeds ==
    ASSUME Speeds, CarFallen \/ CarRecovered \/ CarUpright
    PROVE  Speeds' /\ isr' \in {"nag", "idle"}
<1>1. CASE CarFallen
  <2>1. /\ target_speed' \in Int /\ jump_state' = "IDLE" /\ elapsed' \in Nat
        /\ isr' = "nag" /\ UNCHANGED <<stored_speed_target, bridgeVars>>
    BY <1>1 DEF CarFallen, FallenState, SoftStart, Step, Speeds
  <2> QED BY <2>1, NoJumpState DEF Speeds, bridgeVars
<1>2. CASE CarRecovered
  <2>1. /\ target_speed' \in Int /\ isr' = "idle"
        /\ UNCHANGED <<stored_speed_target, jump_state, elapsed, bridgeVars>>
    BY <1>2 DEF CarRecovered, SoftStart, Step, Speeds
  <2> QED BY <2>1 DEF Speeds, bridgeVars
<1>3. CASE CarUpright
  <2>1. /\ target_speed' \in Int /\ isr' = "nag"
        /\ UNCHANGED <<stored_speed_target, jump_state, elapsed, bridgeVars>>
    BY <1>3 DEF CarUpright, SoftStart, Step, Speeds
  <2> QED BY <2>1 DEF Speeds, bridgeVars
<1> QED BY <1>1, <1>2, <1>3

LEMMA BridgeInit == Init => BridgeInv
BY NoJumpState DEF Init, BridgeInv, Speeds, Limited

LEMMA BridgeNext ==
    ASSUME BridgeInv, RemoteInv, [Next]_vars
    PROVE  BridgeInv'
<1>1. Speeds /\ channel \in Channels
  BY DEF BridgeInv, RemoteInv, RemoteTypes
<1>2. ASSUME Speeds', isr' \in {"idle", "state", "nag", "stair", "bridge"}
      PROVE  BridgeInv'
  BY <1>2 DEF BridgeInv, Limited
<1>3. CASE TickBegin
  <2>1. /\ target_speed' \in Int /\ isr' \in {"idle", "state"}
        /\ UNCHANGED <<jumpVars, bridgeVars>>
    BY <1>1, <1>3 DEF TickBegin, Speeds
  <2> QED BY <1>1, <1>2, <2>1 DEF Speeds, jumpVars, bridgeVars
<1>4. CASE CarFallen \/ CarRecovered \/ CarUpright
  BY <1>1, <1>2, <1>4, CarSpeeds
<1>5. CASE NagStep
  <2>1. /\ target_speed' \in Int /\ isr' = "stair"
        /\ UNCHANGED <<jumpVars, bridgeVars>>
    BY <1>1, <1>5 DEF NagStep, Step, Speeds
  <2> QED BY <1>1, <1>2, <2>1 DEF Speeds, jumpVars, bridgeVars
<1>6. CASE StairService
  <2>1. isr' = "bridge" /\ UNCHANGED bridgeVars
    BY <1>6 DEF StairService, Step
  <2> QED BY <1>1, <1>2, <1>6, <2>1, StairSpeeds DEF Speeds, bridgeVars
<1>7. CASE MotorOutput
  <2>1. /\ target_speed' \in Int /\ isr' = "idle"
        /\ UNCHANGED <<jumpVars, bridgeVars>>
    BY <1>1, <1>7 DEF MotorOutput, OutputSpeed, Step, Speeds
  <2> QED BY <1>1, <1>2, <2>1 DEF Speeds, jumpVars, bridgeVars
<1>8. CASE Main \/ \E p \in Pages : MenuOpen(p)
  BY <1>1, <1>2, <1>8, MainSpeeds, MainKeepsRemote
<1>9. CASE UNCHANGED vars
  BY <1>9 DEF vars, jumpVars, bridgeVars, BridgeInv, Speeds, Limited, Jumping
<1> QED
  BY <1>1, <1>3, <1>4, <1>5, <1>6, <1>7, <1>8, <1>9,
     BridgeKeeps, SteerKeeps, StraightKeeps, RemoteLimits DEF Next, Tick

LEMMA BridgeStep ==
    ASSUME BridgeInv, [Next]_vars
    PROVE  isr = "output" /\ isr' = "idle" /\ bridge_state = "RUNNING"
               => Magnitude(demand') <= BridgeMaxSpeed
<1> SUFFICES ASSUME isr = "output", isr' = "idle", bridge_state = "RUNNING"
             PROVE  Magnitude(demand') <= BridgeMaxSpeed
  OBVIOUS
<1>1. target_speed \in -BridgeMaxSpeed .. BridgeMaxSpeed
  BY DEF BridgeInv, Limited
<1>2. MotorOutput
  <2>1. CASE Tick /\ ~RemoteUpdate
    BY <2>1, TickKeepsRemote DEF Inside, TickBegin, CarRecovered, Step
  <2>2. CASE RemoteUpdate
    BY <2>2 DEF RemoteUpdate, Step
  <2>3. CASE Main \/ \E p \in Pages : MenuOpen(p)
    BY <2>3, MainKeepsRemote
  <2>4. CASE UNCHANGED vars
    BY <2>4 DEF vars
  <2> QED BY <2>1, <2>2, <2>3, <2>4 DEF Next
<1>3. demand' \in {0, target_speed}
  BY <1>2 DEF MotorOutput, OutputSpeed
<1>4. \A v \in -BridgeMaxSpeed .. BridgeMaxSpeed : Magnitude(v) <= BridgeMaxSpeed
  BY DEF Magnitude, BridgeMaxSpeed
<1>5. 0 \in -BridgeMaxSpeed .. BridgeMaxSpeed
  BY DEF BridgeMaxSpeed
<1>6. demand' \in -BridgeMaxSpeed .. BridgeMaxSpeed
  BY <1>1, <1>3, <1>5
<1> QED BY <1>4, <1>6

(* On the bridge no manoeuvre, page, replay or stick asks the speed loop   *)
(* for more than the limit (One_bridge.c:212).                             *)
THEOREM DriveBridgeLimits == Spec => BridgeLimits
<1>1. Init => RemoteInv /\ BridgeInv
  BY RemoteInit, BridgeInit
<1>2. RemoteInv /\ BridgeInv /\ [Next]_vars => (RemoteInv /\ BridgeInv)'
  BY RemoteNext, BridgeNext
<1>3. RemoteInv /\ BridgeInv /\ [Next]_vars =>
          [isr = "output" /\ isr' = "idle" /\ bridge_state = "RUNNING"
               => Magnitude(demand') <= BridgeMaxSpeed]_vars
  BY BridgeStep
<1> QED BY <1>1, <1>2, <1>3, PTL DEF Spec, BridgeLimits
=============================================================================
