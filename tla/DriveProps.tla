----------------------------- MODULE DriveProps -----------------------------
(* What the drive promises. A tick is over, and its motor command is out,     *)
(* when isr is "idle".                                                        *)
EXTENDS Drive

Steps == {"idle", "state", "nag", "stair", "bridge", "steer", "straight",
          "remote", "output"}

\* Type correctness of the variables of the drive.
TypeOK ==
    /\ isr \in Steps
    /\ sys_times \in 0..FullPower /\ tilted \in BOOLEAN
    /\ startup_zero_ready \in BOOLEAN
    /\ target_speed \in Int /\ run_state \in {0, 1} /\ STOP_FLAG \in {0, 1}
    /\ fuxian \in {0, 1}
    /\ motors \in {"driven", "zero"} /\ demand \in Int
    /\ jump_state \in JumpStates /\ elapsed \in Nat /\ stored_speed_target \in Int
    /\ saved \in GainSets /\ live \in GainSets /\ cfg \in {"default", "stair"}
    /\ mode \in Modes /\ active \in BOOLEAN /\ phase \in StairPhases
    /\ phase_timer \in [Modes -> Nat] /\ jump_index \in Nat
    /\ jump_ok \in BOOLEAN /\ fail_reason \in Reasons /\ px_enable \in BOOLEAN
    /\ bridge_state \in {"IDLE", "RUNNING", "EXITING"}
    /\ side \in Sides \cup {"NONE"}
    /\ {entry_stable_count, exit_stable_count, bridge_elapsed, cooldown}
          \subseteq Nat
    /\ saved_speed_target \in Int
    /\ rotation_state \in {"IDLE", "RUNNING", "BRAKING", "DONE"}
    /\ rotation_elapsed \in Nat
    /\ straight_state \in {"IDLE", "LOCKING", "RUNNING", "DONE"}
    /\ detected \in BOOLEAN /\ online \in BOOLEAN /\ armed \in BOOLEAN
    /\ lost_count_ms \in Nat /\ channel \in Channels
    /\ action_switch_last \in BOOLEAN
    /\ nag \in {"idle", "record", "preload", "replay", "over"}
    /\ page \in AllPages \cup {"none"} /\ preempted \in Nat /\ was_active \in BOOLEAN
    /\ trigger_result \in {"OK", "BUSY", "NOT_RUNNING", "TILT"}
    /\ fell \in BOOLEAN /\ neutral \in BOOLEAN

---------------------------------------------------------------------------
(* The failsafe of the remote control.                                      *)

\* Once a transmitter has been seen, no tick ends with the motors driven unless
\* its link is up and its arming switch is on (Remote_ctrl.c:105-116), whatever
\* manoeuvre or page set STOP_FLAG earlier in that tick or between two ticks.
FailsafeStops ==
    isr = "idle" /\ detected /\ motors = "driven" => online /\ armed

\* After a lost link or a switched-off arm the motors stay off until a centred
\* stick was seen with the switch on (Remote_ctrl.c:118-126): neutral remembers
\* that one was, since the last forced stop.
NoRestartUncentred ==
    isr = "idle" /\ detected /\ motors = "driven" => neutral

\* With no manoeuvre under way the stick alone sets the speed, in the very tick
\* that reads it and over whatever the main loop stored since the last one
\* (Remote_ctrl.c:130-144 runs after every other writer of target_speed).
StickObeyed ==
    [][isr = "output" /\ isr' = "idle" /\ STOP_FLAG = 1 /\ online /\ armed
       /\ StickFree /\ sys_times = FullPower
       => demand' = channel.speed]_vars

\* The jump switch starts one jump per press: a jump the remote starts has the
\* switch up now and had it down when the armed car last looked, so that
\* neither a held switch nor a recovered link jumps (Remote_ctrl.c:150-161).
JumpOnPress ==
    [][isr = "remote" /\ ~Jumping /\ jump_state' = "PREPARE"
       => armed /\ neutral /\ ~channel.action /\ channel'.action]_vars

---------------------------------------------------------------------------
(* Balance: gains, the soft start, falls.                                   *)

\* Outside a jump, and with no page routine half done, the balance loops have
\* their configured rate gain and their integral and derivative back: a jump
\* takes them away and each of its ends gives them back (Body_ctrl.c:323-326,
\* 348-351 and 757-761).
GainsRestored ==
    ~Jumping /\ todo = <<>> =>
        live.rate_p = "nominal" /\ live.angle_id = "nominal"

\* While the soft start lasts no tick ends with a full balance or speed gain,
\* though a jump carries the gains of its trigger along and gives them back
\* (Body_ctrl.c:467-470, 484-509 and 757-761): a fall must end the jump before
\* the clock starts anew.
RampHoldsGains ==
    isr = "idle" /\ Settle < sys_times /\ sys_times < FullPower =>
        live.angle_p # "nominal" /\ live.speed_p # "nominal"

\* A car stood up after a fall is not driven before it went through the settle
\* time again: fell lasts from the fall to the end of that time (Body_ctrl.c:477-481).
RecoveryWaits == isr = "idle" /\ fell /\ ~tilted => motors = "zero"

---------------------------------------------------------------------------
(* Manoeuvres.                                                              *)

\* A jump ends, whatever starts, falls, losses and stops come meanwhile.
JumpEnds == Jumping ~> ~Jumping

\* A test started from its page ends and gives the car back. The single stair
\* is left out: its run-up waits for a distance that may never be covered
\* (Stair_test.c:462-471).
StairEnds == (active /\ mode # "single") ~> ~active

\* The stair parameters are taken back when the test that set them is over.
ParametersReturned == cfg = "stair" => active \/ todo # <<>>

\* The same where forced stops may fall into the opening of a sequence: the
\* parameters outlive the test only if its context was closed while the page
\* still filled it, and so is left in the phase of a jump (Stair_test.c:527-531).
OnlyOpeningKeeps ==
    cfg = "stair" => active \/ todo # <<>> \/ (mode = "seq" /\ phase = "JUMPING")

\* The jump machine always ends before the time a test gives it.
NoJumpTimeout == fail_reason # "JUMP_TO"

\* On the bridge the speed loop is never asked for more than the limit, though
\* the replay and the pages store their speeds at any time (One_bridge.c:212).
BridgeLimits ==
    [][isr = "output" /\ isr' = "idle" /\ bridge_state = "RUNNING"
       => Magnitude(demand') <= BridgeMaxSpeed]_vars

\* The bridge manoeuvre lets go of the car.
BridgeEnds == Bridging ~> ~Bridging

\* A rotation ends.
RotationEnds == Rotating ~> ~Rotating

\* The finished straight-line test leaves the motors off.
DoneStops == isr = "idle" /\ straight_state = "DONE" => motors = "zero"
=============================================================================
