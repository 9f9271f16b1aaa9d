------------------------------- MODULE Drive -------------------------------
(* pit_call_back of Body_ctrl.c composed with the menu pages of the main     *)
(* loop. The callback preempts the main loop between any two stores of a     *)
(* page's routine and is itself never preempted: its steps run in the order  *)
(* of the code, and the main loop goes on only when none is left.            *)
EXTENDS Remote

UserSpeed == 200

---------------------------------------------------------------------------
(* The timer callback: its first and last steps, and the path player's.      *)

\* Up to car_state_calculate: the clock, the posture, the mechanical match.
TickBegin ==
    LET t == IF sys_times < FullPower THEN sys_times + 1 ELSE sys_times
    IN /\ isr = "idle"
       /\ todo # <<>> => preempted < Preemptions
       /\ preempted' = IF todo # <<>> THEN preempted + 1 ELSE preempted
       /\ sys_times' = t
       /\ tilted' \in Tilts
       /\ fell' = (fell /\ t # Settle)
       /\ startup_zero_ready' = (startup_zero_ready \/ t >= Settle)
       /\ target_speed' = IF ~startup_zero_ready /\ t >= Settle THEN 0
                          ELSE target_speed
       /\ IF t <= Settle
          THEN isr' = "idle" /\ motors' = "zero" /\ demand' = 0
          ELSE isr' = "state" /\ UNCHANGED motorVars
       /\ UNCHANGED <<gateVars, jumpVars, cfg, stairVars, bridgeVars, rotationVars,
                      straight_state, remoteVars, nag, page, todo, was_active,
                      trigger_result, neutral>>

\* Nag_System: the replay may reach its end on any of its ticks (Nag_Run).
NagStep ==
    /\ Step("nag", "stair")
    /\ \/ UNCHANGED <<nag, target_speed, fuxian, STOP_FLAG>>
       \/ /\ nag = "replay"
          /\ nag' = "over"
          /\ target_speed' = 0 /\ fuxian' = 0 /\ STOP_FLAG' = 0
    /\ UNCHANGED <<clockVars, run_state, motorVars, jumpVars, cfg, stairVars,
                   bridgeVars, rotationVars, straight_state, remoteVars, mainVars,
                   seenVars>>

\* The speed target until the ramp ends.
OutputSpeed == IF sys_times < FullPower THEN 0 ELSE target_speed

\* Slip: the output step does not look at the flag.
OutputAlways == TRUE

\* Is the output step taken?
OutputOn == STOP_FLAG = 1

\* The end of pit_call_back: the ramp, the speed loop, body_motor_output_step.
MotorOutput ==
    /\ Step("output", "idle")
    /\ motors' = IF OutputOn THEN "driven" ELSE "zero"
    /\ demand' = IF SpeedLoopEnabled THEN OutputSpeed ELSE 0
    /\ IF OutputOn /\ Rotating
       THEN target_speed' = 0 /\ RotationRun
       ELSE target_speed' = OutputSpeed /\ UNCHANGED rotationVars
    /\ UNCHANGED <<clockVars, gateVars, jumpVars, cfg, stairVars, bridgeVars,
                   straight_state, remoteVars, nag, mainVars, seenVars>>

Tick == \/ TickBegin
        \/ CarFallen \/ CarRecovered \/ CarUpright
        \/ NagStep \/ StairService \/ BridgeService \/ SteerControl
        \/ StraightService \/ RemoteUpdate \/ MotorOutput

---------------------------------------------------------------------------
(* The main loop: a page's routine is the sequence of its stores.            *)

StairAbortOps == <<"abort_read", "abort_idle", "abort_restore", "stop_speed",
                   "px_off", "default_check", "default_params", "default_idle",
                   "ctx_off">>
AbortOps == <<"abort_read", "abort_idle", "abort_restore">>
DefaultOps == <<"default_check", "default_params", "default_idle">>
BeginOps == <<"ctx_active", "ctx_runup", "ctx_reset">>
TriggerOps == <<"trigger_check", "trigger_prepare", "trigger_save", "trigger_fix",
                "trigger_speed", "ctx_jumping">>

ReadyOps == <<"nag_replay", "fuxian_on", "user_speed">>
EmptyOps == <<"nag_over", "stop_speed", "fuxian_off", "stop_flag_off">>

\* fun_a31, fun_a33, fun_d31, fun_d32_stair_seq, fun_d33_stair_test,
\* fun_d34_jump_test and fun_d36_rotation on their first call.
PageOps == [p \in AllPages |->
    CASE p = "A1" -> <<"nag_record">>
      [] p = "A3" -> <<"nag_preload", "fuxian_off", "stop_speed">>
      [] p = "D1" -> <<"straight_idle", "straight_lock">>
      [] p = "D2" -> StairAbortOps \o BeginOps \o <<"stair_params", "stair_speed">>
                     \o TriggerOps
      [] p = "D3" -> StairAbortOps \o BeginOps \o <<"stop_speed", "px_on">>
      [] p = "D4" -> StairAbortOps \o DefaultOps \o BeginOps \o <<"jump_speed">>
      [] p = "D6" -> <<"bridge_off", "fuxian_off", "stop_speed", "run_state_on",
                       "stop_flag_on", "rotation_off", "rotation_start">>]

PageMode == [p \in AllPages |-> CASE p = "D2" -> "seq" [] p = "D3" -> "single"
                                  [] OTHER -> "jump"]

\* A page is opened; its routine starts in a later step.
MenuOpen(p) ==
    /\ isr = "idle" /\ todo = <<>>
    /\ PageChanges \/ page \in {"none", p}
    /\ page' = p
    /\ todo' = PageOps[p]
    /\ preempted' = 0
    /\ UNCHANGED <<isr, clockVars, target_speed, gateVars, motorVars, jumpVars, cfg,
                   stairVars, bridgeVars, rotationVars, straight_state, remoteVars,
                   nag, was_active, trigger_result, seenVars>>

\* Nag_Service copied the path (nag_finish_flash_read) or found none.
NagLoaded ==
    /\ isr = "idle" /\ todo = <<>> /\ nag = "preload"
    /\ todo' \in {ReadyOps, EmptyOps}
    /\ preempted' = 0
    /\ UNCHANGED <<isr, clockVars, target_speed, gateVars, motorVars, jumpVars, cfg,
                   stairVars, bridgeVars, rotationVars, straight_state, remoteVars,
                   nag, page, was_active, trigger_result, seenVars>>

\* The open rotation page sees the rotation done.
RotationSeen ==
    /\ isr = "idle" /\ todo = <<>> /\ page = "D6" /\ rotation_state = "DONE"
    /\ todo' = <<"stop_speed", "rotation_off">>
    /\ page' = "none"
    /\ preempted' = 0
    /\ UNCHANGED <<isr, clockVars, target_speed, gateVars, motorVars, jumpVars, cfg,
                   stairVars, bridgeVars, rotationVars, straight_state, remoteVars,
                   nag, was_active, trigger_result, seenVars>>

---------------------------------------------------------------------------
(* The stores. Each is a step of the main loop, a tick may fall before it.   *)

SpeedStores == [stop_speed |-> 0, user_speed |-> UserSpeed,
                stair_speed |-> StairRunupSpeed, jump_speed |-> JumpRunupSpeed]
FuxianStores == [fuxian_on |-> 1, fuxian_off |-> 0]
StopFlagStores == [stop_flag_on |-> 1, stop_flag_off |-> 0]
RunStateStores == [run_state_on |-> 1]
NagStores == [nag_record |-> "record", nag_preload |-> "preload",
              nag_replay |-> "replay", nag_over |-> "over"]
StraightStores == [straight_idle |-> "IDLE", straight_lock |-> "LOCKING"]

\* The value a store of this kind leaves, old when the store is of another.
Stored(stores, old) ==
    IF Head(todo) \in DOMAIN stores THEN stores[Head(todo)] ELSE old

At(names) == isr = "idle" /\ todo # <<>> /\ Head(todo) \in names
Done == todo' = Tail(todo)
untouchedByMain == <<isr, clockVars, motorVars, remoteVars, page, preempted, seenVars>>

StoreFlags ==
    /\ At(DOMAIN SpeedStores \cup DOMAIN FuxianStores \cup DOMAIN StopFlagStores
          \cup DOMAIN RunStateStores \cup DOMAIN NagStores
          \cup DOMAIN StraightStores)
    /\ target_speed' = Stored(SpeedStores, target_speed)
    /\ fuxian' = Stored(FuxianStores, fuxian)
    /\ STOP_FLAG' = Stored(StopFlagStores, STOP_FLAG)
    /\ run_state' = Stored(RunStateStores, run_state)
    /\ nag' = Stored(NagStores, nag)
    /\ straight_state' = Stored(StraightStores, straight_state)
    /\ Done
    /\ UNCHANGED <<untouchedByMain, jumpVars, cfg, stairVars, bridgeVars,
                   rotationVars, was_active, trigger_result>>

\* jump_abort in the main loop.
AbortStores ==
    /\ \/ /\ At({"abort_read"})
          /\ was_active' = Jumping
          /\ UNCHANGED <<jumpVars, target_speed>>
       \/ /\ At({"abort_idle"})
          /\ jump_state' = "IDLE" /\ elapsed' = 0
          /\ UNCHANGED <<stored_speed_target, saved, live, target_speed, was_active>>
       \/ /\ At({"abort_restore"})
          /\ live' = IF was_active THEN saved ELSE live
          /\ target_speed' = IF was_active THEN 0 ELSE target_speed
          /\ UNCHANGED <<jump_state, elapsed, stored_speed_target, saved, was_active>>
    /\ Done
    /\ UNCHANGED <<untouchedByMain, gateVars, cfg, stairVars, bridgeVars,
                   rotationVars, straight_state, nag, trigger_result>>

\* jump_config_default in the main loop; it aborts a jump it sees first.
DefaultStores ==
    /\ \/ /\ At({"default_check"})
          /\ todo' = IF Jumping THEN AbortOps \o Tail(todo) ELSE Tail(todo)
          /\ UNCHANGED <<jump_state, elapsed, cfg>>
       \/ /\ At({"default_params", "stair_params"})
          /\ cfg' = IF Head(todo) = "stair_params" THEN "stair" ELSE "default"
          /\ Done
          /\ UNCHANGED <<jump_state, elapsed>>
       \/ /\ At({"default_idle"})
          /\ jump_state' = "IDLE" /\ elapsed' = 0
          /\ Done
          /\ UNCHANGED cfg
    /\ UNCHANGED <<untouchedByMain, target_speed, gateVars, stored_speed_target,
                   saved, live, stairVars, bridgeVars, rotationVars, straight_state,
                   nag, was_active, trigger_result>>

\* The context: the end of stair_abort, stair_ctx_begin, stair_px_set_target.
ContextStores ==
    /\ \/ /\ At({"ctx_off"})
          /\ active' = FALSE /\ phase' = "DONE"
          /\ UNCHANGED <<mode, phase_timer, jump_index, jump_ok, fail_reason,
                         px_enable>>
       \/ /\ At({"ctx_active"})
          /\ active' = TRUE /\ mode' = PageMode[page]
          /\ UNCHANGED <<phase, phase_timer, jump_index, jump_ok, fail_reason,
                         px_enable>>
       \/ /\ At({"ctx_runup"})
          /\ phase' = "RUNUP"
          /\ UNCHANGED <<mode, active, phase_timer, jump_index, jump_ok, fail_reason,
                         px_enable>>
       \/ /\ At({"ctx_reset"})
          /\ SetTimer(0)
          /\ jump_index' = 0 /\ jump_ok' = FALSE /\ fail_reason' = "NONE"
          /\ px_enable' = FALSE
          /\ UNCHANGED <<mode, active, phase>>
       \/ /\ At({"px_on", "px_off"})
          /\ px_enable' = (Head(todo) = "px_on")
          /\ UNCHANGED <<mode, active, phase, phase_timer, jump_index, jump_ok,
                         fail_reason>>
    /\ Done
    /\ UNCHANGED <<untouchedByMain, target_speed, gateVars, jumpVars, cfg, bridgeVars,
                   rotationVars, straight_state, nag, was_active, trigger_result>>

\* stair_trigger_jump in the main loop, jump_trigger store by store.
TriggerStores ==
    /\ \/ /\ At({"trigger_check"})
          /\ trigger_result' = TriggerResult
          /\ todo' = IF TriggerResult = "OK" THEN Tail(todo) ELSE <<"ctx_jumping">>
          /\ UNCHANGED <<jumpVars, target_speed, stairVars>>
       \/ /\ At({"trigger_prepare"})
          /\ jump_state' = "PREPARE" /\ elapsed' = 0
          /\ Done
          /\ UNCHANGED <<stored_speed_target, saved, live, target_speed, stairVars,
                         trigger_result>>
       \/ /\ At({"trigger_save"})
          /\ saved' = live /\ stored_speed_target' = target_speed
          /\ Done
          /\ UNCHANGED <<jump_state, elapsed, live, target_speed, stairVars,
                         trigger_result>>
       \/ /\ At({"trigger_fix"})
          /\ live' = FixedGains(saved)
          /\ Done
          /\ UNCHANGED <<jump_state, elapsed, stored_speed_target, saved,
                         target_speed, stairVars, trigger_result>>
       \/ /\ At({"trigger_speed"})
          /\ target_speed' = stored_speed_target
          /\ Done
          /\ UNCHANGED <<jumpVars, stairVars, trigger_result>>
       \/ /\ At({"ctx_jumping"})
          /\ phase' = "JUMPING" /\ SetTimer(0)
          /\ jump_ok' = (trigger_result = "OK")
          /\ fail_reason' = IF trigger_result = "OK" THEN "NONE" ELSE "TRIGGER"
          /\ target_speed' = IF trigger_result = "OK" THEN target_speed ELSE 0
          /\ Done
          /\ UNCHANGED <<jumpVars, mode, active, jump_index, px_enable,
                         trigger_result>>
    /\ UNCHANGED <<untouchedByMain, gateVars, cfg, bridgeVars, rotationVars,
                   straight_state, nag, was_active>>

\* The rotation page: one_bridge_abort, rotation_stop, rotation_start_turns.
RotationStores ==
    /\ \/ /\ At({"bridge_off"})
          /\ IF Bridging THEN BridgeAbort ELSE UNCHANGED bridgeVars
          /\ UNCHANGED rotationVars
       \/ /\ At({"rotation_off"})
          /\ RotationStop
          /\ UNCHANGED bridgeVars
       \/ /\ At({"rotation_start"})
          /\ rotation_state' = "RUNNING" /\ rotation_elapsed' = 0
          /\ UNCHANGED bridgeVars
    /\ Done
    /\ UNCHANGED <<untouchedByMain, target_speed, gateVars, jumpVars, cfg, stairVars,
                   straight_state, nag, was_active, trigger_result>>

MainStep == \/ StoreFlags \/ AbortStores \/ DefaultStores \/ ContextStores
            \/ TriggerStores \/ RotationStores

Main == NagLoaded \/ RotationSeen \/ MainStep

---------------------------------------------------------------------------
Init ==
    /\ isr = "idle"
    /\ sys_times = 0 /\ tilted \in Tilts /\ startup_zero_ready = FALSE
    /\ target_speed = 0 /\ run_state = 1 /\ STOP_FLAG = 1 /\ fuxian = 0
    /\ motors = "zero" /\ demand = 0
    /\ jump_state = "IDLE" /\ elapsed = 0 /\ stored_speed_target = 0
    /\ saved = ZeroGains /\ live = NominalGains /\ cfg = "default"
    /\ mode = "jump" /\ active = FALSE /\ phase = "RUNUP"
    /\ phase_timer = [m \in Modes |-> 0]
    /\ jump_index = 0 /\ jump_ok = FALSE /\ fail_reason = "NONE"
    /\ px_enable = FALSE
    /\ bridge_state = "IDLE" /\ side = "NONE" /\ entry_stable_count = 0
    /\ exit_stable_count = 0 /\ bridge_elapsed = 0 /\ cooldown = 0
    /\ saved_speed_target = 0
    /\ rotation_state = "IDLE" /\ rotation_elapsed = 0
    /\ straight_state = "IDLE"
    /\ detected = FALSE /\ online = FALSE /\ armed = FALSE /\ lost_count_ms = 0
    /\ channel = Centred /\ action_switch_last = TRUE
    /\ nag = "idle"
    /\ page = "none" /\ todo = <<>> /\ preempted = 0 /\ was_active = FALSE /\ trigger_result = "OK"
    /\ fell = FALSE /\ neutral = FALSE

Next == Tick \/ Main \/ \E p \in Pages : MenuOpen(p)

Spec == Init /\ [][Next]_vars

\* The timer never stops, and between two ticks the main loop goes on.
FairSpec == Spec /\ WF_vars(Tick) /\ SF_vars(Main)
===========================================================================
