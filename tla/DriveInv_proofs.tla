--------------------------- MODULE DriveInv_proofs ---------------------------
(***************************************************************************)
(* The invariants of the drive that couple the timer callback with what is *)
(* left of a page's routine in the main loop.                              *)
(***************************************************************************)
EXTENDS Drive_proofs, DriveHistory

---------------------------------------------------------------------------
(* What is left of a page's routine.                                       *)

\* The callback finds the routine and leaves it as it is; it counts itself
\* when it falls inside one.
LEMMA TickKeepsRoutine ==
    ASSUME Tick
    PROVE  /\ UNCHANGED <<page, todo, was_active, trigger_result>>
           /\ preempted' = preempted \/ TickBegin
<1>1. CASE TickBegin
  BY <1>1 DEF TickBegin
<1>2. CASE CarFallen \/ CarRecovered \/ CarUpright
  BY <1>2 DEF CarFallen, CarRecovered, CarUpright, mainVars
<1>3. CASE NagStep \/ StairService \/ BridgeService
  BY <1>3 DEF NagStep, StairService, BridgeService, mainVars
<1>4. CASE SteerControl \/ StraightService \/ RemoteUpdate \/ MotorOutput
  BY <1>4 DEF SteerControl, StraightService, RemoteUpdate, MotorOutput, mainVars
<1> QED BY <1>1, <1>2, <1>3, <1>4 DEF Tick

\* A store takes itself off the routine. Two checks change what follows them,
\* and a routine begins when none is under way.
LEMMA MainRoutine ==
    ASSUME Main \/ \E p \in Pages : MenuOpen(p)
    PROVE  \/ todo # <<>> /\ todo' = Tail(todo)
           \/ /\ todo # <<>> /\ Head(todo) = "default_check"
              /\ todo' = AbortOps \o Tail(todo)
           \/ /\ todo # <<>> /\ Head(todo) = "trigger_check"
              /\ todo' = <<"ctx_jumping">>
           \/ /\ todo = <<>>
              /\ todo' \in {ReadyOps, EmptyOps, <<"stop_speed", "rotation_off">>}
           \/ todo = <<>> /\ \E p \in Pages : page' = p /\ todo' = PageOps[p]
<1>1. CASE NagLoaded
  BY <1>1 DEF NagLoaded
<1>2. CASE RotationSeen
  BY <1>2 DEF RotationSeen
<1>3. CASE StoreFlags
  BY <1>3 DEF StoreFlags, At, Done
<1>4. CASE AbortStores
  BY <1>4 DEF AbortStores, At, Done
<1>5. CASE DefaultStores
  BY <1>5 DEF DefaultStores, At, Done
<1>6. CASE ContextStores
  BY <1>6 DEF ContextStores, At, Done
<1>7. CASE TriggerStores
  BY <1>7 DEF TriggerStores, At, Done
<1>8. CASE RotationStores
  BY <1>8 DEF RotationStores, At, Done
<1>9. ASSUME NEW p \in Pages, MenuOpen(p)
      PROVE  todo = <<>> /\ page' = p /\ todo' = PageOps[p]
  BY <1>9 DEF MenuOpen
<1> QED BY <1>1, <1>2, <1>3, <1>4, <1>5, <1>6, <1>7, <1>8, <1>9 DEF Main, MainStep

\* The stores that do not come from a page of their own.
CommonOps == {"nag_replay", "fuxian_on", "user_speed", "nag_over", "stop_speed",
              "fuxian_off", "stop_flag_off", "rotation_off"}

\* A set of stores the open pages stay within is one the routine stays within.
Within(A) ==
    /\ CommonOps \subseteq A
    /\ \A p \in Pages : PageOps[p] \in Seq(A)
    /\ "default_check" \in A => {"abort_read", "abort_idle", "abort_restore"} \subseteq A
    /\ "trigger_check" \in A => "ctx_jumping" \in A

LEMMA RoutineWithin ==
    ASSUME NEW A, Within(A), todo \in Seq(A), [Next]_vars
    PROVE  todo' \in Seq(A)
<1>1. CASE UNCHANGED todo
  BY <1>1
<1>2. CASE Main \/ \E p \in Pages : MenuOpen(p)
  <2>1. CASE todo # <<>> /\ todo' = Tail(todo)
    BY <2>1
  <2>2. CASE todo # <<>> /\ Head(todo) = "default_check"
             /\ todo' = AbortOps \o Tail(todo)
    <3>1. Head(todo) \in A /\ Tail(todo) \in Seq(A)
      BY <2>2
    <3>2. AbortOps \in Seq(A)
      BY <2>2, <3>1 DEF Within, AbortOps
    <3> QED BY <2>2, <3>1, <3>2
  <2>3. CASE todo # <<>> /\ Head(todo) = "trigger_check" /\ todo' = <<"ctx_jumping">>
    <3>1. "ctx_jumping" \in A
      BY <2>3 DEF Within
    <3> QED BY <2>3, <3>1
  <2>4. CASE todo' \in {ReadyOps, EmptyOps, <<"stop_speed", "rotation_off">>}
    <3>1. ReadyOps \in Seq(A) /\ EmptyOps \in Seq(A)
      BY DEF Within, CommonOps, ReadyOps, EmptyOps
    <3>2. <<"stop_speed", "rotation_off">> \in Seq(A)
      BY DEF Within, CommonOps
    <3> QED BY <2>4, <3>1, <3>2
  <2>5. CASE \E p \in Pages : todo' = PageOps[p]
    BY <2>5 DEF Within
  <2> QED BY <1>2, <2>1, <2>2, <2>3, <2>4, <2>5, MainRoutine
<1>3. CASE Tick
  BY <1>1, <1>3, TickKeepsRoutine
<1>4. CASE UNCHANGED vars
  BY <1>1, <1>4 DEF vars, mainVars
<1> QED BY <1>2, <1>3, <1>4 DEF Next

\* The routines of the pages, store by store.
LEMMA PageRoutines ==
    ASSUME NEW A,
           {"nag_record", "nag_preload", "fuxian_off", "stop_speed",
            "straight_idle", "straight_lock"} \subseteq A
    PROVE  \A p \in {"A1", "A3", "D1"} : PageOps[p] \in Seq(A)
<1>1. /\ PageOps["A1"] = <<"nag_record">>
      /\ PageOps["A3"] = <<"nag_preload", "fuxian_off", "stop_speed">>
      /\ PageOps["D1"] = <<"straight_idle", "straight_lock">>
  BY DEF PageOps, AllPages
<1>2. /\ <<"nag_record">> \in Seq(A) /\ <<"straight_idle", "straight_lock">> \in Seq(A)
      /\ <<"nag_preload", "fuxian_off", "stop_speed">> \in Seq(A)
  OBVIOUS
<1> QED BY <1>1, <1>2

LEMMA RotationRoutine ==
    ASSUME NEW A,
           {"bridge_off", "fuxian_off", "stop_speed", "run_state_on",
            "stop_flag_on", "rotation_off", "rotation_start"} \subseteq A
    PROVE  PageOps["D6"] \in Seq(A)
<1>1. PageOps["D6"] = <<"bridge_off", "fuxian_off", "stop_speed", "run_state_on",
                        "stop_flag_on", "rotation_off", "rotation_start">>
  BY DEF PageOps, AllPages
<1> QED BY <1>1

Abortings == {"abort_read", "abort_idle", "abort_restore", "stop_speed", "px_off",
              "default_check", "default_params", "default_idle"}

LEMMA JumpRoutine ==
    ASSUME NEW A,
           Abortings \cup {"ctx_off", "ctx_active", "ctx_runup", "ctx_reset",
                           "jump_speed"} \subseteq A
    PROVE  PageOps["D4"] \in Seq(A)
<1>1. PageOps["D4"] = StairAbortOps \o DefaultOps \o BeginOps \o <<"jump_speed">>
  BY DEF PageOps, AllPages
<1>2. StairAbortOps \in Seq(A) /\ DefaultOps \in Seq(A)
  BY DEF StairAbortOps, DefaultOps, Abortings
<1>3. BeginOps \in Seq(A) /\ <<"jump_speed">> \in Seq(A)
  BY DEF BeginOps
<1> QED BY <1>1, <1>2, <1>3

LEMMA SingleRoutine ==
    ASSUME NEW A,
           Abortings \cup {"ctx_off", "ctx_active", "ctx_runup", "ctx_reset",
                           "px_on"} \subseteq A
    PROVE  PageOps["D3"] \in Seq(A)
<1>1. PageOps["D3"] = StairAbortOps \o BeginOps \o <<"stop_speed", "px_on">>
  BY DEF PageOps, AllPages
<1>2. StairAbortOps \in Seq(A)
  BY DEF StairAbortOps, Abortings
<1>3. BeginOps \in Seq(A) /\ <<"stop_speed", "px_on">> \in Seq(A)
  BY DEF BeginOps, Abortings
<1> QED BY <1>1, <1>2, <1>3

LEMMA SequenceRoutine ==
    ASSUME NEW A,
           Abortings \cup {"ctx_off", "ctx_active", "ctx_runup", "ctx_reset",
                           "stair_params", "stair_speed", "trigger_check",
                           "trigger_prepare", "trigger_save", "trigger_fix",
                           "trigger_speed", "ctx_jumping"} \subseteq A
    PROVE  PageOps["D2"] \in Seq(A)
<1>1. PageOps["D2"] = StairAbortOps \o BeginOps \o <<"stair_params", "stair_speed">>
                      \o TriggerOps
  BY DEF PageOps, AllPages
<1>2. StairAbortOps \in Seq(A)
  BY DEF StairAbortOps, Abortings
<1>3. BeginOps \in Seq(A) /\ <<"stair_params", "stair_speed">> \in Seq(A)
  BY DEF BeginOps
<1>4. TriggerOps \in Seq(A)
  BY DEF TriggerOps
<1> QED BY <1>1, <1>2, <1>3, <1>4

\* The stores of all pages but the two flags that only the rotation page sets.
StoreOps == CommonOps \cup Abortings \cup
    {"nag_record", "nag_preload", "straight_idle", "straight_lock",
     "ctx_off", "ctx_active", "ctx_runup", "ctx_reset", "px_on", "jump_speed",
     "stair_params", "stair_speed", "trigger_check", "trigger_prepare",
     "trigger_save", "trigger_fix", "trigger_speed", "ctx_jumping",
     "bridge_off", "rotation_start"}

LEMMA StoresWithin ==
    ASSUME "D6" \notin Pages
    PROVE  Within(StoreOps)
<1>1. Pages \subseteq {"A1", "A3", "D1"} \cup {"D2", "D3", "D4"}
  BY InputsAssumption DEF InputsAssumption, AllPages
<1>2. \A p \in {"A1", "A3", "D1"} : PageOps[p] \in Seq(StoreOps)
  BY PageRoutines DEF StoreOps, CommonOps
<1>3. PageOps["D2"] \in Seq(StoreOps)
  BY SequenceRoutine DEF StoreOps
<1>4. PageOps["D3"] \in Seq(StoreOps)
  BY SingleRoutine DEF StoreOps
<1>5. PageOps["D4"] \in Seq(StoreOps)
  BY JumpRoutine DEF StoreOps
<1>6. /\ CommonOps \subseteq StoreOps /\ "ctx_jumping" \in StoreOps
      /\ {"abort_read", "abort_idle", "abort_restore"} \subseteq StoreOps
  BY DEF StoreOps, Abortings
<1>7. \A p \in Pages : PageOps[p] \in Seq(StoreOps)
  BY <1>1, <1>2, <1>3, <1>4, <1>5
<1> QED BY <1>6, <1>7 DEF Within

\* What the main loop does to the flags of the output stage, to the state of
\* the straight-line test and to what is observed of falls.
LEMMA MainFlags ==
    ASSUME Main \/ \E p \in Pages : MenuOpen(p)
    PROVE  /\ fell' = fell
           /\ run_state' = run_state \/ (todo # <<>> /\ Head(todo) = "run_state_on")
           /\ \/ STOP_FLAG' \in {STOP_FLAG, 0}
              \/ todo # <<>> /\ Head(todo) = "stop_flag_on"
           /\ straight_state' \in {straight_state, "IDLE", "LOCKING"}
<1>1. CASE NagLoaded \/ RotationSeen
  BY <1>1 DEF NagLoaded, RotationSeen, gateVars, seenVars
<1>2. CASE StoreFlags
  <2>1. /\ todo # <<>> /\ fell' = fell
        /\ run_state' = Stored(RunStateStores, run_state)
        /\ STOP_FLAG' = Stored(StopFlagStores, STOP_FLAG)
        /\ straight_state' = Stored(StraightStores, straight_state)
    BY <1>2 DEF StoreFlags, At, untouchedByMain, seenVars
  <2> QED
    BY <2>1 DEF Stored, RunStateStores, StopFlagStores, StraightStores
<1>3. CASE AbortStores \/ DefaultStores \/ ContextStores
  BY <1>3 DEF AbortStores, DefaultStores, ContextStores, untouchedByMain, gateVars,
              seenVars
<1>4. CASE TriggerStores \/ RotationStores
  BY <1>4 DEF TriggerStores, RotationStores, untouchedByMain, gateVars, seenVars
<1>5. ASSUME NEW p \in Pages, MenuOpen(p)
      PROVE  UNCHANGED <<fell, run_state, STOP_FLAG, straight_state>>
  BY <1>5 DEF MenuOpen, gateVars, seenVars
<1> QED BY <1>1, <1>2, <1>3, <1>4, <1>5 DEF Main, MainStep

---------------------------------------------------------------------------
(* Falls.                                                                  *)

\* After a fall the car is either in the settle time of its restart, with the
\* motors off, or lies: from its tilt test to the next one it is known to.
RecoveryInv ==
    /\ todo \in Seq(StoreOps)
    /\ sys_times \in Nat
    /\ isr # "idle" => sys_times > Settle
    /\ fell => \/ isr = "idle" /\ sys_times < Settle /\ motors = "zero"
               \/ /\ run_state = 0 /\ sys_times > Settle
                  /\ isr # "state" => tilted

LEMMA Bounds == Settle \in Nat /\ Settle > 0 /\ FullPower \in Nat /\ FullPower > Settle
BY SettleAssumption DEF SettleAssumption, FullPower

LEMMA RecoveryInit == Init => RecoveryInv
BY DEF Init, RecoveryInv

LEMMA RecoveryNext ==
    ASSUME "D6" \notin Pages, RecoveryInv, [Next]_vars
    PROVE  RecoveryInv'
<1>1. todo' \in Seq(StoreOps)
  BY StoresWithin, RoutineWithin DEF RecoveryInv
<1>2. CASE TickBegin
  <2> DEFINE t == IF sys_times < FullPower THEN sys_times + 1 ELSE sys_times
  <2>1. /\ isr = "idle" /\ sys_times' = t /\ run_state' = run_state
        /\ fell' => fell /\ t # Settle
        /\ t <= Settle => isr' = "idle" /\ motors' = "zero"
        /\ t > Settle => isr' = "state"
    <3>1. isr = "idle" /\ sys_times' = t /\ run_state' = run_state
      BY <1>2 DEF TickBegin, gateVars
    <3>2. fell' = (fell /\ t # Settle)
      BY <1>2 DEF TickBegin
    <3>3. IF t <= Settle THEN isr' = "idle" /\ motors' = "zero" /\ demand' = 0
                         ELSE isr' = "state" /\ UNCHANGED motorVars
      BY <1>2 DEF TickBegin
    <3>4. t \in Nat
      BY DEF RecoveryInv
    <3> HIDE DEF t
    <3>5. fell' => fell /\ t # Settle
      BY <3>2
    <3> QED BY <3>1, <3>3, <3>4, <3>5, Bounds
  <2>2. t \in Nat /\ (sys_times < Settle => t <= Settle) /\ (sys_times > Settle => t > Settle)
    BY Bounds DEF RecoveryInv
  <2> HIDE DEF t
  <2> QED BY <1>1, <2>1, <2>2, Bounds DEF RecoveryInv
<1>3. CASE CarRecovered
  <2>1. isr' = "idle" /\ sys_times' = 0 /\ motors' = "zero"
    BY <1>3 DEF CarRecovered, Step, RestartClock
  <2> QED BY <1>1, <2>1, Bounds DEF RecoveryInv
<1>4. CASE CarFallen
  <2>1. /\ isr = "state" /\ isr' = "nag" /\ run_state' = 0 /\ tilted
        /\ UNCHANGED <<sys_times, tilted>>
    BY <1>4 DEF CarFallen, Step, clockVars
  <2> QED BY <1>1, <2>1 DEF RecoveryInv
<1>5. CASE CarUpright
  <2>1. /\ isr = "state" /\ isr' = "nag" /\ run_state = 1
        /\ UNCHANGED <<sys_times, fell>>
    BY <1>5 DEF CarUpright, Step, clockVars, seenVars
  <2> QED BY <1>1, <2>1 DEF RecoveryInv
<1>6. CASE Tick /\ isr \notin {"idle", "state"} /\ UNCHANGED <<sys_times, tilted, run_state, fell>>
           /\ isr' # "state"
  BY <1>1, <1>6 DEF RecoveryInv
<1>7. CASE NagStep \/ StairService \/ BridgeService \/ SteerControl
  <2>1. /\ isr \notin {"idle", "state"} /\ isr' # "state"
        /\ UNCHANGED <<sys_times, tilted, run_state, fell>>
    BY <1>7 DEF NagStep, StairService, BridgeService, SteerControl, Step, clockVars,
                gateVars, seenVars
  <2> QED BY <1>6, <1>7, <2>1 DEF Tick
<1>8. CASE StraightService \/ RemoteUpdate \/ MotorOutput
  <2>1. /\ isr \notin {"idle", "state"} /\ isr' # "state"
        /\ UNCHANGED <<sys_times, tilted, run_state, fell>>
    BY <1>8 DEF StraightService, RemoteUpdate, MotorOutput, Step, clockVars,
                gateVars, seenVars
  <2> QED BY <1>6, <1>8, <2>1 DEF Tick
<1>9. CASE Main \/ \E p \in Pages : MenuOpen(p)
  <2>1. isr = "idle" /\ UNCHANGED <<isr, sys_times, tilted, motors>>
    BY <1>9, MainKeepsRemote DEF clockVars, motorVars
  <2>2. todo # <<>> => Head(todo) # "run_state_on"
    <3>1. "run_state_on" \notin StoreOps
      BY DEF StoreOps, CommonOps, Abortings
    <3> QED BY <3>1 DEF RecoveryInv
  <2>3. UNCHANGED <<run_state, fell>>
    BY <1>9, <2>2, MainFlags
  <2> QED BY <1>1, <2>1, <2>3 DEF RecoveryInv
<1>10. CASE UNCHANGED vars
  BY <1>1, <1>10 DEF RecoveryInv, vars, clockVars, gateVars, motorVars, seenVars
<1> QED BY <1>2, <1>3, <1>4, <1>5, <1>7, <1>8, <1>9, <1>10 DEF Next, Tick

(* A car stood up after a fall is not driven before its settle time is over *)
(* (Body_ctrl.c:477-481). The rotation page has to be closed: it stores      *)
(* run_state = 1 over a fall (Menu.c), and the car that stands up then is    *)
(* driven at once.                                                           *)
THEOREM DriveRecoveryWaits == "D6" \notin Pages /\ Spec => []RecoveryWaits
<1>1. RecoveryInv => RecoveryWaits
  BY DEF RecoveryInv, RecoveryWaits
<1> SUFFICES ASSUME "D6" \notin Pages
             PROVE  Spec => []RecoveryWaits
  OBVIOUS
<1>2. RecoveryInv /\ [Next]_vars => RecoveryInv'
  BY RecoveryNext
<1> QED BY <1>1, <1>2, RecoveryInit, PTL DEF Spec

---------------------------------------------------------------------------
(* The end of the straight-line test.                                      *)

\* While no transmitter is known the finished test keeps the flag of the
\* output stage down, and from the end of its tick on the motors are off.
DoneInv ==
    /\ todo \in Seq(StoreOps)
    /\ Frames = {} => ~detected
    /\ straight_state = "DONE" /\ ~detected =>
           STOP_FLAG = 0 /\ (isr = "idle" => motors = "zero")

LEMMA DoneInit == Init => DoneInv
BY DEF Init, DoneInv

\* What the receiver's step does before a transmitter is known.
LEMMA UnknownRemote ==
    ASSUME RemoteUpdate
    PROVE  /\ isr' = "output" /\ UNCHANGED straight_state
           /\ Frames = {} => detected' = detected
           /\ ~detected' => ~detected /\ STOP_FLAG' = STOP_FLAG
<1>1. isr' = "output" /\ UNCHANGED straight_state
  BY DEF RemoteUpdate, Step
<1>2. ASSUME NEW f \in Frames, Decide(f.ch, f.on, TRUE, 0)
      PROVE  detected' /\ Frames # {}
  BY <1>2 DEF Decide
<1>3. ASSUME NEW lost, Decide(channel, online, detected, lost)
      PROVE  detected' = detected /\ (~detected => STOP_FLAG' = STOP_FLAG)
  BY <1>3 DEF Decide, Unarmed
<1>4. \/ \E f \in Frames : Decide(f.ch, f.on, TRUE, 0)
      \/ \E lost : Decide(channel, online, detected, lost)
  BY DEF RemoteUpdate
<1>5. CASE \E f \in Frames : Decide(f.ch, f.on, TRUE, 0)
  BY <1>1, <1>2, <1>5
<1>6. CASE \E lost : Decide(channel, online, detected, lost)
  BY <1>1, <1>3, <1>6
<1> QED BY <1>4, <1>5, <1>6

LEMMA DoneNext ==
    ASSUME "D6" \notin Pages, DoneInv, [Next]_vars
    PROVE  DoneInv'
<1>1. todo' \in Seq(StoreOps)
  BY StoresWithin, RoutineWithin DEF DoneInv
<1>2. CASE RemoteUpdate
  BY <1>1, <1>2, UnknownRemote DEF DoneInv
<1>3. CASE TickBegin \/ CarRecovered
  <2>1. /\ UNCHANGED <<STOP_FLAG, straight_state, detected>>
        /\ isr' = "idle" => motors' = "zero"
    BY <1>3 DEF TickBegin, CarRecovered, Step, gateVars, remoteVars
  <2> QED BY <1>1, <2>1 DEF DoneInv
<1>4. CASE MotorOutput
  <2>1. /\ UNCHANGED <<STOP_FLAG, straight_state, detected>>
        /\ STOP_FLAG = 0 => motors' = "zero"
    BY <1>4 DEF MotorOutput, OutputOn, gateVars, remoteVars
  <2> QED BY <1>1, <2>1 DEF DoneInv
<1>5. CASE StraightService
  <2>1. /\ isr' = "remote" /\ UNCHANGED detected
        /\ straight_state' = "DONE" =>
               \/ STOP_FLAG' = 0
               \/ straight_state = "DONE" /\ UNCHANGED STOP_FLAG
    BY <1>5 DEF StraightService, StraightLocked, StraightRunning, LineStop, Step,
                remoteVars
  <2> QED BY <1>1, <2>1 DEF DoneInv
<1>6. CASE CarFallen \/ CarUpright \/ NagStep
  <2>1. /\ isr' # "idle" /\ UNCHANGED <<straight_state, detected>>
        /\ STOP_FLAG' \in {STOP_FLAG, 0}
    BY <1>6 DEF CarFallen, CarUpright, NagStep, Step, gateVars, remoteVars
  <2> QED BY <1>1, <2>1 DEF DoneInv
<1>7. CASE StairService \/ BridgeService \/ SteerControl
  <2>1. isr' # "idle" /\ UNCHANGED <<straight_state, detected, STOP_FLAG>>
    BY <1>7 DEF StairService, BridgeService, SteerControl, Step, gateVars, remoteVars
  <2> QED BY <1>1, <2>1 DEF DoneInv
<1>8. CASE Main \/ \E p \in Pages : MenuOpen(p)
  <2>1. isr = "idle" /\ UNCHANGED <<isr, motors, detected>>
    BY <1>8, MainKeepsRemote DEF motorVars, remoteVars
  <2>2. todo # <<>> => Head(todo) # "stop_flag_on"
    <3>1. "stop_flag_on" \notin StoreOps
      BY DEF StoreOps, CommonOps, Abortings
    <3> QED BY <3>1 DEF DoneInv
  <2>3. /\ STOP_FLAG' \in {STOP_FLAG, 0}
        /\ straight_state' \in {straight_state, "IDLE", "LOCKING"}
    BY <1>8, <2>2, MainFlags
  <2> QED BY <1>1, <2>1, <2>3 DEF DoneInv
<1>9. CASE UNCHANGED vars
  BY <1>1, <1>9 DEF DoneInv, vars, gateVars, motorVars, remoteVars
<1> QED BY <1>2, <1>3, <1>4, <1>5, <1>6, <1>7, <1>8, <1>9 DEF Next, Tick

(* The finished straight-line test leaves the motors off, whatever replays,  *)
(* falls and other tests come after it (Body_ctrl.c:929-935), until its own  *)
(* page is opened again. Two things are known to end this: the rotation page *)
(* (Menu.c:757) and an armed transmitter (Remote_ctrl.c:128), both of which  *)
(* raise STOP_FLAG without a look at the test.                               *)
THEOREM DriveDoneStops == Frames = {} /\ "D6" \notin Pages /\ Spec => []DoneStops
<1> SUFFICES ASSUME Frames = {}, "D6" \notin Pages
             PROVE  Spec => []DoneStops
  OBVIOUS
<1>1. DoneInv => DoneStops
  BY DEF DoneInv, DoneStops
<1>2. DoneInv /\ [Next]_vars => DoneInv'
  BY DoneNext
<1> QED BY <1>1, <1>2, DoneInit, PTL DEF Spec

---------------------------------------------------------------------------
(* The gains.                                                              *)

\* The stores of the pages that start no jump.
FlagOps == CommonOps \cup
    {"nag_record", "nag_preload", "straight_idle", "straight_lock",
     "bridge_off", "run_state_on", "stop_flag_on", "rotation_start"}

JumpPages == {"D2", "D3", "D4"}

LEMMA FlagsWithin ==
    ASSUME Pages \cap JumpPages = {}
    PROVE  Within(FlagOps)
<1>1. Pages \subseteq {"A1", "A3", "D1"} \cup {"D6"}
  BY InputsAssumption DEF InputsAssumption, AllPages, JumpPages
<1>2. \A p \in {"A1", "A3", "D1"} : PageOps[p] \in Seq(FlagOps)
  BY PageRoutines DEF FlagOps, CommonOps
<1>3. PageOps["D6"] \in Seq(FlagOps)
  BY RotationRoutine DEF FlagOps, CommonOps
<1>4. /\ CommonOps \subseteq FlagOps
      /\ "default_check" \notin FlagOps /\ "trigger_check" \notin FlagOps
  BY DEF FlagOps, CommonOps
<1> QED BY <1>1, <1>2, <1>3, <1>4 DEF Within

AllOps == StoreOps \cup {"run_state_on", "stop_flag_on"}

LEMMA AllWithin == Within(AllOps)
<1>1. Pages \subseteq {"A1", "A3", "D1"} \cup {"D2", "D3", "D4", "D6"}
  BY InputsAssumption DEF InputsAssumption, AllPages
<1>2. \A p \in {"A1", "A3", "D1"} : PageOps[p] \in Seq(AllOps)
  BY PageRoutines DEF AllOps, StoreOps, CommonOps
<1>3. PageOps["D2"] \in Seq(AllOps)
  BY SequenceRoutine DEF AllOps, StoreOps
<1>4. PageOps["D3"] \in Seq(AllOps)
  BY SingleRoutine DEF AllOps, StoreOps
<1>5. PageOps["D4"] \in Seq(AllOps)
  BY JumpRoutine DEF AllOps, StoreOps
<1>6. PageOps["D6"] \in Seq(AllOps)
  BY RotationRoutine DEF AllOps, StoreOps, CommonOps
<1>7. /\ CommonOps \subseteq AllOps /\ "ctx_jumping" \in AllOps
      /\ {"abort_read", "abort_idle", "abort_restore"} \subseteq AllOps
  BY DEF AllOps, StoreOps, Abortings
<1>8. \A p \in Pages : PageOps[p] \in Seq(AllOps)
  BY <1>1, <1>2, <1>3, <1>4, <1>5, <1>6
<1> QED BY <1>7, <1>8 DEF Within

\* The gains that a jump takes away are somewhere: in a jump where it saved
\* them, else in the balance loops.
Nominal(g) == g.rate_p = "nominal" /\ g.angle_id = "nominal"
GainsSafe == (Jumping => Nominal(saved)) /\ (~Jumping => Nominal(live))

\* What has to have run right before the stores in the middle of jump_abort,
\* jump_config_default and jump_trigger.
Preceding == [abort_idle |-> {"abort_read"}, abort_restore |-> {"abort_idle"},
              default_params |-> {"default_check", "abort_restore"},
              default_idle |-> {"default_params"},
              trigger_prepare |-> {"trigger_check"},
              trigger_save |-> {"trigger_prepare"},
              trigger_fix |-> {"trigger_save"}]

Middle == DOMAIN Preceding

\* ... and what has to run right after some of them.
Following == [abort_idle |-> "abort_restore", trigger_prepare |-> "trigger_save",
              trigger_save |-> "trigger_fix"]

Opening == DOMAIN Following

Ordered(t) ==
    /\ \A i \in 2 .. Len(t) : t[i] \in Middle => t[i - 1] \in Preceding[t[i]]
    /\ \A i \in 1 .. Len(t) : t[i] \in Opening =>
           i < Len(t) /\ t[i + 1] = Following[t[i]]

\* Where the gains are before each store of a routine no tick falls into.
AtStore(op) ==
    CASE op = "abort_idle" -> GainsSafe /\ (was_active <=> Jumping)
      [] op = "abort_restore" ->
             /\ ~Jumping
             /\ was_active => Nominal(saved)
             /\ ~was_active => Nominal(live)
      [] op \in {"default_params", "default_idle", "trigger_prepare"} ->
             ~Jumping /\ Nominal(live)
      [] op = "trigger_save" -> Jumping /\ Nominal(live)
      [] op = "trigger_fix" -> Jumping /\ Nominal(saved)
      [] OTHER -> GainsSafe

GainsHere == IF todo = <<>> THEN GainsSafe ELSE AtStore(Head(todo))

GainsInv ==
    /\ jump_state \in JumpStates
    /\ Preemptions # 0 => todo \in Seq(FlagOps)
    /\ Preemptions = 0 /\ todo # <<>> => isr = "idle"
    /\ todo \in Seq(AllOps) /\ Ordered(todo)
    /\ GainsHere

LEMMA OrderedTail ==
    ASSUME NEW A, NEW t \in Seq(A), t # <<>>, Ordered(t)
    PROVE  /\ Ordered(Tail(t))
           /\ Tail(t) # <<>> /\ Head(Tail(t)) \in Middle
                  => Head(t) \in Preceding[Head(Tail(t))]
           /\ Head(t) \in Opening
                  => Tail(t) # <<>> /\ Head(Tail(t)) = Following[Head(t)]
<1>1. /\ Len(Tail(t)) = Len(t) - 1 /\ Len(t) \in Nat /\ Len(t) > 0
      /\ \A i \in 1 .. Len(t) - 1 : Tail(t)[i] = t[i + 1]
  OBVIOUS
<1>2. ASSUME NEW i \in 2 .. Len(Tail(t)), Tail(t)[i] \in Middle
      PROVE  Tail(t)[i - 1] \in Preceding[Tail(t)[i]]
  <2>1. Tail(t)[i] = t[i + 1] /\ Tail(t)[i - 1] = t[i] /\ i + 1 \in 2 .. Len(t)
    BY <1>1
  <2> QED BY <1>2, <2>1 DEF Ordered
<1>3. ASSUME NEW i \in 1 .. Len(Tail(t)), Tail(t)[i] \in Opening
      PROVE  i < Len(Tail(t)) /\ Tail(t)[i + 1] = Following[Tail(t)[i]]
  <2>1. Tail(t)[i] = t[i + 1] /\ i + 1 \in 1 .. Len(t)
    BY <1>1
  <2>2. i + 1 < Len(t) /\ t[(i + 1) + 1] = Following[t[i + 1]]
    BY <1>3, <2>1 DEF Ordered
  <2>3. i + 1 \in 1 .. Len(t) - 1
    BY <1>1, <2>2
  <2> QED BY <1>1, <2>1, <2>2, <2>3
<1>4. ASSUME Tail(t) # <<>>, Head(Tail(t)) \in Middle
      PROVE  Head(t) \in Preceding[Head(Tail(t))]
  <2>1. 2 \in 2 .. Len(t) /\ Head(Tail(t)) = t[2] /\ Head(t) = t[1]
    BY <1>1, <1>4
  <2> QED BY <1>4, <2>1 DEF Ordered
<1>5. ASSUME Head(t) \in Opening
      PROVE  Tail(t) # <<>> /\ Head(Tail(t)) = Following[Head(t)]
  <2>1. Head(t) = t[1] /\ 1 \in 1 .. Len(t)
    BY <1>1
  <2>2. 1 < Len(t) /\ t[2] = Following[t[1]]
    BY <1>5, <2>1 DEF Ordered
  <2>3. Tail(t) # <<>> /\ Head(Tail(t)) = t[2]
    BY <1>1, <2>2
  <2> QED BY <2>1, <2>2, <2>3
<1> QED BY <1>2, <1>3, <1>4, <1>5 DEF Ordered

LEMMA OrderedJoin ==
    ASSUME NEW A, NEW s \in Seq(A), NEW t \in Seq(A), Ordered(s), Ordered(t),
           s # <<>>, t # <<>> /\ t[1] \in Middle => s[Len(s)] \in Preceding[t[1]]
    PROVE  Ordered(s \o t)
<1>1. /\ s \o t \in Seq(A) /\ Len(s \o t) = Len(s) + Len(t)
      /\ Len(s) \in Nat /\ Len(t) \in Nat /\ Len(s) > 0
      /\ \A i \in 1 .. Len(s) : (s \o t)[i] = s[i]
      /\ \A i \in Len(s) + 1 .. Len(s) + Len(t) : (s \o t)[i] = t[i - Len(s)]
  OBVIOUS
<1>2. ASSUME NEW i \in 2 .. Len(s \o t), (s \o t)[i] \in Middle
      PROVE  (s \o t)[i - 1] \in Preceding[(s \o t)[i]]
  <2>1. CASE i <= Len(s)
    <3>1. (s \o t)[i] = s[i] /\ (s \o t)[i - 1] = s[i - 1] /\ i \in 2 .. Len(s)
      BY <1>1, <2>1
    <3> QED BY <1>2, <3>1 DEF Ordered
  <2>2. CASE i = Len(s) + 1
    <3>1. (s \o t)[i] = t[1] /\ (s \o t)[i - 1] = s[Len(s)] /\ t # <<>>
      BY <1>1, <2>2
    <3> QED BY <1>2, <3>1
  <2>3. CASE i > Len(s) + 1
    <3>1. /\ (s \o t)[i] = t[i - Len(s)] /\ (s \o t)[i - 1] = t[(i - Len(s)) - 1]
          /\ i - Len(s) \in 2 .. Len(t)
      BY <1>1, <2>3
    <3> QED BY <1>2, <3>1 DEF Ordered
  <2> QED BY <1>1, <2>1, <2>2, <2>3
<1>3. ASSUME NEW i \in 1 .. Len(s \o t), (s \o t)[i] \in Opening
      PROVE  i < Len(s \o t) /\ (s \o t)[i + 1] = Following[(s \o t)[i]]
  <2>1. CASE i <= Len(s)
    <3>1. (s \o t)[i] = s[i] /\ i \in 1 .. Len(s)
      BY <1>1, <2>1
    <3>2. i < Len(s) /\ s[i + 1] = Following[s[i]]
      BY <1>3, <3>1 DEF Ordered
    <3>3. (s \o t)[i + 1] = s[i + 1]
      BY <1>1, <3>1, <3>2
    <3> QED BY <1>1, <3>1, <3>2, <3>3
  <2>2. CASE i > Len(s)
    <3>1. (s \o t)[i] = t[i - Len(s)] /\ i - Len(s) \in 1 .. Len(t)
      BY <1>1, <2>2
    <3>2. i - Len(s) < Len(t) /\ t[(i - Len(s)) + 1] = Following[t[i - Len(s)]]
      BY <1>3, <3>1 DEF Ordered
    <3>3. (s \o t)[i + 1] = t[(i - Len(s)) + 1]
      BY <1>1, <3>1, <3>2
    <3> QED BY <1>1, <3>1, <3>2, <3>3
  <2> QED BY <1>1, <2>1, <2>2
<1> QED BY <1>2, <1>3 DEF Ordered

\* A routine, or a part of one, that keeps the order and begins anew.
Proper(t) == t \in Seq(AllOps) /\ t # <<>> /\ Ordered(t) /\ t[1] \notin Middle

LEMMA ProperJoin ==
    ASSUME NEW s, NEW t, Proper(s), Proper(t)
    PROVE  Proper(s \o t)
<1>1. s \o t \in Seq(AllOps) /\ s \o t # <<>> /\ (s \o t)[1] = s[1]
  BY DEF Proper
<1>2. Ordered(s \o t)
  BY OrderedJoin DEF Proper
<1> QED BY <1>1, <1>2 DEF Proper

LEMMA ProperParts ==
    /\ Proper(StairAbortOps) /\ Proper(DefaultOps) /\ Proper(BeginOps)
    /\ Proper(TriggerOps) /\ Proper(AbortOps)
    /\ Proper(<<"stair_params", "stair_speed">>) /\ Proper(<<"jump_speed">>)
    /\ Proper(<<"stop_speed", "px_on">>) /\ Proper(<<"ctx_jumping">>)
    /\ Proper(ReadyOps) /\ Proper(EmptyOps)
    /\ Proper(<<"stop_speed", "rotation_off">>)
<1> USE DEF Middle, Preceding, Opening, Following, AllOps, StoreOps, CommonOps, Abortings
<1>1. Proper(BeginOps)
  BY DEF Proper, Ordered, BeginOps
<1>2. Proper(DefaultOps)
  BY DEF Proper, Ordered, DefaultOps
<1>3. Proper(TriggerOps)
  BY DEF Proper, Ordered, TriggerOps
<1>4. Proper(AbortOps)
  BY DEF Proper, Ordered, AbortOps
<1>5. Proper(StairAbortOps)
  BY DEF Proper, Ordered, StairAbortOps
<1>6. Proper(<<"stair_params", "stair_speed">>)
  BY DEF Proper, Ordered
<1>7. Proper(<<"jump_speed">>)
  BY DEF Proper, Ordered
<1>8. Proper(<<"stop_speed", "px_on">>)
  BY DEF Proper, Ordered
<1>9. Proper(<<"ctx_jumping">>)
  BY DEF Proper, Ordered
<1>10. Proper(<<"stop_speed", "rotation_off">>)
  BY DEF Proper, Ordered
<1>11. Proper(ReadyOps)
  BY DEF Proper, Ordered, ReadyOps
<1>12. Proper(EmptyOps)
  BY DEF Proper, Ordered, EmptyOps
<1> QED
  BY <1>1, <1>2, <1>3, <1>4, <1>5, <1>6, <1>7, <1>8, <1>9, <1>10, <1>11, <1>12

LEMMA PagesProper == \A p \in AllPages : Proper(PageOps[p])
<1>1. Proper(PageOps["A1"]) /\ Proper(PageOps["D1"])
  BY DEF PageOps, AllPages, Proper, Ordered, Middle, Preceding, Opening,
         Following, AllOps, StoreOps
<1>2. Proper(PageOps["A3"])
  BY DEF PageOps, AllPages, Proper, Ordered, Middle, Preceding, Opening,
         Following, AllOps, StoreOps,
         CommonOps
<1>3. Proper(PageOps["D2"])
  <2>1. PageOps["D2"] = StairAbortOps \o BeginOps \o <<"stair_params", "stair_speed">>
                        \o TriggerOps
    BY DEF PageOps, AllPages
  <2>2. Proper(StairAbortOps \o BeginOps)
    BY ProperParts, ProperJoin
  <2>3. Proper(StairAbortOps \o BeginOps \o <<"stair_params", "stair_speed">>)
    BY <2>2, ProperParts, ProperJoin
  <2> QED BY <2>1, <2>3, ProperParts, ProperJoin
<1>4. Proper(PageOps["D3"])
  <2>1. PageOps["D3"] = StairAbortOps \o BeginOps \o <<"stop_speed", "px_on">>
    BY DEF PageOps, AllPages
  <2>2. Proper(StairAbortOps \o BeginOps)
    BY ProperParts, ProperJoin
  <2> QED BY <2>1, <2>2, ProperParts, ProperJoin
<1>5. Proper(PageOps["D4"])
  <2>1. PageOps["D4"] = StairAbortOps \o DefaultOps \o BeginOps \o <<"jump_speed">>
    BY DEF PageOps, AllPages
  <2>2. Proper(StairAbortOps \o DefaultOps)
    BY ProperParts, ProperJoin
  <2>3. Proper(StairAbortOps \o DefaultOps \o BeginOps)
    BY <2>2, ProperParts, ProperJoin
  <2> QED BY <2>1, <2>3, ProperParts, ProperJoin
<1>6. Proper(PageOps["D6"])
  BY DEF PageOps, AllPages, Proper, Ordered, Middle, Preceding, Opening,
         Following, AllOps, StoreOps,
         CommonOps
<1> QED BY <1>1, <1>2, <1>3, <1>4, <1>5, <1>6 DEF AllPages

\* The jump's own operations keep the gains safe.
GainsTyped == jump_state \in JumpStates /\ GainsSafe

LEMMA GainsKeptAlone ==
    ASSUME GainsTyped, UNCHANGED <<jump_state, saved, live>>
    PROVE  GainsTyped'
BY DEF GainsTyped, GainsSafe, Nominal, Jumping

LEMMA TriggerGains ==
    ASSUME GainsTyped, NEW v, Trigger(v)
    PROVE  GainsTyped'
<1>1. CASE TriggerResult = "OK"
  <2>1. /\ jump_state' = "PREPARE" /\ saved' = live /\ ~Jumping
    BY <1>1 DEF Trigger, TriggerResult
  <2> QED BY <2>1, NoJumpState DEF GainsTyped, GainsSafe, Nominal, Jumping
<1>2. CASE TriggerResult # "OK"
  <2>1. UNCHANGED <<jump_state, saved, live>>
    BY <1>2 DEF Trigger, jumpVars
  <2> QED BY <2>1, GainsKeptAlone
<1> QED BY <1>1, <1>2

LEMMA AbortGains ==
    ASSUME GainsTyped, Abort
    PROVE  GainsTyped'
<1>1. /\ jump_state' = "IDLE" /\ live' = (IF Jumping THEN saved ELSE live)
  BY DEF Abort
<1> QED BY <1>1, NoJumpState DEF GainsTyped, GainsSafe, Nominal, Jumping

LEMMA JumpTickGains ==
    ASSUME GainsTyped, JumpTick
    PROVE  GainsTyped'
<1>1. CASE ~(Jumping /\ run_state = 1)
  BY <1>1, GainsKeptAlone DEF JumpTick, jumpVars
<1>2. CASE Jumping /\ run_state = 1
  <2> DEFINE n == Ticks[jump_state]
             e == elapsed + 1
  <2>1. jump_state \in JumpPhases
    BY <1>2 DEF GainsTyped, JumpStates, Jumping
  <2>2. /\ jump_state' = IF e >= n THEN NextPhase[jump_state] ELSE jump_state
        /\ live' = GainsAfter(jump_state, e, n)
        /\ saved' = saved
    BY <1>2 DEF JumpTick
  <2> HIDE DEF e, n
  <2>3. CASE e >= n /\ jump_state = "RECOVER"
    <3>1. jump_state' = "IDLE" /\ live' = saved
      BY <2>1, <2>2, <2>3 DEF NextPhase, GainsAfter
    <3> QED BY <1>2, <3>1, NoJumpState DEF GainsTyped, GainsSafe, Nominal, Jumping
  <2>4. CASE ~(e >= n /\ jump_state = "RECOVER")
    <3>1. jump_state' \in JumpPhases
      BY <2>1, <2>2, <2>4 DEF NextPhase, JumpPhases
    <3>2. jump_state' \in JumpStates /\ jump_state' # "IDLE"
      BY <3>1 DEF JumpPhases, JumpStates
    <3> QED BY <1>2, <2>2, <3>2 DEF GainsTyped, GainsSafe, Nominal, Jumping
  <2> QED BY <2>3, <2>4
<1> QED BY <1>1, <1>2

LEMMA CarGains ==
    ASSUME GainsTyped, CarFallen \/ CarRecovered \/ CarUpright
    PROVE  GainsTyped'
<1>1. CASE CarFallen
  <2> DEFINE g == IF Jumping THEN saved ELSE live
  <2>1. /\ jump_state' = "IDLE"
        /\ live'.rate_p = g.rate_p /\ live'.angle_id = g.angle_id
    BY <1>1 DEF CarFallen, FallenState, SoftStart
  <2> QED BY <2>1, NoJumpState DEF GainsTyped, GainsSafe, Nominal, Jumping
<1>2. CASE CarRecovered \/ CarUpright
  <2>1. /\ UNCHANGED <<jump_state, saved>>
        /\ ~Jumping => live'.rate_p = live.rate_p /\ live'.angle_id = live.angle_id
    BY <1>2 DEF CarRecovered, CarUpright, SoftStart
  <2> QED BY <2>1 DEF GainsTyped, GainsSafe, Nominal, Jumping
<1> QED BY <1>1, <1>2

LEMMA StairGains ==
    ASSUME GainsTyped, StairService
    PROVE  GainsTyped'
<1>1. ASSUME UNCHANGED jumpVars
      PROVE  GainsTyped'
  BY <1>1, GainsKeptAlone DEF jumpVars
<1>2. ASSUME NEW ok, NEW reason, Finish(ok, reason)
      PROVE  GainsTyped'
  <2>1. Abort \/ UNCHANGED jumpVars
    BY <1>2 DEF Finish, FinishJump, ConfigDefault
  <2> QED BY <1>1, <2>1, AbortGains
<1>3. CASE Runup
  <2>1. CASE RunupTrigger
    <3>1. \E v : Trigger(v)
      BY <2>1 DEF RunupTrigger, TriggerJump
    <3> QED BY <3>1, TriggerGains
  <2>2. CASE RunupWait
    BY <1>1, <2>2 DEF RunupWait
  <2> QED BY <1>3, <2>1, <2>2 DEF Runup
<1>4. CASE Watch
  <2>1. CASE JumpTimedOut
    BY <2>1, AbortGains DEF JumpTimedOut
  <2>2. CASE JumpOver \/ JumpWait
    BY <1>1, <2>2 DEF JumpOver, JumpWait
  <2> QED BY <1>2, <1>4, <2>1, <2>2 DEF Watch
<1>5. CASE Stopping
  <2>1. CASE StopWait
    BY <1>1, <2>1 DEF StopWait
  <2> QED BY <1>2, <1>5, <2>1 DEF Stopping
<1> QED BY <1>1, <1>3, <1>4, <1>5 DEF StairService

LEMMA RemoteGains ==
    ASSUME GainsTyped, RemoteUpdate
    PROVE  GainsTyped'
<1>1. \E ch, on, det, lost : Decide(ch, on, det, lost)
  BY DEF RemoteUpdate
<1>2. \/ Unarmed \/ ForceStop
      \/ \E ch : StickDrives(ch)
  BY <1>1 DEF Decide
<1>3. \/ UNCHANGED jumpVars \/ Abort \/ \E v : Trigger(v)
  <2>1. CASE Unarmed
    BY <2>1 DEF Unarmed, remoteStopVars
  <2>2. CASE ForceStop
    BY <2>2 DEF ForceStop, StairAbort, ConfigDefault
  <2>3. CASE \E ch : StickDrives(ch)
    BY <2>3 DEF StickDrives
  <2> QED BY <1>2, <2>1, <2>2, <2>3
<1>4. CASE UNCHANGED jumpVars
  BY <1>4, GainsKeptAlone DEF jumpVars
<1> QED BY <1>3, <1>4, AbortGains, TriggerGains

LEMMA TickGains ==
    ASSUME GainsTyped, Tick
    PROVE  GainsTyped'
<1>1. CASE TickBegin \/ NagStep \/ BridgeService \/ StraightService \/ MotorOutput
  <2>1. UNCHANGED jumpVars
    BY <1>1 DEF TickBegin, NagStep, BridgeService, StraightService, MotorOutput
  <2> QED BY <2>1, GainsKeptAlone DEF jumpVars
<1>2. CASE SteerControl
  BY <1>2, JumpTickGains DEF SteerControl
<1> QED BY <1>1, <1>2, CarGains, StairGains, RemoteGains DEF Tick

\* How a routine goes on: a store in the middle comes after the right one, an
\* opening store is followed by its next.
LEMMA Onwards ==
    ASSUME todo \in Seq(AllOps), Ordered(todo),
           Main \/ \E p \in Pages : MenuOpen(p)
    PROVE  /\ todo' \in Seq(AllOps) /\ Ordered(todo')
           /\ todo' # <<>> /\ Head(todo') \in Middle =>
                  todo # <<>> /\ Head(todo) \in Preceding[Head(todo')]
           /\ todo # <<>> /\ Head(todo) \in Opening =>
                  todo' # <<>> /\ Head(todo') = Following[Head(todo)]
<1>1. todo' \in Seq(AllOps)
  BY AllWithin, RoutineWithin DEF Next
<1>2. ASSUME Proper(todo'), todo # <<>> => Head(todo) \notin Opening
      PROVE  /\ Ordered(todo')
             /\ todo' # <<>> /\ Head(todo') \in Middle =>
                    todo # <<>> /\ Head(todo) \in Preceding[Head(todo')]
             /\ todo # <<>> /\ Head(todo) \in Opening =>
                    todo' # <<>> /\ Head(todo') = Following[Head(todo)]
  BY <1>2 DEF Proper
<1>3. CASE todo # <<>> /\ todo' = Tail(todo)
  BY <1>1, <1>3, OrderedTail
<1>4. CASE todo # <<>> /\ Head(todo) = "default_check" /\ todo' = AbortOps \o Tail(todo)
  <2>1. /\ Tail(todo) \in Seq(AllOps) /\ Ordered(Tail(todo))
        /\ Tail(todo) # <<>> /\ Head(Tail(todo)) \in Middle
              => Head(todo) \in Preceding[Head(Tail(todo))]
    BY <1>4, OrderedTail
  <2>2. /\ AbortOps \in Seq(AllOps) /\ Ordered(AbortOps) /\ AbortOps # <<>>
        /\ AbortOps[1] = "abort_read" /\ AbortOps[Len(AbortOps)] = "abort_restore"
    BY ProperParts DEF Proper, AbortOps
  <2>3. Tail(todo) # <<>> /\ Tail(todo)[1] \in Middle
            => "abort_restore" \in Preceding[Tail(todo)[1]]
    <3> SUFFICES ASSUME Tail(todo) # <<>>, Tail(todo)[1] \in Middle
                 PROVE  "abort_restore" \in Preceding[Tail(todo)[1]]
      OBVIOUS
    <3>1. Head(Tail(todo)) = Tail(todo)[1]
      BY <2>1
    <3>2. "default_check" \in Preceding[Tail(todo)[1]]
      BY <1>4, <2>1, <3>1
    <3> QED BY <3>2 DEF Middle, Preceding
  <2>4. Ordered(todo')
    BY <1>4, <2>1, <2>2, <2>3, OrderedJoin
  <2>5. todo' # <<>> /\ Head(todo') = "abort_read"
    BY <1>4, <2>1, <2>2
  <2> QED BY <1>1, <1>4, <2>4, <2>5 DEF Middle, Preceding, Opening, Following
<1>5. CASE todo # <<>> /\ Head(todo) = "trigger_check" /\ todo' = <<"ctx_jumping">>
  <2>1. Proper(todo') /\ Head(todo) \notin Opening
    BY <1>5, ProperParts DEF Opening, Following
  <2> QED BY <1>1, <1>2, <2>1
<1>6. CASE todo = <<>>
  <2>1. Proper(todo')
    BY <1>6, MainRoutine, ProperParts, PagesProper, InputsAssumption
       DEF InputsAssumption
  <2> QED BY <1>1, <1>2, <1>6, <2>1
<1> QED BY <1>3, <1>4, <1>5, <1>6, MainRoutine

JumpOps == {"abort_read", "abort_idle", "abort_restore", "default_check",
            "default_params", "default_idle", "trigger_check",
            "trigger_prepare", "trigger_save", "trigger_fix"}

LEMMA MainGains ==
    ASSUME GainsHere, jump_state \in JumpStates, todo \in Seq(AllOps), Ordered(todo),
           Main \/ \E p \in Pages : MenuOpen(p)
    PROVE  GainsHere' /\ jump_state' \in JumpStates
<1> DEFINE h == Head(todo)
           n == Head(todo')
<1>1. /\ todo' # <<>> /\ n \in Middle => todo # <<>> /\ h \in Preceding[n]
      /\ todo # <<>> /\ h \in Opening => todo' # <<>> /\ n = Following[h]
  BY Onwards
<1> HIDE DEF h, n
<1> USE NoJumpState
<1>2. ASSUME GainsSafe, UNCHANGED <<jump_state, saved, live>>
      PROVE  GainsSafe' /\ jump_state' \in JumpStates
  BY <1>2 DEF GainsSafe, Nominal, Jumping
<1>3. ASSUME GainsSafe', todo' # <<>> => n \notin Middle
      PROVE  GainsHere'
  BY <1>3 DEF GainsHere, AtStore, Middle, Preceding, n
<1>4. ASSUME todo # <<>> => h \notin JumpOps
      PROVE  GainsSafe /\ (todo' # <<>> => n \notin Middle)
  <2>1. GainsSafe
    BY <1>4 DEF GainsHere, AtStore, JumpOps, h
  <2> QED BY <1>1, <1>4, <2>1 DEF Middle, Preceding, JumpOps
<1>5. CASE NagLoaded \/ RotationSeen \/ \E p \in Pages : MenuOpen(p)
  <2>1. todo = <<>> /\ UNCHANGED <<jump_state, saved, live>>
    BY <1>5 DEF NagLoaded, RotationSeen, MenuOpen, jumpVars
  <2> QED BY <1>2, <1>3, <1>4, <2>1
<1>6. CASE StoreFlags \/ ContextStores \/ RotationStores
  <2>1. todo # <<>> /\ h \notin JumpOps /\ UNCHANGED <<jump_state, saved, live>>
    BY <1>6 DEF StoreFlags, ContextStores, RotationStores, At, JumpOps, jumpVars, h,
       SpeedStores, FuxianStores, StopFlagStores, RunStateStores, NagStores,
       StraightStores
  <2> QED BY <1>2, <1>3, <1>4, <2>1
<1>7. CASE AbortStores
  <2>1. CASE h = "abort_read"
    <3>1. /\ todo # <<>> /\ was_active' = Jumping /\ GainsSafe
          /\ UNCHANGED <<jump_state, saved, live>>
      BY <1>7, <2>1 DEF AbortStores, At, jumpVars, h, GainsHere, AtStore
    <3>2. GainsSafe' /\ jump_state' \in JumpStates
      BY <1>2, <3>1
    <3>3. todo' # <<>> => n \notin Middle \ {"abort_idle"}
      BY <1>1, <2>1 DEF Middle, Preceding
    <3> QED BY <3>1, <3>2, <3>3 DEF GainsHere, AtStore, Middle, Preceding, n, Jumping
  <2>2. CASE h = "abort_idle"
    <3>1. /\ todo # <<>> /\ jump_state' = "IDLE" /\ UNCHANGED <<saved, live, was_active>>
          /\ GainsSafe /\ (was_active <=> Jumping)
      BY <1>7, <2>2 DEF AbortStores, At, h, GainsHere, AtStore
    <3>2. todo' # <<>> /\ n = "abort_restore"
      BY <1>1, <2>2, <3>1 DEF Opening, Following
    <3> QED BY <3>1, <3>2 DEF GainsHere, AtStore, GainsSafe, Nominal, Jumping, n
  <2>3. CASE h = "abort_restore"
    <3>1. /\ todo # <<>> /\ live' = (IF was_active THEN saved ELSE live)
          /\ UNCHANGED <<saved, jump_state>>
          /\ ~Jumping /\ (was_active => Nominal(saved)) /\ (~was_active => Nominal(live))
      BY <1>7, <2>3 DEF AbortStores, At, h, GainsHere, AtStore
    <3>2. Nominal(live') /\ jump_state' = "IDLE"
      BY <3>1 DEF Jumping
    <3>3. todo' # <<>> => n \notin Middle \ {"default_params"}
      BY <1>1, <2>3 DEF Middle, Preceding
    <3> QED BY <3>2, <3>3 DEF GainsHere, AtStore, GainsSafe, Nominal, Jumping, Middle,
               Preceding, n
  <2> QED BY <1>7, <2>1, <2>2, <2>3 DEF AbortStores, At, h
<1>8. CASE DefaultStores
  <2>1. CASE h = "default_check"
    <3>1. /\ todo # <<>> /\ GainsSafe /\ UNCHANGED <<jump_state, saved, live>>
          /\ Jumping => todo' = AbortOps \o Tail(todo)
      BY <1>8, <2>1 DEF DefaultStores, At, h, GainsHere, AtStore
    <3>2. GainsSafe' /\ jump_state' \in JumpStates
      BY <1>2, <3>1
    <3>3. Jumping => todo' # <<>> /\ n = "abort_read"
      BY <3>1 DEF AbortOps, n
    <3>4. todo' # <<>> => n \notin Middle \ {"default_params"}
      BY <1>1, <2>1 DEF Middle, Preceding
    <3> QED BY <3>1, <3>2, <3>3, <3>4 DEF GainsHere, AtStore, GainsSafe, Nominal,
               Jumping, Middle, Preceding, n
  <2>2. CASE h \in {"default_params", "default_idle"}
    <3>1. /\ todo # <<>> /\ ~Jumping /\ Nominal(live)
          /\ jump_state' \in {jump_state, "IDLE"} /\ UNCHANGED <<saved, live>>
      BY <1>8, <2>2 DEF DefaultStores, At, h, GainsHere, AtStore
    <3>2. jump_state' = "IDLE" /\ Nominal(live')
      BY <3>1 DEF Jumping
    <3>3. todo' # <<>> => n \notin Middle \ {"default_idle"}
      BY <1>1, <2>2 DEF Middle, Preceding
    <3> QED BY <3>2, <3>3 DEF GainsHere, AtStore, GainsSafe, Nominal, Jumping, Middle,
               Preceding, n
  <2>3. CASE h = "stair_params"
    <3>1. todo # <<>> /\ UNCHANGED <<jump_state, saved, live>>
      BY <1>8, <2>3 DEF DefaultStores, At, h
    <3> QED BY <1>2, <1>3, <1>4, <2>3, <3>1 DEF JumpOps
  <2> QED BY <1>8, <2>1, <2>2, <2>3 DEF DefaultStores, At, h
<1>9. CASE TriggerStores
  <2>1. CASE h = "trigger_check"
    <3>1. /\ todo # <<>> /\ GainsSafe /\ UNCHANGED <<jump_state, saved, live>>
          /\ TriggerResult # "OK" => todo' = <<"ctx_jumping">>
      BY <1>9, <2>1 DEF TriggerStores, At, h, jumpVars, GainsHere, AtStore
    <3>2. GainsSafe' /\ jump_state' \in JumpStates
      BY <1>2, <3>1
    <3>3. TriggerResult # "OK" => todo' # <<>> /\ n = "ctx_jumping"
      <4>1. <<"ctx_jumping">> # <<>> /\ Head(<<"ctx_jumping">>) = "ctx_jumping"
        OBVIOUS
      <4> QED BY <3>1, <4>1 DEF n
    <3>4. TriggerResult = "OK" => ~Jumping
      BY DEF TriggerResult
    <3>5. todo' # <<>> => n \notin Middle \ {"trigger_prepare"}
      BY <1>1, <2>1 DEF Middle, Preceding
    <3> QED BY <3>1, <3>2, <3>3, <3>4, <3>5 DEF GainsHere, AtStore, GainsSafe, Nominal,
               Jumping, Middle, Preceding, n
  <2>2. CASE h = "trigger_prepare"
    <3>1. /\ todo # <<>> /\ Nominal(live) /\ jump_state' = "PREPARE"
          /\ UNCHANGED <<saved, live>>
      BY <1>9, <2>2 DEF TriggerStores, At, h, GainsHere, AtStore
    <3>2. todo' # <<>> /\ n = "trigger_save"
      BY <1>1, <2>2, <3>1 DEF Opening, Following
    <3> QED BY <3>1, <3>2 DEF GainsHere, AtStore, Nominal, Jumping, n
  <2>3. CASE h = "trigger_save"
    <3>1. /\ todo # <<>> /\ Jumping /\ Nominal(live) /\ saved' = live
          /\ UNCHANGED <<jump_state, live>>
      BY <1>9, <2>3 DEF TriggerStores, At, h, GainsHere, AtStore
    <3>2. todo' # <<>> /\ n = "trigger_fix"
      BY <1>1, <2>3, <3>1 DEF Opening, Following
    <3> QED BY <3>1, <3>2 DEF GainsHere, AtStore, Nominal, Jumping, n
  <2>4. CASE h = "trigger_fix"
    <3>1. /\ todo # <<>> /\ Jumping /\ Nominal(saved) /\ UNCHANGED <<jump_state, saved>>
      BY <1>9, <2>4 DEF TriggerStores, At, h, GainsHere, AtStore
    <3>2. GainsSafe'
      BY <3>1 DEF GainsSafe, Nominal, Jumping
    <3>3. todo' # <<>> => n \notin Middle
      BY <1>1, <2>4 DEF Middle, Preceding
    <3> QED BY <1>3, <3>1, <3>2, <3>3
  <2>5. CASE h \in {"trigger_speed", "ctx_jumping"}
    <3>1. todo # <<>> /\ UNCHANGED <<jump_state, saved, live>>
      BY <1>9, <2>5 DEF TriggerStores, At, h, jumpVars
    <3> QED BY <1>2, <1>3, <1>4, <2>5, <3>1 DEF JumpOps
  <2> QED BY <1>9, <2>1, <2>2, <2>3, <2>4, <2>5 DEF TriggerStores, At, h
<1> QED BY <1>5, <1>6, <1>7, <1>8, <1>9 DEF Main, MainStep

\* No page that starts a jump is opened, or no tick falls into a routine.
Undisturbed == Preemptions = 0 \/ Pages \cap JumpPages = {}

LEMMA GainsInit == Init => GainsInv
BY NoJumpState DEF Init, GainsInv, GainsHere, GainsSafe, Nominal, NominalGains, Jumping, Ordered

LEMMA GainsNext ==
    ASSUME Undisturbed, GainsInv, preempted \in Nat, [Next]_vars
    PROVE  GainsInv'
<1>1. todo' \in Seq(AllOps)
  BY AllWithin, RoutineWithin DEF GainsInv
<1>2. Preemptions # 0 => todo' \in Seq(FlagOps)
  BY FlagsWithin, RoutineWithin DEF GainsInv, Undisturbed
<1>3. CASE Tick
  <2>1. todo' = todo
    BY <1>3, TickKeepsRoutine
  <2>2. todo # <<>> => Preemptions # 0
    <3>1. CASE TickBegin
      <4>1. todo # <<>> => preempted < Preemptions
        BY <3>1 DEF TickBegin
      <4> QED BY <4>1
    <3>2. CASE ~TickBegin
      <4>1. isr # "idle"
        BY <1>3, <3>2 DEF Tick, Step, CarFallen, CarRecovered, CarUpright, NagStep,
           StairService, BridgeService, SteerControl, StraightService, RemoteUpdate,
           MotorOutput
      <4> QED BY <4>1 DEF GainsInv
    <3> QED BY <3>1, <3>2
  <2>3. todo # <<>> => Head(todo) \notin Middle
    <3>1. todo # <<>> => Head(todo) \in FlagOps
      BY <2>2 DEF GainsInv
    <3>2. FlagOps \cap Middle = {}
      BY DEF FlagOps, CommonOps, Middle, Preceding
    <3> QED BY <3>1, <3>2
  <2>4. GainsTyped
    BY <2>3 DEF GainsInv, GainsHere, GainsTyped, AtStore, Middle, Preceding
  <2>5. GainsTyped'
    BY <1>3, <2>4, TickGains
  <2>6. GainsHere'
    BY <2>1, <2>3, <2>5 DEF GainsTyped, GainsHere, AtStore, Middle, Preceding
  <2>7. Preemptions = 0 => todo' = <<>>
    BY <2>1, <2>2
  <2> QED BY <1>1, <1>2, <2>1, <2>5, <2>6, <2>7 DEF GainsInv, GainsTyped, GainsHere
<1>4. CASE Main \/ \E p \in Pages : MenuOpen(p)
  <2>1. isr' = "idle"
    BY <1>4, MainKeepsRemote
  <2>2. Ordered(todo')
    BY <1>4, Onwards DEF GainsInv
  <2>3. GainsHere' /\ jump_state' \in JumpStates
    BY <1>4, MainGains DEF GainsInv, GainsHere
  <2> QED BY <1>1, <1>2, <2>1, <2>2, <2>3 DEF GainsInv, GainsHere
<1>5. CASE UNCHANGED vars
  BY <1>1, <1>2, <1>5 DEF vars, mainVars, jumpVars, GainsInv, GainsHere, GainsSafe, AtStore,
     Nominal, Jumping, Ordered
<1> QED BY <1>3, <1>4, <1>5 DEF Next

\* The ticks inside a routine are counted, up to their bound.
Counted == preempted \in Nat /\ preempted <= Preemptions

LEMMA CountedInit == Init => Counted
BY InputsAssumption DEF InputsAssumption, Init, Counted

LEMMA CountedNext ==
    ASSUME Counted, [Next]_vars
    PROVE  Counted'
<1> USE InputsAssumption DEF InputsAssumption
<1>1. CASE Tick
  <2>1. CASE TickBegin
    <3>1. /\ todo # <<>> => preempted < Preemptions
          /\ preempted' = IF todo # <<>> THEN preempted + 1 ELSE preempted
      BY <2>1 DEF TickBegin
    <3> QED BY <3>1 DEF Counted
  <2> QED BY <1>1, <2>1, TickKeepsRoutine DEF Counted
<1>2. CASE NagLoaded \/ RotationSeen \/ \E p \in Pages : MenuOpen(p)
  <2>1. preempted' = 0
    BY <1>2 DEF NagLoaded, RotationSeen, MenuOpen
  <2> QED BY <2>1 DEF Counted
<1>3. CASE MainStep
  <2>1. preempted' = preempted
    BY <1>3 DEF MainStep, StoreFlags, AbortStores, DefaultStores, ContextStores,
       TriggerStores, RotationStores, untouchedByMain
  <2> QED BY <2>1 DEF Counted
<1>4. CASE UNCHANGED vars
  BY <1>4 DEF vars, mainVars, Counted
<1> QED BY <1>1, <1>2, <1>3, <1>4 DEF Next, Main

(* Every end of a jump gives the balance loops the rate gain and the         *)
(* integral and derivative back that its start took (Body_ctrl.c:323-326,    *)
(* 348-351, 757-761), through the remote control and, as long as no tick     *)
(* falls into a routine, through the menu. With a tick inside jump_trigger   *)
(* or jump_abort it is false: run v_gains for the former, and for the latter *)
(* a jump that begins after was_active was read.                             *)
THEOREM DriveGainsRestored == Undisturbed /\ Spec => []GainsRestored
<1> SUFFICES ASSUME Undisturbed
             PROVE  Spec => []GainsRestored
  OBVIOUS
<1>1. Init => GainsInv /\ Counted
  BY GainsInit, CountedInit
<1>2. GainsInv /\ Counted /\ [Next]_vars => (GainsInv /\ Counted)'
  BY GainsNext, CountedNext DEF Counted
<1>3. GainsInv => GainsRestored
  BY DEF GainsInv, GainsHere, GainsSafe, Nominal, GainsRestored
<1> QED BY <1>1, <1>2, <1>3, PTL DEF Spec

---------------------------------------------------------------------------
(* The gains in the soft start.                                            *)

\* Neither of the gains the soft start scales is the configured one.
Low(g) == g.angle_p # "nominal" /\ g.speed_p # "nominal"

\* While the clock is in the ramp the balance loops have scaled gains from the
\* state calculation of a tick to the next one, and a jump saved scaled ones,
\* because it cannot outlast the fall that started the clock anew.
RampInv ==
    /\ todo \in Seq(FlagOps)
    /\ sys_times \in Nat
    /\ isr # "idle" => sys_times > Settle
    /\ run_state = 0 => ~Jumping
    /\ Jumping /\ sys_times < FullPower => Low(saved)
    /\ Settle < sys_times /\ sys_times < FullPower /\ isr # "state" => Low(live)

\* A step of the jump machine inside the callback: it goes on or ends without
\* the gains, ends and gives them back, or begins and takes them.
JumpMove ==
    \/ UNCHANGED <<saved, live>> /\ (Jumping' => Jumping)
    \/ Jumping /\ saved' = saved /\ live' = saved
    \/ ~Jumping /\ run_state # 0 /\ saved' = live /\ live' = FixedGains(live)

LEMMA JumpMoves ==
    ASSUME StairService \/ RemoteUpdate \/ SteerControl
    PROVE  JumpMove
<1>1. ASSUME UNCHANGED jumpVars
      PROVE  JumpMove
  BY <1>1 DEF jumpVars, JumpMove, Jumping
<1>2. ASSUME Abort
      PROVE  JumpMove
  <2>1. saved' = saved /\ ~Jumping' /\ live' = IF Jumping THEN saved ELSE live
    BY <1>2 DEF Abort, Jumping
  <2> QED BY <2>1 DEF JumpMove
<1>3. ASSUME NEW v, Trigger(v)
      PROVE  JumpMove
  <2>1. CASE TriggerResult = "OK"
    BY <1>3, <2>1 DEF Trigger, TriggerResult, JumpMove
  <2>2. CASE TriggerResult # "OK"
    BY <1>1, <1>3, <2>2 DEF Trigger
  <2> QED BY <2>1, <2>2
<1>4. ASSUME JumpTick
      PROVE  JumpMove
  <2>1. CASE ~(Jumping /\ run_state = 1)
    BY <1>1, <1>4, <2>1 DEF JumpTick
  <2>2. CASE Jumping /\ run_state = 1
    BY <1>4, <2>2 DEF JumpTick, GainsAfter, JumpMove
  <2> QED BY <2>1, <2>2
<1>5. ASSUME NEW ok, NEW reason, Finish(ok, reason)
      PROVE  JumpMove
  <2>1. Abort \/ UNCHANGED jumpVars
    BY <1>5 DEF Finish, FinishJump, ConfigDefault
  <2> QED BY <1>1, <1>2, <2>1
<1>6. CASE StairService
  <2>1. CASE Runup
    <3>1. UNCHANGED jumpVars \/ \E v : Trigger(v)
      BY <2>1 DEF Runup, RunupTrigger, TriggerJump, RunupWait
    <3> QED BY <1>1, <1>3, <3>1
  <2>2. CASE Watch
    <3>1. CASE JumpTimedOut
      BY <1>2, <3>1 DEF JumpTimedOut
    <3>2. CASE JumpOver \/ JumpWait
      BY <1>1, <3>2 DEF JumpOver, JumpWait
    <3> QED BY <1>5, <2>2, <3>1, <3>2 DEF Watch
  <2>3. CASE Stopping
    BY <1>1, <1>5, <2>3 DEF Stopping, StopWait
  <2> QED BY <1>1, <1>6, <2>1, <2>2, <2>3 DEF StairService
<1>7. CASE RemoteUpdate
  <2>1. \E ch, on, det, lost : Decide(ch, on, det, lost)
    BY <1>7 DEF RemoteUpdate
  <2>2. Unarmed \/ ForceStop \/ \E ch : StickDrives(ch)
    BY <2>1 DEF Decide
  <2>3. CASE Unarmed
    BY <1>1, <2>3 DEF Unarmed, remoteStopVars
  <2>4. CASE ForceStop
    BY <1>1, <1>2, <2>4 DEF ForceStop, StairAbort, ConfigDefault
  <2>5. CASE \E ch : StickDrives(ch)
    BY <1>1, <1>3, <2>5 DEF StickDrives
  <2> QED BY <2>2, <2>3, <2>4, <2>5
<1>8. CASE SteerControl
  BY <1>4, <1>8 DEF SteerControl
<1> QED BY <1>6, <1>7, <1>8

LEMMA MainKeepsGains ==
    ASSUME todo \in Seq(FlagOps), Main \/ \E p \in Pages : MenuOpen(p)
    PROVE  UNCHANGED <<isr, sys_times, jump_state, saved, live>>
<1>1. UNCHANGED <<isr, sys_times>>
  BY MainKeepsRemote DEF clockVars
<1>2. UNCHANGED jumpVars
  <2>1. CASE NagLoaded \/ RotationSeen \/ \E p \in Pages : MenuOpen(p)
    BY <2>1 DEF NagLoaded, RotationSeen, MenuOpen
  <2>2. CASE MainStep
    <3>1. todo # <<>> => Head(todo) \in FlagOps
      OBVIOUS
    <3>2. ~AbortStores /\ ~DefaultStores /\ ~TriggerStores
      BY <3>1 DEF AbortStores, DefaultStores, TriggerStores, At, FlagOps, CommonOps
    <3>3. CASE StoreFlags \/ ContextStores \/ RotationStores
      BY <3>3 DEF StoreFlags, ContextStores, RotationStores
    <3> QED BY <2>2, <3>2, <3>3 DEF MainStep
  <2> QED BY <2>1, <2>2 DEF Main
<1> QED BY <1>1, <1>2 DEF jumpVars

LEMMA RampInit == Init => RampInv
BY Bounds DEF Init, RampInv, Jumping

LEMMA RampNext ==
    ASSUME Pages \cap JumpPages = {}, RampInv, [Next]_vars
    PROVE  RampInv'
<1>1. todo' \in Seq(FlagOps)
  BY FlagsWithin, RoutineWithin DEF RampInv
<1>2. CASE TickBegin
  <2> DEFINE t == IF sys_times < FullPower THEN sys_times + 1 ELSE sys_times
  <2>1. /\ sys_times' = t /\ UNCHANGED <<run_state, jump_state, saved>>
        /\ t <= Settle => isr' = "idle"
        /\ t > Settle => isr' = "state"
    <3>1. sys_times' = t /\ UNCHANGED <<run_state, jump_state, saved>>
      BY <1>2 DEF TickBegin, gateVars, jumpVars
    <3>2. IF t <= Settle THEN isr' = "idle" /\ motors' = "zero" /\ demand' = 0
                         ELSE isr' = "state" /\ UNCHANGED motorVars
      BY <1>2 DEF TickBegin
    <3>3. t \in Nat
      BY DEF RampInv
    <3> HIDE DEF t
    <3> QED BY <3>1, <3>2, <3>3, Bounds
  <2>2. t \in Nat /\ (t < FullPower => sys_times < FullPower)
    BY Bounds DEF RampInv
  <2> HIDE DEF t
  <2> QED BY <1>1, <2>1, <2>2, Bounds DEF RampInv, Jumping
<1>3. CASE CarFallen
  <2>1. /\ isr = "state" /\ sys_times' = sys_times /\ jump_state' = "IDLE"
        /\ live'.angle_p = RampedGain(sys_times) /\ live'.speed_p = RampedGain(sys_times)
    BY <1>3 DEF CarFallen, Step, clockVars, FallenState, SoftStart
  <2>2. sys_times < FullPower => RampedGain(sys_times) # "nominal"
    BY DEF RampedGain
  <2> QED BY <1>1, <2>1, <2>2 DEF RampInv, Jumping, Low
<1>4. CASE CarRecovered
  <2>1. /\ run_state = 0 /\ isr' = "idle" /\ sys_times' = 0 /\ run_state' = 1
        /\ jump_state' = jump_state
    BY <1>4 DEF CarRecovered, Step, RestartClock
  <2> QED BY <1>1, <2>1, Bounds DEF RampInv, Jumping
<1>5. CASE CarUpright
  <2>1. /\ isr = "state" /\ run_state' = run_state
        /\ UNCHANGED <<sys_times, jump_state, saved>>
    BY <1>5 DEF CarUpright, Step, clockVars, gateVars
  <2>2. CASE Jumping
    <3>1. /\ live'.angle_p = saved.angle_p
          /\ live'.speed_p \in {saved.speed_p, "zero"}
      BY <1>5, <2>2 DEF CarUpright, JumpGains
    <3> QED BY <1>1, <2>1, <2>2, <3>1 DEF RampInv, Jumping, Low
  <2>3. CASE ~Jumping
    <3>1. live'.angle_p = RampedGain(sys_times) /\ live'.speed_p = RampedGain(sys_times)
      BY <1>5, <2>3 DEF CarUpright, SoftStart
    <3>2. sys_times < FullPower => RampedGain(sys_times) # "nominal"
      BY DEF RampedGain
    <3> QED BY <1>1, <2>1, <2>3, <3>1, <3>2 DEF RampInv, Jumping, Low
  <2> QED BY <2>2, <2>3
<1>6. CASE StairService \/ RemoteUpdate \/ SteerControl
  <2>1. /\ isr \notin {"idle", "state"} /\ isr' # "idle" /\ isr' # "state"
        /\ UNCHANGED <<sys_times, run_state>>
    BY <1>6 DEF StairService, RemoteUpdate, SteerControl, Step, clockVars, gateVars
  <2>2. JumpMove
    BY <1>6, JumpMoves
  <2>3. CASE UNCHANGED <<saved, live>> /\ (Jumping' => Jumping)
    BY <1>1, <2>1, <2>3 DEF RampInv, Low
  <2>4. CASE Jumping /\ saved' = saved /\ live' = saved
    BY <1>1, <2>1, <2>4 DEF RampInv, Low
  <2>5. CASE ~Jumping /\ run_state # 0 /\ saved' = live /\ live' = FixedGains(live)
    BY <1>1, <2>1, <2>5 DEF RampInv, Low, FixedGains
  <2> QED BY <2>2, <2>3, <2>4, <2>5 DEF JumpMove
<1>7. CASE NagStep \/ BridgeService \/ StraightService \/ MotorOutput
  <2>1. /\ isr \notin {"idle", "state"} /\ isr' # "state"
        /\ UNCHANGED <<sys_times, run_state, jump_state, saved, live>>
    BY <1>7 DEF NagStep, BridgeService, StraightService, MotorOutput, Step,
                clockVars, gateVars, jumpVars
  <2> QED BY <1>1, <2>1 DEF RampInv, Low, Jumping
<1>8. CASE Main \/ \E p \in Pages : MenuOpen(p)
  <2>1. UNCHANGED <<isr, sys_times, jump_state, saved, live>>
    BY <1>8, MainKeepsGains DEF RampInv
  <2>2. run_state' = run_state \/ run_state' = 1
    <3>1. todo # <<>> /\ Head(todo) = "run_state_on" => run_state' = 1
      BY <1>8 DEF Main, MainStep, NagLoaded, RotationSeen, MenuOpen, StoreFlags,
         AbortStores, DefaultStores, ContextStores, TriggerStores, RotationStores,
         At, Stored, RunStateStores
    <3> QED BY <1>8, <3>1, MainFlags
  <2> QED BY <1>1, <2>1, <2>2 DEF RampInv, Low, Jumping
<1>9. CASE UNCHANGED vars
  BY <1>1, <1>9 DEF vars, clockVars, gateVars, jumpVars, RampInv, Low, Jumping
<1> QED BY <1>2, <1>3, <1>4, <1>5, <1>6, <1>7, <1>8, <1>9 DEF Next, Tick

(* Through the soft start the balance loops never have a full balance or     *)
(* speed gain at the end of a tick, whatever jumps the remote control starts *)
(* and whatever falls and stops end them: a fall ends the jump before the    *)
(* clock starts anew (Body_ctrl.c:467-484), so that no jump brings gains of  *)
(* before the fall into the ramp. The pages that start jumps in the main     *)
(* loop have to be closed: the stair sequence, opened in the settle time,    *)
(* jumps with the gains as they were configured, and the soft start leaves a *)
(* jump alone (Body_ctrl.c:485).                                             *)
THEOREM DriveRampHoldsGains == Pages \cap JumpPages = {} /\ Spec => []RampHoldsGains
<1> SUFFICES ASSUME Pages \cap JumpPages = {}
             PROVE  Spec => []RampHoldsGains
  OBVIOUS
<1>1. RampInv => RampHoldsGains
  BY DEF RampInv, RampHoldsGains, Low
<1>2. RampInv /\ [Next]_vars => RampInv'
  BY RampNext
<1> QED BY <1>1, <1>2, RampInit, PTL DEF Spec

---------------------------------------------------------------------------
(* The page of a routine.                                                  *)

\* A routine that belongs to no open page is one of the recorder's or the end
\* of a rotation.
PageInv == page \in Pages \/ (page = "none" /\ todo \in Seq(CommonOps))

LEMMA PageInit == Init => PageInv
BY DEF Init, PageInv

LEMMA PageNext ==
    ASSUME PageInv, [Next]_vars
    PROVE  PageInv'
<1>1. CASE UNCHANGED <<page, todo>>
  BY <1>1 DEF PageInv
<1>2. CASE \E p \in Pages : MenuOpen(p)
  BY <1>2 DEF MenuOpen, PageInv
<1>3. ASSUME page' = page, Main
      PROVE  PageInv'
  <2>1. CASE page \in Pages
    BY <1>3, <2>1 DEF PageInv
  <2>2. CASE page = "none" /\ todo \in Seq(CommonOps)
    <3>1. "default_check" \notin CommonOps /\ "trigger_check" \notin CommonOps
      BY DEF CommonOps
    <3>2. /\ ReadyOps \in Seq(CommonOps) /\ EmptyOps \in Seq(CommonOps)
          /\ <<"stop_speed", "rotation_off">> \in Seq(CommonOps)
      BY DEF CommonOps, ReadyOps, EmptyOps
    <3>3. \/ todo # <<>> /\ todo' = Tail(todo)
          \/ todo' \in {ReadyOps, EmptyOps, <<"stop_speed", "rotation_off">>}
          \/ page' \in Pages
      <4>1. todo # <<>> => Head(todo) \in CommonOps
        BY <2>2
      <4> QED BY <1>3, <3>1, <4>1, MainRoutine
    <3>4. todo # <<>> => Tail(todo) \in Seq(CommonOps)
      BY <2>2
    <3> QED BY <1>3, <2>2, <3>2, <3>3, <3>4 DEF PageInv
  <2> QED BY <2>1, <2>2 DEF PageInv
<1>4. CASE NagLoaded
  BY <1>3, <1>4 DEF NagLoaded, Main
<1>5. CASE RotationSeen
  <2>1. page' = "none" /\ todo' = <<"stop_speed", "rotation_off">>
    BY <1>5 DEF RotationSeen
  <2> QED BY <2>1 DEF PageInv, CommonOps
<1>6. CASE MainStep
  <2>1. page' = page
    BY <1>6 DEF MainStep, StoreFlags, AbortStores, DefaultStores, ContextStores,
       TriggerStores, RotationStores, untouchedByMain
  <2> QED BY <1>3, <1>6, <2>1 DEF Main
<1>7. CASE Tick
  BY <1>1, <1>7, TickKeepsRoutine
<1>8. CASE UNCHANGED vars
  BY <1>1, <1>8 DEF vars, mainVars
<1> QED BY <1>2, <1>4, <1>5, <1>6, <1>7, <1>8 DEF Next, Main

---------------------------------------------------------------------------
(* The stick.                                                              *)

\* The stores of the pages that never hold the position.
HoldPages == {"D2", "D3"}
FreeOps == FlagOps \cup Abortings \cup
    {"ctx_off", "ctx_active", "ctx_runup", "ctx_reset", "jump_speed"}

LEMMA FreeWithin ==
    ASSUME Pages \cap HoldPages = {}
    PROVE  Within(FreeOps)
<1>1. Pages \subseteq {"A1", "A3", "D1"} \cup {"D4", "D6"}
  BY InputsAssumption DEF InputsAssumption, AllPages, HoldPages
<1>2. \A p \in {"A1", "A3", "D1"} : PageOps[p] \in Seq(FreeOps)
  BY PageRoutines DEF FreeOps, FlagOps, CommonOps
<1>3. PageOps["D4"] \in Seq(FreeOps)
  BY JumpRoutine DEF FreeOps
<1>4. PageOps["D6"] \in Seq(FreeOps)
  BY RotationRoutine DEF FreeOps, FlagOps, CommonOps
<1>5. /\ CommonOps \subseteq FreeOps /\ "trigger_check" \notin FreeOps
      /\ {"abort_read", "abort_idle", "abort_restore"} \subseteq FreeOps
  BY DEF FreeOps, FlagOps, CommonOps, Abortings
<1> QED BY <1>1, <1>2, <1>3, <1>4, <1>5 DEF Within

\* The position is never held, an armed car knows its transmitter, and after
\* the receiver's step an armed car that is free has the speed of the stick.
StickInv ==
    /\ todo \in Seq(FreeOps)
    /\ mode = "jump" /\ px_enable = FALSE
    /\ armed => detected
    /\ isr = "output" /\ armed /\ StickFree => target_speed = channel.speed

LEMMA StickInit == Init => StickInv
BY DEF Init, StickInv

\* What the main loop leaves of the context of the tests.
LEMMA MainHolds ==
    ASSUME PageInv, Pages \cap HoldPages = {}, StickInv,
           Main \/ \E p \in Pages : MenuOpen(p)
    PROVE  mode' = "jump" /\ px_enable' = FALSE
<1>1. CASE ContextStores
  <2>1. todo # <<>> /\ Head(todo) \in FreeOps
    BY <1>1 DEF ContextStores, At, StickInv
  <2>2. Head(todo) # "px_on"
    BY <2>1 DEF FreeOps, FlagOps, CommonOps, Abortings
  <2>3. px_enable' \in {px_enable, FALSE}
    BY <1>1, <2>2 DEF ContextStores, At
  <2>4. CASE Head(todo) = "ctx_active"
    <3>1. page \in Pages
      <4>1. "ctx_active" \notin CommonOps
        BY DEF CommonOps
      <4> QED BY <2>1, <2>4, <4>1 DEF PageInv
    <3>2. PageMode[page] = "jump"
      BY <3>1, InputsAssumption DEF InputsAssumption, PageMode, HoldPages
    <3>3. mode' = PageMode[page]
      BY <1>1, <2>4 DEF ContextStores, At
    <3> QED BY <2>3, <3>2, <3>3 DEF StickInv
  <2>5. CASE Head(todo) # "ctx_active"
    <3>1. mode' = mode
      BY <1>1, <2>5 DEF ContextStores, At
    <3> QED BY <2>3, <3>1 DEF StickInv
  <2> QED BY <2>4, <2>5
<1>2. CASE TriggerStores
  <2>1. UNCHANGED <<mode, px_enable>>
    BY <1>2 DEF TriggerStores, stairVars
  <2> QED BY <2>1 DEF StickInv
<1>3. CASE StoreFlags \/ AbortStores \/ DefaultStores \/ RotationStores
  BY <1>3 DEF StoreFlags, AbortStores, DefaultStores, RotationStores, stairVars,
     StickInv
<1>4. CASE NagLoaded \/ RotationSeen \/ \E p \in Pages : MenuOpen(p)
  BY <1>4 DEF NagLoaded, RotationSeen, MenuOpen, stairVars, StickInv
<1> QED BY <1>1, <1>2, <1>3, <1>4 DEF Main, MainStep

\* What the callback's tests leave of it.
LEMMA StairHolds ==
    ASSUME StickInv, StairService
    PROVE  mode' = "jump" /\ px_enable' = FALSE
<1>1. CASE Runup
  BY <1>1 DEF Runup, RunupTrigger, RunupWait, StickInv
<1>2. CASE Watch
  <2>1. ~MoreJumps
    BY DEF MoreJumps, StickInv
  <2>2. CASE JumpOver
    <3>1. mode' = mode /\ px_enable' = (MoreJumps \/ px_enable)
      BY <2>2 DEF JumpOver
    <3> QED BY <2>1, <3>1 DEF StickInv
  <2> QED BY <1>2, <2>2 DEF Watch, JumpTimedOut, Finish, JumpWait, StickInv
<1>3. CASE Stopping
  BY <1>3 DEF Stopping, Finish, StopWait, StickInv
<1> QED BY <1>1, <1>2, <1>3 DEF StairService, StickInv, stairVars

\* The receiver's step: the stick of an armed car that is free sets the speed.
LEMMA StickRemote ==
    ASSUME StickInv, RemoteInv, RemoteUpdate
    PROVE  /\ armed' => detected'
           /\ isr' = "output" /\ armed' /\ StickFree' => target_speed' = channel'.speed
           /\ mode' = "jump" /\ px_enable' = FALSE
<1>1. PICK ch \in Channels, on \in BOOLEAN, det \in BOOLEAN,
           lost \in {0, lost_count_ms, lost_count_ms + 1} :
           Decide(ch, on, det, lost) /\ (det \/ det = detected)
  BY FrameChannels DEF RemoteUpdate, RemoteInv, RemoteTypes
<1>2. channel' = ch /\ detected' = det
  BY <1>1 DEF Decide
<1>3. CASE ~det /\ Unarmed
  <2>1. UNCHANGED <<armed, mode, px_enable>>
    BY <1>3 DEF Unarmed, remoteStopVars, stairVars
  <2>2. ~armed
    BY <1>1, <1>3 DEF StickInv
  <2> QED BY <2>1, <2>2 DEF StickInv
<1>4. CASE det /\ ForceStop
  <2>1. armed' = FALSE
    BY <1>4 DEF ForceStop
  <2>2. mode' = mode /\ px_enable' \in {px_enable, FALSE}
    BY <1>4 DEF ForceStop, StairAbort, stairVars
  <2> QED BY <2>1, <2>2 DEF StickInv
<1>5. CASE det /\ StickDrives(ch)
  <2>1. UNCHANGED <<bridge_state, rotation_state, straight_state, active, mode, px_enable>>
    BY <1>5 DEF StickDrives, bridgeVars, rotationVars, stairVars, RemoteUpdate
  <2>2. target_speed' = IF StickFree THEN StickSpeed(ch) ELSE target_speed
    BY <1>5 DEF StickDrives
  <2>3. Jumping => Jumping'
    <3>1. UNCHANGED jumpVars \/ \E v : Trigger(v)
      BY <1>5 DEF StickDrives
    <3>2. ASSUME NEW v, Trigger(v)
          PROVE  Jumping => Jumping'
      BY <3>2 DEF Trigger, TriggerResult, jumpVars, Jumping
    <3>3. CASE UNCHANGED jumpVars
      BY <3>3 DEF jumpVars, Jumping
    <3> QED BY <3>1, <3>2, <3>3
  <2>4. StickFree' => StickFree
    BY <2>1, <2>3 DEF StickFree, Rotating, Bridging
  <2> QED BY <1>2, <1>5, <2>1, <2>2, <2>4 DEF StickSpeed, StickInv
<1> QED BY <1>1, <1>3, <1>4, <1>5 DEF Decide

LEMMA StickNext ==
    ASSUME Pages \cap HoldPages = {}, StickInv, RemoteInv, PageInv, [Next]_vars
    PROVE  StickInv'
<1>1. todo' \in Seq(FreeOps)
  BY FreeWithin, RoutineWithin DEF StickInv
<1>2. CASE RemoteUpdate
  BY <1>1, <1>2, StickRemote DEF StickInv, RemoteUpdate, Step
<1>3. CASE Main \/ \E p \in Pages : MenuOpen(p)
  <2>1. isr' = "idle" /\ UNCHANGED <<armed, detected>>
    BY <1>3, MainKeepsRemote DEF remoteVars
  <2> QED BY <1>1, <1>3, <2>1, MainHolds DEF StickInv
<1>4. CASE StairService
  <2>1. isr' = "bridge" /\ UNCHANGED <<armed, detected>>
    BY <1>4 DEF StairService, Step, remoteVars
  <2> QED BY <1>1, <1>4, <2>1, StairHolds DEF StickInv
<1>5. CASE Tick /\ ~StairService /\ ~RemoteUpdate
  <2>1. isr' # "output" /\ UNCHANGED <<mode, px_enable>>
    BY <1>5 DEF Tick, Step, TickBegin, CarFallen, CarRecovered, CarUpright, NagStep,
       BridgeService, SteerControl, StraightService, MotorOutput, stairVars
  <2>2. UNCHANGED <<armed, detected>>
    BY <1>5, TickKeepsRemote DEF remoteVars
  <2> QED BY <1>1, <2>1, <2>2 DEF StickInv
<1>6. CASE UNCHANGED vars
  BY <1>1, <1>6 DEF StickInv, StickFree, Jumping, Rotating, Bridging, vars, stairVars,
     remoteVars, jumpVars, rotationVars, bridgeVars
<1> QED BY <1>2, <1>3, <1>4, <1>5, <1>6 DEF Next

LEMMA StickStep ==
    ASSUME StickInv, [Next]_vars
    PROVE  isr = "output" /\ isr' = "idle" /\ STOP_FLAG = 1 /\ online /\ armed
              /\ StickFree /\ sys_times = FullPower
              => demand' = channel.speed
<1> SUFFICES ASSUME isr = "output", isr' = "idle", STOP_FLAG = 1, armed, StickFree,
                    sys_times = FullPower
             PROVE  demand' = channel.speed
  OBVIOUS
<1>1. MotorOutput
  <2>1. CASE Tick /\ ~RemoteUpdate
    BY <2>1, TickKeepsRemote DEF Inside, TickBegin, CarRecovered, Step
  <2>2. CASE RemoteUpdate
    BY <2>2 DEF RemoteUpdate, Step
  <2>3. CASE Main \/ \E p \in Pages : MenuOpen(p)
    BY <2>3, MainKeepsRemote
  <2>4. CASE UNCHANGED vars
    BY <2>4 DEF vars
  <2> QED BY <2>1, <2>2, <2>3, <2>4 DEF Next
<1>2. SpeedLoopEnabled
  BY DEF SpeedLoopEnabled, StickFree, StickInv
<1>3. OutputSpeed = target_speed
  BY Bounds DEF OutputSpeed
<1>4. demand' = OutputSpeed
  BY <1>1, <1>2 DEF MotorOutput
<1> QED BY <1>3, <1>4 DEF StickInv

(* With no manoeuvre under way the stick of an armed car alone sets the      *)
(* speed, in the tick that reads it and over whatever the main loop stored   *)
(* before (Remote_ctrl.c:130-144). The pages that hold the position have to  *)
(* be closed: stair_single_start enables the hold last (Stair_test.c:451),   *)
(* after a forced stop in between has ended the test it belongs to.          *)
THEOREM DriveStickObeyed == Pages \cap HoldPages = {} /\ Spec => StickObeyed
<1> SUFFICES ASSUME Pages \cap HoldPages = {}
             PROVE  Spec => StickObeyed
  OBVIOUS
<1> DEFINE I == RemoteInv /\ PageInv /\ StickInv
<1>1. Init => I
  BY RemoteInit, PageInit, StickInit
<1>2. I /\ [Next]_vars => I'
  BY RemoteNext, PageNext, StickNext
<1>3. I /\ [Next]_vars =>
          [isr = "output" /\ isr' = "idle" /\ STOP_FLAG = 1 /\ online /\ armed
              /\ StickFree /\ sys_times = FullPower
              => demand' = channel.speed]_vars
  BY StickStep
<1> QED BY <1>1, <1>2, <1>3, PTL DEF Spec, StickObeyed
---------------------------------------------------------------------------
(* Types.                                                                  *)

\* The flags, the clock and the states the callback and the pages share.
FlagTypes ==
    /\ isr \in Steps
    /\ sys_times \in 0..FullPower /\ tilted \in BOOLEAN
    /\ startup_zero_ready \in BOOLEAN
    /\ run_state \in {0, 1} /\ STOP_FLAG \in {0, 1} /\ fuxian \in {0, 1}
    /\ motors \in {"driven", "zero"} /\ demand \in Int
    /\ straight_state \in {"IDLE", "LOCKING", "RUNNING", "DONE"}
    /\ nag \in {"idle", "record", "preload", "replay", "over"}
    /\ fell \in BOOLEAN

\* The gains and the parameters of a jump, and the locals of its stores.
GainTypes ==
    /\ saved \in GainSets /\ live \in GainSets /\ cfg \in {"default", "stair"}
    /\ was_active \in BOOLEAN
    /\ trigger_result \in {"OK", "BUSY", "NOT_RUNNING", "TILT"}

\* The context of the tests.
TestTypes ==
    /\ mode \in Modes /\ active \in BOOLEAN /\ phase \in StairPhases
    /\ phase_timer \in [Modes -> Nat] /\ jump_index \in Nat
    /\ jump_ok \in BOOLEAN /\ fail_reason \in Reasons /\ px_enable \in BOOLEAN

\* The counters of the bridge, the rotation and the receiver.
CourseTypes ==
    /\ bridge_state \in {"IDLE", "RUNNING", "EXITING"}
    /\ side \in Sides \cup {"NONE"}
    /\ entry_stable_count \in Nat /\ exit_stable_count \in Nat
    /\ bridge_elapsed \in Nat /\ cooldown \in Nat
    /\ rotation_state \in {"IDLE", "RUNNING", "BRAKING", "DONE"}
    /\ rotation_elapsed \in Nat
    /\ lost_count_ms \in Nat

LEMMA GainKindsHave ==
    /\ "nominal" \in GainKinds /\ "ramped" \in GainKinds /\ "zero" \in GainKinds
    /\ NominalGains \in GainSets /\ ZeroGains \in GainSets
    /\ \A t : RampedGain(t) \in GainKinds
BY DEF GainKinds, GainSets, NominalGains, ZeroGains, RampedGain

LEMMA FlagTypesTick ==
    ASSUME FlagTypes, BridgeInv, Tick
    PROVE  FlagTypes'
<1> USE DEF FlagTypes, Steps
<1>1. CASE TickBegin
  <2>1. sys_times' \in 0..FullPower
    <3>1. sys_times' = IF sys_times < FullPower THEN sys_times + 1 ELSE sys_times
      BY <1>1 DEF TickBegin
    <3> QED BY <3>1, Bounds
  <2>2. /\ tilted' \in BOOLEAN /\ isr' \in {"idle", "state"}
        /\ motors' \in {"driven", "zero"} /\ demand' \in Int
    BY <1>1, InputsAssumption DEF TickBegin, InputsAssumption, motorVars
  <2>3. startup_zero_ready' \in BOOLEAN /\ fell' \in BOOLEAN
    BY <1>1 DEF TickBegin
  <2>4. UNCHANGED <<gateVars, straight_state, nag>>
    BY <1>1 DEF TickBegin
  <2> QED BY <2>1, <2>2, <2>3, <2>4 DEF gateVars
<1>2. CASE CarFallen \/ CarUpright
  BY <1>2 DEF CarFallen, CarUpright, Step, clockVars, gateVars, motorVars, seenVars
<1>3. CASE CarRecovered
  <2>1. 0 \in 0..FullPower
    BY Bounds
  <2> QED BY <1>3, <2>1 DEF CarRecovered, RestartClock, Step, seenVars
<1>4. CASE NagStep
  BY <1>4 DEF NagStep, Step, clockVars, motorVars, seenVars
<1>5. CASE StairService \/ BridgeService \/ SteerControl
  BY <1>5 DEF StairService, BridgeService, SteerControl, Step, clockVars, gateVars,
     motorVars, seenVars
<1>6. CASE StraightService
  <2>1. /\ straight_state' \in {straight_state, "RUNNING", "DONE"}
        /\ STOP_FLAG' \in {STOP_FLAG, 0, 1}
    BY <1>6 DEF StraightService, StraightLocked, StraightRunning, LineStop
  <2> QED BY <1>6, <2>1 DEF StraightService, Step, clockVars, motorVars, seenVars
<1>7. CASE RemoteUpdate
  <2>1. \/ Unarmed \/ ForceStop \/ \E ch : StickDrives(ch)
    BY <1>7 DEF RemoteUpdate, Decide
  <2>2. STOP_FLAG' \in {STOP_FLAG, 0, 1} /\ fuxian' \in {fuxian, 0}
    BY <2>1 DEF Unarmed, ForceStop, StickDrives
  <2> QED BY <1>7, <2>2 DEF RemoteUpdate, Step, clockVars, motorVars
<1>8. CASE MotorOutput
  <2>1. demand' \in Int /\ motors' \in {"driven", "zero"}
    BY <1>8 DEF MotorOutput, OutputSpeed, BridgeInv, Speeds
  <2> QED BY <1>8, <2>1 DEF MotorOutput, Step, clockVars, gateVars, seenVars
<1> QED BY <1>1, <1>2, <1>3, <1>4, <1>5, <1>6, <1>7, <1>8 DEF Tick

LEMMA FlagTypesMain ==
    ASSUME FlagTypes, Main \/ \E p \in Pages : MenuOpen(p)
    PROVE  FlagTypes'
<1>1. UNCHANGED <<isr, sys_times, tilted, startup_zero_ready, motors, demand, fell>>
  BY MainKeepsRemote, MainFlags DEF clockVars, motorVars
<1>2. ASSUME UNCHANGED <<gateVars, straight_state, nag>>
      PROVE  FlagTypes'
  BY <1>1, <1>2 DEF FlagTypes, gateVars
<1>3. CASE StoreFlags
  <2>1. /\ run_state' = Stored(RunStateStores, run_state)
        /\ STOP_FLAG' = Stored(StopFlagStores, STOP_FLAG)
        /\ fuxian' = Stored(FuxianStores, fuxian)
        /\ nag' = Stored(NagStores, nag)
        /\ straight_state' = Stored(StraightStores, straight_state)
    BY <1>3 DEF StoreFlags
  <2>2. run_state' \in {0, 1}
    BY <2>1 DEF FlagTypes, Stored, RunStateStores
  <2>3. STOP_FLAG' \in {0, 1}
    BY <2>1 DEF FlagTypes, Stored, StopFlagStores
  <2>4. fuxian' \in {0, 1}
    BY <2>1 DEF FlagTypes, Stored, FuxianStores
  <2>5. nag' \in {"idle", "record", "preload", "replay", "over"}
    BY <2>1 DEF FlagTypes, Stored, NagStores
  <2>6. straight_state' \in {"IDLE", "LOCKING", "RUNNING", "DONE"}
    BY <2>1 DEF FlagTypes, Stored, StraightStores
  <2> QED BY <1>1, <2>2, <2>3, <2>4, <2>5, <2>6 DEF FlagTypes
<1>4. CASE AbortStores \/ DefaultStores \/ ContextStores \/ TriggerStores \/ RotationStores
  BY <1>2, <1>4 DEF AbortStores, DefaultStores, ContextStores, TriggerStores,
     RotationStores
<1>5. CASE NagLoaded \/ RotationSeen \/ \E p \in Pages : MenuOpen(p)
  BY <1>2, <1>5 DEF NagLoaded, RotationSeen, MenuOpen
<1> QED BY <1>3, <1>4, <1>5 DEF Main, MainStep

LEMMA FlagTypesInit == Init => FlagTypes
<1>1. 0 \in 0..FullPower
  BY Bounds
<1>2. Tilts \subseteq BOOLEAN
  BY InputsAssumption DEF InputsAssumption
<1> SUFFICES ASSUME Init PROVE FlagTypes
  OBVIOUS
<1>3. sys_times \in 0..FullPower /\ tilted \in BOOLEAN
  BY <1>1, <1>2 DEF Init
<1>4. startup_zero_ready \in BOOLEAN /\ fell \in BOOLEAN
  BY DEF Init
<1>5. isr \in Steps /\ demand \in Int
  BY DEF Init, Steps
<1> QED BY <1>3, <1>4, <1>5 DEF Init, FlagTypes

\* What the jump's operations do to the gains.
LEMMA TriggerGainTypes ==
    ASSUME GainTypes, NEW v, Trigger(v)
    PROVE  saved' \in GainSets /\ live' \in GainSets
<1>1. FixedGains(live) \in GainSets
  BY GainKindsHave DEF GainTypes, FixedGains, GainSets
<1> QED BY <1>1 DEF GainTypes, Trigger, jumpVars

LEMMA AbortGainTypes ==
    ASSUME GainTypes, Abort
    PROVE  saved' \in GainSets /\ live' \in GainSets
BY DEF GainTypes, Abort

LEMMA SoftGainTypes ==
    ASSUME NEW t, NEW g \in GainSets, NEW v, SoftStart(t, g, v)
    PROVE  live' \in GainSets
BY GainKindsHave DEF SoftStart, GainSets

LEMMA StairGainTypes ==
    ASSUME GainTypes, StairService
    PROVE  saved' \in GainSets /\ live' \in GainSets /\ cfg' \in {"default", "stair"}
<1>1. CASE UNCHANGED <<jumpVars, cfg>>
  BY <1>1 DEF GainTypes, jumpVars
<1>2. ASSUME NEW ok, NEW reason, Finish(ok, reason)
      PROVE  saved' \in GainSets /\ live' \in GainSets /\ cfg' \in {"default", "stair"}
  <2>1. (Abort /\ cfg' = "default") \/ UNCHANGED <<jumpVars, cfg>>
    BY <1>2 DEF Finish, FinishJump, ConfigDefault
  <2> QED BY <1>1, <2>1, AbortGainTypes
<1>3. CASE Runup
  <2>1. CASE RunupTrigger
    <3>1. (\E v : Trigger(v)) /\ cfg' \in {"stair", cfg}
      BY <2>1 DEF RunupTrigger, TriggerJump
    <3> QED BY <3>1, TriggerGainTypes DEF GainTypes
  <2>2. CASE RunupWait
    BY <1>1, <2>2 DEF RunupWait
  <2> QED BY <1>3, <2>1, <2>2 DEF Runup
<1>4. CASE Watch
  <2>1. CASE JumpTimedOut
    BY <2>1, AbortGainTypes DEF JumpTimedOut, GainTypes
  <2>2. CASE JumpOver \/ JumpWait
    BY <1>1, <2>2 DEF JumpOver, JumpWait
  <2> QED BY <1>2, <1>4, <2>1, <2>2 DEF Watch
<1>5. CASE Stopping
  <2>1. CASE StopWait
    BY <1>1, <2>1 DEF StopWait
  <2> QED BY <1>2, <1>5, <2>1 DEF Stopping
<1> QED BY <1>1, <1>3, <1>4, <1>5 DEF StairService

LEMMA RemoteGainTypes ==
    ASSUME GainTypes, RemoteUpdate
    PROVE  saved' \in GainSets /\ live' \in GainSets /\ cfg' \in {"default", "stair"}
<1>1. \E ch, on, det, lost : Decide(ch, on, det, lost)
  BY DEF RemoteUpdate
<1>2. Unarmed \/ ForceStop \/ \E ch : StickDrives(ch)
  BY <1>1 DEF Decide
<1>3. /\ UNCHANGED jumpVars \/ Abort \/ \E v : Trigger(v)
      /\ cfg' \in {cfg, "default"}
  <2>1. CASE Unarmed
    BY <2>1 DEF Unarmed, remoteStopVars
  <2>2. CASE ForceStop
    BY <2>2 DEF ForceStop, StairAbort, ConfigDefault
  <2>3. CASE \E ch : StickDrives(ch)
    BY <2>3 DEF StickDrives
  <2> QED BY <1>2, <2>1, <2>2, <2>3
<1>4. CASE UNCHANGED jumpVars
  BY <1>3, <1>4 DEF jumpVars, GainTypes
<1> QED BY <1>3, <1>4, AbortGainTypes, TriggerGainTypes DEF GainTypes

LEMMA GainTypesTick ==
    ASSUME GainTypes, Tick
    PROVE  GainTypes'
<1>1. UNCHANGED <<was_active, trigger_result>>
  BY TickKeepsRoutine
<1>2. CASE TickBegin \/ NagStep \/ BridgeService \/ StraightService \/ MotorOutput
  <2>1. UNCHANGED <<jumpVars, cfg>>
    BY <1>2 DEF TickBegin, NagStep, BridgeService, StraightService, MotorOutput
  <2> QED BY <1>1, <2>1 DEF GainTypes, jumpVars
<1>3. CASE CarFallen \/ CarRecovered \/ CarUpright
  <2>1. UNCHANGED <<saved, cfg>>
    BY <1>3 DEF CarFallen, CarRecovered, CarUpright
  <2>2. \/ \E t : \E g \in {saved, live} : \E v : SoftStart(t, g, v)
        \/ JumpGains
    BY <1>3 DEF CarFallen, CarRecovered, CarUpright
  <2>3. JumpGains => live' \in GainSets
    BY GainKindsHave DEF JumpGains, GainTypes, GainSets
  <2> QED BY <1>1, <2>1, <2>2, <2>3, SoftGainTypes DEF GainTypes
<1>4. CASE SteerControl
  <2>1. cfg' = cfg /\ JumpTick
    BY <1>4 DEF SteerControl
  <2>2. saved' = saved /\ live' \in {live, saved}
    BY <2>1 DEF JumpTick, GainsAfter, jumpVars
  <2> QED BY <1>1, <2>1, <2>2 DEF GainTypes
<1> QED
  BY <1>1, <1>2, <1>3, <1>4, StairGainTypes, RemoteGainTypes DEF Tick, GainTypes

LEMMA GainTypesMain ==
    ASSUME GainTypes, Main \/ \E p \in Pages : MenuOpen(p)
    PROVE  GainTypes'
<1>1. CASE StoreFlags \/ ContextStores \/ RotationStores
  BY <1>1 DEF StoreFlags, ContextStores, RotationStores, jumpVars, GainTypes
<1>2. CASE AbortStores
  <2>1. /\ was_active' \in BOOLEAN
        /\ live' \in {live, saved} /\ UNCHANGED <<saved, cfg, trigger_result>>
    BY <1>2 DEF AbortStores, jumpVars, Jumping, GainTypes
  <2> QED BY <2>1 DEF GainTypes
<1>3. CASE DefaultStores
  BY <1>3 DEF DefaultStores, GainTypes
<1>4. CASE TriggerStores
  <2>1. FixedGains(saved) \in GainSets
    BY GainKindsHave DEF GainTypes, FixedGains, GainSets
  <2>2. /\ saved' \in {saved, live} /\ live' \in {live, FixedGains(saved)}
        /\ trigger_result' \in {trigger_result, "OK", "BUSY", "NOT_RUNNING", "TILT"}
        /\ UNCHANGED <<cfg, was_active>>
    BY <1>4 DEF TriggerStores, jumpVars, TriggerResult
  <2> QED BY <2>1, <2>2 DEF GainTypes
<1>5. CASE NagLoaded \/ RotationSeen \/ \E p \in Pages : MenuOpen(p)
  BY <1>5 DEF NagLoaded, RotationSeen, MenuOpen, jumpVars, GainTypes
<1> QED BY <1>1, <1>2, <1>3, <1>4, <1>5 DEF Main, MainStep

LEMMA GainTypesInit == Init => GainTypes
BY GainKindsHave DEF Init, GainTypes

\* The context: what a timer, an end of a test and the others leave.
LEMMA TimerTypes ==
    ASSUME TestTypes
    PROVE  /\ Timer \in Nat
           /\ \A n \in Nat : SetTimer(n) => phase_timer' \in [Modes -> Nat]
<1>1. phase_timer[mode] \in Nat
  BY DEF TestTypes
<1> QED BY <1>1 DEF TestTypes, Timer, SetTimer

LEMMA FinishTypes ==
    ASSUME TestTypes, NEW ok \in BOOLEAN, NEW reason \in Reasons, Finish(ok, reason)
    PROVE  TestTypes'
<1>1. phase_timer' \in [Modes -> Nat]
  BY TimerTypes DEF Finish
<1> QED BY <1>1 DEF Finish, TestTypes, StairPhases

LEMMA ReasonsHave ==
    /\ "NONE" \in Reasons /\ "TRIGGER" \in Reasons /\ "JUMP_TO" \in Reasons
    /\ "STOP_TO" \in Reasons /\ "OVER_DIST" \in Reasons
BY DEF Reasons

LEMMA TestTypesStair ==
    ASSUME TestTypes, StairService
    PROVE  TestTypes'
<1>1. CASE Runup
  <2>1. UNCHANGED <<mode, active, jump_index>>
    BY <1>1 DEF Runup
  <2>2. CASE RunupTrigger
    <3>1. \E v : TriggerJump(v)
      BY <2>2 DEF RunupTrigger
    <3>2. /\ phase' = "JUMPING" /\ SetTimer(0) /\ jump_ok' \in BOOLEAN
          /\ fail_reason' \in Reasons
      BY <3>1, ReasonsHave DEF TriggerJump
    <3>3. px_enable' \in {px_enable, FALSE}
      BY <2>2 DEF RunupTrigger
    <3> QED BY <2>1, <3>2, <3>3, TimerTypes DEF TestTypes, StairPhases
  <2>3. CASE RunupWait
    BY <2>1, <2>3, TimerTypes DEF RunupWait, TestTypes
  <2> QED BY <1>1, <2>2, <2>3 DEF Runup
<1>2. CASE Watch
  <2>1. CASE JumpTimedOut
    BY <2>1, TimerTypes, ReasonsHave DEF JumpTimedOut, TestTypes, StairPhases
  <2>2. CASE JumpOver
    <3>1. /\ phase' \in {"RUNUP", "STOPPING"} /\ SetTimer(0)
          /\ jump_index' \in {jump_index, jump_index + 1}
          /\ px_enable' \in BOOLEAN
          /\ UNCHANGED <<mode, active, jump_ok, fail_reason>>
      BY <2>2 DEF JumpOver, MoreJumps, TestTypes
    <3> QED BY <3>1, TimerTypes DEF TestTypes, StairPhases
  <2>3. CASE JumpWait
    BY <2>3, TimerTypes DEF JumpWait, TestTypes
  <2>4. CASE Finish(FALSE, fail_reason)
    BY <2>4, FinishTypes DEF TestTypes
  <2> QED BY <1>2, <2>1, <2>2, <2>3, <2>4 DEF Watch
<1>3. CASE Stopping
  <2>1. CASE StopWait
    BY <2>1, TimerTypes DEF StopWait, TestTypes
  <2> QED BY <1>3, <2>1, FinishTypes, ReasonsHave DEF Stopping
<1>4. CASE SetTimer(Timer) /\ UNCHANGED <<mode, active, phase, jump_index, jump_ok,
                                         fail_reason, px_enable>>
  BY <1>4, TimerTypes DEF TestTypes
<1>5. CASE UNCHANGED stairVars
  BY <1>5 DEF stairVars, TestTypes
<1> QED BY <1>1, <1>2, <1>3, <1>4, <1>5 DEF StairService

LEMMA TestTypesTick ==
    ASSUME TestTypes, Tick
    PROVE  TestTypes'
<1>1. CASE UNCHANGED stairVars
  BY <1>1 DEF stairVars, TestTypes
<1>2. CASE RemoteUpdate
  <2>1. Unarmed \/ ForceStop \/ \E ch : StickDrives(ch)
    BY <1>2 DEF RemoteUpdate, Decide
  <2>2. UNCHANGED stairVars \/ StairAbort
    BY <2>1 DEF Unarmed, ForceStop, StickDrives, remoteStopVars
  <2>3. CASE StairAbort
    BY <2>3 DEF StairAbort, TestTypes, StairPhases
  <2> QED BY <1>1, <2>2, <2>3
<1>3. CASE Tick /\ ~StairService /\ ~RemoteUpdate
  BY <1>1, <1>3 DEF Tick, TickBegin, CarFallen, CarRecovered, CarUpright, NagStep,
     BridgeService, SteerControl, StraightService, MotorOutput
<1> QED BY <1>2, <1>3, TestTypesStair

LEMMA TestTypesMain ==
    ASSUME TestTypes, PageInv, todo \in Seq(AllOps),
           Main \/ \E p \in Pages : MenuOpen(p)
    PROVE  TestTypes'
<1>1. CASE UNCHANGED stairVars
  BY <1>1 DEF stairVars, TestTypes
<1>2. CASE ContextStores
  <2>1. CASE At({"ctx_active"}) /\ active' = TRUE /\ mode' = PageMode[page]
             /\ UNCHANGED <<phase, phase_timer, jump_index, jump_ok, fail_reason,
                            px_enable>>
    <3>1. page \in AllPages
      <4>1. "ctx_active" \notin CommonOps
        BY DEF CommonOps
      <4> QED BY <2>1, <4>1, InputsAssumption DEF InputsAssumption, At, PageInv
    <3>2. PageMode[page] \in Modes
      BY <3>1 DEF PageMode, Modes
    <3> QED BY <2>1, <3>2 DEF TestTypes
  <2>2. CASE /\ active' \in {active, FALSE} /\ phase' \in {phase, "DONE", "RUNUP"}
             /\ jump_index' \in {jump_index, 0} /\ jump_ok' \in {jump_ok, FALSE}
             /\ fail_reason' \in {fail_reason, "NONE"} /\ px_enable' \in BOOLEAN
             /\ mode' = mode
             /\ phase_timer' = phase_timer \/ SetTimer(0)
    <3>1. phase_timer' \in [Modes -> Nat]
      BY <2>2, TimerTypes DEF TestTypes
    <3>2. fail_reason' \in Reasons /\ jump_index' \in Nat
      BY <2>2, ReasonsHave DEF TestTypes
    <3>3. phase' \in StairPhases
      BY <2>2 DEF TestTypes, StairPhases
    <3> QED BY <2>2, <3>1, <3>2, <3>3 DEF TestTypes
  <2>3. px_enable \in BOOLEAN
    BY DEF TestTypes
  <2> QED BY <1>2, <2>1, <2>2, <2>3 DEF ContextStores
<1>3. CASE TriggerStores
  <2>1. CASE /\ phase' = "JUMPING" /\ SetTimer(0) /\ jump_ok' \in BOOLEAN
             /\ fail_reason' \in {"NONE", "TRIGGER"}
             /\ UNCHANGED <<mode, active, jump_index, px_enable>>
    BY <2>1, TimerTypes, ReasonsHave DEF TestTypes, StairPhases
  <2> QED BY <1>1, <1>3, <2>1 DEF TriggerStores
<1>4. CASE StoreFlags \/ AbortStores \/ DefaultStores \/ RotationStores
  BY <1>1, <1>4 DEF StoreFlags, AbortStores, DefaultStores, RotationStores
<1>5. CASE NagLoaded \/ RotationSeen \/ \E p \in Pages : MenuOpen(p)
  BY <1>1, <1>5 DEF NagLoaded, RotationSeen, MenuOpen
<1> QED BY <1>2, <1>3, <1>4, <1>5 DEF Main, MainStep

LEMMA TestTypesInit == Init => TestTypes
<1> SUFFICES ASSUME Init PROVE TestTypes
  OBVIOUS
<1>1. phase_timer \in [Modes -> Nat]
  BY DEF Init
<1>2. jump_index \in Nat /\ fail_reason \in Reasons
  BY ReasonsHave DEF Init
<1> QED BY <1>1, <1>2 DEF Init, TestTypes, Modes, StairPhases
\* The bridge, the rotation and the receiver.
LEMMA BridgeTypes ==
    ASSUME CourseTypes, BridgeService
    PROVE  CourseTypes'
<1> USE CourseAssumption DEF CourseAssumption
<1>1. UNCHANGED <<rotationVars, lost_count_ms>>
  BY DEF BridgeService, remoteVars
<1>2. CoolDown \in Nat /\ "left" \in Sides /\ "right" \in Sides
  BY DEF CoolDown, CourseTypes, Sides
<1>3. CASE BridgeAbort
  <2>1. Cooldown \in Nat
    OBVIOUS
  <2> QED BY <1>1, <1>3, <2>1 DEF BridgeAbort, CourseTypes, rotationVars
<1>4. ASSUME NEW roll, NEW moving, BridgeIdle(roll, moving)
      PROVE  CourseTypes'
  <2> DEFINE count == IF side = roll THEN entry_stable_count + 1 ELSE 1
  <2>1. count \in Nat
    BY DEF CourseTypes
  <2> HIDE DEF count
  <2>2. /\ bridge_state' \in {bridge_state, "RUNNING"}
        /\ side' \in {side, "NONE", roll} /\ (side' = roll => roll \in Sides \cup {"NONE", side})
        /\ entry_stable_count' \in {entry_stable_count, 0, count}
        /\ exit_stable_count' \in {exit_stable_count, 0}
        /\ bridge_elapsed' \in {bridge_elapsed, 0}
        /\ cooldown' = CoolDown
    BY <1>4 DEF BridgeIdle, EnterRunning, count
  <2> QED BY <1>1, <1>2, <2>1, <2>2 DEF CourseTypes, rotationVars
<1>5. ASSUME NEW roll, NEW moving, NEW d, BridgeRunning(roll, moving, d)
      PROVE  CourseTypes'
  <2> DEFINE e == bridge_elapsed + 1
             leaving == e > EntryStable /\ d >= 1 /\ roll = "flat"
             count == IF leaving THEN exit_stable_count + 1 ELSE 0
  <2>1. e \in Nat /\ count \in Nat
    BY DEF CourseTypes
  <2>2. \/ BridgeAbort
        \/ /\ bridge_state' \in {bridge_state, "EXITING"}
           /\ bridge_elapsed' \in {0, e} /\ exit_stable_count' \in {0, count}
           /\ UNCHANGED <<side, entry_stable_count>> /\ cooldown' = CoolDown
    BY <1>5 DEF BridgeRunning, EnterExiting
  <2> HIDE DEF e, leaving, count
  <2> QED BY <1>1, <1>2, <1>3, <2>1, <2>2 DEF CourseTypes, rotationVars
<1>6. ASSUME NEW faded, BridgeExiting(faded)
      PROVE  CourseTypes'
  <2>1. \/ BridgeAbort
        \/ /\ bridge_elapsed' = bridge_elapsed + 1 /\ cooldown' = CoolDown
           /\ UNCHANGED <<bridge_state, side, entry_stable_count, exit_stable_count>>
    BY <1>6 DEF BridgeExiting
  <2>2. bridge_elapsed + 1 \in Nat
    BY DEF CourseTypes
  <2> QED BY <1>1, <1>2, <1>3, <2>1, <2>2 DEF CourseTypes, rotationVars
<1> QED BY <1>4, <1>5, <1>6 DEF BridgeService

\* What a stop leaves of the bridge and the rotation.
LEMMA StoppedTypes ==
    ASSUME CourseTypes,
           BridgeAbort \/ UNCHANGED bridgeVars,
           RotationStop \/ UNCHANGED rotationVars,
           lost_count_ms' \in Nat
    PROVE  CourseTypes'
<1>1. Cooldown \in Nat
  BY CourseAssumption DEF CourseAssumption
<1>2. /\ bridge_state' \in {"IDLE", "RUNNING", "EXITING"}
      /\ side' \in Sides \cup {"NONE"}
      /\ entry_stable_count' \in Nat /\ exit_stable_count' \in Nat
      /\ bridge_elapsed' \in Nat /\ cooldown' \in Nat
  BY <1>1 DEF BridgeAbort, bridgeVars, CourseTypes
<1>3. rotation_state' \in {"IDLE", "RUNNING", "BRAKING", "DONE"} /\ rotation_elapsed' \in Nat
  BY DEF RotationStop, rotationVars, CourseTypes
<1> QED BY <1>2, <1>3 DEF CourseTypes

LEMMA CourseTypesTick ==
    ASSUME CourseTypes, Tick
    PROVE  CourseTypes'
<1>1. lost_count_ms \in Nat /\ lost_count_ms + 1 \in Nat /\ 0 \in Nat
  BY DEF CourseTypes
<1>2. CASE RemoteUpdate
  <2>1. lost_count_ms' \in {0, lost_count_ms, lost_count_ms + 1}
    BY <1>2 DEF RemoteUpdate, Decide
  <2>2. lost_count_ms' \in Nat
    BY <1>1, <2>1
  <2>3. Unarmed \/ ForceStop \/ \E ch : StickDrives(ch)
    BY <1>2 DEF RemoteUpdate, Decide
  <2>4. /\ BridgeAbort \/ UNCHANGED bridgeVars
        /\ RotationStop \/ UNCHANGED rotationVars
    BY <2>3 DEF Unarmed, ForceStop, StickDrives, remoteStopVars
  <2> QED BY <2>2, <2>4, StoppedTypes
<1>3. CASE MotorOutput
  <2>1. UNCHANGED <<bridgeVars, lost_count_ms>>
    BY <1>3 DEF MotorOutput, remoteVars
  <2>2. /\ rotation_state' \in {rotation_state, "BRAKING", "DONE"}
        /\ rotation_elapsed' \in {rotation_elapsed, 0, rotation_elapsed + 1}
    BY <1>3 DEF MotorOutput, RotationRun, rotationVars
  <2>3. rotation_elapsed + 1 \in Nat
    BY DEF CourseTypes
  <2> QED BY <2>1, <2>2, <2>3 DEF CourseTypes, bridgeVars
<1>4. CASE Tick /\ ~BridgeService /\ ~RemoteUpdate /\ ~MotorOutput
  <2>1. UNCHANGED <<bridgeVars, rotationVars, lost_count_ms>>
    BY <1>4 DEF Tick, TickBegin, CarFallen, CarRecovered, CarUpright, NagStep,
       StairService, SteerControl, StraightService, remoteVars
  <2> QED BY <1>1, <2>1, StoppedTypes
<1> QED BY <1>2, <1>3, <1>4, BridgeTypes

LEMMA CourseTypesMain ==
    ASSUME CourseTypes, Main \/ \E p \in Pages : MenuOpen(p)
    PROVE  CourseTypes'
<1>1. UNCHANGED lost_count_ms /\ lost_count_ms' \in Nat
  BY MainKeepsRemote DEF remoteVars, CourseTypes
<1>2. CASE RotationStores
  <2>1. CASE rotation_state' = "RUNNING" /\ rotation_elapsed' = 0 /\ UNCHANGED bridgeVars
    BY <1>1, <2>1 DEF CourseTypes, bridgeVars
  <2> QED BY <1>1, <1>2, <2>1, StoppedTypes DEF RotationStores
<1>3. CASE MainStep /\ ~RotationStores
  <2>1. UNCHANGED <<bridgeVars, rotationVars>>
    BY <1>3 DEF MainStep, StoreFlags, AbortStores, DefaultStores, ContextStores,
       TriggerStores
  <2> QED BY <1>1, <2>1, StoppedTypes
<1>4. CASE NagLoaded \/ RotationSeen \/ \E p \in Pages : MenuOpen(p)
  BY <1>1, <1>4, StoppedTypes DEF NagLoaded, RotationSeen, MenuOpen
<1> QED BY <1>2, <1>3, <1>4 DEF Main

LEMMA CourseTypesInit == Init => CourseTypes
BY DEF Init, CourseTypes

\* What every later invariant may take for granted.
DriveInv ==
    /\ FlagTypes /\ GainTypes /\ TestTypes /\ CourseTypes
    /\ RemoteInv /\ BridgeInv
    /\ todo \in Seq(AllOps) /\ PageInv /\ Counted

LEMMA DriveInvInit == Init => DriveInv
<1>1. Init => todo \in Seq(AllOps)
  BY DEF Init
<1> QED BY <1>1, FlagTypesInit, GainTypesInit, TestTypesInit, CourseTypesInit, RemoteInit,
           BridgeInit, PageInit, CountedInit DEF DriveInv

LEMMA DriveInvNext ==
    ASSUME DriveInv, [Next]_vars
    PROVE  DriveInv'
<1>1. todo' \in Seq(AllOps)
  BY AllWithin, RoutineWithin DEF DriveInv
<1>2. RemoteInv' /\ BridgeInv' /\ PageInv' /\ Counted'
  BY RemoteNext, BridgeNext, PageNext, CountedNext DEF DriveInv
<1>3. FlagTypes' /\ GainTypes' /\ TestTypes' /\ CourseTypes'
  <2>1. CASE Tick
    BY <2>1, FlagTypesTick, GainTypesTick, TestTypesTick, CourseTypesTick DEF DriveInv
  <2>2. CASE Main \/ \E p \in Pages : MenuOpen(p)
    BY <2>2, FlagTypesMain, GainTypesMain, TestTypesMain, CourseTypesMain DEF DriveInv
  <2>3. CASE UNCHANGED vars
    <3>1. FlagTypes'
      BY <2>3 DEF vars, DriveInv, FlagTypes, clockVars, gateVars, motorVars, seenVars
    <3>2. GainTypes'
      BY <2>3 DEF vars, DriveInv, GainTypes, jumpVars, mainVars
    <3>3. TestTypes'
      BY <2>3 DEF vars, DriveInv, TestTypes, stairVars
    <3>4. CourseTypes'
      BY <2>3 DEF vars, DriveInv, CourseTypes, bridgeVars, rotationVars, remoteVars
    <3> QED BY <3>1, <3>2, <3>3, <3>4
  <2> QED BY <2>1, <2>2, <2>3 DEF Next
<1> QED BY <1>1, <1>2, <1>3 DEF DriveInv

LEMMA DriveInvHolds == Spec => []DriveInv
BY DriveInvInit, DriveInvNext, PTL DEF Spec

(* The drive's variables keep their types: in particular no counter runs     *)
(* below zero, no page of a test that is being started is closed under it,   *)
(* and no phase of a jump is one without a length.                           *)
THEOREM DriveTypeCorrect == Spec => []TypeOK
<1>1. DriveInv => TypeOK
  <2> SUFFICES ASSUME DriveInv PROVE TypeOK
    OBVIOUS
  <2>1. page \in AllPages \cup {"none"}
    BY InputsAssumption DEF InputsAssumption, DriveInv, PageInv
  <2>2. preempted \in Nat
    BY DEF DriveInv, Counted
  <2>3. FlagTypes /\ GainTypes /\ TestTypes /\ CourseTypes /\ RemoteTypes /\ Speeds
    BY DEF DriveInv, RemoteInv, BridgeInv
  <2> QED
    BY <2>1, <2>2, <2>3 DEF TypeOK, FlagTypes, GainTypes, TestTypes, CourseTypes,
       RemoteTypes, Speeds
<1> QED BY <1>1, DriveInvHolds, PTL
---------------------------------------------------------------------------
(* The stages of a routine that starts a test.                             *)

\* The stores outside the start of a test, and the ones before and after the
\* parameters of the flat-ground test are stored for the second time.
PlainOps == FlagOps \cup {"px_on", "jump_speed"}
CheckOps == {"abort_read", "abort_idle", "abort_restore", "default_check"}
LateOps == {"stair_params", "stair_speed", "trigger_check", "trigger_prepare",
            "trigger_save", "trigger_fix", "trigger_speed"}

\* What follows the start of the context, and the end of the last one.
RestOps == CASE page = "D2" -> <<"stair_params", "stair_speed">> \o TriggerOps
             [] page = "D3" -> <<"stop_speed", "px_on">>
             [] OTHER -> <<"jump_speed">>

EnterOps == IF page = "D4" THEN DefaultOps \o (BeginOps \o RestOps)
            ELSE BeginOps \o RestOps

Plain == todo \in Seq(PlainOps)
Closing == page \in JumpPages
           /\ \E s \in Seq(Abortings) : todo = s \o (<<"ctx_off">> \o EnterOps)

Checking == page = "D4"
            /\ \E s \in Seq(CheckOps) :
                 todo = s \o (<<"default_params", "default_idle">> \o (BeginOps \o RestOps))

Idling == page = "D4" /\ todo = <<"default_idle">> \o (BeginOps \o RestOps)
Ready == page \in JumpPages /\ todo = BeginOps \o RestOps
Entering == page \in JumpPages /\ todo = <<"ctx_runup", "ctx_reset">> \o RestOps
Resetting == page \in JumpPages /\ todo = <<"ctx_reset">> \o RestOps
Triggering == page = "D2" /\ \E s \in Seq(LateOps) : todo = s \o <<"ctx_jumping">>

LEMMA StageParts ==
    /\ BeginOps \in Seq(AllOps) /\ DefaultOps \in Seq(AllOps)
    /\ RestOps \in Seq(AllOps) /\ EnterOps \in Seq(AllOps)
    /\ BeginOps \o RestOps \in Seq(AllOps)
    /\ <<"ctx_off">> \o EnterOps \in Seq(AllOps)
    /\ <<"default_params", "default_idle">> \o (BeginOps \o RestOps) \in Seq(AllOps)
    /\ <<"ctx_jumping">> \in Seq(AllOps)
<1>1. BeginOps \in Seq(AllOps) /\ DefaultOps \in Seq(AllOps)
      /\ <<"ctx_jumping">> \in Seq(AllOps)
  BY ProperParts DEF Proper
<1>2. RestOps \in Seq(AllOps)
  <2>1. <<"stair_params", "stair_speed">> \o TriggerOps \in Seq(AllOps)
    BY ProperParts, ProperJoin DEF Proper
  <2> QED BY <2>1, ProperParts DEF Proper, RestOps
<1>3. BeginOps \o RestOps \in Seq(AllOps)
  BY <1>1, <1>2
<1>4. EnterOps \in Seq(AllOps)
  <2>1. DefaultOps \o (BeginOps \o RestOps) \in Seq(AllOps)
    BY <1>1, <1>3
  <2> QED BY <1>3, <2>1 DEF EnterOps
<1>5. <<"ctx_off">> \in Seq(AllOps) /\ <<"default_params", "default_idle">> \in Seq(AllOps)
  BY DEF AllOps, StoreOps, Abortings
<1>6. <<"ctx_off">> \o EnterOps \in Seq(AllOps)
  BY <1>4, <1>5
<1>7. <<"default_params", "default_idle">> \o (BeginOps \o RestOps) \in Seq(AllOps)
  BY <1>3, <1>5
<1> QED BY <1>1, <1>2, <1>3, <1>4, <1>6, <1>7

LEMMA First ==
    ASSUME NEW x \in AllOps, NEW t \in Seq(AllOps)
    PROVE  /\ <<x>> \o t # <<>> /\ Head(<<x>> \o t) = x /\ Tail(<<x>> \o t) = t
OBVIOUS

\* No page is opened or closed while a routine is under way.
LEMMA PageStays ==
    ASSUME todo # <<>>, Main \/ \E p \in Pages : MenuOpen(p)
    PROVE  page' = page /\ RestOps' = RestOps /\ EnterOps' = EnterOps
<1>1. page' = page
  BY DEF Main, MainStep, NagLoaded, RotationSeen, StoreFlags, AbortStores, DefaultStores,
     ContextStores, TriggerStores, RotationStores, untouchedByMain, MenuOpen
<1>2. RestOps' = RestOps
  BY <1>1 DEF RestOps
<1> QED BY <1>1, <1>2 DEF EnterOps

\* A store behind which a given rest follows: it goes, with what it inserts,
\* or it is the first of the rest.
LEMMA StageStep ==
    ASSUME NEW A, NEW x \in AllOps, NEW t \in Seq(AllOps), NEW s \in Seq(A),
           todo = s \o (<<x>> \o t),
           "trigger_check" \in A => x = "ctx_jumping" /\ t = <<>>,
           x # "trigger_check", x # "default_check",
           "default_check" \in A => {"abort_read", "abort_idle", "abort_restore"} \subseteq A,
           Main \/ \E p \in Pages : MenuOpen(p)
    PROVE  /\ todo # <<>>
           /\ \/ Head(todo) \in A /\ \E r \in Seq(A) : todo' = r \o (<<x>> \o t)
              \/ Head(todo) = x /\ todo' = t
<1> DEFINE u == <<x>> \o t
<1>1. u \in Seq(AllOps) /\ u # <<>> /\ Head(u) = x /\ Tail(u) = t
  BY First
<1> HIDE DEF u
<1>2. todo = s \o u
  BY DEF u
<1>3. todo # <<>>
  <2>1. s \in Seq(A \cup AllOps) /\ u \in Seq(A \cup AllOps)
    BY <1>1
  <2> QED BY <1>1, <1>2, <2>1
<1>4. \/ s = <<>> /\ todo = u
      \/ /\ s # <<>> /\ Head(todo) = Head(s) /\ Head(s) \in A
         /\ Tail(s) \in Seq(A) /\ Tail(todo) = Tail(s) \o u
  <2>1. CASE s = <<>>
    <3>1. <<>> \o u = u
      BY <1>1
    <3> QED BY <1>2, <2>1, <3>1
  <2>2. CASE s # <<>>
    <3>1. s \in Seq(A \cup AllOps) /\ u \in Seq(A \cup AllOps)
      BY <1>1
    <3>2. Head(s \o u) = Head(s) /\ Head(s) \in A /\ Tail(s) \in Seq(A)
      BY <2>2, <3>1
    <3>3. Tail(s \o u) = Tail(s) \o u
      BY <2>2, <3>1
    <3> QED BY <1>2, <2>2, <3>2, <3>3
  <2> QED BY <2>1, <2>2
<1>5. \/ todo' = Tail(todo)
      \/ Head(todo) = "default_check" /\ todo' = AbortOps \o Tail(todo)
      \/ Head(todo) = "trigger_check" /\ todo' = <<"ctx_jumping">>
  BY <1>3, MainRoutine
<1>6. CASE s = <<>> /\ todo = u
  BY <1>1, <1>3, <1>5, <1>6
<1>7. CASE /\ Head(todo) \in A /\ Tail(s) \in Seq(A) /\ Tail(todo) = Tail(s) \o u
  <2>1. CASE todo' = Tail(todo)
    BY <1>3, <1>7, <2>1 DEF u
  <2>2. CASE Head(todo) = "default_check" /\ todo' = AbortOps \o Tail(todo)
    <3>1. AbortOps \in Seq(A)
      BY <1>7, <2>2 DEF AbortOps
    <3>2. /\ AbortOps \o Tail(s) \in Seq(A)
          /\ AbortOps \o (Tail(s) \o u) = (AbortOps \o Tail(s)) \o u
      <4>1. /\ AbortOps \in Seq(A \cup AllOps) /\ Tail(s) \in Seq(A \cup AllOps)
            /\ u \in Seq(A \cup AllOps)
        BY <1>1, <1>7, <3>1
      <4>2. AbortOps \o (Tail(s) \o u) = (AbortOps \o Tail(s)) \o u
        BY <4>1
      <4>3. Tail(s) \in Seq(A)
        BY <1>7
      <4>4. AbortOps \o Tail(s) \in Seq(A)
        BY <3>1, <4>3
      <4> QED BY <4>2, <4>4
    <3> QED BY <1>3, <1>7, <2>2, <3>2 DEF u
  <2>3. CASE Head(todo) = "trigger_check" /\ todo' = <<"ctx_jumping">>
    <3>1. <<"ctx_jumping">> = <<>> \o (<<"ctx_jumping">> \o <<>>) /\ <<>> \in Seq(A)
      OBVIOUS
    <3>2. todo' = <<>> \o (<<x>> \o t)
      BY <1>7, <2>3, <3>1
    <3> QED BY <1>3, <1>7, <3>1, <3>2
  <2> QED BY <1>5, <2>1, <2>2, <2>3
<1> QED BY <1>4, <1>6, <1>7

LEMMA ClosingMoves ==
    ASSUME Closing, Main \/ \E p \in Pages : MenuOpen(p)
    PROVE  /\ todo # <<>>
           /\ \/ Head(todo) \in Abortings /\ Closing'
              \/ /\ Head(todo) = "ctx_off"
                 /\ IF page = "D4" THEN Checking' ELSE Ready'
<1>1. PICK s \in Seq(Abortings) : todo = s \o (<<"ctx_off">> \o EnterOps)
  BY DEF Closing
<1>2. "ctx_off" \in AllOps /\ "trigger_check" \notin Abortings
      /\ {"abort_read", "abort_idle", "abort_restore"} \subseteq Abortings
  BY DEF AllOps, StoreOps, Abortings
<1>3. /\ todo # <<>>
      /\ \/ Head(todo) \in Abortings
            /\ \E r \in Seq(Abortings) : todo' = r \o (<<"ctx_off">> \o EnterOps)
         \/ Head(todo) = "ctx_off" /\ todo' = EnterOps
  BY <1>1, <1>2, StageParts, StageStep
<1>4. page' = page /\ RestOps' = RestOps /\ EnterOps' = EnterOps
  BY <1>3, PageStays
<1>5. CASE Head(todo) \in Abortings
           /\ \E r \in Seq(Abortings) : todo' = r \o (<<"ctx_off">> \o EnterOps)
  BY <1>3, <1>4, <1>5 DEF Closing
<1>6. CASE Head(todo) = "ctx_off" /\ todo' = EnterOps
  <2>1. CASE page # "D4"
    BY <1>3, <1>4, <1>6, <2>1 DEF Closing, EnterOps, Ready
  <2>2. CASE page = "D4"
    <3> DEFINE v == BeginOps \o RestOps
    <3>1. v \in Seq(AllOps) /\ <<"default_check">> \in Seq(AllOps)
          /\ <<"default_params", "default_idle">> \in Seq(AllOps)
      BY StageParts DEF AllOps, StoreOps, Abortings
    <3>2. DefaultOps = <<"default_check">> \o <<"default_params", "default_idle">>
      BY DEF DefaultOps
    <3>3. todo' = DefaultOps \o v
      BY <1>6, <2>2 DEF EnterOps
    <3> HIDE DEF v
    <3>4. todo' = <<"default_check">> \o (<<"default_params", "default_idle">> \o v)
      BY <3>1, <3>2, <3>3
    <3>5. <<"default_check">> \in Seq(CheckOps)
      BY DEF CheckOps
    <3> QED BY <1>3, <1>4, <1>6, <2>2, <3>4, <3>5 DEF Checking, v
  <2> QED BY <2>1, <2>2
<1> QED BY <1>3, <1>5, <1>6

LEMMA CheckingMoves ==
    ASSUME Checking, Main \/ \E p \in Pages : MenuOpen(p)
    PROVE  /\ todo # <<>>
           /\ \/ Head(todo) \in CheckOps /\ Checking'
              \/ Head(todo) = "default_params" /\ Idling'
<1> DEFINE v == BeginOps \o RestOps
           w == <<"default_idle">> \o v
<1>1. PICK s \in Seq(CheckOps) : todo = s \o (<<"default_params", "default_idle">> \o v)
  BY DEF Checking
<1>2. /\ "default_params" \in AllOps /\ "trigger_check" \notin CheckOps
      /\ {"abort_read", "abort_idle", "abort_restore"} \subseteq CheckOps
      /\ <<"default_params">> \in Seq(AllOps) /\ <<"default_idle">> \in Seq(AllOps)
  BY DEF AllOps, StoreOps, Abortings, CheckOps
<1>3. v \in Seq(AllOps)
  BY StageParts
<1> HIDE DEF v
<1>4. w \in Seq(AllOps)
      /\ <<"default_params", "default_idle">> \o v = <<"default_params">> \o w
  <2>1. <<"default_params", "default_idle">> = <<"default_params">> \o <<"default_idle">>
    OBVIOUS
  <2> QED BY <1>2, <1>3, <2>1
<1> HIDE DEF w
<1>5. /\ todo # <<>>
      /\ \/ Head(todo) \in CheckOps
            /\ \E r \in Seq(CheckOps) : todo' = r \o (<<"default_params">> \o w)
         \/ Head(todo) = "default_params" /\ todo' = w
  <2>1. todo = s \o (<<"default_params">> \o w)
    BY <1>1, <1>4
  <2> QED BY <1>2, <1>4, <2>1, StageStep
<1>6. page' = page /\ RestOps' = RestOps
  BY <1>5, PageStays
<1> QED BY <1>4, <1>5, <1>6 DEF Checking, Idling, w, v

\* A store that stands alone before the rest.
LEMMA SingleStep ==
    ASSUME NEW x \in AllOps, NEW t \in Seq(AllOps), todo = <<x>> \o t,
           x # "trigger_check", x # "default_check",
           Main \/ \E p \in Pages : MenuOpen(p)
    PROVE  todo # <<>> /\ Head(todo) = x /\ todo' = t
BY First, MainRoutine

LEMMA BeginMoves ==
    ASSUME Main \/ \E p \in Pages : MenuOpen(p)
    PROVE  /\ Idling => todo # <<>> /\ Head(todo) = "default_idle" /\ Ready'
           /\ Ready => todo # <<>> /\ Head(todo) = "ctx_active" /\ Entering'
                       /\ page' = page
           /\ Entering => todo # <<>> /\ Head(todo) = "ctx_runup" /\ Resetting'
                          /\ page' = page
<1>1. /\ "default_idle" \in AllOps /\ "ctx_active" \in AllOps /\ "ctx_runup" \in AllOps
      /\ "ctx_reset" \in AllOps
  BY DEF AllOps, StoreOps, Abortings
<1>2. RestOps \in Seq(AllOps) /\ BeginOps \o RestOps \in Seq(AllOps)
  BY StageParts
<1>3. ASSUME Idling
      PROVE  todo # <<>> /\ Head(todo) = "default_idle" /\ Ready'
  <2>1. todo # <<>> /\ Head(todo) = "default_idle" /\ todo' = BeginOps \o RestOps
    BY <1>1, <1>2, <1>3, SingleStep DEF Idling
  <2> QED BY <1>3, <2>1, PageStays DEF Idling, Ready, JumpPages, Entering
<1>4. ASSUME Ready
      PROVE  todo # <<>> /\ Head(todo) = "ctx_active" /\ Entering' /\ page' = page
  <2> DEFINE u == <<"ctx_runup", "ctx_reset">> \o RestOps
  <2>1. u \in Seq(AllOps) /\ BeginOps \o RestOps = <<"ctx_active">> \o u
    <3>1. BeginOps = <<"ctx_active">> \o <<"ctx_runup", "ctx_reset">>
      BY DEF BeginOps
    <3>2. <<"ctx_active">> \in Seq(AllOps) /\ <<"ctx_runup", "ctx_reset">> \in Seq(AllOps)
      BY <1>1
    <3> QED BY <1>2, <3>1, <3>2
  <2> HIDE DEF u
  <2>2. todo # <<>> /\ Head(todo) = "ctx_active" /\ todo' = u
    BY <1>1, <1>4, <2>1, SingleStep DEF Ready
  <2> QED BY <1>4, <2>2, PageStays DEF Ready, Entering, u
<1>5. ASSUME Entering
      PROVE  todo # <<>> /\ Head(todo) = "ctx_runup" /\ Resetting' /\ page' = page
  <2> DEFINE u == <<"ctx_reset">> \o RestOps
  <2>1. u \in Seq(AllOps)
        /\ <<"ctx_runup", "ctx_reset">> \o RestOps = <<"ctx_runup">> \o u
    <3>1. <<"ctx_runup", "ctx_reset">> = <<"ctx_runup">> \o <<"ctx_reset">>
      OBVIOUS
    <3>2. <<"ctx_runup">> \in Seq(AllOps) /\ <<"ctx_reset">> \in Seq(AllOps)
      BY <1>1
    <3> QED BY <1>2, <3>1, <3>2
  <2> HIDE DEF u
  <2>2. todo # <<>> /\ Head(todo) = "ctx_runup" /\ todo' = u
    BY <1>1, <1>5, <2>1, SingleStep DEF Entering
  <2> QED BY <1>5, <2>2, PageStays DEF Resetting, Entering, u
<1> QED BY <1>3, <1>4, <1>5

LEMMA ResettingMoves ==
    ASSUME Resetting, Main \/ \E p \in Pages : MenuOpen(p)
    PROVE  /\ todo # <<>> /\ Head(todo) = "ctx_reset"
           /\ IF page = "D2" THEN Triggering' ELSE Plain'
<1>1. "ctx_reset" \in AllOps /\ RestOps \in Seq(AllOps)
  BY StageParts DEF AllOps, StoreOps
<1>2. todo # <<>> /\ Head(todo) = "ctx_reset" /\ todo' = RestOps
  BY <1>1, SingleStep DEF Resetting
<1>3. page' = page
  BY <1>2, PageStays
<1>4. CASE page = "D2"
  <2> DEFINE s == <<"stair_params", "stair_speed", "trigger_check", "trigger_prepare",
                    "trigger_save", "trigger_fix", "trigger_speed">>
  <2>1. s \in Seq(LateOps)
    BY DEF LateOps
  <2>2. <<"stair_params", "stair_speed">> \o TriggerOps = s \o <<"ctx_jumping">>
    BY DEF TriggerOps
  <2>3. RestOps = s \o <<"ctx_jumping">>
    BY <1>4, <2>2 DEF RestOps
  <2> HIDE DEF s
  <2>4. Triggering'
    BY <1>2, <1>3, <1>4, <2>1, <2>3 DEF Triggering
  <2> QED BY <1>2, <1>4, <2>4
<1>5. CASE page # "D2"
  <2>1. <<"stop_speed", "px_on">> \in Seq(PlainOps) /\ <<"jump_speed">> \in Seq(PlainOps)
    BY DEF PlainOps, FlagOps, CommonOps
  <2>2. Plain'
    BY <1>2, <1>5, <2>1 DEF RestOps, Plain
  <2> QED BY <1>2, <1>5, <2>2
<1> QED BY <1>4, <1>5

LEMMA TriggeringMoves ==
    ASSUME Triggering, Main \/ \E p \in Pages : MenuOpen(p)
    PROVE  /\ todo # <<>>
           /\ \/ Head(todo) \in LateOps /\ Triggering'
              \/ Head(todo) = "ctx_jumping" /\ todo' = <<>>
<1>1. <<"ctx_jumping">> \o <<>> = <<"ctx_jumping">>
  OBVIOUS
<1>2. PICK s \in Seq(LateOps) : todo = s \o (<<"ctx_jumping">> \o <<>>)
  BY <1>1 DEF Triggering
<1>3. "ctx_jumping" \in AllOps /\ "default_check" \notin LateOps /\ <<>> \in Seq(AllOps)
  BY DEF AllOps, StoreOps, LateOps
<1>4. /\ todo # <<>>
      /\ \/ Head(todo) \in LateOps
            /\ \E r \in Seq(LateOps) : todo' = r \o (<<"ctx_jumping">> \o <<>>)
         \/ Head(todo) = "ctx_jumping" /\ todo' = <<>>
  BY <1>2, <1>3, StageStep
<1>5. page' = page
  BY <1>4, PageStays
<1> QED BY <1>1, <1>4, <1>5 DEF Triggering

LEMMA FourJoined ==
    ASSUME NEW a \in Seq(AllOps), NEW b \in Seq(AllOps), NEW c \in Seq(AllOps),
           NEW d \in Seq(AllOps)
    PROVE  ((a \o b) \o c) \o d = a \o (b \o (c \o d))
<1> DEFINE u == a \o b
           v == c \o d
<1>1. u \in Seq(AllOps) /\ v \in Seq(AllOps)
  OBVIOUS
<1> HIDE DEF u, v
<1>2. (a \o b) \o v = a \o (b \o v)
  BY <1>1
<1>3. (u \o c) \o d = u \o (c \o d)
  BY <1>1
<1> QED BY <1>2, <1>3, Zenon DEF u, v

\* A page that starts a test is opened: it ends the last test first.
LEMMA ClosingStarts ==
    ASSUME NEW p \in JumpPages, page' = p, todo' = PageOps[p]
    PROVE  Closing'
<1> DEFINE s == <<"abort_read", "abort_idle", "abort_restore", "stop_speed", "px_off",
                  "default_check", "default_params", "default_idle">>
           off == <<"ctx_off">>
           r2 == <<"stair_params", "stair_speed">>
           r3 == <<"stop_speed", "px_on">>
           r4 == <<"jump_speed">>
<1>1. s \in Seq(Abortings)
  BY DEF Abortings
<1>2. StairAbortOps = s \o off
  BY DEF StairAbortOps
<1>3. /\ s \in Seq(AllOps) /\ off \in Seq(AllOps) /\ r2 \in Seq(AllOps)
      /\ r3 \in Seq(AllOps) /\ r4 \in Seq(AllOps)
  BY DEF AllOps, StoreOps, Abortings, CommonOps
<1>4. /\ BeginOps \in Seq(AllOps) /\ DefaultOps \in Seq(AllOps)
      /\ TriggerOps \in Seq(AllOps)
  BY ProperParts DEF Proper
<1>5. /\ PageOps["D2"] = StairAbortOps \o BeginOps \o r2 \o TriggerOps
      /\ PageOps["D3"] = StairAbortOps \o BeginOps \o r3
      /\ PageOps["D4"] = StairAbortOps \o DefaultOps \o BeginOps \o r4
  BY DEF PageOps, AllPages
<1> HIDE DEF s, off, r2, r3, r4
<1>6. CASE p = "D2"
  <2>1. EnterOps' = BeginOps \o (r2 \o TriggerOps)
    BY <1>6 DEF EnterOps, RestOps, r2
  <2>2. (((s \o off) \o BeginOps) \o r2) \o TriggerOps
            = s \o (off \o (BeginOps \o (r2 \o TriggerOps)))
    <3> DEFINE q == s \o off
               z == BeginOps \o (r2 \o TriggerOps)
    <3>1. /\ q \in Seq(AllOps) /\ BeginOps \in Seq(AllOps)
          /\ r2 \in Seq(AllOps) /\ TriggerOps \in Seq(AllOps)
      BY <1>3, <1>4
    <3>2. z \in Seq(AllOps) /\ s \in Seq(AllOps) /\ off \in Seq(AllOps)
      BY <1>3, <1>4
    <3> HIDE DEF q
    <3>3. ((q \o BeginOps) \o r2) \o TriggerOps = q \o (BeginOps \o (r2 \o TriggerOps))
      BY <3>1, FourJoined, SMTT(90)
    <3> HIDE DEF z
    <3>4. (s \o off) \o z = s \o (off \o z)
      BY <3>2
    <3> QED BY <3>3, <3>4, Zenon DEF q, z
  <2>3. todo' = s \o (off \o EnterOps')
    BY <1>2, <1>5, <1>6, <2>1, <2>2
  <2> QED BY <1>1, <1>6, <2>3 DEF Closing, off
<1>7. CASE p = "D3"
  <2>1. EnterOps' = BeginOps \o r3
    BY <1>7 DEF EnterOps, RestOps, r3
  <2>2. ((s \o off) \o BeginOps) \o r3 = s \o (off \o (BeginOps \o r3))
    <3>1. /\ s \in Seq(AllOps)
          /\ off \in Seq(AllOps)
          /\ BeginOps \in Seq(AllOps)
          /\ r3 \in Seq(AllOps)
      BY <1>3, <1>4
    <3> QED BY <3>1, FourJoined, SMTT(90)
  <2>3. todo' = s \o (off \o EnterOps')
    BY <1>2, <1>5, <1>7, <2>1, <2>2
  <2> QED BY <1>1, <1>7, <2>3 DEF Closing, off
<1>8. CASE p = "D4"
  <2>1. EnterOps' = DefaultOps \o (BeginOps \o r4)
    BY <1>8 DEF EnterOps, RestOps, r4
  <2>2. (((s \o off) \o DefaultOps) \o BeginOps) \o r4
            = s \o (off \o (DefaultOps \o (BeginOps \o r4)))
    <3> DEFINE q == s \o off
               z == DefaultOps \o (BeginOps \o r4)
    <3>1. /\ q \in Seq(AllOps) /\ DefaultOps \in Seq(AllOps)
          /\ BeginOps \in Seq(AllOps) /\ r4 \in Seq(AllOps)
      BY <1>3, <1>4
    <3>2. z \in Seq(AllOps) /\ s \in Seq(AllOps) /\ off \in Seq(AllOps)
      BY <1>3, <1>4
    <3> HIDE DEF q
    <3>3. ((q \o DefaultOps) \o BeginOps) \o r4 = q \o (DefaultOps \o (BeginOps \o r4))
      BY <3>1, FourJoined, SMTT(90)
    <3> HIDE DEF z
    <3>4. (s \o off) \o z = s \o (off \o z)
      BY <3>2
    <3> QED BY <3>3, <3>4, Zenon DEF q, z
  <2>3. todo' = s \o (off \o EnterOps')
    BY <1>2, <1>5, <1>8, <2>1, <2>2
  <2> QED BY <1>1, <1>8, <2>3 DEF Closing, off
<1> QED BY <1>6, <1>7, <1>8 DEF JumpPages

LEMMA PlainMoves ==
    ASSUME Plain, Main \/ \E p \in Pages : MenuOpen(p)
    PROVE  /\ todo # <<>> => Head(todo) \in PlainOps
           /\ Plain' \/ (todo = <<>> /\ Closing' /\ page' \in Pages)
<1>1. "default_check" \notin PlainOps /\ "trigger_check" \notin PlainOps
  BY DEF PlainOps, FlagOps, CommonOps
<1>2. CASE todo # <<>>
  <2>1. Head(todo) \in PlainOps /\ Tail(todo) \in Seq(PlainOps)
    BY <1>2 DEF Plain
  <2> QED BY <1>1, <1>2, <2>1, MainRoutine DEF Plain
<1>3. CASE todo' \in {ReadyOps, EmptyOps, <<"stop_speed", "rotation_off">>} /\ todo = <<>>
  <2>1. ReadyOps \in Seq(PlainOps)
    BY DEF PlainOps, FlagOps, CommonOps, ReadyOps
  <2>2. EmptyOps \in Seq(PlainOps)
    BY DEF PlainOps, FlagOps, CommonOps, EmptyOps
  <2>3. <<"stop_speed", "rotation_off">> \in Seq(PlainOps)
    BY DEF PlainOps, FlagOps, CommonOps
  <2> QED BY <1>3, <2>1, <2>2, <2>3 DEF Plain
<1>4. ASSUME NEW p \in Pages, page' = p, todo' = PageOps[p], todo = <<>>
      PROVE  Plain' \/ (Closing' /\ page' \in Pages)
  <2>1. CASE p \in JumpPages
    BY <1>4, <2>1, ClosingStarts
  <2>2. CASE p \in {"A1", "A3", "D1"}
    <3>1. PageOps[p] \in Seq(PlainOps)
      BY <2>2, PageRoutines DEF PlainOps, FlagOps, CommonOps
    <3> QED BY <1>4, <3>1 DEF Plain
  <2>3. CASE p = "D6"
    <3>1. PageOps["D6"] \in Seq(PlainOps)
      BY RotationRoutine DEF PlainOps, FlagOps, CommonOps
    <3> QED BY <1>4, <2>3, <3>1 DEF Plain
  <2>4. p \in AllPages
    BY InputsAssumption DEF InputsAssumption
  <2> QED BY <2>1, <2>2, <2>3, <2>4 DEF AllPages, JumpPages
<1> QED BY <1>2, <1>3, <1>4, MainRoutine
---------------------------------------------------------------------------
(* The count of a sequence.                                                *)

\* The jumps of a sequence that is not over are counted, and none is missing
\* when it brakes.
Count ==
    mode = "seq" =>
        /\ phase \in {"RUNUP", "JUMPING"} => jump_index < TotalJumps
        /\ phase = "STOPPING" => jump_index = TotalJumps

\* The context has not been looked at long enough to end a jump: it was filled
\* inside the routine, and its timer is younger than the ticks that fell there.
Young ==
    \/ phase \in {"RUNUP", "DONE"}
    \/ /\ phase = "JUMPING"
       /\ phase_timer[mode] + (IF isr \in {"state", "nag", "stair"} THEN 2 ELSE 1)
              <= preempted

\* What each stage of the routine of a test knows of the context.
SeqInv ==
    \/ (Plain \/ Closing) /\ Count
    \/ (Checking \/ Idling \/ Ready) /\ ~active /\ phase = "DONE"
    \/ Entering /\ phase = "DONE" /\ mode = PageMode[page]
    \/ Resetting /\ Young /\ mode = PageMode[page]
    \/ Triggering /\ Young /\ mode = "seq" /\ jump_index = 0

\* The callback leaves every stage where it is.
LEMMA TickStages ==
    ASSUME Tick
    PROVE  /\ UNCHANGED <<page, todo>>
           /\ Plain' = Plain /\ Closing' = Closing /\ Checking' = Checking
           /\ Idling' = Idling /\ Ready' = Ready /\ Entering' = Entering
           /\ Resetting' = Resetting /\ Triggering' = Triggering
<1>1. page' = page /\ todo' = todo
  BY TickKeepsRoutine
<1>2. RestOps' = RestOps
  BY <1>1 DEF RestOps
<1>3. EnterOps' = EnterOps
  BY <1>1, <1>2 DEF EnterOps
<1>4. Plain' = Plain /\ Closing' = Closing
  BY <1>1, <1>3 DEF Plain, Closing
<1>5. Checking' = Checking /\ Idling' = Idling
  BY <1>1, <1>2 DEF Checking, Idling
<1>6. Ready' = Ready /\ Entering' = Entering /\ Resetting' = Resetting
  BY <1>1, <1>2 DEF Ready, Entering, Resetting
<1>7. Triggering' = Triggering
  BY <1>1 DEF Triggering
<1> QED BY <1>1, <1>4, <1>5, <1>6, <1>7

\* What stair_service_1ms does to the active context.
LEMMA StairContext ==
    ASSUME TestTypes, StairService
    PROVE  /\ mode' = mode
           /\ ~active => UNCHANGED <<active, phase, phase_timer, jump_index>>
           /\ \/ phase' = "DONE" /\ jump_index' = jump_index
              \/ /\ phase' = phase /\ jump_index' = jump_index
                 /\ phase_timer'[mode] <= phase_timer[mode] + 1
              \/ /\ phase = "RUNUP" /\ phase' = "JUMPING"
                 /\ jump_index' = jump_index /\ phase_timer'[mode] = 0
              \/ /\ phase = "JUMPING" /\ phase_timer[mode] + 1 > Grace
                 /\ phase' = IF MoreJumps THEN "RUNUP" ELSE "STOPPING"
                 /\ mode = "seq" => jump_index' = jump_index + 1
<1> USE DEF StairPhases
<1>1. phase_timer \in [Modes -> Nat] /\ mode \in Modes /\ phase_timer[mode] \in Nat
  BY DEF TestTypes
<1>2. Timer \in Nat /\ Timer <= phase_timer[mode] + 1
  BY <1>1 DEF Timer
<1>3. \A n \in Nat : SetTimer(n) => phase_timer'[mode] = n
  BY <1>1 DEF SetTimer
<1>4. CASE active /\ Runup
  <2>1. phase = "RUNUP" /\ UNCHANGED <<mode, active, jump_index>>
    BY <1>4 DEF Runup
  <2>2. CASE RunupTrigger
    <3>1. \E v : TriggerJump(v)
      BY <2>2 DEF RunupTrigger
    <3>2. phase' = "JUMPING" /\ SetTimer(0)
      BY <3>1 DEF TriggerJump
    <3> QED BY <1>3, <1>4, <2>1, <3>2
  <2>3. CASE RunupWait
    BY <1>2, <1>3, <1>4, <2>1, <2>3 DEF RunupWait
  <2> QED BY <1>4, <2>2, <2>3 DEF Runup
<1>5. CASE active /\ phase = "JUMPING" /\ Watch
  <2>1. CASE JumpTimedOut
    BY <1>5, <2>1 DEF JumpTimedOut
  <2>2. CASE Finish(FALSE, fail_reason)
    BY <1>5, <2>2 DEF Finish
  <2>3. CASE JumpOver /\ Timer > Grace
    <3>1. Grace \in Nat
      BY StairAssumption DEF StairAssumption
    <3>2. phase_timer[mode] + 1 > Grace
      BY <1>1, <1>2, <2>3, <3>1
    <3> QED BY <1>5, <2>3, <3>2 DEF JumpOver
  <2>4. CASE JumpWait
    BY <1>2, <1>3, <1>5, <2>4 DEF JumpWait
  <2> QED BY <1>5, <2>1, <2>2, <2>3, <2>4 DEF Watch
<1>6. CASE active /\ Stopping
  <2>1. CASE StopWait
    BY <1>2, <1>3, <1>6, <2>1 DEF StopWait
  <2>2. CASE \E ok, reason : Finish(ok, reason)
    BY <1>6, <2>2 DEF Finish
  <2> QED BY <1>6, <2>1, <2>2 DEF Stopping
<1>7. CASE active /\ phase = "DONE" /\ SetTimer(Timer)
              /\ UNCHANGED <<mode, active, phase, jump_index>>
  BY <1>2, <1>3, <1>7
<1>8. CASE UNCHANGED stairVars
  BY <1>1, <1>8 DEF stairVars
<1>9. \/ active /\ Runup
      \/ active /\ phase = "JUMPING" /\ Watch
      \/ active /\ Stopping
      \/ active /\ phase = "DONE" /\ SetTimer(Timer)
            /\ UNCHANGED <<mode, active, phase, jump_index>>
      \/ ~active /\ UNCHANGED stairVars
  BY DEF StairService
<1>10. ~active => UNCHANGED <<active, phase, phase_timer, jump_index>>
  BY <1>9 DEF stairVars
<1> QED BY <1>4, <1>5, <1>6, <1>7, <1>8, <1>9, <1>10

\* The other steps of the callback leave it, or close it.
LEMMA OtherContext ==
    ASSUME Tick, ~StairService
    PROVE  /\ UNCHANGED <<mode, phase_timer, jump_index>>
           /\ \/ UNCHANGED <<active, phase>>
              \/ active' = FALSE /\ phase' = "DONE"
<1>1. CASE RemoteUpdate
  <2>1. Unarmed \/ ForceStop \/ \E ch : StickDrives(ch)
    BY <1>1 DEF RemoteUpdate, Decide
  <2>2. UNCHANGED stairVars \/ StairAbort
    BY <2>1 DEF Unarmed, ForceStop, StickDrives, remoteStopVars
  <2> QED BY <2>2 DEF stairVars, StairAbort
<1>2. CASE ~RemoteUpdate
  BY <1>2 DEF Tick, TickBegin, CarFallen, CarRecovered, CarUpright, NagStep,
     BridgeService, SteerControl, StraightService, MotorOutput, stairVars
<1> QED BY <1>1, <1>2

\* Between its first steps and the tests a tick is one ahead of their timer.
LEMMA TickPlace ==
    ASSUME Tick
    PROVE  /\ StairService => isr = "stair" /\ isr' = "bridge" /\ preempted' = preempted
           /\ isr \in {"state", "nag", "stair"} => ~TickBegin
           /\ ~StairService /\ ~TickBegin =>
                  /\ preempted' = preempted
                  /\ isr' \in {"state", "nag", "stair"} => isr \in {"state", "nag", "stair"}
           /\ TickBegin => /\ isr = "idle"
                           /\ todo # <<>> => preempted' = preempted + 1
<1>1. StairService => isr = "stair" /\ isr' = "bridge" /\ preempted' = preempted
  BY DEF StairService, Step, mainVars
<1>2. TickBegin => isr = "idle" /\ (todo # <<>> => preempted' = preempted + 1)
  BY DEF TickBegin
<1>3. CASE CarFallen \/ CarRecovered \/ CarUpright \/ NagStep
  BY <1>1, <1>2, <1>3 DEF CarFallen, CarRecovered, CarUpright, NagStep, Step, mainVars
<1>4. CASE BridgeService \/ SteerControl \/ StraightService
  BY <1>1, <1>2, <1>4 DEF BridgeService, SteerControl, StraightService, Step, mainVars
<1>5. CASE RemoteUpdate \/ MotorOutput
  BY <1>1, <1>2, <1>5 DEF RemoteUpdate, MotorOutput, Step, mainVars
<1> QED BY <1>1, <1>2, <1>3, <1>4, <1>5 DEF Tick

\* A tick inside a routine has been counted.
TickCounted == todo # <<>> /\ isr # "idle" => preempted >= 1

LEMMA MainPlace ==
    ASSUME Main \/ \E p \in Pages : MenuOpen(p)
    PROVE  /\ isr = "idle" /\ isr' = "idle"
           /\ todo # <<>> => preempted' = preempted /\ MainStep
<1>1. CASE NagLoaded \/ RotationSeen \/ \E p \in Pages : MenuOpen(p)
  BY <1>1 DEF NagLoaded, RotationSeen, MenuOpen
<1>2. CASE StoreFlags \/ AbortStores \/ DefaultStores
  BY <1>2 DEF StoreFlags, AbortStores, DefaultStores, At, untouchedByMain, MainStep
<1>3. CASE ContextStores \/ TriggerStores \/ RotationStores
  BY <1>3 DEF ContextStores, TriggerStores, RotationStores, At, untouchedByMain, MainStep
<1> QED BY <1>1, <1>2, <1>3 DEF Main, MainStep

LEMMA TickCountedNext ==
    ASSUME TickCounted, Counted, [Next]_vars
    PROVE  TickCounted'
<1>1. CASE TickBegin
  <2>1. preempted \in Nat
    BY DEF Counted
  <2>2. TickBegin => todo' = todo /\ (todo # <<>> => preempted' = preempted + 1)
    BY DEF TickBegin, mainVars
  <2> QED BY <1>1, <2>1, <2>2 DEF TickCounted
<1>2. CASE Tick /\ ~TickBegin
  <2>1. isr # "idle" /\ todo' = todo /\ preempted' = preempted
    <3>1. isr # "idle"
      BY <1>2 DEF Tick, CarFallen, CarRecovered, CarUpright, NagStep, StairService,
         BridgeService, SteerControl, StraightService, RemoteUpdate, MotorOutput, Step
    <3> QED BY <1>2, <3>1, TickKeepsRoutine
  <2> QED BY <2>1 DEF TickCounted
<1>3. CASE Main \/ \E p \in Pages : MenuOpen(p)
  BY <1>3, MainPlace DEF TickCounted
<1>4. CASE UNCHANGED vars
  BY <1>4 DEF TickCounted, vars, mainVars
<1> QED BY <1>1, <1>2, <1>3, <1>4 DEF Next

ContextOps == {"ctx_off", "ctx_active", "ctx_runup", "ctx_reset", "ctx_jumping"}

\* Only the stores of the context change it ...
LEMMA ContextKept ==
    ASSUME Main \/ \E p \in Pages : MenuOpen(p),
           todo # <<>> => Head(todo) \notin ContextOps
    PROVE  UNCHANGED <<mode, active, phase, phase_timer, jump_index>>
<1>1. CASE NagLoaded \/ RotationSeen \/ \E p \in Pages : MenuOpen(p)
  BY <1>1 DEF NagLoaded, RotationSeen, MenuOpen, stairVars
<1>2. CASE ContextStores
  <2>1. At({"px_on", "px_off"}) /\ UNCHANGED <<mode, active, phase, phase_timer, jump_index>>
    BY <1>2 DEF ContextStores, At, ContextOps
  <2> QED BY <2>1
<1>3. CASE TriggerStores
  <2>1. ~At({"ctx_jumping"})
    BY DEF At, ContextOps
  <2>2. UNCHANGED stairVars
    BY <1>3, <2>1 DEF TriggerStores
  <2> QED BY <2>2 DEF stairVars
<1>4. CASE StoreFlags \/ AbortStores \/ DefaultStores \/ RotationStores
  BY <1>4 DEF StoreFlags, AbortStores, DefaultStores, RotationStores, stairVars
<1> QED BY <1>1, <1>2, <1>3, <1>4 DEF Main, MainStep

\* ... each in its own way.
LEMMA ContextSet ==
    ASSUME TestTypes, todo # <<>>, Main \/ \E p \in Pages : MenuOpen(p)
    PROVE  /\ Head(todo) = "ctx_off" =>
                  /\ active' = FALSE /\ phase' = "DONE"
                  /\ UNCHANGED <<mode, phase_timer, jump_index>>
           /\ Head(todo) = "ctx_active" =>
                  /\ active' = TRUE /\ mode' = PageMode[page]
                  /\ UNCHANGED <<phase, phase_timer, jump_index>>
           /\ Head(todo) = "ctx_runup" =>
                  phase' = "RUNUP" /\ UNCHANGED <<mode, active, phase_timer, jump_index>>
           /\ Head(todo) = "ctx_reset" =>
                  /\ phase_timer'[mode] = 0 /\ jump_index' = 0
                  /\ UNCHANGED <<mode, active, phase>>
           /\ Head(todo) = "ctx_jumping" =>
                  /\ phase' = "JUMPING" /\ phase_timer'[mode] = 0
                  /\ UNCHANGED <<mode, active, jump_index>>
<1>1. MainStep
  BY MainPlace
<1>2. \A n \in Nat : SetTimer(n) => phase_timer'[mode] = n
  BY DEF TestTypes, SetTimer
<1>3. Head(todo) \in ContextOps => ContextStores \/ TriggerStores
  <2>1. ASSUME Head(todo) \in ContextOps
        PROVE  ~StoreFlags /\ ~AbortStores /\ ~DefaultStores /\ ~RotationStores
    BY <2>1 DEF ContextOps, StoreFlags, AbortStores, DefaultStores, RotationStores, At,
       SpeedStores, FuxianStores, StopFlagStores, RunStateStores, NagStores, StraightStores
  <2> QED BY <1>1, <2>1 DEF MainStep
<1>4. CASE Head(todo) = "ctx_jumping"
  <2>1. TriggerStores
    BY <1>3, <1>4 DEF ContextOps, ContextStores, At
  <2>2. phase' = "JUMPING" /\ SetTimer(0) /\ UNCHANGED <<mode, active, jump_index>>
    BY <1>4, <2>1 DEF TriggerStores, At
  <2> QED BY <1>2, <1>4, <2>2
<1>5. CASE Head(todo) \in ContextOps \ {"ctx_jumping"}
  <2>1. ContextStores
    BY <1>3, <1>5 DEF ContextOps, TriggerStores, At
  <2>2. CASE Head(todo) = "ctx_reset"
    <3>1. SetTimer(0) /\ jump_index' = 0 /\ UNCHANGED <<mode, active, phase>>
      BY <2>1, <2>2 DEF ContextStores, At
    <3> QED BY <1>2, <2>2, <3>1
  <2>3. CASE Head(todo) # "ctx_reset"
    BY <1>5, <2>1, <2>3 DEF ContextOps, ContextStores, At
  <2> QED BY <2>2, <2>3
<1> QED BY <1>4, <1>5 DEF ContextOps

\* No store of these stages is one of the context.
LEMMA QuietOps ==
    /\ PlainOps \cap ContextOps = {} /\ Abortings \cap ContextOps = {}
    /\ CheckOps \cap ContextOps = {} /\ LateOps \cap ContextOps = {}
    /\ "default_params" \notin ContextOps /\ "default_idle" \notin ContextOps
BY DEF PlainOps, FlagOps, CommonOps, Abortings, CheckOps, LateOps, ContextOps

\* Inside a routine the context stays young: no tick of it ends a jump.
LEMMA YoungTick ==
    ASSUME Preemptions <= Grace + 1, DriveInv, TickCounted, Young, todo # <<>>, Tick
    PROVE  Young' /\ jump_index' = jump_index
<1> USE DEF DriveInv
<1>1. /\ Grace \in Nat /\ Preemptions \in Nat
      /\ preempted \in Nat /\ preempted <= Preemptions
      /\ phase_timer \in [Modes -> Nat] /\ mode \in Modes /\ phase_timer[mode] \in Nat
  BY StairAssumption, InputsAssumption DEF StairAssumption, InputsAssumption, TestTypes,
     Counted
<1>2. mode' = mode
  BY StairContext, OtherContext
<1>3. CASE StairService
  <2>1. isr = "stair" /\ isr' = "bridge" /\ preempted' = preempted /\ preempted >= 1
    BY <1>3, TickPlace DEF TickCounted
  <2>2. phase = "JUMPING" => phase_timer[mode] + 1 <= Grace
    BY <1>1, <2>1 DEF Young
  <2>3. \/ phase' = "DONE" /\ jump_index' = jump_index
        \/ /\ phase' = phase /\ jump_index' = jump_index
           /\ phase_timer'[mode] <= phase_timer[mode] + 1
        \/ /\ phase' = "JUMPING"
           /\ jump_index' = jump_index /\ phase_timer'[mode] = 0
    BY <1>1, <1>3, <2>2, StairContext
  <2>4. phase_timer' \in [Modes -> Nat]
    BY <1>3, TestTypesStair DEF TestTypes
  <2> QED BY <1>1, <1>2, <2>1, <2>3, <2>4 DEF Young
<1>4. CASE TickBegin
  <2>1. isr = "idle" /\ preempted' = preempted + 1
    BY <1>4, TickPlace
  <2>2. UNCHANGED <<mode, phase, phase_timer, jump_index>>
    BY <1>4 DEF TickBegin, stairVars
  <2> QED BY <1>1, <2>1, <2>2 DEF Young
<1>5. CASE ~StairService /\ ~TickBegin
  <2>1. /\ preempted' = preempted
        /\ isr' \in {"state", "nag", "stair"} => isr \in {"state", "nag", "stair"}
    BY <1>5, TickPlace
  <2>2. UNCHANGED <<mode, phase_timer, jump_index>> /\ phase' \in {phase, "DONE"}
    BY <1>5, OtherContext
  <2> QED BY <1>1, <2>1, <2>2 DEF Young
<1> QED BY <1>3, <1>4, <1>5

LEMMA SeqTick ==
    ASSUME Preemptions <= Grace + 1, DriveInv, TickCounted, SeqInv, Tick
    PROVE  SeqInv'
<1> USE DEF DriveInv
<1>1. /\ Grace \in Nat /\ TotalJumps \in Nat /\ TotalJumps > 0 /\ Preemptions \in Nat
      /\ jump_index \in Nat /\ preempted \in Nat /\ preempted <= Preemptions
      /\ phase_timer \in [Modes -> Nat] /\ mode \in Modes /\ phase_timer[mode] \in Nat
  BY StairAssumption, InputsAssumption DEF StairAssumption, InputsAssumption, TestTypes,
     Counted
<1>2. mode' = mode /\ page' = page /\ todo' = todo
  BY StairContext, OtherContext, TickStages
<1>3. ~active /\ phase = "DONE" => ~active' /\ phase' = "DONE"
  BY StairContext, OtherContext
<1>4. phase = "DONE" => phase' = "DONE"
  BY StairContext, OtherContext
<1>5. ASSUME Count
      PROVE  Count'
  <2>1. CASE StairService
    BY <1>1, <1>2, <1>5, <2>1, StairContext DEF Count, MoreJumps
  <2>2. CASE ~StairService
    BY <1>2, <1>5, <2>2, OtherContext DEF Count
  <2> QED BY <2>1, <2>2
<1>6. Young /\ todo # <<>> => Young' /\ jump_index' = jump_index
  BY YoungTick
<1>7. CASE (Plain \/ Closing) /\ Count
  BY <1>5, <1>7, TickStages DEF SeqInv
<1>8. CASE (Checking \/ Idling \/ Ready) /\ ~active /\ phase = "DONE"
  BY <1>3, <1>8, TickStages DEF SeqInv
<1>9. CASE Entering /\ phase = "DONE" /\ mode = PageMode[page]
  BY <1>2, <1>4, <1>9, TickStages DEF SeqInv
<1>10. CASE Resetting /\ Young /\ mode = PageMode[page]
  <2>1. todo # <<>>
    <3>1. <<"ctx_reset">> \in Seq(AllOps) /\ RestOps \in Seq(AllOps)
      BY StageParts DEF AllOps, StoreOps
    <3> QED BY <1>10, <3>1, First DEF Resetting
  <2> QED BY <1>2, <1>6, <1>10, <2>1, TickStages DEF SeqInv
<1>11. CASE Triggering /\ Young /\ mode = "seq" /\ jump_index = 0
  <2>1. todo # <<>>
    <3>1. PICK s \in Seq(LateOps) : todo = s \o <<"ctx_jumping">>
      BY <1>11 DEF Triggering
    <3> QED BY <3>1
  <2> QED BY <1>2, <1>6, <1>11, <2>1, TickStages DEF SeqInv
<1> QED BY <1>7, <1>8, <1>9, <1>10, <1>11 DEF SeqInv

LEMMA SeqMain ==
    ASSUME DriveInv, SeqInv, Main \/ \E p \in Pages : MenuOpen(p)
    PROVE  SeqInv'
<1>1. /\ TotalJumps \in Nat /\ TotalJumps > 0 /\ TestTypes
      /\ preempted \in Nat /\ phase_timer[mode] \in Nat
  BY StairAssumption DEF StairAssumption, DriveInv, TestTypes, Counted
<1>2. isr = "idle" /\ isr' = "idle" /\ (todo # <<>> => preempted' = preempted)
  BY MainPlace
<1> DEFINE Still == UNCHANGED <<mode, active, phase, phase_timer, jump_index>>
<1>3. Still /\ Count => Count'
  BY DEF Count
<1>4. CASE (Plain \/ Closing) /\ Count
  <2>1. CASE Plain
    BY <1>3, <1>4, <2>1, PlainMoves, QuietOps, ContextKept DEF SeqInv
  <2>2. CASE Closing
    <3>1. CASE Head(todo) \in Abortings /\ Closing'
      BY <1>3, <1>4, <3>1, QuietOps, ContextKept DEF SeqInv
    <3>2. CASE todo # <<>> /\ Head(todo) = "ctx_off" /\ (Checking' \/ Ready')
      BY <1>1, <3>2, ContextSet DEF SeqInv
    <3> QED BY <2>2, <3>1, <3>2, ClosingMoves
  <2> QED BY <1>4, <2>1, <2>2
<1>5. CASE (Checking \/ Idling \/ Ready) /\ ~active /\ phase = "DONE"
  <2>1. CASE Checking
    BY <1>5, <2>1, CheckingMoves, QuietOps, ContextKept DEF SeqInv
  <2>2. CASE Idling
    BY <1>5, <2>2, BeginMoves, QuietOps, ContextKept DEF SeqInv
  <2>3. CASE Ready
    BY <1>1, <1>5, <2>3, BeginMoves, ContextSet DEF SeqInv
  <2> QED BY <1>5, <2>1, <2>2, <2>3
<1>6. CASE Entering /\ phase = "DONE" /\ mode = PageMode[page]
  <2>1. /\ todo # <<>> /\ Head(todo) = "ctx_runup" /\ Resetting' /\ page' = page
    BY <1>6, BeginMoves
  <2>2. phase' = "RUNUP" /\ mode' = mode
    BY <1>1, <2>1, ContextSet
  <2> QED BY <1>6, <2>1, <2>2 DEF SeqInv, Young
<1>7. CASE Resetting /\ Young /\ mode = PageMode[page]
  <2>1. /\ todo # <<>> /\ Head(todo) = "ctx_reset"
        /\ IF page = "D2" THEN Triggering' ELSE Plain'
    BY <1>7, ResettingMoves
  <2>2. /\ phase_timer'[mode] = 0 /\ jump_index' = 0 /\ mode' = mode /\ phase' = phase
        /\ preempted' = preempted
    BY <1>1, <1>2, <2>1, ContextSet
  <2>3. Young'
    BY <1>1, <1>2, <1>7, <2>2 DEF Young
  <2>4. page = "D2" => mode = "seq"
    BY <1>7 DEF PageMode, AllPages
  <2>5. page # "D2" => mode # "seq"
    BY <1>7 DEF PageMode, AllPages, Resetting, JumpPages
  <2>6. CASE page = "D2"
    BY <2>1, <2>2, <2>3, <2>4, <2>6 DEF SeqInv
  <2>7. CASE page # "D2"
    BY <2>1, <2>2, <2>5, <2>7 DEF SeqInv, Count
  <2> QED BY <2>6, <2>7
<1>8. CASE Triggering /\ Young /\ mode = "seq" /\ jump_index = 0
  <2>1. CASE todo # <<>> /\ Head(todo) \in LateOps /\ Triggering'
    <3>1. Still
      BY <2>1, QuietOps, ContextKept
    <3>2. Young'
      BY <1>2, <1>8, <2>1, <3>1 DEF Young
    <3> QED BY <1>8, <2>1, <3>1, <3>2 DEF SeqInv
  <2>2. CASE todo # <<>> /\ Head(todo) = "ctx_jumping" /\ todo' = <<>>
    <3>1. phase' = "JUMPING" /\ jump_index' = 0
      BY <1>1, <1>8, <2>2, ContextSet
    <3>2. Count'
      BY <1>1, <3>1 DEF Count
    <3>3. Plain'
      BY <2>2 DEF Plain
    <3> QED BY <3>2, <3>3 DEF SeqInv
  <2> QED BY <1>8, <2>1, <2>2, TriggeringMoves
<1> QED BY <1>4, <1>5, <1>6, <1>7, <1>8 DEF SeqInv

LEMMA SeqInit == Init => SeqInv
BY DEF Init, SeqInv, Plain, Count

LEMMA TickCountedInit == Init => TickCounted
BY DEF Init, TickCounted

\* A stutter moves no stage.
LEMMA StutterStages ==
    ASSUME UNCHANGED vars
    PROVE  /\ Plain' = Plain /\ Closing' = Closing /\ Checking' = Checking
           /\ Idling' = Idling /\ Ready' = Ready /\ Entering' = Entering
           /\ Resetting' = Resetting /\ Triggering' = Triggering
           /\ UNCHANGED <<isr, page, todo, mode, active, phase, phase_timer, jump_index,
                          preempted>>
<1>1. UNCHANGED <<isr, page, todo, mode, active, phase, phase_timer, jump_index, preempted>>
  BY DEF vars, mainVars, stairVars
<1>2. RestOps' = RestOps
  BY <1>1 DEF RestOps
<1>3. EnterOps' = EnterOps
  BY <1>1, <1>2 DEF EnterOps
<1>4. Plain' = Plain /\ Closing' = Closing
  BY <1>1, <1>3 DEF Plain, Closing
<1>5. Checking' = Checking /\ Idling' = Idling
  BY <1>1, <1>2 DEF Checking, Idling
<1>6. Ready' = Ready /\ Entering' = Entering /\ Resetting' = Resetting
  BY <1>1, <1>2 DEF Ready, Entering, Resetting
<1>7. Triggering' = Triggering
  BY <1>1 DEF Triggering
<1> QED BY <1>1, <1>4, <1>5, <1>6, <1>7

LEMMA SeqNext ==
    ASSUME Preemptions <= Grace + 1, DriveInv, TickCounted, SeqInv, [Next]_vars
    PROVE  SeqInv'
<1>1. CASE UNCHANGED vars
  BY <1>1, StutterStages DEF SeqInv, Count, Young
<1> QED BY <1>1, SeqTick, SeqMain DEF Next

---------------------------------------------------------------------------
(* The jumps of a sequence, as its history remembers them.                 *)

\* The jump under way is not one of the sequence's, or it is: each jump begun
\* has landed, the one under way excepted, or one of them was broken off.
Settled == ~own /\ (landed = begun \/ broken)
Kept == Settled \/ (own /\ (landed + 1 = begun \/ broken))

\* The counter of an active sequence counts the jumps it has begun.
Tally ==
    mode = "seq" =>
        /\ active /\ phase = "RUNUP" => begun = jump_index /\ Settled
        /\ active /\ phase = "JUMPING" /\ jump_ok => begun = jump_index + 1 /\ Kept
        /\ phase = "STOPPING" => begun = jump_index /\ Settled

\* A run-up the page has just opened is no older than the ticks inside it.
Fresh ==
    phase = "RUNUP" =>
        phase_timer[mode] + (IF isr \in {"state", "nag", "stair"} THEN 1 ELSE 0)
            <= preempted

\* What may be left of the routine behind its n-th store of the jump.
Late3 == TriggerOps
Late2 == <<"stair_speed">> \o Late3
Late1 == <<"stair_params">> \o Late2
Late4 == <<"trigger_prepare", "trigger_save", "trigger_fix", "trigger_speed",
           "ctx_jumping">>
Late5 == <<"trigger_save", "trigger_fix", "trigger_speed", "ctx_jumping">>
Late6 == <<"trigger_fix", "trigger_speed", "ctx_jumping">>
Late7 == <<"trigger_speed", "ctx_jumping">>
Late8 == <<"ctx_jumping">>

\* The page's own jump is not begun yet, is begun, or was refused.
Ahead == todo \in {Late1, Late2, Late3} \/ (todo = Late4 /\ trigger_result = "OK")
Under == todo \in {Late5, Late6, Late7, Late8} /\ trigger_result = "OK"
Refused == todo = Late8 /\ trigger_result # "OK"

\* The heads and tails of these.
LEMMA LateFacts ==
    /\ Late1 # <<>> /\ Head(Late1) = "stair_params" /\ Tail(Late1) = Late2
    /\ Late2 # <<>> /\ Head(Late2) = "stair_speed" /\ Tail(Late2) = Late3
    /\ Late3 # <<>> /\ Head(Late3) = "trigger_check" /\ Tail(Late3) = Late4
    /\ Late4 # <<>> /\ Head(Late4) = "trigger_prepare" /\ Tail(Late4) = Late5
    /\ Late5 # <<>> /\ Head(Late5) = "trigger_save" /\ Tail(Late5) = Late6
    /\ Late6 # <<>> /\ Head(Late6) = "trigger_fix" /\ Tail(Late6) = Late7
    /\ Late7 # <<>> /\ Head(Late7) = "trigger_speed" /\ Tail(Late7) = Late8
    /\ Late8 # <<>> /\ Head(Late8) = "ctx_jumping" /\ Tail(Late8) = <<>>
<1>1. Late3 # <<>> /\ Head(Late3) = "trigger_check" /\ Tail(Late3) = Late4
  BY DEF Late3, Late4, TriggerOps
<1>2. Late3 \in Seq(AllOps) /\ {"stair_params", "stair_speed"} \subseteq AllOps
  BY ProperParts DEF Late3, Proper, AllOps, StoreOps
<1>3. /\ Late2 # <<>> /\ Head(Late2) = "stair_speed" /\ Tail(Late2) = Late3
      /\ Late1 # <<>> /\ Head(Late1) = "stair_params" /\ Tail(Late1) = Late2
  <2>1. Late2 \in Seq(AllOps)
    BY <1>2 DEF Late2
  <2> QED BY <1>2, <2>1, First DEF Late1, Late2
<1>4. Late4 # <<>> /\ Head(Late4) = "trigger_prepare" /\ Tail(Late4) = Late5
  BY DEF Late4, Late5
<1>5. Late5 # <<>> /\ Head(Late5) = "trigger_save" /\ Tail(Late5) = Late6
  BY DEF Late5, Late6
<1>6. Late6 # <<>> /\ Head(Late6) = "trigger_fix" /\ Tail(Late6) = Late7
  BY DEF Late6, Late7
<1>7. Late7 # <<>> /\ Head(Late7) = "trigger_speed" /\ Tail(Late7) = Late8
  BY DEF Late7, Late8
<1>8. Late8 # <<>> /\ Head(Late8) = "ctx_jumping" /\ Tail(Late8) = <<>>
  BY DEF Late8
<1> QED BY <1>1, <1>2, <1>3, <1>4, <1>5, <1>6, <1>7, <1>8

HistTypes == begun \in Nat /\ landed \in Nat /\ broken \in BOOLEAN
             /\ own \in BOOLEAN /\ (own => Jumping)

\* What each stage of the routine knows of the jumps.
HistInv ==
    \/ (Plain \/ Closing) /\ Tally
    \/ (Checking \/ Idling \/ Ready \/ Entering) /\ phase = "DONE"
    \/ Resetting /\ Young
    \/ /\ Ahead /\ Young /\ Fresh /\ mode = "seq" /\ jump_index = 0
       /\ begun = 0 /\ landed = 0 /\ ~own
    \/ /\ Under /\ Young /\ Fresh /\ mode = "seq" /\ jump_index = 0
       /\ active => begun = 1 /\ Kept
    \/ Refused /\ Young

LEMMA StoreAt ==
    ASSUME Next, At({"trigger_prepare"}), todo' # todo
    PROVE  jump_state' = "PREPARE"
<1>1. ~Tick /\ todo # <<>> /\ Head(todo) = "trigger_prepare"
  BY TickKeepsRoutine DEF At
<1>2. MainStep
  BY <1>1, MainPlace DEF Next
<1>3. TriggerStores
  BY <1>1, <1>2 DEF MainStep, StoreFlags, AbortStores, DefaultStores, ContextStores,
     RotationStores, At, SpeedStores, FuxianStores, StopFlagStores, RunStateStores,
     NagStores, StraightStores
<1> QED BY <1>1, <1>3 DEF TriggerStores, At

LEMMA HistTypesNext ==
    ASSUME HistTypes, Next, Observe
    PROVE  HistTypes'
<1>1. Begins => Jumping'
  BY StoreAt DEF Begins, Jumping
<1>2. begun' \in Nat /\ landed' \in Nat /\ broken' \in BOOLEAN
  BY DEF HistTypes, Observe
<1>3. own' \in BOOLEAN
  BY DEF HistTypes, Observe
<1>4. own' => Jumping'
  BY <1>1 DEF HistTypes, Observe
<1> QED BY <1>2, <1>3, <1>4 DEF HistTypes

\* What stair_service_1ms does to a sequence and to the jump.
LEMMA SequenceStep ==
    ASSUME TestTypes, StairService, mode = "seq"
    PROVE  \/ phase' = "DONE" /\ active' = FALSE /\ (Jumping' => Jumping)
           \/ UNCHANGED <<active, phase, jump_index, jump_ok, jump_state>>
           \/ /\ active /\ phase = "RUNUP" /\ Timer >= Interval /\ phase' = "JUMPING"
              /\ UNCHANGED <<active, jump_index>>
              /\ \/ ~Jumping /\ Jumping' /\ jump_ok' = TRUE
                 \/ jump_state' = jump_state /\ jump_ok' = FALSE
           \/ /\ active /\ phase = "JUMPING" /\ jump_ok /\ ~Jumping /\ Timer > Grace
              /\ phase' \in {"RUNUP", "STOPPING"} /\ jump_index' = jump_index + 1
              /\ UNCHANGED <<active, jump_state>>
<1> USE DEF StairPhases
<1>1. Abort => jump_state' = "IDLE"
  BY DEF Abort
<1>2. ASSUME NEW ok, NEW reason, Finish(ok, reason)
      PROVE  phase' = "DONE" /\ active' = FALSE /\ (Jumping' => Jumping)
  BY <1>1, <1>2 DEF Finish, FinishJump, ConfigDefault, jumpVars, Jumping
<1>3. CASE active /\ Runup
  <2>1. phase = "RUNUP" /\ UNCHANGED <<mode, active, jump_index>>
    BY <1>3 DEF Runup
  <2>2. CASE RunupTrigger /\ RunupOver
    <3>1. Timer >= Interval
      BY <2>2 DEF RunupOver
    <3>2. PICK v : TriggerJump(v)
      BY <2>2 DEF RunupTrigger
    <3>3. phase' = "JUMPING" /\ Trigger(v)
          /\ jump_ok' = (TriggerResult = "OK")
      BY <3>2 DEF TriggerJump
    <3>4. CASE TriggerResult = "OK"
      BY <1>3, <2>1, <3>1, <3>3, <3>4 DEF Trigger, TriggerResult, Jumping
    <3>5. CASE TriggerResult # "OK"
      BY <1>3, <2>1, <3>1, <3>3, <3>5 DEF Trigger, jumpVars
    <3> QED BY <3>4, <3>5
  <2>3. CASE RunupWait
    BY <1>3, <2>1, <2>3 DEF RunupWait, jumpVars
  <2> QED BY <1>3, <2>2, <2>3 DEF Runup
<1>4. CASE active /\ phase = "JUMPING" /\ Watch
  <2>1. CASE JumpTimedOut
    BY <1>1, <1>4, <2>1 DEF JumpTimedOut, Jumping
  <2>2. CASE Finish(FALSE, fail_reason)
    BY <1>2, <2>2
  <2>3. CASE JumpOver /\ Timer > Grace /\ jump_ok /\ ~Jumping
    BY <1>4, <2>3 DEF JumpOver, jumpVars
  <2>4. CASE JumpWait
    BY <1>4, <2>4 DEF JumpWait, jumpVars
  <2> QED BY <1>4, <2>1, <2>2, <2>3, <2>4 DEF Watch
<1>5. CASE active /\ Stopping
  <2>1. CASE StopWait
    BY <1>5, <2>1 DEF StopWait, jumpVars
  <2>2. CASE \E ok, reason : Finish(ok, reason)
    BY <1>2, <2>2
  <2> QED BY <1>5, <2>1, <2>2 DEF Stopping
<1>6. CASE UNCHANGED <<jumpVars, active, phase, jump_index, jump_ok>>
  BY <1>6 DEF jumpVars
<1>7. \/ active /\ Runup
      \/ active /\ phase = "JUMPING" /\ Watch
      \/ active /\ Stopping
      \/ UNCHANGED <<jumpVars, active, phase, jump_index, jump_ok>>
  BY DEF StairService, stairVars
<1> QED BY <1>3, <1>4, <1>5, <1>6, <1>7

\* What the other steps of the callback do to them.
LEMMA OtherStep ==
    ASSUME Tick, ~StairService, jump_state \in JumpStates
    PROVE  /\ isr # "stair"
           /\ UNCHANGED <<mode, jump_index>>
           /\ \/ UNCHANGED <<active, phase, jump_ok>>
              \/ active' = FALSE /\ phase' = "DONE"
           /\ Jumping /\ ~Jumping' =>
                  \/ isr = "steer" /\ jump_state = "RECOVER"
                  \/ isr \in {"state", "idle"}
                  \/ active' = FALSE /\ phase' \in {phase, "DONE"}
<1>1. CASE RemoteUpdate
  <2>1. Unarmed \/ ForceStop \/ \E ch : StickDrives(ch)
    BY <1>1 DEF RemoteUpdate, Decide
  <2>2. isr = "remote"
    BY <1>1 DEF RemoteUpdate, Step
  <2>3. CASE Unarmed
    BY <2>2, <2>3 DEF Unarmed, remoteStopVars, stairVars, jumpVars, Jumping
  <2>4. CASE ForceStop
    <3>1. CASE active
      BY <2>2, <2>4, <3>1 DEF ForceStop, StairAbort
    <3>2. CASE ~active
      BY <2>2, <2>4, <3>2 DEF ForceStop, stairVars
    <3> QED BY <3>1, <3>2
  <2>5. ASSUME NEW ch, StickDrives(ch)
        PROVE  UNCHANGED stairVars /\ (Jumping => Jumping')
    BY <2>5 DEF StickDrives, Trigger, TriggerResult, Jumping, jumpVars
  <2> QED BY <2>1, <2>2, <2>3, <2>4, <2>5 DEF stairVars
<1>2. CASE SteerControl
  <2>1. isr = "steer" /\ UNCHANGED stairVars
    BY <1>2 DEF SteerControl, Step
  <2>2. Jumping /\ ~Jumping' => jump_state = "RECOVER"
    <3>1. ASSUME jump_state \in JumpPhases, jump_state # "RECOVER"
          PROVE  NextPhase[jump_state] # "IDLE"
      BY <3>1 DEF NextPhase, JumpPhases
    <3>2. ASSUME Jumping, ~Jumping'
          PROVE  jump_state' = NextPhase[jump_state]
      BY <1>2, <3>2 DEF SteerControl, JumpTick, Jumping, jumpVars
    <3> QED BY <3>1, <3>2 DEF Jumping, JumpStates
  <2> QED BY <2>1, <2>2 DEF stairVars
<1>3. CASE CarFallen \/ CarRecovered \/ CarUpright \/ TickBegin
  BY <1>3 DEF CarFallen, CarRecovered, CarUpright, TickBegin, Step, stairVars
<1>4. CASE NagStep \/ BridgeService \/ StraightService \/ MotorOutput
  BY <1>4 DEF NagStep, BridgeService, StraightService, MotorOutput, Step, stairVars,
     jumpVars, Jumping
<1> QED BY <1>1, <1>2, <1>3, <1>4 DEF Tick

\* A tick begins a jump of the sequence at the end of its run-up only.
LEMMA TickObserved ==
    ASSUME Tick, Observe
    PROVE  /\ ~Resets
           /\ Begins <=> isr = "stair" /\ mode = "seq" /\ ~Jumping /\ Jumping'
           /\ begun' = IF Begins THEN begun + 1 ELSE begun
           /\ landed' = IF Lands THEN landed + 1 ELSE landed
           /\ broken' = (broken \/ Breaks)
           /\ own' = (Begins \/ (own /\ Jumping'))
<1>1. todo' = todo
  BY TickKeepsRoutine
<1>2. ~Resets /\ (Begins <=> isr = "stair" /\ mode = "seq" /\ ~Jumping /\ Jumping')
  BY <1>1 DEF Resets, Begins
<1> QED BY <1>2 DEF Observe

\* Where no jump begins, one that is kept stays so until its end is seen.
LEMMA KeptOn ==
    ASSUME HistTypes, Observe, ~Resets, ~Begins,
           Jumping /\ ~Jumping' => \/ isr = "steer" /\ jump_state = "RECOVER"
                                   \/ isr \in {"state", "idle"}
    PROVE  /\ Kept => Kept' /\ begun' = begun
           /\ Settled => Settled' /\ begun' = begun
<1>1. /\ begun' = begun /\ landed' = (IF Lands THEN landed + 1 ELSE landed)
      /\ broken' = (broken \/ Breaks) /\ own' = (own /\ Jumping')
  BY DEF Observe
<1>2. Settled => Settled'
  BY <1>1 DEF Settled, Lands, Breaks
<1>3. CASE own /\ Jumping' /\ (landed + 1 = begun \/ broken)
  <2>1. ~Lands /\ ~Breaks
    BY <1>3 DEF Lands, Breaks
  <2> QED BY <1>1, <1>2, <1>3, <2>1 DEF Kept
<1>4. CASE own /\ ~Jumping' /\ (landed + 1 = begun \/ broken)
  <2>1. Lands \/ Breaks
    BY <1>4 DEF HistTypes, Lands, Breaks
  <2>2. Settled'
    BY <1>1, <1>4, <2>1 DEF Settled, HistTypes
  <2> QED BY <1>1, <1>2, <2>2 DEF Kept
<1> QED BY <1>1, <1>2, <1>3, <1>4 DEF Kept

LEMMA SettledOn ==
    ASSUME Observe, ~Resets, ~Begins, Settled
    PROVE  Settled' /\ begun' = begun
BY DEF Observe, Settled, Lands, Breaks

LEMMA YoungFresh ==
    ASSUME Preemptions <= Grace + 1, Preemptions < Interval, DriveInv, TickCounted,
           Young, Fresh, mode = "seq", todo # <<>>, Tick
    PROVE  /\ Young' /\ Fresh' /\ jump_index' = jump_index /\ mode' = mode
           /\ active' => active
           /\ ~(isr = "stair" /\ ~Jumping /\ Jumping')
           /\ active' /\ Jumping /\ ~Jumping' =>
                  \/ isr = "steer" /\ jump_state = "RECOVER"
                  \/ isr \in {"state", "idle"}
<1> USE DEF DriveInv
<1>1. /\ Grace \in Nat /\ Preemptions \in Nat /\ Interval \in Nat
      /\ preempted \in Nat /\ preempted <= Preemptions
      /\ phase_timer \in [Modes -> Nat] /\ mode \in Modes /\ phase_timer[mode] \in Nat
      /\ jump_state \in JumpStates
  BY StairAssumption, InputsAssumption DEF StairAssumption, InputsAssumption, TestTypes,
     Counted, BridgeInv, Speeds
<1>2. Young' /\ jump_index' = jump_index /\ mode' = mode
  BY YoungTick, StairContext, OtherContext
<1>3. CASE StairService
  <2>1. isr = "stair" /\ isr' = "bridge" /\ preempted' = preempted /\ preempted >= 1
    BY <1>3, TickPlace DEF TickCounted
  <2>2. Timer <= phase_timer[mode] + 1
    BY <1>1 DEF Timer
  <2>3. ~(phase = "RUNUP" /\ Timer >= Interval)
    BY <1>1, <2>1, <2>2 DEF Fresh, Timer
  <2>4. ~(phase = "JUMPING" /\ Timer > Grace)
    BY <1>1, <2>1, <2>2 DEF Young, Timer
  <2>5. \/ phase' = "DONE" /\ active' = FALSE /\ (Jumping' => Jumping)
        \/ UNCHANGED <<active, phase, jump_state>>
    BY <1>3, <2>3, <2>4, SequenceStep
  <2>6. Fresh'
    <3>1. phase' = "RUNUP" => phase = "RUNUP"
      BY <2>5
    <3>2. phase' = "RUNUP" => phase_timer'[mode] <= phase_timer[mode] + 1
      BY <1>3, <2>5, StairContext
    <3>3. phase_timer' \in [Modes -> Nat]
      BY <1>3, TestTypesStair DEF TestTypes
    <3>4. phase_timer'[mode] \in Nat
      BY <1>1, <3>3
    <3>5. phase = "RUNUP" => phase_timer[mode] + 1 <= preempted
      BY <2>1 DEF Fresh
    <3>6. phase' = "RUNUP" => phase_timer'[mode] <= preempted'
      BY <1>1, <2>1, <3>1, <3>2, <3>4, <3>5
    <3> QED BY <1>1, <1>2, <2>1, <3>4, <3>6 DEF Fresh
  <2> QED BY <1>2, <2>5, <2>6 DEF Jumping
<1>4. CASE ~StairService
  <2>1. /\ isr # "stair" /\ (active' => active)
        /\ active' /\ Jumping /\ ~Jumping' =>
               \/ isr = "steer" /\ jump_state = "RECOVER"
               \/ isr \in {"state", "idle"}
    <3>1. active' => active
      <4>1. active' = active \/ active' = FALSE
        BY <1>1, <1>4, OtherStep
      <4> QED BY <4>1
    <3>2. isr # "stair"
      BY <1>1, <1>4, OtherStep
    <3>3. Jumping /\ ~Jumping' =>
              \/ isr = "steer" /\ jump_state = "RECOVER"
              \/ isr \in {"state", "idle"}
              \/ ~active'
      BY <1>1, <1>4, OtherStep
    <3> QED BY <3>1, <3>2, <3>3, Zenon
  <2>2. UNCHANGED phase_timer /\ phase' \in {phase, "DONE"}
    BY <1>4, OtherContext
  <2>3. CASE TickBegin
    <3>1. isr = "idle" /\ preempted' = preempted + 1
      BY <2>3, TickPlace
    <3> QED BY <1>1, <1>2, <2>1, <2>2, <3>1 DEF Fresh
  <2>4. CASE ~TickBegin
    <3>1. /\ preempted' = preempted
          /\ isr' \in {"state", "nag", "stair"} => isr \in {"state", "nag", "stair"}
      BY <1>4, <2>4, TickPlace
    <3> QED BY <1>1, <1>2, <2>1, <2>2, <3>1 DEF Fresh
  <2> QED BY <2>3, <2>4
<1> QED BY <1>3, <1>4

\* The tally is kept by every tick.
LEMMA TallyTick ==
    ASSUME DriveInv, HistTypes, Tally, Tick, Observe
    PROVE  Tally'
<1> USE DEF DriveInv
<1>1. jump_index \in Nat /\ jump_state \in JumpStates /\ TestTypes
  BY DEF TestTypes, BridgeInv, Speeds
<1>2. mode' = mode
  BY StairContext, OtherContext
<1>3. /\ ~Resets
      /\ Begins <=> isr = "stair" /\ mode = "seq" /\ ~Jumping /\ Jumping'
  BY TickObserved
<1>4. CASE mode # "seq"
  BY <1>2, <1>4 DEF Tally
<1>5. CASE mode = "seq" /\ StairService
  <2>1. isr = "stair"
    BY <1>5, TickPlace
  <2>2. CASE phase' = "DONE"
    BY <2>2 DEF Tally
  <2>3. CASE UNCHANGED <<active, phase, jump_index, jump_ok, jump_state>>
    <3>1. ~Begins /\ ~(Jumping /\ ~Jumping')
      BY <1>3, <2>3 DEF Jumping
    <3> QED BY <1>3, <1>5, <2>3, <3>1, KeptOn DEF Tally
  <2>4. CASE /\ active /\ phase = "RUNUP" /\ phase' = "JUMPING"
             /\ UNCHANGED <<active, jump_index>>
             /\ ~Jumping /\ Jumping' /\ jump_ok' = TRUE
    <3>1. /\ begun' = begun + 1 /\ landed' = landed /\ broken' = broken /\ own' = TRUE
      <4>1. Begins /\ ~Lands /\ ~Breaks
        BY <1>3, <1>5, <2>1, <2>4 DEF Lands, Breaks
      <4>2. broken \/ Breaks <=> broken
        BY <4>1
      <4> QED BY <4>1, TickObserved DEF HistTypes
    <3>2. begun = jump_index /\ (landed = begun \/ broken)
      BY <1>5, <2>4 DEF Tally, Settled
    <3>3. Kept' /\ begun' = jump_index' + 1
      BY <2>4, <3>1, <3>2 DEF Kept
    <3> QED BY <2>4, <3>3 DEF Tally
  <2>5. CASE phase' = "JUMPING" /\ jump_ok' = FALSE
    BY <2>5 DEF Tally
  <2>6. CASE /\ active /\ phase = "JUMPING" /\ jump_ok /\ ~Jumping
             /\ phase' \in {"RUNUP", "STOPPING"} /\ jump_index' = jump_index + 1
             /\ UNCHANGED <<active, jump_state>>
    <3>1. ~Begins /\ ~Jumping'
      BY <1>3, <2>6 DEF Jumping
    <3>2. begun = jump_index + 1 /\ Settled
      BY <1>5, <2>6 DEF Tally, Kept, HistTypes
    <3>3. Settled' /\ begun' = begun
      BY <1>3, <3>1, <3>2, SettledOn
    <3> QED BY <2>6, <3>2, <3>3 DEF Tally
  <2> QED BY <1>1, <1>5, <2>2, <2>3, <2>4, <2>5, <2>6, SequenceStep
<1>6. CASE mode = "seq" /\ ~StairService
  <2>1. isr # "stair" /\ jump_index' = jump_index
    BY <1>1, <1>6, OtherStep
  <2>2. ~Begins
    BY <1>3, <2>1
  <2>3. CASE phase' = "DONE"
    BY <2>3 DEF Tally
  <2>4. CASE UNCHANGED <<active, phase, jump_ok>>
    <3>1. CASE active
      <4>1. Jumping /\ ~Jumping' =>
                \/ isr = "steer" /\ jump_state = "RECOVER"
                \/ isr \in {"state", "idle"}
        BY <1>1, <1>6, <2>4, <3>1, OtherStep
      <4> QED BY <1>2, <1>3, <2>1, <2>2, <2>4, <4>1, KeptOn DEF Tally
    <3>2. CASE ~active
      BY <1>2, <1>3, <2>1, <2>2, <2>4, <3>2, SettledOn DEF Tally
    <3> QED BY <3>1, <3>2
  <2> QED BY <1>1, <1>6, <2>3, <2>4, OtherStep
<1> QED BY <1>4, <1>5, <1>6

\* The callback leaves the jump of the page where it is, too.
LEMMA HistTick ==
    ASSUME Preemptions <= Grace + 1, Preemptions < Interval, DriveInv, TickCounted,
           HistTypes, HistInv, Tick, Observe
    PROVE  HistInv'
<1>1. todo' = todo /\ trigger_result' = trigger_result
  BY TickKeepsRoutine
<1>2. /\ ~Resets
      /\ Begins <=> isr = "stair" /\ mode = "seq" /\ ~Jumping /\ Jumping'
      /\ landed' = (IF Lands THEN landed + 1 ELSE landed)
      /\ own' = (Begins \/ (own /\ Jumping'))
  BY TickObserved
<1>3. CASE (Plain \/ Closing) /\ Tally
  BY <1>3, TallyTick, TickStages DEF HistInv
<1>4. CASE (Checking \/ Idling \/ Ready \/ Entering) /\ phase = "DONE"
  <2>1. phase' = "DONE"
    BY <1>4, StairContext, OtherContext DEF DriveInv
  <2> QED BY <1>4, <2>1, TickStages DEF HistInv
<1>5. CASE (Resetting \/ Refused) /\ Young
  <2>1. todo # <<>>
    <3>1. <<"ctx_reset">> \in Seq(AllOps) /\ RestOps \in Seq(AllOps)
      BY StageParts DEF AllOps, StoreOps
    <3> QED BY <1>5, <3>1, First, LateFacts DEF Resetting, Refused
  <2>2. Young'
    BY <1>5, <2>1, YoungTick
  <2> QED BY <1>1, <1>5, <2>2, TickStages DEF HistInv, Refused
<1>6. CASE (Ahead \/ Under) /\ Young /\ Fresh /\ mode = "seq" /\ jump_index = 0
  <2>1. todo # <<>>
    BY <1>6, LateFacts DEF Ahead, Under
  <2>2. /\ Young' /\ Fresh' /\ jump_index' = 0 /\ mode' = "seq"
        /\ active' => active
        /\ ~Begins
        /\ active' /\ Jumping /\ ~Jumping' =>
               \/ isr = "steer" /\ jump_state = "RECOVER"
               \/ isr \in {"state", "idle"}
    BY <1>2, <1>6, <2>1, YoungFresh
  <2>3. CASE Ahead /\ begun = 0 /\ landed = 0 /\ ~own
    <3>1. begun' = 0 /\ landed' = 0 /\ ~own'
      BY <1>2, <2>2, <2>3, TickObserved DEF Lands
    <3>2. Ahead'
      BY <1>1, <2>3 DEF Ahead
    <3> QED BY <2>2, <3>1, <3>2 DEF HistInv
  <2>4. CASE Under /\ (active => begun = 1 /\ Kept)
    <3>1. Under'
      BY <1>1, <2>4 DEF Under
    <3>2. active' => begun' = 1 /\ Kept'
      <4>1. ASSUME active'
            PROVE  begun' = 1 /\ Kept'
        <5>1. Jumping /\ ~Jumping' =>
                  \/ isr = "steer" /\ jump_state = "RECOVER"
                  \/ isr \in {"state", "idle"}
          BY <2>2, <4>1
        <5>2. begun = 1 /\ Kept
          BY <2>2, <2>4, <4>1
        <5> QED BY <1>2, <2>2, <5>1, <5>2, KeptOn
      <4> QED BY <4>1
    <3> QED BY <2>2, <3>1, <3>2 DEF HistInv
  <2>5. \/ Ahead /\ begun = 0 /\ landed = 0 /\ ~own
        \/ Under /\ (active => begun = 1 /\ Kept)
        \/ (Plain \/ Closing) /\ Tally
        \/ (Checking \/ Idling \/ Ready \/ Entering) /\ phase = "DONE"
        \/ (Resetting \/ Refused) /\ Young
    BY DEF HistInv
  <2> QED BY <1>3, <1>4, <1>5, <2>3, <2>4, <2>5
<1>7. \/ (Ahead \/ Under) /\ Young /\ Fresh /\ mode = "seq" /\ jump_index = 0
      \/ (Plain \/ Closing) /\ Tally
      \/ (Checking \/ Idling \/ Ready \/ Entering) /\ phase = "DONE"
      \/ (Resetting \/ Refused) /\ Young
  BY DEF HistInv
<1> QED BY <1>3, <1>4, <1>5, <1>6, <1>7

\* The stores of the page's own jump, one after another.
LEMMA LateMoves ==
    ASSUME todo \in {Late1, Late2, Late3, Late4, Late5, Late6, Late7, Late8},
           Main \/ \E p \in Pages : MenuOpen(p)
    PROVE  /\ todo = Late1 => todo' = Late2
           /\ todo = Late2 => todo' = Late3
           /\ todo = Late3 => todo' = IF trigger_result' = "OK" THEN Late4 ELSE Late8
           /\ todo = Late4 => todo' = Late5
           /\ todo = Late5 => todo' = Late6
           /\ todo = Late6 => todo' = Late7
           /\ todo = Late7 => todo' = Late8
           /\ todo = Late8 => todo' = <<>> /\ jump_ok' = (trigger_result = "OK")
           /\ todo # Late3 => trigger_result' = trigger_result
<1>1. todo # <<>> /\ Head(todo) # "default_check"
  BY LateFacts
<1>2. MainStep
  BY <1>1, MainPlace
<1>3. todo # Late3 => todo' = Tail(todo)
  <2>1. todo # Late3 => Head(todo) # "trigger_check"
    BY LateFacts
  <2> QED BY <1>1, <2>1, MainRoutine
<1>4. todo # Late3 => trigger_result' = trigger_result
  <2>1. CASE TriggerStores /\ todo # Late3
    <3>1. ~At({"trigger_check"})
      BY <2>1, LateFacts DEF At
    <3> QED BY <2>1, <3>1 DEF TriggerStores
  <2>2. CASE ~TriggerStores
    BY <1>2, <2>2 DEF MainStep, StoreFlags, AbortStores, DefaultStores, ContextStores,
       RotationStores
  <2> QED BY <2>1, <2>2
<1>5. Head(todo) \in {"trigger_check", "ctx_jumping"} => TriggerStores
  BY <1>2 DEF MainStep, StoreFlags, AbortStores, DefaultStores, ContextStores,
     RotationStores, At, SpeedStores, FuxianStores, StopFlagStores, RunStateStores,
     NagStores, StraightStores
<1>6. todo = Late3 => todo' = IF trigger_result' = "OK" THEN Late4 ELSE Late8
  <2>1. ASSUME todo = Late3
        PROVE  /\ trigger_result' = TriggerResult
               /\ todo' = IF TriggerResult = "OK" THEN Tail(todo) ELSE <<"ctx_jumping">>
    <3>1. TriggerStores /\ Head(todo) = "trigger_check"
      BY <1>5, <2>1, LateFacts
    <3> QED BY <3>1 DEF TriggerStores, At
  <2> QED BY <2>1, LateFacts DEF Late8
<1>7. todo = Late8 => jump_ok' = (trigger_result = "OK")
  <2>1. todo = Late8 => TriggerStores /\ Head(todo) = "ctx_jumping"
    BY <1>5, LateFacts
  <2> QED BY <2>1 DEF TriggerStores, At
<1>8. /\ Late1 # Late3 /\ Late2 # Late3 /\ Late4 # Late3 /\ Late5 # Late3
      /\ Late6 # Late3 /\ Late7 # Late3 /\ Late8 # Late3
  BY LateFacts
<1>9. /\ todo = Late1 => todo' = Late2
      /\ todo = Late2 => todo' = Late3
      /\ todo = Late4 => todo' = Late5
      /\ todo = Late5 => todo' = Late6
  BY <1>3, <1>8, LateFacts
<1>10. /\ todo = Late6 => todo' = Late7
       /\ todo = Late7 => todo' = Late8
       /\ todo = Late8 => todo' = <<>>
  BY <1>3, <1>8, LateFacts
<1> QED BY <1>4, <1>6, <1>7, <1>9, <1>10

\* A store outside these two leaves what is said of the trigger ...
LEMMA AnswerKept ==
    ASSUME Main \/ \E p \in Pages : MenuOpen(p),
           todo # <<>> => Head(todo) \notin {"ctx_reset", "ctx_jumping"}
    PROVE  jump_ok' = jump_ok
<1>1. CASE NagLoaded \/ RotationSeen \/ \E p \in Pages : MenuOpen(p)
  BY <1>1 DEF NagLoaded, RotationSeen, MenuOpen, stairVars
<1>2. CASE ContextStores
  <2>1. ~At({"ctx_reset"})
    BY DEF At
  <2> QED BY <1>2, <2>1 DEF ContextStores
<1>3. CASE TriggerStores
  <2>1. ~At({"ctx_jumping"})
    BY DEF At
  <2>2. UNCHANGED stairVars
    BY <1>3, <2>1 DEF TriggerStores
  <2> QED BY <2>2 DEF stairVars
<1>4. CASE StoreFlags \/ AbortStores \/ DefaultStores \/ RotationStores
  BY <1>4 DEF StoreFlags, AbortStores, DefaultStores, RotationStores, stairVars
<1> QED BY <1>1, <1>2, <1>3, <1>4 DEF Main, MainStep

\* ... and outside the other two nothing begins, and nothing is reset.
LEMMA QuietObserve ==
    ASSUME Main \/ \E p \in Pages : MenuOpen(p),
           todo # <<>> => Head(todo) \notin {"ctx_reset", "trigger_prepare"}
    PROVE  ~Resets /\ ~Begins /\ isr = "idle" /\ isr' = "idle"
BY MainPlace DEF Resets, Begins, At

\* What a reset context is known to hold.
LEMMA ResetKnown ==
    ASSUME SeqInv, Resetting, Main \/ \E p \in Pages : MenuOpen(p)
    PROVE  Young /\ mode = PageMode[page]
<1>1. todo # <<>> /\ Head(todo) = "ctx_reset"
  BY ResettingMoves
<1>2. ~Plain
  BY <1>1, PlainMoves, QuietOps DEF ContextOps
<1>3. ~Closing
  BY <1>1, ClosingMoves, QuietOps DEF ContextOps
<1>4. ~Checking
  BY <1>1, CheckingMoves, QuietOps DEF ContextOps
<1>5. ~Idling /\ ~Ready /\ ~Entering
  BY <1>1, BeginMoves
<1>6. ~Triggering
  BY <1>1, TriggeringMoves, QuietOps DEF ContextOps
<1> QED BY <1>2, <1>3, <1>4, <1>5, <1>6 DEF SeqInv

LEMMA HistMain ==
    ASSUME DriveInv, SeqInv, HistTypes, HistInv, Observe,
           Main \/ \E p \in Pages : MenuOpen(p)
    PROVE  HistInv'
<1>1. TestTypes /\ preempted \in Nat
  BY DEF DriveInv, Counted
<1>2. isr = "idle" /\ isr' = "idle" /\ (todo # <<>> => preempted' = preempted)
  BY MainPlace
<1>3. ASSUME Tally, todo # <<>> => Head(todo) \notin ContextOps,
             todo # <<>> => Head(todo) # "trigger_prepare"
      PROVE  Tally'
  <2>1. UNCHANGED <<mode, active, phase, jump_index, jump_ok>>
    BY <1>3, ContextKept, AnswerKept DEF ContextOps
  <2>2. ~Resets /\ ~Begins
    BY <1>3, QuietObserve DEF ContextOps
  <2> QED BY <1>2, <1>3, <2>1, <2>2, KeptOn DEF Tally
<1>4. /\ "trigger_prepare" \notin PlainOps /\ "trigger_prepare" \notin Abortings
      /\ PlainOps \cap ContextOps = {} /\ Abortings \cap ContextOps = {}
  BY QuietOps DEF PlainOps, FlagOps, CommonOps, Abortings
<1>5. CASE (Plain \/ Closing) /\ Tally
  <2>1. CASE Plain
    BY <1>3, <1>4, <1>5, <2>1, PlainMoves DEF HistInv
  <2>2. CASE Closing
    <3>1. CASE todo # <<>> /\ Head(todo) \in Abortings /\ Closing'
      BY <1>3, <1>4, <1>5, <3>1 DEF HistInv
    <3>2. CASE todo # <<>> /\ Head(todo) = "ctx_off" /\ (Checking' \/ Ready')
      BY <1>1, <3>2, ContextSet DEF HistInv
    <3> QED BY <2>2, <3>1, <3>2, ClosingMoves
  <2> QED BY <1>5, <2>1, <2>2
<1>6. CASE (Checking \/ Idling \/ Ready \/ Entering) /\ phase = "DONE"
  <2>1. CASE Checking
    BY <1>6, <2>1, CheckingMoves, QuietOps, ContextKept DEF HistInv
  <2>2. CASE Idling
    BY <1>6, <2>2, BeginMoves, QuietOps, ContextKept DEF HistInv
  <2>3. CASE Ready
    BY <1>1, <1>6, <2>3, BeginMoves, ContextSet DEF HistInv
  <2>4. CASE Entering
    <3>1. todo # <<>> /\ Head(todo) = "ctx_runup" /\ Resetting'
      BY <2>4, BeginMoves
    <3>2. phase' = "RUNUP"
      BY <1>1, <3>1, ContextSet
    <3> QED BY <3>1, <3>2 DEF HistInv, Young
  <2> QED BY <1>6, <2>1, <2>2, <2>3, <2>4
<1>7. CASE Resetting
  <2>1. todo # <<>> /\ Head(todo) = "ctx_reset"
        /\ IF page = "D2" THEN Triggering' ELSE Plain'
    BY <1>7, ResettingMoves
  <2>2. todo' = RestOps
    <3>1. "ctx_reset" \in AllOps /\ RestOps \in Seq(AllOps)
      BY StageParts DEF AllOps, StoreOps
    <3> QED BY <1>7, <3>1, SingleStep DEF Resetting
  <2>3. Young /\ mode = PageMode[page]
    BY <1>7, ResetKnown
  <2>4. /\ phase_timer'[mode] = 0 /\ jump_index' = 0 /\ mode' = mode /\ phase' = phase
        /\ preempted' = preempted
    BY <1>1, <1>2, <2>1, ContextSet
  <2>5. CASE page = "D2"
    <3>1. mode = "seq"
      BY <2>3, <2>5 DEF PageMode, AllPages
    <3>2. todo' = Late1
      <4>1. <<"stair_params", "stair_speed">> = <<"stair_params">> \o <<"stair_speed">>
        OBVIOUS
      <4>2. /\ TriggerOps \in Seq(AllOps) /\ <<"stair_params">> \in Seq(AllOps)
            /\ <<"stair_speed">> \in Seq(AllOps)
        BY ProperParts DEF Proper, AllOps, StoreOps
      <4>3. <<"stair_params", "stair_speed">> \o TriggerOps = Late1
        BY <4>1, <4>2 DEF Late1, Late2, Late3
      <4> QED BY <2>2, <2>5, <4>3 DEF RestOps
    <3>3. todo' # todo
      <4>1. Head(Late1) = "stair_params"
        BY LateFacts
      <4> QED BY <2>1, <3>2, <4>1
    <3>4. Resets
      BY <1>2, <2>1, <3>3 DEF Resets, At
    <3>5. begun' = 0 /\ landed' = 0 /\ ~own'
      BY <3>4 DEF Observe
    <3>6. Young' /\ Fresh'
      <4>1. preempted' = preempted /\ preempted \in Nat /\ isr' = "idle"
        BY <1>1, <1>2, <2>1
      <4>2. phase_timer'[mode'] = 0
        BY <2>4
      <4>3. Fresh'
        BY <4>1, <4>2 DEF Fresh
      <4>4. phase_timer[mode] \in Nat
        BY <1>1 DEF TestTypes
      <4>5. Young'
        BY <1>2, <2>3, <2>4, <4>1, <4>2, <4>4 DEF Young
      <4> QED BY <4>3, <4>5
    <3> QED BY <2>4, <3>1, <3>2, <3>5, <3>6 DEF HistInv, Ahead
  <2>6. CASE page # "D2"
    <3>1. mode' # "seq"
      BY <1>7, <2>3, <2>4, <2>6 DEF PageMode, AllPages, Resetting, JumpPages
    <3> QED BY <2>1, <2>6, <3>1 DEF HistInv, Tally
  <2> QED BY <2>5, <2>6
<1>8. ASSUME Young, Fresh, mode = "seq", jump_index = 0,
             todo # <<>>, Head(todo) \notin ContextOps
      PROVE  /\ Young' /\ Fresh' /\ mode' = "seq" /\ jump_index' = 0 /\ active' = active
  <2>1. UNCHANGED <<mode, active, phase, phase_timer, jump_index>>
    BY <1>8, ContextKept
  <2> QED BY <1>2, <1>8, <2>1 DEF Young, Fresh
<1>9. CASE /\ Ahead /\ Young /\ Fresh /\ mode = "seq" /\ jump_index = 0
           /\ begun = 0 /\ landed = 0 /\ ~own
  <2>1. /\ todo # <<>> /\ Head(todo) \notin ContextOps /\ Head(todo) # "ctx_reset"
        /\ Head(todo) = "trigger_prepare" <=> todo = Late4
    BY <1>9, LateFacts DEF Ahead, ContextOps
  <2>2. Young' /\ Fresh' /\ mode' = "seq" /\ jump_index' = 0 /\ active' = active
    BY <1>8, <1>9, <2>1
  <2>3. ~Resets
    BY <2>1 DEF Resets, At
  <2>4. CASE todo # Late4
    <3>1. ~Begins
      BY <2>1, <2>4, QuietObserve
    <3>2. begun' = 0 /\ landed' = 0 /\ ~own'
      BY <1>9, <2>3, <3>1 DEF Observe, Lands
    <3>3. Ahead' \/ Refused'
      <4>1. todo \in {Late1, Late2, Late3}
        BY <1>9, <2>4 DEF Ahead
      <4> QED BY <4>1, LateMoves DEF Ahead, Refused
    <3> QED BY <2>2, <3>2, <3>3 DEF HistInv
  <2>5. CASE todo = Late4
    <3>1. todo' = Late5 /\ trigger_result' = "OK"
      <4>1. trigger_result = "OK" /\ Late4 # Late3
        BY <1>9, <2>5, LateFacts DEF Ahead
      <4> QED BY <2>5, <4>1, LateMoves
    <3>2. Late5 # Late4
      <4>1. Head(Late5) # Head(Late4)
        BY LateFacts
      <4> QED BY <4>1
    <3>3. Begins
      BY <1>2, <2>1, <2>5, <3>1, <3>2 DEF Begins, At
    <3>4. begun' = 1 /\ landed' = 0 /\ own'
      <4>1. ~Lands
        BY <1>9 DEF Lands
      <4>2. begun' = begun + 1 /\ landed' = landed
        BY <2>3, <3>3, <4>1 DEF Observe
      <4>3. own'
        BY <2>3, <3>3 DEF Observe
      <4> QED BY <1>9, <4>2, <4>3
    <3>5. Kept' /\ Under'
      BY <3>1, <3>4 DEF Kept, Under
    <3> QED BY <2>2, <3>4, <3>5 DEF HistInv
  <2> QED BY <2>4, <2>5
<1>10. CASE /\ Under /\ Young /\ Fresh /\ mode = "seq" /\ jump_index = 0
            /\ active => begun = 1 /\ Kept
  <2>1. /\ todo # <<>> /\ Head(todo) \notin {"ctx_reset", "trigger_prepare"}
        /\ todo # Late8 => Head(todo) \notin ContextOps
    BY <1>10, LateFacts DEF Under, ContextOps
  <2>2. ~Resets /\ ~Begins
    BY <2>1, QuietObserve
  <2>3. active => begun' = 1 /\ Kept'
    BY <1>2, <1>10, <2>2, KeptOn
  <2>4. todo \in {Late5, Late6, Late7, Late8} /\ trigger_result = "OK" /\ todo # Late3
    BY <1>10, LateFacts DEF Under
  <2>5. CASE todo # Late8
    <3>1. Young' /\ Fresh' /\ mode' = "seq" /\ jump_index' = 0 /\ active' = active
      BY <1>8, <1>10, <2>1, <2>5
    <3>2. Under'
      BY <2>4, <2>5, LateMoves DEF Under
    <3> QED BY <2>3, <3>1, <3>2 DEF HistInv
  <2>6. CASE todo = Late8
    <3>1. Head(todo) = "ctx_jumping"
      BY <2>6, LateFacts
    <3>2. phase' = "JUMPING" /\ UNCHANGED <<mode, active, jump_index>>
      BY <1>1, <2>1, <3>1, ContextSet
    <3>3. todo' = <<>>
      BY <2>6, LateMoves
    <3>4. Plain'
      BY <3>3 DEF Plain
    <3>5. Tally'
      BY <1>10, <2>3, <3>2 DEF Tally
    <3> QED BY <3>4, <3>5 DEF HistInv
  <2> QED BY <2>5, <2>6
<1>11. CASE Refused /\ Young
  <2>1. todo # <<>> /\ Head(todo) = "ctx_jumping"
    BY <1>11, LateFacts DEF Refused
  <2>2. phase' = "JUMPING"
    BY <1>1, <2>1, ContextSet
  <2>3. todo' = <<>> /\ jump_ok' = FALSE
    BY <1>11, LateMoves DEF Refused
  <2>4. Plain' /\ Tally'
    BY <2>2, <2>3 DEF Plain, Tally
  <2> QED BY <2>4 DEF HistInv
<1> QED BY <1>5, <1>6, <1>7, <1>9, <1>10, <1>11 DEF HistInv

LEMMA HistNext ==
    ASSUME Preemptions <= Grace + 1, Preemptions < Interval, DriveInv, TickCounted,
           SeqInv, HistTypes, HistInv, [Next /\ Observe]_<<vars, historyVars>>
    PROVE  HistTypes' /\ HistInv'
<1>1. CASE Next /\ Observe
  BY <1>1, HistTypesNext, HistTick, HistMain DEF Next
<1>2. CASE UNCHANGED <<vars, historyVars>>
  <2>1. UNCHANGED vars /\ UNCHANGED <<begun, landed, broken, own>>
    BY <1>2 DEF historyVars
  <2>2. UNCHANGED <<jump_state, jump_ok, trigger_result>>
    BY <2>1 DEF vars, jumpVars, stairVars, mainVars
  <2>3. HistTypes'
    BY <2>1, <2>2 DEF HistTypes, Jumping
  <2>4. Tally' = Tally /\ Kept' = Kept /\ Young' = Young /\ Fresh' = Fresh
    BY <2>1, <2>2, StutterStages DEF Tally, Kept, Settled, Young, Fresh
  <2>5. Ahead' = Ahead /\ Under' = Under /\ Refused' = Refused
    BY <2>1, <2>2, StutterStages DEF Ahead, Under, Refused
  <2>6. HistInv'
    BY <2>1, <2>4, <2>5, StutterStages DEF HistInv
  <2> QED BY <2>3, <2>6
<1> QED BY <1>1, <1>2

LEMMA HistStart == Init /\ HistoryInit => HistTypes /\ HistInv
<1> SUFFICES ASSUME Init, HistoryInit
             PROVE  HistTypes /\ HistInv
  OBVIOUS
<1>1. HistTypes
  BY DEF HistoryInit, HistTypes
<1>2. Plain /\ Tally
  BY DEF Init, Plain, Tally
<1> QED BY <1>1, <1>2 DEF HistInv

(* A sequence that has come to its final brake has begun all its jumps      *)
(* itself and seen them land, but for what a fall or a page broke off, though *)
(* the callback moves the context of the sequence while the page of the main *)
(* loop is still filling it (Stair_test.c:196-228 and 509-575). It rests on  *)
(* the routine being shorter than the ticks for which the end of a jump is   *)
(* not looked at, and than the pause between two jumps.                      *)
THEOREM DriveSequenceCounts ==
    Preemptions <= Grace + 1 /\ Preemptions < Interval /\ HistorySpec => []SequenceCounts
<1> SUFFICES ASSUME Preemptions <= Grace + 1, Preemptions < Interval
             PROVE  HistorySpec => []SequenceCounts
  OBVIOUS
<1>1. SeqInv /\ HistInv => SequenceCounts
  <2> SUFFICES ASSUME SeqInv, HistInv, mode = "seq", phase = "STOPPING"
               PROVE  begun = TotalJumps /\ (landed = TotalJumps \/ broken)
    BY DEF SequenceCounts
  <2>1. Count
    BY DEF SeqInv, Young
  <2>2. Tally
    BY DEF HistInv, Young
  <2> QED BY <2>1, <2>2 DEF Count, Tally, Settled
<1>2. DriveInv /\ TickCounted /\ SeqInv /\ [Next]_vars => TickCounted' /\ SeqInv'
  BY TickCountedNext, SeqNext DEF DriveInv
<1>3. HistorySpec => Spec
  <2>1. [Next /\ Observe]_<<vars, historyVars>> => [Next]_vars
    OBVIOUS
  <2> QED BY <2>1, PTL DEF HistorySpec, Spec
<1>4. HistorySpec => [](DriveInv /\ TickCounted /\ SeqInv)
  BY <1>2, <1>3, DriveInvHolds, SeqInit, TickCountedInit, PTL DEF Spec
<1>5. DriveInv /\ TickCounted /\ SeqInv /\ HistTypes /\ HistInv
        /\ [Next /\ Observe]_<<vars, historyVars>> => HistTypes' /\ HistInv'
  BY HistNext
<1> QED BY <1>1, <1>4, <1>5, HistStart, PTL DEF HistorySpec
---------------------------------------------------------------------------
(* The parameters of the jump.                                             *)

\* A sequence whose routine is under way has not been ended by the callback.
Held ==
    /\ active /\ mode = "seq"
    /\ phase # "DONE" /\ Young

\* Who set the parameters of the stairs takes them back: an active test, the
\* start of the next one, or the main loop before it starts the flat test.
ParInv ==
    /\ active /\ mode = "jump" => cfg = "default"
    /\ Frames = {} => ~detected
    /\ \/ Plain /\ (cfg = "stair" => active)
       \/ Closing
       \/ Checking /\ ~active /\ phase = "DONE"
       \/ Idling /\ ~active /\ cfg = "default" /\ phase = "DONE"
       \/ Ready /\ ~active /\ (page = "D4" => cfg = "default") /\ phase = "DONE"
       \/ /\ Entering /\ (cfg = "stair" => active)
          /\ page = "D2" => active /\ mode = "seq" /\ phase = "DONE"
       \/ Resetting /\ (cfg = "stair" => active) /\ (page = "D2" => Held)
       \/ Triggering /\ Held

\* Either the sequence cannot be opened, or nothing ends it while it is filled:
\* no forced stop, and no jump whose end is looked at inside the routine.
Unbroken ==
    \/ "D2" \notin Pages
    \/ Frames = {} /\ Preemptions <= Grace + 1 /\ Grace <= JumpTimeout

LEMMA StairParameters ==
    ASSUME TestTypes, StairService
    PROVE  /\ ~active => UNCHANGED <<active, cfg>>
           /\ active /\ mode = "jump" => cfg' = cfg
           /\ active' = active \/ cfg' = "default" \/ mode = "jump"
<1>1. CASE active /\ Runup
  BY <1>1 DEF Runup, RunupTrigger, RunupWait
<1>2. CASE active /\ Watch
  <2>1. CASE Finish(FALSE, fail_reason)
    BY <1>2, <2>1 DEF Finish, FinishJump, ConfigDefault
  <2>2. CASE JumpTimedOut \/ JumpOver \/ JumpWait
    BY <1>2, <2>2 DEF JumpTimedOut, JumpOver, JumpWait
  <2> QED BY <1>2, <2>1, <2>2 DEF Watch
<1>3. CASE active /\ Stopping
  <2>1. CASE \E ok, reason : Finish(ok, reason)
    BY <1>3, <2>1 DEF Finish, FinishJump, ConfigDefault
  <2>2. CASE StopWait
    BY <1>3, <2>2 DEF StopWait
  <2> QED BY <1>3, <2>1, <2>2 DEF Stopping
<1>4. CASE UNCHANGED <<active, cfg>>
  BY <1>4
<1> QED BY <1>1, <1>2, <1>3, <1>4 DEF StairService, stairVars

\* A sequence too young for the end of its jump to be looked at goes on.
LEMMA StairHeld ==
    ASSUME TestTypes, StairService, active, phase \in {"RUNUP", "JUMPING"},
           phase = "JUMPING" => phase_timer[mode] + 1 <= Grace, Grace <= JumpTimeout
    PROVE  active' = active /\ phase' # "DONE"
<1>1. Grace \in Nat /\ JumpTimeout \in Nat /\ phase_timer[mode] \in Nat
  BY StairAssumption DEF StairAssumption, TestTypes
<1>2. CASE phase = "RUNUP"
  <2>1. Runup
    BY <1>2 DEF StairService, Stopping
  <2> QED BY <1>2, <2>1 DEF Runup, RunupTrigger, RunupWait, TriggerJump
<1>3. CASE phase = "JUMPING"
  <2>1. Watch
    BY <1>3 DEF StairService, Stopping, Runup
  <2>2. Timer \in Nat /\ Timer <= Grace
    BY <1>1, <1>3 DEF Timer
  <2>3. ~JumpLate /\ ~(Timer > Grace)
    BY <1>1, <2>2 DEF JumpLate
  <2>4. JumpWait
    BY <2>1, <2>3 DEF Watch, JumpTimedOut
  <2> QED BY <1>3, <2>4 DEF JumpWait
<1> QED BY <1>2, <1>3

LEMMA OtherParameters ==
    ASSUME Tick, ~StairService
    PROVE  /\ UNCHANGED <<active, cfg>> \/ (active' = FALSE /\ cfg' = "default")
           /\ Frames = {} /\ ~detected => UNCHANGED <<active, phase, cfg, detected>>
<1>1. CASE RemoteUpdate
  <2>1. Unarmed \/ ForceStop \/ \E ch : StickDrives(ch)
    BY <1>1 DEF RemoteUpdate, Decide
  <2>2. UNCHANGED <<stairVars, cfg>> \/ StairAbort
    BY <2>1 DEF Unarmed, ForceStop, StickDrives, remoteStopVars
  <2>3. ASSUME Frames = {}, ~detected
        PROVE  UNCHANGED <<active, phase, cfg, detected>>
    <3>1. PICK lost \in {lost_count_ms, lost_count_ms + 1} :
             Decide(channel, online, detected, lost)
      BY <1>1, <2>3 DEF RemoteUpdate
    <3>2. Unarmed /\ detected' = detected
      BY <2>3, <3>1 DEF Decide
    <3> QED BY <3>2 DEF Unarmed, remoteStopVars, stairVars
  <2> QED BY <2>2, <2>3 DEF stairVars, StairAbort, ConfigDefault
<1>2. CASE ~RemoteUpdate
  BY <1>2 DEF Tick, TickBegin, CarFallen, CarRecovered, CarUpright, NagStep,
     BridgeService, SteerControl, StraightService, MotorOutput, stairVars, remoteVars
<1> QED BY <1>1, <1>2

LEMMA MainParameters ==
    ASSUME Main \/ \E p \in Pages : MenuOpen(p)
    PROVE  /\ \/ cfg' = cfg
              \/ todo # <<>> /\ Head(todo) = "default_params" /\ cfg' = "default"
              \/ todo # <<>> /\ Head(todo) = "stair_params" /\ cfg' = "stair"
           /\ todo # <<>> /\ Head(todo) = "default_params" => cfg' = "default"
<1>1. CASE NagLoaded \/ RotationSeen \/ \E p \in Pages : MenuOpen(p)
  BY <1>1 DEF NagLoaded, RotationSeen, MenuOpen
<1>2. CASE DefaultStores
  BY <1>2 DEF DefaultStores, At
<1>3. CASE StoreFlags \/ RotationStores
  BY <1>3 DEF StoreFlags, RotationStores, At, SpeedStores, FuxianStores, StopFlagStores,
     RunStateStores, NagStores, StraightStores
<1>4. CASE AbortStores \/ ContextStores \/ TriggerStores
  BY <1>4 DEF AbortStores, ContextStores, TriggerStores, At
<1> QED BY <1>1, <1>2, <1>3, <1>4 DEF Main, MainStep

\* Every stage but the plain one has something left to do.
LEMMA Underway ==
    Closing \/ Checking \/ Idling \/ Ready \/ Entering \/ Resetting \/ Triggering
        => todo # <<>>
<1>2. Closing => todo # <<>>
  <2> SUFFICES ASSUME Closing PROVE todo # <<>>
    OBVIOUS
  <2>1. PICK s \in Seq(Abortings) : todo = s \o (<<"ctx_off">> \o EnterOps)
    BY DEF Closing
  <2>2. s \in Seq(AllOps) /\ <<"ctx_off">> \in Seq(AllOps) /\ EnterOps \in Seq(AllOps)
    BY StageParts DEF AllOps, StoreOps
  <2> QED BY <2>1, <2>2
<1>3. Checking => todo # <<>>
  <2> SUFFICES ASSUME Checking PROVE todo # <<>>
    OBVIOUS
  <2> DEFINE v == BeginOps \o RestOps
  <2>1. PICK s \in Seq(CheckOps) : todo = s \o (<<"default_params", "default_idle">> \o v)
    BY DEF Checking
  <2>2. /\ s \in Seq(AllOps) /\ <<"default_params", "default_idle">> \in Seq(AllOps)
        /\ v \in Seq(AllOps)
    BY StageParts DEF AllOps, StoreOps, Abortings, CheckOps
  <2> HIDE DEF v
  <2> QED BY <2>1, <2>2
<1>4. RestOps \in Seq(AllOps) /\ BeginOps \o RestOps \in Seq(AllOps)
  BY StageParts
<1>5. Idling => todo # <<>>
  <2> DEFINE v == BeginOps \o RestOps
  <2>1. <<"default_idle">> \in Seq(AllOps) /\ v \in Seq(AllOps)
    BY <1>4 DEF AllOps, StoreOps, Abortings
  <2> HIDE DEF v
  <2>2. <<"default_idle">> \o v # <<>>
    BY <2>1
  <2> QED BY <2>2 DEF Idling, v
<1>6. Ready => todo # <<>>
  <2>1. BeginOps \in Seq(AllOps) /\ BeginOps # <<>>
    BY StageParts DEF BeginOps
  <2>2. BeginOps \o RestOps # <<>>
    BY <1>4, <2>1
  <2> QED BY <2>2 DEF Ready
<1>7. Entering \/ Resetting => todo # <<>>
  <2>1. <<"ctx_runup", "ctx_reset">> \in Seq(AllOps) /\ <<"ctx_reset">> \in Seq(AllOps)
    BY DEF AllOps, StoreOps
  <2>2. <<"ctx_runup", "ctx_reset">> \o RestOps # <<>> /\ <<"ctx_reset">> \o RestOps # <<>>
    BY <1>4, <2>1
  <2> QED BY <2>2 DEF Entering, Resetting
<1>8. Triggering => todo # <<>>
  <2> SUFFICES ASSUME Triggering PROVE todo # <<>>
    OBVIOUS
  <2>1. PICK s \in Seq(LateOps) : todo = s \o <<"ctx_jumping">>
    BY DEF Triggering
  <2> QED BY <2>1
<1> QED BY <1>2, <1>3, <1>5, <1>6, <1>7, <1>8

LEMMA ParTick ==
    ASSUME Unbroken, DriveInv, TickCounted, ParInv, Tick
    PROVE  ParInv'
<1> USE DEF DriveInv
<1>1. mode' = mode /\ page' = page /\ todo' = todo
  BY StairContext, OtherContext, TickStages
<1>2. active \in BOOLEAN
  BY DEF TestTypes
<1>3. active' /\ mode' = "jump" => cfg' = "default"
  BY <1>1, StairParameters, OtherParameters DEF ParInv
<1>4. Frames = {} => ~detected'
  <2>1. CASE StairService
    BY <2>1 DEF StairService, remoteVars, ParInv
  <2> QED BY <2>1, OtherParameters DEF ParInv
<1>5. ~active => ~active' /\ (cfg = "default" => cfg' = "default")
  BY StairParameters, OtherParameters
<1>6. (cfg = "stair" => active) => (cfg' = "stair" => active')
  <2>1. cfg \in {"default", "stair"}
    BY DEF GainTypes
  <2> QED BY <1>2, <2>1, StairParameters, OtherParameters DEF ParInv
<1>7. phase = "DONE" => phase' = "DONE"
  BY StairContext, OtherContext
<1>8. page = "D2" /\ todo # <<>> =>
         /\ Frames = {} /\ ~detected /\ Preemptions <= Grace + 1 /\ Grace <= JumpTimeout
  BY DEF Unbroken, PageInv, ParInv
<1>9. ASSUME page = "D2", todo # <<>>, active, mode = "seq", phase = "DONE"
      PROVE  active' /\ mode' = "seq" /\ phase' = "DONE"
  <2>1. StairService => active' = active
    BY <1>9 DEF StairService, Runup, Stopping
  <2> QED BY <1>1, <1>7, <1>8, <1>9, <2>1, OtherParameters
<1>10. ASSUME page = "D2", todo # <<>>, Held
       PROVE  Held'
  <2>1. Young'
    BY <1>8, <1>10, YoungTick DEF Held
  <2>2. phase \in {"RUNUP", "JUMPING"}
    BY <1>10 DEF Held, Young
  <2>3. CASE StairService
    <3>1. isr = "stair" /\ preempted \in Nat /\ preempted <= Preemptions
      BY <2>3, TickPlace DEF Counted
    <3>2. /\ Grace \in Nat /\ Preemptions \in Nat /\ phase_timer[mode] \in Nat
      BY StairAssumption, InputsAssumption DEF StairAssumption, InputsAssumption, TestTypes
    <3>3. phase = "JUMPING" => phase_timer[mode] + 1 <= Grace
      BY <1>8, <1>10, <3>1, <3>2 DEF Held, Young
    <3>4. active' = active /\ phase' # "DONE"
      BY <1>8, <1>10, <2>2, <2>3, <3>3, StairHeld DEF Held
    <3> QED BY <1>1, <1>10, <2>1, <3>4 DEF Held
  <2>4. CASE ~StairService
    <3>1. active' = active /\ phase' = phase
      BY <1>8, <1>10, <2>4, OtherParameters
    <3> QED BY <1>1, <1>10, <2>1, <3>1 DEF Held
  <2> QED BY <2>3, <2>4
<1>11. CASE Plain /\ (cfg = "stair" => active)
  BY <1>3, <1>4, <1>6, <1>11, TickStages DEF ParInv
<1>12. CASE Closing
  BY <1>3, <1>4, <1>12, TickStages DEF ParInv
<1>13. CASE Checking /\ ~active /\ phase = "DONE"
  BY <1>3, <1>4, <1>5, <1>7, <1>13, TickStages DEF ParInv
<1>14. CASE Idling /\ ~active /\ cfg = "default" /\ phase = "DONE"
  BY <1>3, <1>4, <1>5, <1>7, <1>14, TickStages DEF ParInv
<1>15. CASE Ready /\ ~active /\ (page = "D4" => cfg = "default") /\ phase = "DONE"
  BY <1>1, <1>3, <1>4, <1>5, <1>7, <1>15, TickStages DEF ParInv
<1>16. CASE /\ Entering /\ (cfg = "stair" => active)
            /\ page = "D2" => active /\ mode = "seq" /\ phase = "DONE"
  <2>1. page' = "D2" => active' /\ mode' = "seq" /\ phase' = "DONE"
    BY <1>1, <1>9, <1>16, Underway
  <2> QED BY <1>3, <1>4, <1>6, <1>16, <2>1, TickStages DEF ParInv
<1>17. CASE Resetting /\ (cfg = "stair" => active) /\ (page = "D2" => Held)
  <2>1. page' = "D2" => Held'
    BY <1>1, <1>10, <1>17, Underway
  <2> QED BY <1>3, <1>4, <1>6, <1>17, <2>1, TickStages DEF ParInv
<1>18. CASE Triggering /\ Held
  <2>1. Held'
    BY <1>10, <1>18, Underway DEF Triggering
  <2> QED BY <1>3, <1>4, <1>18, <2>1, TickStages DEF ParInv
<1> QED BY <1>11, <1>12, <1>13, <1>14, <1>15, <1>16, <1>17, <1>18 DEF ParInv

LEMMA ParMain ==
    ASSUME Unbroken, DriveInv, ParInv, Main \/ \E p \in Pages : MenuOpen(p)
    PROVE  ParInv'
<1> DEFINE Still == UNCHANGED <<mode, active, phase, phase_timer, jump_index>>
<1>1. /\ TestTypes /\ preempted \in Nat /\ phase_timer[mode] \in Nat
      /\ cfg \in {"default", "stair"}
  BY DEF DriveInv, TestTypes, Counted, GainTypes
<1>2. isr = "idle" /\ isr' = "idle" /\ (todo # <<>> => preempted' = preempted)
  BY MainPlace
<1>3. Frames = {} => ~detected'
  BY MainKeepsRemote DEF remoteVars, ParInv
<1>4. /\ "stair_params" \notin PlainOps /\ "stair_params" \notin Abortings
      /\ "stair_params" \notin CheckOps
      /\ "stair_params" \notin ContextOps /\ "default_params" \notin LateOps
      /\ "default_params" \notin CheckOps
      /\ "default_params" \notin PlainOps /\ "default_params" \notin ContextOps
  BY DEF PlainOps, FlagOps, CommonOps, Abortings, CheckOps, ContextOps, LateOps
<1>5. todo # <<>> /\ Head(todo) \in ContextOps => cfg' = cfg
  BY <1>4, MainParameters
<1>6. Still /\ cfg' \in {cfg, "default"} => (active' /\ mode' = "jump" => cfg' = "default")
  BY DEF ParInv
<1>7. CASE Plain /\ (cfg = "stair" => active)
  <2>1. Still
    BY <1>7, PlainMoves, QuietOps, ContextKept
  <2>2. cfg' = cfg
    BY <1>4, <1>7, PlainMoves, MainParameters
  <2> QED BY <1>3, <1>6, <1>7, <2>1, <2>2, PlainMoves DEF ParInv
<1>8. CASE Closing
  <2>1. CASE Head(todo) \in Abortings /\ Closing'
    <3>1. Still
      BY <2>1, QuietOps, ContextKept
    <3>2. cfg' \in {cfg, "default"}
      BY <1>4, <2>1, MainParameters
    <3> QED BY <1>3, <1>6, <2>1, <3>1, <3>2 DEF ParInv
  <2>2. CASE /\ todo # <<>> /\ Head(todo) = "ctx_off"
             /\ IF page = "D4" THEN Checking' ELSE Ready'
    <3>1. active' = FALSE /\ phase' = "DONE"
      BY <1>1, <2>2, ContextSet
    <3>2. CASE Checking'
      BY <1>3, <3>1, <3>2 DEF ParInv
    <3>3. CASE Ready' /\ page # "D4"
      <4>1. page' = page
        BY <2>2, PageStays
      <4> QED BY <1>3, <3>1, <3>3, <4>1 DEF ParInv
    <3>4. CASE page = "D4"
      <4>1. Checking'
        BY <2>2, <3>4
      <4> QED BY <3>2, <4>1
    <3> QED BY <2>2, <3>2, <3>3, <3>4
  <2> QED BY <1>8, <2>1, <2>2, ClosingMoves
<1>9. CASE Checking /\ ~active /\ phase = "DONE"
  <2>1. Still
    BY <1>9, CheckingMoves, QuietOps, ContextKept
  <2>2. CASE Head(todo) \in CheckOps /\ Checking'
    BY <1>3, <1>9, <2>1, <2>2 DEF ParInv
  <2>3. CASE todo # <<>> /\ Head(todo) = "default_params" /\ Idling'
    <3>1. cfg' = "default"
      BY <2>3, MainParameters
    <3> QED BY <1>3, <1>9, <2>1, <2>3, <3>1 DEF ParInv
  <2> QED BY <1>9, <2>2, <2>3, CheckingMoves
<1>10. CASE Idling /\ ~active /\ cfg = "default" /\ phase = "DONE"
  <2>1. todo # <<>> /\ Head(todo) = "default_idle" /\ Ready'
    BY <1>10, BeginMoves
  <2>2. Still
    BY <2>1, QuietOps, ContextKept
  <2>3. cfg' = "default"
    BY <1>10, <2>1, MainParameters
  <2> QED BY <1>3, <1>10, <2>1, <2>2, <2>3 DEF ParInv
<1>11. CASE Ready /\ ~active /\ (page = "D4" => cfg = "default") /\ phase = "DONE"
  <2>1. todo # <<>> /\ Head(todo) = "ctx_active" /\ Entering' /\ page' = page
    BY <1>11, BeginMoves
  <2>2. active' = TRUE /\ mode' = PageMode[page] /\ phase' = "DONE" /\ cfg' = cfg
    BY <1>1, <1>5, <1>11, <2>1, ContextSet DEF ContextOps
  <2>3. mode' = "jump" => page = "D4"
    BY <1>11, <2>2 DEF PageMode, AllPages, Ready, JumpPages
  <2>4. page = "D2" => mode' = "seq"
    BY <2>2 DEF PageMode, AllPages
  <2> QED BY <1>3, <1>11, <2>1, <2>2, <2>3, <2>4 DEF ParInv
<1>12. CASE /\ Entering /\ (cfg = "stair" => active)
            /\ page = "D2" => active /\ mode = "seq" /\ phase = "DONE"
  <2>1. todo # <<>> /\ Head(todo) = "ctx_runup" /\ Resetting' /\ page' = page
    BY <1>12, BeginMoves
  <2>2. phase' = "RUNUP" /\ UNCHANGED <<mode, active>> /\ cfg' = cfg
    BY <1>1, <1>5, <2>1, ContextSet DEF ContextOps
  <2>3. page' = "D2" => Held'
    BY <1>12, <2>1, <2>2 DEF Held, Young
  <2> QED BY <1>3, <1>12, <2>1, <2>2, <2>3 DEF ParInv
<1>13. CASE Resetting /\ (cfg = "stair" => active) /\ (page = "D2" => Held)
  <2>1. /\ todo # <<>> /\ Head(todo) = "ctx_reset"
        /\ IF page = "D2" THEN Triggering' ELSE Plain'
    BY <1>13, ResettingMoves
  <2>2. /\ phase_timer'[mode] = 0 /\ UNCHANGED <<mode, active, phase>> /\ cfg' = cfg
        /\ preempted' = preempted
    BY <1>1, <1>2, <1>5, <2>1, ContextSet DEF ContextOps
  <2>3. Held => Held'
    BY <1>1, <1>2, <2>2 DEF Held, Young
  <2>4. CASE page = "D2"
    BY <1>3, <1>13, <2>1, <2>2, <2>3, <2>4 DEF ParInv
  <2>5. CASE page # "D2"
    BY <1>3, <1>13, <2>1, <2>2, <2>5 DEF ParInv
  <2> QED BY <2>4, <2>5
<1>14. CASE Triggering /\ Held
  <2>1. CASE todo # <<>> /\ Head(todo) \in LateOps /\ Triggering'
    <3>1. Still
      BY <2>1, QuietOps, ContextKept
    <3>2. Held'
      BY <1>2, <1>14, <2>1, <3>1 DEF Held, Young
    <3>3. mode' # "jump"
      BY <3>2 DEF Held
    <3> QED BY <1>3, <2>1, <3>2, <3>3 DEF ParInv
  <2>2. CASE todo # <<>> /\ Head(todo) = "ctx_jumping" /\ todo' = <<>>
    <3>1. UNCHANGED <<mode, active>>
      BY <1>1, <2>2, ContextSet
    <3>2. Plain'
      BY <2>2 DEF Plain
    <3> QED BY <1>3, <1>14, <3>1, <3>2 DEF ParInv, Held
  <2> QED BY <1>14, <2>1, <2>2, TriggeringMoves
<1> QED BY <1>7, <1>8, <1>9, <1>10, <1>11, <1>12, <1>13, <1>14 DEF ParInv

LEMMA ParInit == Init => ParInv
BY DEF Init, ParInv, Plain

LEMMA ParNext ==
    ASSUME Unbroken, DriveInv, TickCounted, ParInv, [Next]_vars
    PROVE  ParInv'
<1>1. CASE UNCHANGED vars
  <2>1. UNCHANGED <<cfg, detected>>
    BY <1>1 DEF vars, remoteVars
  <2> QED BY <1>1, <2>1, StutterStages DEF ParInv, Held, Young
<1> QED BY <1>1, ParTick, ParMain DEF Next

(* The parameters of the stairs are taken back when the test that set them   *)
(* is over (Stair_test.c:235-253 and 624-639), though the test that takes    *)
(* them is opened by the main loop and ended by the callback. The page of    *)
(* the sequence sets them for a test that is already active                  *)
(* (Stair_test.c:527-528): with that page, the property rests on nothing     *)
(* ending the test in between.                                               *)
THEOREM DriveParametersReturned == Unbroken /\ Spec => []ParametersReturned
<1> SUFFICES ASSUME Unbroken
             PROVE  Spec => []ParametersReturned
  OBVIOUS
<1>1. ParInv => ParametersReturned
  BY Underway DEF ParInv, ParametersReturned
<1>2. DriveInv /\ TickCounted /\ ParInv /\ [Next]_vars => TickCounted' /\ ParInv'
  BY TickCountedNext, ParNext DEF DriveInv
<1> QED BY <1>1, <1>2, DriveInvHolds, ParInit, TickCountedInit, PTL DEF Spec
---------------------------------------------------------------------------
(* The same with forced stops, and any number of ticks, in the routines.   *)

\* A context that is not active and yet in the phase of a jump was closed while
\* its page filled it.
Orphaned == mode = "seq" /\ phase = "JUMPING"

KeptInv ==
    /\ active /\ mode = "jump" => cfg = "default"
    /\ \/ Plain /\ (cfg = "stair" => active \/ Orphaned)
       \/ Closing
       \/ Checking /\ ~active
       \/ Idling /\ ~active /\ cfg = "default"
       \/ Ready /\ ~active /\ (page = "D4" => cfg = "default")
       \/ (Entering \/ Resetting) /\ (cfg = "stair" => active) /\ mode = PageMode[page]
       \/ Triggering /\ mode = "seq"

LEMMA KeptTick ==
    ASSUME DriveInv, KeptInv, Tick
    PROVE  KeptInv'
<1> USE DEF DriveInv
<1>1. mode' = mode /\ page' = page
  BY StairContext, OtherContext, TickStages
<1>2. active \in BOOLEAN /\ cfg \in {"default", "stair"}
  BY DEF TestTypes, GainTypes
<1>3. active' /\ mode' = "jump" => cfg' = "default"
  BY <1>1, StairParameters, OtherParameters DEF KeptInv
<1>4. ~active => ~active' /\ (cfg = "default" => cfg' = "default")
  BY StairParameters, OtherParameters
<1>5. (cfg = "stair" => active) => (cfg' = "stair" => active')
  BY <1>2, StairParameters, OtherParameters DEF KeptInv
<1>6. ASSUME ~active, Orphaned
      PROVE  cfg' = "stair" => Orphaned'
  <2>1. CASE StairService
    BY <1>6, <2>1 DEF StairService, Orphaned, stairVars
  <2>2. CASE ~StairService /\ ~RemoteUpdate
    BY <1>6, <2>2 DEF Tick, TickBegin, CarFallen, CarRecovered, CarUpright, NagStep,
       BridgeService, SteerControl, StraightService, MotorOutput, stairVars, Orphaned
  <2>3. CASE RemoteUpdate
    <3>1. Unarmed \/ ForceStop \/ \E ch : StickDrives(ch)
      BY <2>3 DEF RemoteUpdate, Decide
    <3>2. UNCHANGED <<stairVars, cfg>> \/ StairAbort
      BY <3>1 DEF Unarmed, ForceStop, StickDrives, remoteStopVars
    <3> QED BY <1>6, <3>2 DEF stairVars, StairAbort, ConfigDefault, Orphaned
  <2> QED BY <2>1, <2>2, <2>3
<1>7. CASE Plain /\ (cfg = "stair" => active \/ Orphaned)
  <2>1. cfg' = "stair" => active' \/ Orphaned'
    BY <1>2, <1>4, <1>5, <1>6, <1>7
  <2> QED BY <1>3, <1>7, <2>1, TickStages DEF KeptInv
<1>8. CASE Closing
  BY <1>3, <1>8, TickStages DEF KeptInv
<1>9. CASE Checking /\ ~active
  BY <1>3, <1>4, <1>9, TickStages DEF KeptInv
<1>10. CASE Idling /\ ~active /\ cfg = "default"
  BY <1>3, <1>4, <1>10, TickStages DEF KeptInv
<1>11. CASE Ready /\ ~active /\ (page = "D4" => cfg = "default")
  BY <1>1, <1>3, <1>4, <1>11, TickStages DEF KeptInv
<1>12. CASE (Entering \/ Resetting) /\ (cfg = "stair" => active) /\ mode = PageMode[page]
  BY <1>1, <1>3, <1>5, <1>12, TickStages DEF KeptInv
<1>13. CASE Triggering /\ mode = "seq"
  BY <1>1, <1>3, <1>13, TickStages DEF KeptInv
<1> QED BY <1>7, <1>8, <1>9, <1>10, <1>11, <1>12, <1>13 DEF KeptInv

LEMMA KeptMain ==
    ASSUME DriveInv, KeptInv, Main \/ \E p \in Pages : MenuOpen(p)
    PROVE  KeptInv'
<1> DEFINE Still == UNCHANGED <<mode, active, phase, phase_timer, jump_index>>
<1>1. TestTypes /\ cfg \in {"default", "stair"}
  BY DEF DriveInv, GainTypes
<1>2. /\ "stair_params" \notin PlainOps /\ "stair_params" \notin Abortings
      /\ "stair_params" \notin CheckOps
      /\ "stair_params" \notin ContextOps /\ "default_params" \notin LateOps
      /\ "default_params" \notin CheckOps
      /\ "default_params" \notin PlainOps /\ "default_params" \notin ContextOps
  BY DEF PlainOps, FlagOps, CommonOps, Abortings, CheckOps, ContextOps, LateOps
<1>3. todo # <<>> /\ Head(todo) \in ContextOps => cfg' = cfg
  BY <1>2, MainParameters
<1>4. Still /\ cfg' \in {cfg, "default"} => (active' /\ mode' = "jump" => cfg' = "default")
  BY DEF KeptInv
<1>5. CASE Plain /\ (cfg = "stair" => active \/ Orphaned)
  <2>1. Still
    BY <1>5, PlainMoves, QuietOps, ContextKept
  <2>2. cfg' = cfg
    BY <1>2, <1>5, PlainMoves, MainParameters
  <2> QED BY <1>4, <1>5, <2>1, <2>2, PlainMoves DEF KeptInv, Orphaned
<1>6. CASE Closing
  <2>1. CASE Head(todo) \in Abortings /\ Closing'
    <3>1. Still
      BY <2>1, QuietOps, ContextKept
    <3>2. cfg' \in {cfg, "default"}
      BY <1>2, <2>1, MainParameters
    <3> QED BY <1>4, <2>1, <3>1, <3>2 DEF KeptInv
  <2>2. CASE /\ todo # <<>> /\ Head(todo) = "ctx_off"
             /\ IF page = "D4" THEN Checking' ELSE Ready'
    <3>1. active' = FALSE
      BY <1>1, <2>2, ContextSet
    <3>2. CASE page = "D4"
      BY <2>2, <3>1, <3>2 DEF KeptInv
    <3>3. CASE page # "D4"
      <4>1. page' = page
        BY <2>2, PageStays
      <4> QED BY <2>2, <3>1, <3>3, <4>1 DEF KeptInv
    <3> QED BY <3>2, <3>3
  <2> QED BY <1>6, <2>1, <2>2, ClosingMoves
<1>7. CASE Checking /\ ~active
  <2>1. Still
    BY <1>7, CheckingMoves, QuietOps, ContextKept
  <2>2. CASE Head(todo) \in CheckOps /\ Checking'
    BY <1>7, <2>1, <2>2 DEF KeptInv
  <2>3. CASE todo # <<>> /\ Head(todo) = "default_params" /\ Idling'
    <3>1. cfg' = "default"
      BY <2>3, MainParameters
    <3> QED BY <1>7, <2>1, <2>3, <3>1 DEF KeptInv
  <2> QED BY <1>7, <2>2, <2>3, CheckingMoves
<1>8. CASE Idling /\ ~active /\ cfg = "default"
  <2>1. todo # <<>> /\ Head(todo) = "default_idle" /\ Ready'
    BY <1>8, BeginMoves
  <2>2. Still
    BY <2>1, QuietOps, ContextKept
  <2>3. cfg' = "default"
    BY <1>8, <2>1, MainParameters
  <2> QED BY <1>8, <2>1, <2>2, <2>3 DEF KeptInv
<1>9. CASE Ready /\ ~active /\ (page = "D4" => cfg = "default")
  <2>1. todo # <<>> /\ Head(todo) = "ctx_active" /\ Entering' /\ page' = page
    BY <1>9, BeginMoves
  <2>2. active' = TRUE /\ mode' = PageMode[page] /\ cfg' = cfg
    BY <1>1, <1>3, <2>1, ContextSet DEF ContextOps
  <2>3. mode' = "jump" => page = "D4"
    BY <1>9, <2>2 DEF PageMode, AllPages, Ready, JumpPages
  <2> QED BY <1>9, <2>1, <2>2, <2>3 DEF KeptInv
<1>10. CASE Entering /\ (cfg = "stair" => active) /\ mode = PageMode[page]
  <2>1. todo # <<>> /\ Head(todo) = "ctx_runup" /\ Resetting' /\ page' = page
    BY <1>10, BeginMoves
  <2>2. UNCHANGED <<mode, active>> /\ cfg' = cfg
    BY <1>1, <1>3, <2>1, ContextSet DEF ContextOps
  <2> QED BY <1>10, <2>1, <2>2 DEF KeptInv
<1>11. CASE Resetting /\ (cfg = "stair" => active) /\ mode = PageMode[page]
  <2>1. /\ todo # <<>> /\ Head(todo) = "ctx_reset"
        /\ IF page = "D2" THEN Triggering' ELSE Plain'
    BY <1>11, ResettingMoves
  <2>2. UNCHANGED <<mode, active, phase>> /\ cfg' = cfg
    BY <1>1, <1>3, <2>1, ContextSet DEF ContextOps
  <2>3. page = "D2" => mode = "seq"
    BY <1>11 DEF PageMode, AllPages
  <2>4. CASE page = "D2"
    BY <2>1, <2>2, <2>3, <2>4 DEF KeptInv
  <2>5. CASE page # "D2"
    BY <1>11, <2>1, <2>2, <2>5 DEF KeptInv
  <2> QED BY <2>4, <2>5
<1>12. CASE Triggering /\ mode = "seq"
  <2>1. CASE todo # <<>> /\ Head(todo) \in LateOps /\ Triggering'
    <3>1. Still
      BY <2>1, QuietOps, ContextKept
    <3> QED BY <1>12, <2>1, <3>1 DEF KeptInv
  <2>2. CASE todo # <<>> /\ Head(todo) = "ctx_jumping" /\ todo' = <<>>
    <3>1. UNCHANGED <<mode, active>> /\ phase' = "JUMPING"
      BY <1>1, <2>2, ContextSet
    <3>2. Plain'
      BY <2>2 DEF Plain
    <3> QED BY <1>12, <3>1, <3>2 DEF KeptInv, Orphaned
  <2> QED BY <1>12, <2>1, <2>2, TriggeringMoves
<1> QED BY <1>5, <1>6, <1>7, <1>8, <1>9, <1>10, <1>11, <1>12 DEF KeptInv

LEMMA KeptInit == Init => KeptInv
BY DEF Init, KeptInv, Plain

LEMMA KeptNext ==
    ASSUME DriveInv, KeptInv, [Next]_vars
    PROVE  KeptInv'
<1>1. CASE UNCHANGED vars
  <2>1. cfg' = cfg
    BY <1>1 DEF vars
  <2> QED BY <1>1, <2>1, StutterStages DEF KeptInv, Orphaned
<1> QED BY <1>1, KeptTick, KeptMain DEF Next

(* Whatever frames come, and however often the callback falls into a routine, *)
(* only a sequence that was ended while its page filled its context keeps the *)
(* parameters of the stairs (Stair_test.c:527-531).                           *)
THEOREM DriveOnlyOpeningKeeps == Spec => []OnlyOpeningKeeps
<1>1. KeptInv => OnlyOpeningKeeps
  BY Underway DEF KeptInv, OnlyOpeningKeeps, Orphaned
<1>2. DriveInv /\ KeptInv /\ [Next]_vars => KeptInv'
  BY KeptNext
<1> QED BY <1>1, <1>2, DriveInvHolds, KeptInit, PTL DEF Spec
---------------------------------------------------------------------------
(* The time a jump takes.                                                  *)

\* The longer of the two lengths a phase can have, the ticks after a phase, and
\* what is left of the jump.
Longest == [p \in JumpPhases |-> IF DefaultTicks[p] <= StairTicks[p] THEN StairTicks[p]
                                 ELSE DefaultTicks[p]]

AfterLaunch == Longest["AIRBORNE"] + Longest["LANDING"] + Longest["RECOVER"]
After == [p \in JumpPhases |->
    CASE p = "PREPARE" -> Longest["CHARGE"] + Longest["LAUNCH"] + AfterLaunch
      [] p = "CHARGE" -> Longest["LAUNCH"] + AfterLaunch
      [] p = "LAUNCH" -> AfterLaunch
      [] p = "AIRBORNE" -> Longest["LANDING"] + Longest["RECOVER"]
      [] p = "LANDING" -> Longest["RECOVER"]
      [] p = "RECOVER" -> 0]

Whole == Longest["PREPARE"] + After["PREPARE"]
Left == IF Jumping THEN Longest[jump_state] - elapsed + After[jump_state] ELSE 0

LEMMA LongestHas ==
    /\ Longest \in [JumpPhases -> Nat \ {0}]
    /\ \A p \in JumpPhases : DefaultTicks[p] <= Longest[p] /\ StairTicks[p] <= Longest[p]
<1>1. \A p \in JumpPhases : DefaultTicks[p] \in Nat \ {0} /\ StairTicks[p] \in Nat \ {0}
  BY TicksAssumption DEF TicksAssumption
<1> QED BY <1>1 DEF Longest

LEMMA AfterHas ==
    /\ \A p \in JumpPhases : After[p] \in Nat /\ Longest[p] + After[p] <= Whole
    /\ \A p \in JumpPhases : NextPhase[p] \in JumpPhases =>
           After[p] = Longest[NextPhase[p]] + After[NextPhase[p]]
    /\ Whole \in Nat
<1>1. /\ Longest["PREPARE"] \in Nat /\ Longest["CHARGE"] \in Nat
      /\ Longest["LAUNCH"] \in Nat /\ Longest["AIRBORNE"] \in Nat
      /\ Longest["LANDING"] \in Nat /\ Longest["RECOVER"] \in Nat
  BY LongestHas DEF JumpPhases
<1>2. /\ After["PREPARE"] = Longest["CHARGE"] + Longest["LAUNCH"] + AfterLaunch
      /\ After["CHARGE"] = Longest["LAUNCH"] + AfterLaunch
      /\ After["LAUNCH"] = AfterLaunch
      /\ After["AIRBORNE"] = Longest["LANDING"] + Longest["RECOVER"]
      /\ After["LANDING"] = Longest["RECOVER"]
      /\ After["RECOVER"] = 0
  BY DEF After, JumpPhases
<1>3. /\ NextPhase["PREPARE"] = "CHARGE" /\ NextPhase["CHARGE"] = "LAUNCH"
      /\ NextPhase["LAUNCH"] = "AIRBORNE" /\ NextPhase["AIRBORNE"] = "LANDING"
      /\ NextPhase["LANDING"] = "RECOVER" /\ NextPhase["RECOVER"] = "IDLE"
  BY DEF NextPhase, JumpPhases
<1>4. AfterLaunch \in Nat
  BY <1>1 DEF AfterLaunch
<1>5. Whole \in Nat
  BY <1>1, <1>2, <1>4 DEF Whole
<1>6. \A p \in JumpPhases : After[p] \in Nat /\ Longest[p] + After[p] <= Whole
  BY <1>1, <1>2, <1>4 DEF Whole, AfterLaunch, JumpPhases
<1>7. \A p \in JumpPhases : NextPhase[p] \in JumpPhases =>
           After[p] = Longest[NextPhase[p]] + After[NextPhase[p]]
  BY <1>1, <1>2, <1>3 DEF AfterLaunch, JumpPhases
<1> QED BY <1>5, <1>6, <1>7

\* A phase is left when it is over, whichever parameters are in force.
PhaseTime == Jumping => elapsed < Longest[jump_state]

\* From the tilt test to the machine a car in a jump stands.
Standing == isr \in {"nag", "stair", "bridge", "steer"} /\ Jumping => run_state = 1

\* The timer of a test and what is left of its jump stay within the time-out;
\* between the test and the machine of one tick they are one apart. A jump
\* that did not start is not waited for.
Timed ==
    phase = "JUMPING" =>
        IF jump_ok
        THEN phase_timer[mode] + Left
                 < JumpTimeout + (IF Jumping /\ isr \in {"bridge", "steer"} THEN 1 ELSE 0)
        ELSE phase_timer[mode] <= Grace

TimeInv ==
    /\ PhaseTime /\ Standing /\ Timed
    /\ ~detected /\ fail_reason # "JUMP_TO"

\* The code's lengths leave the time-out room for a whole jump.
RoomForJump ==
    /\ Preemptions <= Grace + 1 /\ Grace < JumpTimeout
    /\ Whole + Preemptions < JumpTimeout

LEMMA LeftHas ==
    ASSUME PhaseTime, jump_state \in JumpStates, elapsed \in Nat
    PROVE  Left \in Nat /\ Left <= Whole
<1>1. CASE ~Jumping
  BY <1>1, AfterHas DEF Left
<1>2. CASE Jumping
  <2>1. jump_state \in JumpPhases
    BY <1>2 DEF Jumping, JumpStates
  <2>2. /\ Longest[jump_state] \in Nat /\ After[jump_state] \in Nat
        /\ Longest[jump_state] + After[jump_state] <= Whole
    BY <2>1, LongestHas, AfterHas
  <2> QED BY <1>2, <2>2, AfterHas DEF Left, PhaseTime
<1> QED BY <1>1, <1>2

\* A tick of the machine takes at least one off what is left.
LEMMA JumpTickLeft ==
    ASSUME PhaseTime, jump_state \in JumpStates, elapsed \in Nat, JumpTick,
           Jumping => run_state = 1
    PROVE  PhaseTime' /\ (Jumping => Left' <= Left - 1) /\ (~Jumping => Left' = 0 /\ ~Jumping')
<1>1. CASE ~Jumping
  BY <1>1 DEF JumpTick, jumpVars, Jumping, PhaseTime, Left
<1>2. CASE Jumping
  <2> DEFINE p == jump_state
             n == Ticks[p]
  <2>1. p \in JumpPhases /\ run_state = 1
    BY <1>2 DEF Jumping, JumpStates
  <2>2. /\ Longest[p] \in Nat /\ After[p] \in Nat /\ n \in Nat /\ n > 0 /\ n <= Longest[p]
    <3>1. DefaultTicks[p] \in Nat \ {0} /\ StairTicks[p] \in Nat \ {0}
      BY <2>1, TicksAssumption DEF TicksAssumption
    <3> QED BY <2>1, <3>1, LongestHas, AfterHas DEF Ticks
  <2>3. /\ jump_state' = (IF elapsed + 1 >= n THEN NextPhase[p] ELSE p)
        /\ elapsed' = (IF elapsed + 1 >= n THEN 0 ELSE elapsed + 1)
    BY <1>2, <2>1 DEF JumpTick
  <2>4. elapsed < Longest[p] /\ Left = Longest[p] - elapsed + After[p]
    BY <1>2 DEF PhaseTime, Left
  <2>5. NextPhase[p] \in JumpPhases \cup {"IDLE"} /\ "IDLE" \notin JumpPhases
    BY <2>1 DEF NextPhase, JumpPhases
  <2>6. CASE elapsed + 1 < n
    <3>1. jump_state' = p /\ elapsed' = elapsed + 1
      BY <2>2, <2>3, <2>6
    <3>2. Jumping'
      BY <1>2, <3>1 DEF Jumping
    <3>3. PhaseTime'
      BY <2>2, <2>6, <3>1 DEF PhaseTime
    <3>4. Left' = Longest[p] - (elapsed + 1) + After[p]
      BY <3>1, <3>2 DEF Left
    <3> QED BY <1>2, <2>2, <2>4, <3>3, <3>4
  <2>7. CASE elapsed + 1 >= n /\ NextPhase[p] = "IDLE"
    <3>1. ~Jumping'
      BY <2>3, <2>7 DEF Jumping
    <3>2. PhaseTime' /\ Left' = 0
      BY <3>1 DEF PhaseTime, Left
    <3> QED BY <1>2, <2>2, <2>4, <3>2
  <2>8. CASE elapsed + 1 >= n /\ NextPhase[p] \in JumpPhases
    <3> DEFINE q == NextPhase[p]
    <3>1. jump_state' = q /\ elapsed' = 0
      BY <2>3, <2>8
    <3>2. Jumping'
      BY <2>5, <2>8, <3>1 DEF Jumping
    <3>3. Longest[q] \in Nat \ {0} /\ After[q] \in Nat /\ After[p] = Longest[q] + After[q]
      BY <2>1, <2>8, LongestHas, AfterHas
    <3>4. PhaseTime'
      BY <3>1, <3>3 DEF PhaseTime
    <3>5. Left' = Longest[q] + After[q]
      <4>1. Left' = Longest[q] - 0 + After[q]
        BY <3>1, <3>2 DEF Left
      <4> QED BY <3>3, <4>1
    <3> QED BY <1>2, <2>2, <2>4, <3>3, <3>4, <3>5
  <2> QED BY <2>2, <2>5, <2>6, <2>7, <2>8
<1> QED BY <1>1, <1>2
\* What the invariant says of the types it needs.
LEMMA TimeHas ==
    ASSUME DriveInv, TimeInv, RoomForJump
    PROVE  /\ phase_timer \in [Modes -> Nat] /\ mode \in Modes
           /\ phase_timer[mode] \in Nat
           /\ Left \in Nat /\ Left <= Whole /\ Whole \in Nat
           /\ Grace \in Nat /\ JumpTimeout \in Nat /\ Preemptions \in Nat
           /\ Grace < JumpTimeout /\ Whole + Preemptions < JumpTimeout
<1>1. jump_state \in JumpStates /\ elapsed \in Nat
  BY DEF DriveInv, BridgeInv, Speeds
<1>2. Left \in Nat /\ Left <= Whole
  BY <1>1, LeftHas DEF TimeInv
<1>3. /\ phase_timer \in [Modes -> Nat] /\ mode \in Modes
      /\ phase_timer[mode] \in Nat
  BY DEF DriveInv, TestTypes
<1>4. Grace \in Nat /\ JumpTimeout \in Nat /\ Preemptions \in Nat
  BY StairAssumption, InputsAssumption DEF StairAssumption, InputsAssumption
<1> QED BY <1>2, <1>3, <1>4, AfterHas DEF RoomForJump

\* A step that leaves the jump and the context alone keeps the times, and so
\* does one that ends the jump.
LEMMA TimeKept ==
    ASSUME DriveInv, TimeInv, RoomForJump,
           UNCHANGED <<mode, phase, phase_timer, jump_ok>>,
           UNCHANGED <<jump_state, elapsed>>
               \/ (jump_state' = "IDLE" /\ isr \notin {"bridge", "steer"}),
           isr \in {"bridge", "steer"} => isr' \in {"bridge", "steer"} \/ ~Jumping
    PROVE  PhaseTime' /\ Timed'
<1>1. CASE jump_state' = "IDLE" /\ isr \notin {"bridge", "steer"}
  <2>1. PhaseTime' /\ Left' = 0 /\ ~Jumping'
    BY <1>1 DEF PhaseTime, Jumping, Left
  <2>2. Timed'
    BY <1>1, <2>1, TimeHas DEF Timed, TimeInv
  <2> QED BY <2>1, <2>2
<1>2. CASE UNCHANGED <<jump_state, elapsed>>
  <2>1. PhaseTime' /\ Left' = Left /\ Jumping' = Jumping
    BY <1>2 DEF PhaseTime, Jumping, Left, TimeInv
  <2>2. Timed'
    BY <2>1, TimeHas DEF Timed, TimeInv
  <2> QED BY <2>1, <2>2
<1> QED BY <1>1, <1>2
\* A jump the callback starts has its whole time before it.
LEMMA TriggerTimes ==
    ASSUME DriveInv, TimeInv, RoomForJump, isr = "stair", isr' = "bridge",
           mode' = mode, run_state' = run_state, detected' = detected,
           NEW v, TriggerJump(v)
    PROVE  TimeInv'
<1>1. phase_timer'[mode'] = 0
  BY TimeHas DEF TriggerJump, SetTimer
<1>2. CASE TriggerResult = "OK"
  <2>1. jump_state' = "PREPARE" /\ elapsed' = 0 /\ jump_ok' = TRUE /\ fail_reason' = "NONE"
    BY <1>2 DEF TriggerJump, Trigger
  <2>2. Jumping' /\ run_state' = 1
    <3>1. run_state = 1
      BY <1>2 DEF TriggerResult, DriveInv, FlagTypes
    <3> QED BY <2>1, <3>1 DEF Jumping
  <2>3. Longest["PREPARE"] \in Nat \ {0} /\ After["PREPARE"] \in Nat
    BY LongestHas, AfterHas DEF JumpPhases
  <2>4. Left' = Whole
    <3>1. Left' = Longest["PREPARE"] - 0 + After["PREPARE"]
      BY <2>1, <2>2 DEF Left
    <3> QED BY <2>3, <3>1 DEF Whole
  <2>5. PhaseTime' /\ Standing'
    BY <2>1, <2>2, <2>3 DEF PhaseTime, Standing
  <2>6. Timed'
    BY <1>1, <2>1, <2>2, <2>4, TimeHas DEF Timed
  <2> QED BY <2>1, <2>5, <2>6 DEF TimeInv
<1>3. CASE TriggerResult # "OK"
  <2>1. UNCHANGED <<jump_state, elapsed>> /\ jump_ok' = FALSE /\ fail_reason' = "TRIGGER"
    BY <1>3 DEF TriggerJump, Trigger, jumpVars
  <2>2. Jumping' = Jumping /\ (Jumping => run_state' = 1)
    BY <2>1 DEF Jumping, TimeInv, Standing
  <2>3. PhaseTime' /\ Standing'
    BY <2>1, <2>2 DEF PhaseTime, Standing, TimeInv
  <2>4. Timed'
    BY <1>1, <2>1, TimeHas DEF Timed
  <2> QED BY <2>1, <2>3, <2>4 DEF TimeInv
<1> QED BY <1>2, <1>3

\* What the machine is left with when the tests have not touched it.
LEMMA StairLeaves ==
    ASSUME TimeInv, isr = "stair", UNCHANGED <<jump_state, elapsed, run_state>>
    PROVE  PhaseTime' /\ Standing' /\ Left' = Left /\ Jumping' = Jumping
<1>1. Jumping' = Jumping /\ (Jumping => run_state' = 1)
  BY DEF Jumping, TimeInv, Standing
<1> QED BY <1>1 DEF PhaseTime, Standing, TimeInv, Left

\* ... and when they have ended the jump, or the test.
LEMMA StairCloses ==
    ASSUME TimeInv, isr = "stair", phase' # "JUMPING", run_state' = run_state,
           UNCHANGED <<jump_state, elapsed>> \/ jump_state' = "IDLE",
           detected' = detected, fail_reason' # "JUMP_TO"
    PROVE  TimeInv'
<1>1. Timed'
  BY DEF Timed
<1>2. CASE jump_state' = "IDLE"
  <2>1. ~Jumping'
    BY <1>2 DEF Jumping
  <2> QED BY <1>1, <2>1 DEF TimeInv, PhaseTime, Standing
<1>3. CASE UNCHANGED <<jump_state, elapsed>>
  BY <1>1, <1>3, StairLeaves DEF TimeInv
<1> QED BY <1>2, <1>3

LEMMA TimeStair ==
    ASSUME DriveInv, TimeInv, RoomForJump, StairService
    PROVE  TimeInv'
<1>1. isr = "stair" /\ isr' = "bridge" /\ UNCHANGED <<run_state, detected>> /\ mode' = mode
  BY StairContext DEF StairService, Step, gateVars, remoteVars, DriveInv
<1>2. Timer \in Nat /\ Timer <= phase_timer[mode] + 1
  BY TimeHas DEF Timer
<1>3. SetTimer(Timer) => phase_timer'[mode'] = Timer
  BY <1>1, <1>2, TimeHas DEF SetTimer
<1>4. ~detected /\ fail_reason # "JUMP_TO"
  BY DEF TimeInv
<1>5. ASSUME NEW ok, NEW reason, Finish(ok, reason), reason # "JUMP_TO"
      PROVE  TimeInv'
  <2>1. phase' = "DONE" /\ fail_reason' = reason
    BY <1>5 DEF Finish
  <2>2. UNCHANGED <<jump_state, elapsed>> \/ jump_state' = "IDLE"
    BY <1>5 DEF Finish, FinishJump, ConfigDefault, Abort, jumpVars
  <2> QED BY <1>1, <1>5, <2>1, <2>2, StairCloses
<1>6. CASE active /\ Runup
  <2>1. CASE RunupTrigger
    <3>1. PICK v \in {target_speed, HeldSpeed} : TriggerJump(v)
      BY <2>1 DEF RunupTrigger
    <3> QED BY <1>1, <3>1, TriggerTimes
  <2>2. CASE RunupWait
    <3>1. phase' = "RUNUP" /\ UNCHANGED <<jump_state, elapsed, fail_reason>>
      BY <1>6, <2>2 DEF Runup, RunupWait, jumpVars
    <3> QED BY <1>1, <1>4, <3>1, StairCloses
  <2> QED BY <1>6, <2>1, <2>2 DEF Runup
<1>7. CASE active /\ phase = "JUMPING" /\ Watch
  <2>1. ~JumpTimedOut
    <3>1. jump_ok => phase_timer[mode] + Left < JumpTimeout
      BY <1>1, <1>7, TimeHas DEF TimeInv, Timed
    <3>2. ~jump_ok => phase_timer[mode] <= Grace
      BY <1>7 DEF TimeInv, Timed
    <3>3. Timer <= JumpTimeout
      BY <1>2, <3>1, <3>2, TimeHas
    <3> QED BY <1>2, <3>3, TimeHas DEF JumpTimedOut, JumpLate
  <2>2. CASE Finish(FALSE, fail_reason)
    BY <1>4, <1>5, <2>2
  <2>3. CASE JumpOver
    <3>1. phase' # "JUMPING" /\ UNCHANGED <<jump_state, elapsed, fail_reason>>
      BY <2>3 DEF JumpOver, jumpVars
    <3> QED BY <1>1, <1>4, <3>1, StairCloses
  <2>4. CASE JumpWait /\ (Timer <= Grace \/ (jump_ok /\ Jumping))
    <3>1. /\ UNCHANGED <<jump_state, elapsed, phase, jump_ok, fail_reason>>
          /\ phase_timer'[mode'] = Timer
      BY <1>3, <2>4 DEF JumpWait, jumpVars
    <3>2. PhaseTime' /\ Standing' /\ Left' = Left /\ Jumping' = Jumping
      BY <1>1, <3>1, StairLeaves
    <3>3. ~Jumping => Left = 0
      BY DEF Left
    <3>4. jump_ok => phase_timer[mode] + Left < JumpTimeout
      BY <1>1, <1>7, TimeHas DEF TimeInv, Timed
    <3>5. ~jump_ok => Timer <= Grace
      BY <2>4
    <3>6. jump_ok => Timer + Left < JumpTimeout + (IF Jumping THEN 1 ELSE 0)
      BY <1>2, <2>4, <3>3, <3>4, TimeHas
    <3>7. Timed'
      BY <1>1, <3>1, <3>2, <3>5, <3>6 DEF Timed
    <3> QED BY <1>1, <1>4, <3>1, <3>2, <3>7 DEF TimeInv
  <2> QED BY <1>7, <2>1, <2>2, <2>3, <2>4 DEF Watch
<1>8. CASE active /\ Stopping
  <2>1. CASE StopWait
    <3>1. phase' = "STOPPING" /\ UNCHANGED <<jump_state, elapsed, fail_reason>>
      BY <1>8, <2>1 DEF Stopping, StopWait, jumpVars
    <3> QED BY <1>1, <1>4, <3>1, StairCloses
  <2>2. StopWait \/ Finish(TRUE, "NONE") \/ Finish(FALSE, "OVER_DIST")
           \/ Finish(FALSE, "STOP_TO")
    BY <1>8 DEF Stopping
  <2>3. Finish(TRUE, "NONE") => TimeInv'
    BY <1>5
  <2>4. Finish(FALSE, "OVER_DIST") => TimeInv'
    BY <1>5
  <2>5. Finish(FALSE, "STOP_TO") => TimeInv'
    BY <1>5
  <2> QED BY <2>1, <2>2, <2>3, <2>4, <2>5
<1>9. CASE active /\ phase = "DONE" /\ UNCHANGED <<jumpVars, phase, fail_reason>>
  <2>1. phase' = "DONE" /\ UNCHANGED <<jump_state, elapsed, fail_reason>>
    BY <1>9 DEF jumpVars
  <2> QED BY <1>1, <1>4, <2>1, StairCloses
<1>10. CASE UNCHANGED <<jumpVars, stairVars>>
  <2>1. UNCHANGED <<jump_state, elapsed, mode, phase, phase_timer, jump_ok, fail_reason>>
    BY <1>10 DEF jumpVars, stairVars
  <2>2. PhaseTime' /\ Timed'
    BY <1>1, <2>1, TimeKept
  <2>3. Standing'
    BY <1>1, <2>1, StairLeaves
  <2> QED BY <1>1, <1>4, <2>1, <2>2, <2>3 DEF TimeInv
<1> QED BY <1>6, <1>7, <1>8, <1>9, <1>10 DEF StairService
\* With no transmitter the remote control decides nothing.
LEMMA RemoteSilent ==
    ASSUME Frames = {}, ~detected, RemoteUpdate
    PROVE  UNCHANGED <<remoteStopVars, detected>>
<1>1. PICK lost \in {lost_count_ms, lost_count_ms + 1} :
             Decide(channel, online, detected, lost)
  BY DEF RemoteUpdate
<1>2. Unarmed /\ detected' = detected
  BY <1>1 DEF Decide
<1> QED BY <1>2 DEF Unarmed

LEMMA TimeTick ==
    ASSUME Frames = {}, DriveInv, TimeInv, RoomForJump, Tick
    PROVE  TimeInv'
<1> DEFINE Still == UNCHANGED <<mode, phase, phase_timer, jump_ok, fail_reason, detected>>
           Same == UNCHANGED <<jump_state, elapsed>>
<1>1. ~detected /\ fail_reason # "JUMP_TO" /\ PhaseTime /\ Standing /\ Timed
  BY DEF TimeInv
<1>2. CASE TickBegin \/ CarRecovered
  <2>1. Still /\ Same /\ isr \in {"idle", "state"} /\ isr' \in {"idle", "state"}
    BY <1>2 DEF TickBegin, CarRecovered, Step, stairVars, jumpVars, remoteVars
  <2>2. PhaseTime' /\ Timed'
    BY <2>1, TimeKept
  <2>3. Standing'
    BY <2>1 DEF Standing
  <2> QED BY <1>1, <2>1, <2>2, <2>3 DEF TimeInv
<1>3. CASE CarFallen
  <2>1. Still /\ jump_state' = "IDLE" /\ isr = "state"
    BY <1>3 DEF CarFallen, FallenState, Step, stairVars, remoteVars
  <2>2. PhaseTime' /\ Timed'
    BY <2>1, TimeKept
  <2>3. Standing'
    BY <2>1 DEF Standing, Jumping
  <2> QED BY <1>1, <2>1, <2>2, <2>3 DEF TimeInv
<1>4. CASE CarUpright
  <2>1. Still /\ Same /\ isr = "state" /\ run_state = 1 /\ run_state' = run_state
    BY <1>4 DEF CarUpright, Step, stairVars, jumpVars, remoteVars, gateVars
  <2>2. PhaseTime' /\ Timed'
    BY <2>1, TimeKept
  <2>3. Standing'
    BY <2>1 DEF Standing
  <2> QED BY <1>1, <2>1, <2>2, <2>3 DEF TimeInv
<1>5. CASE NagStep
  <2>1. Still /\ Same /\ isr = "nag" /\ run_state' = run_state
    BY <1>5 DEF NagStep, Step, stairVars, jumpVars, remoteVars
  <2>2. PhaseTime' /\ Timed'
    BY <2>1, TimeKept
  <2>3. Standing'
    BY <1>1, <2>1 DEF Standing, Jumping
  <2> QED BY <1>1, <2>1, <2>2, <2>3 DEF TimeInv
<1>6. CASE BridgeService
  <2>1. Still /\ Same /\ isr = "bridge" /\ isr' = "steer" /\ run_state' = run_state
    BY <1>6 DEF BridgeService, Step, stairVars, jumpVars, remoteVars, gateVars
  <2>2. PhaseTime' /\ Timed'
    BY <2>1, TimeKept
  <2>3. Standing'
    BY <1>1, <2>1 DEF Standing, Jumping
  <2> QED BY <1>1, <2>1, <2>2, <2>3 DEF TimeInv
<1>7. CASE SteerControl
  <2>1. Still /\ isr = "steer" /\ isr' = "straight" /\ JumpTick
    BY <1>7 DEF SteerControl, Step, stairVars, remoteVars
  <2>2. jump_state \in JumpStates /\ elapsed \in Nat
    BY DEF DriveInv, BridgeInv, Speeds
  <2>3. /\ PhaseTime' /\ (Jumping => Left' <= Left - 1)
        /\ ~Jumping => Left' = 0 /\ ~Jumping'
    BY <1>1, <2>1, <2>2, JumpTickLeft DEF Standing
  <2>4. Left' \in Nat
    <3>1. jump_state' \in JumpStates /\ elapsed' \in Nat
      BY <2>1, SteerSpeeds DEF DriveInv, BridgeInv
    <3>2. ASSUME ~Jumping' PROVE Left' \in Nat
      BY <3>2 DEF Left
    <3>3. ASSUME Jumping' PROVE Left' \in Nat
      <4>1. jump_state' \in JumpPhases
        BY <3>1, <3>3 DEF Jumping, JumpStates
      <4>2. Longest[jump_state'] \in Nat /\ After[jump_state'] \in Nat
        BY <4>1, LongestHas, AfterHas
      <4>3. elapsed' < Longest[jump_state']
        BY <2>3, <3>3 DEF PhaseTime
      <4>4. Left' = Longest[jump_state'] - elapsed' + After[jump_state']
        BY <3>3 DEF Left
      <4> QED BY <3>1, <4>2, <4>3, <4>4
    <3> QED BY <3>2, <3>3
  <2>5. Timed'
    <3>1. phase = "JUMPING" /\ jump_ok => phase_timer[mode] + Left' < JumpTimeout
      <4>1. CASE Jumping
        BY <1>1, <2>1, <2>3, <2>4, <4>1, TimeHas DEF Timed
      <4>2. CASE ~Jumping
        BY <1>1, <2>1, <2>3, <4>2, TimeHas DEF Timed
      <4> QED BY <4>1, <4>2
    <3> QED BY <1>1, <2>1, <3>1, TimeHas DEF Timed
  <2>6. Standing'
    BY <2>1 DEF Standing
  <2> QED BY <1>1, <2>1, <2>3, <2>5, <2>6 DEF TimeInv
<1>8. CASE StraightService \/ RemoteUpdate \/ MotorOutput
  <2>1. Still /\ Same
    BY <1>1, <1>8, RemoteSilent DEF StraightService, MotorOutput, stairVars, jumpVars,
       remoteVars, remoteStopVars
  <2>2. isr \in {"straight", "remote", "output"} /\ isr' \in {"remote", "output", "idle"}
    BY <1>8 DEF StraightService, RemoteUpdate, MotorOutput, Step
  <2>3. PhaseTime' /\ Timed'
    BY <2>1, <2>2, TimeKept
  <2>4. Standing'
    BY <2>2 DEF Standing
  <2> QED BY <1>1, <2>1, <2>3, <2>4 DEF TimeInv
<1> QED BY <1>2, <1>3, <1>4, <1>5, <1>6, <1>7, <1>8, TimeStair DEF Tick
\* The jump the main loop leaves: it is ended, or begun by its own store.
LEMMA MainJump ==
    ASSUME Main \/ \E p \in Pages : MenuOpen(p)
    PROVE  \/ UNCHANGED <<jump_state, elapsed>>
           \/ jump_state' = "IDLE"
           \/ /\ todo # <<>> /\ Head(todo) = "trigger_prepare"
              /\ jump_state' = "PREPARE" /\ elapsed' = 0
<1>1. CASE NagLoaded \/ RotationSeen \/ \E p \in Pages : MenuOpen(p)
  BY <1>1 DEF NagLoaded, RotationSeen, MenuOpen, jumpVars
<1>2. CASE StoreFlags \/ ContextStores \/ RotationStores
  BY <1>2 DEF StoreFlags, ContextStores, RotationStores, jumpVars
<1>3. CASE AbortStores
  BY <1>3 DEF AbortStores, jumpVars
<1>4. CASE DefaultStores
  BY <1>4 DEF DefaultStores
<1>5. CASE TriggerStores
  BY <1>5 DEF TriggerStores, At, jumpVars
<1> QED BY <1>1, <1>2, <1>3, <1>4, <1>5 DEF Main, MainStep

\* What it tells the context of the outcome, and when.
LEMMA MainTells ==
    ASSUME Main \/ \E p \in Pages : MenuOpen(p)
    PROVE  \/ UNCHANGED <<jump_ok, fail_reason>>
           \/ /\ todo # <<>> /\ Head(todo) = "ctx_reset"
              /\ jump_ok' = FALSE /\ fail_reason' = "NONE"
           \/ /\ todo # <<>> /\ Head(todo) = "ctx_jumping"
              /\ jump_ok' \in BOOLEAN /\ fail_reason' \in {"NONE", "TRIGGER"}
<1>1. CASE NagLoaded \/ RotationSeen \/ \E p \in Pages : MenuOpen(p)
  BY <1>1 DEF NagLoaded, RotationSeen, MenuOpen, stairVars
<1>2. CASE StoreFlags \/ AbortStores \/ DefaultStores \/ RotationStores
  BY <1>2 DEF StoreFlags, AbortStores, DefaultStores, RotationStores, stairVars
<1>3. CASE ContextStores
  BY <1>3 DEF ContextStores, At
<1>4. CASE TriggerStores
  BY <1>4 DEF TriggerStores, At, stairVars
<1> QED BY <1>1, <1>2, <1>3, <1>4 DEF Main, MainStep

\* The stores that start a jump and that open a context find it in the state
\* their routine has brought it to.
LEMMA HeadFacts ==
    ASSUME SeqInv, todo # <<>>, Main \/ \E p \in Pages : MenuOpen(p)
    PROVE  /\ Head(todo) = "trigger_prepare" => Young
           /\ Head(todo) = "ctx_active" => phase = "DONE"
<1>1. /\ "trigger_prepare" \notin PlainOps /\ "trigger_prepare" \notin Abortings
      /\ "trigger_prepare" \notin CheckOps
      /\ "ctx_active" \notin PlainOps /\ "ctx_active" \notin Abortings
      /\ "ctx_active" \notin CheckOps /\ "ctx_active" \notin LateOps
  BY DEF PlainOps, FlagOps, CommonOps, Abortings, CheckOps, LateOps
<1>2. Plain => Head(todo) # "trigger_prepare" /\ Head(todo) # "ctx_active"
  BY <1>1, PlainMoves
<1>3. Closing => Head(todo) # "trigger_prepare" /\ Head(todo) # "ctx_active"
  BY <1>1, ClosingMoves
<1>4. Checking => Head(todo) # "trigger_prepare" /\ Head(todo) # "ctx_active"
  BY <1>1, CheckingMoves
<1>5. Idling \/ Entering => Head(todo) # "trigger_prepare" /\ Head(todo) # "ctx_active"
  BY BeginMoves
<1>6. Ready => Head(todo) # "trigger_prepare"
  BY BeginMoves
<1>7. Resetting => Head(todo) # "trigger_prepare" /\ Head(todo) # "ctx_active"
  BY ResettingMoves
<1>8. Triggering => Head(todo) # "ctx_active"
  BY <1>1, TriggeringMoves
<1> QED BY <1>2, <1>3, <1>4, <1>5, <1>6, <1>7, <1>8 DEF SeqInv

LEMMA TimeMain ==
    ASSUME DriveInv, SeqInv, TimeInv, RoomForJump,
           Main \/ \E p \in Pages : MenuOpen(p)
    PROVE  TimeInv'
<1>1. isr = "idle" /\ isr' = "idle" /\ detected' = detected /\ mode' \in Modes
  BY MainPlace, MainKeepsRemote, TestTypesMain DEF remoteVars, DriveInv, TestTypes
<1>2. ~detected /\ fail_reason # "JUMP_TO" /\ PhaseTime /\ Timed
  BY DEF TimeInv
<1>3. fail_reason' # "JUMP_TO"
  BY <1>2, MainTells
<1>4. Standing'
  BY <1>1 DEF Standing
<1>5. PhaseTime'
  <2>1. Longest["PREPARE"] \in Nat \ {0}
    BY LongestHas DEF JumpPhases
  <2> QED BY <1>2, <2>1, MainJump DEF PhaseTime, Jumping
<1>6. Left' \in Nat /\ Left' <= Whole
  <2>1. CASE UNCHANGED <<jump_state, elapsed>>
    <3>1. Left' = Left
      BY <2>1 DEF Left, Jumping
    <3> QED BY <3>1, TimeHas
  <2>2. CASE jump_state' = "IDLE"
    <3>1. Left' = 0
      BY <2>2 DEF Left, Jumping
    <3> QED BY <3>1, TimeHas
  <2>3. CASE jump_state' = "PREPARE" /\ elapsed' = 0
    <3>1. Longest["PREPARE"] \in Nat /\ After["PREPARE"] \in Nat
      BY LongestHas, AfterHas DEF JumpPhases
    <3>2. Left' = Longest["PREPARE"] - 0 + After["PREPARE"]
      BY <2>3 DEF Left, Jumping
    <3> QED BY <3>1, <3>2, TimeHas DEF Whole
  <2> QED BY <2>1, <2>2, <2>3, MainJump
<1>7. Timed'
  <2>1. CASE todo # <<>> /\ Head(todo) \in {"ctx_off", "ctx_active", "ctx_runup"}
    <3>1. phase' # "JUMPING"
      BY <2>1, ContextSet, HeadFacts DEF DriveInv
    <3> QED BY <3>1 DEF Timed
  <2>2. CASE todo # <<>> /\ Head(todo) \in {"ctx_reset", "ctx_jumping"}
    <3>1. phase_timer'[mode'] = 0
      BY <2>2, ContextSet DEF DriveInv
    <3> QED BY <1>1, <1>6, <3>1, TimeHas DEF Timed
  <2>3. CASE todo # <<>> => Head(todo) \notin ContextOps
    <3>1. UNCHANGED <<mode, phase, phase_timer, jump_ok>>
      BY <2>3, ContextKept, MainTells DEF ContextOps
    <3>2. CASE UNCHANGED <<jump_state, elapsed>> \/ jump_state' = "IDLE"
      BY <1>1, <3>1, <3>2, TimeKept
    <3>3. CASE todo # <<>> /\ Head(todo) = "trigger_prepare"
      <4>1. phase = "JUMPING" => phase_timer[mode] + 1 <= Preemptions
        <5>1. Young /\ preempted \in Nat /\ preempted <= Preemptions
          BY <3>3, HeadFacts DEF DriveInv, Counted
        <5> QED BY <1>1, <5>1, TimeHas DEF Young
      <4> QED BY <1>1, <1>2, <1>6, <3>1, <4>1, TimeHas DEF Timed
    <3> QED BY <3>2, <3>3, MainJump
  <2> QED BY <2>1, <2>2, <2>3 DEF ContextOps
<1> QED BY <1>1, <1>2, <1>3, <1>4, <1>5, <1>7 DEF TimeInv

LEMMA TimeInit == RoomForJump /\ Init => TimeInv
BY DEF Init, TimeInv, PhaseTime, Standing, Timed, Jumping

LEMMA TimeNext ==
    ASSUME Frames = {}, DriveInv, SeqInv, TimeInv, RoomForJump, [Next]_vars
    PROVE  TimeInv'
<1>1. CASE UNCHANGED vars
  <2>1. /\ UNCHANGED <<isr, jump_state, elapsed, mode, phase, phase_timer, jump_ok>>
        /\ UNCHANGED <<fail_reason, detected, run_state>>
    BY <1>1 DEF vars, jumpVars, stairVars, remoteVars, gateVars
  <2>2. PhaseTime' /\ Timed'
    BY <2>1, TimeKept
  <2> QED BY <2>1, <2>2 DEF TimeInv, Standing, Jumping
<1> QED BY <1>1, TimeTick, TimeMain DEF Next

(* The machine of the jump always ends before the time a test gives it      *)
(* (Stair_test.c:288-298): whichever parameters are in force, whatever      *)
(* falls and stand-ups interrupt it and whenever the pages of the main loop *)
(* abort, trigger and reset it, while the phases of a jump together are     *)
(* shorter than STAIR_JUMP_TIMEOUT_MS. It is about the tests alone: a       *)
(* transmitter can start a second jump as the first one ends                *)
(* (Remote_ctrl.c:150-161), which the test takes for its own.               *)
THEOREM DriveNoJumpTimeout == Frames = {} /\ RoomForJump /\ Spec => []NoJumpTimeout
<1> SUFFICES ASSUME Frames = {}, RoomForJump
             PROVE  Spec => []NoJumpTimeout
  OBVIOUS
<1>1. TimeInv => NoJumpTimeout
  BY DEF TimeInv, NoJumpTimeout
<1>2. Init => TimeInv
  BY TimeInit
<1>3. /\ DriveInv /\ TickCounted /\ SeqInv /\ TimeInv /\ [Next]_vars
            => TickCounted' /\ SeqInv' /\ TimeInv'
  BY TickCountedNext, SeqNext, TimeNext DEF DriveInv, RoomForJump
<1> QED BY <1>1, <1>2, <1>3, DriveInvHolds, SeqInit, TickCountedInit, PTL DEF Spec
=============================================================================
