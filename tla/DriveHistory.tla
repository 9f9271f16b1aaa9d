---------------------------- MODULE DriveHistory ----------------------------
(* The drive with a history of the jumps of the stair sequence, so that what  *)
(* its counter jump_index says can be compared with what happened. The        *)
(* variables only observe: no step of the drive looks at them.                *)
EXTENDS DriveProps

VARIABLES
    begun,      \* jumps the sequence began since its counters were reset
    landed,     \* those that went through all their phases
    broken,     \* one of them was ended by a fall, or by the page
    own         \* the jump under way is one of them

historyVars == <<begun, landed, broken, own>>

---------------------------------------------------------------------------
(* What a step does to the jumps of the sequence. *)

\* stair_ctx_begin sets the counters of the context to zero.
Resets == At({"ctx_reset"}) /\ todo' # todo

\* jump_trigger, called by the sequence or by its page. The page's call starts
\* the machine anew even when a tick started it since the call looked.
Begins == \/ isr = "stair" /\ mode = "seq" /\ ~Jumping /\ Jumping'
          \/ At({"trigger_prepare"}) /\ todo' # todo

\* The last phase of the jump is over.
Lands == own /\ isr = "steer" /\ jump_state = "RECOVER" /\ ~Jumping'

\* The tilt protection, or jump_abort in the main loop.
Breaks == own /\ isr \in {"state", "idle"} /\ Jumping /\ ~Jumping'

Observe ==
    /\ begun' = IF Resets THEN 0 ELSE IF Begins THEN begun + 1 ELSE begun
    /\ landed' = IF Resets THEN 0 ELSE IF Lands THEN landed + 1 ELSE landed
    /\ broken' = (~Resets /\ (broken \/ Breaks))
    /\ own' = (~Resets /\ (Begins \/ (own /\ Jumping')))

HistoryInit == begun = 0 /\ landed = 0 /\ broken = FALSE /\ own = FALSE

HistorySpec == Init /\ HistoryInit /\ [][Next /\ Observe]_<<vars, historyVars>>

\* The fairness of FairSpec, for the drive with its history.
HistoryFairSpec == HistorySpec /\ WF_vars(Tick) /\ SF_vars(Main)

---------------------------------------------------------------------------
\* A sequence that brakes behind its last jump has begun each of its jumps
\* itself and seen each of them land, unless a fall or a page opened over it cut
\* one short: the sequence counts a jump as soon as the machine is idle,
\* whatever made it so (Stair_test.c:559-575).
SequenceCounts ==
    mode = "seq" /\ phase = "STOPPING" =>
        begun = TotalJumps /\ (landed = TotalJumps \/ broken)
=============================================================================
