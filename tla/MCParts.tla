------------------------------- MODULE MCParts -------------------------------
(***************************************************************************)
(* The small parts of the program in one model for TLC: the menu, the SBUS *)
(* receiver, the GNSS parser, the throttle of the position cache, the link *)
(* of the motor driver and the byte fifo, with values for their constants. *)
(*                                                                         *)
(* No two of these modules share a variable, so how their steps interleave *)
(* tells no property of one of them anything.  A behaviour therefore runs  *)
(* one part, chosen in Init, as its own module says; the others stand      *)
(* still in one state they can be in, which keeps the sum of the state     *)
(* spaces instead of their product.                                        *)
(***************************************************************************)
EXTENDS MCMenu, Sbus, GnssParse, GnssCache, MotorLink, Fifo

VARIABLE part   \* the part that runs

partVars == <<part, menuVars, sbusVars, gnssVars, cacheVars, linkVars, fifoVars>>

\* Two plain speeds, one whose bytes look like heads, and one whose sum does.
SomeSpeeds == {<<0, 0, 0, 0>>, <<0, 100, 255, 156>>,
               <<165, 165, 165, 165>>, <<0, 0, 255, 255>>}

\* The menu after its first call.
MenuShown ==
    /\ pc = "up" /\ key_taken = "none" /\ entering = FALSE
    /\ func_index = Root /\ last_index = Root /\ drawn = Root
    /\ init_flag = [n \in Leaves |-> FALSE]
    /\ key = [k \in Keys |-> FALSE]
    /\ over = [p \in Tests |-> FALSE]
    /\ stranded = {}

Init ==
    /\ part \in {"menu", "sbus", "gnss", "cache", "link", "fifo"}
    /\ IF part = "menu" THEN MenuInit ELSE MenuShown
    /\ SbusInit /\ (part # "sbus" => frame = channel)
    /\ GnssInit
    /\ CacheInit
    /\ LinkInit /\ (part # "link" => message = Message(speed))
    /\ FifoInit /\ (part # "fifo" => buffer = [j \in Places |-> Zero])

Still ==
    /\ part # "menu" => UNCHANGED menuVars
    /\ part # "sbus" => UNCHANGED sbusVars
    /\ part # "gnss" => UNCHANGED gnssVars
    /\ part # "cache" => UNCHANGED cacheVars
    /\ part # "link" => UNCHANGED linkVars
    /\ part # "fifo" => UNCHANGED fifoVars
    /\ UNCHANGED part

Next ==
    \/ part = "menu" /\ MenuNext /\ Still
    \/ part = "sbus" /\ SbusNext /\ Still
    \/ part = "gnss" /\ GnssNext /\ Still
    \/ part = "cache" /\ CacheNext /\ Still
    \/ part = "link" /\ LinkNext /\ Still
    \/ part = "fifo" /\ FifoNext /\ Still

\* The main loop runs for ever, and with it the parser.
Spec ==
    /\ Init /\ [][Next]_partVars
    /\ WF_menuVars(part = "menu" /\ Menu)
    /\ WF_gnssVars(part = "gnss" /\ MainLoop)
=============================================================================
