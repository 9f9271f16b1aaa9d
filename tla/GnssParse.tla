------------------------------ MODULE GnssParse ------------------------------
(***************************************************************************)
(* The GNSS receiver between its serial interrupt and the main loop        *)
(* (zf_device_gnss.c, called from main_cm7_0.c).  The interrupt copies a   *)
(* finished sentence into the buffer of its type; the main loop checks and *)
(* parses the three buffers in turn.  The two share one state per type and *)
(* one flag, and no lock.                                                  *)
(*                                                                         *)
(* A sentence is "good" or "bad": whether its checksum agrees.  The        *)
(* interrupt is one action, for nothing of the main loop runs inside it;   *)
(* the main loop is cut at every place where an interrupt makes a          *)
(* difference.                                                             *)
(***************************************************************************)
EXTENDS Naturals, Sequences

Sentences == {"good", "bad"}

(* The order in which one call of the parser visits the three types. *)
Types == <<"RMC", "GGA", "THS">>
Kinds == {Types[i] : i \in DOMAIN Types}

VARIABLES
    gnss_flag,      \* a line has ended since the main loop last looked
    gnss_state,     \* gnss_rmc_state, gnss_gga_state, gnss_ths_state
    gps_buffer,         \* gps_rmc_buffer, gps_gga_buffer, gps_ths_buffer
    parse_step,           \* where the main loop is
    turn            \* the position in Types of the type under way

gnssVars == <<gnss_flag, gnss_state, gps_buffer, parse_step, turn>>
mainVars == <<parse_step, turn>>

GnssTypeOK ==
    /\ gnss_flag \in {0, 1}
    /\ gnss_state \in [Kinds -> {"RECEIVING", "RECEIVED", "PARSING"}]
    /\ gps_buffer \in [Kinds -> Sentences \cup {"empty"}]
    /\ parse_step \in {"idle", "check", "verify", "parse", "release"}
    /\ turn \in DOMAIN Types

GnssInit ==
    /\ gnss_flag = 0
    /\ gnss_state = [t \in Kinds |-> "RECEIVING"]
    /\ gps_buffer = [t \in Kinds |-> "empty"]
    /\ parse_step = "idle"
    /\ turn = 1

-----------------------------------------------------------------------------
(* The serial interrupt *)

(* Slip: a sentence is copied although the last one is being parsed. *)
StoreSentenceAlways(t, s) ==
    /\ gnss_state' = [gnss_state EXCEPT ![t] = "RECEIVED"]
    /\ gps_buffer' = [gps_buffer EXCEPT ![t] = s]

StoreSentence(t, s) ==
    IF gnss_state[t] # "PARSING"
    THEN /\ gnss_state' = [gnss_state EXCEPT ![t] = "RECEIVED"]
         /\ gps_buffer' = [gps_buffer EXCEPT ![t] = s]
    ELSE UNCHANGED <<gnss_state, gps_buffer>>

(* The end of a line of one of the three types. *)
GnssReceive(t, s) ==
    /\ StoreSentence(t, s)
    /\ gnss_flag' = 1
    /\ UNCHANGED mainVars

(* The end of a line of any other type. *)
ReceiveOther ==
    /\ gnss_flag' = 1
    /\ UNCHANGED <<gnss_state, gps_buffer, mainVars>>

-----------------------------------------------------------------------------
(* The main loop *)

This == Types[turn]

(* The flag is cleared before the parser is called. *)
Wake ==
    /\ parse_step = "idle" /\ gnss_flag = 1
    /\ gnss_flag' = 0
    /\ parse_step' = "check" /\ turn' = 1
    /\ UNCHANGED <<gnss_state, gps_buffer>>

Skip ==
    /\ parse_step = "check" /\ gnss_state[This] # "RECEIVED"
    /\ parse_step' = "release"
    /\ UNCHANGED <<gnss_flag, gnss_state, gps_buffer, turn>>

(* Slip: the type is not marked while it is being parsed. *)
MarkNothing(t) == gnss_state

Mark(t) == [gnss_state EXCEPT ![t] = "PARSING"]

Claim ==
    /\ parse_step = "check" /\ gnss_state[This] = "RECEIVED"
    /\ gnss_state' = Mark(This)
    /\ parse_step' = "verify"
    /\ UNCHANGED <<gnss_flag, gps_buffer, turn>>

Verify ==
    /\ parse_step = "verify" /\ gps_buffer[This] = "good"
    /\ parse_step' = "parse"
    /\ UNCHANGED <<gnss_flag, gnss_state, gps_buffer, turn>>

(* A wrong checksum leaves the call: the type stays claimed and the types  *)
(* after it are not looked at.                                             *)
Reject ==
    /\ parse_step = "verify" /\ gps_buffer[This] # "good"
    /\ parse_step' = "idle"
    /\ UNCHANGED <<gnss_flag, gnss_state, gps_buffer, turn>>

Parse ==
    /\ parse_step = "parse"
    /\ parse_step' = "release"
    /\ UNCHANGED <<gnss_flag, gnss_state, gps_buffer, turn>>

(* Done with a type, whether there was something to parse or not. *)
Release ==
    /\ parse_step = "release"
    /\ gnss_state' = [gnss_state EXCEPT ![This] = "RECEIVING"]
    /\ IF turn < Len(Types)
       THEN turn' = turn + 1 /\ parse_step' = "check"
       ELSE UNCHANGED turn /\ parse_step' = "idle"
    /\ UNCHANGED <<gnss_flag, gps_buffer>>

MainLoop == Wake \/ Skip \/ Claim \/ Verify \/ Reject \/ Parse \/ Release

GnssNext ==
    \/ \E t \in Kinds, s \in Sentences : GnssReceive(t, s)
    \/ ReceiveOther
    \/ MainLoop

GnssSpec == GnssInit /\ [][GnssNext]_gnssVars

(* The main loop comes round for ever; nothing is assumed of the receiver. *)
GnssFairSpec == GnssSpec /\ WF_gnssVars(MainLoop)

-----------------------------------------------------------------------------
(* What the main loop parses is what it has checked: from the checksum to  *)
(* the end of the parsing no interrupt puts another sentence in its place  *)
(* (gnss_data_parse, zf_device_gnss.c:417-433, against 511-540).           *)
ParsesWhatItChecked == parse_step = "parse" => gps_buffer[This] = "good"

(* As long as lines keep ending, no sentence waits for ever, however many  *)
(* of the types before it arrive broken: a type left claimed by a wrong    *)
(* checksum takes no new sentence, so that the next call gets past it      *)
(* (zf_device_gnss.c:426-435).                                        *)
NoSentenceStarves ==
    []<>(gnss_flag = 1) =>
        \A t \in Kinds : (gnss_state[t] = "RECEIVED") ~> (gnss_state[t] # "RECEIVED")
=============================================================================
