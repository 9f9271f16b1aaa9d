-------------------------------- MODULE Sbus --------------------------------
(***************************************************************************)
(* The SBUS receiver: the serial interrupt collects the bytes of a frame   *)
(* and decodes a full one into uart_receiver                               *)
(* (zf_device_uart_receiver.c:80-123); the millisecond callback takes a    *)
(* frame when finsh_flag says there is one (Remote_ctrl.c:79-93).  The     *)
(* timer interrupt has the higher priority (3 against 7), so it runs       *)
(* between any two assignments of the decoder and nothing of the decoder   *)
(* runs inside it.  The bytes of a frame may be lost on the way.           *)
(***************************************************************************)
EXTENDS Naturals, Sequences

CONSTANTS
    LineBytes,      \* the values of a byte that matter here
    FRAME_STAR, FRAME_END,
    DataLen     \* bytes between start and end; each stands for a field

ASSUME SbusAssumption ==
    /\ {FRAME_STAR, FRAME_END} \subseteq LineBytes
    /\ DataLen \in Nat \ {0}

REV_DATA_LEN == DataLen + 2

VARIABLES
    \* the line
    frame,      \* the fields of the frame being sent
    frame_sent,       \* how many of its bytes have been sent
    frame_intact,     \* none of them has been lost
    quiet,      \* no byte has come in for more than 3 ms
    \* the serial interrupt
    length, uart_receiver_data,
    writing,    \* 0, or the place in the decoder: the next field to write
    channel,    \* the fields of uart_receiver, its state among them
    finsh_flag,
    \* the millisecond callback
    taken,      \* the fields in remote_ctrl
    ticked      \* the callback has run since the last byte was dealt with

lineVars == <<frame, frame_sent, frame_intact, quiet>>
recvVars == <<length, uart_receiver_data>>
sbusVars == <<lineVars, recvVars, writing, channel, finsh_flag, taken, ticked>>

Fields == [1 .. DataLen -> LineBytes]
OnLine == <<FRAME_STAR>> \o frame \o <<FRAME_END>>

SbusTypeOK ==
    /\ frame \in Fields /\ frame_sent \in 0 .. REV_DATA_LEN
    /\ frame_intact \in BOOLEAN /\ quiet \in BOOLEAN
    /\ length \in 0 .. REV_DATA_LEN
    /\ uart_receiver_data \in [1 .. REV_DATA_LEN -> LineBytes]
    /\ writing \in 0 .. DataLen + 1
    /\ channel \in Fields /\ finsh_flag \in {0, 1}
    /\ taken \in Fields /\ ticked \in BOOLEAN

SbusInit ==
    /\ frame \in Fields /\ frame_sent = 0 /\ frame_intact = TRUE /\ quiet = TRUE
    /\ length = 0
    /\ uart_receiver_data = [i \in 1 .. REV_DATA_LEN |-> FRAME_END]
    /\ writing = 0
    /\ channel = [i \in 1 .. DataLen |-> FRAME_END] /\ finsh_flag = 0
    /\ taken = channel /\ ticked = TRUE

-----------------------------------------------------------------------------
(* The line *)

(* The pause between two frames is longer than 3 ms, the callback comes    *)
(* every millisecond.                                                      *)
NextFrame ==
    /\ frame_sent = REV_DATA_LEN /\ writing = 0 /\ ticked
    /\ frame' \in Fields
    /\ frame_sent' = 0 /\ frame_intact' = TRUE /\ quiet' = TRUE
    /\ UNCHANGED <<recvVars, writing, channel, finsh_flag, taken, ticked>>

LoseByte ==
    /\ frame_sent < REV_DATA_LEN
    /\ frame_sent' = frame_sent + 1
    /\ frame_intact' = FALSE
    /\ UNCHANGED <<frame, quiet, recvVars, writing, channel, finsh_flag, taken, ticked>>

-----------------------------------------------------------------------------
(* The serial interrupt *)

(* Slip: the pause between two frames does not start a new frame. *)
PlaceAnyhow == IF length >= REV_DATA_LEN THEN 1 ELSE length + 1

(* Where the byte is stored, from 1. *)
Place == IF quiet \/ length >= REV_DATA_LEN THEN 1 ELSE length + 1

FullFrame(data) == data[1] = FRAME_STAR /\ data[REV_DATA_LEN] = FRAME_END

SbusReceive ==
    /\ frame_sent < REV_DATA_LEN /\ writing = 0
    /\ frame_sent' = frame_sent + 1
    /\ quiet' = FALSE /\ ticked' = FALSE
    /\ uart_receiver_data' = [uart_receiver_data EXCEPT ![Place] = OnLine[frame_sent + 1]]
    /\ length' = Place
    /\ writing' = IF Place = REV_DATA_LEN /\ FullFrame(uart_receiver_data') THEN 1 ELSE 0
    /\ UNCHANGED <<frame, frame_intact, channel, finsh_flag, taken>>

(* Slip: the flag is raised before the fields are written. *)
FlagFirst(i) == 1

(* The flag after the i-th field has been written. *)
FlagAfter(i) == finsh_flag

(* uart_receiver_analysis, one field. *)
Analyse ==
    /\ writing \in 1 .. DataLen
    /\ channel' = [channel EXCEPT ![writing] = uart_receiver_data[writing + 1]]
    /\ writing' = writing + 1
    /\ finsh_flag' = FlagAfter(writing)
    /\ UNCHANGED <<lineVars, recvVars, taken, ticked>>

(* Its last assignment. *)
Finish ==
    /\ writing = DataLen + 1
    /\ finsh_flag' = 1
    /\ writing' = 0 /\ ticked' = FALSE
    /\ UNCHANGED <<lineVars, recvVars, channel, taken>>

-----------------------------------------------------------------------------
(* The millisecond callback *)

Callback ==
    /\ IF finsh_flag = 1 THEN taken' = channel /\ finsh_flag' = 0
                         ELSE UNCHANGED <<taken, finsh_flag>>
    /\ ticked' = TRUE
    /\ UNCHANGED <<lineVars, recvVars, writing, channel>>

SbusNext == NextFrame \/ LoseByte \/ SbusReceive \/ Analyse \/ Finish \/ Callback

SbusSpec == SbusInit /\ [][SbusNext]_sbusVars

-----------------------------------------------------------------------------
(* What the callback takes is one frame as it was sent: never fields of    *)
(* two frames, because the decoder was interrupted half-way or because     *)
(* lost bytes let the collector join two frames                            *)
(* (zf_device_uart_receiver.c:83-90, 104-112, Remote_ctrl.c:81-90).        *)
OneFrameTaken ==
    [][finsh_flag = 1 /\ finsh_flag' = 0 => taken' = frame]_sbusVars

(* After a damaged frame the next intact one is received: by the pause     *)
(* after a frame of which no byte was lost, the callback has it            *)
(* (zf_device_uart_receiver.c:104-120).                                    *)
IntactFrameArrives ==
    frame_sent = REV_DATA_LEN /\ frame_intact /\ writing = 0 /\ ticked => taken = frame
=============================================================================
