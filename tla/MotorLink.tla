------------------------------ MODULE MotorLink ------------------------------
(***************************************************************************)
(* The speed messages of the motor driver (uart_control_callback,          *)
(* small_driver_uart_control.c:14-68): seven bytes, a head, a function,    *)
(* two speeds of two bytes and a sum, put together byte by byte in the     *)
(* serial interrupt.  There is no pause to find the start of a message by: *)
(* after a lost byte only the head and the sum bring the collector back    *)
(* into step, and a byte of a message that looks like a head may be taken  *)
(* for one for as long as it is sent.                                      *)
(***************************************************************************)
EXTENDS Naturals, Sequences

CONSTANTS
    Speeds,     \* the four speed bytes the driver may send
    MaxLost     \* how many bytes may be lost

ASSUME LinkAssumption ==
    /\ Speeds \subseteq [1 .. 4 -> 0 .. 255]
    /\ MaxLost \in Nat

FrameHead == 165         \* 0xA5
SpeedMessage == 2   \* the function of a speed message
MessageLen == 7           \* the bytes of a message

Blank == [i \in 1 .. MessageLen |-> 0]
CheckSum(bytes) ==
    (bytes[1] + bytes[2] + bytes[3] + bytes[4] + bytes[5] + bytes[6]) % 256
Message(s) ==
    LET bytes == <<FrameHead, SpeedMessage, s[1], s[2], s[3], s[4], 0>>
    IN  [bytes EXCEPT ![MessageLen] = CheckSum(bytes)]

VARIABLES
    message, message_sent,          \* what the driver sends, and how much of it is out
    message_intact,                 \* none of its bytes has been lost
    receive_data_buffer, receive_data_count,
    speed,                  \* the speeds accepted last
    lost,                   \* the bytes lost so far
    missed                  \* plain messages given up since a damaged or another one

linkVars == <<message, message_sent, message_intact, receive_data_buffer, receive_data_count,
              speed, lost, missed>>

LinkInit ==
    /\ message \in {Message(s) : s \in Speeds} /\ message_sent = 0 /\ message_intact = TRUE
    /\ receive_data_buffer = Blank /\ receive_data_count = 0
    /\ speed = <<0, 0, 0, 0>>
    /\ lost = 0 /\ missed = 0

-----------------------------------------------------------------------------
(* Slip: the collector never begins anew at a head. *)
BeginsNowhere(byte) == FALSE

(* A head begins a message unless one is being collected. *)
Begins(byte) == byte = FrameHead /\ receive_data_buffer[1] # FrameHead

Accepted(bytes) ==
    /\ bytes[1] = FrameHead
    /\ CheckSum(bytes) = bytes[MessageLen]
    /\ bytes[2] = SpeedMessage

Last == message_sent = MessageLen - 1

Byte == message[message_sent + 1]
Count == IF Begins(Byte) THEN 1 ELSE receive_data_count + 1
Collected == [receive_data_buffer EXCEPT ![Count] = Byte]

(* No byte behind the head looks like one. *)
PlainMessage(m) == \A i \in 2 .. MessageLen : m[i] # FrameHead

(* The bookkeeping at the end of an intact, plain message; three stands for *)
(* more.                                                                    *)
MissedAfter(accepted) ==
    IF ~Last \/ ~message_intact \/ ~PlainMessage(message) THEN missed
    ELSE IF accepted THEN 0
    ELSE IF missed < 3 THEN missed + 1 ELSE missed

(* One byte arrives; with the seventh the buffer is judged and wiped. *)
LinkReceive ==
    /\ message_sent < MessageLen
    /\ message_sent' = message_sent + 1
    /\ IF Count < MessageLen
       THEN /\ receive_data_buffer' = Collected /\ receive_data_count' = Count
            /\ UNCHANGED speed
       ELSE /\ receive_data_buffer' = Blank /\ receive_data_count' = 0
            /\ speed' = IF Accepted(Collected) THEN SubSeq(Collected, 3, 6) ELSE speed
    /\ missed' = MissedAfter(Count = MessageLen /\ Accepted(Collected))
    /\ UNCHANGED <<message, message_intact, lost>>

LinkLose ==
    /\ message_sent < MessageLen /\ lost < MaxLost
    /\ message_sent' = message_sent + 1
    /\ lost' = lost + 1
    /\ message_intact' = FALSE /\ missed' = 0
    /\ UNCHANGED <<message, receive_data_buffer, receive_data_count, speed>>

NextMessage ==
    /\ message_sent = MessageLen
    /\ message' \in {Message(s) : s \in Speeds}
    /\ message_sent' = 0 /\ message_intact' = TRUE
    /\ missed' = IF PlainMessage(message') THEN missed ELSE 0
    /\ UNCHANGED <<receive_data_buffer, receive_data_count, speed, lost>>

LinkNext == LinkReceive \/ LinkLose \/ NextMessage

LinkSpec == LinkInit /\ [][LinkNext]_linkVars

-----------------------------------------------------------------------------
(* However many bytes were lost, and however long speed bytes or sums that *)
(* look like a head kept the collector out of step, of the intact messages *)
(* without such a byte that follow one another at most one is given up     *)
(* before it is in step again (small_driver_uart_control.c:20-25, 49-65).  *)
BackInStep == missed <= 1
=============================================================================
