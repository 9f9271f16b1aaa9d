---------------------------- MODULE Links_proofs ----------------------------
(***************************************************************************)
(* The two serial lines: the properties of module Sbus for frames of every *)
(* length over every set of bytes, and that of module MotorLink for every  *)
(* set of speeds whose messages have but one head.                         *)
(***************************************************************************)
EXTENDS Sbus, MotorLink, TLAPS

---------------------------------------------------------------------------
(* The SBUS receiver.                                                      *)


(* As long as no byte of the frame has been skipped, the collector holds   *)
(* the beginning of the frame; it never holds more bytes than were sent.   *)
Collects ==
    /\ ~quiet => length \in 1 .. frame_sent
    /\ ~quiet /\ length = frame_sent =>
           \A i \in 1 .. length : uart_receiver_data[i] = OnLine[i]
    /\ frame_intact /\ frame_sent = 0 => quiet
    /\ frame_intact /\ frame_sent > 0 => ~quiet /\ length = frame_sent

(* The decoder works on a complete frame, field by field. *)
Decodes ==
    writing > 0 =>
        /\ frame_sent = REV_DATA_LEN /\ ~quiet /\ length = REV_DATA_LEN
        /\ \A i \in 1 .. DataLen : i < writing => channel[i] = frame[i]

(* The flag stands for a decoded frame that has not been taken. *)
Flagged ==
    finsh_flag = 1 =>
        /\ frame_sent = REV_DATA_LEN /\ writing = 0 /\ ~ticked
        /\ channel = frame

Delivers ==
    frame_sent = REV_DATA_LEN /\ frame_intact /\ writing = 0 =>
        finsh_flag = 1 \/ taken = frame

Inv == SbusTypeOK /\ Collects /\ Decodes /\ Flagged /\ Delivers

LEMMA OnLineBytes ==
    ASSUME NEW f \in Fields
    PROVE  LET line == <<FRAME_STAR>> \o f \o <<FRAME_END>>
           IN  /\ line \in [1 .. REV_DATA_LEN -> LineBytes]
               /\ line[1] = FRAME_STAR /\ line[REV_DATA_LEN] = FRAME_END
               /\ \A i \in 1 .. DataLen : line[i + 1] = f[i]
<1>1. f \in Seq(LineBytes) /\ Len(f) = DataLen /\ DataLen \in Nat \ {0}
  BY SbusAssumption DEF Fields, SbusAssumption
<1>2. FRAME_STAR \in LineBytes /\ FRAME_END \in LineBytes
  BY SbusAssumption DEF SbusAssumption
<1> DEFINE begun == <<FRAME_STAR>> \o f
           line == begun \o <<FRAME_END>>
<1>3. /\ begun \in Seq(LineBytes) /\ Len(begun) = DataLen + 1
      /\ begun[1] = FRAME_STAR
      /\ \A i \in 1 .. DataLen : begun[i + 1] = f[i]
  BY <1>1, <1>2
<1> HIDE DEF begun
<1>4. /\ line \in Seq(LineBytes) /\ Len(line) = DataLen + 2
      /\ line[DataLen + 2] = FRAME_END
      /\ \A i \in 1 .. DataLen + 1 : line[i] = begun[i]
  BY <1>1, <1>2, <1>3
<1>5. line \in [1 .. DataLen + 2 -> LineBytes]
  <2> HIDE DEF line
  <2>1. line \in [1 .. Len(line) -> LineBytes]
    BY <1>4
  <2> QED
    BY <2>1, <1>4
<1>6. line[1] = FRAME_STAR /\ \A i \in 1 .. DataLen : line[i + 1] = f[i]
  BY <1>1, <1>3, <1>4
<1> QED
  BY <1>4, <1>5, <1>6 DEF REV_DATA_LEN, begun

LEMMA Sizes == DataLen \in Nat \ {0} /\ REV_DATA_LEN \in Nat \ {0, 1} /\ REV_DATA_LEN = DataLen + 2
BY SbusAssumption DEF SbusAssumption, REV_DATA_LEN

LEMMA InvInit == SbusInit => Inv
<1> SUFFICES ASSUME SbusInit PROVE Inv
  OBVIOUS
<1>1. SbusTypeOK
  BY Sizes, SbusAssumption DEF SbusInit, SbusTypeOK, Fields, SbusAssumption
<1> QED
  BY <1>1, Sizes DEF SbusInit, Inv, Collects, Decodes, Flagged, Delivers

LEMMA InvNextFrame == ASSUME Inv, NextFrame PROVE Inv'
<1>1. finsh_flag = 0 /\ writing = 0
  BY DEF NextFrame, Inv, Flagged, SbusTypeOK
<1> QED
  BY <1>1, Sizes DEF NextFrame, recvVars, Inv, SbusTypeOK, Collects, Decodes, Flagged, Delivers

LEMMA InvLose == ASSUME Inv, LoseByte PROVE Inv'
<1>1. finsh_flag = 0 /\ writing = 0
  BY DEF LoseByte, Inv, Flagged, Decodes, SbusTypeOK
<1>2. SbusTypeOK'
  <2>1. frame_sent' \in 0 .. REV_DATA_LEN
    BY Sizes DEF LoseByte, Inv, SbusTypeOK
  <2>3. frame_intact' \in BOOLEAN
    BY DEF LoseByte
  <2>2. UNCHANGED <<frame, quiet, length, uart_receiver_data, writing, channel,
                    finsh_flag, taken, ticked>>
    BY DEF LoseByte, recvVars
  <2> QED
    BY <2>1, <2>2, <2>3 DEF Inv, SbusTypeOK
<1>3. Collects'
  BY Sizes DEF LoseByte, recvVars, Inv, SbusTypeOK, Collects, OnLine
<1> QED
  BY <1>1, <1>2, <1>3, Sizes DEF LoseByte, recvVars, Inv, Decodes, Flagged, Delivers

LEMMA InvReceive == ASSUME Inv, SbusReceive PROVE Inv'
<1> DEFINE data == [uart_receiver_data EXCEPT ![Place] = OnLine[frame_sent + 1]]
<1>1. /\ OnLine \in [1 .. REV_DATA_LEN -> LineBytes]
      /\ OnLine[1] = FRAME_STAR /\ OnLine[REV_DATA_LEN] = FRAME_END
      /\ OnLine' = OnLine
  BY OnLineBytes DEF OnLine, Inv, SbusTypeOK, SbusReceive
<1>2. /\ frame_sent \in 0 .. REV_DATA_LEN - 1 /\ frame_sent' = frame_sent + 1
      /\ writing = 0 /\ finsh_flag = 0 /\ finsh_flag' = 0
      /\ frame' = frame /\ frame_intact' = frame_intact /\ quiet' = FALSE
      /\ channel' = channel /\ taken' = taken /\ ticked' = FALSE
      /\ uart_receiver_data' = data /\ length' = Place
  BY Sizes DEF SbusReceive, Inv, SbusTypeOK, Flagged
<1>3. writing' = IF Place = REV_DATA_LEN /\ FullFrame(data) THEN 1 ELSE 0
  BY <1>2 DEF SbusReceive
<1>4. Place \in 1 .. frame_sent + 1 /\ (quiet => Place = 1) /\ (~quiet => Place = length + 1)
  BY <1>2, Sizes DEF Place, Inv, SbusTypeOK, Collects
<1>5. data \in [1 .. REV_DATA_LEN -> LineBytes]
  BY <1>1, <1>2, <1>4, Sizes DEF Inv, SbusTypeOK
<1>6. SbusTypeOK'
  <2>1. /\ frame_sent' \in 0 .. REV_DATA_LEN /\ length' \in 0 .. REV_DATA_LEN
        /\ writing' \in 0 .. DataLen + 1
    BY <1>2, <1>3, <1>4, Sizes
  <2>2. frame_intact' \in BOOLEAN /\ quiet' \in BOOLEAN /\ ticked' \in BOOLEAN
    BY <1>2 DEF Inv, SbusTypeOK
  <2>3. /\ frame' \in Fields /\ channel' \in Fields /\ taken' \in Fields
        /\ uart_receiver_data' \in [1 .. REV_DATA_LEN -> LineBytes]
        /\ finsh_flag' \in {0, 1}
    BY <1>2, <1>5 DEF Inv, SbusTypeOK
  <2> QED
    BY <2>1, <2>2, <2>3 DEF SbusTypeOK
<1>7. Place = frame_sent + 1 => \A i \in 1 .. Place : data[i] = OnLine[i]
  <2>1. data[Place] = OnLine[frame_sent + 1]
    BY <1>2, <1>4, Sizes DEF Inv, SbusTypeOK
  <2>2. ASSUME Place = frame_sent + 1, NEW i \in 1 .. Place, i # Place
        PROVE  data[i] = OnLine[i]
    <3>1. ~quiet /\ length = frame_sent /\ i \in 1 .. length
      BY <2>2, <1>2, <1>4, Sizes DEF Inv, SbusTypeOK
    <3>2. data[i] = uart_receiver_data[i]
      BY <2>2, <1>2, <1>4, Sizes DEF Inv, SbusTypeOK
    <3> QED
      BY <3>1, <3>2 DEF Inv, Collects
  <2> QED
    BY <2>1, <2>2
<1>8. Collects'
  <2>1. frame_intact => Place = frame_sent + 1
    BY <1>2, <1>4, Sizes DEF Inv, Collects
  <2>2. \A i \in 1 .. Place : i \in 1 .. frame_sent + 1
    BY <1>2, <1>4
  <2> QED
    BY <2>1, <1>1, <1>2, <1>4, <1>7 DEF Collects
<1>9. Decodes'
  BY <1>2, <1>3, <1>4, Sizes DEF Decodes
<1>10. Flagged'
  BY <1>2 DEF Flagged
<1>11. Delivers'
  <2>1. SUFFICES ASSUME frame_sent' = REV_DATA_LEN, frame_intact PROVE writing' # 0
    BY <1>2 DEF Delivers
  <2>2. Place = REV_DATA_LEN
    BY <2>1, <1>2, <1>4, Sizes DEF Inv, Collects
  <2>3. data[1] = OnLine[1] /\ data[REV_DATA_LEN] = OnLine[REV_DATA_LEN]
    BY <2>1, <2>2, <1>2, <1>7, Sizes
  <2> QED
    BY <2>2, <2>3, <1>1, <1>3 DEF FullFrame
<1> QED
  BY <1>6, <1>8, <1>9, <1>10, <1>11 DEF Inv

LEMMA InvAnalyse == ASSUME Inv, Analyse PROVE Inv'
<1>1. /\ writing \in 1 .. DataLen
      /\ channel' = [channel EXCEPT ![writing] = uart_receiver_data[writing + 1]]
      /\ writing' = writing + 1 /\ finsh_flag' = finsh_flag
      /\ UNCHANGED <<frame, frame_sent, frame_intact, quiet, length, uart_receiver_data, taken, ticked>>
  BY DEF Analyse, FlagAfter, lineVars, recvVars
<1>2. /\ frame_sent = REV_DATA_LEN /\ ~quiet /\ length = REV_DATA_LEN
      /\ finsh_flag = 0
  BY <1>1 DEF Inv, Decodes, Flagged, SbusTypeOK
<1>3. uart_receiver_data[writing + 1] = frame[writing]
  <2>1. uart_receiver_data[writing + 1] = OnLine[writing + 1]
    BY <1>1, <1>2, Sizes DEF Inv, Collects
  <2> QED
    BY <2>1, <1>1, OnLineBytes DEF OnLine, Inv, SbusTypeOK
<1>4. channel' \in Fields
  BY <1>1, <1>3 DEF Inv, SbusTypeOK, Fields
<1>5. SbusTypeOK'
  <2>1. writing' \in 0 .. DataLen + 1
    BY <1>1, Sizes
  <2> QED
    BY <1>1, <1>4, <2>1 DEF Inv, SbusTypeOK
<1>6. Collects'
  BY <1>1 DEF Inv, Collects, OnLine
<1>7. Decodes'
  BY <1>1, <1>2, <1>3, Sizes DEF Inv, Decodes, SbusTypeOK, Fields
<1> QED
  BY <1>1, <1>2, <1>5, <1>6, <1>7 DEF Inv, Flagged, Delivers

LEMMA InvFinish == ASSUME Inv, Finish PROVE Inv'
<1>1. /\ writing = DataLen + 1 /\ writing' = 0 /\ finsh_flag' = 1 /\ ticked' = FALSE
      /\ UNCHANGED <<frame, frame_sent, frame_intact, quiet, length, uart_receiver_data, channel, taken>>
  BY DEF Finish, lineVars, recvVars
<1>2. frame_sent = REV_DATA_LEN /\ \A i \in 1 .. DataLen : channel[i] = frame[i]
  BY <1>1, Sizes DEF Inv, Decodes
<1>3. channel = frame
  <2>1. channel \in Fields /\ frame \in Fields
    BY DEF Inv, SbusTypeOK
  <2>2. channel = [i \in 1 .. DataLen |-> channel[i]] /\ frame = [i \in 1 .. DataLen |-> frame[i]]
    BY <2>1 DEF Fields
  <2>3. [i \in 1 .. DataLen |-> channel[i]] = [i \in 1 .. DataLen |-> frame[i]]
    BY <1>2
  <2> QED
    BY <2>2, <2>3
<1>4. SbusTypeOK'
  <2>1. writing' \in 0 .. DataLen + 1
    BY <1>1, Sizes
  <2>2. ticked' \in BOOLEAN
    BY <1>1
  <2> QED
    BY <1>1, <2>1, <2>2 DEF Inv, SbusTypeOK
<1>5. Collects'
  BY <1>1 DEF Inv, Collects, OnLine
<1> QED
  BY <1>1, <1>2, <1>3, <1>4, <1>5 DEF Inv, Decodes, Flagged, Delivers

LEMMA InvTick == ASSUME Inv, Callback PROVE Inv'
<1>1. /\ ticked' = TRUE /\ finsh_flag' = 0
      /\ taken' = IF finsh_flag = 1 THEN channel ELSE taken
      /\ UNCHANGED <<frame, frame_sent, frame_intact, quiet, length, uart_receiver_data, writing, channel>>
  BY DEF Callback, lineVars, recvVars, Inv, SbusTypeOK
<1>2. SbusTypeOK'
  BY <1>1 DEF Inv, SbusTypeOK
<1>3. Collects'
  BY <1>1 DEF Inv, Collects, OnLine
<1>4. Decodes' /\ Flagged' /\ Delivers'
  BY <1>1 DEF Inv, Decodes, Flagged, Delivers
<1> QED
  BY <1>2, <1>3, <1>4 DEF Inv

LEMMA InvNext == Inv /\ [SbusNext]_sbusVars => Inv'
<1> SUFFICES ASSUME Inv, [SbusNext]_sbusVars PROVE Inv'
  OBVIOUS
<1>1. CASE UNCHANGED sbusVars
  BY <1>1 DEF sbusVars, lineVars, recvVars, Inv, SbusTypeOK, Collects, Decodes, Flagged, Delivers, OnLine
<1> QED
  BY <1>1, InvNextFrame, InvLose, InvReceive, InvAnalyse, InvFinish, InvTick DEF SbusNext

(* By the pause after an intact frame the callback has it, whatever was    *)
(* lost before (zf_device_uart_receiver.c:104-120).                        *)
THEOREM SbusIntactFrameArrives == SbusSpec => []IntactFrameArrives
<1>1. Inv => IntactFrameArrives
  BY DEF Inv, Flagged, Delivers, IntactFrameArrives
<1> QED
  BY <1>1, InvInit, InvNext, PTL DEF SbusSpec

(* The callback takes one frame as it was sent                             *)
(* (zf_device_uart_receiver.c:83-90, 104-112, Remote_ctrl.c:81-90).        *)
THEOREM SbusOneFrameTaken == SbusSpec => OneFrameTaken
<1>1. Inv /\ [SbusNext]_sbusVars => [finsh_flag = 1 /\ finsh_flag' = 0 => taken' = frame]_sbusVars
  <2> SUFFICES ASSUME Inv, SbusNext, finsh_flag = 1, finsh_flag' = 0
               PROVE  taken' = frame
    OBVIOUS
  <2>1. frame_sent = REV_DATA_LEN /\ writing = 0 /\ ~ticked /\ channel = frame
    BY DEF Inv, Flagged
  <2>2. Callback
    BY <2>1, Sizes DEF SbusNext, NextFrame, LoseByte, SbusReceive, Analyse, Finish
  <2> QED
    BY <2>1, <2>2 DEF Callback
<1> QED
  BY <1>1, InvInit, InvNext, PTL DEF SbusSpec, OneFrameTaken

---------------------------------------------------------------------------
(* The motor link.                                                         *)

\* The message is one of those that count: nothing of it has been lost, and
\* no byte behind its head looks like one.
Counted == message_intact /\ PlainMessage(message)

LinkTypes ==
    /\ message \in {Message(s) : s \in Speeds}
    /\ message_sent \in 0 .. MessageLen /\ message_intact \in BOOLEAN
    /\ receive_data_buffer \in [1 .. MessageLen -> 0 .. 255]
    /\ receive_data_count \in 0 .. MessageLen - 1
    /\ missed \in 0 .. 3

\* The three places the collector can be at inside an intact message: in step,
\* ahead of it with a message begun earlier, or behind it because one ended
\* inside it.
InStep ==
    /\ receive_data_count = message_sent
    /\ \A i \in 1 .. message_sent : receive_data_buffer[i] = message[i]
Ahead ==
    /\ receive_data_buffer[1] = FrameHead
    /\ receive_data_count > message_sent /\ missed = 0
Behind ==
    /\ receive_data_buffer[1] # FrameHead
    /\ receive_data_count < message_sent /\ missed = 0

LinkInv ==
    /\ LinkTypes
    /\ missed <= 1
    /\ ~Counted => missed = 0
    /\ receive_data_buffer[1] = FrameHead =>
           receive_data_count > 0 /\ (message_sent \in {0, MessageLen} => missed = 0)
    /\ Counted /\ message_sent \in 1 .. MessageLen - 1 => InStep \/ Ahead \/ Behind

LEMMA MessageBytes ==
    ASSUME NEW s \in Speeds
    PROVE  /\ Message(s) \in [1 .. MessageLen -> 0 .. 255]
           /\ Message(s)[1] = FrameHead /\ Message(s)[2] = SpeedMessage
           /\ Message(s)[MessageLen] = CheckSum(Message(s))
<1> DEFINE b == <<FrameHead, SpeedMessage, s[1], s[2], s[3], s[4], 0>>
<1>1. s \in [1 .. 4 -> 0 .. 255]
  BY LinkAssumption DEF LinkAssumption
<1>2. /\ b[1] = FrameHead /\ b[2] = SpeedMessage /\ b[3] = s[1] /\ b[4] = s[2]
      /\ b[5] = s[3] /\ b[6] = s[4] /\ DOMAIN b = 1 .. 7
  OBVIOUS
<1>3. b \in [1 .. MessageLen -> 0 .. 255]
  <2>1. s[1] \in 0 .. 255 /\ s[2] \in 0 .. 255 /\ s[3] \in 0 .. 255 /\ s[4] \in 0 .. 255
    BY <1>1
  <2> QED BY <2>1 DEF MessageLen, FrameHead, SpeedMessage
<1> HIDE DEF b
<1>4. CheckSum(b) \in 0 .. 255
  <2>1. /\ b[1] \in Nat /\ b[2] \in Nat /\ b[3] \in Nat /\ b[4] \in Nat /\ b[5] \in Nat
        /\ b[6] \in Nat
    BY <1>3 DEF MessageLen
  <2>2. ASSUME NEW n \in Nat PROVE n % 256 \in 0 .. 255
    OBVIOUS
  <2>3. b[1] + b[2] + b[3] + b[4] + b[5] + b[6] \in Nat
    BY <2>1
  <2> QED BY <2>2, <2>3 DEF CheckSum
<1>5. Message(s) = [b EXCEPT ![MessageLen] = CheckSum(b)]
  BY DEF Message, b
<1>6. \A i \in 1 .. 6 : Message(s)[i] = b[i]
  BY <1>3, <1>5 DEF MessageLen
<1>7. CheckSum(Message(s)) = CheckSum(b)
  BY <1>6 DEF CheckSum
<1> QED BY <1>2, <1>3, <1>4, <1>5, <1>6, <1>7 DEF MessageLen

LEMMA LinkStart == LinkInit => LinkInv
<1> SUFFICES ASSUME LinkInit PROVE LinkInv
  OBVIOUS
<1>1. Blank \in [1 .. MessageLen -> 0 .. 255] /\ Blank[1] # FrameHead
  BY DEF Blank, MessageLen, FrameHead
<1> QED BY <1>1 DEF LinkInit, LinkInv, LinkTypes, MessageLen

LEMMA ReceiveKeeps ==
    ASSUME LinkInv, LinkReceive
    PROVE  LinkInv'
<1> USE DEF LinkTypes
<1>1. PICK s \in Speeds : message = Message(s)
  BY DEF LinkInv
<1>2. /\ message \in [1 .. 7 -> 0 .. 255] /\ message[1] = FrameHead
      /\ message[2] = SpeedMessage /\ message[7] = CheckSum(message)
      /\ Counted => \A i \in 2 .. 7 : message[i] # FrameHead
  BY <1>1, MessageBytes DEF Counted, PlainMessage, MessageLen
<1> DEFINE k == message_sent
           n == receive_data_count
           buf == receive_data_buffer
<1>3. /\ k \in 0 .. 6 /\ n \in 0 .. 6 /\ buf \in [1 .. 7 -> 0 .. 255]
      /\ missed \in 0 .. 1 /\ k' = k + 1 /\ message_intact' = message_intact
      /\ message' = message /\ (Counted' <=> Counted)
  BY DEF LinkInv, LinkReceive, MessageLen, Counted, PlainMessage
<1>4. /\ Byte = message[k + 1] /\ Byte \in 0 .. 255
      /\ Counted => (Byte = FrameHead <=> k = 0)
  BY <1>2, <1>3 DEF Byte
<1>5. /\ Count \in 1 .. 7
      /\ Counted => Count = IF k = 0 /\ buf[1] # FrameHead THEN 1 ELSE n + 1
  BY <1>3, <1>4 DEF Count, Begins
<1>6. /\ Collected = [buf EXCEPT ![Count] = Byte]
      /\ Collected \in [1 .. 7 -> 0 .. 255]
  BY <1>3, <1>4, <1>5 DEF Collected
<1>7. Blank \in [1 .. 7 -> 0 .. 255] /\ Blank[1] # FrameHead
  BY DEF Blank, MessageLen, FrameHead
<1>8. \/ Count < 7 /\ buf' = Collected /\ n' = Count
      \/ Count = 7 /\ buf' = Blank /\ n' = 0
  BY <1>5 DEF LinkReceive, MessageLen
<1> DEFINE acc == Count = MessageLen /\ Accepted(Collected)
<1>9. missed' = MissedAfter(acc)
  BY DEF LinkReceive
<1>10. LinkTypes'
  <2>1. missed' \in 0 .. 3
    BY <1>3, <1>9 DEF MissedAfter
  <2>2. receive_data_buffer' \in [1 .. MessageLen -> 0 .. 255] /\ n' \in 0 .. MessageLen - 1
    BY <1>5, <1>6, <1>7, <1>8 DEF MessageLen
  <2>3. message_sent' \in 0 .. MessageLen
    BY <1>3 DEF MessageLen
  <2>4. message' \in {Message(t) : t \in Speeds} /\ message_intact' \in BOOLEAN
    BY <1>3 DEF LinkInv
  <2> QED BY <2>1, <2>2, <2>3, <2>4
<1>11. buf'[1] = FrameHead => n' > 0
  BY <1>5, <1>7, <1>8
<1>12. CASE ~Counted
  <2>1. missed' = 0
    BY <1>9, <1>12 DEF MissedAfter, LinkInv, Counted
  <2> QED BY <1>3, <1>10, <1>11, <1>12, <2>1 DEF LinkInv
<1>13. CASE Counted /\ k = 0
  <2>1. missed' = missed
    BY <1>9, <1>13 DEF MissedAfter, Last, MessageLen
  <2>2. CASE buf[1] # FrameHead
    <3>1. Count = 1
      BY <1>5, <1>13, <2>2
    <3>2. n' = 1 /\ buf'[1] = message[1]
      BY <1>3, <1>4, <1>6, <1>8, <1>13, <3>1
    <3>3. InStep'
      BY <1>3, <1>13, <3>2 DEF InStep
    <3> QED BY <1>3, <1>10, <1>13, <2>1, <3>2, <3>3 DEF LinkInv, MessageLen
  <2>3. CASE buf[1] = FrameHead
    <3>1. n > 0 /\ missed = 0 /\ Count = n + 1
      BY <1>5, <1>13, <2>3 DEF LinkInv
    <3>2. Ahead' \/ Behind'
      BY <1>3, <1>5, <1>6, <1>7, <1>8, <1>13, <2>1, <2>3, <3>1 DEF Ahead, Behind
    <3> QED BY <1>3, <1>10, <1>11, <1>13, <2>1, <3>1, <3>2 DEF LinkInv, MessageLen
  <2> QED BY <2>2, <2>3
<1>14. CASE Counted /\ k > 0
  <2>1. Count = n + 1
    BY <1>5, <1>14
  <2>2. k < 6 => missed' = missed
    BY <1>3, <1>9 DEF MissedAfter, Last, MessageLen
  <2>3. CASE InStep
    <3>1. n = k /\ \A i \in 1 .. k : buf[i] = message[i]
      BY <2>3 DEF InStep
    <3>2. \A i \in 1 .. k + 1 : Collected[i] = message[i]
      BY <1>3, <1>4, <1>6, <2>1, <3>1
    <3>3. CASE k < 6
      <4>1. n' = k + 1 /\ buf' = Collected
        BY <1>3, <1>8, <2>1, <3>1, <3>3
      <4>2. InStep'
        BY <1>3, <3>2, <4>1 DEF InStep
      <4> QED BY <1>3, <1>10, <1>11, <1>14, <2>2, <3>3, <4>2 DEF LinkInv, MessageLen
    <3>4. CASE k = 6
      <4>1. Count = 7
        BY <2>1, <3>1, <3>4
      <4>2. Collected[1] = FrameHead /\ Collected[2] = SpeedMessage
            /\ CheckSum(Collected) = Collected[7]
        BY <1>2, <3>2, <3>4 DEF CheckSum
      <4>3. acc
        BY <4>1, <4>2 DEF Accepted, MessageLen
      <4>4. missed' = 0
        BY <1>3, <1>9, <1>14, <3>4, <4>3 DEF MissedAfter, Last, MessageLen, Counted
      <4> QED BY <1>3, <1>10, <1>11, <1>14, <3>4, <4>4 DEF LinkInv, MessageLen
    <3> QED BY <1>3, <3>3, <3>4
  <2>4. CASE Ahead
    <3>1. k < 6 /\ n > k /\ buf[1] = FrameHead /\ missed = 0
      BY <1>3, <2>4 DEF Ahead
    <3>2. Ahead' \/ Behind'
      BY <1>3, <1>5, <1>6, <1>7, <1>8, <2>1, <2>2, <3>1 DEF Ahead, Behind
    <3> QED BY <1>3, <1>10, <1>11, <1>14, <2>2, <3>1, <3>2 DEF LinkInv, MessageLen
  <2>5. CASE Behind
    <3>1. n < k /\ buf[1] # FrameHead /\ missed = 0
      BY <2>5 DEF Behind
    <3>2. n' = n + 1 /\ buf' = Collected
      BY <1>3, <1>8, <2>1, <3>1
    <3>3. Collected[1] # FrameHead
      BY <1>3, <1>4, <1>6, <1>14, <2>1, <3>1
    <3>4. missed' \in 0 .. 1
      BY <1>9, <3>1 DEF MissedAfter
    <3>5. k < 6 => Behind'
      BY <1>3, <2>2, <3>1, <3>2, <3>3 DEF Behind
    <3> QED BY <1>3, <1>10, <1>14, <3>2, <3>3, <3>4, <3>5 DEF LinkInv, MessageLen
  <2> QED BY <1>3, <1>14, <2>3, <2>4, <2>5 DEF LinkInv, MessageLen
<1> QED BY <1>3, <1>12, <1>13, <1>14

LEMMA LinkStep ==
    ASSUME LinkInv, [LinkNext]_linkVars
    PROVE  LinkInv'
<1>1. CASE LinkReceive
  BY <1>1, ReceiveKeeps
<1>2. CASE LinkLose
  <2>1. message_sent' \in 0 .. MessageLen /\ message_intact' = FALSE /\ missed' = 0
    BY <1>2 DEF LinkLose, LinkInv, LinkTypes, MessageLen
  <2>2. UNCHANGED <<message, receive_data_buffer, receive_data_count>>
    BY <1>2 DEF LinkLose
  <2>3. LinkTypes'
    <3>1. /\ message \in {Message(s) : s \in Speeds}
          /\ receive_data_buffer \in [1 .. MessageLen -> 0 .. 255]
          /\ receive_data_count \in 0 .. MessageLen - 1
      BY DEF LinkInv, LinkTypes
    <3>2. missed' \in 0 .. 3
      BY <2>1
    <3>3. message_intact' \in BOOLEAN
      BY <2>1
    <3> QED BY <2>1, <2>2, <3>1, <3>2, <3>3 DEF LinkTypes
  <2> QED BY <2>1, <2>2, <2>3 DEF LinkInv, Counted
<1>3. CASE NextMessage
  BY <1>3 DEF NextMessage, LinkInv, LinkTypes, Counted, MessageLen
<1>4. CASE UNCHANGED linkVars
  BY <1>4 DEF linkVars, LinkInv, LinkTypes, Counted, PlainMessage, InStep, Ahead, Behind
<1> QED BY <1>1, <1>2, <1>3, <1>4 DEF LinkNext

(* However many bytes are lost, and whatever speeds are sent, of the intact  *)
(* messages in a row that have no second 0xA5 in them at most one is given   *)
(* up before the collector is in step again, for every set of speeds         *)
(* (small_driver_uart_control.c:20-65).                                      *)
THEOREM LinkBackInStep == LinkSpec => []BackInStep
<1>1. LinkInv /\ [LinkNext]_linkVars => LinkInv'
  BY LinkStep
<1>2. LinkInv => BackInStep
  BY DEF LinkInv, BackInStep
<1> QED BY <1>1, <1>2, LinkStart, PTL DEF LinkSpec
=============================================================================
