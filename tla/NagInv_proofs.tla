--------------------------- MODULE NagInv_proofs ---------------------------
(***************************************************************************)
(* Type correctness of the path recorder, its inductive invariant and the  *)
(* properties that follow from it, for every number of paths, page layout, *)
(* page length and bound.  What each step leaves has the types of TypeOK;  *)
(* the steps that read at a computed place need the parts of NagInv that   *)
(* bound it.  Each part of NagInv is kept by every step: one lemma per     *)
(* part, one case per action.                                              *)
(***************************************************************************)
EXTENDS Nag, TLAPS

USE DEF Paths, Slots, Words

-----------------------------------------------------------------------------
(***************************************************************************)
(* Facts about the layout.                                                 *)
(***************************************************************************)

\* A path has room for a natural number of points, and for no more than its
\* pages hold.
LEMMA CapacityType ==
  ASSUME NEW p \in Paths
  PROVE  /\ Capacity(p) \in Nat
         /\ Capacity(p) <= (StartPage[p] - EndPage[p] + 1) * PointsPerPage
         /\ Capacity(p) <= Read_MaxSize
<1> DEFINE pages == StartPage[p] - EndPage[p] + 1
<1>1. pages \in Nat /\ PointsPerPage \in Nat /\ Read_MaxSize \in Nat
  BY LayoutAssumption
<1>2. pages * PointsPerPage \in Nat
  BY <1>1
<1> QED
  BY <1>1, <1>2 DEF Capacity, Min2

\* The pages of a path are data pages.
LEMMA PathPagesAreData ==
  ASSUME NEW p \in Paths
  PROVE  PathPages(p) \subseteq DataPages
  BY DEF DataPages

\* nag_clamp_save_index returns an index that fits the path.
LEMMA ClampType ==
  ASSUME NEW p \in Paths, NEW w, w = Blank \/ w \in Nat
  PROVE  /\ ClampSaveIndex(p, w) \in Nat
         /\ ClampSaveIndex(p, w) <= Capacity(p)
  BY CapacityType DEF ClampSaveIndex, Min2

\* nag_read_meta_values returns, for every path, an index that fits it.
LEMMA MetaValuesType ==
  ASSUME meta \in MetaType
  PROVE  /\ MetaValues(meta) \in [Paths -> Nat]
         /\ \A p \in Paths : MetaValues(meta)[p] <= Capacity(p)
<1>1. \A p \in Paths : meta.idx[p] = Blank \/ meta.idx[p] \in Nat
  BY DEF MetaType
<1> QED
  BY <1>1, ClampType, CapacityType DEF MetaValues

\* Erased pages, the empty buffer and the main loop at a label are well typed.
LEMMA BlankType ==
  /\ BlankPage \in PageType
  /\ BlankPage \in BufferType
  /\ BlankMeta \in MetaType
  BY DEF BlankPage, BlankMeta, PageType, BufferType, MetaType

LEMMA LocalsType ==
  ASSUME NEW p \in Paths, NEW op \in {"NONE", "RECORD", "REPLAY", "CLEAR"},
         NEW page \in Nat, NEW pos \in Nat
  PROVE  Locals(p, op, page, pos) \in LocalType
  BY DEF Locals, LocalType, NoIndexes

\* Reading the locals, and the next turn of a loop.
LEMMA LocalFields ==
  ASSUME local \in LocalType
  PROVE  /\ local.path \in Paths /\ local.page \in Nat /\ local.pos \in Nat
         /\ local.op \in {"NONE", "RECORD", "REPLAY", "CLEAR"}
         /\ local.new \in [Paths -> Nat]
         /\ local.then \in {"gnss", "finish", "read", "init"}
  BY DEF LocalType

LEMMA MoveType ==
  ASSUME local \in LocalType, NEW page \in Nat, NEW pos \in Nat, Move(page, pos)
  PROVE  pc' = pc /\ local' \in LocalType
  BY DEF LocalType, Move

LEMMA AdvanceType ==
  ASSUME local \in LocalType, Advance
  PROVE  pc' = pc /\ local' \in LocalType
<1>1. local.page \in Nat /\ local.pos + 1 \in Nat
  BY LocalFields
<1> QED
  BY <1>1, MoveType DEF Advance

LEMMA NoLocalsType == NoLocals \in LocalType
  BY LocalsType, LayoutAssumption DEF NoLocals

LEMMA NoReadType == NoRead \in ReadType
  BY DEF NoRead, ReadType

\* The request flags.
LEMMA RequestWriteType ==
  ASSUME write \in WriteRequests, NEW kind \in WriteRequests, RequestWrite(kind)
  PROVE  write' \in WriteRequests
  BY DEF WriteRequests, RequestWrite

LEMMA ReadAtType ==
  ASSUME read \in ReadType
  PROVE  /\ read.page \in Int /\ read.count \in Nat
         /\ ReadAt(TRUE, FALSE, read.page) \in ReadType
         /\ ReadAt(FALSE, read.active, read.page) \in ReadType
         /\ ReadAt(read.pending, FALSE, read.page) \in ReadType
         /\ ReadAt(read.pending, TRUE, read.page - 1) \in ReadType
  BY DEF ReadType, ReadAt

\* fuxian, target_speed and STOP_FLAG.
LEMMA DriveTypes ==
  /\ Stopped \in DriveType /\ PowerUpDrive \in DriveType
  /\ drive \in DriveType =>
       /\ [fuxian |-> 1, target_speed |-> "USER", STOP_FLAG |-> drive.STOP_FLAG]
            \in DriveType
       /\ [fuxian |-> 0, target_speed |-> "ZERO", STOP_FLAG |-> drive.STOP_FLAG]
            \in DriveType
  BY DEF Stopped, PowerUpDrive, DriveType

\* The reading part of a meta write.
LEMMA MetaBeginType ==
  ASSUME TypeOK, NEW p \in Paths, NEW index \in Nat,
         NEW next \in {"finish", "read", "init"}, MetaBegin(p, index, next)
  PROVE  /\ pc' \in Labels /\ local' \in LocalType
         /\ buffer' \in BufferType
         /\ dirty' \subseteq Paths
<1>1. [MetaValues(meta) EXCEPT ![p] = index] \in [Paths -> Nat]
  BY MetaValuesType DEF TypeOK, FlashTypeOK
<1>2. local' \in LocalType
  BY <1>1 DEF TypeOK, ControlTypeOK, MetaBegin, LocalType
<1> QED
  BY <1>2, BlankType DEF TypeOK, ObservationTypeOK, MetaBegin, Labels, BlankBuffer

-----------------------------------------------------------------------------
(***************************************************************************)
(* Type correctness.                                                       *)
(***************************************************************************)
USE DEF flashVars, N, requests, main, ghosts, At, Goto, BlankBuffer

LEMMA InitType == Init => TypeOK
  BY LayoutAssumption, RecorderAssumption, BlankType, NoLocalsType, NoReadType
  DEF Init, TypeOK, FlashTypeOK, NTypeOK, ControlTypeOK, ObservationTypeOK,
      PowerUpDrive, DriveType, Labels, RunModes, WriteRequests

\* The timer interrupt.
LEMMA InterruptType ==
  ASSUME TypeOK, Interrupt
  PROVE  TypeOK'
<1> USE LayoutAssumption, RecorderAssumption
<1> USE DEF TypeOK, FlashTypeOK, NTypeOK, ControlTypeOK, ObservationTypeOK
<1>1. ASSUME NEW d \in TickSteps, NEW yaw \in Yaws, Run_Nag_Save(d, yaw)
      PROVE  TypeOK'
  <2> USE <1>1 DEF Run_Nag_Save
  <2>1. NTypeOK'
    OBVIOUS
  <2>2. write' \in WriteRequests
    BY RequestWriteType DEF WriteCalledFor, WriteRequests
  <2>3. buffer' \in BufferType
    BY DEF BufferType
  <2>4. trail' \in Seq(Yaws)
    OBVIOUS
  <2> QED
    BY <2>1, <2>2, <2>3, <2>4
<1>2. CASE EndRecording
  <2>1. write' \in WriteRequests
    BY <1>2, RequestWriteType DEF EndRecording, WriteRequests
  <2>2. End_f' \in 0..3
    BY <1>2 DEF EndRecording
  <2> QED
    BY <1>2, <2>1, <2>2 DEF EndRecording
<1>3. CASE RequestRead
  BY <1>3, ReadAtType DEF RequestRead
<1>4. ASSUME NEW d \in TickSteps, Nag_Run(d)
      PROVE  TypeOK'
  <2>1. drive' \in DriveType
    BY <1>4, DriveTypes DEF Nag_Run, StopReplay
  <2>2. Mileage_All' \in Int /\ Run_index' \in Nat /\ Nag_Stop_f' \in 0..1
    BY <1>4 DEF Nag_Run, StopReplay
  <2> QED
    BY <1>4, <2>1, <2>2 DEF Nag_Run
<1> QED
  BY <1>1, <1>2, <1>3, <1>4 DEF Interrupt

\* The main loop.
LEMMA MainLoopType ==
  ASSUME TypeOK, RequestInv, LoopInv, ReadPosition, MainLoop
  PROVE  TypeOK'
<1> USE DEF TypeOK, FlashTypeOK, NTypeOK, ControlTypeOK, ObservationTypeOK, Labels
<1>1. CASE GnssIdle
  BY <1>1, NoLocalsType DEF GnssIdle
<1>2. CASE GnssBegin
  <2>1. buffer' \in BufferType
    BY <1>2 DEF GnssBegin, BufferType
  <2>2. gnssSaves' \in 0..MaxGnssSaves
    BY <1>2, RecorderAssumption DEF GnssBegin
  <2> QED
    BY <1>2, <2>1, <2>2, NoLocalsType DEF GnssBegin
<1>3. CASE GnssErase
  BY <1>3, NoLocalsType DEF GnssErase
<1>4. CASE GnssWrite
  <2>1. local.pos \in Nat /\ local' \in LocalType /\ pc' = pc
    BY <1>4, LocalFields, AdvanceType DEF GnssWrite
  <2>2. local.pos \in Slots
    BY <1>4, <2>1, RecorderAssumption, LayoutAssumption DEF GnssWrite
  <2>3. gnssPage' \in [0..(CacheWords - 1) -> Words \cup {Fix}]
    BY <1>4, <2>2 DEF GnssWrite, BufferType
  <2> QED
    BY <1>4, <2>1, <2>3 DEF GnssWrite
<1>5. CASE GnssDone
  BY <1>5, NoLocalsType, BlankType DEF GnssDone
<1>6. CASE MetaErase
  BY <1>6, BlankType DEF MetaErase
<1>7. CASE MetaWrite
  <2>1. /\ local.path \in Paths /\ local.pos \in Nat
        /\ local.op \in {"NONE", "RECORD", "REPLAY", "CLEAR"}
        /\ local.new \in [Paths -> Nat] /\ local.then \in Labels
    BY LocalFields
  <2>2. meta' \in MetaType
    BY <1>7, <2>1 DEF MetaWrite, MetaType
  <2>3. pc' \in Labels /\ local' \in LocalType
    <3>1. CASE local.pos < NumPaths + 2
      BY <1>7, <2>1, <3>1, AdvanceType DEF MetaWrite
    <3>2. CASE ~(local.pos < NumPaths + 2)
      <4>1. Locals(local.path, local.op, 0, 0) \in LocalType
        BY <2>1, LocalsType
      <4> QED
        BY <1>7, <2>1, <3>2, <4>1 DEF MetaWrite
    <3> QED
      BY <3>1, <3>2
  <2>4. buffer' \in BufferType /\ dirty' \subseteq Paths
    BY <1>7, BlankType DEF MetaWrite
  <2> QED
    BY <1>7, <2>2, <2>3, <2>4 DEF MetaWrite
<1>8. CASE ServiceIdle
  BY <1>8, NoLocalsType DEF ServiceIdle
<1>9. CASE ServiceWrite
  BY <1>9, NoLocalsType DEF ServiceWrite
<1>10. CASE PageErase
  BY <1>10, NoLocalsType, BlankType DEF PageErase
<1>11. CASE PageWrite
  <2>1. local.pos \in Nat /\ local.pos < PointsPerPage /\ buffer \in PageType
    BY <1>11, LocalFields DEF LoopInv, PageWrite
  <2>2. flash' \in [DataPages -> PageType]
    BY <1>11, <2>1, LayoutAssumption DEF PageWrite, PageType
  <2>3. pc' \in Labels /\ local' \in LocalType
    BY <1>11, AdvanceType, NoLocalsType DEF PageWrite
  <2> QED
    BY <1>11, <2>2, <2>3 DEF PageWrite
<1>12. CASE PageDone
  <2>1. ClampSaveIndex(Nag_PathSelect, Save_index) \in Nat
    BY ClampType
  <2> QED
    BY <1>12, <2>1, MetaBeginType, NoLocalsType, BlankType DEF PageDone
<1>13. CASE Finish
  <2>1. ClampSaveIndex(Nag_PathSelect, Save_index) \in Nat
    BY ClampType
  <2>2. /\ pc' \in Labels /\ local' \in LocalType
        /\ buffer' \in BufferType /\ dirty' \subseteq Paths
    BY <1>13, <2>1, MetaBeginType, NoLocalsType, BlankType DEF Finish
  <2>3. /\ size' = 0 /\ End_f' \in 0..3
        /\ Flash_page_index' \in Int
    BY <1>13 DEF Finish, NextPage
  <2>4. Nag_SystemRun_Index' \in RunModes /\ Nag_Stop_f' \in 0..1
    BY <1>13 DEF Finish, NextPage, RunModes
  <2>5. write' \in WriteRequests
    BY <1>13 DEF Finish, NextPage, WriteRequests
  <2> QED
    BY <1>13, <2>2, <2>3, <2>4, <2>5 DEF Finish
<1>14. CASE Finalize
  BY <1>14, NoLocalsType, BlankType DEF Finalize, RunModes, WriteRequests
<1>15. CASE ReadIdle
  BY <1>15, NoLocalsType DEF ReadIdle
<1>16. CASE NagFlashRead
  <2> DEFINE index == MetaValues(meta)[Nag_PathSelect]
  <2>1. index \in Nat
    BY MetaValuesType
  <2> HIDE DEF index
  <2>2. \/ /\ read' = ReadAt(FALSE, read.active, read.page)
           /\ Save_index' = Save_index /\ buffer' = buffer /\ Nav_read' = Nav_read
        \/ /\ read' = ReadAt(FALSE, read.active, read.page)
           /\ Save_index' = index
           /\ buffer' = BlankPage /\ Nav_read' = Nav_read
        \/ /\ read' = [pending |-> FALSE, active |-> TRUE,
                       page |-> StartPage[Nag_PathSelect],
                       count |-> Min2(index, Read_MaxSize)]
           /\ Save_index' = index
           /\ Nav_read' = <<>> /\ buffer' = BlankPage
    BY <1>16 DEF NagFlashRead, index, get_path_start_page
  <2>3. \/ /\ Save_state' = Save_state /\ Nag_SystemRun_Index' = Nag_SystemRun_Index
           /\ Nag_Stop_f' = Nag_Stop_f /\ drive' = drive
        \/ Save_state' = 1 /\ Nag_SystemRun_Index' = "IDLE" /\ StopReplay
    BY <1>16 DEF NagFlashRead
  <2>4. [pending |-> FALSE, active |-> TRUE, page |-> StartPage[Nag_PathSelect],
         count |-> Min2(index, Read_MaxSize)] \in ReadType
    BY <2>1, LayoutAssumption DEF ReadType, Min2
  <2>5. read' \in ReadType
    BY <2>2, <2>4, ReadAtType
  <2>6. /\ Save_index' \in Nat /\ Save_state' \in 0..1
        /\ Nag_SystemRun_Index' \in RunModes /\ Nag_Stop_f' \in 0..1
    <3>1. Save_index' \in Nat
      BY <2>1, <2>2
    <3>2. Save_state' \in 0..1
      BY <2>3
    <3>3. Nag_SystemRun_Index' \in RunModes
      BY <2>3 DEF RunModes
    <3>4. Nag_Stop_f' \in 0..1
      BY <2>3 DEF StopReplay
    <3> QED
      BY <3>1, <3>2, <3>3, <3>4
  <2>7. drive' \in DriveType /\ buffer' \in BufferType /\ Nav_read' \in Seq(Words)
    <3>1. drive' \in DriveType
      BY <2>3, DriveTypes DEF StopReplay
    <3>2. buffer' \in BufferType
      BY <2>2, BlankType
    <3>3. Nav_read' = Nav_read \/ Nav_read' = <<>>
      BY <2>2
    <3>4. Nav_read \in Seq(Words) /\ <<>> \in Seq(Words)
      OBVIOUS
    <3> QED
      BY <3>1, <3>2, <3>3, <3>4, Zenon
  <2>8. /\ pc' \in Labels /\ local' \in LocalType
        /\ UNCHANGED <<Mileage_All, size, Run_index, End_f, Flash_page_index,
                       Nag_PathSelect, flashVars, write, ghosts>>
    BY <1>16, NoLocalsType DEF NagFlashRead
  <2> QED
    BY <2>5, <2>6, <2>7, <2>8
<1>17. CASE ReadNothing
  BY <1>17, NoLocalsType DEF ReadNothing
<1>18. CASE ReadStep
  <2>1. read.count \in Nat /\ flash[read.page] \in PageType
    BY <1>18, ReadAtType, PathPagesAreData DEF ReadStep, ReadPosition
  <2>2. PageShare \in Seq(Words)
    <3> DEFINE n == Min2(PointsPerPage, read.count - Len(Nav_read))
    <3>1. Len(Nav_read) \in Nat
      OBVIOUS
    <3>2. Len(Nav_read) <= read.count
      BY <1>18 DEF ReadStep, ReadPosition, RequestInv
    <3>3. n \in Nat /\ n <= PointsPerPage
      BY <2>1, <3>1, <3>2, LayoutAssumption DEF Min2
    <3> HIDE DEF n
    <3>4. \A i \in 1..n : i - 1 \in Slots
      BY <3>3, LayoutAssumption
    <3>5. \A i \in 1..n : flash[read.page][i - 1] \in Words
      BY <2>1, <3>4 DEF PageType
    <3>6. [i \in 1..n |-> flash[read.page][i - 1]] \in Seq(Words)
      BY <3>3, <3>5
    <3> QED
      BY <3>6 DEF PageShare, n
  <2>3. Nav_read' \in Seq(Words)
    BY <1>18, <2>2 DEF ReadStep
  <2>4. buffer' \in BufferType
    BY <1>18, <2>1, BlankType DEF ReadStep, PageType, BufferType
  <2>5. read' \in ReadType
    BY <1>18, ReadAtType DEF ReadStep
  <2>6. Len(Nav_read') \in Nat
    BY <2>3
  <2>7. Save_index' \in Nat
    BY <1>18, <2>6 DEF ReadStep, LoadedCount
  <2>8. pc' \in Labels /\ local' \in LocalType
    BY <1>18, NoLocalsType DEF ReadStep
  <2> QED
    BY <1>18, <2>3, <2>4, <2>5, <2>7, <2>8 DEF ReadStep
<1>19. CASE ReadDone
  <2>1. drive' \in DriveType
    BY <1>19, DriveTypes DEF ReadDone, StopReplay
  <2>2. NTypeOK'
    BY <1>19 DEF ReadDone, RunModes, StopReplay
  <2> QED
    BY <1>19, <2>1, <2>2, NoLocalsType DEF ReadDone
<1>20. CASE MenuIdle
  BY <1>20, NoLocalsType DEF MenuIdle
<1>21. CASE MenuSave
  BY <1>21, NoLocalsType DEF MenuSave
<1>22. CASE ClearErase
  <2>1. local.path \in Paths /\ local.page \in Nat /\ local.pos \in Nat
    BY LocalFields
  <2>2. pc' = pc /\ local' \in LocalType
    BY <1>22, <2>1, MoveType DEF ClearErase
  <2> QED
    BY <1>22, <2>1, <2>2, BlankType DEF ClearErase
<1>23. CASE ClearMeta
  <2>1. local.path \in Paths
    BY LocalFields
  <2> QED
    BY <1>23, <2>1, MetaBeginType DEF ClearMeta
<1>24. CASE InitFirstHalf
  <2>1. local.path \in Paths
    BY LocalFields
  <2> QED
    BY <1>24, <2>1 DEF InitFirstHalf
<1>25. CASE InitRest
  <2>1. drive' \in DriveType
    BY <1>25, DriveTypes DEF InitRest
  <2>2. local.path \in Paths /\ StartPage[local.path] \in Int
    BY LocalFields, LayoutAssumption
  <2>3. Nag_SystemRun_Index' \in RunModes
    BY <1>25 DEF InitRest, RunModes
  <2>4. Flash_page_index' \in Int /\ Save_state' = 0 /\ End_f' = 0
    BY <1>25, <2>2 DEF InitRest, get_path_start_page
  <2>5. write' \in WriteRequests /\ read' \in ReadType /\ local' \in LocalType
    BY <1>25, NoReadType, NoLocalsType DEF InitRest, WriteRequests
  <2> QED
    BY <1>25, <2>1, <2>3, <2>4, <2>5, BlankType DEF InitRest
<1>26. ASSUME NEW p \in Paths, NEW op \in {"RECORD", "REPLAY", "CLEAR"}, MenuOpen(p, op)
      PROVE  TypeOK'
  <2>1. EndPage[p] \in Nat
    BY LayoutAssumption
  <2>2. Locals(p, op, EndPage[p], 0) \in LocalType
    BY <2>1, LocalsType
  <2> QED
    BY <1>26, <2>2 DEF MenuOpen
<1> QED
  BY <1>1, <1>2, <1>3, <1>4, <1>5, <1>6, <1>7, <1>8, <1>9, <1>10, <1>11,
     <1>12, <1>13, <1>14, <1>15, <1>16, <1>17, <1>18, <1>19, <1>20, <1>21,
     <1>22, <1>23, <1>24, <1>25, <1>26 DEF MainLoop

\* A power loss.
LEMMA PowerLossType ==
  ASSUME TypeOK, PowerLoss
  PROVE  TypeOK'
  BY LayoutAssumption, RecorderAssumption, BlankType, NoLocalsType, NoReadType
  DEF PowerLoss, TypeOK, FlashTypeOK, NTypeOK, ControlTypeOK, ObservationTypeOK,
      PowerUpDrive, DriveType, Labels, RunModes, WriteRequests

-----------------------------------------------------------------------------
(***************************************************************************)
(* The inductive invariant.                                                *)
(***************************************************************************)

USE DEF flashVars, N, requests, main, ghosts, At, Goto, NoLocals, Locals, BlankBuffer

\* The bounds of the selected path and the types of the counters.
LEMMA Typed ==
  ASSUME NagInv
  PROVE  /\ Capacity(Nag_PathSelect) \in Nat /\ Nag_PathSelect \in Paths
         /\ size \in Nat /\ Save_index \in Nat /\ Flash_page_index \in Int
         /\ PointsPerPage \in Nat /\ PointsPerPage > 0
         /\ StartPage[Nag_PathSelect] \in Nat /\ EndPage[Nag_PathSelect] \in Nat
         /\ EndPage[Nag_PathSelect] <= StartPage[Nag_PathSelect]
<1>1. /\ Nag_PathSelect \in Paths
      /\ size \in Nat /\ Save_index \in Nat /\ Flash_page_index \in Int
  BY DEF NagInv, TypeOK, NTypeOK
<1>2. \A p \in Paths : /\ StartPage[p] \in Nat /\ EndPage[p] \in Nat
                       /\ EndPage[p] <= StartPage[p]
  BY LayoutAssumption DEF Paths
<1>3. PointsPerPage \in Nat /\ PointsPerPage > 0
  BY LayoutAssumption
<1> QED
  BY <1>1, <1>2, <1>3, CapacityType

\* nag_flash_read_step copies no more words than are left to read.
LEMMA LoadedLength ==
  ASSUME Nav_read \in Seq(Words), read.count \in Nat, Len(Nav_read) <= read.count
  PROVE  Len(Nav_read \o PageShare) <= read.count
<1> DEFINE n == Min2(PointsPerPage, read.count - Len(Nav_read))
           word(i) == flash[read.page][i - 1]
           S == Words \cup {word(i) : i \in 1..n}
<1>1. n \in Nat /\ n <= read.count - Len(Nav_read)
  BY LayoutAssumption DEF Min2
<1>2. \A i \in 1..n : word(i) \in S
  OBVIOUS
<1>3. PageShare = [i \in 1..n |-> word(i)]
  BY DEF PageShare
<1>4. Nav_read \in Seq(S)
  OBVIOUS
<1> HIDE DEF n, word, S
<1>5. PageShare \in Seq(S) /\ Len(PageShare) = n
  BY <1>1, <1>2, <1>3
<1> QED
  BY <1>1, <1>4, <1>5

\* Two facts of arithmetic.
LEMMA DistributeOne ==
  ASSUME NEW a \in Int, NEW b \in Int
  PROVE  (a + 1) * b = a * b + b
  OBVIOUS

LEMMA CancelFactor ==
  ASSUME NEW a \in Int, NEW c \in Int, NEW b \in Nat \ {0}, a * b < c * b
  PROVE  a < c
  OBVIOUS

\* Requests are made and served in the mode they belong to.
LEMMA RequestStep ==
  ASSUME NagInv, [Next]_vars
  PROVE  RequestInv'
<1> USE DEF RequestInv, NagInv, TypeOK, NTypeOK, ControlTypeOK
<1>1. ASSUME WindowOpen, NEW d \in TickSteps, NEW yaw \in Yaws,
             Run_Nag_Save(d, yaw)
      PROVE  RequestInv'
  BY <1>1 DEF Run_Nag_Save, SampleDue, WriteCalledFor, Running, RequestWrite
<1>2. CASE EndRecording
  BY <1>2 DEF EndRecording, Running, RequestWrite
<1>3. CASE RequestRead
  BY <1>3 DEF RequestRead, Running, ReadAt
<1>4. ASSUME NEW d \in TickSteps, Nag_Run(d)
      PROVE  RequestInv'
  BY <1>4 DEF Nag_Run, Running
<1>5. CASE GnssIdle
  BY <1>5 DEF GnssIdle
<1>6. CASE GnssBegin
  BY <1>6 DEF GnssBegin
<1>7. CASE GnssErase
  BY <1>7 DEF GnssErase
<1>8. CASE GnssWrite
  BY <1>8 DEF GnssWrite, Advance, Move
<1>9. CASE GnssDone
  BY <1>9 DEF GnssDone
<1>10. CASE MetaErase
  BY <1>10 DEF MetaErase
<1>11. CASE MetaWrite
  BY <1>11, LocalFields DEF MetaWrite, Advance, Move
<1>12. CASE ServiceIdle
  BY <1>12 DEF ServiceIdle, WritePending
<1>13. CASE ServiceWrite
  BY <1>13 DEF ServiceWrite, WritePending
<1>14. CASE PageErase
  BY <1>14 DEF PageErase
<1>15. CASE PageWrite
  BY <1>15 DEF PageWrite, Advance, Move
<1>16. CASE PageDone
  BY <1>16 DEF PageDone, MetaBegin
<1>17. CASE Finish
  BY <1>17 DEF Finish, MetaBegin, NextPage
<1>18. CASE Finalize
  BY <1>18 DEF Finalize
<1>19. CASE ReadIdle
  BY <1>19 DEF ReadIdle
<1>20. CASE NagFlashRead
  BY <1>20 DEF NagFlashRead, ReadAt, StopReplay, get_path_start_page
<1>21. CASE ReadNothing
  BY <1>21 DEF ReadNothing
<1>22. CASE ReadStep
  BY <1>22 DEF ReadStep, ReadAt, LoadedCount
<1>23. CASE ReadDone
  BY <1>23 DEF ReadDone, StopReplay
<1>24. CASE MenuIdle
  BY <1>24 DEF MenuIdle
<1>25. CASE MenuSave
  BY <1>25 DEF MenuSave
<1>26. CASE ClearErase
  BY <1>26 DEF ClearErase, Move
<1>27. CASE ClearMeta
  BY <1>27 DEF ClearMeta, MetaBegin
<1>28. CASE InitFirstHalf
  BY <1>28 DEF InitFirstHalf
<1>29. CASE InitRest
  BY <1>29 DEF InitRest, NoRead, get_path_start_page
<1>30. ASSUME NEW p \in Paths, NEW op \in {"RECORD", "REPLAY", "CLEAR"}, MenuOpen(p, op)
      PROVE  RequestInv'
  BY <1>30 DEF MenuOpen, Locals
<1>31. CASE PowerLoss
  BY <1>31 DEF PowerLoss, NoRead
<1>32. CASE UNCHANGED vars
  BY <1>32 DEF vars
<1> QED
  BY <1>1, <1>2, <1>3, <1>4, <1>5, <1>6, <1>7, <1>8, <1>9, <1>10, <1>11,
     <1>12, <1>13, <1>14, <1>15, <1>16, <1>17, <1>18, <1>19, <1>20, <1>21,
     <1>22, <1>23, <1>24, <1>25, <1>26, <1>27, <1>28, <1>29, <1>30, <1>31,
     <1>32 DEF Next, Interrupt, MainLoop

\* The buffer index and the save index keep their bounds.
LEMMA BoundsStep ==
  ASSUME NagInv, [Next]_vars
  PROVE  RecorderInBounds'
<1> USE DEF RecorderInBounds, NagInv
<1>1. ASSUME WindowOpen, NEW d \in TickSteps, NEW yaw \in Yaws,
             Run_Nag_Save(d, yaw)
      PROVE  RecorderInBounds'
  BY <1>1, Typed DEF Run_Nag_Save, SampleDue, WriteCalledFor, Running, RequestWrite
<1>2. CASE EndRecording
  BY <1>2, Typed DEF EndRecording, Running, RequestWrite
<1>3. CASE RequestRead
  BY <1>3, Typed DEF RequestRead, Running, ReadAt
<1>4. ASSUME NEW d \in TickSteps, Nag_Run(d)
      PROVE  RecorderInBounds'
  BY <1>4, Typed DEF Nag_Run, Running
<1>5. CASE GnssIdle
  BY <1>5, Typed DEF GnssIdle
<1>6. CASE GnssBegin
  BY <1>6, Typed DEF GnssBegin
<1>7. CASE GnssErase
  BY <1>7, Typed DEF GnssErase
<1>8. CASE GnssWrite
  BY <1>8, Typed DEF GnssWrite, Advance, Move
<1>9. CASE GnssDone
  BY <1>9, Typed DEF GnssDone
<1>10. CASE MetaErase
  BY <1>10, Typed DEF MetaErase
<1>11. CASE MetaWrite
  BY <1>11, Typed DEF MetaWrite, Advance, Move, Locals
<1>12. CASE ServiceIdle
  BY <1>12, Typed DEF ServiceIdle, WritePending
<1>13. CASE ServiceWrite
  BY <1>13, Typed DEF ServiceWrite, WritePending
<1>14. CASE PageErase
  BY <1>14, Typed DEF PageErase
<1>15. CASE PageWrite
  BY <1>15, Typed DEF PageWrite, Advance, Move
<1>16. CASE PageDone
  BY <1>16, Typed DEF PageDone, MetaBegin
<1>17. CASE Finish
  BY <1>17, Typed DEF Finish, MetaBegin, NextPage
<1>18. CASE Finalize
  BY <1>18, Typed DEF Finalize
<1>19. CASE ReadIdle
  BY <1>19, Typed DEF ReadIdle
<1>20. CASE NagFlashRead
  <2>1. MetaValues(meta)[Nag_PathSelect] <= Capacity(Nag_PathSelect)
    BY Typed, MetaValuesType DEF TypeOK, FlashTypeOK
  <2>2. size' = size /\ Nag_PathSelect' = Nag_PathSelect
    BY <1>20 DEF NagFlashRead
  <2>3. Save_index' = Save_index \/ Save_index' = MetaValues(meta)[Nag_PathSelect]
    BY <1>20 DEF NagFlashRead
  <2> QED
    BY <2>1, <2>2, <2>3
<1>21. CASE ReadNothing
  BY <1>21, Typed DEF ReadNothing
<1>22. CASE ReadStep
  <2>1. /\ Len(Nav_read) <= read.count /\ read.count <= Capacity(Nag_PathSelect)
        /\ Nav_read \in Seq(Words) /\ read.count \in Nat
    BY <1>22, ReadAtType DEF ReadStep, ReadPosition, RequestInv, TypeOK, ControlTypeOK
  <2>2. Len(Nav_read') <= read.count
    BY <1>22, <2>1, LoadedLength DEF ReadStep
  <2>3. Save_index' = Save_index \/ Save_index' = Len(Nav_read')
    BY <1>22 DEF ReadStep, LoadedCount
  <2>4. size' = size /\ Nag_PathSelect' = Nag_PathSelect
    BY <1>22 DEF ReadStep
  <2>5. Save_index' <= Capacity(Nag_PathSelect)
    BY <2>1, <2>2, <2>3, <2>4, Typed
  <2> QED
    BY <2>4, <2>5
<1>23. CASE ReadDone
  BY <1>23, Typed DEF ReadDone, StopReplay
<1>24. CASE MenuIdle
  BY <1>24, Typed DEF MenuIdle
<1>25. CASE MenuSave
  BY <1>25, Typed DEF MenuSave
<1>26. CASE ClearErase
  BY <1>26, Typed DEF ClearErase, Move
<1>27. CASE ClearMeta
  BY <1>27, Typed DEF ClearMeta, MetaBegin
<1>28. CASE InitFirstHalf
  <2>1. Capacity(local.path) \in Nat
    BY LocalFields, CapacityType DEF TypeOK, ControlTypeOK
  <2> QED
    BY <1>28, <2>1, Typed DEF InitFirstHalf
<1>29. CASE InitRest
  BY <1>29, Typed DEF InitRest, NoRead, get_path_start_page
<1>30. ASSUME NEW p \in Paths, NEW op \in {"RECORD", "REPLAY", "CLEAR"}, MenuOpen(p, op)
      PROVE  RecorderInBounds'
  BY <1>30, Typed DEF MenuOpen, Locals
<1>31. CASE PowerLoss
  <2>1. Capacity(1) \in Nat
    BY CapacityType, LayoutAssumption DEF Paths
  <2> QED
    BY <1>31, <2>1, Typed DEF PowerLoss
<1>32. CASE UNCHANGED vars
  BY <1>32, Typed DEF vars
<1> QED
  BY <1>1, <1>2, <1>3, <1>4, <1>5, <1>6, <1>7, <1>8, <1>9, <1>10, <1>11,
     <1>12, <1>13, <1>14, <1>15, <1>16, <1>17, <1>18, <1>19, <1>20, <1>21,
     <1>22, <1>23, <1>24, <1>25, <1>26, <1>27, <1>28, <1>29, <1>30, <1>31,
     <1>32 DEF Next, Interrupt, MainLoop

\* What the main loop holds at the steps of a loop.
LEMMA LoopStep ==
  ASSUME NagInv, [Next]_vars
  PROVE  LoopInv'
<1> USE DEF LoopInv, NagInv
<1>1. ASSUME WindowOpen, NEW d \in TickSteps, NEW yaw \in Yaws,
             Run_Nag_Save(d, yaw)
      PROVE  LoopInv'
  <2>1. pc' = pc /\ UNCHANGED <<local, Nag_PathSelect, Run_index>>
    BY <1>1 DEF Run_Nag_Save
  <2>2. At("initRest") => size' = size /\ Save_index' = Save_index
    BY <1>1, RecorderAssumption, Typed DEF Run_Nag_Save, SampleDue, WindowOpen
  <2>3. buffer \in PageType => buffer' \in PageType
    BY <1>1 DEF Run_Nag_Save, SampleDue, PageType, Words
  <2> QED
    BY <2>1, <2>2, <2>3
<1>2. CASE EndRecording
  BY <1>2, BlankType DEF EndRecording, Running, RequestWrite
<1>3. CASE RequestRead
  BY <1>3, BlankType DEF RequestRead, Running, ReadAt
<1>4. ASSUME NEW d \in TickSteps, Nag_Run(d)
      PROVE  LoopInv'
  <2>1. At("initRest") => Save_index < 2
    BY DEF LoopInv
  <2> QED
    BY <1>4, <2>1 DEF Nag_Run
<1>5. CASE GnssIdle
  BY <1>5, BlankType DEF GnssIdle
<1>6. CASE GnssBegin
  BY <1>6, BlankType DEF GnssBegin
<1>7. CASE GnssErase
  BY <1>7, BlankType DEF GnssErase
<1>8. CASE GnssWrite
  BY <1>8, BlankType DEF GnssWrite, Advance, Move
<1>9. CASE GnssDone
  BY <1>9, BlankType DEF GnssDone
<1>10. CASE MetaErase
  BY <1>10, BlankType DEF MetaErase
<1>11. CASE MetaWrite
  <2>1. local.then \notin {"pageWrite", "initRest", "clearErase"}
    BY LocalFields DEF TypeOK, ControlTypeOK
  <2> QED
    BY <1>11, <2>1, BlankType DEF MetaWrite, Advance, Move
<1>12. CASE ServiceIdle
  BY <1>12, BlankType DEF ServiceIdle, WritePending
<1>13. CASE ServiceWrite
  BY <1>13, BlankType DEF ServiceWrite, WritePending
<1>14. CASE PageErase
  BY <1>14, Typed DEF PageErase
<1>15. CASE PageWrite
  BY <1>15, BlankType DEF PageWrite, Advance, Move
<1>16. CASE PageDone
  BY <1>16, BlankType DEF PageDone, MetaBegin
<1>17. CASE Finish
  BY <1>17, BlankType DEF Finish, MetaBegin, NextPage
<1>18. CASE Finalize
  BY <1>18, BlankType DEF Finalize
<1>19. CASE ReadIdle
  BY <1>19, BlankType DEF ReadIdle
<1>20. CASE NagFlashRead
  BY <1>20, BlankType DEF NagFlashRead, ReadAt, StopReplay, get_path_start_page
<1>21. CASE ReadNothing
  BY <1>21, BlankType DEF ReadNothing
<1>22. CASE ReadStep
  <2>1. flash[read.page] \in PageType
    BY <1>22, PathPagesAreData, Typed DEF ReadStep, ReadPosition, TypeOK, FlashTypeOK
  <2> QED
    BY <1>22, <2>1, BlankType DEF ReadStep
<1>23. CASE ReadDone
  BY <1>23, BlankType DEF ReadDone, StopReplay
<1>24. CASE MenuIdle
  BY <1>24, BlankType DEF MenuIdle
<1>25. CASE MenuSave
  BY <1>25, BlankType DEF MenuSave
<1>26. CASE ClearErase
  <2>1. local.path \in Paths /\ local.page \in Nat /\ EndPage[local.path] \in Nat
    BY LocalFields, LayoutAssumption DEF TypeOK, ControlTypeOK, Paths
  <2> QED
    BY <1>26, <2>1, BlankType DEF ClearErase, Move
<1>27. CASE ClearMeta
  BY <1>27, BlankType DEF ClearMeta, MetaBegin
<1>28. CASE InitFirstHalf
  BY <1>28, BlankType DEF InitFirstHalf
<1>29. CASE InitRest
  BY <1>29, BlankType DEF InitRest, NoRead, get_path_start_page
<1>30. ASSUME NEW p \in Paths, NEW op \in {"RECORD", "REPLAY", "CLEAR"}, MenuOpen(p, op)
      PROVE  LoopInv'
  <2>1. EndPage[p] \in Nat
    BY LayoutAssumption DEF Paths
  <2> QED
    BY <1>30, <2>1 DEF MenuOpen
<1>31. CASE PowerLoss
  BY <1>31, BlankType DEF PowerLoss, NoRead
<1>32. CASE UNCHANGED vars
  BY <1>32, BlankType DEF vars
<1> QED
  BY <1>1, <1>2, <1>3, <1>4, <1>5, <1>6, <1>7, <1>8, <1>9, <1>10, <1>11,
     <1>12, <1>13, <1>14, <1>15, <1>16, <1>17, <1>18, <1>19, <1>20, <1>21,
     <1>22, <1>23, <1>24, <1>25, <1>26, <1>27, <1>28, <1>29, <1>30, <1>31,
     <1>32 DEF Next, Interrupt, MainLoop

\* The recorder's place on its path is kept, across the page change in particular.
LEMMA PositionStep ==
  ASSUME NagInv, RequestInv', [Next]_vars
  PROVE  RecordPosition'
<1> USE DEF RecordPosition, NagInv, RequestInv
<1>1. ASSUME WindowOpen, NEW d \in TickSteps, NEW yaw \in Yaws,
             Run_Nag_Save(d, yaw)
      PROVE  RecordPosition'
  <2> DEFINE base == (StartPage[Nag_PathSelect] - Flash_page_index) * PointsPerPage
  <2>1. SUFFICES ASSUME ~At("initRest"), ~At("finalize")
                 PROVE  /\ Flash_page_index \in PathPages(Nag_PathSelect)
                        /\ Save_index' = base + size'
                        /\ write' = "PAGE" =>
                             /\ size' = PointsPerPage
                             /\ Save_index' < Capacity(Nag_PathSelect)
    BY <1>1 DEF Run_Nag_Save
  <2>2. /\ Flash_page_index \in PathPages(Nag_PathSelect)
        /\ Save_index = base + size
        /\ write = "PAGE" => size = PointsPerPage /\ Save_index < Capacity(Nag_PathSelect)
    BY <1>1, <2>1 DEF Run_Nag_Save, Running
  <2>3. base \in Int
    BY Typed
  <2> HIDE DEF base
  <2>4. Save_index' = base + size'
    BY <1>1, <2>2, <2>3, Typed DEF Run_Nag_Save
  <2>5. size' <= PointsPerPage
    BY <1>1, Typed DEF Run_Nag_Save, SampleDue, RecorderInBounds
  <2>6. write' = "PAGE" => /\ size' = PointsPerPage
                          /\ Save_index' < Capacity(Nag_PathSelect)
    <3>1. CASE write = "NONE"
      BY <1>1, <2>5, <3>1, Typed DEF Run_Nag_Save, WriteCalledFor, RequestWrite
    <3>2. CASE write # "NONE"
      BY <1>1, <2>2, <3>2, Typed DEF Run_Nag_Save, SampleDue, RequestWrite
    <3> QED
      BY <3>1, <3>2
  <2> QED
    BY <2>2, <2>4, <2>6
<1>2. CASE EndRecording
  BY <1>2, Typed DEF EndRecording, Running, RequestWrite
<1>3. CASE RequestRead
  BY <1>3, Typed DEF RequestRead, Running, ReadAt
<1>4. ASSUME NEW d \in TickSteps, Nag_Run(d)
      PROVE  RecordPosition'
  BY <1>4, Typed DEF Nag_Run, Running
<1>5. CASE GnssIdle
  BY <1>5, Typed DEF GnssIdle
<1>6. CASE GnssBegin
  BY <1>6, Typed DEF GnssBegin
<1>7. CASE GnssErase
  BY <1>7, Typed DEF GnssErase
<1>8. CASE GnssWrite
  BY <1>8, Typed DEF GnssWrite, Advance, Move
<1>9. CASE GnssDone
  BY <1>9, Typed DEF GnssDone
<1>10. CASE MetaErase
  BY <1>10, Typed DEF MetaErase
<1>11. CASE MetaWrite
  BY <1>11, Typed DEF MetaWrite, Advance, Move, Locals
<1>12. CASE ServiceIdle
  BY <1>12, Typed DEF ServiceIdle, WritePending
<1>13. CASE ServiceWrite
  BY <1>13, Typed DEF ServiceWrite, WritePending
<1>14. CASE PageErase
  BY <1>14, Typed DEF PageErase
<1>15. CASE PageWrite
  BY <1>15, Typed DEF PageWrite, Advance, Move
<1>16. CASE PageDone
  BY <1>16, Typed DEF PageDone, MetaBegin
<1>17. CASE Finish
  <2>1. CASE write = "FINAL"
    BY <1>17, <2>1 DEF Finish
  <2>2. CASE write # "FINAL" /\ Flash_page_index <= EndPage[Nag_PathSelect]
    BY <1>17, <2>2 DEF Finish
  <2>3. CASE write # "FINAL" /\ ~(Flash_page_index <= EndPage[Nag_PathSelect])
    <3> DEFINE above == StartPage[Nag_PathSelect] - Flash_page_index
    <3>1. /\ Flash_page_index \in PathPages(Nag_PathSelect)
          /\ Save_index = above * PointsPerPage + PointsPerPage
      BY <1>17, <2>3 DEF Finish, RecordPosition, TypeOK, ControlTypeOK, WriteRequests
    <3>2. /\ Flash_page_index' = Flash_page_index - 1 /\ size' = 0 /\ write' = "NONE"
          /\ Save_index' = Save_index /\ Nag_PathSelect' = Nag_PathSelect
      BY <1>17, <2>3 DEF Finish, NextPage
    <3>3. Flash_page_index' \in PathPages(Nag_PathSelect)
      BY <2>3, <3>1, <3>2, Typed DEF PathPages
    <3>4. StartPage[Nag_PathSelect] - (Flash_page_index - 1) = above + 1
      BY Typed
    <3>5. above \in Int /\ PointsPerPage \in Int
      BY Typed
    <3> HIDE DEF above
    <3>6. (above + 1) * PointsPerPage = above * PointsPerPage + PointsPerPage
      BY <3>5, DistributeOne
    <3>7. above * PointsPerPage \in Int
      BY <3>5
    <3>8. Save_index' = (StartPage[Nag_PathSelect] - Flash_page_index') * PointsPerPage + size'
      BY <3>1, <3>2, <3>4, <3>6, <3>7, Typed
    <3> QED
      BY <3>2, <3>3, <3>8
  <2> QED
    BY <2>1, <2>2, <2>3
<1>18. CASE Finalize
  BY <1>18, Typed DEF Finalize
<1>19. CASE ReadIdle
  BY <1>19, Typed DEF ReadIdle
<1>20. CASE NagFlashRead
  BY <1>20, Typed DEF NagFlashRead, ReadAt, StopReplay, get_path_start_page
<1>21. CASE ReadNothing
  BY <1>21, Typed DEF ReadNothing
<1>22. CASE ReadStep
  BY <1>22, Typed DEF ReadStep, ReadAt, LoadedCount
<1>23. CASE ReadDone
  BY <1>23, Typed DEF ReadDone, StopReplay
<1>24. CASE MenuIdle
  BY <1>24, Typed DEF MenuIdle
<1>25. CASE MenuSave
  BY <1>25, Typed DEF MenuSave
<1>26. CASE ClearErase
  BY <1>26, Typed DEF ClearErase, Move
<1>27. CASE ClearMeta
  BY <1>27, Typed DEF ClearMeta, MetaBegin
<1>28. CASE InitFirstHalf
  BY <1>28, Typed DEF InitFirstHalf
<1>29. CASE InitRest
  <2>1. /\ Nag_PathSelect' = Nag_PathSelect /\ size' = 0 /\ Save_index' = 0
        /\ Flash_page_index' = StartPage[Nag_PathSelect] /\ write' = "NONE"
    BY <1>29 DEF InitRest, LoopInv, get_path_start_page
  <2>2. Flash_page_index' \in PathPages(Nag_PathSelect')
    BY <2>1, Typed DEF PathPages
  <2>3. (StartPage[Nag_PathSelect] - Flash_page_index') * PointsPerPage = 0
    BY <2>1, Typed
  <2> QED
    BY <2>1, <2>2, <2>3, Typed
<1>30. ASSUME NEW p \in Paths, NEW op \in {"RECORD", "REPLAY", "CLEAR"}, MenuOpen(p, op)
      PROVE  RecordPosition'
  BY <1>30, Typed DEF MenuOpen, Locals
<1>31. CASE PowerLoss
  BY <1>31, Typed DEF PowerLoss, NoRead
<1>32. CASE UNCHANGED vars
  BY <1>32, Typed DEF vars
<1> QED
  BY <1>1, <1>2, <1>3, <1>4, <1>5, <1>6, <1>7, <1>8, <1>9, <1>10, <1>11,
     <1>12, <1>13, <1>14, <1>15, <1>16, <1>17, <1>18, <1>19, <1>20, <1>21,
     <1>22, <1>23, <1>24, <1>25, <1>26, <1>27, <1>28, <1>29, <1>30, <1>31,
     <1>32 DEF Next, Interrupt, MainLoop

\* The read's place on its path is kept.
LEMMA ReadingStep ==
  ASSUME NagInv, [Next]_vars
  PROVE  ReadPosition'
<1> USE DEF ReadPosition, NagInv, TypeOK, NTypeOK, ControlTypeOK, RequestInv
<1>1. ASSUME WindowOpen, NEW d \in TickSteps, NEW yaw \in Yaws,
             Run_Nag_Save(d, yaw)
      PROVE  ReadPosition'
  BY <1>1 DEF Run_Nag_Save, SampleDue, WriteCalledFor, Running, RequestWrite
<1>2. CASE EndRecording
  BY <1>2 DEF EndRecording, Running, RequestWrite
<1>3. CASE RequestRead
  BY <1>3 DEF RequestRead, Running, ReadAt
<1>4. ASSUME NEW d \in TickSteps, Nag_Run(d)
      PROVE  ReadPosition'
  BY <1>4 DEF Nag_Run, Running
<1>5. CASE GnssIdle
  BY <1>5 DEF GnssIdle
<1>6. CASE GnssBegin
  BY <1>6 DEF GnssBegin
<1>7. CASE GnssErase
  BY <1>7 DEF GnssErase
<1>8. CASE GnssWrite
  BY <1>8 DEF GnssWrite, Advance, Move
<1>9. CASE GnssDone
  BY <1>9 DEF GnssDone
<1>10. CASE MetaErase
  BY <1>10 DEF MetaErase
<1>11. CASE MetaWrite
  BY <1>11 DEF MetaWrite, Advance, Move, Locals
<1>12. CASE ServiceIdle
  BY <1>12 DEF ServiceIdle, WritePending
<1>13. CASE ServiceWrite
  BY <1>13 DEF ServiceWrite, WritePending
<1>14. CASE PageErase
  BY <1>14 DEF PageErase
<1>15. CASE PageWrite
  BY <1>15 DEF PageWrite, Advance, Move
<1>16. CASE PageDone
  BY <1>16 DEF PageDone, MetaBegin
<1>17. CASE Finish
  BY <1>17 DEF Finish, MetaBegin, NextPage
<1>18. CASE Finalize
  BY <1>18 DEF Finalize
<1>19. CASE ReadIdle
  BY <1>19 DEF ReadIdle
<1>20. CASE NagFlashRead
  <2> DEFINE index == MetaValues(meta)[Nag_PathSelect]
  <2>1. index \in Nat /\ index <= Capacity(Nag_PathSelect)
    BY Typed, MetaValuesType DEF FlashTypeOK
  <2>2. ~read.active /\ Nag_PathSelect' = Nag_PathSelect
    BY <1>20 DEF NagFlashRead
  <2>3. Min2(index, Read_MaxSize) <= Capacity(Nag_PathSelect) /\ 0 <= Min2(index, Read_MaxSize)
    BY <2>1, Typed, LayoutAssumption DEF Min2
  <2>4. StartPage[Nag_PathSelect] \in PathPages(Nag_PathSelect)
    BY Typed DEF PathPages
  <2> HIDE DEF index
  <2>5. \/ read' = ReadAt(FALSE, read.active, read.page)
        \/ /\ read' = [pending |-> FALSE, active |-> TRUE,
                       page |-> StartPage[Nag_PathSelect],
                       count |-> Min2(index, Read_MaxSize)]
           /\ Nav_read' = <<>>
    BY <1>20 DEF NagFlashRead, index, get_path_start_page
  <2>6. CASE read' = ReadAt(FALSE, read.active, read.page)
    BY <2>2, <2>6 DEF ReadAt
  <2>7. CASE /\ read' = [pending |-> FALSE, active |-> TRUE,
                        page |-> StartPage[Nag_PathSelect],
                        count |-> Min2(index, Read_MaxSize)]
             /\ Nav_read' = <<>>
    BY <2>2, <2>3, <2>4, <2>7
  <2> QED
    BY <2>5, <2>6, <2>7
<1>21. CASE ReadNothing
  BY <1>21 DEF ReadNothing
<1>22. CASE ReadStep
  <2>1. /\ read.page \in PathPages(Nag_PathSelect)
        /\ Len(Nav_read) <= read.count /\ read.count <= Capacity(Nag_PathSelect)
        /\ Nav_read \in Seq(Words) /\ read.count \in Nat
    BY <1>22, ReadAtType DEF ReadStep
  <2>2. Len(Nav_read') <= read.count
    BY <1>22, <2>1, LoadedLength DEF ReadStep
  <2>3. Nag_PathSelect' = Nag_PathSelect
    BY <1>22 DEF ReadStep
  <2>4. \/ read' = ReadAt(read.pending, FALSE, read.page)
        \/ read' = read
        \/ /\ read' = ReadAt(read.pending, TRUE, read.page - 1)
           /\ read.page > EndPage[Nag_PathSelect]
    BY <1>22 DEF ReadStep
  <2>5. CASE read' = ReadAt(read.pending, FALSE, read.page)
    BY <2>5 DEF ReadAt
  <2>6. CASE read' = read
    BY <2>1, <2>2, <2>3, <2>6
  <2>7. CASE /\ read' = ReadAt(read.pending, TRUE, read.page - 1)
             /\ read.page > EndPage[Nag_PathSelect]
    <3>1. read.page - 1 \in PathPages(Nag_PathSelect)
      BY <2>1, <2>7, Typed DEF PathPages
    <3>2. read'.page = read.page - 1 /\ read'.count = read.count
      BY <2>7 DEF ReadAt
    <3> QED
      BY <2>1, <2>2, <2>3, <3>1, <3>2
  <2> QED
    BY <2>4, <2>5, <2>6, <2>7
<1>23. CASE ReadDone
  BY <1>23 DEF ReadDone, StopReplay
<1>24. CASE MenuIdle
  BY <1>24 DEF MenuIdle
<1>25. CASE MenuSave
  BY <1>25 DEF MenuSave
<1>26. CASE ClearErase
  BY <1>26 DEF ClearErase, Move
<1>27. CASE ClearMeta
  BY <1>27 DEF ClearMeta, MetaBegin
<1>28. CASE InitFirstHalf
  BY <1>28 DEF InitFirstHalf
<1>29. CASE InitRest
  BY <1>29 DEF InitRest, NoRead, get_path_start_page
<1>30. ASSUME NEW p \in Paths, NEW op \in {"RECORD", "REPLAY", "CLEAR"}, MenuOpen(p, op)
      PROVE  ReadPosition'
  BY <1>30 DEF MenuOpen, Locals
<1>31. CASE PowerLoss
  BY <1>31 DEF PowerLoss, NoRead
<1>32. CASE UNCHANGED vars
  BY <1>32 DEF vars
<1> QED
  BY <1>1, <1>2, <1>3, <1>4, <1>5, <1>6, <1>7, <1>8, <1>9, <1>10, <1>11,
     <1>12, <1>13, <1>14, <1>15, <1>16, <1>17, <1>18, <1>19, <1>20, <1>21,
     <1>22, <1>23, <1>24, <1>25, <1>26, <1>27, <1>28, <1>29, <1>30, <1>31,
     <1>32 DEF Next, Interrupt, MainLoop

\* A replay keeps the points it was started with.
LEMMA ReplayStep ==
  ASSUME NagInv, [Next]_vars
  PROVE  ReplayPosition'
<1> USE DEF ReplayPosition, NagInv, RequestInv
<1>1. ASSUME WindowOpen, NEW d \in TickSteps, NEW yaw \in Yaws,
             Run_Nag_Save(d, yaw)
      PROVE  ReplayPosition'
  BY <1>1 DEF Run_Nag_Save, SampleDue, WriteCalledFor, Running, RequestWrite
<1>2. CASE EndRecording
  BY <1>2 DEF EndRecording, Running, RequestWrite
<1>3. CASE RequestRead
  BY <1>3 DEF RequestRead, Running, ReadAt
<1>4. ASSUME NEW d \in TickSteps, Nag_Run(d)
      PROVE  ReplayPosition'
  BY <1>4 DEF Nag_Run, Running
<1>5. CASE GnssIdle
  BY <1>5 DEF GnssIdle
<1>6. CASE GnssBegin
  BY <1>6 DEF GnssBegin
<1>7. CASE GnssErase
  BY <1>7 DEF GnssErase
<1>8. CASE GnssWrite
  BY <1>8 DEF GnssWrite, Advance, Move
<1>9. CASE GnssDone
  BY <1>9 DEF GnssDone
<1>10. CASE MetaErase
  BY <1>10 DEF MetaErase
<1>11. CASE MetaWrite
  BY <1>11, LocalFields DEF MetaWrite, Advance, Move, TypeOK, ControlTypeOK
<1>12. CASE ServiceIdle
  BY <1>12 DEF ServiceIdle, WritePending
<1>13. CASE ServiceWrite
  BY <1>13 DEF ServiceWrite, WritePending
<1>14. CASE PageErase
  BY <1>14 DEF PageErase
<1>15. CASE PageWrite
  BY <1>15 DEF PageWrite, Advance, Move
<1>16. CASE PageDone
  BY <1>16 DEF PageDone, MetaBegin
<1>17. CASE Finish
  BY <1>17 DEF Finish, MetaBegin, NextPage
<1>18. CASE Finalize
  BY <1>18 DEF Finalize
<1>19. CASE ReadIdle
  BY <1>19 DEF ReadIdle
<1>20. CASE NagFlashRead
  BY <1>20 DEF NagFlashRead, ReadAt, StopReplay, get_path_start_page
<1>21. CASE ReadNothing
  BY <1>21 DEF ReadNothing
<1>22. CASE ReadStep
  BY <1>22 DEF ReadStep, ReadAt, LoadedCount
<1>23. CASE ReadDone
  BY <1>23 DEF ReadDone, StopReplay
<1>24. CASE MenuIdle
  BY <1>24 DEF MenuIdle
<1>25. CASE MenuSave
  BY <1>25 DEF MenuSave
<1>26. CASE ClearErase
  BY <1>26 DEF ClearErase, Move
<1>27. CASE ClearMeta
  BY <1>27 DEF ClearMeta, MetaBegin
<1>28. CASE InitFirstHalf
  BY <1>28 DEF InitFirstHalf
<1>29. CASE InitRest
  BY <1>29 DEF InitRest, NoRead, get_path_start_page
<1>30. ASSUME NEW p \in Paths, NEW op \in {"RECORD", "REPLAY", "CLEAR"}, MenuOpen(p, op)
      PROVE  ReplayPosition'
  BY <1>30 DEF MenuOpen, Locals
<1>31. CASE PowerLoss
  BY <1>31 DEF PowerLoss, NoRead
<1>32. CASE UNCHANGED vars
  BY <1>32 DEF vars
<1> QED
  BY <1>1, <1>2, <1>3, <1>4, <1>5, <1>6, <1>7, <1>8, <1>9, <1>10, <1>11,
     <1>12, <1>13, <1>14, <1>15, <1>16, <1>17, <1>18, <1>19, <1>20, <1>21,
     <1>22, <1>23, <1>24, <1>25, <1>26, <1>27, <1>28, <1>29, <1>30, <1>31,
     <1>32 DEF Next, Interrupt, MainLoop

-----------------------------------------------------------------------------
(***************************************************************************)
(* The invariant and what follows from it.                                 *)
(***************************************************************************)

LEMMA InitInv == Init => NagInv
<1> SUFFICES ASSUME Init PROVE NagInv
  OBVIOUS
<1>1. TypeOK
  BY InitType
<1>2. RequestInv
  BY DEF Init, RequestInv, NoRead
<1>3. LoopInv
  BY BlankType DEF Init, LoopInv
<1>4. RecorderInBounds
  <2>1. PointsPerPage \in Nat /\ Capacity(1) \in Nat
    BY LayoutAssumption, CapacityType DEF Paths
  <2> QED
    BY <2>1 DEF Init, RecorderInBounds
<1>5. RecordPosition /\ ReplayPosition
  BY DEF Init, RecordPosition, ReplayPosition
<1>6. ReadPosition
  BY DEF Init, ReadPosition, NoRead
<1> QED
  BY <1>1, <1>2, <1>3, <1>4, <1>5, <1>6 DEF NagInv

LEMMA TypeStep ==
  ASSUME NagInv, [Next]_vars
  PROVE  TypeOK'
<1>1. CASE Interrupt
  BY <1>1, InterruptType DEF NagInv
<1>2. CASE MainLoop
  BY <1>2, MainLoopType DEF NagInv
<1>3. CASE PowerLoss
  BY <1>3, PowerLossType DEF NagInv
<1>4. CASE UNCHANGED vars
  BY <1>4 DEF NagInv, TypeOK, FlashTypeOK, NTypeOK, ControlTypeOK,
              ObservationTypeOK, vars
<1> QED
  BY <1>1, <1>2, <1>3, <1>4 DEF Next

\* NagInv holds in every state of every behaviour.
THEOREM NagInvariant == Spec => []NagInv
<1>1. NagInv /\ [Next]_vars => NagInv'
  BY TypeStep, RequestStep, LoopStep, BoundsStep, PositionStep, ReadingStep,
     ReplayStep DEF NagInv
<1> QED
  BY <1>1, InitInv, PTL DEF Spec

\* Flash, meta page, buffer, N, requests and loaded points keep their types,
\* whatever the interleaving of the interrupt, the main loop and power losses.
THEOREM TypeCorrect == Spec => []TypeOK
<1>1. NagInv => TypeOK
  BY DEF NagInv
<1> QED
  BY <1>1, NagInvariant, PTL

\* Run_Nag_Save never writes beyond the page buffer and never counts more
\* points than the path has room for.
THEOREM BoundsCorrect == Spec => []RecorderInBounds
<1>1. NagInv => RecorderInBounds
  BY DEF NagInv
<1> QED
  BY <1>1, NagInvariant, PTL

\* Nag_Service erases and programs pages of the selected path only.
LEMMA ConfinedInv == NagInv => PageConfined
<1> SUFFICES ASSUME NagInv, pc \in {"pageErase", "pageWrite"}
             PROVE  Flash_page_index \in PathPages(Nag_PathSelect)
  BY DEF PageConfined
<1>1. Nag_SystemRun_Index = "RECORD"
  BY DEF NagInv, RequestInv
<1> QED
  BY <1>1 DEF NagInv, RecordPosition

THEOREM PagesConfined == Spec => []PageConfined
  BY ConfinedInv, NagInvariant, PTL

\* A page request is never made for the last page of the path: the branch of
\* Nag_Service that runs out of pages is dead code.
LEMMA LastPageInv == NagInv => LastPageIsFinal
<1> SUFFICES ASSUME NagInv, At("finish"), write = "PAGE"
             PROVE  Flash_page_index > EndPage[Nag_PathSelect]
  BY DEF LastPageIsFinal
<1> DEFINE above == StartPage[Nag_PathSelect] - Flash_page_index
           room  == StartPage[Nag_PathSelect] - EndPage[Nag_PathSelect]
<1>1. Nag_SystemRun_Index = "RECORD"
  BY DEF NagInv, RequestInv
<1>2. /\ Save_index = above * PointsPerPage + PointsPerPage
      /\ Save_index < Capacity(Nag_PathSelect)
  BY <1>1 DEF NagInv, RecordPosition
<1>3. Capacity(Nag_PathSelect) <= (room + 1) * PointsPerPage
  BY Typed, CapacityType
<1>4. /\ above \in Int /\ room \in Int /\ PointsPerPage \in Nat \ {0}
      /\ Save_index \in Int /\ Capacity(Nag_PathSelect) \in Int
  BY Typed
<1>5. above < room => Flash_page_index > EndPage[Nag_PathSelect]
  BY Typed
<1> HIDE DEF above, room
<1>6. /\ (above + 1) * PointsPerPage = above * PointsPerPage + PointsPerPage
      /\ above * PointsPerPage \in Int /\ (room + 1) * PointsPerPage \in Int
  BY <1>4, DistributeOne
<1>7. (above + 1) * PointsPerPage < (room + 1) * PointsPerPage
  BY <1>2, <1>3, <1>4, <1>6
<1>8. above + 1 < room + 1
  BY <1>4, <1>7, CancelFactor
<1> QED
  BY <1>4, <1>5, <1>8

THEOREM LastPageFinal == Spec => []LastPageIsFinal
  BY LastPageInv, NagInvariant, PTL

\* A replay steers by points that were loaded for it.
LEMMA ReplayInv == NagInv => ReplayInRange
<1> SUFFICES ASSUME NagInv, Running("REPLAY"), Run_index > 0
             PROVE  Prospect \in 0..(Len(Nav_read) - 1)
  BY DEF ReplayInRange
<1>1. Save_index = Len(Nav_read) /\ Save_index >= 2
  BY DEF NagInv, ReplayPosition, LoopInv, Running
<1>2. Save_index \in Nat /\ Run_index \in Nat
  BY DEF NagInv, TypeOK, NTypeOK
<1> QED
  BY <1>1, <1>2 DEF Prospect, Min2

THEOREM ReplayStaysInRange == Spec => []ReplayInRange
  BY ReplayInv, NagInvariant, PTL

\* The flash pages of a path change only while it is recorded or cleared.
LEMMA OtherPathsStep ==
  ASSUME NagInv, [Next]_vars, NEW p \in Paths, p # Nag_PathSelect,
         ~(local.op = "CLEAR" /\ local.path = p), NEW pg \in PathPages(p)
  PROVE  flash'[pg] = flash[pg]
<1> USE DEF NagInv
<1>1. pg \in DataPages /\ flash \in [DataPages -> PageType]
  BY PathPagesAreData DEF TypeOK, FlashTypeOK
<1>2. ASSUME NEW q \in Paths, q # p, NEW page \in PathPages(q)
      PROVE  pg # page
  <2>1. \/ StartPage[p] < EndPage[q]
        \/ StartPage[q] < EndPage[p]
    BY <1>2, LayoutAssumption DEF Paths
  <2>2. /\ StartPage[p] \in Nat /\ EndPage[p] \in Nat
        /\ StartPage[q] \in Nat /\ EndPage[q] \in Nat
    BY LayoutAssumption DEF Paths
  <2>3. /\ pg \in Int /\ EndPage[p] <= pg /\ pg <= StartPage[p]
        /\ page \in Int /\ EndPage[q] <= page /\ page <= StartPage[q]
    BY <2>2 DEF PathPages
  <2> QED
    BY <2>1, <2>2, <2>3
<1>3. CASE PageErase
  BY <1>1, <1>2, <1>3, ConfinedInv, Typed DEF PageErase, PageConfined
<1>4. CASE PageWrite
  BY <1>1, <1>2, <1>4, ConfinedInv, Typed DEF PageWrite, PageConfined
<1>5. CASE ClearErase
  <2>1. /\ local.path \in Paths /\ local.path # p
        /\ local.page \in PathPages(local.path)
    BY <1>5, LocalFields, LayoutAssumption
    DEF ClearErase, LoopInv, TypeOK, ControlTypeOK, PathPages, Paths
  <2> QED
    BY <1>1, <1>2, <1>5, <2>1 DEF ClearErase
<1>6. CASE flash' = flash
  BY <1>6
<1> QED
  BY <1>3, <1>4, <1>5, <1>6
  DEF Next, Interrupt, MainLoop, PowerLoss, Run_Nag_Save, EndRecording, RequestRead,
      Nag_Run, GnssIdle, GnssBegin, GnssErase, GnssWrite, GnssDone, MetaErase,
      MetaWrite, ServiceIdle, ServiceWrite, PageDone, Finish, Finalize, ReadIdle,
      NagFlashRead, ReadNothing, ReadStep, ReadDone, MenuIdle, MenuSave, MenuOpen,
      ClearMeta, InitFirstHalf, InitRest, vars

\* A recording or a clear leaves the pages of every other path alone.
THEOREM PathsIndependent == Spec => OtherPathsUntouched
<1>1. NagInv /\ [Next]_vars =>
        [\A p \in Paths :
           p # Nag_PathSelect /\ ~(local.op = "CLEAR" /\ local.path = p)
             => \A pg \in PathPages(p) : flash'[pg] = flash[pg]]_vars
  BY OtherPathsStep
<1> QED
  BY <1>1, NagInvariant, PTL DEF Spec, OtherPathsUntouched
=============================================================================
