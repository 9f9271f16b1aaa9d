-------------------------------- MODULE Nag --------------------------------
(***************************************************************************)
(* The inertial path recorder and player of Flash.c as two contexts share  *)
(* it: the 1 ms timer interrupt, which calls Nag_System every 5 ms, and    *)
(* the main loop, which saves GNSS fixes, runs Nag_Service and then the    *)
(* menu.  The interrupt can preempt the main loop between any two of its   *)
(* steps; both work on N, on the request flags and on the one page buffer  *)
(* flash_union_buffer, without a lock.  A power loss can fall between any  *)
(* two steps and leaves only the flash.                                    *)
(***************************************************************************)
EXTENDS NagFlash

CONSTANTS
  Fix,              \* a word of the GNSS cache structure
  CacheWords,       \* length of that structure in words
  Nag_Set_mileage,  \* distance between two points
  TickSteps,        \* distances the car can cover in 5 ms
  MaxMileage,       \* bound: distance kept in N.Mileage_All
  MaxGnssSaves,     \* bound: GNSS cache saves (0: the receiver never has a fix)
  MaxPowerLosses    \* bound: power losses

VARIABLES
  flash,      \* data pages of the work flash
  meta,       \* meta page
  gnssPage,   \* page 0, the GNSS cache
  buffer,     \* flash_union_buffer, words 0..PointsPerPage-1
  \* the struct Nag N and the selected path
  Mileage_All, Nag_Stop_f, size, Run_index, Save_index, Save_state, End_f,
  Flash_page_index, Nag_SystemRun_Index, Nag_PathSelect,
  write,      \* nag_flash_write_pending and _final: the write asked for
  read,       \* nag_flash_read_pending, _active and the cursor of the read
  Nav_read,   \* the points loaded for replay, nag_read_copied of them
  drive,      \* fuxian, target_speed, STOP_FLAG
  pc, local,  \* position of the main loop and the locals of its routine
  trail,      \* observation: the points recorded since the last Init_Nag_Path
  dirty,      \* observation: paths whose pages are being replaced
  gnssSaves,  \* observation: GNSS saves so far
  losses      \* observation: power losses so far

flashVars == <<flash, meta, gnssPage>>
N == <<Mileage_All, Nag_Stop_f, size, Run_index, Save_index, Save_state, End_f,
       Flash_page_index, Nag_SystemRun_Index, Nag_PathSelect>>
requests == <<write, read>>
main == <<pc, local>>
ghosts == <<trail, dirty, gnssSaves, losses>>
vars == <<flash, meta, gnssPage, buffer, N, write, read, Nav_read, drive, pc,
          local, trail, dirty, gnssSaves, losses>>

ASSUME RecorderAssumption ==
  /\ CacheWords \in 1..PointsPerPage
  /\ Nag_Set_mileage \in Nat \ {0}
  /\ TickSteps \subseteq Int
  /\ \A d \in TickSteps : d < Nag_Set_mileage
  /\ MaxMileage \in Nat
  /\ MaxGnssSaves \in Nat
  /\ MaxPowerLosses \in Nat

-----------------------------------------------------------------------------
BlankBuffer == BlankPage

NoRead == [pending |-> FALSE, active |-> FALSE, page |-> 0, count |-> 0]

NoIndexes == [p \in Paths |-> 0]
Locals(path, op, page, pos) ==
  [path |-> path, op |-> op, page |-> page, pos |-> pos, new |-> NoIndexes,
   then |-> "gnss"]
NoLocals == Locals(1, "NONE", 0, 0)

\* drive at power-up: replay off, no speed, output enabled (Body_ctrl.c:29).
PowerUpDrive == [fuxian |-> 0, target_speed |-> "ZERO", STOP_FLAG |-> 1]

Stopped == [fuxian |-> 0, target_speed |-> "ZERO", STOP_FLAG |-> 0]

At(label) == pc = label
\* The locals of a routine are gone once the main loop leaves it.
Goto(label) == pc' = label /\ local' = NoLocals
\* The next turn of a loop over pages or words.
Move(page, pos) ==
  /\ pc' = pc
  /\ local' = [path |-> local.path, op |-> local.op, page |-> page, pos |-> pos,
               new |-> local.new, then |-> local.then]
Advance == Move(local.page, local.pos + 1)

Init ==
  /\ flash = [pg \in DataPages |-> BlankPage]
  /\ meta = BlankMeta
  /\ gnssPage = [i \in 0..(CacheWords - 1) |-> Blank]
  /\ buffer = BlankBuffer
  /\ Mileage_All = 0 /\ Nag_Stop_f = 0 /\ size = 0 /\ Run_index = 0
  /\ Save_index = 0 /\ Save_state = 0 /\ End_f = 0
  /\ Flash_page_index = StartPage[1]
  /\ Nag_SystemRun_Index = "IDLE" /\ Nag_PathSelect = 1
  /\ write = "NONE" /\ read = NoRead
  /\ Nav_read = <<>>
  /\ drive = PowerUpDrive
  /\ pc = "gnss" /\ local = NoLocals
  /\ trail = <<>>
  /\ dirty = {}
  /\ gnssSaves = 0
  /\ losses = 0

-----------------------------------------------------------------------------
(***************************************************************************)
(* The timer interrupt: Nag_System, called every 5 ms.                     *)
(***************************************************************************)
RequestWrite(kind) ==
  write' = IF write = "NONE" THEN kind ELSE write

\* The read request with its flags and its page changed.
ReadAt(pending, active, page) ==
  [pending |-> pending, active |-> active, page |-> page, count |-> read.count]

StopReplay == Nag_Stop_f' = 1 /\ drive' = Stopped

Running(mode) == Nag_SystemRun_Index = mode /\ Nag_Stop_f = 0

\* Slip: sampling by distance alone.
SampleDue_Always(miles) == miles >= Nag_Set_mileage

\* Every Nag_Set_mileage a heading is due, unless a write is awaited or there
\* is no room.
SampleDue(miles) ==
  /\ write = "NONE"
  /\ Save_index < Capacity(Nag_PathSelect)
  /\ size < PointsPerPage
  /\ miles >= Nag_Set_mileage

\* Slip: the path counts as full one point too late.
WriteCalledFor_Late(points, buffered) ==
  IF points > Capacity(Nag_PathSelect) THEN "FINAL"
  ELSE IF buffered >= PointsPerPage THEN "PAGE"
  ELSE "NONE"

\* The write that a number of points on the path and in the buffer calls for.
WriteCalledFor(points, buffered) ==
  IF points >= Capacity(Nag_PathSelect) THEN "FINAL"
  ELSE IF buffered >= PointsPerPage THEN "PAGE"
  ELSE "NONE"

\* Run_Nag_Save: sample the heading when it is due, and hand the buffer to the
\* main loop when the page or the path is full.
Run_Nag_Save(d, yaw) ==
  LET miles  == Mileage_All + d
      sample == SampleDue(miles)
      taken  == IF sample THEN 1 ELSE 0
  IN  /\ Running("RECORD") /\ End_f = 0
      /\ miles <= MaxMileage
      /\ Mileage_All' = miles - taken * Nag_Set_mileage
      /\ size' = size + taken
      /\ Save_index' = Save_index + taken
      /\ buffer' = IF sample THEN [buffer EXCEPT ![size] = yaw] ELSE buffer
      /\ trail' = IF sample THEN Append(trail, yaw) ELSE trail
      /\ RequestWrite(WriteCalledFor(Save_index', size'))
      /\ UNCHANGED <<Nag_Stop_f, Run_index, Save_state, End_f, Flash_page_index,
                     Nag_SystemRun_Index, Nag_PathSelect>>
      /\ UNCHANGED <<flashVars, read, Nav_read, drive, main, dirty, gnssSaves,
                     losses>>

\* Nag_Read after the operator asked for the end of the recording.
EndRecording ==
  /\ Running("RECORD") /\ End_f \in {1, 2}
  /\ IF End_f = 1 THEN RequestWrite("FINAL") /\ End_f' = 1
                  ELSE write' = write /\ End_f' = 3
  /\ UNCHANGED <<Mileage_All, Nag_Stop_f, size, Run_index, Save_index, Save_state,
                 Flash_page_index, Nag_SystemRun_Index, Nag_PathSelect>>
  /\ UNCHANGED <<flashVars, buffer, read, Nav_read, drive, main, ghosts>>

RequestRead ==
  /\ Running("PRELOAD")
  /\ ~read.pending /\ ~read.active /\ Save_state = 0
  /\ read' = ReadAt(TRUE, FALSE, read.page)
  /\ UNCHANGED <<flashVars, buffer, N, write, Nav_read, drive, main, ghosts>>

\* Nag_Run and Run_Nag_GPS: follow the loaded headings, one per
\* Nag_Set_mileage, and stop the car past the last but one.
Nag_Run(d) ==
  LET miles == Mileage_All + d
      due   == miles >= Nag_Set_mileage
      over  == Save_index < 2 \/ (due /\ Run_index > Save_index - 2)
  IN  /\ Running("REPLAY")
      /\ miles <= MaxMileage
      /\ IF over
           THEN Mileage_All' = miles /\ Run_index' = Run_index /\ StopReplay
         ELSE IF due
           THEN /\ Mileage_All' = miles - Nag_Set_mileage
                /\ Run_index' = Run_index + 1
                /\ UNCHANGED <<Nag_Stop_f, drive>>
         ELSE Mileage_All' = miles /\ UNCHANGED <<Run_index, Nag_Stop_f, drive>>
      /\ UNCHANGED <<size, Save_index, Save_state, End_f, Flash_page_index,
                     Nag_SystemRun_Index, Nag_PathSelect>>
      /\ UNCHANGED <<flashVars, buffer, requests, Nav_read, main, ghosts>>

\* The point Nag_Run steers by once it has advanced (prospect in the code).
Prospect == Min2(Run_index, Save_index - 2)

\* Half of a memset takes far less than 5 ms: one tick at most falls into it,
\* and none after that tick has counted a distance.
WindowOpen == At("initRest") => Mileage_All = 0

Interrupt ==
  /\ WindowOpen
  /\ \/ \E d \in TickSteps, yaw \in Yaws : Run_Nag_Save(d, yaw)
     \/ EndRecording
     \/ RequestRead
     \/ \E d \in TickSteps : Nag_Run(d)

-----------------------------------------------------------------------------
(***************************************************************************)
(* The main loop, first part: gnss_cache_save when a sentence brought a    *)
(* fix.  It clears and fills the shared buffer, programs page 0 from it    *)
(* and clears it again, whatever the recorder was keeping there.  The      *)
(* 5 minute throttle is left to the choice between GnssIdle and GnssBegin. *)
(***************************************************************************)
GnssIdle ==
  /\ At("gnss")
  /\ Goto("service")
  /\ UNCHANGED <<flashVars, buffer, N, requests, Nav_read, drive, ghosts>>

GnssBegin ==
  /\ At("gnss")
  /\ gnssSaves < MaxGnssSaves
  /\ buffer' = [s \in Slots |-> IF s < CacheWords THEN Fix ELSE Blank]
  /\ gnssSaves' = gnssSaves + 1
  /\ Goto("gnssErase")
  /\ UNCHANGED <<flashVars, N, requests, Nav_read, drive, trail, dirty, losses>>

GnssErase ==
  /\ At("gnssErase")
  /\ gnssPage' = [i \in 0..(CacheWords - 1) |-> Blank]
  /\ Goto("gnssWrite")
  /\ UNCHANGED <<flash, meta, buffer, N, requests, Nav_read, drive, ghosts>>

GnssWrite ==
  /\ At("gnssWrite") /\ local.pos < CacheWords
  /\ gnssPage' = [gnssPage EXCEPT ![local.pos] = buffer[local.pos]]
  /\ Advance
  /\ UNCHANGED <<flash, meta, buffer, N, requests, Nav_read, drive, ghosts>>

\* Slip: the structure is left in the shared buffer.
GnssDone_NoClear ==
  /\ At("gnssWrite") /\ local.pos = CacheWords
  /\ Goto("service")
  /\ UNCHANGED <<flashVars, buffer, N, requests, Nav_read, drive, ghosts>>

GnssDone ==
  /\ At("gnssWrite") /\ local.pos = CacheWords
  /\ buffer' = BlankBuffer
  /\ Goto("service")
  /\ UNCHANGED <<flashVars, N, requests, Nav_read, drive, ghosts>>

-----------------------------------------------------------------------------
(***************************************************************************)
(* flash_Nag_Write_Meta and Nag_Clear_Path_Meta: read the three indexes,   *)
(* replace that of path p, erase the page and program it word by word.     *)
(* MetaBegin is the reading part of the action that calls it.              *)
(***************************************************************************)
MetaBegin(p, index, next) ==
  /\ pc' = "metaErase"
  /\ local' = [path |-> p, op |-> local.op, page |-> 0, pos |-> 1,
               new |-> [MetaValues(meta) EXCEPT ![p] = index], then |-> next]
  /\ buffer' = BlankBuffer
  /\ dirty' = dirty \cup {p}

MetaErase ==
  /\ At("metaErase")
  /\ meta' = BlankMeta
  /\ pc' = "metaWrite" /\ local' = local
  /\ UNCHANGED <<flash, gnssPage, buffer, N, requests, Nav_read, drive, ghosts>>

\* flash_write_page: indexes first, then the magic word, then the checksum.
MetaWrite ==
  LET i == local.pos
  IN  /\ At("metaWrite")
      /\ meta' = [idx   |-> IF i <= NumPaths THEN [meta.idx EXCEPT ![i] = local.new[i]]
                                              ELSE meta.idx,
                  magic |-> meta.magic \/ i = NumPaths + 1,
                  sum   |-> IF i = NumPaths + 2 THEN local.new ELSE meta.sum]
      /\ IF i < NumPaths + 2
           THEN Advance /\ UNCHANGED <<buffer, dirty>>
           ELSE /\ pc' = local.then
                /\ local' = Locals(local.path, local.op, 0, 0)
                /\ buffer' = BlankBuffer
                /\ dirty' = dirty \ {local.path}
      /\ UNCHANGED <<flash, gnssPage, N, requests, Nav_read, drive, trail,
                     gnssSaves, losses>>

-----------------------------------------------------------------------------
(***************************************************************************)
(* Nag_Service, the pending write: program the buffered points into the    *)
(* current page, then the meta page when the recording ends.               *)
(***************************************************************************)
\* Slip: a request with an empty buffer is left pending.
WritePending_NotEmpty == write # "NONE" /\ size > 0

WritePending == write # "NONE"

ServiceIdle ==
  /\ At("service") /\ ~WritePending
  /\ Goto("read")
  /\ UNCHANGED <<flashVars, buffer, N, requests, Nav_read, drive, ghosts>>

ServiceWrite ==
  /\ At("service") /\ WritePending
  /\ Goto(IF size > 0 THEN "pageErase" ELSE "pageDone")
  /\ UNCHANGED <<flashVars, buffer, N, requests, Nav_read, drive, ghosts>>

PageErase ==
  /\ At("pageErase")
  /\ flash' = [flash EXCEPT ![Flash_page_index] = BlankPage]
  /\ dirty' = dirty \cup {Nag_PathSelect}
  /\ Goto("pageWrite")
  /\ UNCHANGED <<meta, gnssPage, buffer, N, requests, Nav_read, drive, trail,
                 gnssSaves, losses>>

PageWrite ==
  /\ At("pageWrite")
  /\ flash' = [flash EXCEPT ![Flash_page_index] =
                 [@ EXCEPT ![local.pos] = buffer[local.pos]]]
  /\ IF local.pos + 1 < PointsPerPage THEN Advance ELSE Goto("pageDone")
  /\ UNCHANGED <<meta, gnssPage, buffer, N, requests, Nav_read, drive, ghosts>>

\* End of flash_Nag_Write and the meta write of a final request (Flash.c:591-600).
PageDone ==
  /\ At("pageDone")
  /\ IF write = "FINAL" \/ (size > 0 /\ End_f = 1)
       THEN MetaBegin(Nag_PathSelect, ClampSaveIndex(Nag_PathSelect, Save_index),
                      "finish")
       ELSE buffer' = BlankBuffer /\ Goto("finish") /\ dirty' = dirty
  /\ UNCHANGED <<flashVars, N, requests, Nav_read, drive, trail, gnssSaves, losses>>

\* Slips: the pages taken upwards; the page not advanced.
NextPage_Up == Flash_page_index + 1
NextPage_Same == Flash_page_index

\* The pages of a path are used from the highest number down.
NextPage == Flash_page_index - 1

\* Flash.c:602-625: end the recording, or go on to the next page.
Finish ==
  LET path_full == Flash_page_index <= EndPage[Nag_PathSelect]
  IN  /\ At("finish")
      /\ size' = 0
      /\ IF write = "FINAL"
           THEN /\ End_f' = 2
                /\ Goto("finalize")
                /\ UNCHANGED <<Flash_page_index, Nag_SystemRun_Index, Nag_Stop_f,
                               buffer, write, dirty>>
         ELSE IF path_full
           THEN /\ End_f' = 2
                /\ Nag_SystemRun_Index' = "IDLE" /\ Nag_Stop_f' = 1
                /\ MetaBegin(Nag_PathSelect,
                             ClampSaveIndex(Nag_PathSelect, Save_index), "read")
                /\ write' = "NONE"
                /\ UNCHANGED Flash_page_index
         ELSE   /\ Flash_page_index' = NextPage
                /\ buffer' = BlankBuffer
                /\ write' = "NONE"
                /\ Goto("read")
                /\ UNCHANGED <<End_f, Nag_SystemRun_Index, Nag_Stop_f, dirty>>
      /\ UNCHANGED <<Mileage_All, Run_index, Save_index, Save_state, Nag_PathSelect>>
      /\ UNCHANGED <<flashVars, read, Nav_read, drive, trail, gnssSaves, losses>>

\* Second half of the final branch: between N.End_f = 2 and
\* N.Nag_SystemRun_Index = NAG_RUN_IDLE the interrupt may still see RECORD.
Finalize ==
  /\ At("finalize")
  /\ Nag_SystemRun_Index' = "IDLE"
  /\ write' = "NONE"
  /\ buffer' = BlankBuffer
  /\ trail' = <<>>
  /\ Goto("read")
  /\ UNCHANGED <<Mileage_All, Nag_Stop_f, size, Run_index, Save_index, Save_state,
                 End_f, Flash_page_index, Nag_PathSelect>>
  /\ UNCHANGED <<flashVars, read, Nav_read, drive, dirty, gnssSaves, losses>>

-----------------------------------------------------------------------------
(***************************************************************************)
(* Nag_Service, the pending read: look the index up, then load one page    *)
(* per pass of the main loop, and start the replay.                        *)
(***************************************************************************)
ReadIdle ==
  /\ At("read") /\ ~read.pending
  /\ Goto("readStep")
  /\ UNCHANGED <<flashVars, buffer, N, requests, Nav_read, drive, ghosts>>

\* NagFlashRead; a second request for a finished read is dropped.
NagFlashRead ==
  LET index == MetaValues(meta)[Nag_PathSelect]
  IN  /\ At("read") /\ read.pending
      /\ Goto("readStep")
      /\ IF Save_state # 0
           THEN /\ read' = ReadAt(FALSE, read.active, read.page)
                /\ UNCHANGED <<Save_index, Save_state, Nag_SystemRun_Index,
                               Nag_Stop_f, buffer, Nav_read, drive>>
         ELSE IF index < 2
           THEN /\ read' = ReadAt(FALSE, read.active, read.page)
                /\ Save_index' = index /\ Save_state' = 1
                /\ Nag_SystemRun_Index' = "IDLE"
                /\ StopReplay
                /\ buffer' = BlankBuffer
                /\ UNCHANGED Nav_read
         ELSE   /\ read' = [pending |-> FALSE, active |-> TRUE,
                            page |-> get_path_start_page(Nag_PathSelect),
                            count |-> Min2(index, Read_MaxSize)]
                /\ Save_index' = index
                /\ Nav_read' = <<>>
                /\ buffer' = BlankBuffer
                /\ UNCHANGED <<Save_state, Nag_SystemRun_Index, Nag_Stop_f, drive>>
      /\ UNCHANGED <<Mileage_All, size, Run_index, End_f, Flash_page_index,
                     Nag_PathSelect>>
      /\ UNCHANGED <<flashVars, write, ghosts>>

ReadNothing ==
  /\ At("readStep") /\ ~read.active
  /\ Goto("menu")
  /\ UNCHANGED <<flashVars, buffer, N, requests, Nav_read, drive, ghosts>>

\* Slips: the whole page copied, past the last point; the last point left out.
PageShare_Whole == [i \in 1..PointsPerPage |-> flash[read.page][i - 1]]
PageShare_OneLess ==
  [i \in 1..Min2(PointsPerPage, read.count - Len(Nav_read) - 1) |->

     flash[read.page][i - 1]]

\* The words nag_flash_read_step copies from the page it is at.
PageShare ==
  [i \in 1..Min2(PointsPerPage, read.count - Len(Nav_read)) |->
     flash[read.page][i - 1]]

\* Slip: the length asked for, whatever was loaded.
LoadedCount_Asked == read.count

\* What nag_finish_flash_read keeps as the length of the path.
LoadedCount == Len(Nav_read')

\* nag_flash_read_step: an erased page, the end of the path or the last
\* point ends the loading.
ReadStep ==
  LET over == \/ Len(Nav_read) >= read.count
              \/ read.page < EndPage[Nag_PathSelect]
              \/ flash[read.page] = BlankPage
  IN  /\ At("readStep") /\ read.active
      /\ Nav_read' = IF over THEN Nav_read ELSE Nav_read \o PageShare
      /\ buffer' = IF over THEN BlankBuffer ELSE flash[read.page]
      /\ IF over \/ Len(Nav_read') >= read.count
           THEN /\ read' = ReadAt(read.pending, FALSE, read.page)
                /\ Save_index' = LoadedCount
                /\ Goto("readDone")
           ELSE /\ read' = IF read.page > EndPage[Nag_PathSelect]
                             THEN ReadAt(read.pending, TRUE, read.page - 1) ELSE read
                /\ Save_index' = Save_index
                /\ Goto("menu")
      /\ UNCHANGED <<Mileage_All, Nag_Stop_f, size, Run_index, Save_state, End_f,
                     Flash_page_index, Nag_SystemRun_Index, Nag_PathSelect>>
      /\ UNCHANGED <<flashVars, write, drive, ghosts>>

\* nag_finish_flash_read after nag_flash_read_active = 0: until Save_state is
\* set the interrupt may ask for the same read again.
ReadDone ==
  /\ At("readDone")
  /\ Save_state' = 1
  /\ IF Save_index >= 2
       THEN /\ Run_index' = 0 /\ Mileage_All' = 0 /\ Nag_Stop_f' = 0
            /\ Nag_SystemRun_Index' = "REPLAY"
            /\ drive' = [fuxian |-> 1, target_speed |-> "USER",
                         STOP_FLAG |-> drive.STOP_FLAG]
       ELSE /\ Nag_SystemRun_Index' = "IDLE"
            /\ StopReplay
            /\ UNCHANGED <<Run_index, Mileage_All>>
  /\ Goto("menu")
  /\ UNCHANGED <<size, Save_index, End_f, Flash_page_index, Nag_PathSelect>>
  /\ UNCHANGED <<flashVars, buffer, requests, Nav_read, ghosts>>

-----------------------------------------------------------------------------
(***************************************************************************)
(* The path pages of the menu (Menu.c, groups A, B and C): each acts once, *)
(* on the pass of the main loop that enters it.                            *)
(***************************************************************************)
MenuIdle ==
  /\ At("menu")
  /\ Goto("gnss")
  /\ UNCHANGED <<flashVars, buffer, N, requests, Nav_read, drive, ghosts>>

\* Save: whatever path its page belongs to, it ends the recording under way.
MenuSave ==
  /\ At("menu") /\ Nag_SystemRun_Index = "RECORD"
  /\ End_f' = 1
  /\ Goto("gnss")
  /\ UNCHANGED <<Mileage_All, Nag_Stop_f, size, Run_index, Save_index, Save_state,
                 Flash_page_index, Nag_SystemRun_Index, Nag_PathSelect>>
  /\ UNCHANGED <<flashVars, buffer, requests, Nav_read, drive, ghosts>>

\* Record and Replay begin with Init_Nag_Path, Clear with the first page.
MenuOpen(p, op) ==
  /\ At("menu")
  /\ pc' = IF op = "CLEAR" THEN "clearErase" ELSE "init"
  /\ local' = Locals(p, op, EndPage[p], 0)
  /\ UNCHANGED <<flashVars, buffer, N, requests, Nav_read, drive, ghosts>>

ClearErase ==
  /\ At("clearErase") /\ local.page <= StartPage[local.path]
  /\ flash' = [flash EXCEPT ![local.page] = BlankPage]
  /\ dirty' = dirty \cup {local.path}
  /\ Move(local.page + 1, local.pos)
  /\ UNCHANGED <<meta, gnssPage, buffer, N, requests, Nav_read, drive, trail,
                 gnssSaves, losses>>

ClearMeta ==
  /\ At("clearErase") /\ local.page > StartPage[local.path]
  /\ MetaBegin(local.path, 0, "init")
  /\ UNCHANGED <<flashVars, N, requests, Nav_read, drive, trail, gnssSaves, losses>>

\* Init_Nag_Path up to the middle of memset(&N, 0, sizeof(N)): the fields up
\* to Save_index are zero, the mode is still the old one.
InitFirstHalf ==
  /\ At("init")
  /\ Nag_PathSelect' = local.path
  /\ Mileage_All' = 0 /\ Nag_Stop_f' = 0
  /\ size' = 0 /\ Run_index' = 0 /\ Save_index' = 0
  /\ trail' = <<>>
  /\ pc' = "initRest" /\ local' = local
  /\ UNCHANGED <<Save_state, End_f, Flash_page_index, Nag_SystemRun_Index>>
  /\ UNCHANGED <<flashVars, buffer, requests, Nav_read, drive, dirty, gnssSaves,
                 losses>>

\* The rest of Init_Nag_Path and of the menu page that called it.
InitRest ==
  /\ At("initRest")
  /\ Save_state' = 0 /\ End_f' = 0
  /\ Flash_page_index' = get_path_start_page(local.path)
  /\ Nag_SystemRun_Index' = CASE local.op = "RECORD" -> "RECORD"
                              [] local.op = "REPLAY" -> "PRELOAD"
                              [] OTHER -> "IDLE"
  /\ write' = "NONE" /\ read' = NoRead
  /\ buffer' = BlankBuffer
  /\ drive' = IF local.op = "REPLAY"
                THEN [fuxian |-> 0, target_speed |-> "ZERO",
                      STOP_FLAG |-> drive.STOP_FLAG]
                ELSE drive
  /\ Nav_read' = <<>>
  /\ Goto("gnss")
  /\ UNCHANGED <<Mileage_All, Nag_Stop_f, size, Run_index, Save_index,
                 Nag_PathSelect>>
  /\ UNCHANGED <<flashVars, ghosts>>

-----------------------------------------------------------------------------
\* The supply fails between two steps; the car boots again with its flash.
PowerLoss ==
  /\ losses < MaxPowerLosses
  /\ losses' = losses + 1
  /\ buffer' = BlankBuffer
  /\ Mileage_All' = 0 /\ Nag_Stop_f' = 0 /\ size' = 0 /\ Run_index' = 0
  /\ Save_index' = 0 /\ Save_state' = 0 /\ End_f' = 0
  /\ Flash_page_index' = StartPage[1]
  /\ Nag_SystemRun_Index' = "IDLE" /\ Nag_PathSelect' = 1
  /\ write' = "NONE" /\ read' = NoRead
  /\ Nav_read' = <<>>
  /\ drive' = PowerUpDrive
  /\ Goto("gnss")
  /\ trail' = <<>>
  /\ UNCHANGED <<flashVars, dirty, gnssSaves>>

MainLoop ==
  \/ GnssIdle \/ GnssBegin \/ GnssErase \/ GnssWrite \/ GnssDone
  \/ MetaErase \/ MetaWrite
  \/ ServiceIdle \/ ServiceWrite \/ PageErase \/ PageWrite \/ PageDone
  \/ Finish \/ Finalize
  \/ ReadIdle \/ NagFlashRead \/ ReadNothing \/ ReadStep \/ ReadDone
  \/ MenuIdle \/ MenuSave
  \/ \E p \in Paths, op \in {"RECORD", "REPLAY", "CLEAR"} : MenuOpen(p, op)
  \/ ClearErase \/ ClearMeta \/ InitFirstHalf \/ InitRest

Next == Interrupt \/ MainLoop \/ PowerLoss

Spec == Init /\ [][Next]_vars

-----------------------------------------------------------------------------
RunModes == {"IDLE", "RECORD", "PRELOAD", "REPLAY"}
Labels == {"gnss", "gnssErase", "gnssWrite", "service", "pageErase", "pageWrite",
           "pageDone", "metaErase", "metaWrite", "finish", "finalize", "read",
           "readStep", "readDone", "menu", "clearErase", "init", "initRest"}

PageType == [Slots -> Words]
BufferType == [Slots -> Words \cup {Fix}]
MetaType == [idx : [Paths -> Nat \cup {Blank}], magic : BOOLEAN,
             sum : [Paths -> Nat] \cup {Blank}]
WriteRequests == {"NONE", "PAGE", "FINAL"}
ReadType == [pending : BOOLEAN, active : BOOLEAN, page : Int, count : Nat]
DriveType == [fuxian : 0..1, target_speed : {"ZERO", "USER"}, STOP_FLAG : 0..1]
LocalType == [path : Paths, op : {"NONE", "RECORD", "REPLAY", "CLEAR"},
              page : Nat, pos : Nat, new : [Paths -> Nat],
              then : {"gnss", "finish", "read", "init"}]

\* Type correctness of the recorder: flash, buffer, N, the requests and the
\* loaded points keep the shape the two contexts rely on; no GNSS word ever
\* reaches a data page or the points of a replay.
FlashTypeOK ==
  /\ flash \in [DataPages -> PageType]
  /\ meta \in MetaType
  /\ gnssPage \in [0..(CacheWords - 1) -> Words \cup {Fix}]
  /\ buffer \in BufferType

NTypeOK ==
  /\ Mileage_All \in Int
  /\ Nag_Stop_f \in 0..1
  /\ size \in Nat /\ Run_index \in Nat /\ Save_index \in Nat
  /\ Save_state \in 0..1 /\ End_f \in 0..3
  /\ Flash_page_index \in Int
  /\ Nag_SystemRun_Index \in RunModes
  /\ Nag_PathSelect \in Paths

ControlTypeOK ==
  /\ write \in WriteRequests /\ read \in ReadType
  /\ Nav_read \in Seq(Words)
  /\ drive \in DriveType
  /\ pc \in Labels /\ local \in LocalType

ObservationTypeOK ==
  /\ trail \in Seq(Yaws)
  /\ dirty \subseteq Paths
  /\ gnssSaves \in 0..MaxGnssSaves
  /\ losses \in 0..MaxPowerLosses

TypeOK == FlashTypeOK /\ NTypeOK /\ ControlTypeOK /\ ObservationTypeOK

-----------------------------------------------------------------------------
\* The two indexes of the recorder never leave their arrays: the interrupt
\* writes flash_union_buffer[N.size] only below the page length, and no more
\* points are counted than the path has room for, whenever the main loop
\* empties the buffer, changes the path or resets N under it.
RecorderInBounds ==
  /\ size <= PointsPerPage
  /\ Save_index <= Capacity(Nag_PathSelect)

\* Nag_Service erases and programs only pages of the selected path, although
\* Flash_page_index counts down towards the next path's pages.
PageConfined ==
  pc \in {"pageErase", "pageWrite"} => Flash_page_index \in PathPages(Nag_PathSelect)

\* The request for the last page is always a final one, so the branch of
\* Nag_Service that runs out of pages (Flash.c:610-618) is never taken.
LastPageIsFinal ==
  At("finish") /\ write = "PAGE" => Flash_page_index > EndPage[Nag_PathSelect]

\* A recording or a clear never changes a page of another path.
OtherPathsUntouched ==
  [][\A p \in Paths :
       p # Nag_PathSelect /\ ~(local.op = "CLEAR" /\ local.path = p)
         => \A pg \in PathPages(p) : flash'[pg] = flash[pg]]_vars

\* What a read of path p finds: as many words as the index page counts, taken
\* page by page from the top.  During the rewrite of the index page the
\* indexes are those being written.
PathIndex(p) ==
  IF pc \in {"metaErase", "metaWrite"} THEN local.new[p] ELSE MetaValues(meta)[p]

Content(p) ==
  [i \in 1..PathIndex(p) |->
     flash[StartPage[p] - ((i - 1) \div PointsPerPage)][(i - 1) % PointsPerPage]]

\* The recorder implements the path store, as long as no GNSS fix is cached.
Store == INSTANCE PathStore
  WITH Points <- Yaws, Room <- Capacity, torn <- dirty,
       store <- [p \in Paths |-> IF p \in dirty THEN <<>> ELSE Content(p)]

ImplementsStore == Store!Spec

ReplayStarts == Nag_SystemRun_Index = "PRELOAD" /\ Nag_SystemRun_Index' = "REPLAY"

\* The replay starts with exactly the points of the saved path, unless the
\* pages of that path were being replaced when it was read.
ReplayLoadsSaved ==
  [][ReplayStarts /\ Nag_PathSelect \notin dirty
       => Nav_read = Content(Nag_PathSelect)]_vars

\* The replay steers by a point that was loaded in this session, never by
\* what the array held before, even if the loading stopped early.
ReplayInRange ==
  Running("REPLAY") /\ Run_index > 0 => Prospect \in 0..(Len(Nav_read) - 1)

-----------------------------------------------------------------------------
(***************************************************************************)
(* The inductive invariant behind the bounds above.                        *)
(***************************************************************************)

\* Which mode goes with which request, and which request with which step of
\* the main loop.
RequestInv ==
  /\ write # "NONE" => Nag_SystemRun_Index = "RECORD"
  /\ read.pending => /\ Nag_SystemRun_Index # "RECORD"
                     /\ Save_state = 0 => Nag_SystemRun_Index = "PRELOAD"
  /\ read.active => Nag_SystemRun_Index = "PRELOAD"
  /\ pc \in {"pageErase", "pageWrite", "pageDone", "finish", "finalize"}
       => write # "NONE"
  /\ pc \in {"metaErase", "metaWrite"} /\ local.then = "finish"
       => write # "NONE"
  /\ At("finalize") => write = "FINAL"
  /\ ~(read.pending /\ read.active)
  /\ At("readDone") => Nag_SystemRun_Index = "PRELOAD" /\ ~read.active

\* What the steps of a loop and of Init_Nag_Path find, and that outside
\* gnss_cache_save the buffer holds words of a path.
LoopInv ==
  /\ At("pageWrite") => local.pos < PointsPerPage
  /\ At("initRest") => /\ Nag_PathSelect = local.path
                       /\ size = 0 /\ Save_index = 0 /\ Run_index = 0
  /\ At("clearErase") => local.op = "CLEAR" /\ EndPage[local.path] <= local.page
  /\ ~(pc \in {"gnssErase", "gnssWrite"}) => buffer \in PageType

\* Where the recorder stands: the points counted so far are the full pages
\* above the current one and the points in the buffer, and a request that is
\* not final is made for a full buffer with room left on the path.
RecordPosition ==
  Nag_SystemRun_Index = "RECORD" /\ ~At("initRest") /\ ~At("finalize") =>
    /\ Flash_page_index \in PathPages(Nag_PathSelect)
    /\ Save_index = (StartPage[Nag_PathSelect] - Flash_page_index) * PointsPerPage
                     + size
    /\ write = "PAGE" => size = PointsPerPage /\ Save_index < Capacity(Nag_PathSelect)

\* Where a read stands: on a page of the path, within the counted points.
ReadPosition ==
  read.active /\ ~At("initRest") =>
    /\ read.page \in PathPages(Nag_PathSelect)
    /\ Len(Nav_read) <= read.count
    /\ read.count <= Capacity(Nag_PathSelect)

\* Where a replay stands: it has the points that were loaded, at least two.
ReplayPosition ==
  /\ At("readDone") => Save_index = Len(Nav_read)
  /\ Nag_SystemRun_Index = "REPLAY" /\ ~At("initRest") =>
       Save_index = Len(Nav_read) /\ Save_index >= 2

NagInv ==
  /\ TypeOK /\ RequestInv /\ LoopInv
  /\ RecorderInBounds /\ RecordPosition /\ ReadPosition /\ ReplayPosition

-----------------------------------------------------------------------------
(***************************************************************************)
(* Progress.  The timer interrupt is periodic and the main loop gets the   *)
(* processor between two interrupts: both are weakly fair.                 *)
(***************************************************************************)
FairSpec == Spec /\ WF_vars(Interrupt) /\ WF_vars(MainLoop)

Interrupted == At("initRest")

\* A recording the operator ends is closed: the mode leaves RECORD, unless
\* the interrupt has been switched off by N.Nag_Stop_f or another page opened.
SaveCompletes ==
  Running("RECORD") /\ End_f = 1
    ~> Nag_SystemRun_Index # "RECORD" \/ Interrupted

\* A replay that was asked for starts or is refused, under the same proviso.
PreloadCompletes ==
  Running("PRELOAD") ~> Nag_SystemRun_Index # "PRELOAD" \/ Interrupted

-----------------------------------------------------------------------------
(***************************************************************************)
(* What comments of the source say and the code does not do.               *)
(***************************************************************************)

\* Flash.c:276 says that the final write keeps the stored recording complete:
\* what a read finds after a save is what was recorded.
SavedIsComplete == At("finalize") => Content(Nag_PathSelect) = trail

\* Menu.c:348 says that the Record page begins to log trajectory data: the
\* recorder is not stopped when the mode is RECORD.
RecorderRuns == Nag_SystemRun_Index = "RECORD" /\ ~Interrupted => Nag_Stop_f = 0

\* gnss_cache.h says that a valid cache holds the complete data of the last
\* fix; gnss_cache_load accepts the page on its first word and a save_count
\* that is not zero, which an erased word is not either.
CacheIsComplete ==
  ~At("gnssWrite") /\ gnssPage[0] = Fix => \A i \in DOMAIN gnssPage : gnssPage[i] = Fix
=============================================================================
